---------------------------- MODULE HandleTable ----------------------------
(***************************************************************************)
(* handle_table.h: the table through which a guest names host objects.  A  *)
(* table is a record: slots, the objects by handle (0 is NULL), and free,  *)
(* the stack of free handles with its top at the end.  Handles count from  *)
(* 1.  The generation counters are left out: the code bumps them and never *)
(* reads them, so a handle that is reused names the new object.            *)
(***************************************************************************)
EXTENDS Naturals, Sequences, SequencesExt

\* an empty table of n slots; the lowest handle is given out first
HtInit(n) == [slots |-> [h \in 1 .. n |-> 0], free |-> [i \in 1 .. n |-> n + 1 - i]]

Capacity(t) == Len(t.slots)

\* twice the slots; only an exhausted table grows, so its stack starts anew
HtGrown(t) ==
    [slots |-> t.slots \o [i \in 1 .. Capacity(t) |-> 0],
     free |-> [i \in 1 .. Capacity(t) |-> 2 * Capacity(t) + 1 - i]]

HtRoom(t) == IF t.free = <<>> THEN HtGrown(t) ELSE t

\* the handle the next insertion gives out
HtNext(t) == Last(HtRoom(t).free)

HtInsert(t, o) ==
    LET r == HtRoom(t)
    IN  IF o = 0 THEN t
        ELSE [slots |-> [r.slots EXCEPT ![HtNext(t)] = o], free |-> Front(r.free)]

HtGet(t, h) == IF h \in 1 .. Capacity(t) THEN t.slots[h] ELSE 0

\* the slot is cleared and pushed, whether or not it held anything
HtRemove(t, h) ==
    IF h \in 1 .. Capacity(t)
    THEN [slots |-> [t.slots EXCEPT ![h] = 0], free |-> Append(t.free, h)]
    ELSE t

\* handles that name something
HtUsed(t) == {h \in 1 .. Capacity(t) : t.slots[h] # 0}

\* the stack lists every free handle, and each one once
HtExact(t) ==
    /\ \A i, j \in 1 .. Len(t.free) : i # j => t.free[i] # t.free[j]
    /\ {t.free[i] : i \in 1 .. Len(t.free)} = (1 .. Capacity(t)) \ HtUsed(t)
=============================================================================
