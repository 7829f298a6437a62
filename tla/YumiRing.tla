------------------------------ MODULE YumiRing ------------------------------
(***************************************************************************)
(* The lock-free multi-producer single-consumer ring every worker of the   *)
(* UDP client drains (network/yumi_udp.c, yumi_ring_t).  One action is one *)
(* access to shared memory: the producers' loads, compare-and-swap, slot   *)
(* write and ready store, the consumer's loads, clear and tail store.      *)
(* push and reserve + commit take the same steps (push merely copies the   *)
(* caller's item into the slot it reserved); try_reserve takes them once.  *)
(* pop and peek + advance likewise: the slot is in use from the ready load *)
(* to the clear.  head and tail are 64-bit counters that are never reduced *)
(* and are modelled as naturals; only the subtraction of a stale head      *)
(* wraps (see Full).                                                       *)
(***************************************************************************)
EXTENDS Naturals, Sequences, FiniteSets

CONSTANTS
    Producers,   \* the threads that enqueue
    Cap,         \* YUMI_RING_CAPACITY
    Patience,    \* YUMI_RING_SPIN_MAX + YUMI_RING_SLEEP_MAX
    MaxCalls     \* bound: enqueue calls each producer makes

ASSUME CapAssumption == Cap \in Nat \ {0}
ASSUME BoundAssumption == Patience \in Nat /\ MaxCalls \in Nat

VARIABLES
    head, tail,  \* the shared counters
    ready,       \* slot index -> has the slot been committed
    slots,       \* slot index -> the item last written there
    pc,          \* producer -> its next step
    kind,        \* producer -> "block" (push, reserve) or "try" (try_reserve)
    h,           \* producer -> its local head, the ticket once the CAS succeeds
    waits,       \* producer -> spins + sleeps of this call
    calls,       \* producer -> enqueue calls begun
    cpc,         \* the consumer's next step
    order,       \* history: the items in the order their CAS succeeded
    out,         \* history: the items consumed, as read from their slots
    failed       \* history: the items whose call returned false or NULL

prodVars == <<pc, kind, h, waits, calls>>
vars == <<head, tail, ready, slots, pc, kind, h, waits, calls, cpc, order, out,
          failed>>

Slots == 0 .. Cap - 1
Idx(k) == k % Cap

\* One item per call: the call's producer and number stand for the payload.
Items == Producers \X (1 .. MaxCalls)
NoItem == <<>>
ItemOf(p) == <<p, calls[p]>>

-----------------------------------------------------------------------------
(***************************************************************************)
(* yumi_ring_create: zeroed slots, flags and counters.                     *)
(***************************************************************************)
Init ==
    /\ head = 0 /\ tail = 0
    /\ ready = [i \in Slots |-> FALSE]
    /\ slots = [i \in Slots |-> NoItem]
    /\ pc = [p \in Producers |-> "idle"]
    /\ kind = [p \in Producers |-> "block"]
    /\ h = [p \in Producers |-> 0]
    /\ waits = [p \in Producers |-> 0]
    /\ calls = [p \in Producers |-> 0]
    /\ cpc = "idle"
    /\ order = <<>> /\ out = <<>> /\ failed = {}

\* A mutant: a capacity test that lets one producer too many through.
FullOffByOne(lh, lt) == (lh < lt) \/ (lh - lt > Cap)
\* head - tail >= CAPACITY in unsigned arithmetic: a local head that the
\* consumer has already passed wraps to a huge difference, so the ring looks full.
Full(lh, lt) == (lh < lt) \/ (lh - lt >= Cap)

(***************************************************************************)
(* Producers.                                                              *)
(***************************************************************************)
\* Enter push, reserve or try_reserve and load head.
LoadHead(p, k) ==
    /\ pc[p] = "idle" /\ calls[p] < MaxCalls
    /\ kind' = [kind EXCEPT ![p] = k]
    /\ calls' = [calls EXCEPT ![p] = @ + 1]
    /\ h' = [h EXCEPT ![p] = head]
    /\ waits' = [waits EXCEPT ![p] = 0]
    /\ pc' = [pc EXCEPT ![p] = "tail"]
    /\ UNCHANGED <<head, tail, ready, slots, cpc, order, out, failed>>

\* Load tail: with room the CAS is next.
SeeRoom(p) ==
    /\ pc[p] = "tail" /\ ~Full(h[p], tail)
    /\ pc' = [pc EXCEPT ![p] = "cas"]
    /\ UNCHANGED <<head, tail, ready, slots, kind, h, waits, calls, cpc, order,
                   out, failed>>

\* Load tail and find the ring full: ring_backpressure lets a blocking call
\* wait, then head is loaded anew.
Backpressure(p) ==
    /\ pc[p] = "tail" /\ Full(h[p], tail)
    /\ kind[p] = "block" /\ waits[p] < Patience
    /\ waits' = [waits EXCEPT ![p] = @ + 1]
    /\ pc' = [pc EXCEPT ![p] = "reload"]
    /\ UNCHANGED <<head, tail, ready, slots, kind, h, calls, cpc, order, out,
                   failed>>

ReloadHead(p) ==
    /\ pc[p] = "reload"
    /\ h' = [h EXCEPT ![p] = head]
    /\ pc' = [pc EXCEPT ![p] = "tail"]
    /\ UNCHANGED <<head, tail, ready, slots, kind, waits, calls, cpc, order, out,
                   failed>>

\* Full, and out of patience or not willing to wait: false or NULL.
GiveUp(p) ==
    /\ pc[p] = "tail" /\ Full(h[p], tail)
    /\ kind[p] = "try" \/ waits[p] >= Patience
    /\ pc' = [pc EXCEPT ![p] = "idle"]
    /\ failed' = failed \cup {ItemOf(p)}
    /\ UNCHANGED <<head, tail, ready, slots, kind, h, waits, calls, cpc, order,
                   out>>

\* The compare-and-swap of head succeeds: h[p] is now p's ticket.
CasWin(p) ==
    /\ pc[p] = "cas" /\ h[p] = head
    /\ head' = head + 1
    /\ order' = Append(order, ItemOf(p))
    /\ pc' = [pc EXCEPT ![p] = "fill"]
    /\ UNCHANGED <<tail, ready, slots, kind, h, waits, calls, cpc, out, failed>>

\* It fails: a blocking call has the current head in h[p] and loops (the weak
\* CAS may also fail with h[p] = head), try_reserve returns NULL.
CasLose(p) ==
    /\ pc[p] = "cas"
    /\ \/ /\ kind[p] = "block"
          /\ h' = [h EXCEPT ![p] = head]
          /\ pc' = [pc EXCEPT ![p] = "tail"]
          /\ UNCHANGED failed
       \/ /\ kind[p] = "try" /\ h[p] # head
          /\ pc' = [pc EXCEPT ![p] = "idle"]
          /\ failed' = failed \cup {ItemOf(p)}
          /\ UNCHANGED h
    /\ UNCHANGED <<head, tail, ready, slots, kind, waits, calls, cpc, order, out>>

\* Write the item into the reserved slot.
Fill(p) ==
    /\ pc[p] = "fill"
    /\ slots' = [slots EXCEPT ![Idx(h[p])] = ItemOf(p)]
    /\ pc' = [pc EXCEPT ![p] = "commit"]
    /\ UNCHANGED <<head, tail, ready, kind, h, waits, calls, cpc, order, out,
                   failed>>

\* Store the ready flag (yumi_ring_commit, or the end of push).
Commit(p) ==
    /\ pc[p] = "commit"
    /\ ready' = [ready EXCEPT ![Idx(h[p])] = TRUE]
    /\ pc' = [pc EXCEPT ![p] = "idle"]
    /\ UNCHANGED <<head, tail, slots, kind, h, waits, calls, cpc, order, out,
                   failed>>

(***************************************************************************)
(* The consumer.                                                           *)
(***************************************************************************)
\* A mutant: a consumer whose emptiness test is off by one: the last item stays behind.
SeeHeadOffByOne ==
    /\ cpc = "idle" /\ tail + 1 < head
    /\ cpc' = "ready"
    /\ UNCHANGED <<head, tail, ready, slots, prodVars, order, out, failed>>

\* Load head: not empty.
SeeHead ==
    /\ cpc = "idle" /\ tail < head
    /\ cpc' = "ready"
    /\ UNCHANGED <<head, tail, ready, slots, prodVars, order, out, failed>>

\* Load the flag of the slot at tail: use the slot if it is committed.
SeeReady ==
    /\ cpc = "ready"
    /\ cpc' = IF ready[Idx(tail)] THEN "use" ELSE "idle"
    /\ UNCHANGED <<head, tail, ready, slots, prodVars, order, out, failed>>

\* A mutant: a consumer that leaves the flag set: the slot looks committed again as soon
\* as it is reserved for the next lap.
ReleaseKeepFlag ==
    /\ cpc = "use"
    /\ out' = Append(out, slots[Idx(tail)])
    /\ cpc' = "advance"
    /\ UNCHANGED <<head, tail, ready, slots, prodVars, order, failed>>

\* Finish with the slot (pop copied it out, peek's caller processed it in
\* place) and clear its flag.
Release ==
    /\ cpc = "use"
    /\ out' = Append(out, slots[Idx(tail)])
    /\ ready' = [ready EXCEPT ![Idx(tail)] = FALSE]
    /\ cpc' = "advance"
    /\ UNCHANGED <<head, tail, slots, prodVars, order, failed>>

\* Store tail + 1: the slot may be reserved again.
Advance ==
    /\ cpc = "advance"
    /\ tail' = tail + 1
    /\ cpc' = "idle"
    /\ UNCHANGED <<head, ready, slots, prodVars, order, out, failed>>

-----------------------------------------------------------------------------
Producer(p) ==
    \/ \E k \in {"block", "try"} : LoadHead(p, k)
    \/ SeeRoom(p) \/ Backpressure(p) \/ ReloadHead(p) \/ GiveUp(p)
    \/ CasWin(p) \/ CasLose(p) \/ Fill(p) \/ Commit(p)

Consumer == SeeHead \/ SeeReady \/ Release \/ Advance

Next == (\E p \in Producers : Producer(p)) \/ Consumer

Spec == Init /\ [][Next]_vars

(***************************************************************************)
(* Every thread keeps running.  A producer that won its CAS fills and      *)
(* commits without any further condition; the consumer polls forever.      *)
(***************************************************************************)
Fairness ==
    /\ \A p \in Producers : WF_vars(Fill(p)) /\ WF_vars(Commit(p))
    /\ WF_vars(Consumer)

FairSpec == Spec /\ Fairness

-----------------------------------------------------------------------------
TypeOK ==
    /\ head \in Nat /\ tail \in Nat
    /\ ready \in [Slots -> BOOLEAN]
    /\ slots \in [Slots -> Items \cup {NoItem}]
    /\ pc \in [Producers -> {"idle", "tail", "reload", "cas", "fill", "commit"}]
    /\ kind \in [Producers -> {"block", "try"}]
    /\ h \in [Producers -> Nat]
    /\ waits \in [Producers -> 0 .. Patience]
    /\ calls \in [Producers -> 0 .. MaxCalls]
    /\ cpc \in {"idle", "ready", "use", "advance"}
    /\ order \in Seq(Items)
    /\ out \in Seq(Items \cup {NoItem})
    /\ failed \subseteq Items

Writing(p) == pc[p] \in {"fill", "commit"}

\* A reserved slot has one writer, and it is never the slot the consumer is
\* still using: head runs at most one lap ahead of tail (yumi_ring_push:109).
SlotExclusive ==
    /\ tail <= head /\ head <= tail + Cap
    /\ \A p, q \in Producers :
          Writing(p) /\ Writing(q) /\ p # q => Idx(h[p]) # Idx(h[q])
    /\ \A p \in Producers :
          Writing(p) /\ cpc \in {"use", "advance"} => Idx(h[p]) # Idx(tail)

\* What the consumer takes out is, in order and exactly, what the producers
\* put in: the k-th item consumed is the item of the k-th successful CAS, as
\* its producer wrote it (yumi_ring_pop:141, yumi_ring_peek:163).
Fifo ==
    /\ Len(out) <= Len(order)
    /\ \A k \in 1 .. Len(out) : out[k] = order[k]

\* A call that reported failure put nothing in the ring, and every call that
\* has returned either failed or is in the ring or consumed: the return value
\* of yumi_ring_push is the truth.
HonestResult ==
    \A p \in Producers : \A n \in 1 .. calls[p] :
        LET reserved == \E k \in 1 .. Len(order) : order[k] = <<p, n>>
        IN  /\ ~(reserved /\ <<p, n>> \in failed)
            /\ n < calls[p] \/ pc[p] = "idle" => reserved \/ <<p, n>> \in failed

\* No place in the ring is orphaned: a reserved ticket is committed, or its
\* producer is still writing it, or the consumer has just released it.  An
\* orphan would block every item behind it for ever.
NoOrphan ==
    \A k \in tail .. head - 1 :
        \/ ready[Idx(k)]
        \/ \E p \in Producers : Writing(p) /\ h[p] = k
        \/ cpc = "advance" /\ k = tail

\* The ring implements the bounded queue of WorkQueue: a place is taken by the
\* CAS, filled by the ready store and served by the release.
Served == 1 .. Len(out)
Queue == INSTANCE WorkQueue
            WITH committed <- {k \in 1 .. Len(order) :
                                  k \in Served \/ ready[Idx(k - 1)]}
ImplementsQueue == Queue!Spec

\* The inductive invariant: where the counters, the local heads, the flags and
\* the slots stand to one another between any two accesses to shared memory.
Counters ==
    /\ Len(order) = head
    /\ Len(out) = IF cpc = "advance" THEN tail + 1 ELSE tail
    /\ tail <= head /\ head <= tail + Cap
    /\ cpc # "idle" => tail < head
Flags ==
    /\ cpc = "use" => ready[Idx(tail)]
    /\ cpc = "advance" => ~ready[Idx(tail)]
    /\ \A k \in head .. tail + Cap - 1 : ~ready[Idx(k)]
Contents ==
    \A k \in tail .. head - 1 : ready[Idx(k)] => slots[Idx(k)] = order[k + 1]
Writers ==
    /\ \A p \in Producers :
        /\ pc[p] = "cas" => h[p] < tail + Cap
        /\ Writing(p) => /\ tail <= h[p] /\ h[p] < head
                         /\ ~ready[Idx(h[p])]
                         /\ order[h[p] + 1] = ItemOf(p)
                         /\ cpc = "advance" => h[p] # tail
        /\ pc[p] = "commit" => slots[Idx(h[p])] = ItemOf(p)
    /\ \A p, q \in Producers : Writing(p) /\ Writing(q) /\ p # q => h[p] # h[q]
Inv == TypeOK /\ Counters /\ Flags /\ Contents /\ Writers /\ Fifo /\ NoOrphan

\* Head-of-line waiting ends: whatever was reserved is eventually consumed,
\* even behind a producer that was preempted between its CAS and its commit.
Drained == \A k \in 1 .. MaxCalls * Cardinality(Producers) :
              (head >= k) ~> (tail >= k)

\* The ring is safe for any number of producers (yumi_udp.c:93-197): a slot in use is not
\* overwritten, items come out once and in the order of the CAS, no reserved place is lost,
\* and what a call returns is true.
RingSafe == TypeOK /\ SlotExclusive /\ Fifo /\ NoOrphan /\ HonestResult
=============================================================================
