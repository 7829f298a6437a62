----------------------------- MODULE AuditForks -----------------------------
(***************************************************************************)
(* The audit log of one member where the logs of others are merged into it *)
(* (group_registrar/audit.c).  Entries name their predecessor; two that    *)
(* name the same one are a fork.  Appending and merging prune the log;     *)
(* gr_audit_list_forks groups the forks for the owner, and                 *)
(* gr_audit_verify_chain walks the log in batches.                         *)
(*                                                                         *)
(* A hash is the number of its entry, 0 the zeroed hash of a first entry.  *)
(***************************************************************************)
EXTENDS Integers, FiniteSets, FiniteSetsExt, Sequences, SequencesExt

CONSTANTS
    AuditMax,    \* GR_AUDIT_MAX_BYTES / GR_AUDIT_EST_ROW_BYTES
    Branches,    \* GR_FORK_MAX_BRANCHES
    Batch,       \* BATCH
    ForkCaps,    \* the max_forks asked for
    HashBound,   \* bound: entries that are made
    TickBound    \* bound: the last timestamp

VARIABLES
    alog,     \* gr_audit_log
    hver,     \* header.version
    made,     \* every entry made here or elsewhere, by its hash
    merging,  \* a delta is being applied, under the lock
    tick      \* the time

forkVars == <<alog, hver, made, merging, tick>>

Entry(prev, version, at) == [hash |-> Len(made) + 1, prev |-> prev, version |-> version, at |-> at]

\* ORDER BY registrar_version, timestamp
Before(e, f) == e.version < f.version \/ (e.version = f.version /\ e.at < f.at)
\* the sets of n rows that may come first; the engine orders ties as it likes
Firsts(log, n) == {s \in kSubset(n, log) : \A e \in s, f \in log \ s : ~Before(f, e)}
Tied(e, f) == e # f /\ ~Before(e, f) /\ ~Before(f, e)

----------------------------------------------------------------------------
(* Retention.                                                              *)

BranchesOf(log, p) == {e \in log : e.prev = p}
ForkPoints(log) == {p \in {e.prev : e \in log} : Cardinality(BranchesOf(log, p)) > 1}
Forked(log) == {e \in log : e.prev \in ForkPoints(log)}

\* A mutant: the oldest entries whatever they are
PrunableAll(log) == log
Prunable(log) == log \ Forked(log)

\* gr_audit_enforce_retention_internal: the logs that may be left (DELETE ...
\* ORDER BY version, timestamp LIMIT excess)
Pruned(log) ==
    LET excess == Cardinality(log) - AuditMax
        old == Prunable(log)
        goes == IF excess < Cardinality(old) THEN excess ELSE Cardinality(old)
    IN  IF excess <= 0 THEN {log}
        ELSE {log \ gone : gone \in Firsts(old, goes)}

----------------------------------------------------------------------------
(* gr_audit_append and the merge of an entry.                              *)

\* the hash the next entry names; the engine breaks a tie
LastHashes == IF alog = {} THEN {0}
              ELSE {e.hash : e \in {x \in alog : \A f \in alog : ~Before(x, f)}}

AppendEntry ==
    /\ ~merging /\ Len(made) < HashBound
    /\ \E prev \in LastHashes :
         LET e == Entry(prev, hver + 1, tick)
         IN  made' = Append(made, e) /\ alog' \in Pruned(alog \cup {e})
    /\ hver' = hver + 1 /\ UNCHANGED <<merging, tick>>

\* gr_apply_delta inserts the entries of a delta one by one; what hashes, signs
\* and may is checked before (GroupSync).
Insert(e) ==
    /\ alog' = alog \cup {e} /\ merging' = TRUE
    /\ hver' = IF e.version > hver THEN e.version ELSE hver
    /\ UNCHANGED tick

\* an entry that another member made after one of the entries there are
MergeForeign(prev, at) ==
    /\ Len(made) < HashBound
    /\ LET e == Entry(prev, IF prev = 0 THEN 1 ELSE made[prev].version + 1, at)
       IN  /\ prev # 0 => made[prev].at <= at
           /\ made' = Append(made, e) /\ Insert(e)

\* an entry that was pruned here and that another member still has
MergeAgain == \E e \in ToSet(made) \ alog : Insert(e) /\ UNCHANGED made

\* the delta is committed; retention follows
MergeEnds ==
    /\ merging /\ merging' = FALSE /\ alog' \in Pruned(alog)
    /\ UNCHANGED <<hver, made, tick>>

ForkTick == tick < TickBound /\ tick' = tick + 1 /\ UNCHANGED <<alog, hver, made, merging>>

----------------------------------------------------------------------------
(* gr_audit_list_forks                                                     *)

\* ORDER BY prev_hash, timestamp_ns, entry_hash
ForkOrder(e, f) ==
    \/ e.prev < f.prev
    \/ e.prev = f.prev /\ (e.at < f.at \/ (e.at = f.at /\ e.hash < f.hash))
ForkRows(log) == SetToSortSeq(Forked(log), ForkOrder)

RowLimit(cap) == cap * Branches

\* a row joins the group of its predecessor or starts one while there is room
Grouped(cap, groups, e) ==
    IF groups # <<>> /\ groups[Len(groups)].prev = e.prev
    THEN IF Len(groups[Len(groups)].branches) < Branches
         THEN [groups EXCEPT ![Len(groups)].branches = Append(@, e)] ELSE groups
    ELSE IF Len(groups) < cap THEN Append(groups, [prev |-> e.prev, branches |-> <<e>>]) ELSE groups

gr_audit_list_forks(log, cap) ==
    LET rows == ForkRows(log)
        some == SubSeq(rows, 1, IF RowLimit(cap) < Len(rows) THEN RowLimit(cap) ELSE Len(rows))
    IN  FoldLeft(LAMBDA groups, e : Grouped(cap, groups, e), <<>>, some)

----------------------------------------------------------------------------
(* gr_audit_verify_chain                                                   *)

\* forks_detected and forks_resolved: a row whose predecessor is another one
\* than that of the row before
CountedForks(log) ==
    LET rows == ForkRows(log)
        starts == {i \in 1 .. Len(rows) : i = 1 \/ rows[i - 1].prev # rows[i].prev}
    IN  [detected |-> Cardinality(starts), resolved |-> Len(rows) - Cardinality(starts)]

\* the offsets of the batches over n rows
Offsets(n) == {i \in 0 .. n - 1 : i % Batch = 0}

\* the rows that LIMIT Batch OFFSET off may return: the engine orders ties as
\* it likes, in every query anew
BatchRows(log, off) ==
    LET n == Cardinality(log)
        upto == IF off + Batch < n THEN off + Batch ELSE n
    IN  UNION {{rows \ skipped : rows \in {r \in Firsts(log, upto) : skipped \subseteq r}} : skipped \in Firsts(log, off)}

\* the sets of entries the walk may look at: every one is hashed, and its
\* signature checked
gr_audit_verify_chain(log) ==
    LET offsets == Offsets(Cardinality(log))
        walks == {w \in [offsets -> SUBSET log] : \A off \in offsets : w[off] \in BatchRows(log, off)}
    IN  {UNION {w[off] : off \in offsets} : w \in walks}

----------------------------------------------------------------------------
ForkInit == alog = {} /\ hver = 0 /\ made = <<>> /\ merging = FALSE /\ tick = 1

ForkNext ==
    \/ AppendEntry
    \/ \E prev \in 0 .. Len(made), at \in 1 .. tick : MergeForeign(prev, at)
    \/ MergeAgain \/ MergeEnds
    \/ ForkTick

----------------------------------------------------------------------------
(* Properties.                                                             *)

\* While no fork has more branches than a listing holds, gr_audit_list_forks
\* lists as many forks as there are and it may, each with all its branches, and
\* gr_audit_verify_chain counts what is listed.  (One with more uses up rows of
\* the forks behind it.)
ForksListed ==
    (\A p \in ForkPoints(alog) : Cardinality(BranchesOf(alog, p)) <= Branches) =>
        \A cap \in ForkCaps :
            LET listed == gr_audit_list_forks(alog, cap)
                points == Cardinality(ForkPoints(alog))
            IN  /\ Len(listed) = IF cap < points THEN cap ELSE points
                /\ \A i \in DOMAIN listed : ToSet(listed[i].branches) = BranchesOf(alog, listed[i].prev)
                /\ cap >= points =>
                     CountedForks(alog) =
                         [detected |-> points,
                          resolved |-> FoldLeft(LAMBDA n, g : n + Len(g.branches) - 1, 0, listed)]

\* A fork, once in the log, stays there with all its branches: pruning never
\* hides from the owner that two members acted at once.
ForksStay == [][Forked(alog) \subseteq Forked(alog')]_forkVars

\* gr_audit_verify_chain looks at every entry, in batches, unless two entries
\* have the same version and the same time.
WalkIsComplete ==
    (\A e, f \in alog : ~Tied(e, f)) => gr_audit_verify_chain(alog) = {alog}

\* The owner can rely on the log to show who acted at once: forks stay, are listed, and the
\* walk over the log misses nothing.
ForksKept == [](ForksListed /\ WalkIsComplete) /\ ForksStay
=============================================================================
