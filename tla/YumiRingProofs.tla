--------------------------- MODULE YumiRingProofs ---------------------------
(***************************************************************************)
(* Proofs about YumiRing for every capacity, every set of producers and    *)
(* every number of calls.                                                  *)
(*                                                                         *)
(* The heart is the inductive invariant Inv.  The tickets that matter are  *)
(* the Cap numbers tail .. tail + Cap - 1, and DistinctSlots says that     *)
(* they have different slots; what the flags and the writers may be is     *)
(* then a statement about tickets rather than slots.                       *)
(***************************************************************************)
EXTENDS YumiRing, TLAPS

(***************************************************************************)
(* Arithmetic of slot indices.                                             *)
(***************************************************************************)
\* Idx maps tickets to slots (head & YUMI_RING_MASK).
LEMMA IdxType == ASSUME NEW k \in Nat PROVE Idx(k) \in Slots
BY CapAssumption DEF Idx, Slots

\* Division with remainder by the capacity.
LEMMA DivMod ==
    ASSUME NEW k \in Nat
    PROVE  k \div Cap \in Nat /\ k = Cap * (k \div Cap) + Idx(k)
BY CapAssumption, Z3 DEF Idx

\* Multiplication by the capacity distributes over a difference.
LEMMA CapTimesDiff ==
    ASSUME NEW a \in Nat, NEW b \in Nat
    PROVE  /\ Cap * (b - a) = Cap * b - Cap * a
           /\ Cap * a \in Nat /\ Cap * b \in Nat
BY CapAssumption, Z3

\* A positive multiple of the capacity is at least the capacity.
LEMMA CapTimesPos == ASSUME NEW a \in Nat, a >= 1 PROVE Cap * a >= Cap
BY CapAssumption, Z3

\* Two tickets of the same slot are at least a lap apart.
LEMMA LapApart ==
    ASSUME NEW a \in Nat, NEW b \in Nat, a < b, Idx(a) = Idx(b)
    PROVE  b - a >= Cap
<1> DEFINE qa == a \div Cap
           qb == b \div Cap
<1>1. /\ qa \in Nat /\ a = Cap * qa + Idx(a)
      /\ qb \in Nat /\ b = Cap * qb + Idx(b)
  BY DivMod
<1>2. Idx(a) \in Nat
  BY IdxType, CapAssumption DEF Slots
<1> HIDE DEF qa, qb
<1>3. Cap * qb - Cap * qa = b - a
  BY <1>1, <1>2, CapTimesDiff
<1>4. qb - qa >= 1
  <2>1. SUFFICES ASSUME qa - qb \in Nat PROVE FALSE
    BY <1>1
  <2>2. Cap * (qa - qb) \in Nat
    BY <2>1, CapAssumption
  <2>3. Cap * (qa - qb) = Cap * qa - Cap * qb
    BY <1>1, CapTimesDiff
  <2> QED
    BY <1>1, <1>3, <2>2, <2>3, CapTimesDiff
<1>5. Cap * (qb - qa) = b - a
  BY <1>1, <1>3, CapTimesDiff
<1> QED
  BY <1>1, <1>4, <1>5, CapTimesPos

\* One lap later a ticket has the same slot again.
LEMMA NextLap == ASSUME NEW k \in Nat PROVE Idx(k + Cap) = Idx(k)
<1> DEFINE q == k \div Cap
           q2 == (k + Cap) \div Cap
<1>1. /\ q \in Nat /\ k = Cap * q + Idx(k)
      /\ q2 \in Nat /\ k + Cap = Cap * q2 + Idx(k + Cap)
  BY DivMod, CapAssumption
<1>2. /\ Idx(k) \in Nat /\ Idx(k) < Cap
      /\ Idx(k + Cap) \in Nat /\ Idx(k + Cap) < Cap
  BY IdxType, CapAssumption DEF Slots
<1> HIDE DEF q, q2
<1>3. Cap * (q + 1) = Cap * q + Cap
  BY <1>1, CapAssumption, Z3
<1>4. Cap * q2 - Cap * (q + 1) = Idx(k) - Idx(k + Cap)
  BY <1>1, <1>2, <1>3, CapTimesDiff, CapAssumption
<1>5. q2 = q + 1
  <2>1. CASE q2 - (q + 1) >= 1
    <3>1. Cap * (q2 - (q + 1)) >= Cap
      BY <1>1, <2>1, CapTimesPos
    <3> QED
      BY <1>1, <1>2, <1>4, <3>1, CapTimesDiff, CapAssumption
  <2>2. CASE (q + 1) - q2 >= 1
    <3>1. Cap * ((q + 1) - q2) >= Cap
      BY <1>1, <2>2, CapTimesPos
    <3>2. /\ Cap * ((q + 1) - q2) = Cap * (q + 1) - Cap * q2
          /\ Cap * (q + 1) \in Nat /\ Cap * q2 \in Nat
      <4>1. q + 1 \in Nat /\ q2 \in Nat
        BY <1>1
      <4> QED
        BY <4>1, CapTimesDiff, Zenon
    <3> QED
      BY <1>2, <1>4, <3>1, <3>2, CapAssumption
  <2> QED
    BY <1>1, <2>1, <2>2
<1>6. Cap * q2 = Cap * (q + 1) /\ Cap * q2 \in Nat
  BY <1>1, <1>5, CapTimesDiff
<1> QED
  BY <1>2, <1>4, <1>6

\* The tickets of one lap have different slots.
LEMMA DistinctSlots ==
    ASSUME NEW t \in Nat, NEW a \in Nat, NEW b \in Nat,
           t <= a, a < t + Cap, t <= b, b < t + Cap, a # b
    PROVE  Idx(a) # Idx(b)
<1>1. CASE a < b BY <1>1, LapApart, CapAssumption
<1>2. CASE b < a BY <1>2, LapApart, CapAssumption
<1> QED BY <1>1, <1>2

(***************************************************************************)
(* Type correctness.                                                       *)
(***************************************************************************)
\* The item of a producer inside a call is an item.
LEMMA ItemOfType ==
    ASSUME TypeOK, NEW p \in Producers, calls[p] # 0
    PROVE  ItemOf(p) \in Items
BY BoundAssumption DEF TypeOK, ItemOf, Items

\* A producer inside a call has begun one.
InCall == \A p \in Producers : pc[p] # "idle" => calls[p] # 0

\* Every step of the ring preserves the types of its variables.
LEMMA TypeStep == TypeOK /\ InCall /\ [Next]_vars => TypeOK' /\ InCall'
<1> SUFFICES ASSUME TypeOK, InCall, [Next]_vars PROVE TypeOK' /\ InCall'
  OBVIOUS
<1> USE CapAssumption, BoundAssumption DEF TypeOK, InCall, prodVars
<1>1. ASSUME NEW p \in Producers, NEW k \in {"block", "try"}, LoadHead(p, k)
      PROVE  TypeOK' /\ InCall'
  BY <1>1 DEF LoadHead
<1>2. ASSUME NEW p \in Producers, SeeRoom(p) PROVE TypeOK' /\ InCall'
  BY <1>2 DEF SeeRoom
<1>3. ASSUME NEW p \in Producers, Backpressure(p) PROVE TypeOK' /\ InCall'
  BY <1>3 DEF Backpressure
<1>4. ASSUME NEW p \in Producers, ReloadHead(p) PROVE TypeOK' /\ InCall'
  BY <1>4 DEF ReloadHead
<1>5. ASSUME NEW p \in Producers, GiveUp(p) PROVE TypeOK' /\ InCall'
  <2>1. ItemOf(p) \in Items
    BY <1>5, ItemOfType DEF GiveUp
  <2> QED
    BY <1>5, <2>1 DEF GiveUp
<1>6. ASSUME NEW p \in Producers, CasWin(p) PROVE TypeOK' /\ InCall'
  <2>1. ItemOf(p) \in Items
    BY <1>6, ItemOfType DEF CasWin
  <2> QED
    BY <1>6, <2>1 DEF CasWin
<1>7. ASSUME NEW p \in Producers, CasLose(p) PROVE TypeOK' /\ InCall'
  <2>1. ItemOf(p) \in Items
    BY <1>7, ItemOfType DEF CasLose
  <2> QED
    BY <1>7, <2>1 DEF CasLose
<1>8. ASSUME NEW p \in Producers, Fill(p) PROVE TypeOK' /\ InCall'
  <2>1. ItemOf(p) \in Items /\ Idx(h[p]) \in Slots
    BY <1>8, ItemOfType, IdxType DEF Fill
  <2> QED
    BY <1>8, <2>1 DEF Fill
<1>9. ASSUME NEW p \in Producers, Commit(p) PROVE TypeOK' /\ InCall'
  BY <1>9, IdxType DEF Commit
<1>10. CASE SeeHead
  BY <1>10 DEF SeeHead
<1>11. CASE SeeReady
  BY <1>11 DEF SeeReady
<1>12. CASE Release
  <2>1. Idx(tail) \in Slots
    BY IdxType
  <2> QED
    BY <1>12, <2>1 DEF Release
<1>13. CASE Advance
  BY <1>13 DEF Advance
<1>14. CASE UNCHANGED vars
  BY <1>14 DEF vars
<1> QED
  BY <1>1, <1>2, <1>3, <1>4, <1>5, <1>6, <1>7, <1>8, <1>9, <1>10, <1>11, <1>12,
     <1>13, <1>14 DEF Next, Producer, Consumer

\* The initial ring (yumi_ring_create) is well typed.
LEMMA TypeInit == Init => TypeOK /\ InCall
BY CapAssumption, BoundAssumption DEF Init, TypeOK, InCall

\* The variables of the ring keep their types (yumi_ring_t and the locals of
\* its producers).
THEOREM TypeCorrect == Spec => []TypeOK
<1>1. Init => TypeOK /\ InCall
  BY TypeInit
<1>2. TypeOK /\ InCall /\ [Next]_vars => TypeOK' /\ InCall'
  BY TypeStep
<1> QED
  BY <1>1, <1>2, PTL DEF Spec

(***************************************************************************)
(* The inductive invariant.                                                *)
(***************************************************************************)
\* The tickets of the current lap and their slots.
LEMMA Lap ==
    ASSUME TypeOK
    PROVE  /\ \A k \in Nat : Idx(k) \in Slots
           /\ \A a, b \in tail .. tail + Cap - 1 : a # b => Idx(a) # Idx(b)
<1>1. ASSUME NEW a \in tail .. tail + Cap - 1, NEW b \in tail .. tail + Cap - 1,
             a # b
      PROVE  Idx(a) # Idx(b)
  <2>1. /\ tail \in Nat /\ a \in Nat /\ b \in Nat
        /\ tail <= a /\ a < tail + Cap /\ tail <= b /\ b < tail + Cap
    BY CapAssumption DEF TypeOK
  <2> QED
    BY <1>1, <2>1, DistinctSlots
<1> QED
  BY <1>1, IdxType

\* A ring just created satisfies the invariant.
LEMMA InvInit == Init => Inv /\ InCall
<1> SUFFICES ASSUME Init PROVE Inv /\ InCall
  OBVIOUS
<1>1. TypeOK /\ InCall
  BY TypeInit
<1>2. Counters /\ Fifo /\ NoOrphan /\ Contents
  BY CapAssumption DEF Init, Counters, Fifo, NoOrphan, Contents
<1>3. Flags
  <2>1. \A k \in head .. tail + Cap - 1 : Idx(k) \in Slots
    BY IdxType, CapAssumption DEF Init
  <2> QED
    BY <2>1 DEF Init, Flags
<1>4. Writers
  BY DEF Init, Writers, Writing
<1> QED
  BY <1>1, <1>2, <1>3, <1>4 DEF Inv

\* A step in which a producer changes nothing but its own locals, and does not
\* come to write, keeps the invariant.
LEMMA LocalStep ==
    ASSUME Inv, TypeOK', NEW p \in Producers,
           UNCHANGED <<head, tail, ready, slots, cpc, order, out>>,
           ~Writing(p), pc'[p] \notin {"fill", "commit"},
           pc'[p] = "cas" => h'[p] < tail + Cap,
           \A q \in Producers \ {p} :
              pc'[q] = pc[q] /\ h'[q] = h[q] /\ calls'[q] = calls[q]
    PROVE  Inv'
<1> USE DEF Inv
<1>1. Counters' /\ Flags' /\ Contents' /\ Fifo'
  BY DEF Counters, Flags, Contents, Fifo
<1>2. Writers'
  BY DEF Writers, Writing, ItemOf
<1>3. NoOrphan'
  BY DEF NoOrphan, Writing
<1> QED
  BY <1>1, <1>2, <1>3

\* A step in which only the consumer's program counter moves, within the slots
\* it may use, keeps the invariant.
LEMMA ConsumerLook ==
    ASSUME Inv, TypeOK',
           UNCHANGED <<head, tail, ready, slots, pc, h, calls, order, out>>,
           cpc # "advance", cpc' # "advance",
           cpc' # "idle" => tail < head,
           cpc' = "use" => ready[Idx(tail)]
    PROVE  Inv'
<1> USE DEF Inv
<1>1. Counters' /\ Flags' /\ Contents' /\ Fifo'
  BY DEF Counters, Flags, Contents, Fifo
<1>2. Writers'
  BY DEF Writers, Writing, ItemOf
<1>3. NoOrphan'
  BY DEF NoOrphan, Writing
<1> QED
  BY <1>1, <1>2, <1>3

\* The successful CAS: the new ticket is free, unwritten and p's alone.
LEMMA CasWinStep ==
    ASSUME Inv, InCall, TypeOK', NEW p \in Producers, CasWin(p)
    PROVE  Inv'
<1> USE CapAssumption DEF Inv, CasWin
<1>1. head < tail + Cap /\ tail <= head /\ head \in Nat /\ tail \in Nat
  BY DEF Counters, Writers, TypeOK
<1>2. ~ready[Idx(head)]
  BY <1>1 DEF Flags
<1>3. /\ Len(order') = head + 1 /\ order'[head + 1] = ItemOf(p)
      /\ \A k \in 1 .. head : order'[k] = order[k]
  <2>1. ItemOf(p) \in Items /\ order \in Seq(Items) /\ Len(order) = head
    BY ItemOfType DEF Counters, TypeOK, InCall
  <2> QED
    BY <1>1, <2>1
<1>4. Counters'
  BY <1>1, <1>3 DEF Counters
<1>5. Flags'
  BY <1>1 DEF Flags
<1>6. Contents'
  BY <1>1, <1>2, <1>3 DEF Contents
<1>7. Writers'
  BY <1>1, <1>2, <1>3 DEF Writers, Writing, ItemOf, TypeOK, Counters
<1>8. Fifo'
  BY <1>1, <1>3 DEF Fifo, Counters, TypeOK
<1>9. NoOrphan'
  BY <1>1 DEF NoOrphan, Writing, TypeOK
<1> QED
  BY <1>4, <1>5, <1>6, <1>7, <1>8, <1>9

\* The slot write touches p's own slot only.
LEMMA FillStep ==
    ASSUME Inv, InCall, TypeOK', NEW p \in Producers, Fill(p)
    PROVE  Inv'
<1> USE CapAssumption DEF Inv, Fill
<1>1. /\ h[p] \in Nat /\ tail \in Nat /\ head \in Nat
      /\ tail <= h[p] /\ h[p] < head /\ head <= tail + Cap /\ ~ready[Idx(h[p])]
  BY DEF Counters, Writers, Writing, TypeOK
<1>2. slots'[Idx(h[p])] = ItemOf(p)
  BY <1>1, Lap DEF TypeOK
<1>3. \A k \in tail .. head - 1 : k # h[p] => slots'[Idx(k)] = slots[Idx(k)]
  BY <1>1, Lap DEF TypeOK
<1>4. Counters' /\ Flags' /\ Fifo'
  BY DEF Counters, Flags, Fifo
<1>5. Contents'
  BY <1>1, <1>3 DEF Contents
<1>6. Writers'
  <2>1. ASSUME NEW q \in Producers, pc'[q] = "commit"
        PROVE  slots'[Idx(h[q])] = ItemOf(q)
    BY <1>1, <1>2, <1>3, <2>1 DEF Writers, Writing, TypeOK
  <2> QED
    BY <2>1 DEF Writers, Writing, ItemOf, TypeOK
<1>7. NoOrphan'
  BY DEF NoOrphan, Writing, TypeOK
<1> QED
  BY <1>4, <1>5, <1>6, <1>7

\* The ready store publishes exactly what was reserved for that ticket.
LEMMA CommitStep ==
    ASSUME Inv, InCall, TypeOK', NEW p \in Producers, Commit(p)
    PROVE  Inv'
<1> USE CapAssumption DEF Inv, Commit
<1>1. /\ h[p] \in Nat /\ tail \in Nat /\ head \in Nat
      /\ tail <= h[p] /\ h[p] < head /\ head <= tail + Cap
      /\ ~ready[Idx(h[p])] /\ slots[Idx(h[p])] = order[h[p] + 1]
      /\ cpc = "advance" => h[p] # tail
  BY DEF Counters, Writers, Writing, TypeOK
<1>2. ready'[Idx(h[p])]
  BY <1>1, Lap DEF TypeOK
<1>3. \A k \in tail .. tail + Cap - 1 : k # h[p] => (ready'[Idx(k)] <=> ready[Idx(k)])
  BY <1>1, Lap DEF TypeOK
<1>4. Counters' /\ Fifo'
  BY DEF Counters, Fifo
<1>5. Flags'
  BY <1>1, <1>2, <1>3 DEF Flags, Counters
<1>6. Contents'
  BY <1>1, <1>3 DEF Contents
<1>7. Writers'
  BY <1>1, <1>3 DEF Writers, Writing, ItemOf, TypeOK
<1>8. NoOrphan'
  BY <1>1, <1>2, <1>3 DEF NoOrphan, Writing, TypeOK
<1> QED
  BY <1>4, <1>5, <1>6, <1>7, <1>8

\* The release clears the flag of the slot at tail only, and what it handed
\* out is the item of that ticket.
LEMMA ReleaseStep ==
    ASSUME Inv, TypeOK', Release
    PROVE  Inv'
<1> USE CapAssumption DEF Inv, Release, prodVars
<1>1. /\ tail \in Nat /\ head \in Nat /\ tail < head /\ head <= tail + Cap
      /\ Len(out) = tail /\ Len(order) = head
      /\ slots[Idx(tail)] = order[tail + 1]
  BY DEF Counters, Flags, Contents, TypeOK
<1>2. ~ready'[Idx(tail)]
  BY <1>1, Lap DEF TypeOK
<1>3. \A k \in tail .. tail + Cap - 1 : k # tail => (ready'[Idx(k)] <=> ready[Idx(k)])
  BY <1>1, Lap DEF TypeOK
<1>4. slots[Idx(tail)] \in Items \cup {NoItem}
  BY <1>1, Lap DEF TypeOK
<1>5. /\ Len(out') = tail + 1 /\ out'[tail + 1] = order[tail + 1]
      /\ \A k \in 1 .. tail : out'[k] = out[k]
  BY <1>1, <1>4 DEF TypeOK
<1>6. Counters'
  BY <1>1, <1>5 DEF Counters
<1>7. Fifo'
  BY <1>1, <1>5 DEF Fifo
<1>8. Flags'
  BY <1>1, <1>2, <1>3 DEF Flags
<1>9. Contents'
  BY <1>1, <1>2, <1>3 DEF Contents
<1>10. Writers'
  BY <1>1, <1>3 DEF Writers, Writing, ItemOf, TypeOK, Flags
<1>11. NoOrphan'
  BY <1>1, <1>3 DEF NoOrphan, Writing
<1> QED
  BY <1>6, <1>7, <1>8, <1>9, <1>10, <1>11

\* The tail store opens the slot for the next lap: its flag is already clear.
LEMMA AdvanceStep ==
    ASSUME Inv, TypeOK', Advance
    PROVE  Inv'
<1> USE CapAssumption DEF Inv, Advance, prodVars
<1>1. /\ tail \in Nat /\ head \in Nat /\ tail < head /\ head <= tail + Cap
      /\ ~ready[Idx(tail)]
  BY DEF Counters, Flags, TypeOK
<1>2. Idx(tail + Cap) = Idx(tail)
  BY <1>1, NextLap
<1>3. Counters' /\ Fifo'
  BY <1>1 DEF Counters, Fifo
<1>4. Flags'
  BY <1>1, <1>2 DEF Flags
<1>5. Contents'
  BY <1>1 DEF Contents
<1>6. Writers'
  BY <1>1 DEF Writers, Writing, ItemOf, TypeOK
<1>7. NoOrphan'
  BY <1>1 DEF NoOrphan, Writing
<1> QED
  BY <1>3, <1>4, <1>5, <1>6, <1>7

\* Every step of the ring preserves the invariant.
LEMMA InvStep == Inv /\ InCall /\ [Next]_vars => Inv' /\ InCall'
<1> SUFFICES ASSUME Inv, InCall, [Next]_vars PROVE Inv' /\ InCall'
  OBVIOUS
<1>0. TypeOK /\ TypeOK' /\ InCall'
  BY TypeStep DEF Inv
<1>1. ASSUME NEW p \in Producers, NEW k \in {"block", "try"}, LoadHead(p, k)
      PROVE  Inv'
  BY <1>0, <1>1, LocalStep DEF LoadHead, TypeOK, Writing
<1>2. ASSUME NEW p \in Producers, SeeRoom(p) PROVE Inv'
  <2>1. h[p] < tail + Cap
    BY <1>0, <1>2, CapAssumption DEF SeeRoom, Full, TypeOK
  <2> QED
    BY <1>0, <1>2, <2>1, LocalStep DEF SeeRoom, TypeOK, Writing
<1>3. ASSUME NEW p \in Producers, Backpressure(p) PROVE Inv'
  BY <1>0, <1>3, LocalStep DEF Backpressure, TypeOK, Writing
<1>4. ASSUME NEW p \in Producers, ReloadHead(p) PROVE Inv'
  BY <1>0, <1>4, LocalStep DEF ReloadHead, TypeOK, Writing
<1>5. ASSUME NEW p \in Producers, GiveUp(p) PROVE Inv'
  BY <1>0, <1>5, LocalStep DEF GiveUp, TypeOK, Writing
<1>6. ASSUME NEW p \in Producers, CasWin(p) PROVE Inv'
  BY <1>0, <1>6, CasWinStep
<1>7. ASSUME NEW p \in Producers, CasLose(p) PROVE Inv'
  BY <1>0, <1>7, LocalStep DEF CasLose, TypeOK, Writing
<1>8. ASSUME NEW p \in Producers, Fill(p) PROVE Inv'
  BY <1>0, <1>8, FillStep
<1>9. ASSUME NEW p \in Producers, Commit(p) PROVE Inv'
  BY <1>0, <1>9, CommitStep
<1>10. CASE SeeHead
  BY <1>0, <1>10, ConsumerLook DEF SeeHead, prodVars
<1>11. CASE SeeReady
  <2>1. tail < head
    BY <1>11 DEF SeeReady, Inv, Counters
  <2> QED
    BY <1>0, <1>11, <2>1, ConsumerLook DEF SeeReady, prodVars
<1>12. CASE Release
  BY <1>0, <1>12, ReleaseStep
<1>13. CASE Advance
  BY <1>0, <1>13, AdvanceStep
<1>14. CASE UNCHANGED vars
  BY <1>0, <1>14 DEF vars, Inv, Counters, Flags, Contents, Writers, Writing,
     ItemOf, Fifo, NoOrphan
<1> QED
  BY <1>0, <1>1, <1>2, <1>3, <1>4, <1>5, <1>6, <1>7, <1>8, <1>9, <1>10, <1>11,
     <1>12, <1>13, <1>14 DEF Next, Producer, Consumer

\* The invariant gives the slot exclusion the checks ask for.
LEMMA InvSlotExclusive == Inv => SlotExclusive
<1> SUFFICES ASSUME Inv PROVE SlotExclusive
  OBVIOUS
<1> USE CapAssumption DEF Inv
<1>1. tail \in Nat /\ head \in Nat /\ tail <= head /\ head <= tail + Cap
  BY DEF Counters, TypeOK
<1>2. \A p \in Producers : Writing(p) => h[p] \in tail .. tail + Cap - 1
  BY <1>1 DEF Writers, TypeOK
<1>3. ASSUME NEW p \in Producers, NEW q \in Producers,
             Writing(p), Writing(q), p # q
      PROVE  Idx(h[p]) # Idx(h[q])
  BY <1>2, <1>3, Lap DEF Writers
<1>4. ASSUME NEW p \in Producers, Writing(p), cpc \in {"use", "advance"}
      PROVE  Idx(h[p]) # Idx(tail)
  <2>1. h[p] # tail
    BY <1>4 DEF Writers, Flags
  <2>2. tail \in tail .. tail + Cap - 1
    BY <1>1
  <2> QED
    BY <1>2, <1>4, <2>1, <2>2, Lap
<1> QED
  BY <1>1, <1>3, <1>4 DEF SlotExclusive

\* Between any two accesses to shared memory the counters, flags, slots and
\* writers of the ring stand as Inv says.
THEOREM Invariance == Spec => []Inv
<1>1. Init => Inv /\ InCall
  BY InvInit
<1>2. Inv /\ InCall /\ [Next]_vars => Inv' /\ InCall'
  BY InvStep
<1> QED
  BY <1>1, <1>2, PTL DEF Spec

\* No two writers share a slot and no writer touches the slot in use, for
\* every capacity and number of threads.
THEOREM SlotsAreExclusive == Spec => []SlotExclusive
BY Invariance, InvSlotExclusive, PTL

\* The ring hands out exactly the reserved items, in the order of their CAS.
THEOREM RingIsFifo == Spec => []Fifo
<1>1. Inv => Fifo
  BY DEF Inv
<1> QED
  BY <1>1, Invariance, PTL

\* No reserved place is ever orphaned.
THEOREM RingHasNoOrphans == Spec => []NoOrphan
<1>1. Inv => NoOrphan
  BY DEF Inv
<1> QED
  BY <1>1, Invariance, PTL

(***************************************************************************)
(* The return value.  A call still under way has left no trace; one that   *)
(* has its ticket or has returned left exactly one.                        *)
(***************************************************************************)
Reserved(p, n) == \E k \in 1 .. Len(order) : order[k] = <<p, n>>

Honest ==
    \A p \in Producers :
        /\ \A n \in Nat : Reserved(p, n) \/ <<p, n>> \in failed => n <= calls[p]
        /\ \A n \in Nat : ~(Reserved(p, n) /\ <<p, n>> \in failed)
        /\ \A n \in 1 .. calls[p] : n < calls[p] \/ pc[p] \in {"idle", "fill", "commit"}
                                      => Reserved(p, n) \/ <<p, n>> \in failed
        /\ pc[p] \in {"tail", "reload", "cas"}
             => ~Reserved(p, calls[p]) /\ <<p, calls[p]>> \notin failed

\* The steps that leave no trace: only the call's progress changes.
LEMMA TracelessStep ==
    ASSUME TypeOK, Honest, NEW p \in Producers, UNCHANGED <<order, failed, calls>>,
           \A q \in Producers : q # p => pc'[q] = pc[q],
           \/ pc[p] \in {"tail", "reload", "cas"} /\ pc'[p] \in {"tail", "reload", "cas"}
           \/ pc[p] \in {"fill", "commit", "idle"} /\ pc'[p] \in {"fill", "commit", "idle"}
    PROVE  Honest'
<1>1. \A q, n : Reserved(q, n)' <=> Reserved(q, n)
  BY DEF Reserved
<1> QED
  BY <1>1 DEF Honest

\* A call ends, with its ticket or with a failure, and leaves that one trace.
LEMMA TraceStep ==
    ASSUME TypeOK, Honest, NEW p \in Producers, pc[p] \in {"tail", "cas"}, calls' = calls,
           \A q \in Producers : q # p => pc'[q] = pc[q],
           \/ /\ order' = Append(order, <<p, calls[p]>>) /\ failed' = failed
              /\ pc'[p] = "fill"
           \/ /\ failed' = failed \cup {<<p, calls[p]>>} /\ order' = order
              /\ pc'[p] = "idle"
    PROVE  Honest'
<1>0. calls[p] \in Nat /\ order \in Seq(Items) /\ Len(order) \in Nat
  BY BoundAssumption DEF TypeOK
<1>1. CASE order' = Append(order, <<p, calls[p]>>) /\ failed' = failed /\ pc'[p] = "fill"
  <2>1. \A q, n : Reserved(q, n)' <=> Reserved(q, n) \/ <<q, n>> = <<p, calls[p]>>
    <3>1. /\ Len(order') = Len(order) + 1 /\ order'[Len(order) + 1] = <<p, calls[p]>>
          /\ \A k \in 1 .. Len(order) : order'[k] = order[k]
      BY <1>0, <1>1
    <3>2. \A k \in 1 .. Len(order') : k \in 1 .. Len(order) \/ k = Len(order) + 1
      BY <1>0, <3>1
    <3>3. Len(order) + 1 \in 1 .. Len(order') /\ \A k \in 1 .. Len(order) : k \in 1 .. Len(order')
      BY <1>0, <3>1
    <3> QED
      BY <3>1, <3>2, <3>3 DEF Reserved
  <2>2. \A q, n : Reserved(q, n)' <=> Reserved(q, n) \/ (q = p /\ n = calls[p])
    BY <2>1
  <2> QED
    BY <1>0, <1>1, <2>2 DEF Honest
<1>2. CASE failed' = failed \cup {<<p, calls[p]>>} /\ order' = order /\ pc'[p] = "idle"
  <2>1. \A q, n : Reserved(q, n)' <=> Reserved(q, n)
    BY <1>2 DEF Reserved
  <2>2. \A q, n : <<q, n>> \in failed' <=> <<q, n>> \in failed \/ (q = p /\ n = calls[p])
    BY <1>2
  <2> QED
    BY <1>0, <1>2, <2>1, <2>2 DEF Honest
<1> QED
  BY <1>1, <1>2

\* A call begins: its number is new.
LEMMA BeginStep ==
    ASSUME TypeOK, Honest, NEW p \in Producers, NEW k, LoadHead(p, k)
    PROVE  Honest'
<1>0. /\ \A q \in Producers : calls[q] \in Nat
      /\ pc[p] = "idle" /\ pc'[p] = "tail" /\ calls'[p] = calls[p] + 1
      /\ \A q \in Producers : q # p => pc'[q] = pc[q] /\ calls'[q] = calls[q]
      /\ failed' = failed
  BY BoundAssumption DEF TypeOK, LoadHead
<1>1. \A q, n : Reserved(q, n)' <=> Reserved(q, n)
  BY DEF LoadHead, Reserved
<1>2. ASSUME NEW q \in Producers, q # p
      PROVE  /\ \A n \in Nat : Reserved(q, n)' \/ <<q, n>> \in failed' => n <= calls'[q]
             /\ \A n \in Nat : ~(Reserved(q, n)' /\ <<q, n>> \in failed')
             /\ \A n \in 1 .. calls'[q] : n < calls'[q] \/ pc'[q] \in {"idle", "fill", "commit"}
                                            => Reserved(q, n)' \/ <<q, n>> \in failed'
             /\ pc'[q] \in {"tail", "reload", "cas"}
                  => ~Reserved(q, calls[q])' /\ <<q, calls[q]>> \notin failed'
  BY <1>0, <1>1, <1>2 DEF Honest
<1>3. /\ \A n \in Nat : Reserved(p, n)' \/ <<p, n>> \in failed' => n <= calls'[p]
      /\ \A n \in Nat : ~(Reserved(p, n)' /\ <<p, n>> \in failed')
      /\ \A n \in 1 .. calls'[p] : n < calls'[p] => Reserved(p, n)' \/ <<p, n>> \in failed'
      /\ ~Reserved(p, calls[p] + 1) /\ <<p, calls[p] + 1>> \notin failed
  <2>1. \A n \in Nat : Reserved(p, n) \/ <<p, n>> \in failed => n <= calls[p]
    BY DEF Honest
  <2>2. ~Reserved(p, calls[p] + 1) /\ <<p, calls[p] + 1>> \notin failed
    BY <1>0, <2>1
  <2>3. \A n \in Nat : ~(Reserved(p, n) /\ <<p, n>> \in failed)
    BY DEF Honest
  <2>4. \A n \in 1 .. calls[p] : Reserved(p, n) \/ <<p, n>> \in failed
    BY <1>0 DEF Honest
  <2>5. \A n \in 1 .. calls'[p] : n < calls'[p] => n \in 1 .. calls[p]
    BY <1>0
  <2>6. \A n \in Nat : n <= calls[p] => n <= calls'[p]
    BY <1>0
  <2> QED
    BY <1>0, <1>1, <2>1, <2>2, <2>3, <2>4, <2>5, <2>6
<1>4. ~Reserved(p, calls[p])' /\ <<p, calls'[p]>> \notin failed'
  BY <1>0, <1>3 DEF Reserved, LoadHead
<1> QED
  BY <1>0, <1>1, <1>2, <1>3, <1>4 DEF Honest

\* Every step keeps the traces right (yumi_ring_push, reserve, try_reserve).
LEMMA HonestStep == TypeOK /\ Honest /\ [Next]_vars => Honest'
<1> SUFFICES ASSUME TypeOK, Honest, [Next]_vars PROVE Honest'
  OBVIOUS
<1>1. ASSUME NEW p \in Producers, NEW k, LoadHead(p, k) PROVE Honest'
  BY <1>1, BeginStep
<1>2. ASSUME NEW p \in Producers,
             SeeRoom(p) \/ Backpressure(p) \/ ReloadHead(p) \/ Fill(p) \/ Commit(p)
      PROVE  Honest'
  <2>1. /\ UNCHANGED <<order, failed, calls>>
        /\ \A q \in Producers : q # p => pc'[q] = pc[q]
    BY <1>2 DEF TypeOK, SeeRoom, Backpressure, ReloadHead, Fill, Commit
  <2>2. \/ pc[p] \in {"tail", "reload", "cas"} /\ pc'[p] \in {"tail", "reload", "cas"}
        \/ pc[p] \in {"fill", "commit", "idle"} /\ pc'[p] \in {"fill", "commit", "idle"}
    BY <1>2 DEF TypeOK, SeeRoom, Backpressure, ReloadHead, Fill, Commit
  <2> QED
    BY <2>1, <2>2, TracelessStep
<1>3. ASSUME NEW p \in Producers, GiveUp(p) PROVE Honest'
  BY <1>3, TraceStep DEF GiveUp, TypeOK, ItemOf
<1>4. ASSUME NEW p \in Producers, CasWin(p) PROVE Honest'
  BY <1>4, TraceStep DEF CasWin, TypeOK, ItemOf
<1>5. ASSUME NEW p \in Producers, CasLose(p) PROVE Honest'
  <2>1. /\ calls' = calls /\ order' = order /\ pc[p] = "cas"
        /\ \A q \in Producers : q # p => pc'[q] = pc[q]
        /\ \/ pc'[p] = "tail" /\ failed' = failed
           \/ pc'[p] = "idle" /\ failed' = failed \cup {<<p, calls[p]>>}
    BY <1>5 DEF CasLose, TypeOK, ItemOf
  <2>2. CASE pc'[p] = "tail" /\ failed' = failed
    BY <2>1, <2>2, TracelessStep
  <2>3. CASE pc'[p] = "idle" /\ failed' = failed \cup {<<p, calls[p]>>}
    BY <2>1, <2>3, TraceStep
  <2> QED
    BY <2>1, <2>2, <2>3
<1>6. CASE Consumer \/ UNCHANGED vars
  <2>1. UNCHANGED <<order, failed, calls, pc>>
    BY <1>6 DEF Consumer, SeeHead, SeeReady, Release, Advance, prodVars, vars
  <2>2. \A q, n : Reserved(q, n)' <=> Reserved(q, n)
    BY <2>1 DEF Reserved
  <2> QED
    BY <2>1, <2>2 DEF Honest
<1> QED
  BY <1>1, <1>2, <1>3, <1>4, <1>5, <1>6 DEF Next, Producer

\* A producer is told the truth about its item, whoever wins the CAS.
THEOREM ResultIsTrue == Spec => []HonestResult
<1>1. Init => Honest
  BY DEF Init, Honest, Reserved
<1>2. TypeOK /\ Honest => HonestResult
  <2> SUFFICES ASSUME TypeOK, Honest, NEW p \in Producers, NEW n \in 1 .. calls[p]
               PROVE  /\ ~(Reserved(p, n) /\ <<p, n>> \in failed)
                      /\ n < calls[p] \/ pc[p] = "idle" => Reserved(p, n) \/ <<p, n>> \in failed
    BY DEF HonestResult, Reserved
  <2>1. n \in Nat
    BY BoundAssumption DEF TypeOK
  <2> QED
    BY <2>1 DEF Honest
<1> QED
  BY <1>1, <1>2, HonestStep, TypeCorrect, PTL DEF Spec

\* The ring of yumi_udp.c is safe for every capacity, producer and number of
\* calls: the five parts together.
THEOREM RingIsSafe == Spec => []RingSafe
<1>1. TypeOK /\ SlotExclusive /\ Fifo /\ NoOrphan /\ HonestResult => RingSafe
  BY DEF RingSafe
<1> QED
  BY <1>1, TypeCorrect, SlotsAreExclusive, RingIsFifo, RingHasNoOrphans, ResultIsTrue, PTL

(***************************************************************************)
(* The ring implements the bounded queue.                                  *)
(***************************************************************************)
\* The positions the refinement mapping counts as filled.
Filled == {k \in 1 .. Len(order) : k \in Served \/ ready[Idx(k - 1)]}

\* The CAS takes a place.
LEMMA CasWinTakes ==
    ASSUME Inv, InCall, NEW p \in Producers, CasWin(p)
    PROVE  Queue!Next
<1> USE CapAssumption DEF Inv, CasWin
<1>1. /\ head \in Nat /\ tail \in Nat /\ head < tail + Cap /\ tail <= head
      /\ Len(order) = head /\ order \in Seq(Items) /\ ItemOf(p) \in Items
      /\ Len(out) \in Nat /\ Len(out) >= tail /\ Len(out) <= head
  BY ItemOfType DEF Counters, Writers, TypeOK, InCall
<1>2. ~ready[Idx(head)]
  BY <1>1 DEF Flags
<1>3. Len(order') = head + 1
  BY <1>1
<1>4. Filled' = Filled
  <2>1. ASSUME NEW k PROVE k \in Filled' <=> k \in Filled
    BY <1>1, <1>2, <1>3 DEF Filled, Served
  <2> QED
    BY <2>1
<1>5. Queue!Take(ItemOf(p))
  BY <1>1, <1>4 DEF Queue!Take, Filled
<1> QED
  BY <1>1, <1>5 DEF Queue!Next

\* The ready store fills the place.
LEMMA CommitFills ==
    ASSUME Inv, InCall, NEW p \in Producers, Commit(p)
    PROVE  Queue!Next
<1> USE CapAssumption DEF Inv, Commit
<1> DEFINE k == h[p] + 1
<1>1. /\ h[p] \in Nat /\ tail \in Nat /\ head \in Nat
      /\ tail <= h[p] /\ h[p] < head /\ head <= tail + Cap /\ Len(order) = head
      /\ ~ready[Idx(h[p])] /\ (cpc = "advance" => h[p] # tail)
  BY DEF Counters, Writers, Writing, TypeOK
<1>2. Len(out) \in Nat /\ Len(out) >= tail /\ Len(out) <= h[p]
  BY <1>1 DEF Counters
<1>3. ready'[Idx(h[p])]
  BY <1>1, Lap DEF TypeOK
<1>4. \A j \in tail .. tail + Cap - 1 : j # h[p] => (ready'[Idx(j)] <=> ready[Idx(j)])
  BY <1>1, Lap DEF TypeOK
<1>5. k \in 1 .. Len(order) /\ k \notin Filled
  BY <1>1, <1>2 DEF Filled, Served
<1>6. Filled' = Filled \cup {k}
  <2>1. ASSUME NEW j PROVE j \in Filled' <=> j \in Filled \cup {k}
    BY <1>1, <1>2, <1>3, <1>4, <1>5 DEF Filled, Served
  <2> QED
    BY <2>1
<1>7. Queue!Fill(k)
  BY <1>1, <1>5, <1>6 DEF Queue!Fill, Filled
<1>8. \E j \in 1 .. Len(order) : Queue!Fill(j)
  BY <1>5, <1>7 DEF Queue!Fill
<1> QED
  BY <1>8 DEF Queue!Next

\* The release serves the place at the front.
LEMMA ReleaseServes ==
    ASSUME Inv, Release
    PROVE  Queue!Next
<1> USE CapAssumption DEF Inv, Release, prodVars
<1>1. /\ tail \in Nat /\ head \in Nat /\ tail < head /\ head <= tail + Cap
      /\ Len(out) = tail /\ Len(order) = head /\ ready[Idx(tail)]
      /\ slots[Idx(tail)] = order[tail + 1] /\ out \in Seq(Items \cup {NoItem})
  BY DEF Counters, Flags, Contents, TypeOK
<1>2. Idx(tail) \in Slots /\ slots[Idx(tail)] \in Items \cup {NoItem}
  BY <1>1, Lap DEF TypeOK
<1>3. Len(out') = tail + 1
  BY <1>1, <1>2
<1>4. \A j \in tail .. tail + Cap - 1 : j # tail => (ready'[Idx(j)] <=> ready[Idx(j)])
  BY <1>1, Lap DEF TypeOK
<1>5. Filled' = Filled
  <2>1. ASSUME NEW j PROVE j \in Filled' <=> j \in Filled
    BY <1>1, <1>3, <1>4 DEF Filled, Served
  <2> QED
    BY <2>1
<1>6. Len(out) + 1 \in Filled
  BY <1>1 DEF Filled
<1>7. Queue!Serve
  BY <1>1, <1>5, <1>6 DEF Queue!Serve, Filled
<1> QED
  BY <1>7 DEF Queue!Next

\* The ring implements WorkQueue: every step of a producer or of the consumer
\* takes, fills or serves a place, or leaves the queue as it was.
THEOREM RingImplementsQueue == Spec => ImplementsQueue
<1>1. Init => Queue!Init
  BY DEF Init, Queue!Init
<1>2. Inv /\ InCall /\ [Next]_vars => [Queue!Next]_<<order, Filled, out>>
  <2> SUFFICES ASSUME Inv, InCall, [Next]_vars
               PROVE  [Queue!Next]_<<order, Filled, out>>
    OBVIOUS
  <2>1. ASSUME UNCHANGED <<order, ready, out>>
        PROVE  UNCHANGED <<order, Filled, out>>
    BY <2>1 DEF Filled, Served
  <2>2. ASSUME NEW p \in Producers, Producer(p),
               ~CasWin(p), ~Commit(p)
        PROVE  UNCHANGED <<order, ready, out>>
    BY <2>2 DEF Producer, LoadHead, SeeRoom, Backpressure, ReloadHead, GiveUp,
       CasLose, Fill
  <2>3. CASE SeeHead \/ SeeReady \/ Advance
    BY <2>1, <2>3 DEF SeeHead, SeeReady, Advance
  <2>4. CASE UNCHANGED vars
    BY <2>1, <2>4 DEF vars
  <2> QED
    BY <2>1, <2>2, <2>3, <2>4, CasWinTakes, CommitFills, ReleaseServes
       DEF Next, Consumer
<1>3. Init => Inv /\ InCall
  BY InvInit
<1>4. Inv /\ InCall /\ [Next]_vars => Inv' /\ InCall'
  BY InvStep
<1> QED
  BY <1>1, <1>2, <1>3, <1>4, PTL DEF Spec, ImplementsQueue, Queue!Spec, Filled

=============================================================================
