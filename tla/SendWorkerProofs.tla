-------------------------- MODULE SendWorkerProofs --------------------------
(***************************************************************************)
(* Proofs about SendWorker: for any number of calling threads, rings of    *)
(* any capacity and any pacing, what enqueue_work accepted is served       *)
(* exactly once and in the order of its thread, and the rings are freed    *)
(* only when no worker is left.                                            *)
(*                                                                         *)
(* ServedInOrder is not inductive: it speaks of accepted items, while an   *)
(* item is served, and may even be followed by others, before its enqueue  *)
(* returns.  IInv orders all items, those in the rings and those served,   *)
(* by the calls that made them, and keeps hold of each item from the       *)
(* moment its place is taken.                                              *)
(***************************************************************************)
EXTENDS SendWorker, SequenceTheorems, TLAPS

\* Two items whose order matters: calls of one thread, or replies to one thread.
InLine(a, b) == a.by = b.by /\ Caller(a) = Caller(b)

\* An item a producer or a callback has made, or the sentinel.
Known(i) ==
    \/ i = Sentinel /\ dpc \in {"join", "freed"}
    \/ /\ i.by \in Threads /\ i.n \in 1 .. calls[i.by]
       /\ i.type \in {"data", "user", "raw", "reply"} /\ (i.type = "raw" <=> i.by = Recv)

Contents ==
    /\ \A k \in DOMAIN ring : Known(ring[k].item) /\ ring[k].item.type # "raw"
    /\ \A k \in DOMAIN ackRing : Known(ackRing[k].item) /\ ackRing[k].item.type = "raw"
    /\ \A t \in Threads \cup {Self} : \A k \in DOMAIN handled[t] :
          /\ Known(handled[t][k]) /\ handled[t][k].type # "shutdown"
          /\ Caller(handled[t][k]) = t

\* A ring holds the items of one line in the order of the calls ...
Ordered(q) ==
    \A j, k \in DOMAIN q : j < k /\ InLine(q[j].item, q[k].item) => q[j].item.n < q[k].item.n

\* ... and those that were served came before those that wait.
Ahead(served, q) ==
    \A t \in Threads \cup {Self} : \A h \in DOMAIN served[t] : \A k \in DOMAIN q :
        InLine(served[t][h], q[k].item) => served[t][h].n < q[k].item.n

\* A reply is sent by a callback that was served.
Answered(i) == i.type = "reply" => \E h \in DOMAIN handled[i.by] : handled[i.by][h].n = i.n
Replies ==
    /\ \A k \in DOMAIN ring : Answered(ring[k].item)
    /\ \A k \in DOMAIN handled[Self] : Answered(handled[Self][k])

\* What was enqueued is in its place until it is served.
Present(i) == Queued(i) \/ Handled(i)
Kept ==
    /\ \A t \in Threads : tpc[t] \in {"commit", "wake", "write"} => Present(cur[t])
    /\ \A i \in accepted : Present(i)

IInv ==
    /\ TypeOK /\ Contents /\ Ordered(ring) /\ Ordered(ackRing)
    /\ Ahead(handled, ring) /\ Ahead(handled, ackRing)
    /\ CallerOrder /\ Replies /\ Kept /\ NoUseAfterFree
-----------------------------------------------------------------------------
(***************************************************************************)
(* Sequences of entries.                                                   *)
(***************************************************************************)
\* What Place and Append leave behind.
LEMMA Appended ==
    ASSUME NEW q \in Seq(Entries), NEW e \in Entries
    PROVE  /\ Append(q, e) \in Seq(Entries) /\ Len(Append(q, e)) = Len(q) + 1
           /\ DOMAIN q = 1 .. Len(q) /\ Len(q) \in Nat
           /\ DOMAIN Append(q, e) = 1 .. Len(q) + 1
           /\ Append(q, e)[Len(q) + 1] = e
           /\ \A k \in DOMAIN q : Append(q, e)[k] = q[k]
OBVIOUS

\* What yumi_ring_advance leaves behind.
LEMMA Advanced ==
    ASSUME NEW q \in Seq(Entries), q # <<>>
    PROVE  /\ Tail(q) \in Seq(Entries) /\ Len(Tail(q)) = Len(q) - 1
           /\ DOMAIN q = 1 .. Len(q) /\ Len(q) \in Nat \ {0}
           /\ DOMAIN Tail(q) = 1 .. Len(q) - 1
           /\ \A k \in DOMAIN Tail(q) : Tail(q)[k] = q[k + 1] /\ k + 1 \in DOMAIN q
OBVIOUS

\* A commit changes no item.
Same(q, p) ==
    DOMAIN p = DOMAIN q /\ \A k \in DOMAIN q : p[k].item = q[k].item

LEMMA Published ==
    ASSUME NEW q \in Seq(Entries), NEW i
    PROVE  /\ Publish(q, i) \in Seq(Entries) /\ Len(Publish(q, i)) = Len(q)
           /\ Same(q, Publish(q, i))
<1> DEFINE p == Publish(q, i)
<1>1. DOMAIN q = 1 .. Len(q) /\ Len(q) \in Nat /\ \A k \in 1 .. Len(q) : q[k] \in Entries
  OBVIOUS
<1>2. p = [k \in 1 .. Len(q) |-> IF q[k].item = i THEN [q[k] EXCEPT !.ready = TRUE] ELSE q[k]]
  BY <1>1 DEF Publish
<1>3. \A e \in Entries : /\ [e EXCEPT !.ready = TRUE] \in Entries
                         /\ [e EXCEPT !.ready = TRUE].item = e.item
  BY DEF Entries
<1> HIDE DEF p
<1>4. p \in [1 .. Len(q) -> Entries] /\ \A k \in 1 .. Len(q) : p[k].item = q[k].item
  BY <1>1, <1>2, <1>3
<1>5. p \in Seq(Entries) /\ Len(p) = Len(q)
  BY <1>1, <1>4, SeqDef
<1> QED
  BY <1>1, <1>4, <1>5 DEF p, Same

\* The item at the front of a ring.
LEMMA FrontItem ==
    ASSUME NEW q \in Seq(Entries), NEW i \in Front(q)
    PROVE  q # <<>> /\ i = q[1].item /\ i \in Items /\ 1 \in DOMAIN q
<1>1. q # <<>> /\ i = q[1].item
  BY DEF Front
<1>2. 1 \in DOMAIN q /\ q[1] \in Entries
  BY <1>1
<1> QED
  BY <1>1, <1>2 DEF Entries

-----------------------------------------------------------------------------
(***************************************************************************)
(* Types.                                                                  *)
(***************************************************************************)
RingTypes ==
    /\ ring \in Seq(Entries) /\ ackRing \in Seq(Entries)
    /\ Len(ring) <= Cap /\ Len(ackRing) <= Cap
    /\ handled \in [Threads \cup {Self} -> Seq(Items)]

ThreadTypes ==
    /\ tpc \in [Threads -> {"idle", "commit", "wake", "write", "exit"}]
    /\ calls \in [Threads -> 0 .. MaxCalls + MaxAcks]
    /\ cur \in [Threads -> Items] /\ accepted \subseteq Items

WorkerTypes ==
    /\ credit \in Int /\ credit > -Cost
    /\ wpc \in {"top", "ack", "refill", "data", "after", "poll", "read", "unpoll", "exit"}
    /\ retry \in 0 .. Retries - 1
    /\ drainedAny \in BOOLEAN /\ didWork \in BOOLEAN

FlagTypes ==
    /\ running \in BOOLEAN /\ polling \in BOOLEAN /\ eventFd \in BOOLEAN
    /\ dpc \in {"no", "sentinel", "join", "freed"}

Parts == RingTypes /\ ThreadTypes /\ WorkerTypes /\ FlagTypes

\* An item is served to its caller's list.
LEMMA ServedType ==
    ASSUME RingTypes, NEW i \in Items
    PROVE  /\ Caller(i) \in Threads \cup {Self}
           /\ Served(i) \in [Threads \cup {Self} -> Seq(Items)]
           /\ Served(i)[Caller(i)] = Append(handled[Caller(i)], i)
           /\ \A t \in Threads \cup {Self} : t # Caller(i) => Served(i)[t] = handled[t]
<1>1. Caller(i) \in Threads \cup {Self}
  BY DEF Items, Caller
<1>2. Append(handled[Caller(i)], i) \in Seq(Items)
  BY <1>1 DEF RingTypes
<1> QED
  BY <1>1, <1>2 DEF Served, RingTypes

\* The steps of a producer.
LEMMA ThreadTypesStep ==
    ASSUME Parts, NEW t \in Threads, Thread(t)
    PROVE  Parts'
<1> USE SendWorkerAssumption DEF Parts
<1>1. ASSUME NEW type \in {"data", "user", "raw"}, Enqueue(t, type) PROVE Parts'
  <2> DEFINE item == [by |-> t, n |-> calls[t] + 1, type |-> type]
             entry == [item |-> item, ready |-> FALSE]
  <2>1. calls[t] + 1 \in 0 .. MaxCalls + MaxAcks
    BY <1>1 DEF Enqueue, MayCall, ThreadTypes
  <2>2. item \in Items /\ entry \in Entries
    BY <2>1 DEF Items, Entries
  <2>3. \/ Len(ackRing) < Cap /\ ackRing' = Append(ackRing, entry) /\ ring' = ring
        \/ Len(ring) < Cap /\ ring' = Append(ring, entry) /\ ackRing' = ackRing
    BY <1>1 DEF Enqueue, Place
  <2>4. cur' = [cur EXCEPT ![t] = item] /\ calls' = [calls EXCEPT ![t] = @ + 1]
        /\ tpc' = [tpc EXCEPT ![t] = "commit"]
        /\ UNCHANGED <<running, polling, eventFd, workerVars, dpc, accepted, handled>>
    BY <1>1 DEF Enqueue
  <2> HIDE DEF entry, item
  <2>5. RingTypes'
    <3>1. \A q \in Seq(Entries) : Append(q, entry) \in Seq(Entries)
                                 /\ Len(Append(q, entry)) = Len(q) + 1 /\ Len(q) \in Nat
      BY <2>2, Appended
    <3>2. CASE Len(ackRing) < Cap /\ ackRing' = Append(ackRing, entry) /\ ring' = ring
      BY <2>4, <3>1, <3>2 DEF RingTypes
    <3>3. CASE Len(ring) < Cap /\ ring' = Append(ring, entry) /\ ackRing' = ackRing
      BY <2>4, <3>1, <3>3 DEF RingTypes
    <3> QED
      BY <2>3, <3>2, <3>3
  <2>6. ThreadTypes'
    BY <2>1, <2>2, <2>4 DEF ThreadTypes
  <2> QED
    BY <2>4, <2>5, <2>6 DEF WorkerTypes, FlagTypes, workerVars
<1>2. CASE EnqueueFails(t)
  <2>1. calls[t] + 1 \in 0 .. MaxCalls + MaxAcks
    BY <1>2 DEF EnqueueFails, MayCall, ThreadTypes
  <2> QED
    BY <1>2, <2>1
       DEF EnqueueFails, RingTypes, ThreadTypes, WorkerTypes, FlagTypes, workerVars
<1>3. CASE CommitItem(t)
  <2>1. RingTypes'
    BY <1>3, Published DEF CommitItem, RingTypes
  <2> QED
    BY <1>3, <2>1 DEF CommitItem, ThreadTypes, WorkerTypes, FlagTypes, workerVars
<1>4. CASE ExchangePolling(t)
  BY <1>4 DEF ExchangePolling, RingTypes, ThreadTypes, WorkerTypes, FlagTypes, workerVars
<1>5. CASE WriteEvent(t)
  BY <1>5 DEF WriteEvent, RingTypes, ThreadTypes, WorkerTypes, FlagTypes, workerVars
<1> QED
  BY <1>1, <1>2, <1>3, <1>4, <1>5 DEF Thread

\* The credit never falls below one datagram's debt (send_worker_pace_refill).
LEMMA RefillType ==
    ASSUME WorkerTypes, NEW r \in Rates, NEW e \in Elapsed
    PROVE  Refilled(r, e) \in Int /\ Refilled(r, e) > -Cost
<1>1. r \in Nat /\ e \in Nat /\ Second \in Nat \ {0} /\ Burst \in Nat \ {0} /\ Cost \in Nat \ {0}
  BY SendWorkerAssumption
<1>2. \A a \in Nat, b \in Nat \ {0} : a \div b \in Nat
  OBVIOUS
<1>3. r * e \in Nat
  BY <1>1
<1>4. Gain(r, e) \in Nat
  BY <1>1, <1>2, <1>3 DEF Gain
<1> QED
  BY <1>1, <1>4 DEF Refilled, WorkerTypes

\* The steps of the worker.
LEMMA WorkerTypesStep ==
    ASSUME Parts, Worker
    PROVE  Parts'
<1> USE SendWorkerAssumption DEF Parts
<1>1. CASE Top
  BY <1>1 DEF Top, RingTypes, ThreadTypes, WorkerTypes, FlagTypes, threadVars
<1>2. CASE DrainAck
  <2>1. RingTypes'
    <3>1. ASSUME NEW i \in Front(ackRing), handled' = Served(i), ackRing' = Tail(ackRing)
          PROVE  RingTypes'
      <4>1. ackRing # <<>> /\ i \in Items
        BY FrontItem DEF RingTypes
      <4>2. ackRing' \in Seq(Entries) /\ Len(ackRing') <= Cap
        BY <3>1, <4>1, Advanced DEF RingTypes
      <4>3. handled' \in [Threads \cup {Self} -> Seq(Items)]
        BY <3>1, <4>1, ServedType
      <4> QED
        BY <1>2, <4>2, <4>3 DEF DrainAck, RingTypes
    <3>2. CASE UNCHANGED <<handled, ackRing>>
      BY <1>2, <3>2 DEF DrainAck, RingTypes
    <3> QED
      BY <1>2, <3>1, <3>2 DEF DrainAck
  <2>2. WorkerTypes'
    <3>1. \/ wpc' = wpc /\ retry' = retry /\ didWork' = TRUE
          \/ wpc' = "refill" /\ retry' = 0 /\ didWork' = didWork
      BY <1>2 DEF DrainAck
    <3>2. 0 \in 0 .. Retries - 1 /\ UNCHANGED <<credit, drainedAny>>
      BY <1>2 DEF DrainAck
    <3>3. wpc' \in {"ack", "refill"}
      BY <1>2, <3>1 DEF DrainAck
    <3>4. retry' \in 0 .. Retries - 1 /\ didWork' \in BOOLEAN
      BY <3>1, <3>2 DEF WorkerTypes
    <3> QED
      BY <3>2, <3>3, <3>4 DEF WorkerTypes
  <2>3. ThreadTypes' /\ FlagTypes'
    BY <1>2 DEF DrainAck, ThreadTypes, FlagTypes, threadVars
  <2> QED
    BY <2>1, <2>2, <2>3
<1>3. ASSUME NEW r \in Rates, NEW e \in Elapsed, PaceRefill(r, e) PROVE Parts'
  BY <1>3, RefillType
     DEF PaceRefill, RingTypes, ThreadTypes, WorkerTypes, FlagTypes, threadVars
<1>4. CASE ServeUser
  <2>1. PICK i \in Front(ring) : i.type = "user" /\ handled' = Served(i)
                                 /\ ring' = AfterCallback(ring, i)
    BY <1>4 DEF ServeUser
  <2>2. ring # <<>> /\ i \in Items
    BY FrontItem DEF RingTypes
  <2> DEFINE reply == [item |-> [i EXCEPT !.type = "reply"], ready |-> TRUE]
  <2>3. reply \in Entries
    BY <2>2 DEF Items, Entries
  <2>4. ring' = Tail(IF Len(ring) < Cap THEN Append(ring, reply) ELSE ring)
    BY <2>1 DEF AfterCallback
  <2> HIDE DEF reply
  <2>5. ring' \in Seq(Entries) /\ Len(ring') <= Cap
    <3>1. CASE Len(ring) < Cap
      <4>1. Append(ring, reply) \in Seq(Entries) /\ Append(ring, reply) # <<>>
            /\ Len(Append(ring, reply)) = Len(ring) + 1
        BY <2>3 DEF RingTypes
      <4> QED
        BY <2>4, <3>1, <4>1, Advanced DEF RingTypes
    <3>2. CASE Len(ring) >= Cap
      BY <2>2, <2>4, <3>2, Advanced DEF RingTypes
    <3> QED
      BY <3>1, <3>2 DEF RingTypes
  <2>6. RingTypes'
    BY <1>4, <2>1, <2>2, <2>5, ServedType DEF ServeUser, RingTypes
  <2> QED
    BY <1>4, <2>6 DEF ServeUser, ThreadTypes, WorkerTypes, FlagTypes, threadVars, workerVars
<1>5. CASE ServeData
  <2>1. PICK i \in Front(ring) : handled' = Served(i) /\ ring' = Tail(ring)
    BY <1>5 DEF ServeData
  <2>2. ring # <<>> /\ i \in Items
    BY FrontItem DEF RingTypes
  <2>3. RingTypes'
    <3>1. ring' \in Seq(Entries) /\ Len(ring') <= Cap
      BY <2>1, <2>2, Advanced DEF RingTypes
    <3>2. handled' \in [Threads \cup {Self} -> Seq(Items)]
      BY <2>1, <2>2, ServedType
    <3> QED
      BY <1>5, <3>1, <3>2 DEF ServeData, RingTypes
  <2> QED
    BY <1>5, <2>3 DEF ServeData, ThreadTypes, WorkerTypes, FlagTypes, threadVars
<1>6. CASE SeeShutdown \/ DataBreak
  BY <1>6 DEF SeeShutdown, DataBreak, RingTypes, ThreadTypes, WorkerTypes, FlagTypes, threadVars
<1>7. CASE AfterRound
  BY <1>7 DEF AfterRound, RingTypes, ThreadTypes, WorkerTypes, FlagTypes, threadVars
<1>8. CASE SetPolling \/ ReadEvent \/ ClearPolling
  BY <1>8 DEF SetPolling, ReadEvent, ClearPolling, RingTypes, ThreadTypes, WorkerTypes,
              FlagTypes, threadVars
<1> QED
  BY <1>1, <1>2, <1>3, <1>4, <1>5, <1>6, <1>7, <1>8 DEF Worker

\* Every step keeps the types (yumi_udp_client_t, its rings and its threads).
LEMMA TypeStep == TypeOK /\ [Next]_vars => TypeOK'
<1> SUFFICES ASSUME TypeOK, [Next]_vars PROVE TypeOK'
  OBVIOUS
<1>0. Parts
  BY DEF TypeOK, Parts, RingTypes, ThreadTypes, WorkerTypes, FlagTypes
<1> SUFFICES Parts'
  BY DEF TypeOK, Parts, RingTypes, ThreadTypes, WorkerTypes, FlagTypes
<1> USE SendWorkerAssumption, <1>0 DEF Parts
<1>1. CASE RecvExit
  BY <1>1 DEF RecvExit, Threads, RingTypes, ThreadTypes, WorkerTypes, FlagTypes, workerVars
<1>2. CASE Destroy \/ Join
  BY <1>2 DEF Destroy, Join, RingTypes, ThreadTypes, WorkerTypes, FlagTypes, workerVars,
              threadVars
<1>3. CASE PushSentinel
  <2> DEFINE entry == [item |-> Sentinel, ready |-> TRUE]
  <2>1. entry \in Entries
    BY DEF Sentinel, Items, Entries
  <2>2. ring' = IF Len(ring) < Cap THEN Append(ring, entry) ELSE ring
    BY <1>3 DEF PushSentinel
  <2> HIDE DEF entry
  <2>3. RingTypes'
    BY <1>3, <2>1, <2>2, Appended DEF PushSentinel, RingTypes
  <2> QED
    BY <1>3, <2>3 DEF PushSentinel, ThreadTypes, WorkerTypes, FlagTypes, workerVars, threadVars
<1>4. CASE UNCHANGED vars
  BY <1>4 DEF vars, RingTypes, ThreadTypes, WorkerTypes, FlagTypes
<1> QED
  BY <1>1, <1>2, <1>3, <1>4, ThreadTypesStep, WorkerTypesStep DEF Next, Destroyer, Gone
-----------------------------------------------------------------------------
(***************************************************************************)
(* The order.                                                              *)
(***************************************************************************)
\* What the proofs use of TypeOK.
LEMMA Basics ==
    ASSUME TypeOK
    PROVE  /\ ring \in Seq(Entries) /\ ackRing \in Seq(Entries)
           /\ handled \in [Threads \cup {Self} -> Seq(Items)]
           /\ \A t \in Threads \cup {Self} : \A k \in DOMAIN handled[t] :
                 handled[t][k] \in Items /\ handled[t][k].n \in Nat
           /\ \A q \in {ring, ackRing} : \A k \in DOMAIN q :
                 q[k].item \in Items /\ q[k].item.n \in Nat
           /\ \A t \in Threads : calls[t] \in Nat
           /\ RingTypes
<1> USE SendWorkerAssumption
<1>1. /\ ring \in Seq(Entries) /\ ackRing \in Seq(Entries)
      /\ handled \in [Threads \cup {Self} -> Seq(Items)]
      /\ calls \in [Threads -> 0 .. MaxCalls + MaxAcks] /\ RingTypes
  BY DEF TypeOK, RingTypes
<1>2. \A i \in Items : i.n \in Nat
  BY DEF Items
<1>3. \A e \in Entries : e.item \in Items
  BY DEF Entries
<1>4. ASSUME NEW t \in Threads \cup {Self}, NEW k \in DOMAIN handled[t]
      PROVE  handled[t][k] \in Items
  <2>1. handled[t] \in Seq(Items)
    BY <1>1
  <2> QED
    BY <2>1
<1>5. \A q \in {ring, ackRing} : \A k \in DOMAIN q : q[k] \in Entries
  BY <1>1
<1> QED
  BY <1>1, <1>2, <1>3, <1>4, <1>5

\* What is known stays known while the calls only grow and destroy goes on.
LEMMA KnownStays ==
    ASSUME \A t \in Threads : calls[t] \in Nat /\ calls'[t] \in Nat /\ calls[t] <= calls'[t],
           dpc \in {"join", "freed"} => dpc' \in {"join", "freed"},
           NEW i \in Items, Known(i)
    PROVE  Known(i)'
BY DEF Known, Items

\* A line has one kind: what waits in one ring does not wait in the other.
LEMMA LinesApart ==
    ASSUME NEW a, NEW b, Known(a), Known(b), a.type = "raw", b.type # "raw"
    PROVE  ~InLine(a, b) /\ ~InLine(b, a)
BY DEF Known, InLine, Sentinel, Recv, Self

\* Serving keeps the order of what remains, and of what has been served.
LEMMA ServeOrder ==
    ASSUME TypeOK, Contents, CallerOrder, NEW q \in {ring, ackRing}, q # <<>>,
           Ordered(q), Ahead(handled, q), NEW i, i = q[1].item, handled' = Served(i)
    PROVE  /\ Ordered(Tail(q)) /\ Ahead(handled', Tail(q)) /\ CallerOrder'
           /\ \A x : InPlace(x, q) => x = i \/ InPlace(x, Tail(q))
           /\ \A t \in Threads \cup {Self} : \A h \in DOMAIN handled'[t] :
                 \/ h \in DOMAIN handled[t] /\ handled'[t][h] = handled[t][h]
                 \/ t = Caller(i) /\ handled'[t][h] = i
           /\ \A t \in Threads \cup {Self} : \A h \in DOMAIN handled[t] :
                 h \in DOMAIN handled'[t] /\ handled'[t][h] = handled[t][h]
           /\ Caller(i) \in Threads \cup {Self}
           /\ \E h \in DOMAIN handled'[Caller(i)] : handled'[Caller(i)][h] = i
<1> USE Basics
<1> DEFINE c == Caller(i)
           p == Tail(q)
<1>1. /\ q \in Seq(Entries) /\ DOMAIN q = 1 .. Len(q) /\ Len(q) \in Nat \ {0}
      /\ DOMAIN p = 1 .. Len(q) - 1
      /\ \A k \in DOMAIN p : p[k] = q[k + 1] /\ k + 1 \in DOMAIN q /\ 1 < k + 1 /\ k \in Nat
      /\ 1 \in DOMAIN q
  BY Advanced
<1>2. i \in Items /\ i.n \in Nat
  BY <1>1
<1>3. /\ c \in Threads \cup {Self} /\ handled'[c] = Append(handled[c], i)
      /\ \A t \in Threads \cup {Self} : t # c => handled'[t] = handled[t]
  BY <1>2, ServedType
<1>4. handled[c] \in Seq(Items)
  BY <1>3
<1>5. /\ DOMAIN handled[c] = 1 .. Len(handled[c]) /\ Len(handled[c]) \in Nat
      /\ DOMAIN handled'[c] = 1 .. Len(handled[c]) + 1
      /\ handled'[c][Len(handled[c]) + 1] = i
      /\ \A h \in DOMAIN handled[c] : handled'[c][h] = handled[c][h]
  BY <1>2, <1>3, <1>4
<1> HIDE DEF c, p
<1>6. Ordered(p)
  <2> SUFFICES ASSUME NEW j \in DOMAIN p, NEW k \in DOMAIN p, j < k,
                      InLine(p[j].item, p[k].item)
               PROVE  p[j].item.n < p[k].item.n
    BY DEF Ordered
  <2>1. /\ p[j] = q[j + 1] /\ p[k] = q[k + 1] /\ j + 1 < k + 1
        /\ j + 1 \in DOMAIN q /\ k + 1 \in DOMAIN q
    BY <1>1
  <2>2. InLine(q[j + 1].item, q[k + 1].item)
    BY <2>1
  <2> QED
    BY <2>1, <2>2 DEF Ordered
<1>7. \A t \in Threads \cup {Self} : \A h \in DOMAIN handled'[t] :
         \/ h \in DOMAIN handled[t] /\ handled'[t][h] = handled[t][h]
         \/ t = c /\ handled'[t][h] = i /\ h = Len(handled[c]) + 1
  <2> SUFFICES ASSUME NEW t \in Threads \cup {Self}, NEW h \in DOMAIN handled'[t]
               PROVE  \/ h \in DOMAIN handled[t] /\ handled'[t][h] = handled[t][h]
                      \/ t = c /\ handled'[t][h] = i /\ h = Len(handled[c]) + 1
    OBVIOUS
  <2>1. CASE t # c
    BY <1>3, <2>1
  <2>2. CASE t = c
    <3>1. h \in DOMAIN handled'[c]
      BY <2>2
    <3>2. h \in DOMAIN handled[c] \/ h = Len(handled[c]) + 1
      BY <1>5, <3>1
    <3> QED
      BY <1>5, <2>2, <3>2
  <2> QED
    BY <2>1, <2>2
<1>8. Ahead(handled', p)
  <2> SUFFICES ASSUME NEW t \in Threads \cup {Self}, NEW h \in DOMAIN handled'[t],
                      NEW k \in DOMAIN p, InLine(handled'[t][h], p[k].item)
               PROVE  handled'[t][h].n < p[k].item.n
    BY DEF Ahead
  <2>1. CASE h \in DOMAIN handled[t] /\ handled'[t][h] = handled[t][h]
    BY <1>1, <2>1 DEF Ahead
  <2>2. CASE handled'[t][h] = i
    BY <1>1, <2>2 DEF Ordered
  <2> QED
    BY <1>7, <2>1, <2>2
<1>9. CallerOrder'
  <2> SUFFICES ASSUME NEW t \in Threads \cup {Self}, NEW j \in DOMAIN handled'[t],
                      NEW k \in DOMAIN handled'[t], j < k,
                      handled'[t][j].by = handled'[t][k].by
               PROVE  handled'[t][j].n < handled'[t][k].n
    BY DEF CallerOrder
  <2>1. j \in DOMAIN handled[t] /\ handled'[t][j] = handled[t][j]
    <3>1. CASE t # c
      BY <1>3, <3>1
    <3>2. CASE t = c
      <4>1. j \in DOMAIN handled[c]
        BY <1>5, <3>2
      <4> QED
        BY <1>5, <3>2, <4>1
    <3> QED
      BY <3>1, <3>2
  <2>2. CASE k \in DOMAIN handled[t] /\ handled'[t][k] = handled[t][k]
    BY <2>1, <2>2 DEF CallerOrder
  <2>3. CASE t = c /\ handled'[t][k] = i
    <3>1. InLine(handled[t][j], i)
      BY <2>1, <2>3 DEF InLine, Contents, c
    <3> QED
      BY <1>1, <2>1, <2>3, <3>1 DEF Ahead
  <2> QED
    BY <1>7, <2>2, <2>3
<1>10. \A x : InPlace(x, q) => x = i \/ InPlace(x, p)
  <2> SUFFICES ASSUME NEW x, NEW k \in DOMAIN q, q[k].item = x, x # i
               PROVE  InPlace(x, p)
    BY DEF InPlace
  <2>1. k - 1 \in DOMAIN p /\ p[k - 1] = q[k]
    BY <1>1
  <2> QED
    BY <2>1 DEF InPlace
<1>11. ASSUME NEW t \in Threads \cup {Self}, NEW h \in DOMAIN handled[t]
       PROVE  h \in DOMAIN handled'[t] /\ handled'[t][h] = handled[t][h]
  <2>1. CASE t # c
    BY <1>3, <2>1
  <2>2. CASE t = c
    BY <1>5, <2>2
  <2> QED
    BY <2>1, <2>2
<1>12. \E h \in DOMAIN handled'[c] : handled'[c][h] = i
  BY <1>5
<1> QED
  BY <1>3, <1>6, <1>7, <1>8, <1>9, <1>10, <1>11, <1>12 DEF c, p

\* A new item behind all of its line keeps the order.
LEMMA AppendOrder ==
    ASSUME NEW q \in Seq(Entries), NEW served, NEW e \in Entries,
           Ordered(q), Ahead(served, q),
           \A k \in DOMAIN q : InLine(q[k].item, e.item) => q[k].item.n < e.item.n,
           \A t \in Threads \cup {Self} : \A h \in DOMAIN served[t] :
               InLine(served[t][h], e.item) => served[t][h].n < e.item.n
    PROVE  /\ Ordered(Append(q, e)) /\ Ahead(served, Append(q, e))
           /\ \A x : InPlace(x, q) => InPlace(x, Append(q, e))
           /\ InPlace(e.item, Append(q, e))
           /\ \A k \in DOMAIN Append(q, e) : \/ k \in DOMAIN q /\ Append(q, e)[k] = q[k]
                                            \/ Append(q, e)[k] = e
<1> DEFINE p == Append(q, e)
<1>1. /\ DOMAIN q = 1 .. Len(q) /\ Len(q) \in Nat /\ DOMAIN p = 1 .. Len(q) + 1
      /\ p[Len(q) + 1] = e /\ \A k \in DOMAIN q : p[k] = q[k]
  BY Appended
<1> HIDE DEF p
<1>2. \A k \in DOMAIN p : \/ k \in DOMAIN q /\ p[k] = q[k]
                          \/ k = Len(q) + 1 /\ p[k] = e
  BY <1>1
<1>3. Ordered(p)
  <2> SUFFICES ASSUME NEW j \in DOMAIN p, NEW k \in DOMAIN p, j < k,
                      InLine(p[j].item, p[k].item)
               PROVE  p[j].item.n < p[k].item.n
    BY DEF Ordered
  <2>1. j \in DOMAIN q /\ p[j] = q[j]
    BY <1>1
  <2> QED
    BY <1>2, <2>1 DEF Ordered
<1>4. Ahead(served, p)
  BY <1>2 DEF Ahead
<1>5. /\ \A x : InPlace(x, q) => InPlace(x, p)
      /\ InPlace(e.item, p)
  BY <1>1 DEF InPlace
<1> QED
  BY <1>2, <1>3, <1>4, <1>5 DEF p

\* A step that moves no item: the items stay in their places and in order.
LEMMA QuietStep ==
    ASSUME IInv, TypeOK', NoUseAfterFree',
           Same(ring, ring'), Same(ackRing, ackRing'), handled' = handled,
           \A t \in Threads : calls[t] <= calls'[t],
           dpc \in {"join", "freed"} => dpc' \in {"join", "freed"},
           \A t \in Threads : tpc'[t] \in {"commit", "wake", "write"} =>
               tpc[t] \in {"commit", "wake", "write"} /\ cur'[t] = cur[t],
           \A i \in accepted' : i \in accepted \/ \E t \in Threads :
               tpc[t] \in {"commit", "wake", "write"} /\ i = cur[t]
    PROVE  IInv'
<1>0. TypeOK /\ \A t \in Threads : calls'[t] \in Nat
  <2>1. \A n \in 0 .. MaxCalls + MaxAcks : n \in Nat
    BY SendWorkerAssumption
  <2> QED
    BY <2>1 DEF IInv, TypeOK
<1> USE <1>0, Basics
<1>1. Contents'
  <2>1. \A i \in Items : Known(i) => Known(i)'
    BY KnownStays
  <2> QED
    BY <2>1 DEF IInv, Contents, Same
<1>2. Ordered(ring)' /\ Ordered(ackRing)' /\ Ahead(handled, ring)' /\ Ahead(handled, ackRing)'
  BY DEF IInv, Ordered, Ahead, Same
<1>3. CallerOrder'
  BY DEF IInv, CallerOrder
<1>4. Replies'
  <2>1. \A i : Answered(i) => Answered(i)'
    BY DEF Answered
  <2> QED
    BY <2>1 DEF IInv, Replies, Same
<1>5. Kept'
  <2>1. \A i : Present(i) => Present(i)'
    BY DEF Present, Queued, Handled, InPlace, Same
  <2> QED
    BY <2>1 DEF IInv, Kept
<1> QED
  BY <1>1, <1>2, <1>3, <1>4, <1>5 DEF IInv

-----------------------------------------------------------------------------
(***************************************************************************)
(* The steps that enqueue.                                                 *)
(***************************************************************************)
\* What is new in a ring keeps what was there, what was served and what is kept.
LEMMA PlaceStep ==
    ASSUME IInv, TypeOK', NoUseAfterFree', NEW e \in Entries, UNCHANGED <<handled, accepted>>,
           \/ ring' = Append(ring, e) /\ ackRing' = ackRing /\ e.item.type # "raw"
           \/ ackRing' = Append(ackRing, e) /\ ring' = ring /\ e.item.type = "raw",
           e.item.type # "reply", Known(e.item)',
           \A x \in Items : Known(x) => Known(x)' /\ (InLine(x, e.item) => x.n < e.item.n),
           \A t \in Threads : tpc'[t] \in {"commit", "wake", "write"} =>
               \/ cur'[t] = e.item
               \/ tpc[t] \in {"commit", "wake", "write"} /\ cur'[t] = cur[t]
    PROVE  IInv'
<1>0. /\ TypeOK /\ Contents /\ Ordered(ring) /\ Ordered(ackRing)
      /\ Ahead(handled, ring) /\ Ahead(handled, ackRing) /\ CallerOrder /\ Replies /\ Kept
  BY DEF IInv
<1>1. /\ ring \in Seq(Entries) /\ ackRing \in Seq(Entries)
      /\ \A t \in Threads \cup {Self} : \A k \in DOMAIN handled[t] : handled[t][k] \in Items
      /\ \A q \in {ring, ackRing} : \A k \in DOMAIN q : q[k].item \in Items
  BY <1>0, Basics
<1>2. /\ \A t \in Threads \cup {Self} : \A h \in DOMAIN handled[t] :
            Known(handled[t][h])' /\ (InLine(handled[t][h], e.item) => handled[t][h].n < e.item.n)
      /\ \A q \in {ring, ackRing} : \A k \in DOMAIN q :
            Known(q[k].item)' /\ (InLine(q[k].item, e.item) => q[k].item.n < e.item.n)
  BY <1>0, <1>1 DEF Contents
<1>3. ASSUME NEW q \in {ring, ackRing}
      PROVE  /\ Ordered(Append(q, e)) /\ Ahead(handled, Append(q, e))
             /\ \A x : InPlace(x, q) => InPlace(x, Append(q, e))
             /\ InPlace(e.item, Append(q, e))
             /\ \A k \in DOMAIN Append(q, e) : \/ k \in DOMAIN q /\ Append(q, e)[k] = q[k]
                                              \/ Append(q, e)[k] = e
  <2>1. q \in Seq(Entries) /\ Ordered(q) /\ Ahead(handled, q)
    BY <1>0, <1>1
  <2>2. /\ \A k \in DOMAIN q : InLine(q[k].item, e.item) => q[k].item.n < e.item.n
        /\ \A t \in Threads \cup {Self} : \A h \in DOMAIN handled[t] :
              InLine(handled[t][h], e.item) => handled[t][h].n < e.item.n
    BY <1>2
  <2> QED
    BY <2>1, <2>2, AppendOrder
<1>4. /\ Ordered(ring') /\ Ordered(ackRing') /\ Ahead(handled, ring') /\ Ahead(handled, ackRing')
      /\ \A x : InPlace(x, ring) => InPlace(x, ring')
      /\ \A x : InPlace(x, ackRing) => InPlace(x, ackRing')
      /\ InPlace(e.item, ring') \/ InPlace(e.item, ackRing')
      /\ \A k \in DOMAIN ring' : \/ k \in DOMAIN ring /\ ring'[k] = ring[k]
                                 \/ ring'[k] = e /\ e.item.type # "raw"
      /\ \A k \in DOMAIN ackRing' : \/ k \in DOMAIN ackRing /\ ackRing'[k] = ackRing[k]
                                    \/ ackRing'[k] = e /\ e.item.type = "raw"
  <2>1. CASE ring' = Append(ring, e) /\ ackRing' = ackRing /\ e.item.type # "raw"
    BY <1>0, <1>3, <2>1
  <2>2. CASE ackRing' = Append(ackRing, e) /\ ring' = ring /\ e.item.type = "raw"
    BY <1>0, <1>3, <2>2
  <2> QED
    BY <2>1, <2>2
<1>5. Contents'
  BY <1>0, <1>2, <1>4 DEF Contents
<1>6. Ordered(ring)' /\ Ordered(ackRing)'
  BY <1>4 DEF Ordered
<1>7. Ahead(handled, ring)' /\ Ahead(handled, ackRing)'
  BY <1>4 DEF Ahead
<1>8. CallerOrder'
  BY <1>0 DEF CallerOrder
<1>9. Replies'
  <2>1. \A i : Answered(i) => Answered(i)'
    BY DEF Answered
  <2>2. Answered(e.item)'
    BY DEF Answered
  <2> QED
    BY <1>0, <1>4, <2>1, <2>2 DEF Replies
<1>10. Kept'
  <2>1. \A i : Present(i) => Present(i)'
    BY <1>4 DEF Present, Queued, Handled, InPlace
  <2>2. Present(e.item)'
    BY <1>4 DEF Present, Queued, InPlace
  <2> QED
    BY <1>0, <2>1, <2>2 DEF Kept
<1> QED
  BY <1>5, <1>6, <1>7, <1>8, <1>9, <1>10 DEF IInv

\* A thread takes a place: enqueue_work's yumi_ring_enqueue_reserve.
LEMMA EnqueueStep ==
    ASSUME IInv, TypeOK', NEW t \in Threads, NEW type \in {"data", "user", "raw"},
           Enqueue(t, type)
    PROVE  IInv'
<1>0. TypeOK /\ NoUseAfterFree /\ \A u \in Threads : calls[u] \in Nat /\ calls'[u] \in Nat
  <2>1. \A n \in 0 .. MaxCalls + MaxAcks : n \in Nat
    BY SendWorkerAssumption
  <2> QED
    BY <2>1 DEF IInv, TypeOK
<1>1. PICK item : item = [by |-> t, n |-> calls[t] + 1, type |-> type]
  OBVIOUS
<1>2. PICK e : e = [item |-> item, ready |-> FALSE]
  OBVIOUS
<1>3. /\ cur' = [cur EXCEPT ![t] = item] /\ calls' = [calls EXCEPT ![t] = @ + 1]
      /\ tpc' = [tpc EXCEPT ![t] = "commit"] /\ tpc[t] = "idle"
      /\ UNCHANGED <<wpc, dpc, accepted, handled>>
  BY <1>1 DEF Enqueue, MayCall, workerVars
<1>4. /\ type = "raw" <=> t = Recv
      /\ \/ ring' = Append(ring, e) /\ ackRing' = ackRing /\ type # "raw"
         \/ ackRing' = Append(ackRing, e) /\ ring' = ring /\ type = "raw"
  BY <1>1, <1>2 DEF Enqueue, Place
<1>5. /\ \A u \in Threads : calls[u] <= calls'[u]
      /\ calls'[t] = calls[t] + 1 /\ cur'[t] = item
      /\ \A u \in Threads : u # t => tpc'[u] = tpc[u] /\ cur'[u] = cur[u]
      /\ tpc'[t] = "commit"
  BY <1>0, <1>3 DEF TypeOK
<1>6. t # Self
  BY ThreadAssumption DEF Threads, Recv, Self
<1>7. item \in Items
  <2>1. calls'[t] \in 0 .. MaxCalls + MaxAcks
    BY DEF TypeOK
  <2> QED
    BY <1>1, <1>5, <2>1 DEF Items
<1>8. /\ e \in Entries /\ e.item = item
      /\ e.item.by = t /\ e.item.n = calls[t] + 1 /\ e.item.type = type
  BY <1>1, <1>2, <1>7 DEF Entries
<1>9. NoUseAfterFree'
  BY <1>0, <1>3, <1>5 DEF NoUseAfterFree, Threads
<1>10. Known(e.item)'
  <2>1. e.item.by \in Threads /\ e.item.n \in 1 .. calls'[e.item.by]
    BY <1>0, <1>5, <1>8
  <2>2. /\ e.item.type \in {"data", "user", "raw", "reply"}
        /\ e.item.type = "raw" <=> e.item.by = Recv
    BY <1>4, <1>8
  <2> QED
    BY <2>1, <2>2 DEF Known
<1>11. ASSUME NEW x \in Items, Known(x)
       PROVE  Known(x)' /\ (InLine(x, e.item) => x.n < e.item.n)
  <2>1. Known(x)'
    BY <1>0, <1>3, <1>5, <1>11, KnownStays
  <2>2. x.by = t => x.n <= calls[t] /\ x.n \in Nat
    BY <1>0, <1>6, <1>11 DEF Known, Sentinel
  <2> QED
    BY <1>0, <1>8, <2>1, <2>2 DEF InLine
<1>12. /\ \/ ring' = Append(ring, e) /\ ackRing' = ackRing /\ e.item.type # "raw"
          \/ ackRing' = Append(ackRing, e) /\ ring' = ring /\ e.item.type = "raw"
       /\ e.item.type # "reply"
       /\ \A u \in Threads : tpc'[u] \in {"commit", "wake", "write"} =>
             \/ cur'[u] = e.item
             \/ tpc[u] \in {"commit", "wake", "write"} /\ cur'[u] = cur[u]
  BY <1>4, <1>5, <1>8
<1> QED
  BY <1>3, <1>8, <1>9, <1>10, <1>11, <1>12, PlaceStep

\* yumi_udp_client_destroy pushes the sentinel, or gives up on a full ring.
LEMMA SentinelStep ==
    ASSUME IInv, TypeOK', PushSentinel
    PROVE  IInv'
<1> DEFINE e == [item |-> Sentinel, ready |-> TRUE]
<1>0. TypeOK /\ \A u \in Threads : calls[u] \in Nat
  BY Basics DEF IInv
<1>1. /\ ring' = IF Len(ring) < Cap THEN Append(ring, e) ELSE ring
      /\ dpc = "sentinel" /\ dpc' = "join"
      /\ UNCHANGED <<ackRing, tpc, calls, cur, handled, accepted>>
  BY DEF PushSentinel, threadVars
<1>2. NoUseAfterFree'
  BY <1>1 DEF NoUseAfterFree
<1>3. CASE ring' = ring
  <2>1. Same(ring, ring') /\ Same(ackRing, ackRing')
    BY <1>1, <1>3 DEF Same
  <2> QED
    BY <1>0, <1>1, <1>2, <2>1, QuietStep
<1>4. CASE ring' = Append(ring, e)
  <2>1. e \in Entries /\ e.item = Sentinel /\ Sentinel.type = "shutdown" /\ Sentinel.by = Self
    <3>1. 0 \in 0 .. MaxCalls + MaxAcks
      BY SendWorkerAssumption
    <3> QED
      BY <3>1 DEF Entries, Items, Sentinel
  <2> HIDE DEF e
  <2>2. Known(Sentinel)'
    BY <1>1 DEF Known
  <2>3. ASSUME NEW x \in Items, Known(x)
        PROVE  Known(x)' /\ (InLine(x, Sentinel) => x.n < Sentinel.n)
    <3>1. Known(x)'
      BY <1>0, <1>1, <2>3, KnownStays
    <3>2. x.by # Self
      BY <1>1, <2>3, ThreadAssumption DEF Known, Threads, Recv, Self
    <3> QED
      BY <2>1, <3>1, <3>2 DEF InLine
  <2> QED
    BY <1>1, <1>2, <1>4, <2>1, <2>2, <2>3, PlaceStep
<1> QED
  BY <1>1, <1>3, <1>4

-----------------------------------------------------------------------------
(***************************************************************************)
(* The steps that serve.                                                   *)
(***************************************************************************)
\* The worker serves the item at the front of one ring; p and a are what the
\* step leaves in the two rings.
LEMMA ServedStep ==
    ASSUME IInv, TypeOK', NoUseAfterFree', NEW i \in Items, NEW p, NEW a,
           ring' = p, ackRing' = a, handled' = Served(i),
           UNCHANGED <<calls, tpc, cur, accepted, dpc>>, Known(i), i.type # "shutdown",
           i.type = "reply" => Answered(i),
           CallerOrder', Ordered(p), Ordered(a), Ahead(handled', p), Ahead(handled', a),
           \A k \in DOMAIN p : /\ Known(p[k].item) /\ p[k].item.type # "raw"
                               /\ Answered(p[k].item)',
           \A k \in DOMAIN a : Known(a[k].item) /\ a[k].item.type = "raw",
           \A x : InPlace(x, ring) => x = i \/ InPlace(x, p),
           \A x : InPlace(x, ackRing) => x = i \/ InPlace(x, a),
           \A t \in Threads \cup {Self} : \A h \in DOMAIN handled'[t] :
               \/ h \in DOMAIN handled[t] /\ handled'[t][h] = handled[t][h]
               \/ t = Caller(i) /\ handled'[t][h] = i,
           \A t \in Threads \cup {Self} : \A h \in DOMAIN handled[t] :
               h \in DOMAIN handled'[t] /\ handled'[t][h] = handled[t][h],
           \E h \in DOMAIN handled'[Caller(i)] : handled'[Caller(i)][h] = i
    PROVE  IInv'
<1>0. TypeOK /\ Contents /\ Replies /\ Kept /\ \A t \in Threads : calls[t] \in Nat
  BY Basics DEF IInv
<1>1. \A x : Known(x) => Known(x)'
  BY DEF Known
<1>2. Contents'
  <2>1. \A t \in Threads \cup {Self} : \A h \in DOMAIN handled'[t] :
           Known(handled'[t][h]) /\ handled'[t][h].type # "shutdown" /\ Caller(handled'[t][h]) = t
    BY <1>0 DEF Contents
  <2> QED
    BY <1>1, <2>1 DEF Contents
<1>3. Ordered(ring)' /\ Ordered(ackRing)'
  BY DEF Ordered
<1>4. Ahead(handled, ring)' /\ Ahead(handled, ackRing)'
  BY DEF Ahead
<1>5. \A x \in Items : Answered(x) => Answered(x)'
  <2>1. \A x \in Items : x.by \in Threads \cup {Self}
    BY DEF Items
  <2> QED
    BY <2>1 DEF Answered
<1>6. Replies'
  <2>1. \A h \in DOMAIN handled'[Self] : Answered(handled[Self][h])'
    <3> SUFFICES ASSUME NEW h \in DOMAIN handled'[Self] PROVE Answered(handled[Self][h])'
      OBVIOUS
    <3>1. CASE h \in DOMAIN handled[Self] /\ handled'[Self][h] = handled[Self][h]
      <4>1. PICK x \in Items : x = handled[Self][h] /\ Answered(x)
        BY <1>0, <3>1, Basics DEF Replies
      <4>2. Answered(x)'
        BY <1>5, <4>1
      <4> QED
        BY <3>1, <4>1, <4>2 DEF Answered
    <3>2. CASE handled'[Self][h] = i
      <4>1. Answered(i)'
        BY <1>5 DEF Answered
      <4> QED
        BY <3>2, <4>1 DEF Answered
    <3> QED
      BY <3>1, <3>2
  <2> QED
    BY <2>1 DEF Replies, Answered
<1>7. Kept'
  <2>1. \A x \in Items : Present(x) => Present(x)'
    <3> SUFFICES ASSUME NEW x \in Items, Present(x) PROVE Present(x)'
      OBVIOUS
    <3>1. Caller(x) \in Threads \cup {Self}
      BY DEF Items, Caller
    <3>2. CASE x = i
      BY <3>2 DEF Present, Handled, Caller
    <3>3. CASE InPlace(x, ring) /\ x # i
      BY <3>3 DEF Present, Queued, InPlace
    <3>4. CASE InPlace(x, ackRing) /\ x # i
      BY <3>4 DEF Present, Queued, InPlace
    <3>5. CASE Handled(x)
      BY <3>1, <3>5 DEF Present, Handled, Caller
    <3> QED
      BY <3>2, <3>3, <3>4, <3>5 DEF Present, Queued
  <2>2. accepted \subseteq Items /\ \A t \in Threads : cur[t] \in Items
    BY <1>0 DEF TypeOK
  <2> QED
    BY <1>0, <2>1, <2>2 DEF Kept
<1> QED
  BY <1>2, <1>3, <1>4, <1>6, <1>7 DEF IInv

\* Phase 1: an ACK.
LEMMA AckStep ==
    ASSUME IInv, TypeOK', DrainAck
    PROVE  IInv'
<1>0. /\ TypeOK /\ Contents /\ CallerOrder /\ Ordered(ackRing) /\ Ahead(handled, ackRing)
      /\ Ordered(ring) /\ Ahead(handled, ring) /\ Replies /\ NoUseAfterFree
  BY DEF IInv
<1>1. NoUseAfterFree' /\ UNCHANGED <<calls, tpc, cur, accepted, dpc, ring>>
  BY <1>0 DEF DrainAck, NoUseAfterFree, threadVars
<1>2. CASE UNCHANGED <<handled, ackRing>>
  <2>1. Same(ring, ring') /\ Same(ackRing, ackRing')
    BY <1>1, <1>2 DEF Same
  <2>2. \A t \in Threads : calls[t] \in Nat
    BY <1>0, Basics
  <2> QED
    BY <1>1, <1>2, <2>1, <2>2, QuietStep
<1>3. ASSUME NEW i \in Front(ackRing), handled' = Served(i), ackRing' = Tail(ackRing)
      PROVE  IInv'
  <2>1. ackRing # <<>> /\ i = ackRing[1].item /\ i \in Items /\ 1 \in DOMAIN ackRing
    BY <1>0, FrontItem, Basics
  <2>2. PICK p, a : p = ring /\ a = Tail(ackRing)
    OBVIOUS
  <2>3. /\ Ordered(a) /\ Ahead(handled', a) /\ CallerOrder'
        /\ \A x : InPlace(x, ackRing) => x = i \/ InPlace(x, a)
        /\ \A t \in Threads \cup {Self} : \A h \in DOMAIN handled'[t] :
              \/ h \in DOMAIN handled[t] /\ handled'[t][h] = handled[t][h]
              \/ t = Caller(i) /\ handled'[t][h] = i
        /\ \A t \in Threads \cup {Self} : \A h \in DOMAIN handled[t] :
              h \in DOMAIN handled'[t] /\ handled'[t][h] = handled[t][h]
        /\ \E h \in DOMAIN handled'[Caller(i)] : handled'[Caller(i)][h] = i
    BY <1>0, <1>3, <2>1, <2>2, ServeOrder
  <2>4. Known(i) /\ i.type = "raw"
    BY <1>0, <2>1 DEF Contents
  <2>5. \A k \in DOMAIN p : Known(p[k].item) /\ p[k].item.type # "raw" /\ Answered(p[k].item)
    BY <1>0, <2>2 DEF Contents, Replies
  <2>6. \A k \in DOMAIN p : Answered(p[k].item)'
    <3>1. \A k \in DOMAIN p : p[k].item \in Items
      BY <1>0, <2>2, Basics
    <3>2. \A x \in Items : x.by \in Threads \cup {Self}
      BY DEF Items
    <3> QED
      BY <2>3, <2>5, <3>1, <3>2 DEF Answered
  <2>7. \A k \in DOMAIN a : Known(a[k].item) /\ a[k].item.type = "raw"
    <3>1. \A k \in DOMAIN a : a[k] = ackRing[k + 1] /\ k + 1 \in DOMAIN ackRing
      BY <1>0, <2>1, <2>2, Basics, Advanced
    <3> QED
      BY <1>0, <3>1 DEF Contents
  <2>8. Ordered(p) /\ Ahead(handled', p)
    <3>1. Ordered(p) /\ Ahead(handled, p)
      BY <1>0, <2>2
    <3>2. \A k \in DOMAIN p : ~InLine(i, p[k].item)
      BY <2>4, <2>5, LinesApart
    <3> QED
      BY <2>3, <3>1, <3>2 DEF Ahead
  <2>9. \A x : InPlace(x, ring) => x = i \/ InPlace(x, p)
    BY <2>2
  <2>10. /\ ring' = p /\ ackRing' = a
         /\ \A k \in DOMAIN p : /\ Known(p[k].item) /\ p[k].item.type # "raw"
                                /\ Answered(p[k].item)'
         /\ i.type # "shutdown" /\ (i.type = "reply" => Answered(i))
    BY <1>1, <1>3, <2>2, <2>4, <2>5, <2>6
  <2> QED
    BY <1>1, <1>3, <2>1, <2>3, <2>4, <2>7, <2>8, <2>9, <2>10, ServedStep
<1> QED
  BY <1>2, <1>3 DEF DrainAck

\* Phase 2: what serving the ring's front item leaves, before a callback replies.
LEMMA FrontServed ==
    ASSUME IInv, NEW i \in Front(ring), i.type # "shutdown",
           handled' = Served(i), NEW p, p = Tail(ring)
    PROVE  /\ i \in Items /\ Known(i) /\ i.type # "raw" /\ Answered(i) /\ p \in Seq(Entries)
           /\ Len(p) = Len(ring) - 1 /\ Caller(i) \in Threads \cup {Self}
           /\ ring # <<>> /\ i = ring[1].item /\ 1 \in DOMAIN ring
           /\ Ordered(p) /\ Ahead(handled', p) /\ CallerOrder'
           /\ Ordered(ackRing) /\ Ahead(handled', ackRing)
           /\ \A k \in DOMAIN p : /\ p[k].item \in Items /\ Known(p[k].item)
                                  /\ p[k].item.type # "raw"
                                  /\ Answered(p[k].item) /\ Answered(p[k].item)'
           /\ \A x : InPlace(x, ring) => x = i \/ InPlace(x, p)
           /\ \A t \in Threads \cup {Self} : \A h \in DOMAIN handled'[t] :
                 \/ h \in DOMAIN handled[t] /\ handled'[t][h] = handled[t][h]
                 \/ t = Caller(i) /\ handled'[t][h] = i
           /\ \A t \in Threads \cup {Self} : \A h \in DOMAIN handled[t] :
                 h \in DOMAIN handled'[t] /\ handled'[t][h] = handled[t][h]
           /\ \E h \in DOMAIN handled'[Caller(i)] : handled'[Caller(i)][h] = i
<1>0. /\ TypeOK /\ Contents /\ CallerOrder /\ Ordered(ackRing) /\ Ahead(handled, ackRing)
      /\ Ordered(ring) /\ Ahead(handled, ring) /\ Replies
  BY DEF IInv
<1>1. ring # <<>> /\ i = ring[1].item /\ i \in Items /\ 1 \in DOMAIN ring
  BY <1>0, FrontItem, Basics
<1>2. /\ Ordered(p) /\ Ahead(handled', p) /\ CallerOrder' /\ Caller(i) \in Threads \cup {Self}
      /\ \A x : InPlace(x, ring) => x = i \/ InPlace(x, p)
      /\ \A t \in Threads \cup {Self} : \A h \in DOMAIN handled'[t] :
            \/ h \in DOMAIN handled[t] /\ handled'[t][h] = handled[t][h]
            \/ t = Caller(i) /\ handled'[t][h] = i
      /\ \A t \in Threads \cup {Self} : \A h \in DOMAIN handled[t] :
            h \in DOMAIN handled'[t] /\ handled'[t][h] = handled[t][h]
      /\ \E h \in DOMAIN handled'[Caller(i)] : handled'[Caller(i)][h] = i
  BY <1>0, <1>1, ServeOrder
<1>3. Known(i) /\ i.type # "raw" /\ Answered(i)
  BY <1>0, <1>1 DEF Contents, Replies
<1>4. /\ p \in Seq(Entries) /\ Len(p) = Len(ring) - 1
      /\ \A k \in DOMAIN p : p[k] = ring[k + 1] /\ k + 1 \in DOMAIN ring
  BY <1>0, <1>1, Basics, Advanced
<1>5. \A k \in DOMAIN p : /\ p[k].item \in Items /\ Known(p[k].item)
                          /\ p[k].item.type # "raw" /\ Answered(p[k].item)
  <2>1. \A k \in DOMAIN ring : ring[k].item \in Items
    BY <1>0, Basics
  <2> QED
    BY <1>0, <1>4, <2>1 DEF Contents, Replies
<1>6. \A x \in Items : Answered(x) => Answered(x)'
  <2>1. \A x \in Items : x.by \in Threads \cup {Self}
    BY DEF Items
  <2> QED
    BY <1>2, <2>1 DEF Answered
<1>7. Ahead(handled', ackRing)
  <2>1. \A k \in DOMAIN ackRing : ~InLine(i, ackRing[k].item)
    BY <1>0, <1>3, LinesApart DEF Contents
  <2> QED
    BY <1>0, <1>2, <2>1 DEF Ahead
<1> QED
  BY <1>0, <1>1, <1>2, <1>3, <1>4, <1>5, <1>6, <1>7

\* A datagram is sent.
LEMMA DataStep ==
    ASSUME IInv, TypeOK', ServeData
    PROVE  IInv'
<1>1. PICK i \in Front(ring) : /\ i.type \in {"data", "reply"} /\ handled' = Served(i)
                               /\ ring' = Tail(ring)
  BY DEF ServeData
<1>2. PICK p, a : p = Tail(ring) /\ a = ackRing
  OBVIOUS
<1>3. NoUseAfterFree' /\ UNCHANGED <<calls, tpc, cur, accepted, dpc, ackRing>>
  BY DEF IInv, ServeData, NoUseAfterFree, threadVars
<1>4. /\ \A k \in DOMAIN a : Known(a[k].item) /\ a[k].item.type = "raw"
      /\ \A x : InPlace(x, ackRing) => x = i \/ InPlace(x, a)
  BY <1>2 DEF IInv, Contents
<1> QED
  BY <1>1, <1>2, <1>3, <1>4, FrontServed, ServedStep

\* The advance after the callback frees the front place, not the reply's.
LEMMA TailOfAppend ==
    ASSUME NEW q \in Seq(Entries), NEW e \in Entries, q # <<>>
    PROVE  Tail(Append(q, e)) = Append(Tail(q), e)
<1> DEFINE l == Tail(Append(q, e))
           r == Append(Tail(q), e)
<1>1. /\ Tail(q) \in Seq(Entries) /\ Append(q, e) \in Seq(Entries) /\ Append(q, e) # <<>>
      /\ Len(q) \in Nat \ {0} /\ Len(Tail(q)) = Len(q) - 1 /\ Len(Append(q, e)) = Len(q) + 1
  OBVIOUS
<1>2. /\ l \in Seq(Entries) /\ Len(l) = Len(q)
      /\ \A k \in 1 .. Len(q) : l[k] = Append(q, e)[k + 1]
  BY <1>1, Advanced
<1>3. /\ r \in Seq(Entries) /\ Len(r) = Len(q)
      /\ \A k \in 1 .. Len(q) - 1 : r[k] = Tail(q)[k]
      /\ r[Len(q)] = e
  BY <1>1, Appended
<1>4. /\ \A k \in 1 .. Len(q) - 1 : Tail(q)[k] = q[k + 1] /\ Append(q, e)[k + 1] = q[k + 1]
      /\ Append(q, e)[Len(q) + 1] = e
  BY <1>1
<1> HIDE DEF l, r
<1>5. \A k \in 1 .. Len(q) : l[k] = r[k]
  BY <1>1, <1>2, <1>3, <1>4
<1> QED
  BY <1>2, <1>3, <1>5, SeqEqual DEF l, r

\* The replies to a thread follow those to its earlier calls: the callbacks were
\* served in the order of the calls.
LEMMA RepliesLag ==
    ASSUME IInv, NEW i \in Items, ring # <<>>, i = ring[1].item, 1 \in DOMAIN ring,
           i.type = "user", Known(i), NEW x \in Items, Known(x), Answered(x), x.by = i.by,
           Caller(x) = Self
    PROVE  x.n < i.n
<1>1. i.by \in Threads /\ i.by # Self /\ Caller(i) = i.by
  BY ThreadAssumption DEF Known, Sentinel, Caller, Threads, Recv, Self
<1>2. x.type = "reply"
  BY <1>1 DEF Caller
<1>3. PICK h \in DOMAIN handled[i.by] : handled[i.by][h].n = x.n
  BY <1>2 DEF Answered
<1>4. Caller(handled[i.by][h]) = i.by
  BY <1>1 DEF IInv, Contents
<1>5. InLine(handled[i.by][h], i)
  BY <1>1, <1>4 DEF InLine, Caller
<1> QED
  BY <1>1, <1>3, <1>5 DEF IInv, Ahead

\* A callback is served and enqueues a packet of its own behind the rest.
LEMMA UserStep ==
    ASSUME IInv, TypeOK', ServeUser
    PROVE  IInv'
<1>0. TypeOK /\ Contents /\ Replies
  BY DEF IInv
<1>1. PICK i \in Front(ring) : /\ i.type = "user" /\ handled' = Served(i)
                               /\ ring' = AfterCallback(ring, i)
  BY DEF ServeUser
<1>2. PICK p, a, s, sv : p = ring' /\ a = ackRing /\ s = Tail(ring) /\ sv = handled'
  OBVIOUS
<1>3. NoUseAfterFree' /\ UNCHANGED <<calls, tpc, cur, accepted, dpc, ackRing>>
  BY DEF IInv, ServeUser, NoUseAfterFree, threadVars, workerVars
<1>4. /\ \A k \in DOMAIN a : Known(a[k].item) /\ a[k].item.type = "raw"
      /\ \A x : InPlace(x, ackRing) => x = i \/ InPlace(x, a)
      /\ i.type # "shutdown"
  BY <1>0, <1>1, <1>2 DEF Contents
<1>5. /\ i \in Items /\ Known(i) /\ i.type # "raw" /\ Answered(i) /\ s \in Seq(Entries)
      /\ Len(s) = Len(ring) - 1
      /\ Caller(i) \in Threads \cup {Self} /\ ring # <<>> /\ i = ring[1].item
      /\ Ordered(s) /\ Ahead(handled', s) /\ CallerOrder'
      /\ Ordered(ackRing) /\ Ahead(handled', ackRing) /\ 1 \in DOMAIN ring
      /\ \A k \in DOMAIN s : /\ s[k].item \in Items /\ Known(s[k].item)
                             /\ s[k].item.type # "raw"
                             /\ Answered(s[k].item) /\ Answered(s[k].item)'
      /\ \A x : InPlace(x, ring) => x = i \/ InPlace(x, s)
      /\ \A t \in Threads \cup {Self} : \A h \in DOMAIN handled'[t] :
            \/ h \in DOMAIN handled[t] /\ handled'[t][h] = handled[t][h]
            \/ t = Caller(i) /\ handled'[t][h] = i
      /\ \A t \in Threads \cup {Self} : \A h \in DOMAIN handled[t] :
            h \in DOMAIN handled'[t] /\ handled'[t][h] = handled[t][h]
      /\ \E h \in DOMAIN handled'[Caller(i)] : handled'[Caller(i)][h] = i
  <2>1. s = Tail(ring) /\ handled' = Served(i) /\ i.type # "shutdown"
    BY <1>1, <1>2, <1>4
  <2>2. /\ i \in Items /\ Known(i) /\ i.type # "raw" /\ Answered(i) /\ s \in Seq(Entries)
        /\ Len(s) = Len(ring) - 1 /\ Caller(i) \in Threads \cup {Self}
        /\ ring # <<>> /\ i = ring[1].item /\ 1 \in DOMAIN ring
    BY <2>1, FrontServed
  <2>3. /\ Ordered(s) /\ Ahead(handled', s) /\ CallerOrder'
        /\ Ordered(ackRing) /\ Ahead(handled', ackRing)
    BY <2>1, FrontServed
  <2>4. \A k \in DOMAIN s : /\ s[k].item \in Items /\ Known(s[k].item)
                             /\ s[k].item.type # "raw"
                             /\ Answered(s[k].item) /\ Answered(s[k].item)'
    BY <2>1, FrontServed
  <2>5. /\ \A x : InPlace(x, ring) => x = i \/ InPlace(x, s)
        /\ \A t \in Threads \cup {Self} : \A h \in DOMAIN handled'[t] :
              \/ h \in DOMAIN handled[t] /\ handled'[t][h] = handled[t][h]
              \/ t = Caller(i) /\ handled'[t][h] = i
        /\ \A t \in Threads \cup {Self} : \A h \in DOMAIN handled[t] :
              h \in DOMAIN handled'[t] /\ handled'[t][h] = handled[t][h]
        /\ \E h \in DOMAIN handled'[Caller(i)] : handled'[Caller(i)][h] = i
    BY <2>1, FrontServed
  <2> QED
    BY <2>2, <2>3, <2>4, <2>5
<1>6. /\ Ordered(p) /\ Ahead(handled', p)
      /\ \A k \in DOMAIN p : /\ Known(p[k].item) /\ p[k].item.type # "raw"
                             /\ Answered(p[k].item)'
      /\ \A x : InPlace(x, ring) => x = i \/ InPlace(x, p)
  <2>1. PICK m : m = [i EXCEPT !.type = "reply"]
    OBVIOUS
  <2>2. PICK e : e = [item |-> m, ready |-> TRUE]
    OBVIOUS
  <2>3. p = IF Len(ring) < Cap THEN Tail(Append(ring, e)) ELSE Tail(ring)
    BY <1>1, <1>2, <2>1, <2>2 DEF AfterCallback
  <2>4. CASE p = s
    BY <1>5, <2>4
  <2>5. CASE p = Tail(Append(ring, e))
    <3>1. m \in Items /\ m.by = i.by /\ m.n = i.n /\ m.type = "reply"
      BY <1>5, <2>1 DEF Items
    <3>2. e \in Entries /\ e.item = m
      BY <2>2, <3>1 DEF Entries
    <3>3. p = Append(s, e)
      BY <1>0, <1>2, <1>5, <2>5, <3>2, Basics, TailOfAppend
    <3>4. Caller(m) = Self /\ i.by \in Threads /\ i.by # Self /\ Caller(i) = i.by /\ i.by # Recv
      BY <1>1, <1>5, <3>1, ThreadAssumption DEF Known, Sentinel, Caller, Threads, Recv, Self
    <3>5. \A k \in DOMAIN s : InLine(s[k].item, e.item) => s[k].item.n < e.item.n
      BY <1>1, <1>5, <3>1, <3>2, <3>4, RepliesLag DEF InLine
    <3>6. \A t \in Threads \cup {Self} : \A h \in DOMAIN sv[t] :
             InLine(sv[t][h], e.item) => sv[t][h].n < e.item.n
      <4> SUFFICES ASSUME NEW t \in Threads \cup {Self}, NEW h \in DOMAIN handled'[t],
                          InLine(handled'[t][h], m)
                   PROVE  handled'[t][h].n < i.n
        BY <1>2, <3>1, <3>2
      <4>1. handled'[t][h] # i
        BY <3>4 DEF InLine
      <4>2. h \in DOMAIN handled[t] /\ handled'[t][h] = handled[t][h]
        BY <1>5, <4>1
      <4>3. PICK x \in Items : x = handled[t][h]
        BY <1>0, <4>2, Basics
      <4>4. Known(x) /\ Caller(x) = t
        BY <1>0, <4>2, <4>3 DEF Contents
      <4>5. Caller(x) = Self /\ x.by = i.by
        BY <3>1, <3>4, <4>2, <4>3 DEF InLine
      <4>6. Answered(x)
        BY <1>0, <4>2, <4>3, <4>4, <4>5 DEF Replies
      <4> QED
        BY <1>1, <1>5, <4>2, <4>3, <4>4, <4>5, <4>6, RepliesLag
    <3>7. /\ Ordered(p) /\ Ahead(sv, p)
          /\ \A x : InPlace(x, s) => InPlace(x, p)
          /\ \A k \in DOMAIN p : \/ k \in DOMAIN s /\ p[k] = s[k]
                                 \/ p[k] = e
      <4>1. Ahead(sv, s)
        BY <1>2, <1>5
      <4>2. /\ Ordered(Append(s, e)) /\ Ahead(sv, Append(s, e))
            /\ \A x : InPlace(x, s) => InPlace(x, Append(s, e))
            /\ \A k \in DOMAIN Append(s, e) : \/ k \in DOMAIN s /\ Append(s, e)[k] = s[k]
                                             \/ Append(s, e)[k] = e
        BY <1>5, <3>2, <3>5, <3>6, <4>1, AppendOrder
      <4> QED
        BY <3>3, <4>2
    <3>8. Known(m)
      <4>1. i.n \in 1 .. calls[i.by]
        BY <1>1, <1>5 DEF Known, Sentinel
      <4> QED
        BY <3>1, <3>4, <4>1 DEF Known
    <3>9. Answered(m)'
      BY <1>5, <3>1, <3>4 DEF Answered
    <3>10. \A k \in DOMAIN p : Known(p[k].item) /\ p[k].item.type # "raw" /\ Answered(p[k].item)'
      BY <1>5, <3>1, <3>2, <3>7, <3>8, <3>9
    <3> QED
      BY <1>2, <1>5, <3>7, <3>10
  <2> QED
    BY <1>2, <2>3, <2>4, <2>5
<1>7. /\ ring' = p /\ ackRing' = a /\ (i.type = "reply" => Answered(i))
      /\ Ordered(a) /\ Ahead(handled', a)
  BY <1>1, <1>2, <1>3, <1>5
<1> QED
  BY <1>1, <1>3, <1>4, <1>5, <1>6, <1>7, ServedStep

-----------------------------------------------------------------------------
(***************************************************************************)
(* The steps that move no item, and the theorems.                          *)
(***************************************************************************)
\* A producer that gives up, commits, clears the polling flag or writes the eventfd.
LEMMA ProducerStep ==
    ASSUME IInv, TypeOK', NEW t \in Threads,
           EnqueueFails(t) \/ CommitItem(t) \/ ExchangePolling(t) \/ WriteEvent(t)
    PROVE  IInv'
<1>0. TypeOK /\ NoUseAfterFree /\ \A u \in Threads : calls[u] \in Nat
  BY Basics DEF IInv
<1>1. UNCHANGED <<handled, dpc, wpc>>
  BY DEF EnqueueFails, CommitItem, ExchangePolling, WriteEvent, workerVars
<1>2. Same(ring, ring') /\ Same(ackRing, ackRing')
  <2>1. CASE UNCHANGED <<ring, ackRing>>
    BY <2>1 DEF Same
  <2>2. CASE CommitItem(t)
    BY <1>0, <2>2, Published, Basics DEF CommitItem
  <2> QED
    BY <2>1, <2>2 DEF EnqueueFails, ExchangePolling, WriteEvent
<1>3. \A u \in Threads : calls[u] <= calls'[u]
  <2>1. CASE calls' = calls
    BY <1>0, <2>1
  <2>2. CASE calls' = [calls EXCEPT ![t] = @ + 1]
    <3>1. calls \in [Threads -> 0 .. MaxCalls + MaxAcks]
      BY <1>0 DEF TypeOK
    <3> QED
      BY <1>0, <2>2, <3>1
  <2> QED
    BY <2>1, <2>2 DEF EnqueueFails, CommitItem, ExchangePolling, WriteEvent
<1>4. cur' = cur /\ \A u \in Threads :
         /\ tpc'[u] \in {"commit", "wake", "write"} => tpc[u] \in {"commit", "wake", "write"}
         /\ tpc[u] = "exit" => tpc'[u] = "exit"
  <2>1. CASE EnqueueFails(t)
    BY <2>1 DEF EnqueueFails
  <2>2. CASE CommitItem(t)
    BY <1>0, <2>2 DEF CommitItem, TypeOK
  <2>3. CASE ExchangePolling(t)
    BY <1>0, <2>3 DEF ExchangePolling, TypeOK
  <2>4. CASE WriteEvent(t)
    BY <1>0, <2>4 DEF WriteEvent, TypeOK
  <2> QED
    BY <2>1, <2>2, <2>3, <2>4
<1>5. NoUseAfterFree'
  BY <1>0, <1>1, <1>4 DEF NoUseAfterFree, Threads
<1>6. \A i \in accepted' : i \in accepted \/ \E u \in Threads :
         tpc[u] \in {"commit", "wake", "write"} /\ i = cur[u]
  BY DEF EnqueueFails, CommitItem, ExchangePolling, WriteEvent
<1> QED
  BY <1>1, <1>2, <1>3, <1>4, <1>5, <1>6, QuietStep

\* The steps of the worker that serve nothing, RecvExit, Destroy, Join and stuttering.
LEMMA IdleStep ==
    ASSUME IInv, TypeOK',
           \/ Top \/ (\E r \in Rates, e \in Elapsed : PaceRefill(r, e)) \/ SeeShutdown
           \/ DataBreak \/ AfterRound \/ SetPolling \/ ReadEvent \/ ClearPolling
           \/ RecvExit \/ Destroy \/ Join \/ UNCHANGED vars
    PROVE  IInv'
<1>0. TypeOK /\ NoUseAfterFree /\ \A u \in Threads : calls[u] \in Nat
  BY Basics DEF IInv
<1> DEFINE Idle == \/ Top \/ (\E r \in Rates, e \in Elapsed : PaceRefill(r, e)) \/ SeeShutdown
                   \/ DataBreak \/ AfterRound \/ SetPolling \/ ReadEvent \/ ClearPolling
<1>1. UNCHANGED <<ring, ackRing, handled, calls, cur, accepted>>
  <2>1. CASE Idle
    BY <2>1 DEF Top, PaceRefill, SeeShutdown, DataBreak, AfterRound, SetPolling, ReadEvent,
                ClearPolling, threadVars
  <2>2. CASE RecvExit \/ Destroy \/ Join \/ UNCHANGED vars
    BY <2>2 DEF RecvExit, Destroy, Join, vars, threadVars
  <2> QED
    BY <2>1, <2>2
<1>2. /\ NoUseAfterFree'
      /\ dpc \in {"join", "freed"} => dpc' \in {"join", "freed"}
      /\ \A u \in Threads : tpc'[u] \in {"commit", "wake", "write"} =>
            tpc[u] \in {"commit", "wake", "write"}
  <2>1. CASE Idle
    <3>1. wpc # "exit" /\ UNCHANGED <<dpc, tpc>>
      BY <2>1 DEF Top, PaceRefill, SeeShutdown, DataBreak, AfterRound, SetPolling, ReadEvent,
                  ClearPolling, threadVars
    <3> QED
      BY <1>0, <3>1 DEF NoUseAfterFree
  <2>2. CASE RecvExit
    BY <1>0, <2>2 DEF RecvExit, NoUseAfterFree, TypeOK, workerVars
  <2>3. CASE Destroy
    BY <2>3 DEF Destroy, NoUseAfterFree, threadVars
  <2>4. CASE Join
    BY <2>4 DEF Join, NoUseAfterFree, threadVars, workerVars
  <2>5. CASE UNCHANGED vars
    BY <1>0, <2>5 DEF vars, NoUseAfterFree
  <2> QED
    BY <2>1, <2>2, <2>3, <2>4, <2>5
<1>3. Same(ring, ring') /\ Same(ackRing, ackRing')
  BY <1>1 DEF Same
<1>4. \A u \in Threads : calls[u] <= calls'[u]
  BY <1>0, <1>1
<1> QED
  BY <1>1, <1>2, <1>3, <1>4, QuietStep

\* yumi_udp_client_create.
LEMMA InitIInv == Init => IInv
<1> SUFFICES ASSUME Init PROVE IInv
  OBVIOUS
<1> USE SendWorkerAssumption DEF Init
<1>1. TypeOK
  <2>1. 0 \in 0 .. MaxCalls + MaxAcks /\ 0 \in 0 .. Retries - 1 /\ Burst > -Cost
    OBVIOUS
  <2>2. Sentinel \in Items
    BY <2>1 DEF Sentinel, Items
  <2>3. /\ <<>> \in Seq(Entries) /\ <<>> \in Seq(Items)
        /\ Len(ring) <= Cap /\ Len(ackRing) <= Cap
    OBVIOUS
  <2>4. /\ handled \in [Threads \cup {Self} -> Seq(Items)]
        /\ tpc \in [Threads -> {"idle", "commit", "wake", "write", "exit"}]
        /\ calls \in [Threads -> 0 .. MaxCalls + MaxAcks] /\ cur \in [Threads -> Items]
    BY <2>1, <2>2, <2>3
  <2>5. credit \in Int /\ credit > -Cost /\ retry \in 0 .. Retries - 1
    BY <2>1
  <2>6. /\ running \in BOOLEAN /\ polling \in BOOLEAN /\ eventFd \in BOOLEAN
        /\ drainedAny \in BOOLEAN /\ didWork \in BOOLEAN
    OBVIOUS
  <2> QED
    BY <2>3, <2>4, <2>5, <2>6 DEF TypeOK
<1>2. /\ DOMAIN ring = {} /\ DOMAIN ackRing = {}
      /\ \A t \in Threads \cup {Self} : handled[t] = <<>> /\ DOMAIN handled[t] = {}
      /\ Self \in Threads \cup {Self}
  OBVIOUS
<1>3. Contents /\ Ordered(ring) /\ Ordered(ackRing) /\ CallerOrder
  BY <1>2 DEF Contents, Ordered, CallerOrder
<1>4. Ahead(handled, ring) /\ Ahead(handled, ackRing) /\ Replies
  BY <1>2 DEF Ahead, Replies
<1>5. Kept /\ NoUseAfterFree
  BY DEF Kept, NoUseAfterFree
<1> QED
  BY <1>1, <1>3, <1>4, <1>5 DEF IInv

\* Every step of the client keeps the invariant.
LEMMA NextIInv == IInv /\ [Next]_vars => IInv'
<1> SUFFICES ASSUME IInv, [Next]_vars PROVE IInv'
  OBVIOUS
<1>0. TypeOK'
  BY TypeStep DEF IInv
<1>1. ASSUME NEW t \in Threads, Thread(t) PROVE IInv'
  BY <1>0, <1>1, EnqueueStep, ProducerStep DEF Thread
<1>2. CASE Worker
  BY <1>0, <1>2, AckStep, UserStep, DataStep, IdleStep DEF Worker
<1>3. CASE RecvExit \/ Destroy \/ Join \/ UNCHANGED vars
  BY <1>0, <1>3, IdleStep
<1>4. CASE PushSentinel
  BY <1>0, <1>4, SentinelStep
<1> QED
  BY <1>1, <1>2, <1>3, <1>4 DEF Next, Destroyer, Gone

\* What is in its place or served, what waits and in which order: holds of the
\* send worker of network/yumi_udp_client.c for every number of threads, every
\* capacity and every pacing.
THEOREM Invariance == Spec => []IInv
BY InitIInv, NextIInv, PTL DEF Spec

\* An item is in one place at a time, and in it once.
LEMMA ServedOnceHolds == IInv => ServedOnce
<1> SUFFICES ASSUME IInv PROVE ServedOnce
  OBVIOUS
<1>0. /\ TypeOK /\ Contents /\ Ordered(ring) /\ Ordered(ackRing) /\ CallerOrder
      /\ Ahead(handled, ring) /\ Ahead(handled, ackRing) /\ Kept
  BY DEF IInv
<1>1. /\ \A t \in Threads \cup {Self} : \A k \in DOMAIN handled[t] : handled[t][k].n \in Nat
      /\ \A q \in {ring, ackRing} : \A k \in DOMAIN q : q[k].item \in Items /\ q[k].item.n \in Nat
      /\ ring \in Seq(Entries) /\ ackRing \in Seq(Entries)
      /\ handled \in [Threads \cup {Self} -> Seq(Items)]
  BY <1>0, Basics
<1>2. ASSUME NEW q \in {ring, ackRing}, NEW j \in DOMAIN q, NEW k \in DOMAIN q,
             q[j].item = q[k].item, j # k
      PROVE  FALSE
  <2>1. InLine(q[j].item, q[k].item) /\ InLine(q[k].item, q[j].item) /\ j \in Nat /\ k \in Nat
    <3>1. q \in Seq(Entries)
      BY <1>1
    <3> QED
      BY <1>2, <3>1 DEF InLine
  <2>2. j < k \/ k < j
    BY <1>2, <2>1
  <2>3. q[j].item.n < q[k].item.n \/ q[k].item.n < q[j].item.n
    BY <1>0, <2>1, <2>2 DEF Ordered
  <2> QED
    BY <1>1, <1>2, <2>3
<1>3. ASSUME NEW t \in Threads \cup {Self}, NEW j \in DOMAIN handled[t],
             NEW k \in DOMAIN handled[t], handled[t][j] = handled[t][k], j # k
      PROVE  FALSE
  <2>1. j \in Nat /\ k \in Nat
    <3>1. handled[t] \in Seq(Items)
      BY <1>1
    <3> QED
      BY <3>1
  <2>2. handled[t][j].n < handled[t][k].n \/ handled[t][k].n < handled[t][j].n
    BY <1>0, <1>3, <2>1 DEF CallerOrder
  <2> QED
    BY <1>1, <1>3, <2>2
<1>4. ASSUME NEW i \in accepted, Queued(i), Handled(i) PROVE FALSE
  <2>1. PICK q \in {ring, ackRing} : InPlace(i, q)
    BY <1>4 DEF Queued
  <2>2. PICK k \in DOMAIN q : q[k].item = i
    BY <2>1 DEF InPlace
  <2>3. PICK h \in DOMAIN handled[Caller(i)] : handled[Caller(i)][h] = i
    BY <1>4 DEF Handled
  <2>4. Caller(i) \in Threads \cup {Self}
    BY <1>1, <2>2 DEF Items, Caller
  <2>5. Ahead(handled, q)
    BY <1>0
  <2>6. handled[Caller(i)][h].n < q[k].item.n
    BY <2>2, <2>3, <2>4, <2>5 DEF Ahead, InLine
  <2> QED
    BY <1>1, <2>2, <2>3, <2>6
<1>5. \A i \in accepted : Queued(i) \/ Handled(i)
  BY <1>0 DEF Kept, Present
<1> QED
  BY <1>2, <1>3, <1>4, <1>5 DEF ServedOnce

\* What enqueue_work accepted is served once and in its caller's order, and the
\* rings are freed only when both workers are gone, although callbacks enqueue
\* while the worker drains and destroy pushes its sentinel behind a full ring.
THEOREM ServedOnceInOrder == Spec => []ServedInOrder
<1>1. IInv => ServedInOrder
  BY ServedOnceHolds DEF IInv, ServedInOrder
<1> QED
  BY <1>1, Invariance, PTL
=============================================================================
