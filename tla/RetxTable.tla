----------------------------- MODULE RetxTable -----------------------------
(***************************************************************************)
(* The reliable packets of the UDP client (network/yumi_udp_client.c): an  *)
(* open-addressed table that grows, and a binary heap of deadlines from    *)
(* which entries are never taken when a packet is acknowledged or sent     *)
(* again early.  Every operation runs under state_lock; the timer's loop   *)
(* is taken apart into its rounds.                                         *)
(***************************************************************************)
EXTENDS Integers, Sequences, FiniteSets

CONSTANTS
    TableChannels,    \* channels of user packets
    TableSlots,       \* YUMI_RELIABLE_INIT_SLOTS, a power of two
    TableMost,        \* bound: calloc fails for a larger table
    RetxTimeout,      \* reliable_timeout_us
    MaxRetransmits,
    DeferMax,         \* DEFERRED_SEND_MAX
    MaxProbes,        \* CC_PROBE_MAX_INFLIGHT
    SeqBound,         \* bound: packets of a channel
    ProbeBound,       \* bound: probes
    ClockBound        \* bound: the last tick

VARIABLES
    table,      \* reliable_table: index -> entry; its domain is the capacity
    dueHeap,    \* retx_heap
    clock,
    deferred,   \* packets the running timer has put aside; none runs at -1
    probesOut,  \* probe_inflight
    nextSeq,    \* per channel, and for probes
    ticked      \* the timer has run in this tick

retxVars == <<table, dueHeap, clock, deferred, probesOut, nextSeq, ticked>>

Inactive == [active |-> FALSE]
ProbeStream == 256      \* probes have numbers of their own
Streams == TableChannels \cup {ProbeStream}
NoTimer == -1
Capacity == Cardinality(DOMAIN table)

----------------------------------------------------------------------------
(* The heap: its root is entry 1.                                          *)

Exchanged(h, i, j) == [h EXCEPT ![i] = h[j], ![j] = h[i]]

RECURSIVE retx_heap_sift_up(_, _), retx_heap_sift_down(_, _)
retx_heap_sift_up(h, i) ==
    IF i = 1 \/ h[i \div 2].expiry <= h[i].expiry THEN h
    ELSE retx_heap_sift_up(Exchanged(h, i, i \div 2), i \div 2)

SmallestOf(h, i) ==
    LET left == IF 2 * i <= Len(h) /\ h[2 * i].expiry < h[i].expiry THEN 2 * i ELSE i
    IN  IF 2 * i + 1 <= Len(h) /\ h[2 * i + 1].expiry < h[left].expiry THEN 2 * i + 1 ELSE left

retx_heap_sift_down(h, i) ==
    LET smallest == SmallestOf(h, i)
    IN  IF smallest = i THEN h ELSE retx_heap_sift_down(Exchanged(h, i, smallest), smallest)

\* the array doubles when it is full, which never fails here
retx_heap_push(h, expiry, idx, e) ==
    retx_heap_sift_up(Append(h, [expiry |-> expiry, idx |-> idx, seq |-> e.seq, stream |-> e.stream]),
                      Len(h) + 1)

\* the last entry takes the root's place
retx_heap_pop(h) ==
    IF Len(h) = 1 THEN <<>>
    ELSE retx_heap_sift_down([SubSeq(h, 1, Len(h) - 1) EXCEPT ![1] = h[Len(h)]], 1)

----------------------------------------------------------------------------
(* The table.                                                              *)

IsProbe(e) == e.stream = ProbeStream
\* probes are sent on channel 0
ChannelOf(e) == IF IsProbe(e) THEN 0 ELSE e.stream

reliable_hash(e, cap) == (e.seq + ChannelOf(e) * 37 + (IF IsProbe(e) THEN 131 ELSE 0)) % cap

\* the first place from the hash on that holds no packet, or cap
FreeFrom(t, e, cap) ==
    LET place(j) == (reliable_hash(e, cap) + j) % cap
        free == {j \in 0 .. cap - 1 : ~t[place(j)].active}
    IN  IF free = {} THEN cap ELSE place(CHOOSE j \in free : \A k \in free : j <= k)

Deadline(e) == e.sent + RetxTimeout

\* worker_reliable_resize: the entries, in their order, into twice the room
Rehashed ==
    LET cap == 2 * Capacity
        empty == [i \in 0 .. cap - 1 |-> Inactive]
        upto[n \in 0 .. Capacity] ==
            IF n = 0 THEN empty
            ELSE LET t == upto[n - 1]
                     e == table[n - 1]
                 IN  IF e.active THEN [t EXCEPT ![FreeFrom(t, e, cap)] = e] ELSE t
    IN  upto[Capacity]

\* A mutant: the deadlines keep the old places
RebuiltNot(t) == dueHeap
\* a deadline for every packet of the new table, and no stale ones
Rebuilt(t) ==
    LET cap == Cardinality(DOMAIN t)
        upto[n \in 0 .. cap] ==
            IF n = 0 THEN <<>>
            ELSE IF t[n - 1].active THEN retx_heap_push(upto[n - 1], Deadline(t[n - 1]), n - 1, t[n - 1])
            ELSE upto[n - 1]
    IN  upto[cap]

\* the table and the heap with a packet put in; unchanged when the table is
\* full and cannot grow, and the packet is then never sent again
worker_reliable_add(e) ==
    LET put(t, h, i) ==
            /\ table' = [t EXCEPT ![i] = e]
            /\ dueHeap' = retx_heap_push(h, Deadline(e), i, e)
            /\ probesOut' = IF IsProbe(e) THEN probesOut + 1 ELSE probesOut
        i == FreeFrom(table, e, Capacity)
    IN  IF i < Capacity THEN put(table, dueHeap, i)
        ELSE IF 2 * Capacity <= TableMost
        THEN put(Rehashed, Rebuilt(Rehashed), FreeFrom(Rehashed, e, 2 * Capacity))
        ELSE UNCHANGED <<table, dueHeap, probesOut>>

NewEntry(s) == [active |-> TRUE, stream |-> s, seq |-> nextSeq[s], sent |-> clock, tries |-> 0]

\* send_worker_process_item
SendReliable(ch) ==
    /\ deferred = NoTimer /\ nextSeq[ch] < SeqBound
    /\ worker_reliable_add(NewEntry(ch))
    /\ nextSeq' = [nextSeq EXCEPT ![ch] = @ + 1]
    /\ UNCHANGED <<clock, deferred, ticked>>

Active == {i \in DOMAIN table : table[i].active}

AckedCount(e) == IF IsProbe(e) THEN probesOut - 1 ELSE probesOut

\* the deadline stays in the heap
worker_reliable_ack(i) ==
    /\ deferred = NoTimer
    /\ table' = [table EXCEPT ![i] = Inactive]
    /\ probesOut' = AckedCount(table[i])
    /\ UNCHANGED <<dueHeap, clock, deferred, nextSeq, ticked>>

\* worker_handle_sack for one packet that is missing: sent again after half the
\* timeout, found by its channel and number, and never a probe
SackRetransmit(i) ==
    /\ deferred = NoTimer /\ ~IsProbe(table[i])
    /\ 2 * (clock - table[i].sent) >= RetxTimeout
    /\ table' = [table EXCEPT ![i].sent = clock]
    /\ UNCHANGED <<dueHeap, clock, deferred, probesOut, nextSeq, ticked>>

----------------------------------------------------------------------------
(* The timer.                                                              *)

TimerFires == /\ deferred = NoTimer /\ ~ticked /\ deferred' = 0 /\ ticked' = TRUE
              /\ UNCHANGED <<table, dueHeap, clock, probesOut, nextSeq>>

\* the flags tell only probes from the rest: a stale deadline may meet a packet
\* of another channel
Matches(top, e) == e.active /\ e.seq = top.seq /\ (IsProbe(e) <=> top.stream = ProbeStream)

StillWaits(e) == clock < Deadline(e)

worker_cc_probe(count, probing) ==
    IF probing /\ probesOut < MaxProbes /\ count < DeferMax /\ nextSeq[ProbeStream] < ProbeBound
    THEN /\ worker_reliable_add(NewEntry(ProbeStream))
         /\ nextSeq' = [nextSeq EXCEPT ![ProbeStream] = @ + 1]
    ELSE UNCHANGED <<table, dueHeap, probesOut, nextSeq>>

Due == dueHeap # <<>> /\ dueHeap[1].expiry <= clock

\* One round of worker_reliable_retransmit.
TimerRound ==
    /\ deferred # NoTimer /\ Due
    /\ LET top == dueHeap[1]
           h == retx_heap_pop(dueHeap)
           e == table[top.idx]
       IN  \/ /\ ~Matches(top, e)
              /\ dueHeap' = h /\ UNCHANGED <<table, deferred, probesOut>>
           \/ /\ Matches(top, e) /\ StillWaits(e)
              /\ dueHeap' = retx_heap_push(h, Deadline(e), top.idx, top)
              /\ UNCHANGED <<table, deferred, probesOut>>
           \/ /\ Matches(top, e) /\ ~StillWaits(e) /\ e.tries >= MaxRetransmits
              /\ dueHeap' = h /\ table' = [table EXCEPT ![top.idx] = Inactive]
              /\ probesOut' = (IF IsProbe(e) THEN probesOut - 1 ELSE probesOut)
              /\ UNCHANGED deferred
           \/ /\ Matches(top, e) /\ ~StillWaits(e) /\ e.tries < MaxRetransmits /\ deferred < DeferMax
              /\ dueHeap' = retx_heap_push(h, clock + RetxTimeout, top.idx, top)
              /\ table' = [table EXCEPT ![top.idx].sent = clock, ![top.idx].tries = @ + 1]
              /\ deferred' = deferred + 1 /\ UNCHANGED probesOut
    /\ UNCHANGED <<clock, nextSeq, ticked>>

\* The loop ends, and then a probe may go out.
TimerEnds ==
    /\ deferred # NoTimer /\ ~Due
    /\ \E probing \in BOOLEAN : worker_cc_probe(deferred, probing)
    /\ deferred' = NoTimer /\ UNCHANGED <<clock, ticked>>

\* The loop breaks off: there is no room for a packet that is due.
TimerFull ==
    /\ deferred = DeferMax /\ Due
    /\ LET top == dueHeap[1]
           e == table[top.idx]
       IN  /\ Matches(top, e) /\ ~StillWaits(e) /\ e.tries < MaxRetransmits
           /\ dueHeap' = retx_heap_push(retx_heap_pop(dueHeap), top.expiry, top.idx, top)
    /\ deferred' = NoTimer /\ UNCHANGED <<table, clock, probesOut, nextSeq, ticked>>

\* the timer runs in every tick
RetxTick == /\ deferred = NoTimer /\ ticked /\ clock < ClockBound
            /\ clock' = clock + 1 /\ ticked' = FALSE
            /\ UNCHANGED <<table, dueHeap, deferred, probesOut, nextSeq>>

RetxInit ==
    /\ table = [i \in 0 .. TableSlots - 1 |-> Inactive] /\ dueHeap = <<>> /\ clock = 0
    /\ deferred = NoTimer /\ probesOut = 0 /\ nextSeq = [s \in Streams |-> 0] /\ ticked = FALSE

RetxNext ==
    \/ \E ch \in TableChannels : SendReliable(ch)
    \/ \E i \in Active : worker_reliable_ack(i) \/ SackRetransmit(i)
    \/ TimerFires \/ TimerRound \/ TimerEnds \/ TimerFull \/ RetxTick

----------------------------------------------------------------------------
(* Properties.                                                             *)

\* Whatever was acknowledged, sent again early, moved by a resize or put back,
\* every packet that waits for an acknowledgement has an entry of the heap that
\* comes up no later than its deadline and leads to it.
NoneForgotten ==
    \A i \in Active :
        \E k \in 1 .. Len(dueHeap) :
            /\ dueHeap[k].idx = i /\ Matches(dueHeap[k], table[i])
            /\ dueHeap[k].expiry <= Deadline(table[i])

\* When the timer has done all that was due, no packet is past its deadline.
DeadlinesMet ==
    [][deferred # NoTimer /\ ~Due /\ deferred' = NoTimer =>
         \A i \in Active : Deadline(table[i]) > clock]_retxVars

\* probe_inflight, which stops the probes at four, is the number of probes in
\* the table.
ProbesCounted == probesOut = Cardinality({i \in Active : IsProbe(table[i])})

\* A packet is sent again by the timer only a whole timeout after it was sent
\* last, although the heap still holds its earlier deadlines.
NotTooSoon ==
    [][\A i \in Active :
         i \in DOMAIN table' /\ table'[i].active /\ table'[i].seq = table[i].seq
           /\ table'[i].stream = table[i].stream /\ table'[i].tries > table[i].tries
         => clock - table[i].sent >= RetxTimeout]_retxVars

\* The table and its heap of deadlines, many of them stale: no packet is forgotten, sent too
\* late or sent too soon.
TimersSound == [](NoneForgotten /\ ProbesCounted) /\ DeadlinesMet /\ NotTooSoon
=============================================================================
