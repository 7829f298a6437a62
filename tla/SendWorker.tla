----------------------------- MODULE SendWorker -----------------------------
(***************************************************************************)
(* The send worker of the UDP client (network/yumi_udp_client.c): its      *)
(* loop over the ACK ring and the paced data ring, the polling flag and    *)
(* eventfd with which producers wake it, callbacks that run on it and      *)
(* enqueue into its own ring, and shutdown.  The rings are used as the     *)
(* queues WorkQueue specifies: places are taken, filled and served in      *)
(* separate steps.  There is one send and one receive worker, the default  *)
(* of yumi_udp_client_create and the only setting this program uses.       *)
(***************************************************************************)
EXTENDS Integers, Sequences, FiniteSets

CONSTANTS
    Apps,       \* threads that call send, send_reliable, post_user
    Cap,        \* YUMI_RING_CAPACITY
    Retries,    \* the 32 rounds of the data phase
    Rates,      \* the send rates congestion control may publish (cc_rate_cache)
    Elapsed,    \* microseconds between two refills
    Second,     \* 1e6
    Cost,       \* bytes of a datagram
    Burst,      \* YUMI_UDP_MAX_DGRAM * 64
    MaxCalls,   \* bound: enqueue calls of an application thread
    MaxAcks     \* bound: enqueue calls of the receive worker

ASSUME SendWorkerAssumption ==
    /\ MaxCalls \in Nat /\ MaxAcks \in Nat
    /\ Cap \in Nat \ {0} /\ Retries \in Nat \ {0}
    /\ Rates \subseteq Nat /\ Elapsed \subseteq Nat
    /\ Second \in Nat \ {0} /\ Cost \in Nat \ {0} /\ Burst \in Nat \ {0}

Recv == "recv"                    \* the receive worker, producer of ACKs
Self == "self"                    \* the send worker inside a user callback
Threads == Apps \cup {Recv}

\* The application's threads are neither of the client's own.
ASSUME ThreadAssumption == Apps \cap {Recv, Self} = {}

\* An item is the n-th call of its thread; a reply is what the callback of the
\* n-th call enqueues when it runs on the send worker.
Items == [by : Threads \cup {Self}, n : 0 .. MaxCalls + MaxAcks,
          type : {"data", "user", "raw", "reply", "shutdown"}]

VARIABLES
    running,           \* c->running
    ring, ackRing,     \* sequences of [item, ready]
    polling, eventFd,  \* the wake-up flag, and whether the eventfd counts > 0
    credit,            \* pace_credit
    wpc, retry, drainedAny, didWork,   \* the worker's control state
    tpc, calls, cur,   \* each producer's step, calls begun, item in hand
    dpc,               \* yumi_udp_client_destroy's step
    accepted, handled  \* history: items whose enqueue returned 0; caller -> items served

workerVars == <<wpc, retry, drainedAny, didWork, credit>>
threadVars == <<tpc, calls, cur>>
vars == <<running, ring, ackRing, polling, eventFd, credit, wpc, retry,
          drainedAny, didWork, tpc, calls, cur, dpc, accepted, handled>>

\* Who called enqueue_work.
Caller(i) == IF i.type = "reply" THEN Self ELSE i.by
Served(i) == [handled EXCEPT ![Caller(i)] = Append(@, i)]

Sentinel == [by |-> Self, n |-> 0, type |-> "shutdown"]

\* yumi_udp_client_create starts the workers with empty rings and full credit.
Init ==
    /\ running = TRUE
    /\ ring = <<>> /\ ackRing = <<>>
    /\ polling = FALSE /\ eventFd = FALSE
    /\ credit = Burst
    /\ wpc = "top" /\ retry = 0 /\ drainedAny = FALSE /\ didWork = FALSE
    /\ tpc = [t \in Threads |-> "idle"]
    /\ calls = [t \in Threads |-> 0]
    /\ cur = [t \in Threads |-> Sentinel]
    /\ dpc = "no"
    /\ accepted = {} /\ handled = [t \in Threads \cup {Self} |-> <<>>]

\* What yumi_ring_peek sees: the item at the front, if it is committed.
Front(q) == IF q # <<>> /\ q[1].ready THEN {q[1].item} ELSE {}
Place(q, i) == Append(q, [item |-> i, ready |-> FALSE])
Publish(q, i) == [k \in DOMAIN q |-> IF q[k].item = i
                                      THEN [q[k] EXCEPT !.ready = TRUE] ELSE q[k]]

-----------------------------------------------------------------------------
(***************************************************************************)
(* Producers: enqueue_work, yumi_udp_client_post_user, enqueue_raw_send.   *)
(* Application threads stop calling before the client is destroyed.        *)
(***************************************************************************)
MayCall(t) ==
    /\ tpc[t] = "idle"
    /\ IF t = Recv THEN calls[t] < MaxAcks ELSE calls[t] < MaxCalls /\ dpc = "no"

\* Reserve a place: data and callbacks in the ring, raw packets in the ACK ring.
Enqueue(t, type) ==
    LET item == [by |-> t, n |-> calls[t] + 1, type |-> type]
    IN  /\ MayCall(t)
        /\ type \in (IF t = Recv THEN {"raw"} ELSE {"data", "user"})
        /\ IF type = "raw"
             THEN Len(ackRing) < Cap /\ ackRing' = Place(ackRing, item)
                  /\ UNCHANGED ring
             ELSE Len(ring) < Cap /\ ring' = Place(ring, item)
                  /\ UNCHANGED ackRing
        /\ cur' = [cur EXCEPT ![t] = item]
        /\ calls' = [calls EXCEPT ![t] = @ + 1]
        /\ tpc' = [tpc EXCEPT ![t] = "commit"]
        /\ UNCHANGED <<running, polling, eventFd, workerVars, dpc, accepted,
                       handled>>

\* The ring stays full for a second, or the ACK ring is full: -1, or the ACK is
\* dropped.
EnqueueFails(t) ==
    /\ MayCall(t)
    /\ Len(IF t = Recv THEN ackRing ELSE ring) >= Cap
    /\ calls' = [calls EXCEPT ![t] = @ + 1]
    /\ UNCHANGED <<running, ring, ackRing, polling, eventFd, workerVars, tpc, cur,
                   dpc, accepted, handled>>

CommitItem(t) ==
    /\ tpc[t] = "commit"
    /\ ring' = Publish(ring, cur[t])
    /\ ackRing' = Publish(ackRing, cur[t])
    /\ tpc' = [tpc EXCEPT ![t] = "wake"]
    /\ UNCHANGED <<running, polling, eventFd, workerVars, calls, cur, dpc,
                   accepted, handled>>

\* atomic_exchange(&polling, 0): write the eventfd only if the flag was set.
ExchangePolling(t) ==
    /\ tpc[t] = "wake"
    /\ polling' = FALSE
    /\ tpc' = [tpc EXCEPT ![t] = IF polling THEN "write" ELSE "idle"]
    /\ accepted' = IF polling THEN accepted ELSE accepted \cup {cur[t]}
    /\ UNCHANGED <<running, ring, ackRing, eventFd, workerVars, calls, cur, dpc,
                   handled>>

WriteEvent(t) ==
    /\ tpc[t] = "write"
    /\ eventFd' = TRUE
    /\ tpc' = [tpc EXCEPT ![t] = "idle"]
    /\ accepted' = accepted \cup {cur[t]}
    /\ UNCHANGED <<running, ring, ackRing, polling, workerVars, calls, cur, dpc,
                   handled>>

\* The receive worker leaves its loop once running is false.
RecvExit ==
    /\ tpc[Recv] = "idle" /\ ~running
    /\ tpc' = [tpc EXCEPT ![Recv] = "exit"]
    /\ UNCHANGED <<running, ring, ackRing, polling, eventFd, workerVars, calls,
                   cur, dpc, accepted, handled>>

-----------------------------------------------------------------------------
(***************************************************************************)
(* The worker's loop, send_worker_thread.                                  *)
(***************************************************************************)
Top ==
    /\ wpc = "top"
    /\ wpc' = IF running THEN "ack" ELSE "exit"
    /\ didWork' = FALSE
    /\ UNCHANGED <<running, ring, ackRing, polling, eventFd, credit, retry,
                   drainedAny, threadVars, dpc, accepted, handled>>

\* Phase 1: every committed ACK is sent, unpaced; then the data phase.
DrainAck ==
    /\ wpc = "ack"
    /\ \/ \E i \in Front(ackRing) :
            /\ handled' = Served(i)
            /\ ackRing' = Tail(ackRing)
            /\ didWork' = TRUE
            /\ UNCHANGED <<wpc, retry>>
       \/ /\ Front(ackRing) = {}
          /\ wpc' = "refill" /\ retry' = 0
          /\ UNCHANGED <<handled, ackRing, didWork>>
    /\ UNCHANGED <<running, ring, polling, eventFd, credit, drainedAny,
                   threadVars, dpc, accepted>>

\* send_worker_pace_refill: the gain is truncated to whole bytes.
Gain(r, e) == (r * e) \div Second
Refilled(r, e) ==
    LET cap == IF 2 * r < Burst THEN Burst ELSE 2 * r
    IN  IF e = 0 THEN credit
        ELSE IF r = 0 THEN Burst
        ELSE IF credit + Gain(r, e) > cap THEN cap ELSE credit + Gain(r, e)
PaceRefill(r, e) ==
    /\ wpc = "refill"
    /\ credit' = Refilled(r, e)
    /\ drainedAny' = FALSE
    /\ wpc' = "data"
    /\ UNCHANGED <<running, ring, ackRing, polling, eventFd, retry, didWork,
                   threadVars, dpc, accepted, handled>>

\* A refill that leaves the worker able to send.
UsefulRefill(r, e) == Refilled(r, e) > 0 /\ PaceRefill(r, e)

\* A mutant: a callback whose place is not released: `continue' before the advance.
AfterCallbackKept(q, i) ==
    LET reply == [item |-> [i EXCEPT !.type = "reply"], ready |-> TRUE]
    IN  IF Len(q) < Cap THEN Append(q, reply) ELSE q

\* A callback runs on the worker before its place is released: the packet it
\* enqueues needs another place, and while the worker waits nobody frees one.
AfterCallback(q, i) ==
    LET reply == [item |-> [i EXCEPT !.type = "reply"], ready |-> TRUE]
    IN  Tail(IF Len(q) < Cap THEN Append(q, reply) ELSE q)
\* Phase 2, one turn of the inner loop on the item at the front.
ServeUser ==
    \E i \in Front(ring) :
        /\ wpc = "data" /\ i.type = "user"
        /\ handled' = Served(i)
        /\ ring' = AfterCallback(ring, i)
        /\ UNCHANGED <<running, ackRing, polling, eventFd, workerVars, threadVars,
                       dpc, accepted>>

ServeData ==
    \E i \in Front(ring) :
        /\ wpc = "data" /\ i.type \in {"data", "reply"} /\ credit > 0
        /\ handled' = Served(i)
        /\ ring' = Tail(ring)
        /\ credit' = credit - Cost
        /\ drainedAny' = TRUE /\ didWork' = TRUE
        /\ wpc' = IF credit' <= 0 THEN "after" ELSE "data"
        /\ UNCHANGED <<running, ackRing, polling, eventFd, retry, threadVars, dpc,
                       accepted>>

SeeShutdown ==
    /\ wpc = "data" /\ Sentinel \in Front(ring)
    /\ wpc' = "exit"
    /\ UNCHANGED <<running, ring, ackRing, polling, eventFd, credit, retry,
                   drainedAny, didWork, threadVars, dpc, accepted, handled>>

\* Nothing committed at the front, or no credit for it.
DataBreak ==
    /\ wpc = "data"
    /\ \A i \in Front(ring) : i.type \in {"data", "reply"} /\ credit <= 0
    /\ wpc' = "after"
    /\ UNCHANGED <<running, ring, ackRing, polling, eventFd, credit, retry,
                   drainedAny, didWork, threadVars, dpc, accepted, handled>>

AfterRound ==
    /\ wpc = "after"
    /\ IF drainedAny /\ retry + 1 < Retries
         THEN retry' = retry + 1 /\ wpc' = "refill"
         ELSE UNCHANGED retry /\ wpc' = IF didWork THEN "top" ELSE "poll"
    /\ UNCHANGED <<running, ring, ackRing, polling, eventFd, credit, drainedAny,
                   didWork, threadVars, dpc, accepted, handled>>

SetPolling ==
    /\ wpc = "poll"
    /\ polling' = TRUE /\ wpc' = "read"
    /\ UNCHANGED <<running, ring, ackRing, eventFd, credit, retry, drainedAny,
                   didWork, threadVars, dpc, accepted, handled>>

\* A mutant: a read that blocks while the counter is zero, as the comment above it says.
ReadEventBlocking ==
    /\ wpc = "read" /\ eventFd
    /\ eventFd' = FALSE /\ wpc' = "unpoll"
    /\ UNCHANGED <<running, ring, ackRing, polling, credit, retry, drainedAny,
                   didWork, threadVars, dpc, accepted, handled>>

\* read() of an EFD_NONBLOCK eventfd: returns whether or not it was written.
ReadEvent ==
    /\ wpc = "read"
    /\ eventFd' = FALSE /\ wpc' = "unpoll"
    /\ UNCHANGED <<running, ring, ackRing, polling, credit, retry, drainedAny,
                   didWork, threadVars, dpc, accepted, handled>>

ClearPolling ==
    /\ wpc = "unpoll"
    /\ polling' = FALSE /\ wpc' = "top"
    /\ UNCHANGED <<running, ring, ackRing, eventFd, credit, retry, drainedAny,
                   didWork, threadVars, dpc, accepted, handled>>

-----------------------------------------------------------------------------
(***************************************************************************)
(* yumi_udp_client_destroy.                                                *)
(***************************************************************************)

Destroy ==
    /\ dpc = "no" /\ \A t \in Apps : tpc[t] = "idle"
    /\ running' = FALSE
    /\ dpc' = "sentinel"
    /\ UNCHANGED <<ring, ackRing, polling, eventFd, workerVars, threadVars,
                   accepted, handled>>

\* Reserve and commit the sentinel, or give up on a ring that stays full; the
\* eventfd is written in any case.
PushSentinel ==
    /\ dpc = "sentinel"
    /\ ring' = IF Len(ring) < Cap
                 THEN Append(ring, [item |-> Sentinel, ready |-> TRUE]) ELSE ring
    /\ eventFd' = TRUE
    /\ dpc' = "join"
    /\ UNCHANGED <<running, ackRing, polling, workerVars, threadVars, accepted,
                   handled>>

\* Both workers joined, the pools are freed (free_worker_pools).
Join ==
    /\ dpc = "join" /\ wpc = "exit" /\ tpc[Recv] = "exit"
    /\ dpc' = "freed"
    /\ UNCHANGED <<running, ring, ackRing, polling, eventFd, workerVars,
                   threadVars, accepted, handled>>

-----------------------------------------------------------------------------
Thread(t) ==
    \/ \E type \in {"data", "user", "raw"} : Enqueue(t, type)
    \/ EnqueueFails(t)
    \/ CommitItem(t) \/ ExchangePolling(t) \/ WriteEvent(t)

Worker ==
    \/ Top \/ DrainAck
    \/ \E r \in Rates, e \in Elapsed : PaceRefill(r, e)
    \/ ServeUser \/ ServeData \/ SeeShutdown \/ DataBreak \/ AfterRound
    \/ SetPolling \/ ReadEvent \/ ClearPolling

Destroyer == Destroy \/ PushSentinel \/ Join

\* The client is gone: the only place where it may stop.
Gone == dpc = "freed" /\ UNCHANGED vars

Next == (\E t \in Threads : Thread(t)) \/ RecvExit \/ Worker \/ Destroyer \/ Gone

Spec == Init /\ [][Next]_vars

(***************************************************************************)
(* Every thread keeps running, a destroy that has begun carries on, and    *)
(* time passes: however often the worker finds too few microseconds gone   *)
(* for a whole byte of credit, it also comes back after enough of them.    *)
(* Nothing obliges a thread to enqueue or anyone to destroy.               *)
(***************************************************************************)
Fairness ==
    /\ WF_vars(Worker)
    /\ SF_vars(\E r \in Rates, e \in Elapsed : UsefulRefill(r, e))
    /\ \A t \in Threads :
          WF_vars(CommitItem(t)) /\ WF_vars(ExchangePolling(t)) /\ WF_vars(WriteEvent(t))
    /\ WF_vars(RecvExit) /\ WF_vars(PushSentinel) /\ WF_vars(Join)

FairSpec == Spec /\ Fairness

-----------------------------------------------------------------------------
Entries == [item : Items, ready : BOOLEAN]

TypeOK ==
    /\ running \in BOOLEAN /\ polling \in BOOLEAN /\ eventFd \in BOOLEAN
    /\ ring \in Seq(Entries) /\ ackRing \in Seq(Entries)
    /\ Len(ring) <= Cap /\ Len(ackRing) <= Cap
    /\ credit \in Int /\ credit > -Cost
    /\ wpc \in {"top", "ack", "refill", "data", "after", "poll", "read", "unpoll",
                "exit"}
    /\ retry \in 0 .. Retries - 1
    /\ drainedAny \in BOOLEAN /\ didWork \in BOOLEAN
    /\ tpc \in [Threads -> {"idle", "commit", "wake", "write", "exit"}]
    /\ calls \in [Threads -> 0 .. MaxCalls + MaxAcks]
    /\ cur \in [Threads -> Items]
    /\ dpc \in {"no", "sentinel", "join", "freed"}
    /\ accepted \subseteq Items /\ handled \in [Threads \cup {Self} -> Seq(Items)]

InPlace(i, q) == \E k \in DOMAIN q : q[k].item = i
Queued(i) == InPlace(i, ring) \/ InPlace(i, ackRing)
Handled(i) == \E k \in DOMAIN handled[Caller(i)] : handled[Caller(i)][k] = i

\* An accepted item is still queued or was served, never both and never twice:
\* the worker serves in place (peek ... advance, yumi_udp_client.c:1362-1375)
\* while its own callbacks enqueue behind it.
ServedOnce ==
    /\ \A q \in {ring, ackRing} : \A j, k \in DOMAIN q : q[j].item = q[k].item => j = k
    /\ \A t \in Threads \cup {Self} : \A j, k \in DOMAIN handled[t] :
          handled[t][j] = handled[t][k] => j = k
    /\ \A i \in accepted : Queued(i) <=> ~Handled(i)

\* The items one thread had accepted are served in the order it enqueued them,
\* although callbacks and pacing interrupt the draining; and so are the packets
\* the callbacks of one thread enqueued.
CallerOrder ==
    \A t \in Threads \cup {Self} : \A j, k \in DOMAIN handled[t] :
        j < k /\ handled[t][j].by = handled[t][k].by => handled[t][j].n < handled[t][k].n

\* When destroy frees the rings no worker is left that could touch them.
NoUseAfterFree == dpc = "freed" => wpc = "exit" /\ tpc[Recv] = "exit"

\* No lost wake-up: what was accepted is served, unless the client is destroyed.
\* The worker sets polling after it last looked at the rings and does not look
\* again, so this rests on the eventfd being non-blocking.
\* (Calls are bounded, so an item left behind is a backlog that never ends.)
Backlog == \E i \in accepted : ~Handled(i)
AcceptedIsServed == Backlog ~> (~Backlog \/ ~running)

\* destroy returns, even when the ring is full and takes no sentinel.
DestroyReturns == (dpc # "no") ~> (dpc = "freed")

\* What the worker accepted it serves once and in its caller's order, and never from rings
\* that destroy has freed.
ServedInOrder == TypeOK /\ ServedOnce /\ CallerOrder /\ NoUseAfterFree

\* Nobody waits for ever: accepted work is served although the worker may be about to sleep
\* (yumi_udp_client.c:1387), and destroy returns.
WorkEnds == AcceptedIsServed /\ DestroyReturns
=============================================================================
