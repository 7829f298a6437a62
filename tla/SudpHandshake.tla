---------------------------- MODULE SudpHandshake ----------------------------
(***************************************************************************)
(* How two secure clients set up a session (network/yumi_sudp_client.c):   *)
(* connect() and its deferred half on the send worker, the HELLO, RESPONSE *)
(* and CONFIRM handlers on the receive worker, the simultaneous-open       *)
(* tie-break, the handshake deadline, notify_kick, and the gates on the    *)
(* data path.  One action is what a thread does between two points where   *)
(* the other threads of the same client can intervene: c->state and        *)
(* c->peer_active are atomics that several threads load and store, and     *)
(* hs_mutex serialises only the handshake context.                         *)
(*                                                                         *)
(* A key exchange is the pair of a HELLO and a RESPONSE: the two ids stand *)
(* for the ephemeral keys, the pair for the transcript and for the secret  *)
(* derived from it.  The cryptographic primitives succeed on honest input. *)
(***************************************************************************)
EXTENDS Integers, Sequences

CONSTANTS
    Callers,      \* the clients that call connect()
    MaxConnects,  \* bound: connect() calls per caller
    MaxLosses,    \* bound: messages the reliable channel gives up
    MaxFailures,  \* bound: sends refused because a ring stays full
    Hurried,      \* the clients whose handshake deadline may pass
    Kickers       \* the clients whose registrar may come to list the peer as kicked

ASSUME HandshakeAssumption ==
    MaxConnects \in Nat /\ MaxLosses \in Nat /\ MaxFailures \in Nat

\* The two clients, in the order of their peer ids.
Peers == {1, 2}
Other(n) == 3 - n

VARIABLES
    c,         \* peer -> the fields of its yumi_sudp_client
    status,    \* peer -> status of the other peer in its registrar
    chan,      \* peer -> handshake messages on their way to it, in order
    started,   \* peer -> has the channel to it delivered anything
    cut,       \* peer -> is there a gap that blocks the channel to it for ever
    data,      \* datagrams with user data, in any order and number
    losses, failures,
    est,       \* history: peer -> the secrets under which it was established
    notified,  \* history: peer -> how it stood when notify_kick tore it down
    leaked     \* history: peer -> notified, whenever data reached recv_cb since

vars == <<c, status, chan, started, cut, data, losses, failures, est, notified,
          leaked>>

NoId == <<0, 0>>
NoKey == <<NoId, NoId>>

\* What signing an uninitialised transcript hash yields: nothing verifies.
Garbage == <<NoId, <<0, 1>>>>

Hello(h) == [type |-> "hello", hello |-> h]
Response(h, r, tr) == [type |-> "response", hello |-> h, resp |-> r, tr |-> tr]
Confirm(tr) == [type |-> "confirm", tr |-> tr]

(***************************************************************************)
(* yumi_sudp_client_create: a fresh handshake context in HS_IDLE.          *)
(*   wpc   where sudp_worker_connect stands on the send worker             *)
(*   rpc   the handler the receive worker is in, past its look at the peer's *)
(*         status in the registrar and holding hs_mutex                      *)
(*   tpc   a thread saw HANDSHAKING past the deadline and is about to fail *)
(***************************************************************************)
Client ==
    [st |-> "DISCONNECTED", hs |-> "idle", hello |-> NoId, saved |-> NoKey,
     key |-> NoKey, init |-> FALSE, active |-> FALSE, deadline |-> "unset",
     calls |-> 0, posts |-> 0, ids |-> 0, wpc |-> "idle", rpc |-> "idle",
     tpc |-> FALSE]

Init ==
    /\ c = [n \in Peers |-> Client]
    /\ status = [n \in Peers |-> "active"]
    /\ chan = [n \in Peers |-> <<>>]
    /\ started = [n \in Peers |-> FALSE]
    /\ cut = [n \in Peers |-> FALSE]
    /\ data = {} /\ losses = 0 /\ failures = 0
    /\ est = [n \in Peers |-> {}]
    /\ notified = [n \in Peers |-> {}]
    /\ leaked = [n \in Peers |-> {}]

history == <<est, notified, leaked>>

\* sudp_set_state: the store and the callback.
sudp_set_state(client, s) == [client EXCEPT !.st = s]

-----------------------------------------------------------------------------
(***************************************************************************)
(* The reliable channel.  sudp_frag_send queues a message's fragments; the *)
(* channel delivers in order.  A message whose retransmissions run out     *)
(* leaves a gap nothing gets past, unless it was the first (UdpChannel).   *)
(***************************************************************************)
Sent(n, m) == IF cut[n] THEN chan ELSE [chan EXCEPT ![n] = Append(@, m)]
SendFails == failures < MaxFailures /\ failures' = failures + 1
SendWorks == UNCHANGED failures

Lose(n) ==
    /\ losses < MaxLosses /\ chan[n] # <<>> /\ c[n].rpc = "idle"
    /\ losses' = losses + 1
    /\ cut' = [cut EXCEPT ![n] = started[n]]
    /\ chan' = [chan EXCEPT ![n] = IF started[n] THEN <<>> ELSE Tail(@)]
    /\ UNCHANGED <<c, status, started, data, failures, history>>

-----------------------------------------------------------------------------
(***************************************************************************)
(* connect(), and sudp_worker_connect on the send worker.                  *)
(***************************************************************************)

\* The caller's half: the request is posted to the send worker.
Connect(n) ==
    /\ n \in Callers /\ c[n].calls < MaxConnects
    /\ c[n].st # "ESTABLISHED" /\ status[n] = "active"
    /\ c' = [c EXCEPT ![n] = [c[n] EXCEPT !.calls = @ + 1, !.posts = @ + 1]]
    /\ UNCHANGED <<status, chan, started, cut, data, losses, failures, history>>

\* The state is loaded before hs_mutex is taken.
WorkerCheck(n) ==
    /\ c[n].posts > 0 /\ c[n].wpc = "idle"
    /\ c' = [c EXCEPT ![n].posts = @ - 1,
                      ![n].wpc = IF c[n].st = "ESTABLISHED" THEN "idle" ELSE "checked"]
    /\ UNCHANGED <<status, chan, started, cut, data, losses, failures, history>>

NextId(n) == <<n, c[n].ids + 1>>
MutexFree(n) == c[n].rpc = "idle"

\* Under hs_mutex, with a new or idle context: become the initiator, HELLO.
WorkerHello(n) ==
    /\ c[n].wpc = "checked" /\ MutexFree(n) /\ c[n].hs \in {"none", "idle"}
    /\ LET id == NextId(n)
           hello == [c[n] EXCEPT !.hs = "hello_sent", !.hello = id, !.active = TRUE,
                                 !.init = TRUE, !.deadline = "set", !.ids = @ + 1,
                                 !.wpc = "idle"]
       IN  \/ /\ SendWorks
              /\ c' = [c EXCEPT ![n] = sudp_set_state(hello, "HANDSHAKING")]
              /\ chan' = Sent(Other(n), Hello(id))
           \/ /\ SendFails
              /\ c' = [c EXCEPT ![n] = sudp_set_state(hello, "FAILED")]
              /\ UNCHANGED chan
    /\ UNCHANGED <<status, started, cut, data, losses, history>>

\* A handshake is under way: it is left alone.  After the unlock the state is
\* loaded, and HANDSHAKING is stored if it was DISCONNECTED.
WorkerBusy(n) ==
    /\ c[n].wpc = "checked" /\ MutexFree(n) /\ c[n].hs \notin {"none", "idle"}
    /\ c' = [c EXCEPT ![n].wpc = IF c[n].st = "DISCONNECTED" THEN "store" ELSE "idle"]
    /\ UNCHANGED <<status, chan, started, cut, data, losses, failures, history>>

WorkerStore(n) ==
    /\ c[n].wpc = "store"
    /\ c' = [c EXCEPT ![n] = sudp_set_state([@ EXCEPT !.wpc = "idle"], "HANDSHAKING")]
    /\ UNCHANGED <<status, chan, started, cut, data, losses, failures, history>>

-----------------------------------------------------------------------------
(***************************************************************************)
(* The receive worker: sudp_inner_recv and the three handlers, hs_mutex    *)
(* held throughout.                                                        *)
(***************************************************************************)
Arrived(n, type) ==
    /\ chan[n] # <<>> /\ c[n].rpc = "idle"
    /\ Head(chan[n]).type = type

Received(n) ==
    /\ started' = [started EXCEPT ![n] = TRUE]

Popped(n) == [chan EXCEPT ![n] = Tail(@)]

\* A mutant: a tie-break both sides win.
WinsTieBoth(n) == c[n].hs = "hello_sent"
\* The lower peer id stays the initiator when both sent a HELLO.
WinsTie(n) == c[n].hs = "hello_sent" /\ n < Other(n)

\* No context, a HELLO that loses the tie, or a message the context does not
\* wait for: dropped.
Ignored(n) ==
    \/ c[n].hs = "none"
    \/ Head(chan[n]).type = "hello" /\ WinsTie(n)
    \/ Head(chan[n]).type = "response"
         /\ (c[n].hs # "hello_sent" \/ status[n] # "active")
    \/ Head(chan[n]).type = "confirm" /\ c[n].hs # "wait_confirm"
RecvIgnore(n) ==
    /\ chan[n] # <<>> /\ c[n].rpc = "idle" /\ Ignored(n)
    /\ Received(n) /\ chan' = Popped(n)
    /\ UNCHANGED <<c, status, cut, data, losses, failures, history>>

\* Our own HELLO is abandoned for the peer's, but the peer is not (or no
\* longer) active in the registrar.
RecvHelloRefused(n) ==
    /\ Arrived(n, "hello") /\ ~Ignored(n) /\ status[n] # "active"
    /\ Received(n) /\ chan' = Popped(n)
    /\ c' = [c EXCEPT ![n].hello = IF c[n].hs = "hello_sent" THEN NoId ELSE @]
    /\ UNCHANGED <<status, cut, data, losses, failures, history>>

\* sudp_process_hello: the initiator is active in the registrar ...
RecvHello(n) ==
    /\ Arrived(n, "hello") /\ ~Ignored(n) /\ status[n] = "active"
    /\ Received(n)
    /\ c' = [c EXCEPT ![n].rpc = "hello"]
    /\ UNCHANGED <<status, chan, cut, data, losses, failures, history>>

\* ... become the responder, derive the keys and send RESPONSE.  The transcript
\* context is gone unless the handshake is new or was just reset.
Answered(n, h, r) ==
    [c[n] EXCEPT !.active = TRUE, !.init = FALSE, !.key = <<h, r>>, !.ids = @ + 1,
                 !.deadline = IF @ = "unset" THEN "set" ELSE @,
                 !.saved = IF c[n].hs \in {"idle", "hello_sent"} THEN <<h, r>> ELSE Garbage,
                 !.hs = "wait_confirm", !.rpc = "idle"]
Reply(n, answered) ==
    \/ /\ SendWorks
       /\ c' = [c EXCEPT ![n] = answered]
       /\ chan' = [Sent(Other(n), Response(answered.key[1], answered.key[2], answered.saved))
                     EXCEPT ![n] = Tail(@)]
    \/ /\ SendFails
       /\ c' = [c EXCEPT ![n] = sudp_set_state(answered, "FAILED")]
       /\ chan' = Popped(n)

\* A mutant: a loser of the tie that goes on as the initiator.
FinishHelloRoleKept(n) ==
    /\ c[n].rpc = "hello"
    /\ Reply(n, [Answered(n, Head(chan[n]).hello, NextId(n)) EXCEPT !.init = c[n].init])
    /\ UNCHANGED <<status, started, cut, data, losses, history>>

FinishHello(n) ==
    /\ c[n].rpc = "hello"
    /\ Reply(n, Answered(n, Head(chan[n]).hello, NextId(n)))
    /\ UNCHANGED <<status, started, cut, data, losses, history>>

\* sudp_process_response: the peer is active and the responder's signature over
\* the transcript verifies.  (It always does, see HandshakesVerify.)
Verifies(n) == Head(chan[n]).tr = <<c[n].hello, Head(chan[n]).resp>>
RecvResponse(n) ==
    /\ Arrived(n, "response") /\ ~Ignored(n) /\ Verifies(n)
    /\ Received(n)
    /\ c' = [c EXCEPT ![n].rpc = "response"]
    /\ UNCHANGED <<status, chan, cut, data, losses, failures, history>>

\* ... and when the keys are derived, CONFIRM is sent and the session is up.
FinishResponse(n) ==
    /\ c[n].rpc = "response"
    /\ LET tr == Head(chan[n]).tr
           done == [c[n] EXCEPT !.key = tr, !.hs = "done", !.rpc = "idle"]
       IN  \/ /\ SendWorks
              /\ c' = [c EXCEPT ![n] = sudp_set_state([done EXCEPT !.hs = "none"],
                                                      "ESTABLISHED")]
              /\ chan' = [Sent(Other(n), Confirm(tr)) EXCEPT ![n] = Tail(@)]
              /\ est' = [est EXCEPT ![n] = @ \cup {tr}]
           \/ /\ SendFails
              /\ c' = [c EXCEPT ![n] = sudp_set_state(done, "FAILED")]
              /\ chan' = Popped(n)
              /\ UNCHANGED est
    /\ UNCHANGED <<status, started, cut, data, losses, notified, leaked>>

\* sudp_process_confirm: the peer must be active and its signature verify.
RecvConfirm(n) ==
    /\ Arrived(n, "confirm") /\ ~Ignored(n)
    /\ Received(n)
    /\ LET good == status[n] = "active" /\ Head(chan[n]).tr = c[n].saved
       IN  \/ /\ good
              /\ c' = [c EXCEPT ![n].rpc = "confirm"]
              /\ UNCHANGED chan
           \/ /\ ~good
              /\ c' = [c EXCEPT ![n] = sudp_set_state(@, "FAILED")]
              /\ chan' = Popped(n)
    /\ UNCHANGED <<status, cut, data, losses, failures, history>>

FinishConfirm(n) ==
    /\ c[n].rpc = "confirm"
    /\ c' = [c EXCEPT ![n] = sudp_set_state([@ EXCEPT !.rpc = "idle", !.hs = "none"],
                                            "ESTABLISHED")]
    /\ chan' = Popped(n)
    /\ est' = [est EXCEPT ![n] = @ \cup {c[n].key}]
    /\ UNCHANGED <<status, started, cut, data, losses, failures, notified, leaked>>

-----------------------------------------------------------------------------
(***************************************************************************)
(* The deadline, looked at whenever a datagram is encrypted or decrypted.  *)
(***************************************************************************)
Expire(n) ==
    /\ n \in Hurried /\ c[n].deadline = "set"
    /\ c' = [c EXCEPT ![n].deadline = "passed"]
    /\ UNCHANGED <<status, chan, started, cut, data, losses, failures, history>>

SeeTimeout(n) ==
    /\ c[n].st = "HANDSHAKING" /\ c[n].deadline = "passed" /\ ~c[n].tpc
    /\ c' = [c EXCEPT ![n].tpc = TRUE]
    /\ UNCHANGED <<status, chan, started, cut, data, losses, failures, history>>

FailTimeout(n) ==
    /\ c[n].tpc
    /\ c' = [c EXCEPT ![n] = sudp_set_state([@ EXCEPT !.tpc = FALSE], "FAILED")]
    /\ UNCHANGED <<status, chan, started, cut, data, losses, failures, history>>

(***************************************************************************)
(* The registrar learns of a kick; yumi_sudp_client_notify_kick.           *)
(***************************************************************************)
Kick(n) ==
    /\ n \in Kickers
    /\ status' = [status EXCEPT ![n] = "kicked"]
    /\ UNCHANGED <<c, chan, started, cut, data, losses, failures, history>>

\* Settled: established, with no connect() of its own still to be carried out.
Standing(n) == IF c[n].st = "ESTABLISHED" /\ c[n].posts = 0 /\ c[n].wpc = "idle"
               THEN "settled" ELSE "unsettled"

\* Tear the session down: the data path is closed through peer_active.
NotifyKick(n) ==
    /\ c[n].st \in {"ESTABLISHED", "HANDSHAKING"} /\ status[n] = "kicked"
    /\ c' = [c EXCEPT ![n] = sudp_set_state([@ EXCEPT !.active = FALSE], "FAILED")]
    /\ notified' = [notified EXCEPT ![n] = @ \cup {Standing(n)}]
    /\ UNCHANGED <<status, chan, started, cut, data, losses, failures, est, leaked>>

-----------------------------------------------------------------------------
(***************************************************************************)
(* User data: sudp_encrypt_send, and the data branch of sudp_inner_recv,   *)
(* which looks at peer_active and not at the state.  The direction of a    *)
(* transport key is the sender's role.                                     *)
(***************************************************************************)
SendData(n) ==
    /\ c[n].st = "ESTABLISHED"
    /\ \/ /\ c[n].active
          /\ data' = data \cup {[to |-> Other(n), key |-> c[n].key, init |-> c[n].init]}
          /\ UNCHANGED c
       \/ /\ ~c[n].active
          /\ c' = [c EXCEPT ![n] = sudp_set_state(@, "FAILED")]
          /\ UNCHANGED data
    /\ UNCHANGED <<status, chan, started, cut, losses, failures, history>>

Decrypts(n, d) == d.to = n /\ d.key = c[n].key /\ d.init # c[n].init
RecvData(n) ==
    /\ \E d \in data : Decrypts(n, d)
    /\ \/ /\ c[n].active
          /\ leaked' = [leaked EXCEPT ![n] = @ \cup notified[n]]
          /\ UNCHANGED c
       \/ /\ ~c[n].active
          /\ c' = [c EXCEPT ![n] = sudp_set_state(@, "FAILED")]
          /\ UNCHANGED leaked
    /\ UNCHANGED <<status, chan, started, cut, data, losses, failures, est, notified>>

-----------------------------------------------------------------------------
SendWorker(n) == WorkerCheck(n) \/ WorkerHello(n) \/ WorkerBusy(n) \/ WorkerStore(n)
RecvWorker(n) ==
    \/ RecvIgnore(n) \/ RecvHelloRefused(n) \/ RecvHello(n) \/ FinishHello(n)
    \/ RecvResponse(n) \/ FinishResponse(n)
    \/ RecvConfirm(n) \/ FinishConfirm(n)

Next ==
    \E n \in Peers :
        \/ Connect(n) \/ SendWorker(n) \/ RecvWorker(n) \/ Lose(n)
        \/ Expire(n) \/ SeeTimeout(n) \/ FailTimeout(n)
        \/ Kick(n) \/ NotifyKick(n) \/ SendData(n) \/ RecvData(n)

Spec == Init /\ [][Next]_vars

\* The two workers of each client keep running and the network delivers what
\* is not given up.  Nobody is forced to call connect().
Fairness == \A n \in Peers : WF_vars(SendWorker(n)) /\ WF_vars(RecvWorker(n))
FairSpec == Spec /\ Fairness

-----------------------------------------------------------------------------
Ids == {NoId} \cup (Peers \X (1 .. 2 * MaxConnects))
Keys == (Ids \X Ids) \cup {Garbage}
TypeOK ==
    /\ \A n \in Peers :
         /\ c[n].st \in {"DISCONNECTED", "HANDSHAKING", "ESTABLISHED", "FAILED"}
         /\ c[n].hs \in {"none", "idle", "hello_sent", "wait_confirm", "done"}
         /\ c[n].hello \in Ids /\ c[n].saved \in Keys /\ c[n].key \in Keys
         /\ {c[n].init, c[n].active, c[n].tpc} \subseteq BOOLEAN
         /\ c[n].deadline \in {"unset", "set", "passed"}
         /\ c[n].posts \in 0 .. MaxConnects /\ c[n].calls \in 0 .. MaxConnects
         /\ c[n].ids \in 0 .. 2 * MaxConnects
         /\ c[n].wpc \in {"idle", "checked", "store"}
         /\ c[n].rpc \in {"idle", "hello", "response", "confirm"}
         /\ chan[n] = <<>> => c[n].rpc = "idle"
    /\ status \in [Peers -> {"active", "kicked"}]
    /\ losses \in 0 .. MaxLosses /\ failures \in 0 .. MaxFailures
    /\ est \in [Peers -> SUBSET Keys]

\* When both clients are established they hold the same secret in opposite
\* roles, whatever raced: a simultaneous open, a lost message, a reconnect.
Agreement ==
    (\A n \in Peers : c[n].st = "ESTABLISHED")
        => c[1].key = c[2].key /\ c[1].init # c[2].init

\* The responder is established only under a secret under which the initiator
\* was established before (sudp_process_confirm:978-988).
InitiatorFirst ==
    \A n \in Peers :
        c[n].st = "ESTABLISHED" => c[n].key \in est[n]
                                   /\ (~c[n].init => c[n].key \in est[Other(n)])

\* Among honest peers no signature check fails: the RESPONSE or CONFIRM a client
\* waits for is always one over its own transcript, although a context is reset
\* by a lost tie, replaced by a reconnect and outlives a failure.
HandshakesVerify ==
    \A n \in Peers : chan[n] # <<>> =>
        LET m == Head(chan[n])
        IN  /\ m.type = "response" /\ c[n].hs = "hello_sent" /\ status[n] = "active"
                 => Verifies(n)
            /\ m.type = "confirm" /\ c[n].hs = "wait_confirm" => m.tr = c[n].saved

\* Once notify_kick has torn down a settled session nothing the peer sends
\* reaches recv_cb again, although data in flight still decrypts, handlers are
\* under way and the receive path never looks at the state.
KickedIsSilent == \A n \in Peers : "settled" \notin leaked[n]

Disturbed == losses + failures > 0 \/ \E n \in Peers : status[n] = "kicked"

\* Whoever connects, one client or both at once, the two end up with the same
\* secret when nothing is lost or refused and nobody is kicked: they never both
\* drop the other's HELLO, wait for one another's CONFIRM or settle on different
\* exchanges (the tie-break, sudp_process_hello:645-658).
TieResolved ==
    (\E n \in Peers : c[n].calls > 0)
        ~> (c[1].key = c[2].key /\ c[1].key # NoKey) \/ Disturbed

\* Established clients agree on secret and roles, the responder second; no honest handshake
\* fails a signature check, and a settled session that was kicked stays silent.
HandshakeSound == TypeOK /\ Agreement /\ InitiatorFirst /\ HandshakesVerify /\ KickedIsSilent
=============================================================================
