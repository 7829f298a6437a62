------------------------ MODULE SudpHandshakeProofs ------------------------
(***************************************************************************)
(* Proofs about SudpHandshake: for any number of connects, losses and      *)
(* refused sends, HandshakeSound always holds.                             *)
(*                                                                         *)
(* Nothing in HandshakeSound is inductive: whether the two ends agree when *)
(* both are established depends on what was in the channels before.  The   *)
(* invariant therefore says which messages can be under way for each pair  *)
(* of handshake states: both ends open (Opening), one has answered the     *)
(* other's HELLO (Offered), the RESPONSE was taken (Sealed), or the CONFIRM *)
(* could not be sent (Stranded).  A reconnect after a failure starts in    *)
(* Sealed or Opening, with an old CONFIRM still before the new HELLO.      *)
(***************************************************************************)
EXTENDS SudpHandshake, SequenceTheorems, TLAPS

\* The HELLO n waits for an answer to; its context forgets it only when it has
\* seen that the other is no longer active.
Asked(n, h) == h = c[n].hello \/ status[n] = "kicked"

\* Of what n sent at most the HELLO it waits on is under way.
Calling(n) ==
    \/ chan[Other(n)] = <<>>
    \/ /\ c[n].hs = "hello_sent"
       /\ \E h \in Ids : chan[Other(n)] = <<Hello(h)>> /\ Asked(n, h)

SameKeys == c[1].key = c[2].key /\ c[1].init # c[2].init

\* Nobody waits for a CONFIRM.
Opening ==
    /\ \A n \in Peers : c[n].hs \in {"idle", "none", "hello_sent"} /\ Calling(n)
    /\ (\A n \in Peers : c[n].hs = "none") => SameKeys

\* n's HELLO was answered; a HELLO of the other that lost the tie may still be
\* ahead of the RESPONSE.
Offered(n) ==
    LET m == Other(n)
    IN  /\ c[n].hs = "hello_sent" /\ c[m].hs = "wait_confirm"
        /\ chan[m] = <<>> /\ c[m].saved = c[m].key /\ ~c[m].init
        /\ \E h, r \in Ids :
             /\ c[m].key = <<h, r>> /\ Asked(n, h)
             /\ \/ chan[n] = <<>>
                \/ chan[n] = <<Response(h, r, <<h, r>>)>>
                \/ /\ n < m
                   /\ \E g \in Ids : \/ chan[n] = <<Hello(g)>>
                                     \/ chan[n] = <<Hello(g), Response(h, r, <<h, r>>)>>

\* n took the RESPONSE, and may already have begun anew; the other has yet to see
\* the CONFIRM, or never will.
Sealed(n) ==
    LET m == Other(n)
    IN  /\ c[n].hs \in {"none", "hello_sent"} /\ c[m].hs = "wait_confirm"
        /\ chan[n] = <<>> /\ c[n].key = c[m].key /\ c[m].saved = c[m].key
        /\ c[n].key \in est[n] /\ c[n].init /\ ~c[m].init
        /\ \/ chan[m] = <<>> /\ (cut[m] \/ status[m] = "kicked")
           \/ chan[m] = <<Confirm(c[m].key)>>
           \/ /\ c[n].hs = "hello_sent"
              /\ \E h \in Ids :
                   /\ Asked(n, h)
                   /\ \/ chan[m] = <<Confirm(c[m].key), Hello(h)>>
                      \/ chan[m] = <<Hello(h)>> /\ status[m] = "kicked"

\* The CONFIRM was refused by a full ring: neither end ever moves again.
Stranded(n) ==
    /\ c[n].hs = "done" /\ c[Other(n)].hs = "wait_confirm"
    /\ chan[n] = <<>> /\ chan[Other(n)] = <<>>

Control == Opening \/ \E n \in Peers : Offered(n) \/ Sealed(n) \/ Stranded(n)

\* A handler is at work on the first message; HELLO is handled only by an end
\* that is new or lost the tie.
Handling(n) ==
    /\ c[n].rpc # "idle" => /\ chan[n] # <<>> /\ Head(chan[n]).type = c[n].rpc
                            /\ started[n]
    /\ c[n].rpc = "hello" => c[n].hs \in {"idle", "hello_sent"} /\ ~WinsTie(n)

\* The fields that go with the handshake state.
Fits(n) ==
    /\ c[n].st = "ESTABLISHED" => c[n].hs = "none"
    /\ c[n].hs = "hello_sent" => c[n].init
    /\ c[n].hs = "wait_confirm" => started[n]
    /\ c[n].hs = "none" => /\ c[n].key \in est[n]
                           /\ ~c[n].init => c[n].key \in est[Other(n)]

\* A settled session that was torn down stays as it is.
Silenced(n) ==
    /\ "settled" \notin leaked[n]
    /\ "settled" \in notified[n] =>
         /\ status[n] = "kicked" /\ c[n].hs = "none" /\ ~c[n].active
         /\ c[n].posts = 0 /\ c[n].wpc = "idle"

\* Every id was made for a HELLO of one's own or for an answer to the other's, so
\* that the connects bound their number.
Checked(n) == IF c[n].wpc = "checked" THEN 1 ELSE 0
Pending(n) == IF \E k \in DOMAIN chan[n] : chan[n][k].type = "hello" THEN 1 ELSE 0
Counted(n) ==
    LET m == Other(n)
    IN  /\ c[n].posts + Checked(n) <= c[n].calls
        /\ c[n].ids + c[n].posts + Checked(n) + c[m].posts + Checked(m) + Pending(n)
             <= c[n].calls + c[m].calls

Clients ==
    [st : {"DISCONNECTED", "HANDSHAKING", "ESTABLISHED", "FAILED"},
     hs : {"none", "idle", "hello_sent", "wait_confirm", "done"},
     hello : Ids, saved : Keys, key : Keys, init : BOOLEAN, active : BOOLEAN,
     deadline : {"unset", "set", "passed"}, calls : 0 .. MaxConnects,
     posts : 0 .. MaxConnects, ids : 0 .. 2 * MaxConnects,
     wpc : {"idle", "checked", "store"},
     rpc : {"idle", "hello", "response", "confirm"}, tpc : BOOLEAN]

Types ==
    /\ c \in [Peers -> Clients]
    /\ status \in [Peers -> {"active", "kicked"}]
    /\ chan = [n \in Peers |-> chan[n]]
    /\ started \in [Peers -> BOOLEAN] /\ cut \in [Peers -> BOOLEAN]
    /\ losses \in 0 .. MaxLosses /\ failures \in 0 .. MaxFailures
    /\ est \in [Peers -> SUBSET Keys]
    /\ notified \in [Peers -> SUBSET {"settled", "unsettled"}]
    /\ leaked \in [Peers -> SUBSET {"settled", "unsettled"}]

IInv ==
    /\ Types /\ Control
    /\ \A n \in Peers : Handling(n) /\ Fits(n) /\ Silenced(n) /\ Counted(n)

-----------------------------------------------------------------------------
(***************************************************************************)
(* The two ends, and short sequences.                                      *)
(***************************************************************************)
LEMMA Ends ==
    /\ Peers = {1, 2}
    /\ \A n \in Peers : /\ Other(n) \in Peers /\ Other(n) # n /\ Other(Other(n)) = n
                        /\ \A p \in Peers : p = n \/ p = Other(n)
                        /\ n \in Int
BY DEF Peers, Other

\* Channels of one and two messages.
LEMMA PairUp == ASSUME NEW x, NEW y PROVE Append(<<x>>, y) = <<x, y>>
<1> DEFINE a == Append(<<x>>, y)
           b == <<x, y>>
           S == {x, y}
<1>1. <<x>> \in Seq(S) /\ y \in S /\ b \in Seq(S)
  OBVIOUS
<1>2. /\ a \in Seq(S) /\ Len(a) = 2 /\ a[1] = x /\ a[2] = y
  BY <1>1, Len(<<x>>) = 1, <<x>>[1] = x
<1>3. Len(b) = 2 /\ b[1] = x /\ b[2] = y
  OBVIOUS
<1> HIDE DEF a, b
<1>4. \A i \in 1 .. Len(a) : a[i] = b[i]
  BY <1>2, <1>3
<1> QED
  BY <1>1, <1>2, <1>3, <1>4, SeqEqual DEF a, b

LEMMA Short ==
    /\ \A x : /\ <<x>> # <<>> /\ Head(<<x>>) = x /\ Tail(<<x>>) = <<>>
              /\ Append(<<>>, x) = <<x>>
    /\ \A x, y : /\ <<x, y>> # <<>> /\ Head(<<x, y>>) = x /\ Tail(<<x, y>>) = <<y>>
                 /\ Append(<<x>>, y) = <<x, y>>
<1>1. \A x : <<x>> # <<>> /\ Head(<<x>>) = x /\ Append(<<>>, x) = <<x>>
  OBVIOUS
<1>2. \A x : Tail(<<x>>) = <<>>
  OBVIOUS
<1>3. \A x, y : <<x, y>> # <<>> /\ Head(<<x, y>>) = x
  OBVIOUS
<1>4. \A x, y : Tail(<<x, y>>) = <<y>>
  OBVIOUS
<1> QED
  BY <1>1, <1>2, <1>3, <1>4, PairUp

\* Which message is which.
LEMMA Kinds ==
    /\ \A h : Hello(h).type = "hello" /\ Hello(h).hello = h
    /\ \A h, r, tr : /\ Response(h, r, tr).type = "response" /\ Response(h, r, tr).hello = h
                     /\ Response(h, r, tr).resp = r /\ Response(h, r, tr).tr = tr
    /\ \A tr : Confirm(tr).type = "confirm" /\ Confirm(tr).tr = tr
BY DEF Hello, Response, Confirm

-----------------------------------------------------------------------------
(***************************************************************************)
(* Steps that do not touch the handshake: a thread's position, the state,  *)
(* the deadline, the registrar and user data change.                       *)
(***************************************************************************)
\* What Control speaks of stays.
Untouched ==
    /\ UNCHANGED <<chan, cut, est>>
    /\ \A n \in Peers :
         /\ status[n] = "kicked" => status'[n] = "kicked"
         /\ c'[n].hs = c[n].hs /\ c'[n].hello = c[n].hello /\ c'[n].key = c[n].key
         /\ c'[n].saved = c[n].saved /\ c'[n].init = c[n].init

LEMMA UntouchedControl == Control /\ Untouched => Control'
<1> SUFFICES ASSUME Control, Untouched PROVE Control'
  OBVIOUS
<1>1. ASSUME Opening PROVE Opening'
  <2>1. ASSUME NEW n \in Peers, Calling(n) PROVE Calling(n)'
    BY <2>1, Ends DEF Untouched, Calling, Asked
  <2>2. SameKeys => SameKeys'
    BY Ends DEF Untouched, SameKeys
  <2> QED
    BY <1>1, <2>1, <2>2 DEF Untouched, Opening
<1>2. ASSUME NEW n \in Peers, Offered(n) PROVE Offered(n)'
  BY <1>2, Ends DEF Untouched, Offered, Asked
<1>3. ASSUME NEW n \in Peers, Sealed(n) PROVE Sealed(n)'
  BY <1>3, Ends DEF Untouched, Sealed, Asked
<1>4. ASSUME NEW n \in Peers, Stranded(n) PROVE Stranded(n)'
  BY <1>4, Ends DEF Untouched, Stranded
<1> QED
  BY <1>1, <1>2, <1>3, <1>4 DEF Control

Quiet ==
    /\ Untouched /\ UNCHANGED <<started, losses, failures>>
    /\ c' \in [Peers -> Clients] /\ status' \in [Peers -> {"active", "kicked"}]
    /\ \A n \in Peers :
         /\ c'[n].rpc = c[n].rpc /\ c'[n].ids = c[n].ids
         /\ c'[n].st = "ESTABLISHED" => c[n].st = "ESTABLISHED"

LEMMA QuietControl ==
    ASSUME IInv, Quiet
    PROVE  Control' /\ \A n \in Peers : Handling(n)' /\ Fits(n)'
<1>1. Control'
  BY UntouchedControl DEF IInv, Quiet
<1>2. ASSUME NEW n \in Peers PROVE Handling(n)' /\ Fits(n)'
  BY <1>2, Ends DEF IInv, Quiet, Untouched, Handling, Fits, WinsTie
<1> QED
  BY <1>1, <1>2

LEMMA Fields ==
    ASSUME Types, NEW n \in Peers
    PROVE  /\ c[n] \in Clients /\ c[Other(n)] \in Clients
           /\ c[n].calls \in Nat /\ c[n].posts \in Nat /\ c[n].ids \in Nat
           /\ c[n].calls <= MaxConnects /\ c[n].posts <= MaxConnects
           /\ Checked(n) \in {0, 1} /\ Pending(n) \in {0, 1}
           /\ MaxConnects \in Nat
BY Ends, HandshakeAssumption DEF Types, Clients, Checked, Pending

\* The caller, the deadline, and the send worker when it sends nothing.
LEMMA LocalStep ==
    ASSUME IInv, NEW n \in Peers,
           \/ Connect(n) \/ WorkerCheck(n) \/ WorkerBusy(n) \/ WorkerStore(n)
           \/ Expire(n) \/ SeeTimeout(n) \/ FailTimeout(n)
    PROVE  IInv'
<1> DEFINE m == Other(n)
<1>1. c[n] \in Clients /\ DOMAIN c = Peers
  BY DEF IInv, Types
<1>2. /\ c[n].calls \in Nat /\ c[n].posts \in Nat /\ Checked(n) \in {0, 1} /\ MaxConnects \in Nat
      /\ c[n].posts + Checked(n) <= c[n].calls /\ c[n].calls <= MaxConnects
  BY Fields DEF IInv, Counted
<1>3. /\ c'[n] \in Clients
      /\ c'[n].hs = c[n].hs /\ c'[n].rpc = c[n].rpc /\ c'[n].hello = c[n].hello
      /\ c'[n].key = c[n].key /\ c'[n].saved = c[n].saved /\ c'[n].init = c[n].init
      /\ c'[n].ids = c[n].ids /\ c'[n].active = c[n].active
      /\ c'[n].st = "ESTABLISHED" => c[n].st = "ESTABLISHED"
      /\ status[n] = "kicked" /\ c[n].posts = 0 /\ c[n].wpc = "idle"
           => c'[n].posts = 0 /\ c'[n].wpc = "idle"
      /\ c'[n].posts + Checked(n)' + c[n].calls <= c[n].posts + Checked(n) + c'[n].calls
  <2>1. CASE Connect(n)
    <3>1. /\ c'[n] = [c[n] EXCEPT !.calls = @ + 1, !.posts = @ + 1]
          /\ c[n].calls < MaxConnects /\ status[n] = "active"
      BY <1>1, <2>1 DEF Connect
    <3>2. c[n].calls + 1 \in 0 .. MaxConnects /\ c[n].posts + 1 \in 0 .. MaxConnects
      BY <1>2, <3>1
    <3>3. c'[n] \in Clients
      BY <1>1, <3>1, <3>2 DEF Clients
    <3> QED
      BY <1>1, <1>2, <3>1, <3>3 DEF Clients, Checked
  <2>2. CASE WorkerCheck(n)
    <3>1. /\ c'[n] = [c[n] EXCEPT !.posts = @ - 1,
                          !.wpc = IF c[n].st = "ESTABLISHED" THEN "idle" ELSE "checked"]
          /\ c[n].posts > 0 /\ c[n].wpc = "idle"
      BY <1>1, <2>2 DEF WorkerCheck
    <3>2. c[n].posts - 1 \in 0 .. MaxConnects
      BY <1>2, <3>1
    <3>3. c'[n] \in Clients
      BY <1>1, <3>1, <3>2 DEF Clients
    <3> QED
      BY <1>1, <1>2, <3>1, <3>3 DEF Clients, Checked
  <2>3. CASE WorkerBusy(n)
    <3>1. c'[n] = [c[n] EXCEPT !.wpc = IF c[n].st = "DISCONNECTED" THEN "store" ELSE "idle"] /\ c[n].wpc = "checked"
      BY <1>1, <2>3 DEF WorkerBusy
    <3>2. c'[n] \in Clients
      BY <1>1, <3>1 DEF Clients
    <3> QED
      BY <1>1, <1>2, <3>1, <3>2 DEF Clients, Checked
  <2>4. CASE WorkerStore(n)
    <3>1. c'[n] = [c[n] EXCEPT !.wpc = "idle", !.st = "HANDSHAKING"] /\ c[n].wpc = "store"
      BY <1>1, <2>4 DEF WorkerStore, sudp_set_state
    <3>2. c'[n] \in Clients
      BY <1>1, <3>1 DEF Clients
    <3> QED
      BY <1>1, <1>2, <3>1, <3>2 DEF Clients, Checked
  <2>5. CASE Expire(n)
    <3>1. c'[n] = [c[n] EXCEPT !.deadline = "passed"]
      BY <1>1, <2>5 DEF Expire
    <3>2. c'[n] \in Clients
      BY <1>1, <3>1 DEF Clients
    <3> QED
      BY <1>1, <1>2, <3>1, <3>2 DEF Clients, Checked
  <2>6. CASE SeeTimeout(n)
    <3>1. c'[n] = [c[n] EXCEPT !.tpc = TRUE]
      BY <1>1, <2>6 DEF SeeTimeout
    <3>2. c'[n] \in Clients
      BY <1>1, <3>1 DEF Clients
    <3> QED
      BY <1>1, <1>2, <3>1, <3>2 DEF Clients, Checked
  <2>7. CASE FailTimeout(n)
    <3>1. c'[n] = [c[n] EXCEPT !.tpc = FALSE, !.st = "FAILED"]
      BY <1>1, <2>7 DEF FailTimeout, sudp_set_state
    <3>2. c'[n] \in Clients
      BY <1>1, <3>1 DEF Clients
    <3> QED
      BY <1>1, <1>2, <3>1, <3>2 DEF Clients, Checked
  <2> QED
    BY <2>1, <2>2, <2>3, <2>4, <2>5, <2>6, <2>7
<1>4. /\ UNCHANGED <<status, chan, started, cut, losses, failures, est, notified, leaked>>
      /\ c' = [c EXCEPT ![n] = c'[n]]
  BY <1>1 DEF Connect, WorkerCheck, WorkerBusy, WorkerStore, Expire, SeeTimeout, FailTimeout,
              history
<1>5. c'[m] = c[m] /\ c' \in [Peers -> Clients]
  BY <1>1, <1>3, <1>4, Ends DEF IInv, Types
<1>6. Quiet
  BY <1>3, <1>4, <1>5, Ends DEF Quiet, Untouched, IInv, Types
<1>7. Types'
  BY <1>4, <1>5 DEF IInv, Types
<1>8. \A p \in Peers : Silenced(p)'
  BY <1>3, <1>4, <1>5, Ends DEF IInv, Silenced
<1>9. \A p \in Peers : Counted(p)'
  <2>1. Pending(n)' = Pending(n) /\ Pending(m)' = Pending(m) /\ Checked(m)' = Checked(m)
    BY <1>4, <1>5, Ends DEF Pending, Checked
  <2>2. /\ c[m].calls \in Nat /\ c[m].posts \in Nat /\ c[m].ids \in Nat /\ c[n].ids \in Nat
        /\ Checked(m) \in {0, 1} /\ Pending(n) \in {0, 1} /\ Pending(m) \in {0, 1}
    BY Ends, Fields DEF IInv
  <2>3. c'[n].calls \in Nat /\ c'[n].posts \in Nat /\ Checked(n)' \in {0, 1}
    BY <1>2, <1>3 DEF Clients, Checked
  <2>4. Counted(n) /\ Counted(m) /\ Other(m) = n
    BY Ends DEF IInv
  <2>5. Counted(n)' /\ Counted(m)'
    BY <1>2, <1>3, <1>5, <2>1, <2>2, <2>3, <2>4 DEF Counted
  <2> QED
    BY <2>5, Ends
<1> QED
  BY <1>6, <1>7, <1>8, <1>9, QuietControl DEF IInv

\* The registrar learns of a kick, the client is told, data are sent and received.
LEMMA GateStep ==
    ASSUME IInv, NEW n \in Peers, Kick(n) \/ NotifyKick(n) \/ SendData(n) \/ RecvData(n)
    PROVE  IInv'
<1> DEFINE m == Other(n)
<1>1. /\ c[n] \in Clients /\ DOMAIN c = Peers /\ DOMAIN status = Peers
      /\ DOMAIN notified = Peers /\ DOMAIN leaked = Peers
  BY DEF IInv, Types
<1>2. \A p \in Peers :
        /\ c'[p] \in Clients
        /\ c'[p].hs = c[p].hs /\ c'[p].rpc = c[p].rpc /\ c'[p].hello = c[p].hello
        /\ c'[p].key = c[p].key /\ c'[p].saved = c[p].saved /\ c'[p].init = c[p].init
        /\ c'[p].ids = c[p].ids /\ c'[p].calls = c[p].calls /\ c'[p].posts = c[p].posts
        /\ c'[p].wpc = c[p].wpc
        /\ c'[p].active => c[p].active
        /\ c'[p].st = "ESTABLISHED" => c[p].st = "ESTABLISHED"
  <2>1. \/ c' = c
        \/ c' = [c EXCEPT ![n] = [c[n] EXCEPT !.st = "FAILED"]]
        \/ c' = [c EXCEPT ![n] = [c[n] EXCEPT !.active = FALSE, !.st = "FAILED"]]
    BY DEF Kick, NotifyKick, SendData, RecvData, sudp_set_state
  <2>2. CASE c' = c
    BY <2>2 DEF IInv, Types
  <2>3. CASE c' = [c EXCEPT ![n] = [c[n] EXCEPT !.st = "FAILED"]]
    BY <1>1, <2>3 DEF IInv, Types, Clients
  <2>4. CASE c' = [c EXCEPT ![n] = [c[n] EXCEPT !.active = FALSE, !.st = "FAILED"]]
    <3>1. [c[n] EXCEPT !.active = FALSE, !.st = "FAILED"] \in Clients
      BY <1>1 DEF Clients
    <3> QED
      BY <1>1, <2>4, <3>1 DEF IInv, Types, Clients
  <2> QED
    BY <2>1, <2>2, <2>3, <2>4
<1>3. /\ UNCHANGED <<chan, started, cut, losses, failures, est>>
      /\ c' \in [Peers -> Clients] /\ status' \in [Peers -> {"active", "kicked"}]
      /\ \A p \in Peers : status[p] = "kicked" => status'[p] = "kicked"
  <2>1. c' = [p \in Peers |-> c'[p]]
    BY <1>1 DEF Kick, NotifyKick, SendData, RecvData, sudp_set_state, IInv, Types
  <2> QED
    BY <1>1, <1>2, <2>1 DEF Kick, NotifyKick, SendData, RecvData, history, IInv, Types
<1>4. Quiet
  BY <1>2, <1>3 DEF Quiet, Untouched
<1>5. \A p \in Peers : /\ "settled" \in notified'[p] => "settled" \in notified[p]
                            \/ (p = n /\ Standing(n) = "settled" /\ NotifyKick(n))
                       /\ "settled" \in leaked'[p] => "settled" \in leaked[p]
                            \/ ("settled" \in notified[p] /\ c[p].active)
  BY <1>1 DEF Kick, NotifyKick, SendData, RecvData, history
<1>6. \A p \in Peers : Silenced(p)'
  <2>1. ASSUME NEW p \in Peers, "settled" \in notified'[p]
        PROVE  /\ status'[p] = "kicked" /\ c'[p].hs = "none" /\ ~c'[p].active
               /\ c'[p].posts = 0 /\ c'[p].wpc = "idle"
    <3>1. CASE "settled" \in notified[p]
      BY <1>2, <1>3, <3>1 DEF IInv, Silenced
    <3>2. CASE p = n /\ Standing(n) = "settled" /\ NotifyKick(n)
      <4>1. /\ c[n].st = "ESTABLISHED" /\ c[n].posts = 0 /\ c[n].wpc = "idle"
            /\ status[n] = "kicked"
        BY <3>2 DEF Standing, NotifyKick
      <4>2. c[n].hs = "none"
        BY <4>1 DEF IInv, Fits
      <4>3. ~c'[n].active
        BY <1>1, <3>2 DEF NotifyKick, sudp_set_state, Clients
      <4> QED
        BY <1>2, <1>3, <3>2, <4>1, <4>2, <4>3
    <3> QED
      BY <1>5, <2>1, <3>1, <3>2
  <2> QED
    BY <1>5, <2>1 DEF IInv, Silenced
<1>7. Types'
  <2>1. notified' \in [Peers -> SUBSET {"settled", "unsettled"}]
    BY DEF IInv, Types, Kick, NotifyKick, SendData, RecvData, history, Standing
  <2>2. leaked' \in [Peers -> SUBSET {"settled", "unsettled"}]
    BY DEF IInv, Types, Kick, NotifyKick, SendData, RecvData, history
  <2> QED
    BY <1>3, <2>1, <2>2 DEF IInv, Types
<1>8. \A p \in Peers : Counted(p)'
  <2>1. \A p \in Peers : Checked(p)' = Checked(p) /\ Pending(p)' = Pending(p)
    BY <1>2, <1>3 DEF Checked, Pending
  <2> QED
    BY <1>2, <2>1, Ends DEF IInv, Counted
<1> QED
  BY <1>4, <1>6, <1>7, <1>8, QuietControl DEF IInv

-----------------------------------------------------------------------------
(***************************************************************************)
(* The steps of the handshake.                                             *)
(***************************************************************************)
\* A message is appended to a channel that is not cut.
LEMMA SentTo ==
    ASSUME Types, NEW n \in Peers, NEW msg
    PROVE  /\ Sent(n, msg) = [p \in Peers |-> Sent(n, msg)[p]]
           /\ Sent(n, msg)[Other(n)] = chan[Other(n)]
           /\ \/ Sent(n, msg)[n] = chan[n] /\ cut[n]
              \/ Sent(n, msg)[n] = Append(chan[n], msg) /\ ~cut[n]
BY Ends DEF Types, Sent

\* The send worker becomes the initiator.
LEMMA HelloStep == ASSUME IInv, NEW n \in Peers, WorkerHello(n) PROVE IInv'
<1> DEFINE m == Other(n)
           id == NextId(n)
<1>1. /\ Types /\ Control /\ c[n] \in Clients /\ DOMAIN c = Peers
      /\ m \in Peers /\ m # n /\ Other(m) = n /\ \A p \in Peers : p = n \/ p = m
  BY Ends DEF IInv, Types
<1>2. /\ c[n].wpc = "checked" /\ c[n].rpc = "idle" /\ c[n].hs \in {"none", "idle"}
      /\ UNCHANGED <<status, started, cut, losses, est, notified, leaked>>
  BY DEF WorkerHello, MutexFree, history
<1>3. /\ c[n].ids + 1 \in 0 .. 2 * MaxConnects /\ id \in Ids
      /\ c[n].calls \in Nat /\ c[n].posts \in Nat /\ c[n].ids \in Nat
      /\ c[m].calls \in Nat /\ c[m].posts \in Nat /\ c[m].ids \in Nat
      /\ Checked(n) = 1 /\ Checked(m) \in {0, 1} /\ Pending(n) \in {0, 1} /\ Pending(m) \in {0, 1}
  <2>1. /\ c[n].calls \in Nat /\ c[n].posts \in Nat /\ c[n].ids \in Nat
        /\ c[m].calls \in Nat /\ c[m].posts \in Nat /\ c[m].ids \in Nat
        /\ c[n].calls <= MaxConnects /\ c[m].calls <= MaxConnects /\ MaxConnects \in Nat
        /\ Checked(n) = 1 /\ Checked(m) \in {0, 1} /\ Pending(n) \in {0, 1} /\ Pending(m) \in {0, 1}
    BY <1>1, <1>2, Fields DEF Checked
  <2>2. c[n].ids + 1 <= 2 * MaxConnects
    BY <2>1 DEF IInv, Counted
  <2>3. c[n].ids + 1 \in 1 .. 2 * MaxConnects
    BY <2>1, <2>2
  <2> QED
    BY <2>1, <2>3 DEF Ids, NextId
<1>4. /\ c'[m] = c[m] /\ c' \in [Peers -> Clients] /\ c'[n].hs = "hello_sent" /\ c'[n].hello = id
      /\ c'[n].init /\ c'[n].key = c[n].key /\ c'[n].saved = c[n].saved /\ c'[n].rpc = "idle"
      /\ c'[n].calls = c[n].calls /\ c'[n].posts = c[n].posts /\ c'[n].ids = c[n].ids + 1
      /\ c'[n].wpc = "idle" /\ c'[n].st # "ESTABLISHED"
  <2> DEFINE hello == [c[n] EXCEPT !.hs = "hello_sent", !.hello = id, !.active = TRUE,
                                   !.init = TRUE, !.deadline = "set", !.ids = @ + 1, !.wpc = "idle"]
  <2>1. hello \in Clients
    BY <1>1, <1>3 DEF Clients
  <2>2. /\ hello.hs = "hello_sent" /\ hello.hello = id /\ hello.init /\ hello.key = c[n].key
        /\ hello.saved = c[n].saved /\ hello.rpc = "idle" /\ hello.calls = c[n].calls
        /\ hello.posts = c[n].posts /\ hello.ids = c[n].ids + 1 /\ hello.wpc = "idle"
    BY <1>1, <1>2 DEF Clients
  <2>3. \/ c' = [c EXCEPT ![n] = [hello EXCEPT !.st = "HANDSHAKING"]]
        \/ c' = [c EXCEPT ![n] = [hello EXCEPT !.st = "FAILED"]]
    BY DEF WorkerHello, sudp_set_state
  <2> HIDE DEF hello
  <2>4. \E s \in {"HANDSHAKING", "FAILED"} : c' = [c EXCEPT ![n] = [hello EXCEPT !.st = s]]
    BY <2>3
  <2>5. PICK s \in {"HANDSHAKING", "FAILED"} : c' = [c EXCEPT ![n] = [hello EXCEPT !.st = s]]
    BY <2>4
  <2>6. [hello EXCEPT !.st = s] \in Clients
    BY <2>1 DEF Clients
  <2>7. c'[n] = [hello EXCEPT !.st = s] /\ c'[m] = c[m] /\ c' \in [Peers -> Clients]
    BY <1>1, <2>5, <2>6 DEF Types
  <2> QED
    BY <2>1, <2>2, <2>7 DEF Clients
<1>5. /\ chan' = [p \in Peers |-> chan'[p]] /\ chan'[n] = chan[n]
      /\ \/ chan'[m] = chan[m] /\ (cut[m] \/ failures' = failures + 1)
         \/ chan'[m] = Append(chan[m], Hello(id)) /\ ~cut[m]
      /\ failures' \in 0 .. MaxFailures
  <2>1. CASE chan' = chan /\ SendFails
    BY <1>1, <2>1, HandshakeAssumption DEF Types, SendFails
  <2>2. CASE chan' = Sent(m, Hello(id)) /\ SendWorks
    BY <1>1, <2>2, SentTo DEF Types, SendWorks
  <2> QED
    BY <2>1, <2>2 DEF WorkerHello
<1>6. Control'
  <2>1. CASE Opening
    <3>1. chan[m] = <<>> /\ Calling(m)
      BY <1>1, <1>2, <2>1 DEF Opening, Calling
    <3>2. chan'[m] = <<>> \/ chan'[m] = <<Hello(id)>>
      BY <1>5, <3>1, Short
    <3>3. Calling(n)'
      BY <1>1, <1>3, <1>4, <3>2 DEF Calling, Asked
    <3>4. Calling(m)'
      BY <1>1, <1>2, <1>4, <1>5, <3>1 DEF Calling, Asked
    <3>5. Opening'
      BY <1>1, <1>4, <2>1, <3>3, <3>4 DEF Opening
    <3> QED
      BY <3>5 DEF Control
  <2>2. CASE Sealed(n)
    <3>1. c[n].hs = "none"
      BY <1>2, <2>2 DEF Sealed
    <3>2. \/ chan[m] = <<>> /\ (cut[m] \/ status[m] = "kicked")
          \/ chan[m] = <<Confirm(c[m].key)>>
      BY <2>2, <3>1 DEF Sealed
    <3>3. \/ chan'[m] = <<>> /\ (cut[m] \/ status[m] = "kicked")
          \/ chan'[m] = <<Hello(id)>> /\ status[m] = "kicked"
          \/ chan'[m] = <<Confirm(c[m].key)>>
          \/ chan'[m] = <<Confirm(c[m].key), Hello(id)>>
      BY <1>5, <3>2, Short
    <3>4. Sealed(n)'
      BY <1>1, <1>2, <1>3, <1>4, <1>5, <2>2, <3>3 DEF Sealed, Asked
    <3> QED
      BY <1>1, <3>4 DEF Control
  <2> QED
    BY <1>1, <1>2, <2>1, <2>2 DEF Control, Offered, Sealed, Stranded
<1>7. \A p \in Peers : Handling(p)'
  <2>1. Handling(n)'
    BY <1>4 DEF Handling
  <2>2. chan[m] # <<>> => chan'[m] # <<>> /\ Head(chan'[m]) = Head(chan[m])
    <3>1. chan[m] = <<>> \/ chan[m] = <<Confirm(c[m].key)>>
      BY <1>1, <1>2 DEF Control, Opening, Calling, Offered, Sealed, Stranded
    <3> QED
      BY <1>5, <3>1, Short
  <2>3. Handling(m)'
    BY <1>1, <1>2, <1>4, <2>2 DEF IInv, Handling, WinsTie
  <2> QED
    BY <1>1, <2>1, <2>3
<1>8. \A p \in Peers : Fits(p)'
  BY <1>1, <1>2, <1>4 DEF IInv, Fits
<1>9. \A p \in Peers : Silenced(p)'
  BY <1>1, <1>2, <1>4 DEF IInv, Silenced
<1>10. \A p \in Peers : Counted(p)'
  <2>1. Checked(n)' = 0 /\ Checked(m)' = Checked(m) /\ Pending(n)' = Pending(n)
    BY <1>4, <1>5 DEF Checked, Pending
  <2>2. Pending(m)' \in {0, 1}
    BY DEF Pending
  <2>3. Counted(n) /\ Counted(m)
    BY <1>1 DEF IInv
  <2>4. Counted(n)' /\ Counted(m)'
    BY <1>1, <1>3, <1>4, <2>1, <2>2, <2>3 DEF Counted
  <2> QED
    BY <1>1, <2>4
<1> QED
  BY <1>1, <1>2, <1>4, <1>5, <1>6, <1>7, <1>8, <1>9, <1>10 DEF IInv, Types

\* No channel holds more than two messages, and one is gone when the first is taken.
LEMMA Shapes ==
    ASSUME Control, NEW n \in Peers
    PROVE  chan[n] = <<>> \/ (\E x : chan[n] = <<x>>) \/ \E x, y : chan[n] = <<x, y>>
<1> DEFINE m == Other(n)
<1>1. m \in Peers /\ Other(m) = n /\ \A p \in Peers : p = n \/ p = m
  BY Ends
<1>2. CASE Opening
  <2>1. Calling(m)
    BY <1>1, <1>2 DEF Opening
  <2> QED
    BY <1>1, <2>1 DEF Calling
<1>3. CASE Offered(n) \/ Offered(m)
  BY <1>1, <1>3 DEF Offered
<1>4. CASE Sealed(n)
  BY <1>4 DEF Sealed
<1>5. CASE Sealed(m)
  BY <1>1, <1>5 DEF Sealed
<1>6. CASE Stranded(n) \/ Stranded(m)
  BY <1>1, <1>6 DEF Stranded
<1> QED
  BY <1>1, <1>2, <1>3, <1>4, <1>5, <1>6 DEF Control

LEMMA Fewer ==
    ASSUME Control, NEW n \in Peers, chan[n] # <<>>,
           chan'[n] = <<>> \/ chan'[n] = Tail(chan[n])
    PROVE  Pending(n)' <= Pending(n)
<1>1. CASE chan'[n] = <<>>
  BY <1>1 DEF Pending
<1>2. ASSUME NEW x, chan[n] = <<x>>, chan'[n] = Tail(chan[n]) PROVE Pending(n)' <= Pending(n)
  BY <1>1, <1>2, Short
<1>3. ASSUME NEW x, NEW y, chan[n] = <<x, y>>, chan'[n] = Tail(chan[n])
      PROVE  Pending(n)' <= Pending(n)
  <2>1. chan'[n] = <<y>>
    BY <1>3, Short
  <2>2. Pending(n)' = 1 => y.type = "hello"
    BY <2>1 DEF Pending
  <2>3. y.type = "hello" => Pending(n) = 1
    <3>1. 2 \in DOMAIN chan[n] /\ chan[n][2] = y
      BY <1>3
    <3> QED
      BY <3>1 DEF Pending
  <2> QED
    BY <2>2, <2>3 DEF Pending
<1> QED
  BY <1>1, <1>2, <1>3, Shapes

\* The counters do not grow when messages vanish.
LEMMA FewerCounted ==
    ASSUME IInv, NEW n \in Peers, chan[n] # <<>>, chan'[Other(n)] = chan[Other(n)],
           chan'[n] = <<>> \/ chan'[n] = Tail(chan[n]),
           \A p \in Peers : /\ c'[p].ids = c[p].ids /\ c'[p].calls = c[p].calls
                            /\ c'[p].posts = c[p].posts /\ c'[p].wpc = c[p].wpc
    PROVE  \A p \in Peers : Counted(p)'
<1> DEFINE m == Other(n)
<1>1. m \in Peers /\ m # n /\ Other(m) = n /\ \A p \in Peers : p = n \/ p = m
  BY Ends
<1>2. Pending(n)' <= Pending(n) /\ Pending(m)' = Pending(m)
  BY <1>1, Fewer DEF IInv, Pending
<1>3. Checked(n)' = Checked(n) /\ Checked(m)' = Checked(m)
  BY <1>1 DEF Checked
<1>4. /\ c[n].calls \in Nat /\ c[n].posts \in Nat /\ c[n].ids \in Nat
      /\ c[m].calls \in Nat /\ c[m].posts \in Nat /\ c[m].ids \in Nat
      /\ Checked(n) \in {0, 1} /\ Checked(m) \in {0, 1}
      /\ Pending(n) \in {0, 1} /\ Pending(m) \in {0, 1} /\ Pending(n)' \in {0, 1}
  <2>1. Pending(n)' \in {0, 1}
    BY DEF Pending
  <2> QED
    BY <1>1, <2>1, Fields DEF IInv
<1>5. Counted(n) /\ Counted(m)
  BY <1>1 DEF IInv
<1>6. /\ c'[n].ids = c[n].ids /\ c'[n].calls = c[n].calls /\ c'[n].posts = c[n].posts
      /\ c'[m].ids = c[m].ids /\ c'[m].calls = c[m].calls /\ c'[m].posts = c[m].posts
  BY <1>1
<1>7. /\ c[n].posts + Checked(n) <= c[n].calls /\ c[m].posts + Checked(m) <= c[m].calls
      /\ c[n].ids + c[n].posts + Checked(n) + c[m].posts + Checked(m) + Pending(n)
           <= c[n].calls + c[m].calls
      /\ c[m].ids + c[m].posts + Checked(m) + c[n].posts + Checked(n) + Pending(m)
           <= c[m].calls + c[n].calls
  BY <1>1, <1>5 DEF Counted
<1>8. c[n].ids + c[n].posts + Checked(n) + c[m].posts + Checked(m) + Pending(n)'
        <= c[n].calls + c[m].calls
  <2> DEFINE others == c[n].ids + c[n].posts + Checked(n) + c[m].posts + Checked(m)
             total == c[n].calls + c[m].calls
  <2>1. others \in Int /\ total \in Int /\ Pending(n) \in Int /\ Pending(n)' \in Int
    BY <1>4
  <2>2. others + Pending(n) <= total
    BY <1>7
  <2> HIDE DEF others, total
  <2>3. others + Pending(n)' <= total
    BY <1>2, <2>1, <2>2
  <2> QED
    BY <2>3 DEF others, total
<1>9. Counted(n)'
  BY <1>1, <1>3, <1>6, <1>7, <1>8 DEF Counted
<1>10. Counted(m)'
  BY <1>1, <1>2, <1>3, <1>6, <1>7 DEF Counted
<1> QED
  BY <1>1, <1>9, <1>10

\* The channel gives a message up.
LEMMA LoseStep == ASSUME IInv, NEW n \in Peers, Lose(n) PROVE IInv'
<1> DEFINE m == Other(n)
<1>1. /\ Types /\ Control /\ m \in Peers /\ m # n /\ Other(m) = n
      /\ \A p \in Peers : p = n \/ p = m
  BY Ends DEF IInv
<1>2. /\ chan[n] # <<>> /\ c[n].rpc = "idle"
      /\ UNCHANGED <<c, status, started, failures, est, notified, leaked>>
  BY DEF Lose, history
<1>3. losses' \in 0 .. MaxLosses
  BY <1>1, HandshakeAssumption DEF Lose, Types
<1>4. /\ cut' \in [Peers -> BOOLEAN] /\ cut'[m] = cut[m] /\ cut'[n] = started[n]
  BY <1>1 DEF Lose, Types
<1>5. /\ chan' = [p \in Peers |-> chan'[p]] /\ chan'[m] = chan[m]
      /\ chan'[n] = <<>> \/ chan'[n] = Tail(chan[n])
      /\ started[n] => chan'[n] = <<>>
  <2>1. chan' = [chan EXCEPT ![n] = IF started[n] THEN <<>> ELSE Tail(chan[n])]
    BY DEF Lose
  <2>2. chan'[n] = (IF started[n] THEN <<>> ELSE Tail(chan[n])) /\ chan'[m] = chan[m]
        /\ chan' = [p \in Peers |-> chan'[p]]
    BY <1>1, <2>1 DEF Types
  <2> QED
    BY <2>2
<1>6. Control'
  <2>1. CASE Opening
    <3>1. Calling(m) /\ Calling(n)
      BY <1>1, <2>1 DEF Opening
    <3>2. chan'[n] = <<>>
      BY <1>1, <1>2, <1>5, <3>1, Short DEF Calling
    <3>3. Calling(m)'
      BY <1>1, <3>2 DEF Calling
    <3>4. Calling(n)'
      BY <1>1, <1>2, <1>5, <3>1 DEF Calling, Asked
    <3>5. Opening'
      BY <1>1, <1>2, <2>1, <3>3, <3>4 DEF Opening, SameKeys
    <3> QED
      BY <3>5 DEF Control
  <2>2. CASE Offered(n)
    <3>1. PICK h, r \in Ids :
             /\ c[m].key = <<h, r>> /\ Asked(n, h)
             /\ \/ chan[n] = <<>>
                \/ chan[n] = <<Response(h, r, <<h, r>>)>>
                \/ /\ n < m
                   /\ \E g \in Ids : \/ chan[n] = <<Hello(g)>>
                                     \/ chan[n] = <<Hello(g), Response(h, r, <<h, r>>)>>
      BY <2>2 DEF Offered
    <3>2. chan'[n] = <<>> \/ chan'[n] = <<Response(h, r, <<h, r>>)>>
      <4>1. CASE chan[n] = <<Response(h, r, <<h, r>>)>>
        BY <1>5, <4>1, Short
      <4>2. ASSUME NEW g \in Ids, chan[n] = <<Hello(g)>> PROVE chan'[n] = <<>>
        BY <1>5, <4>2, Short
      <4>3. ASSUME NEW g \in Ids, chan[n] = <<Hello(g), Response(h, r, <<h, r>>)>>
            PROVE  chan'[n] = <<>> \/ chan'[n] = <<Response(h, r, <<h, r>>)>>
        BY <1>5, <4>3, Short
      <4> QED
        BY <1>2, <3>1, <4>1, <4>2, <4>3
    <3>3. Offered(n)'
      BY <1>2, <1>5, <2>2, <3>1, <3>2 DEF Offered, Asked
    <3> QED
      BY <3>3 DEF Control
  <2>3. CASE Sealed(m)
    <3>1. started[n] /\ chan'[n] = <<>> /\ cut'[n]
      BY <1>1, <1>4, <1>5, <2>3 DEF Sealed, IInv, Fits
    <3>2. Sealed(m)'
      BY <1>1, <1>2, <1>5, <2>3, <3>1 DEF Sealed
    <3> QED
      BY <1>1, <3>2 DEF Control
  <2>4. ~Offered(m) /\ ~Sealed(n) /\ ~Stranded(n) /\ ~Stranded(m)
    BY <1>1, <1>2 DEF Offered, Sealed, Stranded
  <2> QED
    BY <1>1, <2>1, <2>2, <2>3, <2>4 DEF Control
<1>7. \A p \in Peers : Handling(p)' /\ Fits(p)' /\ Silenced(p)'
  BY <1>1, <1>2, <1>5 DEF IInv, Handling, Fits, Silenced, WinsTie
<1>8. \A p \in Peers : Counted(p)'
  BY <1>2, <1>5, FewerCounted
<1> QED
  BY <1>1, <1>2, <1>3, <1>4, <1>5, <1>6, <1>7, <1>8 DEF IInv, Types

-----------------------------------------------------------------------------
(***************************************************************************)
(* The receive worker takes a message.                                     *)
(***************************************************************************)
\* Whoever waits for a CONFIRM finds it, unless the registrar lists the other as
\* kicked.
LEMMA Waiting ==
    ASSUME Control, NEW n \in Peers, c[n].hs = "wait_confirm", chan[n] # <<>>
    PROVE  /\ Sealed(Other(n)) /\ Other(Other(n)) = n
           /\ \/ Head(chan[n]).type = "confirm" /\ Head(chan[n]).tr = c[n].saved
              \/ Head(chan[n]).type = "hello" /\ status[n] = "kicked"
<1> DEFINE m == Other(n)
<1>1. m \in Peers /\ Other(m) = n /\ \A p \in Peers : p = n \/ p = m
  BY Ends
<1>2. Sealed(m)
  BY <1>1 DEF Control, Opening, Offered, Sealed, Stranded
<1>3. CASE chan[n] = <<Confirm(c[n].key)>>
  BY <1>1, <1>2, <1>3, Short, Kinds DEF Sealed
<1>4. ASSUME NEW h \in Ids, chan[n] = <<Confirm(c[n].key), Hello(h)>>
      PROVE  Head(chan[n]).type = "confirm" /\ Head(chan[n]).tr = c[n].saved
  BY <1>1, <1>2, <1>4, Short, Kinds DEF Sealed
<1>5. ASSUME NEW h \in Ids, chan[n] = <<Hello(h)>> PROVE Head(chan[n]).type = "hello"
  BY <1>5, Short, Kinds
<1> QED
  BY <1>1, <1>2, <1>3, <1>4, <1>5 DEF Sealed

\* A message is dropped, and at most a HELLO forgotten or the state changed.
LEMMA DropStep ==
    ASSUME IInv, NEW n \in Peers, chan[n] # <<>>, c[n].rpc = "idle",
           c[n].hs = "wait_confirm" => status[n] = "kicked",
           chan' = Popped(n), Received(n),
           UNCHANGED <<status, cut, losses, failures, est, notified, leaked>>,
           c' \in [Peers -> Clients], c'[Other(n)] = c[Other(n)],
           c'[n].hello = c[n].hello \/ status[n] = "kicked",
           c'[n].st = "ESTABLISHED" => c[n].st = "ESTABLISHED",
           /\ c'[n].hs = c[n].hs /\ c'[n].key = c[n].key /\ c'[n].saved = c[n].saved
           /\ c'[n].init = c[n].init /\ c'[n].rpc = c[n].rpc /\ c'[n].ids = c[n].ids
           /\ c'[n].calls = c[n].calls /\ c'[n].posts = c[n].posts
           /\ c'[n].wpc = c[n].wpc /\ c'[n].active = c[n].active
    PROVE  IInv'
<1> DEFINE m == Other(n)
<1>1. /\ Types /\ Control /\ m \in Peers /\ m # n /\ Other(m) = n
      /\ \A p \in Peers : p = n \/ p = m
  BY Ends DEF IInv
<1>2. /\ started' \in [Peers -> BOOLEAN] /\ started'[n] /\ started'[m] = started[m]
  BY <1>1 DEF Types, Received
<1>3. chan' = [p \in Peers |-> chan'[p]] /\ chan'[m] = chan[m] /\ chan'[n] = Tail(chan[n])
  BY <1>1 DEF Types, Popped
<1>4. Control'
  <2>1. CASE Opening
    <3>1. Calling(m) /\ Calling(n)
      BY <1>1, <2>1 DEF Opening
    <3>2. chan'[n] = <<>>
      <4>1. PICK h \in Ids : chan[n] = <<Hello(h)>>
        BY <1>1, <3>1 DEF Calling
      <4> QED
        BY <1>3, <4>1, Short
    <3>3. Calling(m)'
      BY <1>1, <3>2 DEF Calling
    <3>4. Calling(n)'
      BY <1>1, <1>3, <3>1 DEF Calling, Asked
    <3>5. SameKeys => SameKeys'
      BY <1>1, Ends DEF SameKeys
    <3>6. Opening'
      BY <1>1, <2>1, <3>3, <3>4, <3>5 DEF Opening
    <3> QED
      BY <3>6 DEF Control
  <2>2. CASE Offered(n)
    <3>1. PICK h, r \in Ids :
             /\ c[m].key = <<h, r>> /\ Asked(n, h)
             /\ \/ chan[n] = <<>>
                \/ chan[n] = <<Response(h, r, <<h, r>>)>>
                \/ /\ n < m
                   /\ \E g \in Ids : \/ chan[n] = <<Hello(g)>>
                                     \/ chan[n] = <<Hello(g), Response(h, r, <<h, r>>)>>
      BY <2>2 DEF Offered
    <3>2. chan'[n] = <<>> \/ chan'[n] = <<Response(h, r, <<h, r>>)>>
      <4>1. CASE chan[n] = <<Response(h, r, <<h, r>>)>>
        BY <1>3, <4>1, Short
      <4>2. ASSUME NEW g \in Ids, chan[n] = <<Hello(g)>> PROVE chan'[n] = <<>>
        BY <1>3, <4>2, Short
      <4>3. ASSUME NEW g \in Ids, chan[n] = <<Hello(g), Response(h, r, <<h, r>>)>>
            PROVE  chan'[n] = <<Response(h, r, <<h, r>>)>>
        BY <1>3, <4>3, Short
      <4> QED
        BY <3>1, <4>1, <4>2, <4>3
    <3>3. Asked(n, h)'
      BY <3>1 DEF Asked
    <3>4. /\ c'[n].hs = "hello_sent" /\ c'[m].hs = "wait_confirm" /\ chan'[m] = <<>>
          /\ c'[m].saved = c'[m].key /\ ~c'[m].init /\ c'[m].key = <<h, r>>
      BY <1>1, <1>3, <2>2, <3>1 DEF Offered
    <3>5. Offered(n)'
      BY <3>2, <3>3, <3>4 DEF Offered
    <3> QED
      BY <3>5 DEF Control
  <2>3. CASE Sealed(m)
    <3>1. status[n] = "kicked"
      BY <1>1, <2>3 DEF Sealed
    <3>2. \/ chan'[n] = <<>>
          \/ c[m].hs = "hello_sent" /\ \E h \in Ids : Asked(m, h) /\ chan'[n] = <<Hello(h)>>
      <4>1. CASE chan[n] = <<Confirm(c[n].key)>>
        BY <1>3, <4>1, Short
      <4>2. ASSUME NEW h \in Ids, chan[n] = <<Confirm(c[n].key), Hello(h)>>
            PROVE  chan'[n] = <<Hello(h)>>
        BY <1>3, <4>2, Short
      <4>3. ASSUME NEW h \in Ids, chan[n] = <<Hello(h)>> PROVE chan'[n] = <<>>
        BY <1>3, <4>3, Short
      <4> QED
        BY <1>1, <2>3, <4>1, <4>2, <4>3 DEF Sealed
    <3>3. \A h : Asked(m, h) => Asked(m, h)'
      BY DEF Asked
    <3>4. Sealed(m)'
      BY <1>1, <1>3, <2>3, <3>1, <3>2, <3>3 DEF Sealed
    <3> QED
      BY <1>1, <3>4 DEF Control
  <2>4. ~Offered(m) /\ ~Sealed(n) /\ ~Stranded(n) /\ ~Stranded(m)
    BY <1>1 DEF Offered, Sealed, Stranded
  <2> QED
    BY <1>1, <2>1, <2>2, <2>3, <2>4 DEF Control
<1>5. Handling(n)' /\ Handling(m)'
  BY <1>1, <1>2, <1>3 DEF IInv, Handling, WinsTie
<1>6. Fits(n)' /\ Fits(m)'
  BY <1>1, <1>2 DEF IInv, Fits
<1>7. Silenced(n)' /\ Silenced(m)'
  BY <1>1 DEF IInv, Silenced
<1>8. \A p \in Peers : Counted(p)'
  BY <1>1, <1>3, FewerCounted
<1> QED
  BY <1>1, <1>2, <1>3, <1>4, <1>5, <1>6, <1>7, <1>8 DEF IInv, Types

LEMMA IgnoreStep == ASSUME IInv, NEW n \in Peers, RecvIgnore(n) PROVE IInv'
<1>1. c[n].hs # "wait_confirm"
  BY Waiting DEF IInv, RecvIgnore, Ignored, WinsTie
<1>2. c' \in [Peers -> Clients]
  BY DEF IInv, Types, RecvIgnore
<1> QED
  BY <1>1, <1>2, DropStep DEF RecvIgnore, history

LEMMA RefusedStep == ASSUME IInv, NEW n \in Peers, RecvHelloRefused(n) PROVE IInv'
<1>1. status[n] = "kicked" /\ c[n] \in Clients /\ Other(n) # n /\ Other(n) \in Peers
  BY Ends DEF IInv, Types, RecvHelloRefused
<1>2. PICK h \in Ids : c' = [c EXCEPT ![n] = [c[n] EXCEPT !.hello = h]]
  BY <1>1 DEF RecvHelloRefused, Clients, Ids
<1>3. [c[n] EXCEPT !.hello = h] \in Clients
  BY <1>1 DEF Clients
<1>4. /\ c' \in [Peers -> Clients] /\ c'[n] = [c[n] EXCEPT !.hello = h]
      /\ c'[Other(n)] = c[Other(n)]
  BY <1>1, <1>2, <1>3 DEF IInv, Types
<1>5. /\ c'[n].hs = c[n].hs /\ c'[n].key = c[n].key /\ c'[n].saved = c[n].saved
      /\ c'[n].init = c[n].init /\ c'[n].rpc = c[n].rpc /\ c'[n].ids = c[n].ids
      /\ c'[n].calls = c[n].calls /\ c'[n].posts = c[n].posts
      /\ c'[n].wpc = c[n].wpc /\ c'[n].active = c[n].active /\ c'[n].st = c[n].st
  BY <1>1, <1>4 DEF Clients
<1> QED
  BY <1>1, <1>4, <1>5, DropStep DEF RecvHelloRefused, Arrived, history

\* A CONFIRM that is not taken.
LEMMA SpurnedStep ==
    ASSUME IInv, NEW n \in Peers, RecvConfirm(n), chan' = Popped(n),
           ~(status[n] = "active" /\ Head(chan[n]).tr = c[n].saved),
           c' = [c EXCEPT ![n] = sudp_set_state(c[n], "FAILED")]
    PROVE  IInv'
<1>1. c[n] \in Clients /\ Other(n) # n /\ Other(n) \in Peers /\ status[n] \in {"active", "kicked"}
  BY Ends DEF IInv, Types
<1>2. status[n] = "kicked"
  BY <1>1, Waiting DEF IInv, RecvConfirm, Arrived, Ignored
<1>3. [c[n] EXCEPT !.st = "FAILED"] \in Clients
  BY <1>1 DEF Clients
<1>4. /\ c' \in [Peers -> Clients] /\ c'[n] = [c[n] EXCEPT !.st = "FAILED"]
      /\ c'[Other(n)] = c[Other(n)]
  BY <1>1, <1>3 DEF IInv, Types, sudp_set_state
<1>5. /\ c'[n].hs = c[n].hs /\ c'[n].key = c[n].key /\ c'[n].saved = c[n].saved
      /\ c'[n].init = c[n].init /\ c'[n].rpc = c[n].rpc /\ c'[n].ids = c[n].ids
      /\ c'[n].calls = c[n].calls /\ c'[n].posts = c[n].posts /\ c'[n].hello = c[n].hello
      /\ c'[n].wpc = c[n].wpc /\ c'[n].active = c[n].active /\ c'[n].st = "FAILED"
  BY <1>1, <1>4 DEF Clients
<1> QED
  BY <1>2, <1>4, <1>5, DropStep DEF RecvConfirm, Arrived, history

\* A handler begins.
LEMMA BeginStep ==
    ASSUME IInv, NEW n \in Peers, NEW kind \in {"hello", "response", "confirm"},
           chan[n] # <<>>, Head(chan[n]).type = kind,
           kind = "hello" => c[n].hs \in {"idle", "hello_sent"} /\ ~WinsTie(n),
           Received(n), c' = [c EXCEPT ![n] = [c[n] EXCEPT !.rpc = kind]],
           UNCHANGED <<status, chan, cut, losses, failures, est, notified, leaked>>
    PROVE  IInv'
<1> DEFINE m == Other(n)
<1>1. /\ c[n] \in Clients /\ m \in Peers /\ m # n /\ Other(m) = n
      /\ \A p \in Peers : p = n \/ p = m
  BY Ends DEF IInv, Types
<1>2. /\ started' \in [Peers -> BOOLEAN] /\ started'[n] /\ started'[m] = started[m]
  BY <1>1 DEF IInv, Types, Received
<1>3. [c[n] EXCEPT !.rpc = kind] \in Clients
  BY <1>1 DEF Clients
<1>4. c' \in [Peers -> Clients] /\ c'[n] = [c[n] EXCEPT !.rpc = kind] /\ c'[m] = c[m]
  BY <1>1, <1>3 DEF IInv, Types
<1>5. /\ c'[n].hs = c[n].hs /\ c'[n].key = c[n].key /\ c'[n].saved = c[n].saved
      /\ c'[n].init = c[n].init /\ c'[n].rpc = kind /\ c'[n].ids = c[n].ids
      /\ c'[n].calls = c[n].calls /\ c'[n].posts = c[n].posts /\ c'[n].hello = c[n].hello
      /\ c'[n].wpc = c[n].wpc /\ c'[n].active = c[n].active /\ c'[n].st = c[n].st
  BY <1>1, <1>4 DEF Clients
<1>6. Control'
  <2>1. Untouched
    BY <1>1, <1>4, <1>5 DEF Untouched
  <2> QED
    BY <2>1, UntouchedControl DEF IInv
<1>7. Handling(n)' /\ Handling(m)'
  BY <1>1, <1>2, <1>4, <1>5 DEF IInv, Handling, WinsTie
<1>8. Fits(n)' /\ Fits(m)'
  BY <1>1, <1>2, <1>4, <1>5 DEF IInv, Fits
<1>9. Silenced(n)' /\ Silenced(m)'
  BY <1>1, <1>4, <1>5 DEF IInv, Silenced
<1>10. Counted(n)' /\ Counted(m)'
  <2>1. /\ Checked(n)' = Checked(n) /\ Checked(m)' = Checked(m)
        /\ Pending(n)' = Pending(n) /\ Pending(m)' = Pending(m)
    BY <1>4, <1>5 DEF Checked, Pending
  <2> QED
    BY <1>1, <1>4, <1>5, <2>1 DEF IInv, Counted
<1> QED
  BY <1>1, <1>2, <1>4, <1>6, <1>7, <1>8, <1>9, <1>10 DEF IInv, Types

LEMMA TakeStep ==
    ASSUME IInv, NEW n \in Peers, RecvHello(n) \/ RecvResponse(n) \/ RecvConfirm(n)
    PROVE  IInv'
<1>1. CASE RecvHello(n)
  <2>1. c[n].hs \in {"idle", "hello_sent"} /\ ~WinsTie(n)
    <3> DEFINE m == Other(n)
    <3>1. m \in Peers /\ m # n /\ Other(m) = n /\ \A p \in Peers : p = n \/ p = m
      BY Ends
    <3>2. chan[n] # <<>> /\ Head(chan[n]).type = "hello" /\ status[n] = "active" /\ ~Ignored(n)
      BY <1>1 DEF RecvHello, Arrived
    <3>3. c[n].hs # "wait_confirm"
      BY <3>2, Waiting, Kinds DEF IInv
    <3>4. c[n].hs # "done"
      BY <3>1, <3>2 DEF IInv, Control, Opening, Offered, Sealed, Stranded
    <3>5. c[n].hs \in {"none", "idle", "hello_sent", "wait_confirm", "done"}
      BY DEF IInv, Types, Clients
    <3> QED
      BY <3>2, <3>3, <3>4, <3>5 DEF Ignored
  <2>2. c' = [c EXCEPT ![n] = [c[n] EXCEPT !.rpc = "hello"]]
    BY <1>1 DEF RecvHello
  <2> QED
    BY <1>1, <2>1, <2>2, BeginStep DEF RecvHello, Arrived, history
<1>2. CASE RecvResponse(n)
  <2>1. c' = [c EXCEPT ![n] = [c[n] EXCEPT !.rpc = "response"]]
    BY <1>2 DEF RecvResponse
  <2> QED
    BY <1>2, <2>1, BeginStep DEF RecvResponse, Arrived, history
<1>3. CASE RecvConfirm(n)
  <2>1. CASE /\ c' = [c EXCEPT ![n] = [c[n] EXCEPT !.rpc = "confirm"]]
             /\ UNCHANGED chan
    BY <1>3, <2>1, BeginStep DEF RecvConfirm, Arrived, history
  <2>2. CASE /\ ~(status[n] = "active" /\ Head(chan[n]).tr = c[n].saved)
             /\ c' = [c EXCEPT ![n] = sudp_set_state(c[n], "FAILED")]
             /\ chan' = Popped(n)
    BY <1>3, <2>2, SpurnedStep
  <2> QED
    BY <1>3, <2>1, <2>2 DEF RecvConfirm
<1> QED
  BY <1>1, <1>2, <1>3

-----------------------------------------------------------------------------
(***************************************************************************)
(* The handlers end.                                                       *)
(***************************************************************************)
\* The HELLO is answered: the responder waits for the CONFIRM.
LEMMA AnswerStep == ASSUME IInv, NEW n \in Peers, FinishHello(n) PROVE IInv'
<1>0. PICK h, r : h = Head(chan[n]).hello /\ r = NextId(n)
  OBVIOUS
<1> DEFINE m == Other(n)
           msg == Response(h, r, <<h, r>>)
<1>1. /\ Types /\ Control /\ c[n] \in Clients /\ DOMAIN c = Peers
      /\ m \in Peers /\ m # n /\ Other(m) = n /\ \A p \in Peers : p = n \/ p = m
  BY Ends DEF IInv, Types
<1>2. /\ c[n].rpc = "hello" /\ chan[n] # <<>> /\ Head(chan[n]).type = "hello" /\ started[n]
      /\ c[n].hs \in {"idle", "hello_sent"} /\ ~WinsTie(n)
      /\ UNCHANGED <<status, started, cut, losses, est, notified, leaked>>
  BY <1>1 DEF FinishHello, IInv, Handling, history
\* It came from an end that waits for the answer.
<1>3. /\ Opening /\ c[m].hs = "hello_sent" /\ chan[n] = <<Hello(h)>> /\ h \in Ids /\ Asked(m, h)
      /\ chan[m] = <<>> \/ (m < n /\ \E g \in Ids : chan[m] = <<Hello(g)>>)
  <2>1. ~Offered(m) /\ ~Sealed(n) /\ ~Sealed(m) /\ ~Stranded(n) /\ ~Stranded(m)
    BY <1>1, <1>2 DEF Offered, Sealed, Stranded
  <2>2. ~Offered(n)
    <3> SUFFICES ASSUME Offered(n) PROVE FALSE
      OBVIOUS
    <3>1. ~(n < m)
      BY <1>2 DEF WinsTie, Offered
    <3>2. PICK x, y \in Ids : chan[n] = <<Response(x, y, <<x, y>>)>>
      BY <1>2, <3>1 DEF Offered
    <3>3. Head(chan[n]).type = "response"
      BY <3>2, Short, Kinds
    <3> QED
      BY <1>2, <3>3
  <2>3. Opening
    BY <1>1, <2>1, <2>2 DEF Control
  <2>4. Calling(m) /\ Calling(n)
    BY <1>1, <2>3 DEF Opening
  <2>5. c[m].hs = "hello_sent"
    BY <1>1, <1>2, <2>4 DEF Calling
  <2>6. PICK g \in Ids : chan[n] = <<Hello(g)>> /\ Asked(m, g)
    BY <1>1, <1>2, <2>4 DEF Calling
  <2>7. g = h
    BY <1>0, <2>6, Short, Kinds
  <2>8. c[n].hs = "hello_sent" => m < n
    BY <1>1, <1>2, Ends DEF WinsTie
  <2>9. chan[m] = <<>> \/ (m < n /\ \E k \in Ids : chan[m] = <<Hello(k)>>)
    BY <2>4, <2>8 DEF Calling
  <2> QED
    BY <2>3, <2>5, <2>6, <2>7, <2>9
<1>4. /\ c[n].calls \in Nat /\ c[n].posts \in Nat /\ c[n].ids \in Nat
      /\ c[m].calls \in Nat /\ c[m].posts \in Nat /\ c[m].ids \in Nat
      /\ c[n].calls <= MaxConnects /\ c[m].calls <= MaxConnects /\ MaxConnects \in Nat
      /\ Checked(n) \in {0, 1} /\ Checked(m) \in {0, 1} /\ Pending(n) = 1 /\ Pending(m) \in {0, 1}
  <2>1. Pending(n) = 1
    <3>1. 1 \in DOMAIN chan[n] /\ chan[n][1] = Hello(h)
      BY <1>3
    <3> QED
      BY <3>1, Kinds DEF Pending
  <2> QED
    BY <1>1, <2>1, Fields
<1>5. /\ c[n].posts + Checked(n) <= c[n].calls /\ c[m].posts + Checked(m) <= c[m].calls
      /\ c[n].ids + c[n].posts + Checked(n) + c[m].posts + Checked(m) + 1
           <= c[n].calls + c[m].calls
      /\ c[m].ids + c[m].posts + Checked(m) + c[n].posts + Checked(n) + Pending(m)
           <= c[m].calls + c[n].calls
  BY <1>1, <1>4 DEF IInv, Counted
<1>6. r \in Ids /\ c[n].ids + 1 \in 0 .. 2 * MaxConnects /\ <<h, r>> \in Keys
  <2>1. c[n].ids + 1 <= 2 * MaxConnects
    BY <1>4, <1>5
  <2>2. c[n].ids + 1 \in 1 .. 2 * MaxConnects
    BY <1>4, <2>1
  <2>3. r \in Ids
    BY <1>0, <2>2, Ends DEF NextId, Ids
  <2> QED
    BY <1>3, <2>2, <2>3 DEF Keys
<1>7. /\ c'[m] = c[m] /\ c' \in [Peers -> Clients] /\ c'[n].hs = "wait_confirm"
      /\ c'[n].key = <<h, r>> /\ c'[n].saved = <<h, r>> /\ ~c'[n].init /\ c'[n].rpc = "idle"
      /\ c'[n].calls = c[n].calls /\ c'[n].posts = c[n].posts /\ c'[n].ids = c[n].ids + 1
      /\ c'[n].wpc = c[n].wpc /\ c'[n].hello = c[n].hello
      /\ c'[n].st = "ESTABLISHED" => c[n].st = "ESTABLISHED"
  <2> DEFINE a == Answered(n, h, r)
  <2>1. a = [c[n] EXCEPT !.active = TRUE, !.init = FALSE, !.key = <<h, r>>, !.ids = c[n].ids + 1,
                 !.deadline = IF c[n].deadline = "unset" THEN "set" ELSE c[n].deadline,
                 !.saved = <<h, r>>, !.hs = "wait_confirm", !.rpc = "idle"]
    BY <1>1, <1>2 DEF Answered, Clients
  <2>2. a \in Clients
    BY <1>1, <1>6, <2>1 DEF Clients
  <2>3. /\ a.hs = "wait_confirm" /\ a.key = <<h, r>> /\ a.saved = <<h, r>> /\ ~a.init
        /\ a.rpc = "idle" /\ a.calls = c[n].calls /\ a.posts = c[n].posts
        /\ a.ids = c[n].ids + 1 /\ a.wpc = c[n].wpc /\ a.hello = c[n].hello /\ a.st = c[n].st
    BY <1>1, <2>1 DEF Clients
  <2>4. \/ c' = [c EXCEPT ![n] = a]
        \/ c' = [c EXCEPT ![n] = [a EXCEPT !.st = "FAILED"]]
    BY <1>0 DEF FinishHello, Reply, sudp_set_state
  <2> HIDE DEF a
  <2>5. CASE c' = [c EXCEPT ![n] = a]
    BY <1>1, <2>2, <2>3, <2>5 DEF Types
  <2>6. CASE c' = [c EXCEPT ![n] = [a EXCEPT !.st = "FAILED"]]
    <3>1. [a EXCEPT !.st = "FAILED"] \in Clients
      BY <2>2 DEF Clients
    <3>2. c'[n] = [a EXCEPT !.st = "FAILED"] /\ c'[m] = c[m] /\ c' \in [Peers -> Clients]
      BY <1>1, <2>6, <3>1 DEF Types
    <3> QED
      BY <2>2, <2>3, <3>2 DEF Clients
  <2> QED
    BY <2>4, <2>5, <2>6
<1>8. /\ chan' = [p \in Peers |-> chan'[p]] /\ chan'[n] = <<>>
      /\ chan'[m] = chan[m] \/ chan'[m] = Append(chan[m], msg)
      /\ failures' \in 0 .. MaxFailures
  <2> DEFINE sent == Sent(m, msg)
  <2>1. Answered(n, h, r).key = <<h, r>> /\ Answered(n, h, r).saved = <<h, r>>
    BY <1>1, <1>2 DEF Answered, Clients
  <2>2. Tail(chan[n]) = <<>>
    BY <1>3, Short
  <2>3. CASE chan' = [sent EXCEPT ![n] = Tail(chan[n])] /\ SendWorks
    <3>1. /\ sent = [p \in Peers |-> sent[p]]
          /\ sent[n] = chan[n]
          /\ sent[m] = chan[m] \/ sent[m] = Append(chan[m], msg)
      BY <1>1, SentTo
    <3> HIDE DEF sent, msg
    <3>2. DOMAIN sent = Peers
      BY <3>1
    <3>3. chan' = [sent EXCEPT ![n] = <<>>]
      BY <2>2, <2>3
    <3>4. chan' = [p \in Peers |-> chan'[p]]
      BY <3>2, <3>3
    <3>5. chan'[n] = <<>> /\ chan'[m] = sent[m]
      BY <1>1, <3>2, <3>3
    <3> QED
      BY <1>1, <2>3, <3>1, <3>4, <3>5 DEF Types, SendWorks
  <2>4. CASE chan' = Popped(n) /\ SendFails
    <3>1. DOMAIN chan = Peers /\ chan' = [chan EXCEPT ![n] = <<>>]
      BY <1>1, <2>2, <2>4 DEF Types, Popped
    <3>2. chan' = [p \in Peers |-> chan'[p]] /\ chan'[n] = <<>> /\ chan'[m] = chan[m]
      BY <1>1, <3>1
    <3>3. failures' \in 0 .. MaxFailures
      BY <1>1, <2>4, HandshakeAssumption DEF Types, SendFails
    <3> QED
      BY <3>2, <3>3
  <2>5. sent[n] = chan[n] /\ <<h, r>>[1] = h /\ <<h, r>>[2] = r
    BY <1>1, SentTo
  <2>6. \/ chan' = [sent EXCEPT ![n] = Tail(sent[n])] /\ SendWorks
        \/ chan' = Popped(n) /\ SendFails
    BY <1>0, <2>1, <2>5 DEF FinishHello, Reply
  <2> QED
    BY <2>3, <2>4, <2>5, <2>6
<1>9. Offered(m)'
  <2>1. \/ chan'[m] = <<>>
        \/ chan'[m] = <<msg>>
        \/ m < n /\ \E g \in Ids : chan'[m] = <<Hello(g)>> \/ chan'[m] = <<Hello(g), msg>>
    <3>1. CASE chan[m] = <<>>
      BY <1>8, <3>1, Short
    <3>2. ASSUME NEW g \in Ids, m < n, chan[m] = <<Hello(g)>>
          PROVE  chan'[m] = <<Hello(g)>> \/ chan'[m] = <<Hello(g), msg>>
      BY <1>8, <3>2, Short
    <3> QED
      BY <1>3, <3>1, <3>2
  <2>2. Asked(m, h)'
    BY <1>2, <1>3, <1>7 DEF Asked
  <2>3. c'[m].hs = "hello_sent"
    BY <1>3, <1>7
  <2> QED
    BY <1>1, <1>3, <1>6, <1>7, <1>8, <2>1, <2>2, <2>3 DEF Offered
<1>10. Handling(n)' /\ Handling(m)'
  <2>1. chan[m] # <<>> => chan'[m] # <<>> /\ Head(chan'[m]) = Head(chan[m])
    BY <1>3, <1>8, Short
  <2>2. Handling(m)'
    BY <1>1, <1>2, <1>7, <2>1 DEF IInv, Handling, WinsTie
  <2>3. Handling(n)'
    BY <1>7 DEF Handling
  <2> QED
    BY <2>2, <2>3
<1>11. Fits(n)' /\ Fits(m)'
  BY <1>1, <1>2, <1>7 DEF IInv, Fits
<1>12. Silenced(n)' /\ Silenced(m)'
  BY <1>1, <1>2, <1>7 DEF IInv, Silenced
<1>13. Counted(n)' /\ Counted(m)'
  <2>1. Pending(n)' = 0 /\ Checked(n)' = Checked(n) /\ Checked(m)' = Checked(m)
    BY <1>7, <1>8 DEF Pending, Checked
  <2>2. Pending(m)' <= Pending(m)
    <3>1. CASE chan[m] = <<>>
      <4>1. chan'[m] = <<>> \/ chan'[m] = <<msg>>
        BY <1>8, <3>1, Short
      <4>2. ~\E k \in DOMAIN chan'[m] : chan'[m][k].type = "hello"
        BY <4>1, Kinds
      <4> QED
        BY <4>2 DEF Pending
    <3>2. ASSUME NEW g \in Ids, chan[m] = <<Hello(g)>> PROVE Pending(m) = 1
      <4>1. 1 \in DOMAIN chan[m] /\ chan[m][1] = Hello(g)
        BY <3>2
      <4> QED
        BY <4>1, Kinds DEF Pending
    <3>3. Pending(m)' \in {0, 1}
      BY DEF Pending
    <3> QED
      BY <1>3, <3>1, <3>2, <3>3
  <2>3. Pending(m)' \in {0, 1}
    BY DEF Pending
  <2>4. Counted(n)'
    BY <1>1, <1>4, <1>5, <1>7, <2>1 DEF Counted
  <2>5. c[m].ids + c[m].posts + Checked(m) + c[n].posts + Checked(n) + Pending(m)'
           <= c[m].calls + c[n].calls
    <3> DEFINE others == c[m].ids + c[m].posts + Checked(m) + c[n].posts + Checked(n)
               total == c[m].calls + c[n].calls
    <3>1. others \in Int /\ total \in Int /\ Pending(m) \in Int /\ Pending(m)' \in Int
      BY <1>4, <2>3
    <3>2. others + Pending(m) <= total
      BY <1>5
    <3> HIDE DEF others, total
    <3>3. others + Pending(m)' <= total
      BY <2>2, <3>1, <3>2
    <3> QED
      BY <3>3 DEF others, total
  <2>6. Counted(m)'
    BY <1>1, <1>5, <1>7, <2>1, <2>5 DEF Counted
  <2> QED
    BY <2>4, <2>6
<1> QED
  BY <1>1, <1>2, <1>7, <1>8, <1>9, <1>10, <1>11, <1>12, <1>13 DEF IInv, Types, Control

\* The RESPONSE is taken: the initiator is done, unless its CONFIRM finds no room.
LEMMA SealStep == ASSUME IInv, NEW n \in Peers, FinishResponse(n) PROVE IInv'
<1>0. PICK tr : tr = Head(chan[n]).tr
  OBVIOUS
<1> DEFINE m == Other(n)
           msg == Confirm(tr)
<1>1. /\ Types /\ Control /\ c[n] \in Clients /\ DOMAIN c = Peers /\ DOMAIN est = Peers
      /\ m \in Peers /\ m # n /\ Other(m) = n /\ \A p \in Peers : p = n \/ p = m
  BY Ends DEF IInv, Types
<1>2. /\ c[n].rpc = "response" /\ chan[n] # <<>> /\ Head(chan[n]).type = "response"
      /\ UNCHANGED <<status, started, cut, losses, notified, leaked>>
  BY DEF FinishResponse, IInv, Handling
<1>3. /\ Offered(n) /\ chan[m] = <<>> /\ tr = c[m].key /\ tr \in Keys
      /\ Tail(chan[n]) = <<>>
  <2>1. ~Offered(m) /\ ~Sealed(n) /\ ~Stranded(n) /\ ~Stranded(m)
    BY <1>1, <1>2 DEF Offered, Sealed, Stranded
  <2>2. ~Opening
    <3> SUFFICES ASSUME Opening PROVE FALSE
      OBVIOUS
    <3>1. PICK h \in Ids : chan[n] = <<Hello(h)>>
      BY <1>1, <1>2 DEF Opening, Calling
    <3> QED
      BY <1>2, <3>1, Short, Kinds
  <2>3. ~Sealed(m)
    <3> SUFFICES ASSUME Sealed(m) PROVE FALSE
      OBVIOUS
    <3>1. c[n].hs = "wait_confirm"
      BY <1>1 DEF Sealed
    <3> QED
      BY <1>1, <1>2, <3>1, Waiting
  <2>4. Offered(n)
    BY <1>1, <2>1, <2>2, <2>3 DEF Control
  <2>5. PICK h, r \in Ids :
           /\ c[m].key = <<h, r>>
           /\ \/ chan[n] = <<Response(h, r, <<h, r>>)>>
              \/ \E g \in Ids : \/ chan[n] = <<Hello(g)>>
                                \/ chan[n] = <<Hello(g), Response(h, r, <<h, r>>)>>
    BY <1>2, <2>4 DEF Offered
  <2>6. chan[n] = <<Response(h, r, <<h, r>>)>>
    <3>1. ASSUME NEW g \in Ids,
                 \/ chan[n] = <<Hello(g)>>
                 \/ chan[n] = <<Hello(g), Response(h, r, <<h, r>>)>>
          PROVE  Head(chan[n]).type = "hello"
      BY <3>1, Short, Kinds
    <3> QED
      BY <1>2, <2>5, <3>1
  <2>7. tr = <<h, r>> /\ Tail(chan[n]) = <<>>
    BY <1>0, <2>6, Short, Kinds
  <2> QED
    BY <2>4, <2>5, <2>7 DEF Offered, Keys
\* What follows when the CONFIRM is queued.
<1>4. CASE /\ SendWorks
           /\ c' = [c EXCEPT ![n] = [c[n] EXCEPT !.key = tr, !.hs = "none", !.rpc = "idle",
                                                 !.st = "ESTABLISHED"]]
           /\ chan' = [Sent(m, msg) EXCEPT ![n] = <<>>]
           /\ est' = [est EXCEPT ![n] = est[n] \cup {tr}]
  <2> DEFINE sent == Sent(m, msg)
  <2>1. [c[n] EXCEPT !.key = tr, !.hs = "none", !.rpc = "idle", !.st = "ESTABLISHED"] \in Clients
    BY <1>1, <1>3 DEF Clients
  <2>2. /\ c'[n] = [c[n] EXCEPT !.key = tr, !.hs = "none", !.rpc = "idle", !.st = "ESTABLISHED"]
        /\ c'[m] = c[m] /\ c' \in [Peers -> Clients]
    BY <1>1, <1>4, <2>1 DEF Types
  <2>3. /\ c'[n].hs = "none" /\ c'[n].key = tr /\ c'[n].rpc = "idle" /\ c'[n].init = c[n].init
        /\ c'[n].ids = c[n].ids /\ c'[n].calls = c[n].calls /\ c'[n].posts = c[n].posts
        /\ c'[n].wpc = c[n].wpc
    BY <1>1, <2>2 DEF Clients
  <2>4. /\ sent = [p \in Peers |-> sent[p]]
        /\ (sent[m] = chan[m] /\ cut[m]) \/ sent[m] = Append(chan[m], msg)
    BY <1>1, SentTo
  <2>5. chan' = [sent EXCEPT ![n] = <<>>]
    BY <1>4
  <2> HIDE DEF sent, msg
  <2>6. DOMAIN sent = Peers
    BY <2>4
  <2>7. chan' = [p \in Peers |-> chan'[p]] /\ chan'[n] = <<>> /\ chan'[m] = sent[m]
    BY <1>1, <2>5, <2>6
  <2>8. \/ chan'[m] = <<>> /\ cut[m]
        \/ chan'[m] = <<msg>>
    BY <1>3, <2>4, <2>7, Short
  <2>9. est' \in [Peers -> SUBSET Keys] /\ tr \in est'[n] /\ est'[m] = est[m]
        /\ est[n] \subseteq est'[n]
    BY <1>1, <1>3, <1>4 DEF Types
  <2>10. Sealed(n)'
    <3>1. c[n].hs = "hello_sent" /\ c[n].init
      BY <1>3 DEF Offered, IInv, Fits
    <3>2. c'[m].hs = "wait_confirm" /\ c'[m].key = tr /\ c'[m].saved = tr /\ ~c'[m].init
      BY <1>1, <1>3, <2>2 DEF Offered
    <3>3. \/ chan'[m] = <<>> /\ cut'[m]
          \/ chan'[m] = <<Confirm(c'[m].key)>>
      BY <1>2, <2>8, <3>2 DEF msg
    <3> QED
      BY <2>3, <2>7, <2>9, <3>1, <3>2, <3>3 DEF Sealed
  <2>11. Handling(n)' /\ Handling(m)'
    <3>1. c[m].rpc = "idle"
      BY <1>1, <1>3 DEF IInv, Handling
    <3> QED
      BY <2>2, <2>3, <3>1 DEF Handling
  <2>12. Fits(n)' /\ Fits(m)'
    <3>1. c[n].init /\ c[m].hs = "wait_confirm"
      BY <1>3 DEF Offered, IInv, Fits
    <3> QED
      BY <1>1, <1>2, <2>2, <2>3, <2>9, <3>1 DEF IInv, Fits
  <2>13. Silenced(n)' /\ Silenced(m)'
    <3>1. c[n].hs = "hello_sent"
      BY <1>3 DEF Offered
    <3> QED
      BY <1>1, <1>2, <2>2, <3>1 DEF IInv, Silenced
  <2>14. Counted(n)' /\ Counted(m)'
    <3>1. Pending(m)' = 0 /\ Pending(m) \in {0, 1} /\ Pending(n)' = 0 /\ Pending(n) \in {0, 1}
      <4>1. ~\E k \in DOMAIN chan'[m] : chan'[m][k].type = "hello"
        BY <2>8, Kinds DEF msg
      <4>2. ~\E k \in DOMAIN chan'[n] : chan'[n][k].type = "hello"
        BY <2>7
      <4> QED
        BY <4>1, <4>2 DEF Pending
    <3>2. Checked(n)' = Checked(n) /\ Checked(m)' = Checked(m)
      BY <2>2, <2>3 DEF Checked
    <3>3. /\ c[n].calls \in Nat /\ c[n].posts \in Nat /\ c[n].ids \in Nat
          /\ c[m].calls \in Nat /\ c[m].posts \in Nat /\ c[m].ids \in Nat
          /\ Checked(n) \in {0, 1} /\ Checked(m) \in {0, 1}
      BY <1>1, Fields
    <3>4. Counted(n) /\ Counted(m)
      BY <1>1 DEF IInv
    <3>5. Counted(n)'
      BY <1>1, <2>2, <2>3, <3>1, <3>2, <3>3, <3>4 DEF Counted
    <3>6. Counted(m)'
      BY <1>1, <2>2, <2>3, <3>1, <3>2, <3>3, <3>4 DEF Counted
    <3> QED
      BY <3>5, <3>6
  <2>15. Types'
    BY <1>1, <1>2, <1>4, <2>2, <2>7, <2>9 DEF Types, SendWorks
  <2> QED
    BY <1>1, <2>10, <2>11, <2>12, <2>13, <2>14, <2>15 DEF IInv, Control
\* And when it is refused.
<1>5. CASE /\ SendFails
           /\ c' = [c EXCEPT ![n] = [c[n] EXCEPT !.key = tr, !.hs = "done", !.rpc = "idle",
                                                 !.st = "FAILED"]]
           /\ chan' = [chan EXCEPT ![n] = <<>>]
           /\ est' = est
  <2>1. [c[n] EXCEPT !.key = tr, !.hs = "done", !.rpc = "idle", !.st = "FAILED"] \in Clients
    BY <1>1, <1>3 DEF Clients
  <2>2. /\ c'[n] = [c[n] EXCEPT !.key = tr, !.hs = "done", !.rpc = "idle", !.st = "FAILED"]
        /\ c'[m] = c[m] /\ c' \in [Peers -> Clients]
    BY <1>1, <1>5, <2>1 DEF Types
  <2>3. /\ c'[n].hs = "done" /\ c'[n].rpc = "idle" /\ c'[n].st = "FAILED"
        /\ c'[n].ids = c[n].ids /\ c'[n].calls = c[n].calls /\ c'[n].posts = c[n].posts
        /\ c'[n].wpc = c[n].wpc
    BY <1>1, <2>2 DEF Clients
  <2>4. chan' = [p \in Peers |-> chan'[p]] /\ chan'[n] = <<>> /\ chan'[m] = <<>>
    BY <1>1, <1>3, <1>5 DEF Types
  <2>5. failures' \in 0 .. MaxFailures
    BY <1>1, <1>5, HandshakeAssumption DEF Types, SendFails
  <2>6. c[n].hs = "hello_sent" /\ c[m].hs = "wait_confirm"
    BY <1>3 DEF Offered
  <2>7. Stranded(n)'
    BY <2>2, <2>3, <2>4, <2>6 DEF Stranded
  <2>8. Handling(n)' /\ Handling(m)'
    <3>1. c[m].rpc = "idle"
      BY <1>1, <1>3 DEF IInv, Handling
    <3> QED
      BY <2>2, <2>3, <3>1 DEF Handling
  <2>9. Fits(n)' /\ Fits(m)'
    BY <1>1, <1>2, <2>2, <2>3, <2>6 DEF IInv, Fits
  <2>10. Silenced(n)' /\ Silenced(m)'
    BY <1>1, <1>2, <2>2, <2>6 DEF IInv, Silenced
  <2>11. Counted(n)' /\ Counted(m)'
    <3>1. chan'[n] = Tail(chan[n]) /\ chan'[m] = chan[m]
      BY <1>3, <2>4
    <3> QED
      BY <1>1, <1>2, <2>2, <2>3, <3>1, FewerCounted
  <2>12. Types'
    BY <1>1, <1>2, <1>5, <2>2, <2>4, <2>5 DEF Types
  <2> QED
    BY <1>1, <2>7, <2>8, <2>9, <2>10, <2>11, <2>12 DEF IInv, Control
<1> DEFINE done == [c[n] EXCEPT !.key = tr, !.hs = "done", !.rpc = "idle"]
<1>6. /\ [[done EXCEPT !.hs = "none"] EXCEPT !.st = "ESTABLISHED"]
           = [c[n] EXCEPT !.key = tr, !.hs = "none", !.rpc = "idle", !.st = "ESTABLISHED"]
      /\ [done EXCEPT !.st = "FAILED"]
           = [c[n] EXCEPT !.key = tr, !.hs = "done", !.rpc = "idle", !.st = "FAILED"]
  BY <1>1 DEF Clients
<1>7. Sent(m, msg)[n] = chan[n]
  BY <1>1, SentTo
<1>8. \/ /\ SendWorks
         /\ c' = [c EXCEPT ![n] = [[done EXCEPT !.hs = "none"] EXCEPT !.st = "ESTABLISHED"]]
         /\ chan' = [Sent(m, msg) EXCEPT ![n] = Tail(Sent(m, msg)[n])]
         /\ est' = [est EXCEPT ![n] = est[n] \cup {tr}]
      \/ /\ SendFails
         /\ c' = [c EXCEPT ![n] = [done EXCEPT !.st = "FAILED"]]
         /\ chan' = [chan EXCEPT ![n] = Tail(chan[n])]
         /\ est' = est
  BY <1>0 DEF FinishResponse, sudp_set_state, Popped
<1> HIDE DEF done, msg
<1> QED
  BY <1>3, <1>4, <1>5, <1>6, <1>7, <1>8

\* The CONFIRM is taken: both ends hold the keys.
LEMMA ConfirmStep == ASSUME IInv, NEW n \in Peers, FinishConfirm(n) PROVE IInv'
<1> DEFINE m == Other(n)
<1>1. /\ Types /\ Control /\ c[n] \in Clients /\ DOMAIN c = Peers /\ DOMAIN est = Peers
      /\ m \in Peers /\ m # n /\ Other(m) = n /\ \A p \in Peers : p = n \/ p = m
  BY Ends DEF IInv, Types
<1>2. /\ c[n].rpc = "confirm" /\ chan[n] # <<>> /\ Head(chan[n]).type = "confirm" /\ started[n]
      /\ UNCHANGED <<status, started, cut, losses, failures, notified, leaked>>
  BY DEF FinishConfirm, IInv, Handling
<1>3. /\ Sealed(m) /\ chan[m] = <<>> /\ c[n].key \in est[m]
      /\ \/ Tail(chan[n]) = <<>>
         \/ c[m].hs = "hello_sent" /\ \E h \in Ids : Asked(m, h) /\ Tail(chan[n]) = <<Hello(h)>>
  <2>1. ~Offered(m) /\ ~Sealed(n) /\ ~Stranded(n) /\ ~Stranded(m)
    BY <1>1, <1>2 DEF Offered, Sealed, Stranded
  <2>2. ~Opening
    <3> SUFFICES ASSUME Opening PROVE FALSE
      OBVIOUS
    <3>1. PICK h \in Ids : chan[n] = <<Hello(h)>>
      BY <1>1, <1>2 DEF Opening, Calling
    <3> QED
      BY <1>2, <3>1, Short, Kinds
  <2>3. ~Offered(n)
    <3> SUFFICES ASSUME Offered(n) PROVE FALSE
      OBVIOUS
    <3>1. PICK h, r \in Ids :
             \/ chan[n] = <<Response(h, r, <<h, r>>)>>
             \/ \E g \in Ids : \/ chan[n] = <<Hello(g)>>
                               \/ chan[n] = <<Hello(g), Response(h, r, <<h, r>>)>>
      BY <1>2 DEF Offered
    <3> QED
      BY <1>2, <3>1, Short, Kinds
  <2>4. Sealed(m)
    BY <1>1, <2>1, <2>2, <2>3 DEF Control
  <2>5. chan[m] = <<>> /\ c[n].key \in est[m]
    BY <1>1, <2>4 DEF Sealed
  <2>6. CASE chan[n] = <<Confirm(c[n].key)>>
    BY <2>4, <2>5, <2>6, Short
  <2>7. ASSUME NEW h \in Ids, chan[n] = <<Confirm(c[n].key), Hello(h)>>
        PROVE  Tail(chan[n]) = <<Hello(h)>>
    BY <2>7, Short
  <2>8. ASSUME NEW h \in Ids, chan[n] = <<Hello(h)>> PROVE FALSE
    BY <1>2, <2>8, Short, Kinds
  <2> QED
    BY <1>1, <1>2, <2>4, <2>5, <2>6, <2>7, <2>8 DEF Sealed
<1>4. c' = [c EXCEPT ![n] = [c[n] EXCEPT !.rpc = "idle", !.hs = "none", !.st = "ESTABLISHED"]]
  BY <1>1 DEF FinishConfirm, sudp_set_state, Clients
<1>5. [c[n] EXCEPT !.rpc = "idle", !.hs = "none", !.st = "ESTABLISHED"] \in Clients
  BY <1>1 DEF Clients
<1>6. /\ c'[n] = [c[n] EXCEPT !.rpc = "idle", !.hs = "none", !.st = "ESTABLISHED"]
      /\ c'[m] = c[m] /\ c' \in [Peers -> Clients]
  BY <1>1, <1>4, <1>5 DEF Types
<1>7. /\ c'[n].hs = "none" /\ c'[n].key = c[n].key /\ c'[n].rpc = "idle"
      /\ c'[n].init = c[n].init /\ c'[n].ids = c[n].ids /\ c'[n].calls = c[n].calls
      /\ c'[n].posts = c[n].posts /\ c'[n].wpc = c[n].wpc
  BY <1>1, <1>6 DEF Clients
<1>8. chan' = [p \in Peers |-> chan'[p]] /\ chan'[n] = Tail(chan[n]) /\ chan'[m] = chan[m]
  BY <1>1 DEF FinishConfirm, Popped, Types
<1>9. est' \in [Peers -> SUBSET Keys] /\ c[n].key \in est'[n] /\ est'[m] = est[m]
  BY <1>1 DEF FinishConfirm, Types, Clients
<1>10. Opening'
  <2>1. Calling(m)'
    <3>1. \A h : Asked(m, h) => Asked(m, h)'
      BY <1>2, <1>6 DEF Asked
    <3> QED
      BY <1>1, <1>3, <1>6, <1>8, <3>1 DEF Calling
  <2>2. Calling(n)'
    BY <1>3, <1>8 DEF Calling
  <2>3. c'[m].hs \in {"none", "hello_sent"}
    BY <1>3, <1>6 DEF Sealed
  <2>4. c'[n].key = c'[m].key /\ c'[n].init # c'[m].init
    BY <1>1, <1>3, <1>6, <1>7 DEF Sealed
  <2>5. SameKeys'
    BY <1>1, <2>4, Ends DEF SameKeys
  <2> QED
    BY <1>1, <1>7, <2>1, <2>2, <2>3, <2>5 DEF Opening
<1>11. Handling(n)' /\ Handling(m)'
  BY <1>3, <1>1, <1>6, <1>7 DEF IInv, Handling
<1>12. Fits(n)' /\ Fits(m)'
  <2>1. c[m].key = c[n].key
    BY <1>1, <1>3 DEF Sealed
  <2> QED
    BY <1>1, <1>2, <1>3, <1>6, <1>7, <1>9, <2>1 DEF IInv, Fits
<1>13. Silenced(n)' /\ Silenced(m)'
  <2>1. c[n].hs = "wait_confirm"
    BY <1>1, <1>3 DEF Sealed
  <2> QED
    BY <1>1, <1>2, <1>6, <2>1 DEF IInv, Silenced
<1>14. \A p \in Peers : Counted(p)'
  <2>1. \A p \in Peers : /\ c'[p].ids = c[p].ids /\ c'[p].calls = c[p].calls
                          /\ c'[p].posts = c[p].posts /\ c'[p].wpc = c[p].wpc
    BY <1>1, <1>6, <1>7
  <2> QED
    BY <1>2, <1>8, <2>1, FewerCounted
<1>15. Types'
  BY <1>1, <1>2, <1>6, <1>8, <1>9 DEF Types
<1> QED
  BY <1>1, <1>10, <1>11, <1>12, <1>13, <1>14, <1>15 DEF IInv, Control

-----------------------------------------------------------------------------
(***************************************************************************)
(* The theorems.                                                           *)
(***************************************************************************)
LEMMA InitIInv == Init => IInv
<1> SUFFICES ASSUME Init PROVE IInv
  OBVIOUS
<1>1. NoId \in Ids /\ NoKey \in Keys
  BY DEF NoId, NoKey, Ids, Keys
<1>2. Client \in Clients
  BY <1>1, HandshakeAssumption DEF Client, Clients
<1>3. Types
  BY <1>2, HandshakeAssumption DEF Init, Types
<1>4. \A n \in Peers : c[n] = Client /\ chan[n] = <<>>
  BY DEF Init
<1>5. Opening
  BY <1>4, Ends DEF Opening, Calling, Client
<1>6. ASSUME NEW n \in Peers PROVE Handling(n) /\ Fits(n) /\ Silenced(n) /\ Counted(n)
  <2>1. Handling(n) /\ Fits(n)
    BY <1>4 DEF Client, Handling, Fits
  <2>2. Silenced(n)
    BY DEF Init, Silenced
  <2>3. Counted(n)
    BY <1>4, Ends DEF Counted, Checked, Pending, Client
  <2> QED
    BY <2>1, <2>2, <2>3
<1> QED
  BY <1>3, <1>5, <1>6 DEF IInv, Control

LEMMA NextIInv == IInv /\ [Next]_vars => IInv'
<1> SUFFICES ASSUME IInv, [Next]_vars PROVE IInv'
  OBVIOUS
<1>1. CASE UNCHANGED vars
  <2>1. Types'
    BY <1>1 DEF IInv, Types, vars
  <2>2. Untouched
    BY <1>1 DEF vars, Untouched
  <2>3. ASSUME NEW n \in Peers PROVE Handling(n)' /\ Fits(n)' /\ Silenced(n)' /\ Counted(n)'
    BY <1>1 DEF IInv, vars, Handling, WinsTie, Fits, Silenced, Counted, Checked, Pending
  <2> QED
    BY <2>1, <2>2, <2>3, UntouchedControl DEF IInv
<1>2. ASSUME NEW n \in Peers, SendWorker(n) PROVE IInv'
  BY <1>2, LocalStep, HelloStep DEF SendWorker
<1>3. ASSUME NEW n \in Peers, RecvWorker(n) PROVE IInv'
  BY <1>3, IgnoreStep, RefusedStep, TakeStep, AnswerStep, SealStep, ConfirmStep DEF RecvWorker
<1>4. ASSUME NEW n \in Peers, Connect(n) \/ Expire(n) \/ SeeTimeout(n) \/ FailTimeout(n)
      PROVE  IInv'
  BY <1>4, LocalStep
<1>5. ASSUME NEW n \in Peers, Kick(n) \/ NotifyKick(n) \/ SendData(n) \/ RecvData(n)
      PROVE  IInv'
  BY <1>5, GateStep
<1>6. ASSUME NEW n \in Peers, Lose(n) PROVE IInv'
  BY <1>6, LoseStep
<1> QED
  BY <1>1, <1>2, <1>3, <1>4, <1>5, <1>6 DEF Next

\* The invariant holds for any number of connects, losses and refused sends.
THEOREM Invariance == Spec => []IInv
BY InitIInv, NextIInv, PTL DEF Spec

\* When nobody waits for a message, the keys agree: from the phases of Control.
LEMMA IInvSound == IInv => HandshakeSound
<1> SUFFICES ASSUME IInv PROVE HandshakeSound
  OBVIOUS
<1>1. TypeOK
  <2>1. ASSUME NEW n \in Peers
        PROVE  /\ c[n] \in Clients
               /\ c[n].posts \in 0 .. MaxConnects /\ c[n].calls \in 0 .. MaxConnects
               /\ chan[n] = <<>> => c[n].rpc = "idle"
    BY DEF IInv, Types, Clients, Handling
  <2> QED
    BY <2>1 DEF TypeOK, IInv, Types, Clients
<1>2. Agreement
  <2> SUFFICES ASSUME \A n \in Peers : c[n].st = "ESTABLISHED" PROVE SameKeys
    BY DEF Agreement, SameKeys
  <2>1. \A n \in Peers : c[n].hs = "none"
    BY DEF IInv, Fits
  <2> QED
    BY <2>1, Ends DEF IInv, Control, Opening, Offered, Sealed, Stranded
<1>3. InitiatorFirst
  BY DEF InitiatorFirst, IInv, Fits
<1>4. HandshakesVerify
  <2> SUFFICES ASSUME NEW n \in Peers, chan[n] # <<>>
               PROVE  /\ /\ Head(chan[n]).type = "response"
                         /\ c[n].hs = "hello_sent" /\ status[n] = "active"
                         => Verifies(n)
                      /\ Head(chan[n]).type = "confirm" /\ c[n].hs = "wait_confirm"
                         => Head(chan[n]).tr = c[n].saved
    BY DEF HandshakesVerify
  <2> DEFINE m == Other(n)
  <2>1. m \in Peers /\ m # n /\ Other(m) = n /\ \A p \in Peers : p = n \/ p = m
    BY Ends
  <2>2. ASSUME Head(chan[n]).type = "response", c[n].hs = "hello_sent", status[n] = "active"
        PROVE  Verifies(n)
    <3>1. ~Offered(m) /\ ~Sealed(n) /\ ~Sealed(m) /\ ~Stranded(n) /\ ~Stranded(m)
      BY <2>1, <2>2 DEF Offered, Sealed, Stranded
    <3>2. ~Opening
      <4> SUFFICES ASSUME Opening PROVE FALSE
        OBVIOUS
      <4>1. PICK h \in Ids : chan[n] = <<Hello(h)>>
        BY <2>1 DEF Opening, Calling
      <4> QED
        BY <2>2, <4>1, Short, Kinds
    <3>3. Offered(n)
      BY <2>1, <3>1, <3>2 DEF IInv, Control
    <3>4. PICK h, r \in Ids :
             /\ Asked(n, h)
             /\ \/ chan[n] = <<Response(h, r, <<h, r>>)>>
                \/ \E g \in Ids : \/ chan[n] = <<Hello(g)>>
                                  \/ chan[n] = <<Hello(g), Response(h, r, <<h, r>>)>>
      BY <3>3 DEF Offered
    <3>5. chan[n] = <<Response(h, r, <<h, r>>)>>
      <4>1. ASSUME NEW g \in Ids,
                   \/ chan[n] = <<Hello(g)>>
                   \/ chan[n] = <<Hello(g), Response(h, r, <<h, r>>)>>
            PROVE  Head(chan[n]).type = "hello"
        BY <4>1, Short, Kinds
      <4> QED
        BY <2>2, <3>4, <4>1
    <3>6. h = c[n].hello
      BY <2>2, <3>4 DEF Asked
    <3> QED
      BY <3>5, <3>6, Short, Kinds DEF Verifies
  <2>3. ASSUME Head(chan[n]).type = "confirm", c[n].hs = "wait_confirm"
        PROVE  Head(chan[n]).tr = c[n].saved
    BY <2>3, Waiting DEF IInv
  <2> QED
    BY <2>2, <2>3
<1>5. KickedIsSilent
  BY DEF KickedIsSilent, IInv, Silenced
<1> QED
  BY <1>1, <1>2, <1>3, <1>4, <1>5 DEF HandshakeSound

\* Established clients agree on secret and roles, the responder second; no honest
\* handshake fails a signature check; a settled session that was kicked stays silent
\* (the HELLO, RESPONSE and CONFIRM handlers, the tie-break and the gates of the data path).
THEOREM HandshakeHolds == Spec => []HandshakeSound
BY Invariance, IInvSound, PTL
=============================================================================
