---------------------------- MODULE ClientProofs ----------------------------
(***************************************************************************)
(* What the client promises above the transport, for any number of peers,  *)
(* slots, attesters and addresses: first the peer table (PeerSlots), then  *)
(* the verification of a join (JoinVerify), then the blocklist and the     *)
(* audit log of the bootstrap server (BootServer). Each part names an      *)
(* inductive invariant, PeerInv, JoinInv and BootInv, has one lemma per    *)
(* action that shows that the action keeps it, and ends in the theorem. In *)
(* the first two the invariant has two layers: what holds always, and what *)
(* holds until a connection reports before peer_connect is done with its   *)
(* slot (early) or until two receive threads are inside                    *)
(* gr_join_record_vote at once (overlap).                                  *)
(***************************************************************************)
EXTENDS PeerSlots, JoinVerify, BootServer, FiniteSetTheorems, SequenceTheorems,
        WellFoundedInduction, TLAPS

-----------------------------------------------------------------------------
(***************************************************************************)
(* The peer table.                                                         *)
(***************************************************************************)
Workers == {"sync", "boot"}
Someone == Members \cup {None}
Stages == {0} \cup 0 .. Stuns - 1

Fills == {"create", "dial", "redial", "redialed", "free_refused", "free_redial"}
Frees == {"free_refused", "free_redial", "free_reap", "free_silent", "free_all"}
Calls == {"idle", "connect", "create", "dial", "free_refused"}
SyncHolds == {"reap", "free_reap", "keepalive", "free_silent"}
AppHolds == {"disconnect", "free_all"}
Sync == Calls \cup SyncHolds \cup {"retry", "redial", "redialed", "free_redial", "reaped"}
App == AppHolds \cup {"idle", "send", "closed"}

SlotRecord == [state : {"free", "connecting", "connected", "failed"}, peer : Someone,
               sudp : {None} \cup Conns, stun : Stages]
ConnRecord == [life : {"none", "live", "closing", "freed"}, peer : Someone,
               slot : {None} \cup Slots, told : {"nothing", "established", "failed"}]
ThreadRecord == [pc : Sync \cup App, peer : Someone, slot : {None} \cup Slots,
                 conn : {None} \cup Conns, stun : Stages, scan : Nat]

SlotTypes ==
    /\ slot \in [Slots -> SlotRecord]
    /\ conn \in [Conns -> ConnRecord]
    /\ cb \in [Conns -> {"none", "check", "relay"}]
    /\ lock \in {Unlocked, "sync", "app"}
    /\ th \in [Threads -> ThreadRecord]
    /\ retries \subseteq [peer : Someone, stun : Stages]
    /\ phase \in {"closed", "open", "stopping"} /\ early \in BOOLEAN

\* Where each thread may be, and who holds peer_lock there.
Posts ==
    /\ th["boot"].pc \in Calls /\ th["sync"].pc \in Sync /\ th["app"].pc \in App
    /\ lock = "sync" <=> th["sync"].pc \in SyncHolds
    /\ lock = "app" <=> th["app"].pc \in AppHolds
    /\ th["app"].pc \in AppHolds \cup {"closed"} => At("sync", "idle") /\ At("boot", "idle")
    /\ th["app"].pc \in AppHolds => phase = "stopping"
    /\ phase = "closed" => /\ At("sync", "idle") /\ At("boot", "idle")
                           /\ th["app"].pc \in {"idle", "closed"}
    /\ phase = "open" => th["app"].pc \in {"idle", "send"}
    /\ phase = "stopping" => th["app"].pc \in AppHolds \cup {"idle"}

\* What the threads and the connections are about, and whose the slots are.
Bound ==
    /\ \A x \in Workers : th[x].pc \in Fills \cup {"connect", "retry"} => th[x].peer \in Members
    /\ \A x \in Workers : th[x].pc \in {"connect", "retry"} => th[x].conn = None
    /\ \A x \in Threads : th[x].pc \in Fills \cup Frees => th[x].slot \in Slots
    /\ \A t \in Conns : /\ (conn[t].life = "live" \/ cb[t] # "none") => conn[t].slot \in Slots
                        /\ cb[t] # "none" => conn[t].life # "none"
    /\ \A s \in Slots : slot[s].state = "free" => slot[s].peer = None
    /\ \A s, i \in Slots : s # i /\ slot[s].peer = slot[i].peer => slot[s].peer = None

\* From here on: while no connection has reported too early.
\* A free slot is blank, and a slot in use has a peer and, once it has one, its own connection.
OwnSlots ==
    \A s \in Slots :
        /\ slot[s].state = "free" => slot[s].sudp = None
        /\ slot[s].state # "free" => slot[s].peer \in Members
        /\ slot[s].sudp # None => /\ conn[slot[s].sudp].slot = s
                                  /\ conn[slot[s].sudp].peer = slot[s].peer
                                  /\ conn[slot[s].sudp].life \in {"live", "closing"}

\* A slot that peer_connect fills is nobody else's, and its connection has not reported.
FillsAt(x) ==
    th[x].pc \in Fills =>
        /\ slot[th[x].slot].state = "connecting" /\ slot[th[x].slot].peer = th[x].peer
        /\ th[x].conn # None => conn[th[x].conn].told = "nothing"
        /\ th[x].pc \in {"create", "redial"} =>
              /\ slot[th[x].slot].sudp = None
              /\ th[x].conn # None => /\ conn[th[x].conn].life = "live"
                                      /\ conn[th[x].conn].slot = th[x].slot
                                      /\ conn[th[x].conn].peer = th[x].peer
        /\ th[x].pc \in {"dial", "redialed"} =>
              /\ slot[th[x].slot].sudp = th[x].conn /\ th[x].conn # None
              /\ conn[th[x].conn].life = "live"

FreesAt(x) ==
    th[x].pc \in Frees =>
        /\ slot[th[x].slot].state # "free" /\ slot[th[x].slot].sudp = th[x].conn
        /\ th[x].conn # None => conn[th[x].conn].life = "closing"

Apart ==
    \A x, y \in Threads :
        x # y /\ th[x].pc \in Fills \cup Frees /\ th[y].pc \in Fills \cup Frees
            => th[x].slot # th[y].slot

\* No connection is lost track of.
Tracked ==
    \A t \in Conns :
        /\ conn[t].life = "live" =>
              \/ slot[conn[t].slot].sudp = t
              \/ \E x \in Workers : th[x].pc \in {"create", "redial"} /\ th[x].conn = t
        /\ conn[t].life = "closing" => \E x \in Threads : th[x].pc \in Frees /\ th[x].conn = t
        /\ cb[t] # "none" => conn[t].told # "nothing" /\ conn[t].life \in {"live", "closing"}

\* What yumi_client_destroy has left behind it.
Swept ==
    /\ th["app"].pc \in AppHolds =>
          \A s \in UsedSlots : s > th["app"].scan \/ (At("app", "free_all") /\ s = th["app"].slot)
    /\ At("app", "closed") => UsedSlots = {}

PeerInv ==
    /\ SlotTypes /\ Posts /\ Bound
    /\ ~early => /\ OwnSlots /\ Apart /\ Tracked /\ Swept
                 /\ \A x \in Workers : FillsAt(x)
                 /\ \A x \in Threads : FreesAt(x)
                 /\ misused \subseteq {"sender"}

-----------------------------------------------------------------------------
\* The step is one of the thread x.
Only(x) == /\ th' \in [Threads -> ThreadRecord]
           /\ \A y \in Threads \ {x} : th'[y] = th[y]

\* A thread moves: the others stay, and it is where it went.
LEMMA Turn ==
    ASSUME SlotTypes, NEW x \in Threads, NEW r \in ThreadRecord, th' = [th EXCEPT ![x] = r]
    PROVE  Only(x) /\ th'[x] = r
<1>1. th \in [Threads -> ThreadRecord]
  BY DEF SlotTypes
<1> QED BY <1>1 DEF Only

\* The three forms in which threads move: on to another loop, ...
LEMMA LoopTurn ==
    ASSUME SlotTypes, NEW x \in Threads, NEW p \in Sync \cup App, Loop(x, p)
    PROVE  Only(x) /\ th'[x].pc = p /\ th'[x].scan = 0
<1> DEFINE r == [th[x] EXCEPT !.pc = p, !.scan = 0]
<1>1. th[x] \in ThreadRecord
  BY DEF SlotTypes
<1>2. r \in ThreadRecord /\ r.pc = p /\ r.scan = 0
  BY <1>1 DEF ThreadRecord
<1>3. th' = [th EXCEPT ![x] = r]
  BY DEF Loop
<1> HIDE DEF r
<1> QED BY <1>2, <1>3, Turn

\* ... out of peer_connect or into it with new locals, ...
LEMMA IdleTurn ==
    ASSUME SlotTypes, NEW x \in Threads, NEW p \in Sync \cup App, NEW q \in Someone,
           NEW k \in Stages, NEW t \in {None} \cup Conns, NEW n \in Nat,
           th' = [th EXCEPT ![x] = [pc |-> p, peer |-> q, slot |-> None, conn |-> t,
                                    stun |-> k, scan |-> n]]
    PROVE  Only(x) /\ th'[x].pc = p /\ th'[x].peer = q /\ th'[x].scan = n /\ th'[x].conn = t
<1> DEFINE r == [pc |-> p, peer |-> q, slot |-> None, conn |-> t, stun |-> k, scan |-> n]
<1>1. r \in ThreadRecord /\ r.pc = p /\ r.peer = q /\ r.scan = n /\ r.conn = t
  BY DEF ThreadRecord
<1>2. th' = [th EXCEPT ![x] = r]
  OBVIOUS
<1> HIDE DEF r
<1> QED BY <1>1, <1>2, Turn

\* An idle thread has the locals a thread may have.
LEMMA IdleType == Idle \in ThreadRecord
<1>1. None \in Someone /\ 0 \in Stages /\ "idle" \in Sync \cup App
  BY DEF Someone, Stages, Sync, Calls
<1> QED BY <1>1 DEF Idle, ThreadRecord

\* ... and back to the loop it came from.
LEMMA ReturnTurn ==
    ASSUME SlotTypes, NEW x \in Threads, NEW p \in Sync \cup App, Return(x, p)
    PROVE  Only(x) /\ th'[x].pc = p /\ th'[x].scan = th[x].scan
<1> DEFINE n == th[x].scan
           r == [Idle EXCEPT !.pc = p, !.scan = n]
<1>1. n \in Nat
  BY DEF SlotTypes, ThreadRecord
<1>2. th' = [th EXCEPT ![x] = r]
  BY DEF Return
<1>4. r \in ThreadRecord /\ r.pc = p /\ r.scan = n
  <2> HIDE DEF n
  <2> QED BY <1>1, IdleType DEF ThreadRecord
<1>5. Only(x) /\ th'[x] = r
  <2> HIDE DEF r
  <2> QED BY <1>2, <1>4, Turn
<1> HIDE DEF r
<1> QED BY <1>4, <1>5

\* A client that was just opened satisfies the invariant.
LEMMA PeerInvInit == Init => PeerInv
<1> SUFFICES ASSUME Init PROVE PeerInv
  OBVIOUS
<1> USE DEF Init, FreeSlot, NoConn, Idle
<1>1. SlotTypes
  <2>1. 0 \in Stages /\ None \in Someone /\ "idle" \in Sync \cup App
    BY DEF Stages, Someone, Sync, App, Calls
  <2>2. FreeSlot \in SlotRecord /\ NoConn \in ConnRecord /\ Idle \in ThreadRecord
    BY <2>1 DEF SlotRecord, ConnRecord, ThreadRecord
  <2> HIDE DEF FreeSlot, NoConn, Idle
  <2> QED BY <2>2 DEF SlotTypes
<1>2. \A x \in Threads : th[x].pc = "idle"
  OBVIOUS
<1>3. Posts
  BY <1>2 DEF Posts, Threads, At, Calls, Sync, App, SyncHolds, AppHolds, Unlocked
<1>4. Bound
  BY <1>2 DEF Bound, Fills, Frees, Workers, Threads
<1>5. OwnSlots /\ Apart /\ Tracked
  BY <1>2 DEF OwnSlots, Apart, Tracked, Fills, Frees, Workers, Threads
<1>6. Swept
  BY <1>2 DEF Swept, Threads, AppHolds, UsedSlots, At
<1>7. (\A x \in Workers : FillsAt(x)) /\ (\A x \in Threads : FreesAt(x))
  BY <1>2 DEF FillsAt, FreesAt, Fills, Frees, Workers, Threads
<1> QED BY <1>1, <1>3, <1>4, <1>5, <1>6, <1>7 DEF PeerInv

\* A step of a thread that leaves the slots alone, and has no connection of its own to lose.
LEMMA Passive ==
    ASSUME PeerInv, NEW x \in Threads, Only(x), th[x].pc \notin Frees \cup {"create", "redial"},
           th'[x].pc \notin Fills \cup Frees, UNCHANGED <<slot, conn, cb, early>>,
           lock' \in {Unlocked, "sync", "app"}, phase' \in {"closed", "open", "stopping"},
           retries' \subseteq [peer : Someone, stun : Stages], Posts',
           th'[x].pc \in {"connect", "retry"} => th'[x].peer \in Members /\ th'[x].conn = None,
           ~early => Swept' /\ misused' \subseteq {"sender"}
    PROVE  PeerInv'
<1>1. SlotTypes /\ Posts /\ Bound
  BY DEF PeerInv
<1>2. SlotTypes'
  BY <1>1 DEF SlotTypes, Only
<1>3. Bound'
  BY <1>1 DEF Bound, Only, Workers, Threads
<1>4. ASSUME ~early
      PROVE  /\ OwnSlots' /\ Apart' /\ Tracked' /\ \A y \in Workers : FillsAt(y)'
             /\ \A y \in Threads : FreesAt(y)'
  <2>1. /\ OwnSlots /\ Apart /\ Tracked /\ \A y \in Workers : FillsAt(y)
        /\ \A y \in Threads : FreesAt(y)
    BY <1>4 DEF PeerInv
  <2>2. OwnSlots'
    BY <2>1 DEF OwnSlots
  <2>3. Apart'
    BY <2>1 DEF Apart, Only
  <2>4. Tracked'
    BY <2>1 DEF Tracked, Only, Workers, Threads, Fills
  <2>5. \A y \in Workers : FillsAt(y)'
    BY <2>1 DEF FillsAt, Only, Workers, Threads
  <2>6. \A y \in Threads : FreesAt(y)'
    BY <2>1 DEF FreesAt, Only
  <2> QED BY <2>2, <2>3, <2>4, <2>5, <2>6
<1> QED BY <1>2, <1>3, <1>4 DEF PeerInv

\* What is left unswept does not depend on the workers' threads.
LEMMA SweptAlone ==
    ASSUME Swept, th'["app"] = th["app"], UNCHANGED slot
    PROVE  Swept'
BY DEF Swept, UsedSlots, At

\* A connected slot is not being freed while nobody holds peer_lock, nor while the sync worker
\* pings.
LEMMA LockedOut ==
    ASSUME PeerInv, ~early, lock = Unlocked \/ At("sync", "keepalive"), NEW s \in Slots, Connected(s)
    PROVE  conn[slot[s].sudp].life = "live"
<1>1. Posts /\ OwnSlots /\ Tracked /\ SlotTypes
  BY DEF PeerInv
<1>2. slot[s].sudp \in Conns /\ conn[slot[s].sudp].slot = s
      /\ conn[slot[s].sudp].life \in {"live", "closing"}
  BY <1>1 DEF OwnSlots, Connected, SlotTypes, SlotRecord
<1>3. ASSUME conn[slot[s].sudp].life = "closing" PROVE FALSE
  <2>1. PICK x \in Threads : th[x].pc \in Frees /\ th[x].conn = slot[s].sudp
    BY <1>1, <1>2, <1>3 DEF Tracked
  <2>2. th[x].pc \in {"free_refused", "free_redial"}
    <3>1. CASE x = "sync"
      BY <1>1, <2>1, <3>1 DEF Posts, At, Frees, Sync, SyncHolds, Calls, Unlocked
    <3>2. CASE x = "boot"
      BY <1>1, <2>1, <3>2 DEF Posts, Frees, Calls
    <3>3. CASE x = "app"
      BY <1>1, <2>1, <3>3 DEF Posts, At, Frees, App, AppHolds, SyncHolds, Unlocked
    <3> QED BY <3>1, <3>2, <3>3 DEF Threads
  <2>3. x \in Workers
    BY <1>1, <2>2 DEF Posts, App, AppHolds, Threads, Workers
  <2>4. FillsAt(x) /\ FreesAt(x) /\ th[x].slot \in Slots
    BY <2>1, <2>3 DEF PeerInv, Bound
  <2>5. slot[th[x].slot].state = "connecting" /\ slot[th[x].slot].sudp = slot[s].sudp
    BY <2>1, <2>2, <2>4 DEF FillsAt, FreesAt, Fills, Frees
  <2>6. th[x].slot = s
    BY <1>1, <1>2, <2>4, <2>5 DEF OwnSlots, Connected
  <2> QED BY <2>5, <2>6 DEF Connected
<1> QED BY <1>2, <1>3

\* Using connections that live, or being a sender, adds no misuse to report.
LEMMA UseSafely ==
    ASSUME misused \subseteq {"sender"}, NEW x, NEW ts, Use(x, ts),
           x = "sender" \/ \A t \in ts : conn[t].life = "live"
    PROVE  misused' \subseteq {"sender"}
BY DEF Use

\* Opening, stopping and closing the client.
LEMMA LifeKeeps ==
    ASSUME PeerInv, Start \/ Stop \/ StopWorkers \/ Closed
    PROVE  PeerInv'
<1>1. SlotTypes /\ Posts /\ "app" \in Threads
  BY DEF PeerInv, Threads
<1>2. ~early => Swept /\ misused \subseteq {"sender"}
  BY DEF PeerInv
<1>3. th \in [Threads -> ThreadRecord]
  BY <1>1 DEF SlotTypes
<1>4. CASE Start
  <2>1. /\ phase = "closed" /\ phase' = "open" /\ th["app"].pc = "idle"
        /\ UNCHANGED <<slot, conn, cb, lock, th, retries, early, misused>>
    BY <1>4 DEF Start, start_workers, Idle
  <2>2. Posts'
    BY <1>1, <2>1 DEF Posts, At, AppHolds
  <2>3. Only("app") /\ (Swept => Swept')
    BY <1>3, <2>1, SweptAlone DEF Only
  <2>4. th["app"].pc \notin Fills \cup Frees \cup {"connect", "retry"}
    BY <2>1 DEF Fills, Frees
  <2> QED BY <1>1, <1>2, <2>1, <2>2, <2>3, <2>4, Passive DEF SlotTypes
<1>5. CASE Stop
  <2>1. /\ phase = "open" /\ phase' = "stopping" /\ th["app"].pc = "idle"
        /\ UNCHANGED <<slot, conn, cb, lock, th, retries, early, misused>>
    BY <1>5 DEF Stop, At
  <2>2. Posts'
    BY <1>1, <2>1 DEF Posts, At, AppHolds
  <2>3. Only("app") /\ (Swept => Swept')
    BY <1>3, <2>1, SweptAlone DEF Only
  <2>4. th["app"].pc \notin Fills \cup Frees \cup {"connect", "retry"}
    BY <2>1 DEF Fills, Frees
  <2> QED BY <1>1, <1>2, <2>1, <2>2, <2>3, <2>4, Passive DEF SlotTypes
<1>6. CASE StopWorkers
  <2>1. /\ phase = "stopping" /\ At("app", "idle") /\ At("sync", "idle") /\ At("boot", "idle")
        /\ lock = Unlocked /\ lock' = "app" /\ Loop("app", "disconnect")
        /\ UNCHANGED <<slot, conn, cb, retries, phase, early, misused>>
    BY <1>6 DEF StopWorkers, Joined
  <2>2. "disconnect" \in Sync \cup App
    BY DEF App, AppHolds
  <2>3. Only("app") /\ th'["app"].pc = "disconnect" /\ th'["app"].scan = 0
    BY <1>1, <2>1, <2>2, LoopTurn
  <2>4. th'["sync"] = th["sync"] /\ th'["boot"] = th["boot"]
    BY <2>3 DEF Only, Threads
  <2>5. Posts'
    BY <1>1, <2>1, <2>3, <2>4 DEF Posts, At, AppHolds, SyncHolds, App, Unlocked
  <2>6. Swept'
    BY <2>3, SlotAssumption DEF Swept, UsedSlots, At
  <2>7. /\ th["app"].pc \notin Frees \cup {"create", "redial"}
        /\ th'["app"].pc \notin Fills \cup Frees \cup {"connect", "retry"}
    BY <2>1, <2>3 DEF Fills, Frees, At
  <2> QED BY <1>1, <1>2, <2>1, <2>3, <2>5, <2>6, <2>7, Passive DEF SlotTypes
<1>7. CASE Closed
  <2>1. /\ At("app", "disconnect") /\ NoneIn("app", UsedSlots)
        /\ lock' = Unlocked /\ phase' = "closed" /\ Loop("app", "closed")
        /\ UNCHANGED <<slot, conn, cb, retries, early, misused>>
    BY <1>7 DEF Closed
  <2>2. "closed" \in Sync \cup App
    BY DEF App
  <2>3. Only("app") /\ th'["app"].pc = "closed"
    BY <1>1, <2>1, <2>2, LoopTurn
  <2>4. th'["sync"] = th["sync"] /\ th'["boot"] = th["boot"]
    BY <2>3 DEF Only, Threads
  <2>5. Posts'
    BY <1>1, <2>1, <2>3, <2>4 DEF Posts, At, AppHolds, SyncHolds, App, Unlocked
  <2>6. ASSUME ~early PROVE Swept'
    <3>1. \A s \in UsedSlots : s > th["app"].scan /\ s <= th["app"].scan
      BY <1>2, <2>1, <2>6 DEF Swept, NoneIn, At, AppHolds
    <3>2. th["app"].scan \in Nat
      BY <1>1 DEF SlotTypes, ThreadRecord
    <3>3. UsedSlots \subseteq Nat
      BY SlotAssumption DEF UsedSlots
    <3>4. UsedSlots = {}
      BY <3>1, <3>2, <3>3
    <3> QED BY <2>1, <2>3, <3>4 DEF Swept, UsedSlots, At, AppHolds
  <2>7. /\ th["app"].pc \notin Frees \cup {"create", "redial"}
        /\ th'["app"].pc \notin Fills \cup Frees \cup {"connect", "retry"}
    BY <2>1, <2>3 DEF Fills, Frees, At
  <2> QED BY <1>1, <1>2, <2>1, <2>3, <2>5, <2>6, <2>7, Passive DEF SlotTypes
<1> QED BY <1>4, <1>5, <1>6, <1>7

\* The callers of peer_connect look for work.
LEMMA CallKeeps ==
    ASSUME PeerInv, NEW p \in Members,
           auto_connect_peers(p) \/ boot_handle_conn_req(p)
    PROVE  PeerInv'
<1>1. SlotTypes /\ Posts /\ (~early => Swept /\ misused \subseteq {"sender"})
  BY DEF PeerInv
<1>2. PICK x \in Workers :
        /\ phase = "open" /\ th[x].pc = "idle"
        /\ th' = [th EXCEPT ![x] = [Idle EXCEPT !.pc = "connect", !.peer = p]]
        /\ UNCHANGED <<slot, conn, cb, lock, retries, phase, early, misused>>
  BY DEF auto_connect_peers, boot_handle_conn_req, At, Workers
<1> DEFINE r == [Idle EXCEPT !.pc = "connect", !.peer = p]
<1>3. r \in ThreadRecord /\ r.pc = "connect" /\ r.peer = p /\ r.conn = None
  <2>1. "connect" \in Sync \cup App /\ p \in Someone
    BY DEF Sync, Calls, Someone
  <2> QED BY <2>1, IdleType DEF ThreadRecord, Idle
<1>4. Only(x) /\ th'[x] = r
  <2> HIDE DEF r
  <2>1. th' = [th EXCEPT ![x] = r] /\ x \in Threads
    BY <1>2 DEF r, Workers, Threads
  <2> QED BY <1>1, <1>3, <2>1, Turn
<1> HIDE DEF r
<1>5. /\ th[x].pc \notin Frees \cup {"create", "redial"}
      /\ th'[x].pc \notin Fills \cup Frees
      /\ th'[x].peer \in Members /\ th'[x].conn = None /\ x \in Threads /\ x # "app"
  BY <1>2, <1>3, <1>4 DEF Fills, Frees, Workers, Threads
<1>6. Posts'
  BY <1>1, <1>2, <1>3, <1>4
  DEF Posts, At, Only, Workers, Threads, Calls, Sync, SyncHolds, AppHolds
<1>7. Swept => Swept'
  BY <1>2, <1>4, <1>5, SweptAlone DEF Only, Threads
<1> QED BY <1>1, <1>2, <1>4, <1>5, <1>6, <1>7, Passive DEF SlotTypes

\* The sync worker takes up a retry, or drops it.
LEMMA RetryKeeps ==
    ASSUME PeerInv, NEW r \in retries, Retry(r)
    PROVE  PeerInv'
<1>1. SlotTypes /\ Posts /\ (~early => Swept /\ misused \subseteq {"sender"})
  BY DEF PeerInv
<1>2. /\ th["sync"].pc = "reaped" /\ retries' = retries \ {r}
      /\ UNCHANGED <<slot, conn, cb, lock, phase, early, misused>>
      /\ \/ th' = th
         \/ /\ r.peer \in Members
            /\ th' = [th EXCEPT !["sync"] = [Idle EXCEPT !.pc = "retry", !.peer = r.peer,
                                                         !.stun = r.stun]]
  BY DEF Retry, At
<1>3. /\ Only("sync")
      /\ th'["sync"].pc \in {"reaped", "retry"}
      /\ th'["sync"].pc = "retry" => th'["sync"].peer \in Members /\ th'["sync"].conn = None
  <2>1. CASE th' = th
    BY <1>1, <1>2, <2>1 DEF Only, SlotTypes
  <2>2. CASE r.peer \in Members /\ th' = [th EXCEPT !["sync"] =
                [Idle EXCEPT !.pc = "retry", !.peer = r.peer, !.stun = r.stun]]
    <3> DEFINE q == r.peer
               k == r.stun
               i == [Idle EXCEPT !.pc = "retry", !.peer = q, !.stun = k]
    <3>1. q \in Members /\ q \in Someone /\ k \in Stages /\ "retry" \in Sync \cup App
      BY <1>1, <2>2 DEF SlotTypes, Someone, Sync
    <3>2. i \in ThreadRecord /\ i.pc = "retry" /\ i.peer = q /\ i.conn = None
      <4> HIDE DEF q, k
      <4> QED BY <3>1, IdleType DEF ThreadRecord, Idle
    <3>3. th' = [th EXCEPT !["sync"] = i]
      BY <2>2
    <3> HIDE DEF q, k, i
    <3>4. Only("sync") /\ th'["sync"] = i
      BY <1>1, <3>2, <3>3, Turn DEF Threads
    <3> QED BY <3>1, <3>2, <3>4
  <2> QED BY <1>2, <2>1, <2>2
<1>4. Posts'
  BY <1>1, <1>2, <1>3 DEF Posts, At, Only, Threads, Sync, SyncHolds, AppHolds
<1>5. Swept => Swept'
  BY <1>2, <1>3, SweptAlone DEF Only, Threads
<1>6. /\ th["sync"].pc \notin Frees \cup {"create", "redial"} /\ "sync" \in Threads
      /\ th'["sync"].pc \notin Fills \cup Frees \cup {"connect"}
  BY <1>2, <1>3 DEF Fills, Frees, Threads
<1>7. retries' \subseteq [peer : Someone, stun : Stages]
  BY <1>1, <1>2 DEF SlotTypes
<1> QED BY <1>1, <1>2, <1>3, <1>4, <1>5, <1>6, <1>7, Passive DEF SlotTypes

\* The sync worker takes peer_lock for a pass, and lets go of it.
LEMMA PassKeeps ==
    ASSUME PeerInv, BeginReap \/ EndReap \/ BeginKeepalive \/ EndKeepalive
    PROVE  PeerInv'
<1>1. SlotTypes /\ Posts /\ (~early => Swept /\ misused \subseteq {"sender"})
  BY DEF PeerInv
<1>2. /\ UNCHANGED <<slot, conn, cb, retries, phase, early>>
      /\ \/ /\ phase = "open" /\ th["sync"].pc = "idle" /\ lock = Unlocked
            /\ lock' = "sync" /\ Loop("sync", "reap") /\ UNCHANGED misused
         \/ /\ th["sync"].pc = "reap"
            /\ lock' = Unlocked /\ Loop("sync", "reaped") /\ UNCHANGED misused
         \/ /\ th["sync"].pc = "reaped" /\ lock = Unlocked
            /\ lock' = "sync" /\ Loop("sync", "keepalive") /\ UNCHANGED misused
         \/ /\ th["sync"].pc = "keepalive"
            /\ lock' = Unlocked /\ Loop("sync", "idle")
            /\ Use("sync", {slot[s].sudp : s \in {i \in Slots : Connected(i)}})
  BY DEF BeginReap, EndReap, BeginKeepalive, EndKeepalive, At
<1>3. {"reap", "reaped", "keepalive", "idle"} \subseteq Sync \cup App /\ "sync" \in Threads
  BY DEF Sync, SyncHolds, Calls, Threads
<1>4. /\ Only("sync")
      /\ \/ /\ th["sync"].pc = "idle" /\ th'["sync"].pc = "reap" /\ lock' = "sync"
            /\ lock = Unlocked /\ phase = "open"
         \/ th["sync"].pc = "reap" /\ th'["sync"].pc = "reaped" /\ lock' = Unlocked
         \/ /\ th["sync"].pc = "reaped" /\ th'["sync"].pc = "keepalive" /\ lock' = "sync"
            /\ lock = Unlocked
         \/ th["sync"].pc = "keepalive" /\ th'["sync"].pc = "idle" /\ lock' = Unlocked
  BY <1>1, <1>2, <1>3, LoopTurn
<1>5. th'["app"] = th["app"] /\ th'["boot"] = th["boot"]
  BY <1>4 DEF Only, Threads
<1>6. Posts'
  BY <1>1, <1>2, <1>4, <1>5 DEF Posts, At, Sync, Calls, SyncHolds, AppHolds, Unlocked
<1>7. Swept => Swept'
  BY <1>2, <1>5, SweptAlone
<1>8. /\ th["sync"].pc \notin Frees \cup {"create", "redial"}
      /\ th'["sync"].pc \notin Fills \cup Frees \cup {"connect", "retry"}
  BY <1>4 DEF Fills, Frees
<1>9. ASSUME ~early PROVE misused' \subseteq {"sender"}
  <2>1. CASE UNCHANGED misused
    BY <1>1, <1>9, <2>1
  <2>2. CASE /\ th["sync"].pc = "keepalive"
             /\ Use("sync", {slot[s].sudp : s \in {i \in Slots : Connected(i)}})
    <3>1. \A t \in {slot[s].sudp : s \in {i \in Slots : Connected(i)}} : conn[t].life = "live"
      BY <1>9, <2>2, LockedOut DEF At
    <3> QED BY <1>1, <1>9, <2>2, <3>1, UseSafely
  <2> QED BY <1>2, <2>1, <2>2
<1>10. lock' \in {Unlocked, "sync", "app"}
  BY <1>4
<1> QED BY <1>1, <1>2, <1>3, <1>4, <1>6, <1>7, <1>8, <1>9, <1>10, Passive DEF SlotTypes

\* The application's sends.
LEMMA SendKeeps ==
    ASSUME PeerInv, Broadcast \/ SendOut \/ \E p \in Members : Send(p)
    PROVE  PeerInv'
<1>1. SlotTypes /\ Posts /\ (~early => Swept /\ misused \subseteq {"sender"})
  BY DEF PeerInv
<1>2. UNCHANGED <<slot, conn, cb, lock, retries, phase, early>> /\ "app" \in Threads
  BY DEF Broadcast, SendOut, Send, Threads
<1>3. /\ Only("app")
      /\ \/ th' = th /\ th["app"].pc = "idle"
         \/ phase = "open" /\ th["app"].pc = "idle" /\ th'["app"].pc = "send"
         \/ th["app"].pc = "send" /\ th'["app"].pc = "idle"
  <2>1. CASE Broadcast
    BY <1>1, <2>1 DEF Broadcast, Only, SlotTypes, At
  <2>2. CASE SendOut
    <3>1. "idle" \in Sync \cup App
      BY DEF App
    <3> QED BY <1>1, <1>2, <2>2, <3>1, ReturnTurn DEF SendOut, At
  <2>3. CASE \E p \in Members : Send(p)
    <3>1. PICK s \in Slots : /\ phase = "open" /\ th["app"].pc = "idle"
             /\ th' = [th EXCEPT !["app"] = [Idle EXCEPT !.pc = "send", !.conn = slot[s].sudp]]
      BY <2>3 DEF Send, slot_find, At
    <3> DEFINE t == slot[s].sudp
               i == [Idle EXCEPT !.pc = "send", !.conn = t]
    <3>2. t \in {None} \cup Conns /\ "send" \in Sync \cup App
      BY <1>1 DEF SlotTypes, SlotRecord, App
    <3>3. i \in ThreadRecord /\ i.pc = "send"
      <4> HIDE DEF t
      <4> QED BY <3>2, IdleType DEF ThreadRecord
    <3>4. th' = [th EXCEPT !["app"] = i]
      BY <3>1
    <3> HIDE DEF i, t
    <3>5. Only("app") /\ th'["app"] = i
      BY <1>1, <1>2, <3>3, <3>4, Turn
    <3> QED BY <3>1, <3>3, <3>5
  <2> QED BY <2>1, <2>2, <2>3
<1>4. th'["sync"] = th["sync"] /\ th'["boot"] = th["boot"]
  BY <1>3 DEF Only, Threads
<1>5. Posts'
  BY <1>1, <1>2, <1>3, <1>4 DEF Posts, At, App, AppHolds
<1>6. Swept => Swept'
  BY <1>2, <1>3 DEF Swept, UsedSlots, At, AppHolds
<1>7. /\ th["app"].pc \notin Frees \cup {"create", "redial"}
      /\ th'["app"].pc \notin Fills \cup Frees \cup {"connect", "retry"}
  BY <1>3 DEF Fills, Frees
<1>8. ASSUME ~early PROVE misused' \subseteq {"sender"}
  <2>1. CASE Broadcast
    <3>1. \A t \in {slot[s].sudp : s \in {i \in Slots : Connected(i)}} : conn[t].life = "live"
      BY <1>8, <2>1, LockedOut DEF Broadcast
    <3>2. Use("app", {slot[s].sudp : s \in {i \in Slots : Connected(i)}})
      BY <2>1 DEF Broadcast
    <3> QED BY <1>1, <1>8, <3>1, <3>2, UseSafely
  <2>2. CASE SendOut
    BY <1>1, <1>8, <2>2, UseSafely DEF SendOut
  <2>3. CASE \E p \in Members : Send(p)
    BY <1>1, <1>8, <2>3 DEF Send
  <2> QED BY <2>1, <2>2, <2>3
<1> QED BY <1>1, <1>2, <1>3, <1>5, <1>6, <1>7, <1>8, Passive DEF SlotTypes

-----------------------------------------------------------------------------
(***************************************************************************)
(* slot_free, from its beginning to its end.                               *)
(***************************************************************************)
LEMMA FreeTurn ==
    ASSUME SlotTypes, NEW x \in Threads, NEW s \in Slots, NEW p \in Frees, BeginFree(x, s, p)
    PROVE  /\ Only(x) /\ th'[x].pc = p /\ th'[x].slot = s /\ th'[x].conn = slot[s].sudp
           /\ th'[x].peer = th[x].peer
           /\ p \notin {"free_refused", "free_redial"} => th'[x].scan = s
<1> DEFINE n == IF p \in {"free_refused", "free_redial"} THEN 0 ELSE s
           t == slot[s].sudp
           r == [th[x] EXCEPT !.pc = p, !.slot = s, !.conn = t, !.scan = n]
<1>1. th[x] \in ThreadRecord
  BY DEF SlotTypes
<1>2. n \in Nat /\ (p \notin {"free_refused", "free_redial"} => n = s)
  BY SlotAssumption
<1>3. t \in {None} \cup Conns /\ p \in Sync \cup App
  BY DEF SlotTypes, SlotRecord, Frees, Sync, App, Calls, SyncHolds, AppHolds
<1>4. th' = [th EXCEPT ![x] = r]
  BY DEF BeginFree
<1>5. r \in ThreadRecord /\ r.pc = p /\ r.slot = s /\ r.conn = t /\ r.scan = n /\ r.peer = th[x].peer
  <2> HIDE DEF n, t
  <2> QED BY <1>1, <1>2, <1>3 DEF ThreadRecord
<1>6. Only(x) /\ th'[x] = r
  <2> HIDE DEF r
  <2> QED BY <1>4, <1>5, Turn
<1> HIDE DEF n, r
<1> QED BY <1>2, <1>5, <1>6

\* A thread begins to free a slot: one it has filled, one that has failed or is silent, or one
\* that is left at the end.
LEMMA BeginFreeKeeps ==
    ASSUME PeerInv, NEW x \in Threads, NEW s \in Slots, NEW p \in Frees, BeginFree(x, s, p),
           UNCHANGED <<slot, cb, lock, phase, early>>,
           retries' \subseteq [peer : Someone, stun : Stages],
           ~early => misused' \subseteq {"sender"},
           \/ /\ x \in Workers /\ th[x].slot = s
              /\ \/ th[x].pc \in {"create", "dial"} /\ p = "free_refused"
                 \/ th[x].pc \in {"redial", "redialed"} /\ p = "free_redial"
              /\ th[x].pc \in {"create", "redial"} => th[x].conn = None
           \/ /\ x = "sync" /\ slot[s].state \in {"connected", "failed"}
              /\ \/ th[x].pc = "reap" /\ p = "free_reap"
                 \/ th[x].pc = "keepalive" /\ p = "free_silent"
           \/ /\ x = "app" /\ th[x].pc = "disconnect" /\ p = "free_all"
              /\ NextIn("app", UsedSlots, s)
    PROVE  PeerInv'
<1>1. SlotTypes /\ Posts /\ Bound
  BY DEF PeerInv
<1>2. /\ Only(x) /\ th'[x].pc = p /\ th'[x].slot = s /\ th'[x].conn = slot[s].sudp
      /\ th'[x].peer = th[x].peer
      /\ p \notin {"free_refused", "free_redial"} => th'[x].scan = s
  BY <1>1, FreeTurn
<1>3. slot[s].sudp \in {None} \cup Conns
  BY <1>1 DEF SlotTypes, SlotRecord
<1>4. /\ conn' \in [Conns -> ConnRecord]
      /\ \A t \in Conns : /\ conn'[t].slot = conn[t].slot /\ conn'[t].peer = conn[t].peer
                          /\ conn'[t].told = conn[t].told
                          /\ conn'[t].life = IF t = slot[s].sudp THEN "closing" ELSE conn[t].life
  <2>1. CASE slot[s].sudp = None
    <3>1. None \notin Conns
      BY SlotAssumption DEF None, Conns
    <3> QED BY <1>1, <2>1, <3>1 DEF BeginFree, SlotTypes
  <2>2. CASE slot[s].sudp # None
    <3> DEFINE t == slot[s].sudp
    <3>1. conn' = [conn EXCEPT ![t].life = "closing"] /\ t \in Conns
      BY <1>3, <2>2 DEF BeginFree
    <3>2. conn \in [Conns -> ConnRecord]
      BY <1>1 DEF SlotTypes
    <3> HIDE DEF t
    <3>3. conn' \in [Conns -> ConnRecord]
      BY <3>1, <3>2 DEF ConnRecord
    <3>4. \A u \in Conns : /\ conn'[u].slot = conn[u].slot /\ conn'[u].peer = conn[u].peer
                           /\ conn'[u].told = conn[u].told
                           /\ conn'[u].life = IF u = t THEN "closing" ELSE conn[u].life
      BY <3>1, <3>2 DEF ConnRecord
    <3> QED BY <3>3, <3>4 DEF t
  <2> QED BY <2>1, <2>2
<1>5. SlotTypes'
  BY <1>1, <1>2, <1>4 DEF SlotTypes, Only
<1>6. \A y \in Threads \ {x} : th'[y] = th[y]
  BY <1>2 DEF Only
<1>7. Posts'
  <2>1. CASE x = "sync"
    BY <1>1, <1>2, <1>6, <2>1
    DEF Posts, At, Threads, Workers, Sync, Calls, SyncHolds, AppHolds, Unlocked
  <2>2. CASE x = "boot"
    BY <1>1, <1>2, <1>6, <2>2
    DEF Posts, At, Threads, Workers, Calls, SyncHolds, AppHolds, Unlocked
  <2>3. CASE x = "app"
    BY <1>1, <1>2, <1>6, <2>3
    DEF Posts, At, Threads, Workers, App, SyncHolds, AppHolds, Unlocked
  <2> QED BY <2>1, <2>2, <2>3 DEF Threads
<1>8. Bound'
  <2>1. p \in Fills => x \in Workers /\ th[x].pc \in Fills
    BY DEF Fills, Workers
  <2>2. p \notin {"connect", "retry"}
    BY DEF Frees
  <2>3. ASSUME NEW y \in Threads
        PROVE  /\ th'[y].pc \in Fills \cup {"connect", "retry"} =>
                    th[y].pc \in Fills \cup {"connect", "retry"} /\ th'[y].peer = th[y].peer
               /\ th'[y].pc \in {"connect", "retry"} =>
                    th[y].pc \in {"connect", "retry"} /\ th'[y].conn = th[y].conn
               /\ th'[y].pc \in Fills \cup Frees => th'[y].slot \in Slots
    <3>1. CASE y = x
      BY <1>2, <2>1, <2>2, <3>1
    <3>2. CASE y # x
      BY <1>1, <1>6, <3>2 DEF Bound
    <3> QED BY <3>1, <3>2
  <2>4. Workers \subseteq Threads
    BY DEF Workers, Threads
  <2>5. \A t \in Conns : /\ (conn'[t].life = "live" \/ cb'[t] # "none") => conn'[t].slot \in Slots
                         /\ cb'[t] # "none" => conn'[t].life # "none"
    <3> SUFFICES ASSUME NEW t \in Conns
                 PROVE  /\ (conn'[t].life = "live" \/ cb'[t] # "none") => conn'[t].slot \in Slots
                        /\ cb'[t] # "none" => conn'[t].life # "none"
      OBVIOUS
    <3>1. CASE t = slot[s].sudp
      BY <1>1, <1>4, <3>1 DEF Bound
    <3>2. CASE t # slot[s].sudp
      BY <1>1, <1>4, <3>2 DEF Bound
    <3> QED BY <3>1, <3>2
  <2> QED BY <1>1, <2>3, <2>4, <2>5 DEF Bound
<1>9. ASSUME ~early
      PROVE  /\ OwnSlots' /\ Apart' /\ Tracked' /\ Swept' /\ \A y \in Workers : FillsAt(y)'
             /\ \A y \in Threads : FreesAt(y)'
  <2>1. /\ OwnSlots /\ Apart /\ Tracked /\ Swept /\ \A y \in Workers : FillsAt(y)
        /\ \A y \in Threads : FreesAt(y)
    BY <1>9 DEF PeerInv
  <2>2. \A y \in Threads \ {x} : th[y].pc \in Fills \cup Frees => th[y].slot # s
    <3>1. CASE x \in Workers /\ th[x].slot = s /\ th[x].pc \in Fills
      BY <2>1, <3>1 DEF Apart, Workers, Threads
    <3>2. CASE x = "sync" /\ slot[s].state \in {"connected", "failed"}
                 /\ th[x].pc \in {"reap", "keepalive"}
      <4>1. th["app"].pc \notin Fills \cup Frees
        BY <1>1, <3>2 DEF Posts, At, App, AppHolds, Fills, Frees
      <4>2. th["boot"].pc \in Fills \cup Frees => th["boot"].slot # s
        BY <1>1, <2>1, <3>2 DEF Posts, Calls, FillsAt, Fills, Frees, Workers
      <4> QED BY <3>2, <4>1, <4>2 DEF Threads
    <3>3. CASE x = "app" /\ th[x].pc = "disconnect"
      BY <1>1, <3>3 DEF Posts, At, AppHolds, Fills, Frees, Threads
    <3> QED BY <3>1, <3>2, <3>3 DEF Fills
  <2>3. OwnSlots'
    <3>1. \A i \in Slots : slot[i].sudp \in {None} \cup Conns
      BY <1>1 DEF SlotTypes, SlotRecord
    <3> QED BY <1>4, <2>1, <3>1 DEF OwnSlots
  <2>4. Apart'
    BY <1>2, <1>6, <2>1, <2>2 DEF Apart
  <2>5. th[x].pc \notin Frees /\ (th[x].pc \in {"create", "redial"} => th[x].conn = None)
    BY DEF Frees, Workers
  <2>6. Tracked'
    <3> SUFFICES ASSUME NEW t \in Conns
                 PROVE  /\ conn'[t].life = "live" =>
                              \/ slot[conn[t].slot].sudp = t
                              \/ \E y \in Workers : th'[y].pc \in {"create", "redial"}
                                                    /\ th'[y].conn = t
                        /\ conn'[t].life = "closing" =>
                              \E y \in Threads : th'[y].pc \in Frees /\ th'[y].conn = t
                        /\ cb[t] # "none" => /\ conn[t].told # "nothing"
                                             /\ conn'[t].life \in {"live", "closing"}
      BY <1>4 DEF Tracked
    <3>1. t # None
      BY SlotAssumption DEF Conns, None
    <3>2. ASSUME conn'[t].life = "live"
          PROVE  \/ slot[conn[t].slot].sudp = t
                 \/ \E y \in Workers : th'[y].pc \in {"create", "redial"} /\ th'[y].conn = t
      <4>1. conn[t].life = "live"
        BY <1>4, <3>2
      <4>2. ASSUME NEW y \in Workers, th[y].pc \in {"create", "redial"}, th[y].conn = t
            PROVE  th'[y] = th[y]
        BY <1>6, <2>5, <3>1, <4>2 DEF Workers, Threads
      <4> QED BY <2>1, <4>1, <4>2 DEF Tracked
    <3>3. ASSUME conn'[t].life = "closing"
          PROVE  \E y \in Threads : th'[y].pc \in Frees /\ th'[y].conn = t
      <4>1. CASE t = slot[s].sudp
        BY <1>2, <4>1
      <4>2. CASE t # slot[s].sudp
        BY <1>4, <1>6, <2>1, <2>5, <3>3, <4>2 DEF Tracked
      <4> QED BY <4>1, <4>2
    <3>4. cb[t] # "none" => conn[t].told # "nothing" /\ conn'[t].life \in {"live", "closing"}
      BY <1>4, <2>1 DEF Tracked
    <3> QED BY <3>2, <3>3, <3>4
  <2>7. ASSUME NEW y \in Workers PROVE FillsAt(y)'
    <3>1. FillsAt(y) /\ y \in Threads
      BY <2>1 DEF Workers, Threads
    <3>2. th[y].conn \in {None} \cup Conns
      BY <1>1, <3>1 DEF SlotTypes, ThreadRecord
    <3>3. CASE y = x
      <4>1. CASE p \in {"free_refused", "free_redial"}
        <5>1. /\ th[x].pc \in Fills /\ th[x].slot = s
              /\ th[x].pc \in {"dial", "redialed"} \/ th[x].conn = None
              /\ th[x].pc \in {"create", "dial", "redial", "redialed"}
          BY <4>1 DEF Fills, Frees
        <5>2. slot[s].sudp = th[x].conn
          BY <3>1, <3>3, <5>1 DEF FillsAt
        <5>3. th[x].conn # None => conn'[th[x].conn].told = "nothing"
          BY <1>4, <3>1, <3>2, <3>3, <5>1 DEF FillsAt
        <5> QED BY <1>2, <3>1, <3>3, <4>1, <5>1, <5>2, <5>3 DEF FillsAt
      <4>2. CASE p \notin {"free_refused", "free_redial"}
        BY <1>2, <3>3, <4>2 DEF FillsAt, Fills, Frees
      <4> QED BY <4>1, <4>2
    <3>4. CASE y # x
      <4>1. th'[y] = th[y]
        BY <1>6, <3>1, <3>4
      <4>2. ASSUME th[y].pc \in Fills
            PROVE  th[y].conn \in Conns /\ conn[th[y].conn].life = "live" => th[y].conn # slot[s].sudp
        <5> SUFFICES ASSUME th[y].conn \in Conns, conn[th[y].conn].life = "live",
                            th[y].conn = slot[s].sudp
                     PROVE  FALSE
          OBVIOUS
        <5>1. th[y].slot \in Slots /\ th[y].slot # s
          BY <1>1, <2>2, <3>1, <3>4, <4>2 DEF Bound
        <5>2. conn[th[y].conn].slot = s /\ th[y].conn # None
          BY <2>1, SlotAssumption DEF OwnSlots, Conns, None
        <5>3. CASE th[y].pc \in {"create", "redial"}
          BY <3>1, <4>2, <5>1, <5>2, <5>3 DEF FillsAt
        <5>4. CASE th[y].pc \notin {"create", "redial"}
          <6>1. slot[th[y].slot].sudp = th[y].conn
            BY <2>1, <3>1, <4>2, <5>4 DEF FillsAt, FreesAt, Fills, Frees
          <6> QED BY <2>1, <5>1, <5>2, <6>1 DEF OwnSlots
        <5> QED BY <5>3, <5>4
      <4> QED BY <1>4, <3>1, <3>2, <4>1, <4>2 DEF FillsAt
    <3> QED BY <3>3, <3>4
  <2>8. ASSUME NEW y \in Threads PROVE FreesAt(y)'
    <3>1. th[y].conn \in {None} \cup Conns
      BY <1>1 DEF SlotTypes, ThreadRecord
    <3>2. CASE y = x
      <4>1. slot[s].state # "free"
        BY <2>1 DEF FillsAt, Fills, NextIn, UsedSlots
      <4>2. slot[s].sudp # None => conn'[slot[s].sudp].life = "closing"
        BY <1>3, <1>4
      <4> QED BY <1>2, <3>2, <4>1, <4>2 DEF FreesAt
    <3>3. CASE y # x
      BY <1>4, <1>6, <2>1, <3>1, <3>3 DEF FreesAt
    <3> QED BY <3>2, <3>3
  <2>9. Swept'
    <3>1. CASE x \in Workers
      <4>1. th'["app"] = th["app"]
        BY <1>6, <3>1 DEF Workers, Threads
      <4> QED BY <2>1, <4>1, SweptAlone
    <3>2. CASE x = "app"
      <4>1. th["app"].pc = "disconnect" /\ p = "free_all" /\ NextIn("app", UsedSlots, s)
        BY <3>2 DEF Workers
      <4>2. \A i \in UsedSlots : i > th["app"].scan
        BY <2>1, <4>1 DEF Swept, At, AppHolds
      <4>3. \A i \in UsedSlots : s <= i /\ i \in Nat
        BY <4>1, <4>2, SlotAssumption DEF NextIn, UsedSlots
      <4>4. s \in Nat /\ th'["app"].scan = s
        BY <1>2, <3>2, <4>1, SlotAssumption
      <4>5. \A i \in UsedSlots : i > s \/ i = s
        BY <4>3, <4>4
      <4> QED BY <1>2, <3>2, <4>1, <4>4, <4>5 DEF Swept, UsedSlots, At, AppHolds
    <3> QED BY <3>1, <3>2 DEF Workers, Threads
  <2> QED BY <2>3, <2>4, <2>6, <2>7, <2>8, <2>9
<1> QED BY <1>5, <1>7, <1>8, <1>9 DEF PeerInv

\* pthread_join is over: the slot is wiped, and its connection is gone.
LEMMA SlotFreeKeeps ==
    ASSUME PeerInv, NEW x \in Threads, slot_free(x)
    PROVE  PeerInv'
<1> DEFINE s == th[x].slot
           t == th[x].conn
<1>1. SlotTypes /\ Posts /\ Bound
  BY DEF PeerInv
<1>2. /\ th[x].pc \in Frees /\ s \in Slots /\ t \in {None} \cup Conns
      /\ t # None => cb[t] = "none"
      /\ slot' = [slot EXCEPT ![s] = FreeSlot]
      /\ conn' = IF t = None THEN conn ELSE [conn EXCEPT ![t].life = "freed"]
      /\ UNCHANGED <<cb, lock, retries, phase, early, misused>>
  BY <1>1 DEF slot_free, Freeing, CallbackOver, Frees, Bound, SlotTypes, ThreadRecord
<1>3. \E q \in {"idle", "reaped", "reap", "keepalive", "disconnect"} :
        /\ Return(x, q)
        /\ th[x].pc = "free_refused" => q = "idle"
        /\ th[x].pc = "free_redial" => q = "reaped"
        /\ th[x].pc = "free_reap" => q = "reap"
        /\ th[x].pc = "free_silent" => q = "keepalive"
        /\ th[x].pc = "free_all" => q = "disconnect"
  <2>1. Return(x, Resume(x))
    BY DEF slot_free
  <2> QED BY <1>2, <2>1 DEF Resume, At, Frees
<1>4. PICK q \in {"idle", "reaped", "reap", "keepalive", "disconnect"} :
        /\ Only(x) /\ th'[x].pc = q /\ th'[x].scan = th[x].scan
        /\ th[x].pc = "free_refused" => q = "idle"
        /\ th[x].pc = "free_redial" => q = "reaped"
        /\ th[x].pc = "free_reap" => q = "reap"
        /\ th[x].pc = "free_silent" => q = "keepalive"
        /\ th[x].pc = "free_all" => q = "disconnect"
  <2>1. {"idle", "reaped", "reap", "keepalive", "disconnect"} \subseteq Sync \cup App
    BY DEF Sync, App, Calls, SyncHolds, AppHolds
  <2> QED BY <1>1, <1>3, <2>1, ReturnTurn
<1>5. FreeSlot \in SlotRecord
  BY DEF FreeSlot, SlotRecord, Someone, Stages
<1>6. /\ slot' \in [Slots -> SlotRecord] /\ slot'[s] = FreeSlot
      /\ \A i \in Slots \ {s} : slot'[i] = slot[i]
  BY <1>1, <1>2, <1>5 DEF SlotTypes
<1>7. None \notin Conns
  BY SlotAssumption DEF None, Conns
<1>8. /\ conn' \in [Conns -> ConnRecord]
      /\ \A u \in Conns : /\ conn'[u].slot = conn[u].slot /\ conn'[u].peer = conn[u].peer
                          /\ conn'[u].told = conn[u].told
                          /\ conn'[u].life = IF u = t THEN "freed" ELSE conn[u].life
  <2>1. conn \in [Conns -> ConnRecord]
    BY <1>1 DEF SlotTypes
  <2> HIDE DEF t
  <2>2. CASE t = None
    BY <1>2, <1>7, <2>1, <2>2
  <2>3. CASE t \in Conns
    <3>1. conn' = [conn EXCEPT ![t].life = "freed"]
      BY <1>2, <1>7, <2>3
    <3>2. conn' \in [Conns -> ConnRecord]
      BY <2>1, <2>3, <3>1 DEF ConnRecord
    <3> QED BY <2>1, <2>3, <3>1, <3>2 DEF ConnRecord
  <2> QED BY <1>2, <2>2, <2>3
<1> HIDE DEF s, t
<1>9. SlotTypes'
  BY <1>1, <1>2, <1>4, <1>6, <1>8 DEF SlotTypes, Only
<1>10. \A y \in Threads \ {x} : th'[y] = th[y]
  BY <1>4 DEF Only
<1>11. Posts'
  <2>1. CASE x = "sync"
    BY <1>1, <1>2, <1>4, <1>10, <2>1 DEF Posts, At, Threads, Frees, Sync, Calls, SyncHolds, AppHolds
  <2>2. CASE x = "boot"
    BY <1>1, <1>2, <1>4, <1>10, <2>2 DEF Posts, At, Threads, Frees, Calls
  <2>3. CASE x = "app"
    BY <1>1, <1>2, <1>4, <1>10, <2>3 DEF Posts, At, Threads, Frees, App, AppHolds
  <2> QED BY <2>1, <2>2, <2>3 DEF Threads
<1>12. Bound'
  <2>1. slot'[s].peer = None
    BY <1>6 DEF FreeSlot
  <2>2. q \notin Fills \cup Frees \cup {"connect", "retry"}
    BY DEF Fills, Frees
  <2>3. ASSUME NEW y \in Threads
        PROVE  th'[y].pc \in Fills \cup Frees \cup {"connect", "retry"} => th'[y] = th[y]
    BY <1>4, <1>10, <2>2
  <2>4. Workers \subseteq Threads
    BY DEF Workers, Threads
  <2>5. \A u \in Conns : /\ (conn'[u].life = "live" \/ cb'[u] # "none") => conn'[u].slot \in Slots
                         /\ cb'[u] # "none" => conn'[u].life # "none"
    <3> SUFFICES ASSUME NEW u \in Conns
                 PROVE  /\ (conn'[u].life = "live" \/ cb'[u] # "none") => conn'[u].slot \in Slots
                        /\ cb'[u] # "none" => conn'[u].life # "none"
      OBVIOUS
    <3>1. conn'[u].life = IF u = t THEN "freed" ELSE conn[u].life
      BY <1>8
    <3>2. CASE u = t
      BY <1>2, <1>7, <1>8, <3>1, <3>2
    <3>3. CASE u # t
      BY <1>1, <1>2, <1>8, <3>1, <3>3 DEF Bound
    <3> QED BY <3>2, <3>3
  <2>6. /\ \A i \in Slots : slot'[i].state = "free" => slot'[i].peer = None
        /\ \A i, j \in Slots :
              i # j /\ slot'[i].peer = slot'[j].peer => slot'[i].peer = None
    BY <1>1, <1>6, <2>1 DEF Bound
  <2> QED BY <1>1, <2>3, <2>4, <2>5, <2>6 DEF Bound
<1>13. ASSUME ~early
       PROVE  /\ OwnSlots' /\ Apart' /\ Tracked' /\ Swept' /\ \A y \in Workers : FillsAt(y)'
              /\ \A y \in Threads : FreesAt(y)'
  <2>1. /\ OwnSlots /\ Apart /\ Tracked /\ Swept /\ \A y \in Workers : FillsAt(y)
        /\ \A y \in Threads : FreesAt(y)
    BY <1>13 DEF PeerInv
  <2>2. /\ slot[s].sudp = t
        /\ t # None => conn[t].life = "closing" /\ conn[t].slot = s
    BY <1>2, <2>1 DEF FreesAt, OwnSlots, s, t
  <2>3. \A i \in Slots \ {s} : slot[i].sudp # None => slot[i].sudp # t
    BY <1>2, <2>1, <2>2 DEF OwnSlots
  <2>4. OwnSlots'
    <3>1. \A i \in Slots : slot[i].sudp \in {None} \cup Conns
      BY <1>1 DEF SlotTypes, SlotRecord
    <3>2. slot'[s].state = "free" /\ slot'[s].sudp = None
      BY <1>6 DEF FreeSlot
    <3> QED BY <1>6, <1>8, <2>1, <2>3, <3>1, <3>2 DEF OwnSlots
  <2>5. Apart'
    BY <1>4, <1>10, <2>1 DEF Apart, Fills, Frees
  <2>6. Tracked'
    <3> SUFFICES ASSUME NEW u \in Conns
                 PROVE  /\ conn'[u].life = "live" =>
                              \/ slot'[conn[u].slot].sudp = u
                              \/ \E y \in Workers : th'[y].pc \in {"create", "redial"}
                                                    /\ th'[y].conn = u
                        /\ conn'[u].life = "closing" =>
                              \E y \in Threads : th'[y].pc \in Frees /\ th'[y].conn = u
                        /\ cb[u] # "none" => /\ conn[u].told # "nothing"
                                             /\ conn'[u].life \in {"live", "closing"}
      BY <1>2, <1>8 DEF Tracked
    <3>1. ASSUME conn'[u].life = "live"
          PROVE  \/ slot'[conn[u].slot].sudp = u
                 \/ \E y \in Workers : th'[y].pc \in {"create", "redial"} /\ th'[y].conn = u
      <4>1. conn[u].life = "live" /\ u # t /\ u # None
        BY <1>7, <1>8, <3>1
      <4>2. CASE slot[conn[u].slot].sudp = u
        <5>1. conn[u].slot \in Slots /\ conn[u].slot # s
          BY <1>1, <2>2, <4>1, <4>2 DEF Bound
        <5> QED BY <1>6, <4>2, <5>1
      <4>3. ASSUME NEW y \in Workers, th[y].pc \in {"create", "redial"}, th[y].conn = u
            PROVE  th'[y] = th[y]
        BY <1>10, <4>1, <4>3 DEF Workers, Threads, t
      <4> QED BY <2>1, <4>1, <4>2, <4>3 DEF Tracked
    <3>2. ASSUME conn'[u].life = "closing"
          PROVE  \E y \in Threads : th'[y].pc \in Frees /\ th'[y].conn = u
      <4>1. conn[u].life = "closing" /\ u # t
        BY <1>8, <3>2
      <4>2. PICK y \in Threads : th[y].pc \in Frees /\ th[y].conn = u
        BY <2>1, <4>1 DEF Tracked
      <4>3. y # x
        BY <4>1, <4>2 DEF t
      <4> QED BY <1>10, <4>2, <4>3
    <3>3. cb[u] # "none" => conn[u].told # "nothing" /\ conn'[u].life \in {"live", "closing"}
      BY <1>2, <1>7, <1>8, <2>1 DEF Tracked
    <3> QED BY <3>1, <3>2, <3>3
  <2>7. ASSUME NEW y \in Workers PROVE FillsAt(y)'
    <3>1. FillsAt(y) /\ y \in Threads /\ th[y].conn \in {None} \cup Conns
      BY <1>1, <2>1 DEF Workers, Threads, SlotTypes, ThreadRecord
    <3>2. CASE y = x
      BY <1>4, <3>2 DEF FillsAt, Fills
    <3>3. CASE y # x
      <4>1. th'[y] = th[y]
        BY <1>10, <3>1, <3>3
      <4>2. th[y].pc \in Fills => th[y].slot \in Slots \ {s}
        BY <1>1, <1>2, <2>1, <3>1, <3>3 DEF Bound, Apart, s
      <4>3. th[y].pc \in Fills => slot'[th[y].slot] = slot[th[y].slot]
        BY <1>6, <4>2
      <4>4. ASSUME th[y].conn # None, conn[th[y].conn].life = "live"
            PROVE  conn'[th[y].conn].life = "live"
        BY <1>8, <2>2, <3>1, <4>4
      <4> QED BY <1>8, <3>1, <4>1, <4>3, <4>4 DEF FillsAt
    <3> QED BY <3>2, <3>3
  <2>8. ASSUME NEW y \in Threads PROVE FreesAt(y)'
    <3>1. FreesAt(y) /\ th[y].conn \in {None} \cup Conns
      BY <1>1, <2>1 DEF SlotTypes, ThreadRecord
    <3>2. CASE y = x
      BY <1>4, <3>2 DEF FreesAt, Frees
    <3>3. CASE y # x
      <4>1. th'[y] = th[y]
        BY <1>10, <3>3
      <4>2. th[y].pc \in Frees => th[y].slot \in Slots \ {s}
        BY <1>1, <1>2, <2>1, <3>3 DEF Bound, Apart, s
      <4>3. th[y].pc \in Frees => /\ slot'[th[y].slot] = slot[th[y].slot]
                                  /\ th[y].conn # None => th[y].conn # t
        BY <1>6, <2>3, <3>1, <4>2 DEF FreesAt
      <4> QED BY <1>8, <3>1, <4>1, <4>3 DEF FreesAt
    <3> QED BY <3>2, <3>3
  <2>9. Swept'
    <3>1. \A i \in UsedSlots' : i \in UsedSlots /\ i # s
      BY <1>6 DEF UsedSlots, FreeSlot
    <3>2. CASE x \in Workers
      <4>1. th'["app"] = th["app"]
        BY <1>10, <3>2 DEF Workers, Threads
      <4> QED BY <2>1, <3>1, <4>1 DEF Swept, At
    <3>3. CASE x = "app"
      <4>1. th["app"].pc = "free_all" /\ th'["app"].pc = "disconnect"
        BY <1>1, <1>2, <1>4, <3>3 DEF Posts, App, AppHolds, Frees
      <4>2. \A i \in UsedSlots' : i > th["app"].scan
        BY <2>1, <3>1, <3>3, <4>1 DEF Swept, AppHolds, s
      <4> QED BY <1>4, <3>3, <4>1, <4>2 DEF Swept, At
    <3> QED BY <3>2, <3>3 DEF Workers, Threads
  <2> QED BY <2>4, <2>5, <2>6, <2>7, <2>8, <2>9
<1>14. ~early => misused' \subseteq {"sender"}
  BY <1>2 DEF PeerInv
<1> QED BY <1>2, <1>9, <1>11, <1>12, <1>13, <1>14 DEF PeerInv
-----------------------------------------------------------------------------
(***************************************************************************)
(* peer_connect.                                                           *)
(***************************************************************************)
\* Every set of numbers that is not empty has a least one.
LEMMA Least ==
    ASSUME NEW A \in SUBSET Nat, A # {}
    PROVE  \E s \in A : \A i \in A : s <= i
<1>1. IsWellFoundedOn(OpToRel(<, Nat), Nat)
  BY NatLessThanWellFounded
<1>2. PICK s \in A : \A i \in A : ~(<<i, s>> \in OpToRel(<, Nat))
  BY <1>1, WFMin
<1>3. \A i \in A : ~(i < s)
  BY <1>2 DEF OpToRel
<1> QED BY <1>3

\* peer_connect claims the first free slot for a peer that has none, or gives up.
LEMMA ClaimKeeps ==
    ASSUME PeerInv, NEW x \in Workers, Claim(x)
    PROVE  PeerInv'
<1>1. SlotTypes /\ Posts /\ Bound /\ x \in Threads
  BY DEF PeerInv, Workers, Threads
<1>2. /\ th[x].pc \in {"connect", "retry"} /\ th[x].peer \in Members /\ th[x].conn = None
      /\ UNCHANGED <<conn, cb, lock, retries, phase, early, misused>>
  BY <1>1 DEF Claim, Bound
<1>3. /\ th["app"].pc \notin AppHolds \cup {"closed"} /\ phase # "closed"
      /\ x = "boot" => th[x].pc = "connect"
  BY <1>1, <1>2 DEF Posts, At, Workers, Calls
<1>4. CASE Return(x, After(x)) /\ UNCHANGED slot
  <2>1. PICK q \in {"idle", "reaped"} : After(x) = q /\ (th[x].pc = "connect" => q = "idle")
    BY DEF After
  <2>2. {"idle", "reaped"} \subseteq Sync \cup App
    BY DEF Sync, Calls
  <2>3. Only(x) /\ th'[x].pc = q
    BY <1>1, <1>4, <2>1, <2>2, ReturnTurn
  <2>4. Posts'
    BY <1>1, <1>2, <1>3, <2>1, <2>3
    DEF Posts, At, Only, Workers, Threads, Calls, Sync, SyncHolds, AppHolds
  <2>5. th'["app"] = th["app"]
    BY <2>3 DEF Only, Workers, Threads
  <2>6. ~early => Swept' /\ misused' \subseteq {"sender"}
    BY <1>2, <1>4, <2>5, SweptAlone DEF PeerInv
  <2>7. /\ th[x].pc \notin Frees \cup {"create", "redial"}
        /\ th'[x].pc \notin Fills \cup Frees \cup {"connect", "retry"}
    BY <1>2, <2>3 DEF Fills, Frees
  <2> QED BY <1>1, <1>2, <1>4, <2>3, <2>4, <2>6, <2>7, Passive DEF SlotTypes
<1>5. CASE ~(Return(x, After(x)) /\ UNCHANGED slot)
  <2> DEFINE q == IF At(x, "retry") THEN "redial" ELSE "create"
             p == th[x].peer
             k == th[x].stun
  <2>1. PICK s \in Slots :
          /\ slot[s].state = "free" /\ slot_find(p) = {}
          /\ slot' = [slot EXCEPT ![s] = [state |-> "connecting", peer |-> p, sudp |-> None,
                                         stun |-> k]]
          /\ th' = [th EXCEPT ![x] = [th[x] EXCEPT !.pc = q, !.slot = s]]
    <3>1. slot_find(p) = {} /\ slot_alloc # {} /\ slot_alloc \subseteq Nat
      BY <1>5, SlotAssumption DEF Claim, slot_alloc
    <3>2. PICK s \in slot_alloc : s = CHOOSE i \in slot_alloc : \A j \in slot_alloc : i <= j
      BY <3>1, Least
    <3> QED BY <1>5, <3>1, <3>2 DEF Claim, slot_alloc
  <2>2. /\ q \in {"create", "redial"} /\ q \in Sync \cup App
        /\ x = "boot" => q = "create"
    BY <1>3 DEF At, Sync, Calls
  <2> DEFINE r == [th[x] EXCEPT !.pc = q, !.slot = s]
             w == [state |-> "connecting", peer |-> p, sudp |-> None, stun |-> k]
  <2>3. th[x] \in ThreadRecord /\ p \in Members /\ p \in Someone /\ k \in Stages
    BY <1>1, <1>2 DEF SlotTypes, ThreadRecord
  <2>4. /\ r \in ThreadRecord /\ r.pc = q /\ r.slot = s /\ r.peer = p /\ r.conn = None
        /\ w \in SlotRecord /\ w.state = "connecting" /\ w.peer = p /\ w.sudp = None
    <3>1. r \in ThreadRecord /\ r.pc = q /\ r.slot = s /\ r.peer = p /\ r.conn = None
      <4> HIDE DEF q
      <4> QED BY <1>2, <2>2, <2>3 DEF ThreadRecord
    <3> HIDE DEF p, k
    <3> QED BY <2>3, <3>1 DEF SlotRecord
  <2>5. Only(x) /\ th'[x] = r
    <3>1. th' = [th EXCEPT ![x] = r]
      BY <2>1
    <3> HIDE DEF r
    <3> QED BY <1>1, <2>4, <3>1, Turn
  <2>6. /\ slot' \in [Slots -> SlotRecord] /\ slot'[s] = w
        /\ \A i \in Slots \ {s} : slot'[i] = slot[i]
    <3>1. slot' = [slot EXCEPT ![s] = w]
      BY <2>1
    <3> HIDE DEF w
    <3> QED BY <1>1, <2>4, <3>1 DEF SlotTypes
  <2>7. \A y \in Threads \ {x} : th'[y] = th[y]
    BY <2>5 DEF Only
  <2>8. p # None /\ \A i \in Slots : slot[i].peer # p
    BY <1>1, <2>1, <2>3, SlotAssumption DEF slot_find, Bound
  <2> HIDE DEF r, w, q, p, k
  <2>9. SlotTypes'
    BY <1>1, <1>2, <2>5, <2>6 DEF SlotTypes, Only
  <2>10. Posts'
    <3>1. CASE x = "sync"
      BY <1>1, <1>2, <1>3, <2>2, <2>4, <2>5, <2>7, <3>1
      DEF Posts, At, Threads, Sync, Calls, SyncHolds, AppHolds
    <3>2. CASE x = "boot"
      BY <1>1, <1>2, <1>3, <2>2, <2>4, <2>5, <2>7, <3>2
      DEF Posts, At, Threads, Calls, AppHolds
    <3> QED BY <3>1, <3>2 DEF Workers
  <2>11. Bound'
    <3>1. ASSUME NEW y \in Threads
          PROVE  /\ th'[y].pc \in Fills \cup Frees => th'[y].slot \in Slots
                 /\ y \in Workers /\ th'[y].pc \in Fills \cup {"connect", "retry"} =>
                      th'[y].peer \in Members
                 /\ y \in Workers /\ th'[y].pc \in {"connect", "retry"} => th'[y].conn = None
      <4>1. CASE y = x
        BY <2>3, <2>4, <2>5, <4>1
      <4>2. CASE y # x
        BY <1>1, <2>7, <4>2 DEF Bound
      <4> QED BY <4>1, <4>2
    <3>2. Workers \subseteq Threads
      BY DEF Workers, Threads
    <3>3. \A i \in Slots : slot'[i].state = "free" => slot'[i].peer = None
      BY <1>1, <2>4, <2>6 DEF Bound
    <3>4. \A i, j \in Slots : i # j /\ slot'[i].peer = slot'[j].peer => slot'[i].peer = None
      BY <1>1, <2>4, <2>6, <2>8 DEF Bound
    <3> QED BY <1>1, <1>2, <3>1, <3>2, <3>3, <3>4 DEF Bound
  <2>12. ASSUME ~early
         PROVE  /\ OwnSlots' /\ Apart' /\ Tracked' /\ Swept' /\ \A y \in Workers : FillsAt(y)'
                /\ \A y \in Threads : FreesAt(y)'
    <3>1. /\ OwnSlots /\ Apart /\ Tracked /\ Swept /\ \A y \in Workers : FillsAt(y)
          /\ \A y \in Threads : FreesAt(y)
      BY <2>12 DEF PeerInv
    <3>2. \A y \in Threads \ {x} : th[y].pc \in Fills \cup Frees => th[y].slot \in Slots \ {s}
      <4> SUFFICES ASSUME NEW y \in Threads, th[y].pc \in Fills \cup Frees
                   PROVE  th[y].slot \in Slots \ {s}
        OBVIOUS
      <4>1. th[y].slot \in Slots
        BY <1>1 DEF Bound
      <4>2. CASE th[y].pc \in Frees
        BY <2>1, <3>1, <4>1, <4>2 DEF FreesAt
      <4>3. CASE th[y].pc \in Fills \ Frees
        <5>1. y \in Workers
          BY <1>1, <4>3 DEF Posts, Threads, Workers, App, AppHolds, Fills, Frees
        <5> QED BY <2>1, <3>1, <4>1, <4>3, <5>1 DEF FillsAt
      <4> QED BY <4>2, <4>3
    <3>3. th'[x].pc \in {"create", "redial"} /\ th'[x].slot = s /\ th'[x].conn = None
      BY <2>2, <2>4, <2>5
    <3>4. OwnSlots'
      BY <1>2, <2>3, <2>4, <2>6, <3>1 DEF OwnSlots
    <3>5. Apart'
      BY <2>7, <3>1, <3>2, <3>3 DEF Apart
    <3>6. Tracked'
      <4> SUFFICES ASSUME NEW u \in Conns
                   PROVE  /\ conn[u].life = "live" =>
                                \/ slot'[conn[u].slot].sudp = u
                                \/ \E y \in Workers : th'[y].pc \in {"create", "redial"}
                                                      /\ th'[y].conn = u
                          /\ conn[u].life = "closing" =>
                                \E y \in Threads : th'[y].pc \in Frees /\ th'[y].conn = u
                          /\ cb[u] # "none" => /\ conn[u].told # "nothing"
                                               /\ conn[u].life \in {"live", "closing"}
        BY <1>2 DEF Tracked
      <4>1. ASSUME conn[u].life = "live", slot[conn[u].slot].sudp = u
            PROVE  slot'[conn[u].slot].sudp = u
        <5>1. conn[u].slot \in Slots /\ u # None
          BY <1>1, <4>1, SlotAssumption DEF Bound, Conns, None
        <5>2. conn[u].slot # s
          BY <2>1, <3>1, <4>1, <5>1 DEF OwnSlots
        <5> QED BY <2>6, <4>1, <5>1, <5>2
      <4>2. ASSUME NEW y \in Threads, th[y].pc \in {"create", "redial"} \cup Frees
            PROVE  th'[y] = th[y]
        BY <1>2, <2>7, <4>2 DEF Frees
      <4> QED BY <3>1, <4>1, <4>2 DEF Tracked, Workers, Threads
    <3>7. Swept'
      <4>1. th'["app"] = th["app"]
        BY <2>7 DEF Workers, Threads
      <4> QED BY <1>3, <4>1 DEF Swept, At
    <3>8. ASSUME NEW y \in Workers PROVE FillsAt(y)'
      <4>1. CASE y = x
        BY <2>4, <2>5, <2>6, <3>3, <4>1 DEF FillsAt
      <4>2. CASE y # x
        <5>1. y \in Threads \ {x}
          BY <4>2 DEF Workers, Threads
        <5>2. th'[y] = th[y] /\ (th[y].pc \in Fills => slot'[th[y].slot] = slot[th[y].slot])
          BY <2>6, <2>7, <3>2, <5>1
        <5> QED BY <1>2, <3>1, <5>2 DEF FillsAt
      <4> QED BY <4>1, <4>2
    <3>9. ASSUME NEW y \in Threads PROVE FreesAt(y)'
      <4>1. CASE y = x
        BY <3>3, <4>1 DEF FreesAt, Frees
      <4>2. CASE y # x
        <5>1. th'[y] = th[y] /\ (th[y].pc \in Frees => slot'[th[y].slot] = slot[th[y].slot])
          BY <2>6, <2>7, <3>2, <4>2
        <5> QED BY <1>2, <3>1, <5>1 DEF FreesAt
      <4> QED BY <4>1, <4>2
    <3> QED BY <3>4, <3>5, <3>6, <3>7, <3>8, <3>9
  <2>13. ~early => misused' \subseteq {"sender"}
    BY <1>2 DEF PeerInv
  <2> QED BY <1>2, <2>9, <2>10, <2>11, <2>12, <2>13 DEF PeerInv
<1> QED BY <1>4, <1>5

\* The slot is filled while the threads of its connection run already.
LEMMA CreateKeeps ==
    ASSUME PeerInv, NEW x \in Workers, Create(x)
    PROVE  PeerInv'
<1>1. SlotTypes /\ Posts /\ Bound /\ x \in Threads
  BY DEF PeerInv, Workers, Threads
<1> DEFINE p == th[x].peer
           s == th[x].slot
<1>2. PICK t \in Conns :
        /\ th[x].pc \in {"create", "redial"} /\ th[x].conn = None
        /\ conn[t].life = "none"
        /\ conn' = [conn EXCEPT ![t] = [life |-> "live", peer |-> p, slot |-> s,
                                        told |-> "nothing"]]
        /\ th' = [th EXCEPT ![x].conn = t]
        /\ UNCHANGED <<slot, cb, lock, retries, phase, early, misused>>
  BY DEF Create
<1>3. /\ th[x] \in ThreadRecord /\ p \in Members /\ p \in Someone /\ s \in Slots
      /\ cb[t] = "none" /\ t # None
  BY <1>1, <1>2, SlotAssumption DEF SlotTypes, ThreadRecord, Bound, Fills, Someone, Conns, None
<1> DEFINE w == [life |-> "live", peer |-> p, slot |-> s, told |-> "nothing"]
           r == [th[x] EXCEPT !.conn = t]
<1>4. w \in ConnRecord /\ w.life = "live" /\ w.peer = p /\ w.slot = s /\ w.told = "nothing"
  <2> HIDE DEF p, s
  <2> QED BY <1>3 DEF ConnRecord
<1>5. r \in ThreadRecord /\ r.pc = th[x].pc /\ r.slot = s /\ r.peer = p /\ r.conn = t
  BY <1>3 DEF ThreadRecord
<1>6. Only(x) /\ th'[x] = r
  <2>1. th' = [th EXCEPT ![x] = r]
    BY <1>2
  <2> HIDE DEF r
  <2> QED BY <1>1, <1>5, <2>1, Turn
<1>7. /\ conn' \in [Conns -> ConnRecord] /\ conn'[t] = w
      /\ \A u \in Conns \ {t} : conn'[u] = conn[u]
  <2>1. conn' = [conn EXCEPT ![t] = w]
    BY <1>2
  <2> HIDE DEF w
  <2> QED BY <1>1, <1>4, <2>1 DEF SlotTypes
<1>8. \A y \in Threads \ {x} : th'[y] = th[y]
  BY <1>6 DEF Only
<1> HIDE DEF r, w, p, s
<1>9. th'[x].pc = th[x].pc /\ th'[x].slot = s /\ th'[x].peer = p /\ th'[x].conn = t
  BY <1>5, <1>6
<1>10. s = th[x].slot /\ p = th[x].peer
  BY DEF s, p
<1>11. \A y \in Threads :
         /\ th'[y].pc = th[y].pc /\ th'[y].slot = th[y].slot /\ th'[y].peer = th[y].peer
         /\ y # x => th'[y].conn = th[y].conn
  BY <1>8, <1>9, <1>10
<1>12. SlotTypes'
  BY <1>1, <1>2, <1>6, <1>7 DEF SlotTypes, Only
<1>13. Posts'
  BY <1>1, <1>2, <1>11 DEF Posts, At, Threads
<1>14. Bound'
  <2>1. Workers \subseteq Threads
    BY DEF Workers, Threads
  <2>2. \A u \in Conns : /\ (conn'[u].life = "live" \/ cb'[u] # "none") => conn'[u].slot \in Slots
                         /\ cb'[u] # "none" => conn'[u].life # "none"
    BY <1>1, <1>2, <1>3, <1>4, <1>7 DEF Bound
  <2>3. \A y \in Workers : th'[y].pc \in {"connect", "retry"} => th'[y].conn = None
    BY <1>1, <1>2, <1>11, <2>1 DEF Bound
  <2> QED BY <1>1, <1>2, <1>11, <2>1, <2>2, <2>3 DEF Bound
<1>15. ASSUME ~early
       PROVE  /\ OwnSlots' /\ Apart' /\ Tracked' /\ Swept' /\ \A y \in Workers : FillsAt(y)'
              /\ \A y \in Threads : FreesAt(y)'
  <2>1. /\ OwnSlots /\ Apart /\ Tracked /\ Swept /\ \A y \in Workers : FillsAt(y)
        /\ \A y \in Threads : FreesAt(y)
    BY <1>15 DEF PeerInv
  <2>2. OwnSlots'
    <3>1. \A i \in Slots : slot[i].sudp \in {None} \cup Conns /\ slot[i].sudp # t
      BY <1>1, <1>2, <1>3, <2>1 DEF SlotTypes, SlotRecord, OwnSlots
    <3> QED BY <1>2, <1>7, <2>1, <3>1 DEF OwnSlots
  <2>3. Apart'
    BY <1>11, <2>1 DEF Apart
  <2>4. Tracked'
    <3> SUFFICES ASSUME NEW u \in Conns
                 PROVE  /\ conn'[u].life = "live" =>
                              \/ slot[conn'[u].slot].sudp = u
                              \/ \E y \in Workers : th'[y].pc \in {"create", "redial"}
                                                    /\ th'[y].conn = u
                        /\ conn'[u].life = "closing" =>
                              \E y \in Threads : th'[y].pc \in Frees /\ th'[y].conn = u
                        /\ cb[u] # "none" => /\ conn'[u].told # "nothing"
                                             /\ conn'[u].life \in {"live", "closing"}
      BY <1>2 DEF Tracked
    <3>1. CASE u = t
      BY <1>2, <1>3, <1>4, <1>7, <1>9, <3>1
    <3>2. CASE u # t
      <4>1. \A y \in Threads : th[y].conn = u => th'[y].pc = th[y].pc /\ th'[y].conn = u
        BY <1>2, <1>3, <1>11, SlotAssumption DEF Conns, None
      <4> QED BY <1>7, <2>1, <3>2, <4>1 DEF Tracked, Workers, Threads
    <3> QED BY <3>1, <3>2
  <2>5. Swept'
    <3>1. th'["app"] = th["app"]
      BY <1>8 DEF Workers, Threads
    <3> QED BY <1>2, <2>1, <3>1, SweptAlone
  <2>6. ASSUME NEW y \in Workers PROVE FillsAt(y)'
    <3>1. FillsAt(y) /\ y \in Threads /\ th[y].conn \in {None} \cup Conns
      BY <1>1, <2>1 DEF Workers, Threads, SlotTypes, ThreadRecord
    <3>2. CASE y = x
      <4>1. slot[s].state = "connecting" /\ slot[s].peer = p /\ slot[s].sudp = None
        BY <1>2, <1>10, <3>1, <3>2 DEF FillsAt, Fills
      <4> QED BY <1>2, <1>4, <1>7, <1>9, <3>2, <4>1 DEF FillsAt, Fills
    <3>3. CASE y # x
      <4>1. th'[y] = th[y]
        BY <1>8, <3>1, <3>3
      <4>2. \/ th[y].conn = None \/ conn'[th[y].conn] = conn[th[y].conn]
            \/ /\ conn[th[y].conn].life = "none" /\ conn'[th[y].conn].told = "nothing"
        BY <1>2, <1>4, <1>7, <3>1
      <4> QED BY <1>2, <3>1, <4>1, <4>2 DEF FillsAt
    <3> QED BY <3>2, <3>3
  <2>7. ASSUME NEW y \in Threads PROVE FreesAt(y)'
    <3>1. FreesAt(y) /\ th[y].conn \in {None} \cup Conns
      BY <1>1, <2>1 DEF SlotTypes, ThreadRecord
    <3>2. CASE y = x
      BY <1>2, <1>9, <3>2 DEF FreesAt, Frees
    <3>3. CASE y # x
      <4>1. th'[y] = th[y]
        BY <1>8, <3>3
      <4>2. conn[th[y].conn].life = "closing" /\ th[y].conn # None =>
               conn'[th[y].conn].life = "closing"
        BY <1>2, <1>7, <3>1
      <4> QED BY <1>2, <3>1, <4>1, <4>2 DEF FreesAt
    <3> QED BY <3>2, <3>3
  <2> QED BY <2>2, <2>3, <2>4, <2>5, <2>6, <2>7
<1>16. ~early => misused' \subseteq {"sender"}
  BY <1>2 DEF PeerInv
<1> QED BY <1>2, <1>12, <1>13, <1>14, <1>15, <1>16 DEF PeerInv

\* The slot gets the connection that was made for it.
LEMMA CreatedKeeps ==
    ASSUME PeerInv, NEW x \in Workers, Created(x)
    PROVE  PeerInv'
<1>1. SlotTypes /\ Posts /\ Bound /\ x \in Threads
  BY DEF PeerInv, Workers, Threads
<1> DEFINE s == th[x].slot
           t == th[x].conn
           q == IF At(x, "redial") THEN "redialed" ELSE "dial"
           r == [th[x] EXCEPT !.pc = q]
<1>2. /\ th[x].pc \in {"create", "redial"} /\ t # None
      /\ slot' = [slot EXCEPT ![s].sudp = t]
      /\ th' = [th EXCEPT ![x].pc = q]
      /\ UNCHANGED <<conn, cb, lock, retries, phase, early, misused>>
  BY DEF Created
<1>3. /\ th[x] \in ThreadRecord /\ s \in Slots /\ t \in Conns
      /\ q \in {"dial", "redialed"} /\ q \in Sync \cup App
      /\ x = "boot" => q = "dial"
  BY <1>1, <1>2
  DEF SlotTypes, ThreadRecord, Bound, Posts, Fills, Sync, Calls, At
<1>4. /\ r \in ThreadRecord /\ r.pc = q /\ r.slot = s /\ r.peer = th[x].peer /\ r.conn = t
  <2> HIDE DEF q
  <2> QED BY <1>3 DEF ThreadRecord
<1>5. Only(x) /\ th'[x] = r
  <2>1. th' = [th EXCEPT ![x] = r]
    BY <1>2
  <2> HIDE DEF r
  <2> QED BY <1>1, <1>4, <2>1, Turn
<1> HIDE DEF r, q, s, t
<1>6. /\ slot' \in [Slots -> SlotRecord]
      /\ \A i \in Slots \ {s} : slot'[i] = slot[i]
      /\ \A i \in Slots : slot'[i].state = slot[i].state /\ slot'[i].peer = slot[i].peer
      /\ slot'[s].sudp = t
  <2>1. slot \in [Slots -> SlotRecord]
    BY <1>1 DEF SlotTypes
  <2>2. slot' \in [Slots -> SlotRecord]
    BY <1>2, <1>3, <2>1 DEF SlotRecord
  <2> QED BY <1>2, <1>3, <2>1, <2>2 DEF SlotRecord
<1>7. \A y \in Threads \ {x} : th'[y] = th[y]
  BY <1>5 DEF Only
<1>8. s = th[x].slot /\ t = th[x].conn
  BY DEF s, t
<1>9. SlotTypes'
  BY <1>1, <1>2, <1>5, <1>6 DEF SlotTypes, Only
<1>10. Posts'
  <2>1. CASE x = "sync"
    BY <1>1, <1>2, <1>3, <1>4, <1>5, <1>7, <2>1
    DEF Posts, At, Threads, Sync, Calls, SyncHolds, AppHolds
  <2>2. CASE x = "boot"
    BY <1>1, <1>2, <1>3, <1>4, <1>5, <1>7, <2>2 DEF Posts, At, Threads, Calls, AppHolds
  <2> QED BY <2>1, <2>2 DEF Workers
<1>11. Bound'
  <2>1. Workers \subseteq Threads /\ th[x].peer \in Members
    BY <1>1, <1>2 DEF Workers, Threads, Bound, Fills
  <2>2. \A y \in Workers : /\ th'[y].pc \in Fills \cup {"connect", "retry"} =>
                                th'[y].peer \in Members
                           /\ th'[y].pc \in {"connect", "retry"} => th'[y].conn = None
    BY <1>1, <1>3, <1>4, <1>5, <1>7, <2>1 DEF Bound
  <2>3. \A y \in Threads : th'[y].pc \in Fills \cup Frees => th'[y].slot \in Slots
    BY <1>1, <1>3, <1>4, <1>5, <1>7 DEF Bound
  <2> QED BY <1>1, <1>2, <1>6, <2>2, <2>3 DEF Bound
<1>12. ASSUME ~early
       PROVE  /\ OwnSlots' /\ Apart' /\ Tracked' /\ Swept' /\ \A y \in Workers : FillsAt(y)'
              /\ \A y \in Threads : FreesAt(y)'
  <2>1. /\ OwnSlots /\ Apart /\ Tracked /\ Swept /\ \A y \in Workers : FillsAt(y)
        /\ \A y \in Threads : FreesAt(y)
    BY <1>12 DEF PeerInv
  <2>2. /\ slot[s].state = "connecting" /\ slot[s].peer = th[x].peer /\ slot[s].sudp = None
        /\ conn[t].told = "nothing" /\ conn[t].life = "live" /\ conn[t].slot = s
        /\ conn[t].peer = th[x].peer
    BY <1>2, <1>8, <2>1 DEF FillsAt, Fills
  <2>3. OwnSlots'
    BY <1>2, <1>6, <2>1, <2>2 DEF OwnSlots
  <2>4. \A y \in Threads \ {x} : th[y].pc \in Fills \cup Frees => th[y].slot \in Slots \ {s}
    BY <1>1, <1>2, <1>8, <2>1 DEF Apart, Bound, Fills
  <2>5. Apart'
    BY <1>3, <1>4, <1>5, <1>7, <2>1, <2>4 DEF Apart
  <2>6. Tracked'
    <3> SUFFICES ASSUME NEW u \in Conns
                 PROVE  /\ conn[u].life = "live" =>
                              \/ slot'[conn[u].slot].sudp = u
                              \/ \E y \in Workers : th'[y].pc \in {"create", "redial"}
                                                    /\ th'[y].conn = u
                        /\ conn[u].life = "closing" =>
                              \E y \in Threads : th'[y].pc \in Frees /\ th'[y].conn = u
                        /\ cb[u] # "none" => /\ conn[u].told # "nothing"
                                             /\ conn[u].life \in {"live", "closing"}
      BY <1>2 DEF Tracked
    <3>1. CASE u = t
      BY <1>6, <2>1, <2>2, <3>1 DEF Tracked
    <3>2. CASE u # t
      <4>1. ASSUME conn[u].life = "live", slot[conn[u].slot].sudp = u
            PROVE  slot'[conn[u].slot].sudp = u
        <5>1. conn[u].slot \in Slots /\ u # None
          BY <1>1, <4>1, SlotAssumption DEF Bound, Conns, None
        <5> QED BY <1>6, <2>2, <4>1, <5>1
      <4>2. ASSUME NEW y \in Threads, th[y].conn = u
            PROVE  th'[y] = th[y]
        BY <1>7, <1>8, <3>2, <4>2
      <4> QED BY <2>1, <4>1, <4>2 DEF Tracked, Workers, Threads
    <3> QED BY <3>1, <3>2
  <2>7. Swept'
    <3>1. th'["app"] = th["app"]
      BY <1>7 DEF Workers, Threads
    <3>2. UsedSlots' = UsedSlots
      BY <1>6 DEF UsedSlots
    <3> QED BY <2>1, <3>1, <3>2 DEF Swept, At
  <2>8. ASSUME NEW y \in Workers PROVE FillsAt(y)'
    <3>1. CASE y = x
      <4>1. /\ th'[x].pc \in {"dial", "redialed"} /\ th'[x].slot = s /\ th'[x].conn = t
            /\ th'[x].peer = th[x].peer
        BY <1>3, <1>4, <1>5
      <4>2. /\ slot'[s].state = "connecting" /\ slot'[s].peer = th[x].peer
            /\ slot'[s].sudp = t /\ conn'[t].told = "nothing" /\ conn'[t].life = "live"
        BY <1>2, <1>3, <1>6, <2>2
      <4> QED BY <1>2, <3>1, <4>1, <4>2 DEF FillsAt
    <3>2. CASE y # x
      <4>1. y \in Threads \ {x}
        BY <3>2 DEF Workers, Threads
      <4>2. th'[y] = th[y] /\ (th[y].pc \in Fills => slot'[th[y].slot] = slot[th[y].slot])
        BY <1>6, <1>7, <2>4, <4>1
      <4>3. CASE th[y].pc \in Fills
        <5>1. FillsAt(y) /\ conn' = conn
          BY <1>2, <2>1
        <5> QED BY <4>2, <4>3, <5>1 DEF FillsAt
      <4>4. CASE th[y].pc \notin Fills
        BY <4>2, <4>4 DEF FillsAt
      <4> QED BY <4>3, <4>4
    <3> QED BY <3>1, <3>2
  <2>9. ASSUME NEW y \in Threads PROVE FreesAt(y)'
    <3>1. CASE y = x
      BY <1>3, <1>4, <1>5, <3>1 DEF FreesAt, Frees
    <3>2. CASE y # x
      <4>1. th'[y] = th[y] /\ (th[y].pc \in Frees => slot'[th[y].slot] = slot[th[y].slot])
        BY <1>6, <1>7, <2>4, <3>2
      <4> QED BY <1>2, <2>1, <4>1 DEF FreesAt
    <3> QED BY <3>1, <3>2
  <2> QED BY <2>3, <2>5, <2>6, <2>7, <2>8, <2>9
<1>13. ~early => misused' \subseteq {"sender"}
  BY <1>2 DEF PeerInv
<1> QED BY <1>2, <1>9, <1>10, <1>11, <1>12, <1>13 DEF PeerInv

\* peer_connect dials, and its slot is freed if that fails; before that, it may be refused.
LEMMA DialKeeps ==
    ASSUME PeerInv, NEW x \in Workers, Refuse(x) \/ Dial(x) \/ DialFails(x)
    PROVE  PeerInv'
<1>1. SlotTypes /\ Posts /\ Bound /\ x \in Threads
  BY DEF PeerInv, Workers, Threads
<1> DEFINE s == th[x].slot
<1>2. ASSUME th[x].pc \in {"dial", "redialed"}, ~early
      PROVE  slot[s].sudp # None /\ conn[slot[s].sudp].life = "live"
  BY <1>2 DEF PeerInv, FillsAt, Fills
<1>3. CASE Dial(x)
  <2>1. /\ th[x].pc \in {"dial", "redialed"} /\ Use(x, {slot[s].sudp})
        /\ Return(x, IF At(x, "redialed") THEN "reaped" ELSE "idle")
        /\ UNCHANGED <<slot, conn, cb, lock, retries, phase, early>>
    BY <1>3 DEF Dial
  <2>2. PICK q \in {"idle", "reaped"} : Return(x, q) /\ (th[x].pc = "dial" => q = "idle")
    BY <2>1 DEF At
  <2>3. {"idle", "reaped"} \subseteq Sync \cup App
    BY DEF Sync, Calls
  <2>4. Only(x) /\ th'[x].pc = q
    BY <1>1, <2>2, <2>3, ReturnTurn
  <2>5. Posts'
    BY <1>1, <2>1, <2>2, <2>4
    DEF Posts, At, Only, Workers, Threads, Calls, Sync, SyncHolds, AppHolds
  <2>6. th'["app"] = th["app"]
    BY <2>4 DEF Only, Workers, Threads
  <2>7. ASSUME ~early PROVE Swept' /\ misused' \subseteq {"sender"}
    <3>1. misused \subseteq {"sender"} /\ Swept
      BY <2>7 DEF PeerInv
    <3> QED BY <1>2, <2>1, <2>6, <2>7, <3>1, SweptAlone, UseSafely
  <2>8. /\ th[x].pc \notin Frees \cup {"create", "redial"}
        /\ th'[x].pc \notin Fills \cup Frees \cup {"connect", "retry"}
    BY <2>1, <2>4 DEF Fills, Frees
  <2> QED BY <1>1, <2>1, <2>4, <2>5, <2>7, <2>8, Passive DEF SlotTypes
<1>4. ASSUME NEW p \in {"free_refused", "free_redial"}, BeginFree(x, s, p),
             UNCHANGED <<slot, cb, lock, retries, phase, early>>,
             ~early => misused' \subseteq {"sender"},
             \/ th[x].pc \in {"create", "dial"} /\ p = "free_refused"
             \/ th[x].pc \in {"redial", "redialed"} /\ p = "free_redial",
             th[x].pc \in {"create", "redial"} => th[x].conn = None
      PROVE  PeerInv'
  <2>1. s \in Slots /\ p \in Frees /\ retries' \subseteq [peer : Someone, stun : Stages]
    BY <1>1, <1>4 DEF Bound, Fills, Frees, SlotTypes
  <2> QED BY <1>1, <1>4, <2>1, BeginFreeKeeps
<1>5. CASE Refuse(x)
  <2>1. PICK p \in {"free_refused", "free_redial"} :
          /\ BeginFree(x, s, p)
          /\ \/ th[x].pc = "create" /\ p = "free_refused"
             \/ th[x].pc = "redial" /\ p = "free_redial"
    BY <1>5 DEF Refuse, At
  <2> QED BY <1>4, <1>5, <2>1 DEF Refuse, PeerInv
<1>6. CASE DialFails(x)
  <2>1. PICK p \in {"free_refused", "free_redial"} :
          /\ BeginFree(x, s, p)
          /\ \/ th[x].pc = "dial" /\ p = "free_refused"
             \/ th[x].pc = "redialed" /\ p = "free_redial"
    BY <1>6 DEF DialFails, At
  <2>2. /\ th[x].pc \in {"dial", "redialed"}
        /\ Use(x, IF slot[s].sudp = None THEN {} ELSE {slot[s].sudp})
        /\ UNCHANGED <<slot, cb, lock, retries, phase, early>>
    BY <1>6 DEF DialFails
  <2>3. ASSUME ~early PROVE misused' \subseteq {"sender"}
    <3>1. misused \subseteq {"sender"}
      BY <2>3 DEF PeerInv
    <3>2. Use(x, {slot[s].sudp})
      BY <1>2, <2>2, <2>3
    <3> QED BY <1>2, <2>2, <2>3, <3>1, <3>2, UseSafely
  <2> QED BY <1>4, <2>1, <2>2, <2>3
<1> QED BY <1>3, <1>5, <1>6

\* The passes that find a slot to free.
LEMMA SweepKeeps ==
    ASSUME PeerInv, NEW s \in Slots, Reap(s) \/ Silent(s) \/ Disconnect(s)
    PROVE  PeerInv'
<1>1. SlotTypes /\ {"sync", "app"} \subseteq Threads
  BY DEF PeerInv, Threads
<1>2. ~early => misused \subseteq {"sender"}
  BY DEF PeerInv
<1>3. {"free_reap", "free_silent", "free_all"} \subseteq Frees
  BY DEF Frees
<1>4. CASE Reap(s)
  <2>1. /\ th["sync"].pc = "reap" /\ slot[s].state = "failed" /\ BeginFree("sync", s, "free_reap")
        /\ UNCHANGED <<slot, cb, lock, phase, early, misused>>
    BY <1>4 DEF Reap, NextIn, FailedSlots, At
  <2>2. slot[s].peer \in Someone /\ slot[s].stun \in Stages
    BY <1>1 DEF SlotTypes, SlotRecord
  <2>3. slot[s].stun + 1 < Stuns => slot[s].stun + 1 \in Stages
    BY <2>2, SlotAssumption DEF Stages
  <2>4. retries' \subseteq [peer : Someone, stun : Stages]
    BY <1>1, <1>4, <2>2, <2>3 DEF Reap, SlotTypes
  <2> QED BY <1>1, <1>2, <1>3, <2>1, <2>4, BeginFreeKeeps
<1>5. CASE Silent(s)
  <2>1. /\ th["sync"].pc = "keepalive" /\ slot[s].state = "connected"
        /\ BeginFree("sync", s, "free_silent")
        /\ UNCHANGED <<slot, cb, lock, retries, phase, early, misused>>
    BY <1>5 DEF Silent, Connected, At
  <2>2. retries' \subseteq [peer : Someone, stun : Stages]
    BY <1>1, <2>1 DEF SlotTypes
  <2> QED BY <1>1, <1>2, <1>3, <2>1, <2>2, BeginFreeKeeps
<1>6. CASE Disconnect(s)
  <2>1. /\ th["app"].pc = "disconnect" /\ NextIn("app", UsedSlots, s)
        /\ BeginFree("app", s, "free_all")
        /\ UNCHANGED <<slot, cb, lock, retries, phase, early, misused>>
    BY <1>6 DEF Disconnect, At
  <2>2. retries' \subseteq [peer : Someone, stun : Stages]
    BY <1>1, <2>1 DEF SlotTypes
  <2> QED BY <1>1, <1>2, <1>3, <2>1, <2>2, BeginFreeKeeps
<1> QED BY <1>4, <1>5, <1>6

-----------------------------------------------------------------------------
(***************************************************************************)
(* Callbacks.                                                              *)
(***************************************************************************)
\* Nobody fills the slot s.
Settled(s) == \A x \in Workers : th[x].pc \in Fills => th[x].slot # s

\* A report that is not early finds nobody at work on the slot.
LEMMA FillingMeans ==
    ASSUME NEW s, ~Filling(s)
    PROVE  Settled(s)
BY DEF Filling, Settled, Fills, Workers

\* The connection of a callback is the one of its slot, unless it reported too early.
LEMMA Reported ==
    ASSUME PeerInv, ~early, NEW t \in Conns, conn[t].slot \in Slots,
           conn[t].life = "live" \/ (conn[t].told # "nothing" /\ conn[t].life = "closing"),
           conn[t].told # "nothing" \/ Settled(conn[t].slot)
    PROVE  slot[conn[t].slot].sudp = t /\ Settled(conn[t].slot)
<1>1. /\ SlotTypes /\ Bound /\ OwnSlots /\ Tracked /\ \A x \in Workers : FillsAt(x)
      /\ \A x \in Threads : FreesAt(x)
  BY DEF PeerInv
<1>2. t # None /\ Workers \subseteq Threads
  BY SlotAssumption DEF Conns, None, Workers, Threads
<1>3. slot[conn[t].slot].sudp = t
  <2>1. ASSUME NEW x \in Workers, th[x].pc \in {"create", "redial"}, th[x].conn = t
        PROVE  FALSE
    BY <1>1, <1>2, <2>1 DEF FillsAt, Fills, Settled
  <2>2. CASE conn[t].life = "live"
    BY <1>1, <2>1, <2>2 DEF Tracked
  <2>3. CASE conn[t].life = "closing"
    <3>1. PICK x \in Threads : th[x].pc \in Frees /\ th[x].conn = t
      BY <1>1, <2>3 DEF Tracked
    <3>2. slot[th[x].slot].sudp = t /\ th[x].slot \in Slots
      BY <1>1, <3>1 DEF FreesAt, Bound
    <3>3. conn[t].slot = th[x].slot
      BY <1>1, <1>2, <3>2 DEF OwnSlots
    <3> QED BY <3>2, <3>3
  <2> QED BY <2>2, <2>3
<1>4. ASSUME NEW x \in Workers, th[x].pc \in Fills, th[x].slot = conn[t].slot,
             conn[t].told # "nothing"
      PROVE  FALSE
  <2>1. CASE th[x].pc \in {"create", "redial"}
    BY <1>1, <1>2, <1>3, <1>4, <2>1 DEF FillsAt
  <2>2. CASE th[x].pc \in {"dial", "redialed"}
    BY <1>1, <1>2, <1>3, <1>4, <2>2 DEF FillsAt
  <2>3. CASE th[x].pc \in {"free_refused", "free_redial"}
    <3>1. th[x].conn = t
      BY <1>1, <1>2, <1>3, <1>4, <2>3 DEF FreesAt, Frees
    <3> QED BY <1>1, <1>2, <1>4, <3>1 DEF FillsAt
  <2> QED BY <1>4, <2>1, <2>2, <2>3 DEF Fills
<1> QED BY <1>3, <1>4 DEF Settled

\* A callback turns the state of its slot, and the threads do not move.
LEMMA CallbackStep ==
    ASSUME PeerInv, NEW t \in Conns, UNCHANGED <<lock, th, retries, phase>>,
           conn[t].slot \in Slots, conn[t].life # "none",
           \/ slot' = slot
           \/ \E q \in {"connected", "failed"} :
                 slot' = [slot EXCEPT ![conn[t].slot].state = q],
           \/ conn' = conn
           \/ \E w \in {"established", "failed"} : conn' = [conn EXCEPT ![t].told = w],
           \/ cb' = cb
           \/ \E c \in {"none", "check", "relay"} : cb' = [cb EXCEPT ![t] = c],
           early' \in BOOLEAN, early => early',
           ~early' => /\ slot[conn[t].slot].sudp = t /\ Settled(conn[t].slot)
                      /\ conn'[t].told # "nothing" /\ conn[t].life \in {"live", "closing"}
                      /\ misused' \subseteq {"sender"}
    PROVE  PeerInv'
<1>1. SlotTypes /\ Posts /\ Bound
  BY DEF PeerInv
<1>2. /\ slot' \in [Slots -> SlotRecord]
      /\ \A i \in Slots : /\ slot'[i].peer = slot[i].peer /\ slot'[i].sudp = slot[i].sudp
                          /\ slot'[i].stun = slot[i].stun
      /\ \A i \in Slots \ {conn[t].slot} : slot'[i] = slot[i]
      /\ \/ slot' = slot
         \/ slot'[conn[t].slot].state # "free"
  <2>1. slot \in [Slots -> SlotRecord]
    BY <1>1 DEF SlotTypes
  <2>2. CASE slot' = slot
    BY <2>1, <2>2
  <2>3. CASE slot' # slot
    <3> DEFINE s == conn[t].slot
    <3>0. PICK q \in {"connected", "failed"} : slot' = [slot EXCEPT ![s].state = q]
      BY <2>3
    <3>1. s \in Slots /\ slot' = [slot EXCEPT ![s].state = q]
      BY <3>0
    <3> HIDE DEF s
    <3>2. slot' \in [Slots -> SlotRecord]
      BY <2>1, <3>0, <3>1 DEF SlotRecord
    <3>3. /\ \A i \in Slots : /\ slot'[i].peer = slot[i].peer /\ slot'[i].sudp = slot[i].sudp
                              /\ slot'[i].stun = slot[i].stun
          /\ \A i \in Slots \ {s} : slot'[i] = slot[i]
          /\ slot'[s].state = q
      BY <2>1, <3>0, <3>1, <3>2 DEF SlotRecord
    <3> QED BY <3>2, <3>3 DEF s
  <2> QED BY <2>2, <2>3
<1>3. /\ conn' \in [Conns -> ConnRecord]
      /\ \A u \in Conns : /\ conn'[u].slot = conn[u].slot /\ conn'[u].peer = conn[u].peer
                          /\ conn'[u].life = conn[u].life
                          /\ u # t => conn'[u].told = conn[u].told
  <2>1. conn \in [Conns -> ConnRecord]
    BY <1>1 DEF SlotTypes
  <2>2. CASE conn' = conn
    BY <2>1, <2>2
  <2>3. CASE conn' # conn
    <3>1. PICK w \in {"established", "failed"} : conn' = [conn EXCEPT ![t].told = w]
      BY <2>3
    <3>2. conn' \in [Conns -> ConnRecord]
      BY <2>1, <3>1 DEF ConnRecord
    <3> QED BY <2>1, <3>1, <3>2 DEF ConnRecord
  <2> QED BY <2>2, <2>3
<1>4. cb' \in [Conns -> {"none", "check", "relay"}] /\ \A u \in Conns \ {t} : cb'[u] = cb[u]
  BY <1>1 DEF SlotTypes
<1>5. SlotTypes'
  BY <1>1, <1>2, <1>3, <1>4 DEF SlotTypes
<1>6. Posts'
  BY <1>1 DEF Posts, At
<1>7. Bound'
  <2>1. \A u \in Conns : /\ (conn'[u].life = "live" \/ cb'[u] # "none") => conn'[u].slot \in Slots
                         /\ cb'[u] # "none" => conn'[u].life # "none"
    BY <1>1, <1>3, <1>4 DEF Bound
  <2>2. \A i \in Slots : slot'[i].state = "free" => slot'[i].peer = None
    BY <1>1, <1>2 DEF Bound
  <2> QED BY <1>1, <1>2, <2>1, <2>2 DEF Bound
<1>8. ASSUME ~early'
      PROVE  /\ OwnSlots' /\ Apart' /\ Tracked' /\ Swept' /\ \A y \in Workers : FillsAt(y)'
             /\ \A y \in Threads : FreesAt(y)'
  <2>1. /\ OwnSlots /\ Apart /\ Tracked /\ Swept /\ \A y \in Workers : FillsAt(y)
        /\ \A y \in Threads : FreesAt(y)
    BY <1>8 DEF PeerInv
  <2>2. /\ slot[conn[t].slot].sudp = t /\ Settled(conn[t].slot)
        /\ conn'[t].told # "nothing" /\ conn[t].life \in {"live", "closing"} /\ t # None
    BY <1>8, SlotAssumption DEF Conns, None
  <2>3. \A i \in Slots : (slot'[i].state = "free") <=> (slot[i].state = "free")
    BY <1>2, <2>1, <2>2 DEF OwnSlots
  <2>4. OwnSlots'
    <3>1. \A i \in Slots : slot[i].sudp \in {None} \cup Conns
      BY <1>1 DEF SlotTypes, SlotRecord
    <3> QED BY <1>2, <1>3, <2>1, <2>3, <3>1 DEF OwnSlots
  <2>5. Apart'
    BY <2>1 DEF Apart
  <2>6. Tracked'
    <3> SUFFICES ASSUME NEW u \in Conns
                 PROVE  /\ conn'[u].life = "live" =>
                              \/ slot'[conn'[u].slot].sudp = u
                              \/ \E y \in Workers : th[y].pc \in {"create", "redial"}
                                                    /\ th[y].conn = u
                        /\ conn'[u].life = "closing" =>
                              \E y \in Threads : th[y].pc \in Frees /\ th[y].conn = u
                        /\ cb'[u] # "none" => /\ conn'[u].told # "nothing"
                                              /\ conn'[u].life \in {"live", "closing"}
      BY DEF Tracked
    <3>1. conn'[u].life = "live" =>
                              \/ slot'[conn'[u].slot].sudp = u
                              \/ \E y \in Workers : th[y].pc \in {"create", "redial"}
                                                    /\ th[y].conn = u
      <4>1. conn[u].life = "live" => conn[u].slot \in Slots
        BY <1>1 DEF Bound
      <4> QED BY <1>2, <1>3, <2>1, <4>1 DEF Tracked
    <3>2. conn'[u].life = "closing" =>
                              \E y \in Threads : th[y].pc \in Frees /\ th[y].conn = u
      BY <1>3, <2>1 DEF Tracked
    <3>3. cb'[u] # "none" => conn'[u].told # "nothing" /\ conn'[u].life \in {"live", "closing"}
      BY <1>3, <1>4, <2>1, <2>2 DEF Tracked
    <3> QED BY <3>1, <3>2, <3>3
  <2>7. Swept'
    <3>1. UsedSlots' = UsedSlots
      BY <2>3 DEF UsedSlots
    <3> QED BY <2>1, <3>1 DEF Swept, At
  <2>8. ASSUME NEW y \in Workers PROVE FillsAt(y)'
    <3>1. FillsAt(y) /\ y \in Threads /\ th[y].conn \in {None} \cup Conns
      BY <1>1, <2>1 DEF Workers, Threads, SlotTypes, ThreadRecord
    <3> SUFFICES ASSUME th[y].pc \in Fills
                 PROVE  FillsAt(y)'
      BY DEF FillsAt
    <3>2. th[y].slot \in Slots /\ th[y].slot # conn[t].slot
      BY <1>1, <2>2, <3>1 DEF Bound, Settled
    <3>3. slot'[th[y].slot] = slot[th[y].slot]
      BY <1>2, <3>2
    <3>4. th[y].conn # t
      <4>1. CASE th[y].pc \in {"create", "redial"}
        BY <2>2, <3>1, <3>2, <4>1 DEF FillsAt
      <4>2. CASE th[y].pc \in {"dial", "redialed"}
        BY <2>1, <2>2, <3>1, <3>2, <4>2 DEF FillsAt, OwnSlots
      <4>3. CASE th[y].pc \in {"free_refused", "free_redial"}
        BY <2>1, <2>2, <3>1, <3>2, <4>3 DEF FreesAt, Frees, OwnSlots
      <4> QED BY <4>1, <4>2, <4>3 DEF Fills
    <3> QED BY <1>3, <3>1, <3>3, <3>4 DEF FillsAt
  <2>9. ASSUME NEW y \in Threads PROVE FreesAt(y)'
    <3>1. FreesAt(y) /\ th[y].conn \in {None} \cup Conns
      BY <1>1, <2>1 DEF SlotTypes, ThreadRecord
    <3>2. th[y].pc \in Frees => th[y].slot \in Slots
      BY <1>1 DEF Bound
    <3> QED BY <1>2, <1>3, <2>3, <3>1, <3>2 DEF FreesAt
  <2> QED BY <2>4, <2>5, <2>6, <2>7, <2>8, <2>9
<1> QED BY <1>5, <1>6, <1>7, <1>8 DEF PeerInv

\* Reports, twin checks and relays.
LEMMA CallbackKeeps ==
    ASSUME PeerInv, NEW t \in Conns,
           Established(t) \/ Failed(t) \/ Relay(t) \/ TwinCheck(t) \/ RelayOut(t)
    PROVE  PeerInv'
<1>1. SlotTypes /\ Bound
  BY DEF PeerInv
<1>2. early \in BOOLEAN /\ conn \in [Conns -> ConnRecord]
  BY <1>1 DEF SlotTypes
<1>3. conn[t].slot \in Slots /\ conn[t].life # "none"
  BY <1>1 DEF Bound, Established, Failed, Relay, TwinCheck, RelayOut, Ready
<1>4. ~early => misused \subseteq {"sender"}
  BY DEF PeerInv
<1>5. CASE Established(t) \/ Failed(t)
  <2>1. PICK w \in {"established", "failed"}, q \in {"connected", "failed"} :
          /\ conn[t].life = "live" /\ cb[t] = "none"
          /\ conn' = [conn EXCEPT ![t].told = w]
          /\ slot' = [slot EXCEPT ![conn[t].slot].state = q]
          /\ early' = (early \/ Filling(conn[t].slot))
          /\ cb' = cb \/ cb' = [cb EXCEPT ![t] = "check"]
          /\ UNCHANGED <<lock, th, retries, phase, misused>>
    BY <1>5 DEF Established, Failed, Ready
  <2>2. conn'[t].told # "nothing"
    BY <1>2, <2>1 DEF ConnRecord
  <2>3. early' \in BOOLEAN /\ (early => early')
    BY <1>2, <2>1 DEF Filling
  <2>4. ASSUME ~early' PROVE slot[conn[t].slot].sudp = t /\ Settled(conn[t].slot)
    BY <1>3, <2>1, <2>4, FillingMeans, Reported
  <2> QED BY <1>3, <1>4, <2>1, <2>2, <2>3, <2>4, CallbackStep
<1>6. CASE Relay(t) \/ TwinCheck(t) \/ RelayOut(t)
  <2>1. /\ UNCHANGED <<conn, lock, th, retries, phase, early>>
        /\ cb' = [cb EXCEPT ![t] = "relay"] \/ cb' = [cb EXCEPT ![t] = "none"]
        /\ slot' = slot \/ slot' = [slot EXCEPT ![conn[t].slot].state = "failed"]
    BY <1>6 DEF Relay, TwinCheck, RelayOut
  <2>2. ASSUME ~early
        PROVE  /\ slot[conn[t].slot].sudp = t /\ Settled(conn[t].slot)
               /\ conn[t].told # "nothing" /\ conn[t].life \in {"live", "closing"}
    <3>1. conn[t].told # "nothing" /\ conn[t].life \in {"live", "closing"}
      BY <1>6, <2>2 DEF Relay, TwinCheck, RelayOut, Ready, PeerInv, Tracked
    <3> QED BY <1>3, <2>2, <3>1, Reported
  <2>3. ASSUME ~early PROVE misused' \subseteq {"sender"}
    <3>1. CASE Relay(t)
      BY <1>4, <2>3, <3>1 DEF Relay
    <3>2. CASE TwinCheck(t)
      BY <1>4, <2>2, <2>3, <3>2, UseSafely DEF TwinCheck
    <3>3. CASE RelayOut(t)
      <4> DEFINE ts == {slot[s].sudp : s \in {i \in Slots : Connected(i) /\ i # conn[t].slot}}
      <4>1. Use("callback", ts) /\ lock = Unlocked
        BY <3>3 DEF RelayOut
      <4>2. \A u \in ts : conn[u].life = "live"
        BY <2>3, <4>1, LockedOut
      <4> HIDE DEF ts
      <4> QED BY <1>4, <2>3, <4>1, <4>2, UseSafely
    <3> QED BY <1>6, <3>1, <3>2, <3>3
  <2> QED BY <1>2, <1>3, <2>1, <2>2, <2>3, CallbackStep
<1> QED BY <1>5, <1>6

-----------------------------------------------------------------------------
(***************************************************************************)
(* The invariant, and what follows from it.                                *)
(***************************************************************************)
LEMMA PeerInvStep == PeerInv /\ [Next]_vars => PeerInv'
<1> SUFFICES ASSUME PeerInv, [Next]_vars PROVE PeerInv'
  OBVIOUS
<1>1. CASE UNCHANGED vars
  BY <1>1
  DEF vars, PeerInv, SlotTypes, Posts, Bound, OwnSlots, Apart, Tracked, Swept, FillsAt, FreesAt,
      UsedSlots, At
<1>2. CASE Start \/ Stop \/ Destroy
  BY <1>2, LifeKeeps, SweepKeeps DEF Destroy
<1>3. CASE Pass
  BY <1>3, PassKeeps, SweepKeeps, RetryKeeps DEF Pass
<1>4. CASE Broadcast \/ SendOut \/ \E p \in Members : Send(p)
  BY <1>4, SendKeeps
<1>5. CASE \E p \in Members : auto_connect_peers(p) \/ boot_handle_conn_req(p)
  BY <1>5, CallKeeps
<1>6. CASE \E x \in {"sync", "boot"} : Connecting(x)
  BY <1>6, ClaimKeeps, CreateKeeps, CreatedKeeps, DialKeeps DEF Connecting, Workers
<1>7. CASE \E x \in Threads : slot_free(x)
  BY <1>7, SlotFreeKeeps
<1>8. CASE \E t \in Conns : Established(t) \/ Failed(t) \/ Relay(t) \/ Callback(t)
  BY <1>8, CallbackKeeps DEF Callback
<1> QED BY <1>1, <1>2, <1>3, <1>4, <1>5, <1>6, <1>7, <1>8 DEF Next

\* What the invariant gives, one promise of PeerTableSound at a time: the types, ...
LEMMA PeerInvTypes == PeerInv => TypeOK
BY DEF PeerInv, SlotTypes, TypeOK, SlotRecord, ConnRecord, Stages, Threads

\* ... one slot per peer, with its own connection, misused by senders alone, ...
LEMMA PeerInvOwns == PeerInv => OneSlotPerPeer /\ OwnConnection /\ OnlySendersMisuse
<1> SUFFICES ASSUME PeerInv PROVE OneSlotPerPeer /\ OwnConnection /\ OnlySendersMisuse
  OBVIOUS
<1>1. OneSlotPerPeer
  <2>1. ASSUME NEW s \in Slots, slot[s].state # "free", slot[s].peer = None PROVE early
    BY <2>1, SlotAssumption DEF PeerInv, OwnSlots
  <2> QED BY <2>1 DEF OneSlotPerPeer, PeerInv, Bound
<1>2. OwnConnection
  BY DEF OwnConnection, PeerInv, OwnSlots
<1>3. OnlySendersMisuse
  BY DEF OnlySendersMisuse, PeerInv
<1> QED BY <1>1, <1>2, <1>3

\* ... nothing left behind by a closed client, ...
LEMMA PeerInvSweeps == PeerInv => NothingLeaks
<1> SUFFICES ASSUME PeerInv, At("app", "closed"), ~early, NEW t \in Conns
             PROVE  conn[t].life \in {"none", "freed"}
  BY DEF NothingLeaks
<1>1. SlotTypes /\ Posts /\ Bound /\ OwnSlots /\ Tracked /\ UsedSlots = {} /\ t # None
  BY SlotAssumption DEF PeerInv, Swept, Conns, None
<1>2. At("sync", "idle") /\ At("boot", "idle")
  BY <1>1 DEF Posts, At
<1>3. conn[t].life # "closing"
  BY <1>1, <1>2 DEF Tracked, Threads, At, Frees
<1>4. conn[t].life # "live"
  <2>1. conn[t].life = "live" => slot[conn[t].slot].sudp = t /\ conn[t].slot \in Slots
    BY <1>1, <1>2 DEF Tracked, Bound, Workers, At
  <2> QED BY <1>1, <2>1 DEF OwnSlots, UsedSlots
<1> QED BY <1>1, <1>3, <1>4 DEF SlotTypes, ConnRecord

\* A pass over some of the slots has a next one to visit, or is through.
LEMMA PassGoesOn ==
    ASSUME SlotTypes, NEW x \in Threads, NEW A \in SUBSET Slots
    PROVE  HasNext(x, A) \/ NoneIn(x, A)
<1> SUFFICES ASSUME ~NoneIn(x, A) PROVE HasNext(x, A)
  OBVIOUS
<1> DEFINE B == {s \in A : s > th[x].scan}
<1>1. A \subseteq Nat /\ th[x].scan \in Nat
  BY SlotAssumption DEF SlotTypes, ThreadRecord
<1>2. B \in SUBSET Nat /\ B # {}
  <2>1. PICK s \in A : ~(s <= th[x].scan)
    BY DEF NoneIn
  <2>2. s > th[x].scan
    BY <1>1, <2>1
  <2> QED BY <1>1, <2>1, <2>2
<1>3. PICK s \in B : \A i \in B : s <= i
  <2> HIDE DEF B
  <2> QED BY <1>2, Least
<1> QED BY <1>3 DEF HasNext, NextIn

\* Somebody who frees a slot can go on, or waits for a callback.
LEMMA FreeGoesOn ==
    ASSUME SlotTypes, NEW x \in Threads, Freeing(x)
    PROVE  \/ Freeing(x) /\ CallbackOver(th[x].conn)
           \/ th[x].conn \in Conns /\ cb[th[x].conn] # "none"
BY DEF CallbackOver, SlotTypes, ThreadRecord

\* A worker in the middle of something, while nobody has peer_lock, can go on or waits for a
\* callback.
LEMMA WorkerWaits ==
    ASSUME PeerInv, NEW x \in Workers, lock = Unlocked, ~At(x, "idle")
    PROVE  \/ SyncGoesOn \/ WorkerGoesOn(x)
           \/ Freeing(x) /\ CallbackOver(th[x].conn)
           \/ \E t \in Conns : cb[t] # "none"
<1>1. SlotTypes /\ Posts /\ x \in Threads
  BY DEF PeerInv, Workers, Threads
<1>2. th[x].pc \in {"connect", "retry", "create", "redial", "dial", "redialed", "free_refused",
                    "free_redial", "reaped"}
  <2>1. CASE x = "sync"
    BY <1>1, <2>1 DEF Posts, At, Sync, SyncHolds, Calls, Unlocked
  <2>2. CASE x = "boot"
    BY <1>1, <2>2 DEF Posts, At, Calls
  <2> QED BY <2>1, <2>2 DEF Workers
<1>3. CASE th[x].pc \in {"connect", "retry", "create", "redial", "dial", "redialed"}
  BY <1>3 DEF WorkerGoesOn
<1>4. CASE th[x].pc \in {"free_refused", "free_redial"}
  <2>1. Freeing(x)
    BY <1>4 DEF Freeing
  <2> QED BY <1>1, <2>1, FreeGoesOn
<1>5. CASE th[x].pc = "reaped"
  <2>1. x = "sync"
    BY <1>1, <1>5 DEF Posts, Calls, Workers
  <2> QED BY <1>5, <2>1 DEF SyncGoesOn, At
<1> QED BY <1>2, <1>3, <1>4, <1>5

\* ... and no way to hang but the circular wait.
LEMMA PeerInvGoesOn == PeerInv => HangsOnlyWedged
<1> SUFFICES ASSUME PeerInv, phase = "stopping", ~Wedged
             PROVE  \/ AppGoesOn \/ SyncGoesOn \/ WorkerGoesOn("sync") \/ WorkerGoesOn("boot")
                    \/ \E x \in Threads : Freeing(x) /\ CallbackOver(th[x].conn)
                    \/ lock = Unlocked /\ \E t \in Conns : cb[t] # "none"
  BY DEF HangsOnlyWedged
<1>1. SlotTypes /\ Posts /\ {"sync", "app"} \subseteq Threads /\ None \notin Conns
  BY SlotAssumption DEF PeerInv, Threads, None, Conns
<1>2. CASE lock = "app"
  <2>1. th["app"].pc \in AppHolds
    BY <1>1, <1>2 DEF Posts
  <2>2. CASE At("app", "disconnect")
    <3>1. HasNext("app", UsedSlots) \/ NoneIn("app", UsedSlots)
      BY <1>1, PassGoesOn DEF UsedSlots
    <3> QED BY <2>2, <3>1 DEF AppGoesOn
  <2>3. CASE At("app", "free_all")
    BY <1>1, <1>2, <2>3, FreeGoesOn DEF Freeing, At, Wedged
  <2> QED BY <2>1, <2>2, <2>3 DEF AppHolds, At
<1>3. CASE lock = "sync"
  <2>1. th["sync"].pc \in SyncHolds
    BY <1>1, <1>3 DEF Posts
  <2>2. CASE At("sync", "reap")
    <3>1. HasNext("sync", FailedSlots) \/ NoneIn("sync", FailedSlots)
      BY <1>1, PassGoesOn DEF FailedSlots
    <3> QED BY <2>2, <3>1 DEF SyncGoesOn
  <2>3. CASE At("sync", "keepalive")
    BY <2>3 DEF SyncGoesOn
  <2>4. CASE th["sync"].pc \in {"free_reap", "free_silent"}
    BY <1>1, <1>3, <2>4, FreeGoesOn DEF Freeing, Wedged
  <2> QED BY <2>1, <2>2, <2>3, <2>4 DEF SyncHolds, At
<1>4. CASE lock = Unlocked
  <2>1. At("app", "idle")
    BY <1>1, <1>4 DEF Posts, At, Unlocked
  <2>2. CASE At("sync", "idle") /\ At("boot", "idle")
    BY <1>4, <2>1, <2>2 DEF AppGoesOn, Joined
  <2>3. CASE ~At("sync", "idle") \/ ~At("boot", "idle")
    BY <1>4, <2>3, WorkerWaits DEF Workers, Threads
  <2> QED BY <2>2, <2>3
<1> QED BY <1>1, <1>2, <1>3, <1>4 DEF SlotTypes

\* The invariant holds in every state of every behaviour.
LEMMA PeerInvAlways == Spec => []PeerInv
BY PeerInvInit, PeerInvStep, PTL DEF Spec

(* Whatever the workers, callbacks, senders and the shutdown do, in whatever order: a peer has one *)
(* slot, a slot has its own connection, a closed client has freed them all, and it hangs only      *)
(* where slot_free joins, under peer_lock, a receive thread that waits for the lock.               *)
THEOREM PeerTableIsSound == Spec => []PeerTableSound
<1>1. PeerInv => PeerTableSound
  BY PeerInvTypes, PeerInvOwns, PeerInvSweeps, PeerInvGoesOn DEF PeerTableSound
<1> QED BY <1>1, PeerInvAlways, PTL

-----------------------------------------------------------------------------
(***************************************************************************)
(* The verification of a join.                                             *)
(***************************************************************************)
Places == {"idle", "check", "record", "bump", "bumped", "tally", "tallied", "eval", "ask",
           "fail", "pass", "report"}
Deciding == {"eval", "ask", "fail", "pass"}

JoinState ==
    [state : JoinStates, votes : [1 .. MAX_TRACKED -> Attesters \cup {NoVote}],
     count : Nat, agree : Nat, disagree : Nat, asked : BOOLEAN, override : BOOLEAN,
     bypass : BOOLEAN, required : Nat]

JoinTypes ==
    /\ js \in JoinState
    /\ view \in [Attesters -> {"same", "other", "badkey"}]
    /\ active \subseteq Attesters /\ joining \in BOOLEAN /\ overlap \in BOOLEAN /\ faults \in Nat
    /\ link \in [Attesters -> [up : BOOLEAN, nonce_sent : BOOLEAN, msg : {"none", "nonce", "header"}]]
    /\ rcv \in [Attesters -> [pc : Places, tmp : Nat]]
    /\ fired \in [verified : Nat, failed : Nat]

\* Nothing of the protocol happens before gr_join_begin.
Begun ==
    \A m \in Attesters :
        (link[m].nonce_sent \/ link[m].msg # "none" \/ rcv[m].pc # "idle") => js.state # "NONE"

\* Only a fault takes a member away.
Steady == faults = 0 => active = Attesters

\* One thread at a time.
Solo == \A m, n \in Attesters : rcv[m].pc # "idle" /\ rcv[n].pc # "idle" => m = n

Tallying == \E m \in Attesters : rcv[m].pc \in {"tally", "tallied"}

\* The votes counted are of distinct members, none of them the inviter, and each is tallied
\* for its view but the one that is being tallied.
Ballot ==
    /\ js.count <= MAX_TRACKED
    /\ \A i \in 1 .. js.count : /\ js.votes[i] \in Attesters \ {Inviter}
                                /\ view[js.votes[i]] # "badkey"
    /\ \A i, j \in 1 .. js.count : js.votes[i] = js.votes[j] => i = j
    /\ IF Tallying THEN js.agree + js.disagree + 1 = js.count
                   ELSE js.agree + js.disagree = js.count
    /\ js.disagree = 0 => \A i \in 1 .. js.count : \/ view[js.votes[i]] = "same"
                                                   \/ i = js.count /\ Tallying

\* What a thread has established at its place.
Candidate(m) ==
    /\ js.state = "PROVISIONAL" /\ m # Inviter /\ view[m] # "badkey"
    /\ ~has_voted(m) /\ js.count < MAX_TRACKED

AtPlace(m) ==
    /\ rcv[m].pc \in {"record", "bump", "bumped"} => Candidate(m)
    /\ rcv[m].pc \in {"bump", "bumped"} => js.votes[js.count + 1] = m
    /\ rcv[m].pc = "bumped" => rcv[m].tmp = js.count
    /\ rcv[m].pc \in {"tally", "tallied"} =>
          js.state = "PROVISIONAL" /\ js.count >= 1 /\ js.votes[js.count] = m
    /\ rcv[m].pc = "tallied" => rcv[m].tmp = IF view[m] = "same" THEN js.agree ELSE js.disagree
    /\ rcv[m].pc \in Deciding => js.state = "PROVISIONAL"
    /\ rcv[m].pc \in Deciding \cup {"report"} => has_voted(m)
    /\ rcv[m].pc = "pass" => js.disagree = 0 /\ js.agree >= js.required
    /\ rcv[m].pc \in {"ask", "fail"} => js.asked

Placed == \A m \in Attesters : AtPlace(m)

\* An open verification has no dissent and no quorum yet, unless a thread is about to act on it.
Open ==
    js.state = "PROVISIONAL" =>
        /\ ~js.bypass /\ ~js.override /\ js.required \in MIN_QUORUM .. MAX_QUORUM
        /\ js.asked => \E m \in Attesters : rcv[m].pc \in {"ask", "fail"}
        /\ (\A m \in Attesters : rcv[m].pc \notin Deciding) =>
              js.disagree = 0 /\ js.agree < js.required

\* A verification that was decided by votes alone had a quorum and no dissent.
Decided ==
    js.state = "VERIFIED" /\ ~js.bypass /\ ~js.override =>
        /\ js.agree >= js.required /\ js.disagree = 0 /\ js.required >= MIN_QUORUM

\* Nothing is told before the verdict, nor by two threads.
Told ==
    /\ fired.verified + fired.failed <= 1
    /\ fired.verified = 1 => js.state = "VERIFIED"
    /\ fired.failed = 1 => js.state = "FAILED"
    /\ (\E m \in Attesters : rcv[m].pc \notin {"idle", "check"}) =>
          fired.verified = 0 /\ fired.failed = 0

\* An answer that was processed is counted, unless it never counts.
Answered ==
    faults = 0 /\ js.state = "PROVISIONAL" =>
        \A m \in Attesters :
            link[m].nonce_sent /\ link[m].msg = "none" /\ rcv[m].pc = "idle" =>
                m = Inviter \/ view[m] = "badkey" \/ has_voted(m)

JoinInv ==
    /\ JoinTypes /\ Begun /\ Steady
    /\ ~overlap => Solo /\ Ballot /\ Placed /\ Open /\ Decided /\ Told /\ Answered

-----------------------------------------------------------------------------
\* The quorum lies between the floor and the cap, whatever the size of the group.
LEMMA CeilSqrtType ==
    ASSUME NEW n \in Nat
    PROVE  CeilSqrt(n) \in Nat
<1> DEFINE U == {q \in 0 .. n : q * q >= n}
<1>1. U \subseteq Nat /\ U # {}
  <2>1. n * n >= n
    <3>1. CASE n = 0
      BY <3>1
    <3>2. CASE n >= 1
      BY <3>2
    <3> QED BY <3>1, <3>2
  <2>2. n \in U
    BY <2>1
  <2> QED BY <2>2
<1> HIDE DEF U
<1>2. PICK q \in U : \A y \in U : q <= y
  BY <1>1, Least
<1>3. q \in 0 .. n /\ q * q >= n
  BY DEF U
<1>4. \A p \in 0 .. (q - 1) : p * p < n
  <2> SUFFICES ASSUME NEW p \in 0 .. (q - 1) PROVE p * p < n
    OBVIOUS
  <2>1. p \in 0 .. n /\ ~(q <= p)
    BY <1>3
  <2>2. p \notin U
    BY <2>1, <1>2
  <2>3. ~(p * p >= n)
    BY <2>1, <2>2 DEF U
  <2>4. p * p \in Int
    BY <2>1
  <2> QED BY <2>3, <2>4
<1>5. CeilSqrt(n) \in 0 .. n
  BY <1>3, <1>4 DEF CeilSqrt
<1> QED BY <1>5

\* compute_quorum stays between the floor and the cap.
LEMMA QuorumType ==
    ASSUME NEW n \in Nat
    PROVE  compute_quorum(n) \in MIN_QUORUM .. MAX_QUORUM
<1>1. CASE n <= 2
  BY <1>1, JoinAssumption DEF compute_quorum
<1>2. CASE n > 2
  <2>1. CeilSqrt(n - 2) \in Nat
    BY <1>2, CeilSqrtType
  <2> QED BY <2>1, <1>2, JoinAssumption DEF compute_quorum
<1> QED BY <1>1, <1>2

\* The active members can be counted.
LEMMA ActiveSize ==
    ASSUME active \subseteq Attesters
    PROVE  Cardinality(active) \in Nat
BY JoinAssumption, FS_Subset, FS_CardinalityType

\* Distinct votes are as many voters.
LEMMA VotersSize ==
    ASSUME NEW n \in Nat, NEW v,
           \A i, j \in 1 .. n : v[i] = v[j] => i = j
    PROVE  Cardinality({v[i] : i \in 1 .. n}) = n
<1> DEFINE V == {v[i] : i \in 1 .. n}
           f == [i \in 1 .. n |-> v[i]]
<1>1. f \in Bijection(1 .. n, V)
  BY DEF Bijection, Injection, Surjection, IsInjective
<1>2. IsFiniteSet(1 .. n) /\ Cardinality(1 .. n) = n
  BY FS_Interval
<1> HIDE DEF f, V
<1>3. Cardinality(1 .. n) = Cardinality(V)
  BY <1>1, <1>2, FS_Bijection DEF ExistsBijection
<1> QED BY <1>2, <1>3 DEF V

-----------------------------------------------------------------------------
\* Before gr_join_begin the invariant holds.
LEMMA JoinInvInit == JoinInit => JoinInv
<1> SUFFICES ASSUME JoinInit PROVE JoinInv
  OBVIOUS
<1> USE DEF JoinInit, NoJoin, LinkDown, Waiting
<1>1. JoinTypes
  BY JoinAssumption DEF JoinTypes, JoinState, JoinStates, Places, NoVote
<1>2. Begun /\ Steady /\ Solo
  BY DEF Begun, Steady, Solo
<1>3. Ballot
  BY JoinAssumption DEF Ballot, Tallying
<1>4. Placed
  BY DEF Placed, AtPlace, Deciding
<1>5. Open /\ Decided /\ Told /\ Answered
  BY DEF Open, Decided, Told, Answered
<1> QED BY <1>1, <1>2, <1>3, <1>4, <1>5 DEF JoinInv

\* The state of a join that has just begun.
Begins(x, st, by, rq) ==
    /\ x \in JoinState
    /\ x.state = st /\ x.bypass = by /\ x.required = rq
    /\ x.count = 0 /\ x.agree = 0 /\ x.disagree = 0
    /\ x.asked = FALSE /\ x.override = FALSE
Fresh(st, by, rq) ==
    [state : {st}, votes : [1 .. MAX_TRACKED -> Attesters \cup {NoVote}], count : {0}, agree : {0},
     disagree : {0}, asked : {FALSE}, override : {FALSE}, bypass : {by}, required : {rq}]

\* gr_join_begin leaves a join that is one.
LEMMA FreshType ==
    ASSUME NEW st \in JoinStates, NEW by \in BOOLEAN, NEW rq \in Nat, NEW x \in Fresh(st, by, rq)
    PROVE  Begins(x, st, by, rq)
<1> DEFINE B == BOOLEAN
           N == Nat
           V == [1 .. MAX_TRACKED -> Attesters \cup {NoVote}]
           F == {FALSE}
           Z == {0}
           Y == {by}
           R == {rq}
<1>1. F \subseteq B /\ Y \subseteq B /\ R \subseteq N /\ Z \subseteq N
  OBVIOUS
<1>2. x \in [state : {st}, votes : V, count : Z, agree : Z, disagree : Z,
             asked : F, override : F, bypass : Y, required : R]
  BY DEF Fresh
<1>3. /\ \A y \in F : y = FALSE
      /\ \A y \in Z : y = 0
      /\ \A y \in Y : y = by
      /\ \A y \in R : y = rq
  OBVIOUS
<1> HIDE DEF B, F, V, N, Z, Y, R
<1>4. x \in [state : JoinStates, votes : V, count : N, agree : N, disagree : N,
             asked : B, override : B, bypass : B, required : N]
  BY <1>1, <1>2
<1>5. /\ x.state = st /\ x.required \in R /\ x.count \in Z /\ x.agree \in Z /\ x.disagree \in Z
      /\ x.bypass \in Y /\ x.asked \in F /\ x.override \in F
  BY <1>2
<1>6. x \in JoinState
  BY <1>4 DEF B, V, N, JoinState
<1> QED BY <1>3, <1>5, <1>6 DEF Begins

\* gr_join_begin finds no thread at work and no member asked.
LEMMA BeginKeeps ==
    ASSUME JoinInv, NEW t \in BOOLEAN, NEW p \in BOOLEAN, JoinBegin(t, p)
    PROVE  JoinInv'
<1>1. /\ js.state = "NONE"
      /\ UNCHANGED <<view, active, asker, joining, link, rcv, fired, overlap, faults>>
      /\ \/ js' = [NoJoin EXCEPT !.state = "FAILED"]
         \/ js' = [NoJoin EXCEPT !.state = "VERIFIED", !.bypass = TRUE]
         \/ js' = [NoJoin EXCEPT !.state = "PROVISIONAL",
                                 !.required = compute_quorum(Cardinality(active))]
  BY DEF JoinBegin
<1>2. JoinTypes /\ Begun /\ Steady
  BY DEF JoinInv
<1>3. \A m \in Attesters : /\ rcv[m].pc = "idle" /\ rcv'[m].pc = "idle"
                           /\ ~link[m].nonce_sent /\ link[m].msg = "none"
  BY <1>1, <1>2 DEF Begun
<1>4. compute_quorum(Cardinality(active)) \in MIN_QUORUM .. MAX_QUORUM
  BY <1>2, ActiveSize, QuorumType DEF JoinTypes
<1>5. /\ js' \in JoinState
      /\ js'.count = 0 /\ js'.agree = 0 /\ js'.disagree = 0 /\ js'.asked = FALSE
      /\ js'.override = FALSE
      /\ js'.state = "PROVISIONAL" => js'.bypass = FALSE /\ js'.required \in MIN_QUORUM .. MAX_QUORUM
      /\ js'.state = "VERIFIED" => js'.bypass = TRUE
      /\ js'.state # "NONE"
  <2>1. NoJoin \in Fresh("NONE", FALSE, 0)
    BY DEF NoJoin, Fresh
  <2>2. compute_quorum(Cardinality(active)) \in Nat
    BY <1>4, JoinAssumption
  <2>6. {"FAILED", "VERIFIED", "PROVISIONAL"} \subseteq JoinStates
    BY DEF JoinStates
  <2>3. CASE js' = [NoJoin EXCEPT !.state = "FAILED"]
    <3>1. js' \in Fresh("FAILED", FALSE, 0)
      BY <2>1, <2>3 DEF Fresh
    <3>2. Begins(js', "FAILED", FALSE, 0)
      BY <3>1, <2>6, FreshType
    <3> QED BY <1>1, <3>2 DEF Begins
  <2>4. CASE js' = [NoJoin EXCEPT !.state = "VERIFIED", !.bypass = TRUE]
    <3>1. js' \in Fresh("VERIFIED", TRUE, 0)
      BY <2>1, <2>4 DEF Fresh
    <3>2. Begins(js', "VERIFIED", TRUE, 0)
      BY <3>1, <2>6, FreshType
    <3> QED BY <1>1, <3>2 DEF Begins
  <2>5. CASE js' = [NoJoin EXCEPT !.state = "PROVISIONAL",
                                  !.required = compute_quorum(Cardinality(active))]
    <3> DEFINE q == compute_quorum(Cardinality(active))
    <3>1. q \in Nat /\ q \in MIN_QUORUM .. MAX_QUORUM
      BY <2>2, <1>4
    <3>2. js' = [NoJoin EXCEPT !.state = "PROVISIONAL", !.required = q]
      BY <2>5
    <3> HIDE DEF q
    <3>3. js' \in Fresh("PROVISIONAL", FALSE, q)
      BY <2>1, <3>1, <3>2 DEF Fresh
    <3>4. Begins(js', "PROVISIONAL", FALSE, q)
      BY <3>1, <3>3, <2>6, FreshType
    <3> QED BY <1>1, <3>1, <3>4 DEF Begins
  <2> QED BY <1>1, <2>3, <2>4, <2>5
<1>6. JoinTypes' /\ Begun' /\ Steady'
  BY <1>1, <1>2, <1>5 DEF JoinTypes, Begun, Steady
<1>7. ASSUME ~overlap
      PROVE  Solo' /\ Ballot' /\ Placed' /\ Open' /\ Decided' /\ Told' /\ Answered'
  <2>1. Told
    BY <1>7 DEF JoinInv
  <2>2. Solo' /\ Placed'
    BY <1>3 DEF Solo, Placed, AtPlace, Deciding
  <2>3. Ballot'
    BY <1>3, <1>5, JoinAssumption DEF Ballot, Tallying
  <2>4. Open'
    BY <1>5, JoinAssumption DEF Open
  <2>5. Decided'
    BY <1>5 DEF Decided
  <2>6. Told'
    BY <1>1, <1>2, <1>3, <2>1 DEF Told, JoinTypes
  <2>7. Answered'
    BY <1>1, <1>3 DEF Answered
  <2> QED BY <2>2, <2>3, <2>4, <2>5, <2>6, <2>7
<1> QED BY <1>1, <1>6, <1>7 DEF JoinInv

\* The connections, the nonces and the departures leave the verification itself alone.
LEMMA Untouched ==
    ASSUME JoinInv, UNCHANGED <<js, view, rcv, fired, overlap>>,
           JoinTypes', Begun', Steady', ~overlap => Answered'
    PROVE  JoinInv'
<1> SUFFICES ASSUME ~overlap
             PROVE  Solo' /\ Ballot' /\ Placed' /\ Open' /\ Decided' /\ Told'
  BY DEF JoinInv
<1>1. Solo /\ Ballot /\ Placed /\ Open /\ Decided /\ Told
  BY DEF JoinInv
<1>2. Solo' /\ Open' /\ Decided' /\ Told'
  BY <1>1 DEF Solo, Open, Decided, Told
<1>3. Ballot'
  BY <1>1 DEF Ballot, Tallying
<1>4. Placed'
  BY <1>1 DEF Placed, AtPlace, Candidate, has_voted
<1> QED BY <1>2, <1>3, <1>4

\* A nonce that is sent, or refused, asks the member.
LEMMA NonceKeeps ==
    ASSUME JoinInv, NEW m \in Attesters, NEW accepted \in BOOLEAN, attest_send_nonce(m, accepted),
           js.state = "PROVISIONAL", joining' \in BOOLEAN,
           UNCHANGED <<js, view, active, rcv, fired, overlap>>
    PROVE  JoinInv'
<1>1. JoinTypes /\ Begun /\ Steady
  BY DEF JoinInv
<1>2. /\ link' = [link EXCEPT ![m] = NonceSent(m, accepted)]
      /\ faults' \in Nat
      /\ faults' = 0 => faults = 0 /\ accepted
  BY <1>1 DEF attest_send_nonce, JoinTypes
<1>3. NonceSent(m, accepted) \in [up : BOOLEAN, nonce_sent : BOOLEAN,
                                  msg : {"none", "nonce", "header"}]
  BY DEF NonceSent
<1>4. JoinTypes'
  BY <1>1, <1>2, <1>3 DEF JoinTypes
<1>5. Begun' /\ Steady'
  BY <1>1, <1>2 DEF Begun, Steady
<1>6. ASSUME ~overlap PROVE Answered'
  <2>1. Answered
    BY <1>6 DEF JoinInv
  <2>2. faults' = 0 => link'[m].msg = "nonce"
    BY <1>1, <1>2 DEF NonceSent, JoinTypes
  <2>3. \A n \in Attesters \ {m} : link'[n] = link[n]
    BY <1>1, <1>2 DEF JoinTypes
  <2> QED BY <1>2, <2>1, <2>2, <2>3 DEF Answered, has_voted
<1> QED BY <1>4, <1>5, <1>6, Untouched

\* A link to an attester comes up.
LEMMA ConnectKeeps ==
    ASSUME JoinInv, NEW m \in Attesters, ConnectMember(m)
    PROVE  JoinInv'
<1>1. JoinTypes /\ Begun /\ Steady
  BY DEF JoinInv
<1>2. /\ js.state # "NONE" /\ ~link[m].up
      /\ UNCHANGED <<js, view, active, asker, joining, rcv, fired, overlap>>
  BY DEF ConnectMember
<1>3. CASE joining /\ js.state = "PROVISIONAL"
  <2>1. PICK accepted \in BOOLEAN : attest_send_nonce(m, accepted)
    BY <1>3 DEF ConnectMember
  <2> QED BY <1>1, <1>2, <1>3, <2>1, NonceKeeps DEF JoinTypes
<1>4. CASE ~(joining /\ js.state = "PROVISIONAL")
  <2>1. link' = [link EXCEPT ![m].up = TRUE] /\ UNCHANGED faults
    BY <1>4 DEF ConnectMember
  <2>2. /\ JoinTypes'
        /\ \A n \in Attesters : /\ link'[n].nonce_sent = link[n].nonce_sent
                                /\ link'[n].msg = link[n].msg
    <3>1. link' \in [Attesters -> [up : BOOLEAN, nonce_sent : BOOLEAN,
                                   msg : {"none", "nonce", "header"}]]
      BY <1>1, <2>1 DEF JoinTypes
    <3>2. \A n \in Attesters : /\ link'[n].nonce_sent = link[n].nonce_sent
                               /\ link'[n].msg = link[n].msg
      BY <1>1, <2>1 DEF JoinTypes
    <3> QED BY <1>1, <1>2, <2>1, <3>1, <3>2 DEF JoinTypes
  <2>3. Begun' /\ Steady'
    BY <1>1, <1>2, <2>1, <2>2 DEF Begun, Steady
  <2>4. Answered => Answered'
    BY <1>2, <2>1, <2>2 DEF Answered, has_voted
  <2>5. ~overlap => Answered
    BY DEF JoinInv
  <2> QED BY <1>2, <2>2, <2>3, <2>4, <2>5, Untouched
<1> QED BY <1>3, <1>4

\* The sync worker sends its nonces.
LEMMA SyncKeeps ==
    ASSUME JoinInv, SyncNonces
    PROVE  JoinInv'
<1>1. JoinTypes /\ Begun /\ Steady /\ (~overlap => Answered)
  BY DEF JoinInv
<1>2. UNCHANGED <<js, view, active, asker, rcv, fired, overlap>>
  BY DEF SyncNonces
<1>3. CASE joining' = FALSE /\ UNCHANGED <<link, faults>>
  <2>1. JoinTypes' /\ Begun' /\ Steady'
    BY <1>1, <1>2, <1>3 DEF JoinTypes, Begun, Steady
  <2>2. Answered => Answered'
    BY <1>2, <1>3 DEF Answered, has_voted
  <2> QED BY <1>1, <1>2, <2>1, <2>2, Untouched
<1>4. CASE /\ js.state = "PROVISIONAL" /\ UNCHANGED joining
           /\ \E m \in Attesters : link[m].up /\ ~link[m].nonce_sent
                 /\ \E accepted \in BOOLEAN : attest_send_nonce(m, accepted)
  <2>1. PICK m \in Attesters : /\ ~link[m].nonce_sent
                               /\ \E accepted \in BOOLEAN : attest_send_nonce(m, accepted)
    BY <1>4
  <2>2. PICK accepted \in BOOLEAN : attest_send_nonce(m, accepted)
    BY <2>1
  <2> QED BY <1>1, <1>2, <1>4, <2>1, <2>2, NonceKeeps DEF JoinTypes
<1> QED BY <1>3, <1>4 DEF SyncNonces

\* A message or a link is lost.
LEMMA LoseKeeps ==
    ASSUME JoinInv, NEW m \in Attesters, LoseMember(m)
    PROVE  JoinInv'
<1>1. JoinTypes /\ Begun /\ Steady
  BY DEF JoinInv
<1>2. /\ link' = [link EXCEPT ![m] = LinkDown] /\ faults' = faults + 1
      /\ UNCHANGED <<js, view, active, asker, joining, rcv, fired, overlap>>
  BY DEF LoseMember
<1>3. faults' \in Nat /\ faults' # 0
  BY <1>1, <1>2 DEF JoinTypes
<1>4. JoinTypes'
  BY <1>1, <1>2, <1>3 DEF JoinTypes, LinkDown
<1>5. Begun' /\ Steady' /\ Answered'
  BY <1>1, <1>2, <1>3 DEF Begun, Steady, Answered, LinkDown
<1> QED BY <1>2, <1>4, <1>5, Untouched

\* A member leaves while the join is verified.
LEMMA LeaveKeeps ==
    ASSUME JoinInv, NEW m \in Attesters, MemberLeaves(m)
    PROVE  JoinInv'
<1>1. JoinTypes /\ Begun /\ Steady
  BY DEF JoinInv
<1>2. /\ active' = active \ {m} /\ faults' = faults + 1
      /\ UNCHANGED <<js, view, asker, joining, link, rcv, fired, overlap>>
  BY DEF MemberLeaves
<1>3. faults' \in Nat /\ faults' # 0
  BY <1>1, <1>2 DEF JoinTypes
<1>4. JoinTypes'
  BY <1>1, <1>2, <1>3 DEF JoinTypes
<1>5. Begun' /\ Steady' /\ Answered'
  BY <1>1, <1>2, <1>3 DEF Begun, Steady, Answered
<1> QED BY <1>2, <1>4, <1>5, Untouched

\* An attester answers a nonce with its header.
LEMMA RespondKeeps ==
    ASSUME JoinInv, NEW m \in Attesters, attest_respond(m)
    PROVE  JoinInv'
<1>1. JoinTypes /\ Begun /\ Steady /\ (~overlap => Answered)
  BY DEF JoinInv
<1>2. /\ link[m].msg = "nonce" /\ link' = [link EXCEPT ![m].msg = "header"]
      /\ UNCHANGED <<js, view, active, asker, joining, rcv, fired, overlap, faults>>
  BY DEF attest_respond
<1>3. JoinTypes'
  BY <1>1, <1>2 DEF JoinTypes
<1>4. /\ link'[m].msg = "header" /\ link'[m].nonce_sent = link[m].nonce_sent
      /\ \A n \in Attesters \ {m} : link'[n] = link[n]
  BY <1>1, <1>2 DEF JoinTypes
<1>5. Begun' /\ Steady'
  BY <1>1, <1>2, <1>4 DEF Begun, Steady
<1>6. Answered => Answered'
  BY <1>2, <1>4 DEF Answered, has_voted
<1> QED BY <1>1, <1>2, <1>3, <1>5, <1>6, Untouched

-----------------------------------------------------------------------------
\* While threads do not overlap, the thread of m is alone.
Lone(m) == /\ \A n \in Attesters \ {m} : rcv[n].pc = "idle" /\ rcv'[n].pc = "idle"
           /\ rcv[m].pc # "idle"

\* A step of the thread of m keeps the invariant where it keeps what m and the verification
\* have established.
LEMMA ThreadKeeps ==
    ASSUME JoinInv, NEW m \in Attesters, NEW to \in [pc : Places, tmp : Nat],
           rcv[m].pc # "idle", rcv' = [rcv EXCEPT ![m] = to],
           UNCHANGED <<view, active, asker, joining, link, overlap, faults>>,
           js' \in JoinState, js'.state # "NONE", fired' \in [verified : Nat, failed : Nat],
           ~overlap /\ Lone(m) =>
               Ballot' /\ AtPlace(m)' /\ Open' /\ Decided' /\ Told' /\ Answered'
    PROVE  JoinInv'
<1>1. JoinTypes /\ Begun /\ Steady
  BY DEF JoinInv
<1>2. rcv' \in [Attesters -> [pc : Places, tmp : Nat]] /\ rcv'[m] = to
  BY <1>1 DEF JoinTypes
<1>3. \A n \in Attesters \ {m} : rcv'[n] = rcv[n]
  BY <1>1 DEF JoinTypes
<1>4. JoinTypes'
  BY <1>1, <1>2 DEF JoinTypes
<1>5. Begun' /\ Steady'
  BY <1>1 DEF Begun, Steady
<1>6. ASSUME ~overlap
      PROVE  Solo' /\ Ballot' /\ Placed' /\ Open' /\ Decided' /\ Told' /\ Answered'
  <2>1. Lone(m)
    BY <1>3, <1>6 DEF JoinInv, Solo, Lone
  <2>2. Solo'
    BY <2>1 DEF Lone, Solo
  <2>3. \A n \in Attesters \ {m} : AtPlace(n)'
    BY <2>1 DEF Lone, AtPlace, Deciding
  <2>4. Placed'
    BY <1>6, <2>1, <2>3 DEF Placed
  <2> QED BY <1>6, <2>1, <2>2, <2>4
<1> QED BY <1>4, <1>5, <1>6 DEF JoinInv

\* A header that arrives wakes the thread of its connection.
LEMMA HandleKeeps ==
    ASSUME JoinInv, NEW m \in Attesters, attest_handle(m)
    PROVE  JoinInv'
<1>1. JoinTypes /\ Begun /\ Steady
  BY DEF JoinInv
<1>2. /\ link[m].msg = "header" /\ rcv[m].pc = "idle"
      /\ link' = [link EXCEPT ![m].msg = "none"]
      /\ rcv' = [rcv EXCEPT ![m].pc = "check"]
      /\ overlap' = (overlap \/ \E o \in Attesters \ {m} : rcv[o].pc # "idle")
      /\ UNCHANGED <<js, view, active, asker, joining, fired, faults>>
  BY DEF attest_handle, Step, Move
<1>3. js.state # "NONE"
  BY <1>1, <1>2 DEF Begun
<1>4. /\ rcv' \in [Attesters -> [pc : Places, tmp : Nat]]
      /\ link' \in [Attesters -> [up : BOOLEAN, nonce_sent : BOOLEAN,
                                  msg : {"none", "nonce", "header"}]]
  BY <1>1, <1>2 DEF JoinTypes, Places
<1>5. overlap' \in BOOLEAN
  BY <1>2
<1>6. JoinTypes'
  BY <1>1, <1>2, <1>4, <1>5 DEF JoinTypes
<1>7. Begun' /\ Steady'
  BY <1>1, <1>2, <1>3 DEF Begun, Steady
<1>8. ASSUME ~overlap'
      PROVE  Solo' /\ Ballot' /\ Placed' /\ Open' /\ Decided' /\ Told' /\ Answered'
  <2>1. ~overlap
    BY <1>2, <1>8
  <2>2. Solo /\ Ballot /\ Placed /\ Open /\ Decided /\ Told /\ Answered
    BY <2>1 DEF JoinInv
  <2>3. \A n \in Attesters : rcv[n].pc = "idle"
    BY <1>2, <1>8
  <2>4. rcv'[m].pc = "check" /\ \A n \in Attesters \ {m} : rcv'[n] = rcv[n] /\ link'[n] = link[n]
    BY <1>1, <1>2 DEF JoinTypes
  <2>5. Solo' /\ Placed'
    BY <2>3, <2>4 DEF Solo, Placed, AtPlace, Deciding
  <2>6. Ballot'
    BY <1>2, <2>2, <2>3, <2>4 DEF Ballot, Tallying
  <2>7. Open' /\ Decided'
    BY <1>2, <2>2, <2>3, <2>4 DEF Open, Decided, Deciding
  <2>8. Told'
    BY <1>2, <2>2, <2>3, <2>4 DEF Told
  <2>9. Answered'
    BY <1>2, <2>2, <2>3, <2>4 DEF Answered, has_voted
  <2> QED BY <2>5, <2>6, <2>7, <2>8, <2>9
<1> QED BY <1>6, <1>7, <1>8 DEF JoinInv

\* What the lone thread of m is assured of at its place.
LEMMA LonePlace ==
    ASSUME JoinInv, ~overlap, NEW m \in Attesters, Lone(m)
    PROVE  /\ Ballot /\ AtPlace(m) /\ Open /\ Decided /\ Told /\ Answered
           /\ Tallying <=> rcv[m].pc \in {"tally", "tallied"}
           /\ Tallying' <=> rcv'[m].pc \in {"tally", "tallied"}
           /\ js.asked /\ js.state = "PROVISIONAL" => rcv[m].pc \in {"ask", "fail"}
           /\ rcv[m].pc # "check" => fired.verified = 0 /\ fired.failed = 0
           /\ js.state = "PROVISIONAL" /\ rcv[m].pc \notin Deciding =>
                 js.disagree = 0 /\ js.agree < js.required
<1>1. Ballot /\ Placed /\ Open /\ Decided /\ Told /\ Answered
  BY DEF JoinInv
<1>2. AtPlace(m)
  BY <1>1 DEF Placed
<1>3. /\ Tallying <=> rcv[m].pc \in {"tally", "tallied"}
      /\ Tallying' <=> rcv'[m].pc \in {"tally", "tallied"}
  BY DEF Lone, Tallying
<1>4. js.asked /\ js.state = "PROVISIONAL" => rcv[m].pc \in {"ask", "fail"}
  BY <1>1 DEF Open, Lone
<1>5. rcv[m].pc # "check" => fired.verified = 0 /\ fired.failed = 0
  BY <1>1 DEF Told, Lone
<1>6. js.state = "PROVISIONAL" /\ rcv[m].pc \notin Deciding =>
         js.disagree = 0 /\ js.agree < js.required
  BY <1>1 DEF Open, Lone, Deciding
<1> QED BY <1>1, <1>2, <1>3, <1>4, <1>5, <1>6

\* Move and Done as updates of one thread.
LEMMA MoveType ==
    ASSUME JoinTypes, NEW m \in Attesters, NEW p \in Places, rcv' = [rcv EXCEPT ![m].pc = p]
    PROVE  /\ rcv' = [rcv EXCEPT ![m] = [pc |-> p, tmp |-> rcv[m].tmp]]
           /\ [pc |-> p, tmp |-> rcv[m].tmp] \in [pc : Places, tmp : Nat]
           /\ rcv'[m].pc = p /\ rcv'[m].tmp = rcv[m].tmp
<1>1. rcv \in [Attesters -> [pc : Places, tmp : Nat]]
  BY DEF JoinTypes
<1>2. rcv[m] = [pc |-> rcv[m].pc, tmp |-> rcv[m].tmp] /\ rcv[m].tmp \in Nat
  BY <1>1
<1>3. [rcv[m] EXCEPT !.pc = p] = [pc |-> p, tmp |-> rcv[m].tmp]
  BY <1>1
<1> QED BY <1>1, <1>2, <1>3

\* What all steps of a receive thread share: only its own place moves.
LEMMA MoveKeeps ==
    ASSUME JoinInv, NEW m \in Attesters, NEW p \in Places, rcv[m].pc # "idle",
           rcv' = [rcv EXCEPT ![m].pc = p],
           UNCHANGED <<view, active, asker, joining, link, overlap, faults>>,
           js' \in JoinState, js'.state # "NONE", fired' \in [verified : Nat, failed : Nat],
           ~overlap /\ Lone(m) =>
               Ballot' /\ AtPlace(m)' /\ Open' /\ Decided' /\ Told' /\ Answered'
    PROVE  JoinInv'
<1> DEFINE to == [pc |-> p, tmp |-> rcv[m].tmp]
<1>1. to \in [pc : Places, tmp : Nat] /\ rcv' = [rcv EXCEPT ![m] = to]
  BY MoveType DEF JoinInv
<1> HIDE DEF to
<1> QED BY <1>1, ThreadKeeps

\* gr_join_submit_peer_header refuses an answer only where it never counts.
LEMMA SubmitCheckKeeps ==
    ASSUME JoinInv, NEW m \in Attesters, SubmitCheck(m)
    PROVE  JoinInv'
<1>1. JoinTypes /\ Begun /\ Steady
  BY DEF JoinInv
<1>2. /\ rcv[m].pc = "check"
      /\ UNCHANGED <<js, view, active, asker, joining, link, fired, overlap, faults>>
  BY DEF SubmitCheck, Step, JoinRest
<1>3. js' \in JoinState /\ js'.state # "NONE" /\ fired' \in [verified : Nat, failed : Nat]
  BY <1>1, <1>2 DEF JoinTypes, Begun
<1>4. js.count \in Nat /\ js.agree \in Nat /\ js.disagree \in Nat /\ js.required \in Nat
  BY <1>1 DEF JoinTypes, JoinState
<1>5. CASE Admissible(m)
  <2>1. rcv' = [rcv EXCEPT ![m].pc = "record"] /\ "record" \in Places
    BY <1>5 DEF SubmitCheck, Move, Places
  <2>2. rcv'[m].pc = "record"
    BY <1>1, <2>1, MoveType
  <2>3. ASSUME ~overlap, Lone(m)
        PROVE  Ballot' /\ AtPlace(m)' /\ Open' /\ Decided' /\ Told' /\ Answered'
    <3>1. /\ Ballot /\ Open /\ Decided /\ Told /\ Answered
          /\ (Tallying <=> Tallying')
          /\ js.state = "PROVISIONAL" /\ ~js.asked
          /\ js.disagree = 0 /\ js.agree < js.required
      BY <1>2, <1>5, <2>2, <2>3, LonePlace DEF Admissible, Deciding
    <3>2. Ballot'
      BY <1>2, <3>1 DEF Ballot
    <3>3. AtPlace(m)'
      BY <1>2, <1>5, <2>2 DEF AtPlace, Admissible, Candidate, has_voted, Deciding
    <3>4. Open' /\ Decided'
      BY <1>2, <3>1 DEF Open, Decided
    <3>5. Told'
      <4>1. fired.verified \in Nat /\ fired.failed \in Nat
        BY <1>1 DEF JoinTypes
      <4>2. fired.verified # 1 /\ fired.failed # 1
        BY <3>1 DEF Told
      <4>3. fired.verified = 0 /\ fired.failed = 0
        BY <3>1, <4>1, <4>2 DEF Told
      <4> QED BY <1>2, <4>3 DEF Told
    <3>6. Answered'
      BY <1>2, <2>2, <2>3, <3>1 DEF Answered, Lone, has_voted
    <3> QED BY <3>2, <3>3, <3>4, <3>5, <3>6
  <2> QED BY <1>2, <1>3, <2>1, <2>3, MoveKeeps
<1>6. CASE ~Admissible(m)
  <2>1. rcv' = [rcv EXCEPT ![m] = Waiting] /\ Waiting \in [pc : Places, tmp : Nat]
    BY <1>6 DEF SubmitCheck, Done, Waiting, Places
  <2>2. rcv'[m].pc = "idle"
    BY <1>1, <2>1 DEF JoinTypes, Waiting
  <2>3. ASSUME ~overlap, Lone(m)
        PROVE  Ballot' /\ AtPlace(m)' /\ Open' /\ Decided' /\ Told' /\ Answered'
    <3>1. /\ Ballot /\ Open /\ Decided /\ Told /\ Answered
          /\ ~Tallying /\ ~Tallying'
          /\ js.state = "PROVISIONAL" => ~js.asked /\ js.disagree = 0 /\ js.agree < js.required
      BY <1>2, <2>2, <2>3, LonePlace DEF Deciding
    <3>2. Ballot'
      BY <1>2, <3>1 DEF Ballot
    <3>3. AtPlace(m)'
      BY <2>2 DEF AtPlace, Deciding
    <3>4. Open' /\ Decided'
      BY <1>2, <3>1 DEF Open, Decided
    <3>5. Told'
      BY <1>2, <2>2, <2>3, <3>1 DEF Told, Lone
    <3>6. ASSUME faults = 0, js.state = "PROVISIONAL"
          PROVE  m = Inviter \/ view[m] = "badkey" \/ has_voted(m)
      <4>1. m \in active
        BY <1>1, <3>6 DEF Steady
      <4>2. js.count = js.agree /\ js.agree < js.required /\ js.required <= MAX_QUORUM
        BY <1>4, <3>1, <3>6, JoinAssumption DEF Ballot, Open
      <4>3. js.count < MAX_TRACKED
        BY <1>4, <4>2, JoinAssumption
      <4> QED BY <1>6, <3>6, <4>1, <4>3 DEF Admissible
    <3>7. Answered'
      BY <1>2, <2>3, <3>1, <3>6 DEF Answered, Lone, has_voted
    <3> QED BY <3>2, <3>3, <3>4, <3>5, <3>7
  <2> QED BY <1>1, <1>2, <1>3, <2>1, <2>3, ThreadKeeps
<1> QED BY <1>5, <1>6

\* The vote is written to the slot after the last one counted.
LEMMA SubmitRecordKeeps ==
    ASSUME JoinInv, NEW m \in Attesters, SubmitRecord(m)
    PROVE  JoinInv'
<1>1. JoinTypes /\ Begun
  BY DEF JoinInv
<1>2. /\ rcv[m].pc = "record" /\ rcv' = [rcv EXCEPT ![m].pc = "bump"] /\ "bump" \in Places
      /\ js' = IF js.count < MAX_TRACKED THEN [js EXCEPT !.votes[js.count + 1] = m] ELSE js
      /\ UNCHANGED <<view, active, asker, joining, link, fired, overlap, faults>>
  BY DEF SubmitRecord, Step, Move, JoinRest, Places
<1>3. /\ js \in JoinState /\ js.count \in Nat
      /\ js.votes \in [1 .. MAX_TRACKED -> Attesters \cup {NoVote}]
  BY <1>1 DEF JoinTypes, JoinState
<1>4. js.count < MAX_TRACKED => js.count + 1 \in 1 .. MAX_TRACKED
  BY <1>3, JoinAssumption
<1>5. /\ js' \in JoinState
      /\ UNCHANGED <<js.state, js.count, js.agree, js.disagree, js.asked, js.override, js.bypass,
                     js.required>>
      /\ \A i \in 1 .. js.count : js'.votes[i] = js.votes[i]
      /\ js.count < MAX_TRACKED => js'.votes[js.count + 1] = m
  <2>1. CASE js.count < MAX_TRACKED
    <3> DEFINE v == [js.votes EXCEPT ![js.count + 1] = m]
    <3>1. v \in [1 .. MAX_TRACKED -> Attesters \cup {NoVote}] /\ v[js.count + 1] = m
      BY <1>3, <1>4, <2>1
    <3>2. \A i \in 1 .. js.count : v[i] = js.votes[i]
      BY <1>3, <1>4, <2>1, JoinAssumption
    <3>3. js' = [js EXCEPT !.votes = v]
      BY <1>2, <1>3, <2>1 DEF JoinState
    <3> HIDE DEF v
    <3>4. js' \in JoinState /\ js'.votes = v
      BY <1>3, <3>1, <3>3 DEF JoinState
    <3>5. UNCHANGED <<js.state, js.count, js.agree, js.disagree, js.asked, js.override,
                      js.bypass, js.required>>
      BY <1>3, <3>3 DEF JoinState
    <3> QED BY <3>1, <3>2, <3>4, <3>5
  <2>2. CASE ~(js.count < MAX_TRACKED)
    BY <1>2, <1>3, <2>2
  <2> QED BY <2>1, <2>2
<1>6. js'.state # "NONE" /\ fired' \in [verified : Nat, failed : Nat]
  BY <1>1, <1>2, <1>5 DEF JoinTypes, Begun
<1>7. rcv'[m].pc = "bump"
  BY <1>1, <1>2, MoveType
<1>8. ASSUME ~overlap, Lone(m)
      PROVE  Ballot' /\ AtPlace(m)' /\ Open' /\ Decided' /\ Told' /\ Answered'
  <2>1. /\ Ballot /\ AtPlace(m) /\ Open /\ Decided /\ Told /\ Answered
        /\ ~Tallying /\ ~Tallying' /\ (js.state = "PROVISIONAL" => ~js.asked)
        /\ fired.verified = 0 /\ fired.failed = 0
        /\ (js.state = "PROVISIONAL" => js.disagree = 0 /\ js.agree < js.required)
    BY <1>2, <1>7, <1>8, LonePlace DEF Deciding
  <2>2. Candidate(m)
    BY <1>2, <2>1 DEF AtPlace
  <2>3. Ballot'
    BY <1>2, <1>5, <2>1 DEF Ballot
  <2>4. AtPlace(m)'
    BY <1>2, <1>5, <1>7, <2>2 DEF AtPlace, Candidate, has_voted, Deciding
  <2>5. Open' /\ Decided'
    BY <1>5, <2>1 DEF Open, Decided
  <2>6. Told'
    BY <1>2, <2>1 DEF Told
  <2>7. Answered'
    BY <1>2, <1>5, <1>7, <1>8, <2>1 DEF Answered, Lone, has_voted
  <2> QED BY <2>3, <2>4, <2>5, <2>6, <2>7
<1> QED BY <1>2, <1>5, <1>6, <1>8, MoveKeeps

\* A thread that has read a counter holds its value while it is alone.
LEMMA SubmitReadKeeps ==
    ASSUME JoinInv, NEW m \in Attesters, SubmitRead(m)
    PROVE  JoinInv'
<1>1. JoinTypes /\ Begun
  BY DEF JoinInv
<1>2. js \in JoinState /\ js.count \in Nat /\ js.agree \in Nat /\ js.disagree \in Nat
  BY <1>1 DEF JoinTypes, JoinState
<1>3. PICK to \in [pc : {"bumped", "tallied"}, tmp : Nat] :
          /\ rcv' = [rcv EXCEPT ![m] = to]
          /\ UNCHANGED <<js, view, active, asker, joining, link, fired, overlap, faults>>
          /\ \/ rcv[m].pc = "bump" /\ to.pc = "bumped" /\ to.tmp = js.count
             \/ /\ rcv[m].pc = "tally" /\ to.pc = "tallied"
                /\ to.tmp = IF view[m] = "same" THEN js.agree ELSE js.disagree
  <2>1. CASE /\ Step(m, "bump") /\ rcv' = [rcv EXCEPT ![m] = [pc |-> "bumped", tmp |-> js.count]]
             /\ UNCHANGED <<js, JoinRest>>
    <3> DEFINE to == [pc |-> "bumped", tmp |-> js.count]
    <3>1. /\ to \in [pc : {"bumped", "tallied"}, tmp : Nat] /\ to.pc = "bumped"
          /\ to.tmp = js.count
      BY <1>2
    <3>2. rcv' = [rcv EXCEPT ![m] = to]
      BY <2>1
    <3> HIDE DEF to
    <3> QED BY <2>1, <3>1, <3>2 DEF Step, JoinRest
  <2>2. CASE /\ Step(m, "tally")
             /\ rcv' = [rcv EXCEPT ![m] = [pc |-> "tallied",
                    tmp |-> IF view[m] = "same" THEN js.agree ELSE js.disagree]]
             /\ UNCHANGED <<js, JoinRest>>
    <3> DEFINE k == IF view[m] = "same" THEN js.agree ELSE js.disagree
    <3>1. k \in Nat
      BY <1>2
    <3>2. rcv' = [rcv EXCEPT ![m] = [pc |-> "tallied", tmp |-> k]]
      BY <2>2
    <3>3. k = IF view[m] = "same" THEN js.agree ELSE js.disagree
      OBVIOUS
    <3> HIDE DEF k
    <3> DEFINE to == [pc |-> "tallied", tmp |-> k]
    <3>4. to \in [pc : {"bumped", "tallied"}, tmp : Nat] /\ to.pc = "tallied" /\ to.tmp = k
      BY <3>1
    <3>5. rcv' = [rcv EXCEPT ![m] = to]
      BY <3>2
    <3> HIDE DEF to
    <3> QED BY <2>2, <3>3, <3>4, <3>5 DEF Step, JoinRest
  <2> QED BY <2>1, <2>2 DEF SubmitRead
<1>4. to \in [pc : Places, tmp : Nat] /\ rcv[m].pc # "idle"
  BY <1>3 DEF Places
<1>5. js' \in JoinState /\ js'.state # "NONE" /\ fired' \in [verified : Nat, failed : Nat]
  BY <1>1, <1>2, <1>3 DEF JoinTypes, Begun
<1>6. rcv'[m] = to
  BY <1>1, <1>3 DEF JoinTypes
<1>7. ASSUME ~overlap, Lone(m)
      PROVE  Ballot' /\ AtPlace(m)' /\ Open' /\ Decided' /\ Told' /\ Answered'
  <2>1. /\ Ballot /\ AtPlace(m) /\ Open /\ Decided /\ Told /\ Answered
        /\ (Tallying <=> Tallying') /\ (js.state = "PROVISIONAL" => ~js.asked)
        /\ fired.verified = 0 /\ fired.failed = 0
        /\ (js.state = "PROVISIONAL" => js.disagree = 0 /\ js.agree < js.required)
    BY <1>3, <1>6, <1>7, LonePlace DEF Deciding
  <2>2. Ballot'
    BY <1>3, <2>1 DEF Ballot
  <2>3. AtPlace(m)'
    BY <1>3, <1>6, <2>1 DEF AtPlace, Candidate, has_voted, Deciding
  <2>4. Open' /\ Decided'
    BY <1>3, <2>1 DEF Open, Decided
  <2>5. Told'
    BY <1>3, <2>1 DEF Told
  <2>6. Answered'
    BY <1>3, <1>6, <1>7, <2>1 DEF Answered, Lone, has_voted
  <2> QED BY <2>2, <2>3, <2>4, <2>5, <2>6
<1> QED BY <1>3, <1>4, <1>5, <1>7, ThreadKeeps

\* Counting the vote, and tallying it for its view.
LEMMA SubmitWriteKeeps ==
    ASSUME JoinInv, NEW m \in Attesters, SubmitWrite(m)
    PROVE  JoinInv'
<1>1. JoinTypes /\ Begun
  BY DEF JoinInv
<1>2. /\ js \in JoinState /\ js.count \in Nat /\ js.agree \in Nat /\ js.disagree \in Nat
      /\ rcv[m].tmp \in Nat
  BY <1>1 DEF JoinTypes, JoinState
<1>3. CASE rcv[m].pc = "bumped"
  <2>1. /\ js' = [js EXCEPT !.count = rcv[m].tmp + 1]
        /\ rcv' = [rcv EXCEPT ![m].pc = "tally"] /\ "tally" \in Places
        /\ UNCHANGED <<view, active, asker, joining, link, fired, overlap, faults>>
    BY <1>3 DEF SubmitWrite, Step, Move, JoinRest, Places
  <2>2. /\ js' \in JoinState /\ js'.count = rcv[m].tmp + 1
        /\ UNCHANGED <<js.state, js.votes, js.agree, js.disagree, js.asked, js.override,
                       js.bypass, js.required>>
    BY <1>2, <2>1 DEF JoinState
  <2>3. js'.state # "NONE" /\ fired' \in [verified : Nat, failed : Nat]
    BY <1>1, <1>3, <2>1, <2>2 DEF JoinTypes, Begun
  <2>4. rcv'[m].pc = "tally"
    BY <1>1, <2>1, MoveType
  <2>5. ASSUME ~overlap, Lone(m)
        PROVE  Ballot' /\ AtPlace(m)' /\ Open' /\ Decided' /\ Told' /\ Answered'
    <3>1. /\ Ballot /\ AtPlace(m) /\ Open /\ Decided /\ Told /\ Answered
          /\ ~Tallying /\ Tallying' /\ (js.state = "PROVISIONAL" => ~js.asked)
          /\ fired.verified = 0 /\ fired.failed = 0
          /\ (js.state = "PROVISIONAL" => js.disagree = 0 /\ js.agree < js.required)
      BY <1>3, <2>4, <2>5, LonePlace DEF Deciding
    <3>2. Candidate(m) /\ js.votes[js.count + 1] = m /\ rcv[m].tmp = js.count
      BY <1>3, <3>1 DEF AtPlace
    <3>3. js'.count = js.count + 1 /\ js'.count <= MAX_TRACKED
      BY <1>2, <2>2, <3>2, JoinAssumption DEF Candidate
    <3>4. \A i \in 1 .. js'.count : i \in 1 .. js.count \/ i = js.count + 1
      BY <1>2, <3>3
    <3>5. /\ \A i \in 1 .. js'.count : /\ js'.votes[i] \in Attesters \ {Inviter}
                                       /\ view'[js'.votes[i]] # "badkey"
          /\ \A i, j \in 1 .. js'.count : js'.votes[i] = js'.votes[j] => i = j
      <4>1. \A i \in 1 .. js.count : js.votes[i] # m
        BY <3>2 DEF Candidate, has_voted
      <4> QED BY <2>1, <2>2, <3>1, <3>2, <3>4, <4>1 DEF Ballot, Candidate
    <3>6. js'.agree + js'.disagree + 1 = js'.count
      BY <1>2, <2>2, <3>1, <3>3 DEF Ballot
    <3>7. js'.disagree = 0 => \A i \in 1 .. js'.count : \/ view'[js'.votes[i]] = "same"
                                                        \/ i = js'.count /\ Tallying'
      BY <2>1, <2>2, <3>1, <3>3, <3>4 DEF Ballot
    <3>8. Ballot'
      BY <3>1, <3>3, <3>5, <3>6, <3>7 DEF Ballot
    <3>9. AtPlace(m)'
      BY <1>2, <2>2, <2>4, <3>2, <3>3 DEF AtPlace, Candidate, Deciding
    <3>10. Open' /\ Decided'
      BY <2>2, <3>1 DEF Open, Decided
    <3>11. Told'
      BY <2>1, <3>1 DEF Told
    <3>12. \A n : has_voted(n) => has_voted(n)'
      BY <1>2, <2>2, <3>3 DEF has_voted
    <3>13. Answered'
      BY <2>1, <2>2, <2>4, <2>5, <3>1, <3>12 DEF Answered, Lone
    <3> QED BY <3>8, <3>9, <3>10, <3>11, <3>13
  <2> QED BY <1>3, <2>1, <2>2, <2>3, <2>5, MoveKeeps
<1>4. CASE rcv[m].pc = "tallied"
  <2>1. /\ js' = IF view[m] = "same" THEN [js EXCEPT !.agree = rcv[m].tmp + 1]
                 ELSE [js EXCEPT !.disagree = rcv[m].tmp + 1]
        /\ rcv' = [rcv EXCEPT ![m].pc = "eval"] /\ "eval" \in Places
        /\ UNCHANGED <<view, active, asker, joining, link, fired, overlap, faults>>
    BY <1>4 DEF SubmitWrite, Step, Move, JoinRest, Places
  <2>2. /\ js' \in JoinState
        /\ UNCHANGED <<js.state, js.votes, js.count, js.asked, js.override, js.bypass, js.required>>
        /\ view[m] = "same" => js'.agree = rcv[m].tmp + 1 /\ js'.disagree = js.disagree
        /\ view[m] # "same" => js'.disagree = rcv[m].tmp + 1 /\ js'.agree = js.agree
    <3>1. CASE view[m] = "same"
      BY <1>2, <2>1, <3>1 DEF JoinState
    <3>2. CASE view[m] # "same"
      BY <1>2, <2>1, <3>2 DEF JoinState
    <3> QED BY <3>1, <3>2
  <2>3. js'.state # "NONE" /\ fired' \in [verified : Nat, failed : Nat]
    BY <1>1, <1>4, <2>1, <2>2 DEF JoinTypes, Begun
  <2>4. rcv'[m].pc = "eval"
    BY <1>1, <2>1, MoveType
  <2>5. ASSUME ~overlap, Lone(m)
        PROVE  Ballot' /\ AtPlace(m)' /\ Open' /\ Decided' /\ Told' /\ Answered'
    <3>1. /\ Ballot /\ AtPlace(m) /\ Open /\ Decided /\ Told /\ Answered
          /\ Tallying /\ ~Tallying' /\ (js.state = "PROVISIONAL" => ~js.asked)
          /\ fired.verified = 0 /\ fired.failed = 0
      BY <1>4, <2>4, <2>5, LonePlace DEF Deciding
    <3>2. /\ js.state = "PROVISIONAL" /\ js.count >= 1 /\ js.votes[js.count] = m
          /\ rcv[m].tmp = IF view[m] = "same" THEN js.agree ELSE js.disagree
      BY <1>4, <3>1 DEF AtPlace
    <3>3. js.agree + js.disagree + 1 = js.count
      BY <3>1 DEF Ballot
    <3>4. js'.agree + js'.disagree = js'.count
      BY <1>2, <2>2, <3>2, <3>3
    <3>5. js'.disagree = 0 => /\ view[m] = "same" /\ js.disagree = 0
      BY <1>2, <2>2
    <3>6. js'.disagree = 0 => \A i \in 1 .. js'.count : view'[js'.votes[i]] = "same"
      BY <2>1, <2>2, <3>1, <3>2, <3>5 DEF Ballot
    <3>7. Ballot'
      BY <2>1, <2>2, <3>1, <3>4, <3>6 DEF Ballot
    <3>8. has_voted(m)'
      BY <1>2, <2>2, <3>2 DEF has_voted
    <3>9. AtPlace(m)'
      BY <2>2, <2>4, <3>2, <3>8 DEF AtPlace, Deciding
    <3>10. Open' /\ Decided'
      BY <2>2, <2>4, <3>1, <3>2 DEF Open, Decided, Deciding
    <3>11. Told'
      BY <2>1, <3>1 DEF Told
    <3>12. Answered'
      BY <2>1, <2>2, <2>4, <2>5, <3>1 DEF Answered, Lone, has_voted
    <3> QED BY <3>7, <3>9, <3>10, <3>11, <3>12
  <2> QED BY <1>4, <2>1, <2>2, <2>3, <2>5, MoveKeeps
<1> QED BY <1>3, <1>4 DEF SubmitWrite, Step

\* gr_join_evaluate: a dissent is asked about once, a quorum without one passes.
LEMMA EvaluateKeeps ==
    ASSUME JoinInv, NEW m \in Attesters, Evaluate(m)
    PROVE  JoinInv'
<1>1. JoinTypes /\ Begun
  BY DEF JoinInv
<1>2. js \in JoinState /\ js.count \in Nat /\ js.agree \in Nat /\ js.disagree \in Nat
  BY <1>1 DEF JoinTypes, JoinState
<1>3. /\ rcv[m].pc = "eval"
      /\ UNCHANGED <<view, active, asker, joining, link, fired, overlap, faults>>
  BY DEF Evaluate, Step, JoinRest
<1>4. /\ js' \in JoinState
      /\ UNCHANGED <<js.state, js.votes, js.count, js.agree, js.disagree, js.override, js.bypass,
                     js.required>>
  <2>1. js' = js \/ js' = [js EXCEPT !.asked = TRUE]
    BY DEF Evaluate
  <2> QED BY <1>2, <2>1 DEF JoinState
<1>5. PICK p \in {"report", "ask", "fail", "pass"} :
        /\ rcv' = [rcv EXCEPT ![m].pc = p]
        /\ p \in {"ask", "fail"} => js' = [js EXCEPT !.asked = TRUE]
        /\ p \in {"report", "pass"} => js' = js
        /\ p = "pass" => js.agree >= js.required /\ js.disagree = 0
        /\ js.state = "PROVISIONAL" /\ ~js.asked /\ p = "report" =>
              js.disagree = 0 /\ ~(js.agree >= js.required)
  <2>1. CASE js.state # "PROVISIONAL"
    BY <2>1 DEF Evaluate, Move
  <2>2. CASE js.state = "PROVISIONAL" /\ js.disagree > 0 /\ ~js.asked
    BY <2>2 DEF Evaluate, Move
  <2>3. CASE js.state = "PROVISIONAL" /\ ~(js.disagree > 0 /\ ~js.asked)
    <3>1. ~js.asked => js.disagree = 0
      BY <1>2, <2>3
    <3>2. js' = js /\ rcv' = [rcv EXCEPT ![m].pc =
              IF js.agree >= js.required /\ js.disagree = 0 THEN "pass" ELSE "report"]
      BY <2>3 DEF Evaluate, Move
    <3> QED BY <3>1, <3>2
  <2> QED BY <2>1, <2>2, <2>3
<1>6. p \in Places /\ rcv'[m].pc = p
  <2>1. p \in Places
    BY DEF Places
  <2> QED BY <1>1, <1>5, <2>1, MoveType
<1>7. js'.state # "NONE" /\ fired' \in [verified : Nat, failed : Nat]
  BY <1>1, <1>3, <1>4 DEF JoinTypes, Begun
<1>8. ASSUME ~overlap, Lone(m)
      PROVE  Ballot' /\ AtPlace(m)' /\ Open' /\ Decided' /\ Told' /\ Answered'
  <2>1. /\ Ballot /\ AtPlace(m) /\ Open /\ Decided /\ Told /\ Answered
        /\ ~Tallying /\ ~Tallying' /\ fired.verified = 0 /\ fired.failed = 0
    BY <1>3, <1>6, <1>8, LonePlace
  <2>2. js.state = "PROVISIONAL" /\ has_voted(m) /\ ~js.asked
    BY <1>3, <1>8, <2>1, LonePlace DEF AtPlace, Deciding
  <2>3. Ballot'
    BY <1>3, <1>4, <2>1 DEF Ballot
  <2>4. p \in {"ask", "fail"} => js'.asked
    BY <1>2, <1>5 DEF JoinState
  <2>5. p \notin {"ask", "fail"} => ~js'.asked
    BY <1>5, <2>2
  <2>6. AtPlace(m)'
    BY <1>4, <1>5, <1>6, <2>2, <2>4 DEF AtPlace, has_voted, Deciding
  <2>7. p \in Deciding \/ (js.disagree = 0 /\ js.agree < js.required)
    <3>1. CASE p = "report"
      <4>1. js.disagree = 0 /\ ~(js.agree >= js.required)
        BY <1>5, <2>2, <3>1
      <4>2. js.required \in Nat
        BY <1>2 DEF JoinState
      <4> QED BY <1>2, <4>1, <4>2
    <3>2. CASE p # "report"
      BY <3>2 DEF Deciding
    <3> QED BY <3>1, <3>2
  <2>8. Open'
    BY <1>4, <1>6, <2>1, <2>4, <2>5, <2>7 DEF Open, Deciding
  <2>9. Decided'
    BY <1>4, <2>2 DEF Decided
  <2>10. Told'
    BY <1>3, <2>1 DEF Told
  <2>11. Answered'
    BY <1>3, <1>4, <1>6, <1>8, <2>1 DEF Answered, Lone, has_voted
  <2> QED BY <2>3, <2>6, <2>8, <2>9, <2>10, <2>11
<1> QED BY <1>3, <1>4, <1>5, <1>6, <1>7, <1>8, MoveKeeps

\* The verdict, which only a thread that saw an open verification gives.
LEMMA DecideKeeps ==
    ASSUME JoinInv, NEW m \in Attesters, Decide(m)
    PROVE  JoinInv'
<1>1. JoinTypes /\ Begun
  BY DEF JoinInv
<1>2. js \in JoinState
  BY <1>1 DEF JoinTypes
<1>3. /\ rcv[m].pc \in {"pass", "fail", "ask"}
      /\ rcv' = [rcv EXCEPT ![m].pc = "report"] /\ "report" \in Places
      /\ UNCHANGED <<view, active, asker, joining, link, fired, overlap, faults>>
      /\ \/ rcv[m].pc = "pass" /\ js' = [js EXCEPT !.state = "VERIFIED"]
         \/ js' = [js EXCEPT !.state = "VERIFIED", !.override = TRUE]
         \/ js' = [js EXCEPT !.state = "FAILED"]
  BY DEF Decide, Step, Move, JoinRest, Places
<1>4. /\ js' \in JoinState /\ js'.state \in {"VERIFIED", "FAILED"}
      /\ UNCHANGED <<js.votes, js.count, js.agree, js.disagree, js.bypass, js.required>>
      /\ js'.state = "VERIFIED" => rcv[m].pc = "pass" \/ js'.override
  <2>1. CASE rcv[m].pc = "pass" /\ js' = [js EXCEPT !.state = "VERIFIED"]
    BY <1>2, <2>1 DEF JoinState, JoinStates
  <2>2. CASE js' = [js EXCEPT !.state = "VERIFIED", !.override = TRUE]
    BY <1>2, <2>2 DEF JoinState, JoinStates
  <2>3. CASE js' = [js EXCEPT !.state = "FAILED"]
    BY <1>2, <2>3 DEF JoinState, JoinStates
  <2> QED BY <1>3, <2>1, <2>2, <2>3
<1>5. fired' \in [verified : Nat, failed : Nat] /\ rcv'[m].pc = "report"
  BY <1>1, <1>3, MoveType DEF JoinTypes
<1>6. ASSUME ~overlap, Lone(m)
      PROVE  Ballot' /\ AtPlace(m)' /\ Open' /\ Decided' /\ Told' /\ Answered'
  <2>1. /\ Ballot /\ AtPlace(m) /\ Open /\ Decided /\ Told /\ Answered
        /\ ~Tallying /\ ~Tallying' /\ fired.verified = 0 /\ fired.failed = 0
    BY <1>3, <1>5, <1>6, LonePlace
  <2>2. /\ js.state = "PROVISIONAL" /\ has_voted(m)
        /\ rcv[m].pc = "pass" => js.disagree = 0 /\ js.agree >= js.required
    BY <1>3, <2>1 DEF AtPlace, Deciding
  <2>3. Ballot'
    BY <1>3, <1>4, <2>1 DEF Ballot
  <2>4. AtPlace(m)'
    BY <1>4, <1>5, <2>2 DEF AtPlace, has_voted, Deciding
  <2>5. Open' /\ Answered'
    BY <1>4 DEF Open, Answered
  <2>6. js.required >= MIN_QUORUM
    BY <2>1, <2>2, JoinAssumption DEF Open
  <2>7. Decided'
    BY <1>4, <2>2, <2>6 DEF Decided
  <2>8. Told'
    BY <1>3, <2>1 DEF Told
  <2> QED BY <2>3, <2>4, <2>5, <2>7, <2>8
<1> QED BY <1>3, <1>4, <1>5, <1>6, MoveKeeps

\* The one event of a verification, and the thread waits for the next header.
LEMMA ReportKeeps ==
    ASSUME JoinInv, NEW m \in Attesters, Report(m)
    PROVE  JoinInv'
<1>1. JoinTypes /\ Begun
  BY DEF JoinInv
<1>2. /\ rcv[m].pc = "report" /\ rcv' = [rcv EXCEPT ![m] = Waiting]
      /\ Waiting \in [pc : Places, tmp : Nat]
      /\ UNCHANGED <<js, view, active, asker, joining, link, overlap, faults>>
  BY DEF Report, Step, Done, Waiting, Places
<1>3. fired \in [verified : Nat, failed : Nat]
  BY <1>1 DEF JoinTypes
<1>4. /\ fired' \in [verified : Nat, failed : Nat]
      /\ \/ /\ js.state = "VERIFIED"
            /\ fired'.verified = fired.verified + 1 /\ fired'.failed = fired.failed
         \/ /\ js.state = "FAILED"
            /\ fired'.failed = fired.failed + 1 /\ fired'.verified = fired.verified
         \/ fired' = fired
  <2>1. CASE js.state = "VERIFIED"
    <3>1. fired' = [fired EXCEPT !.verified = fired.verified + 1]
      BY <2>1 DEF Report
    <3> QED BY <1>3, <2>1, <3>1
  <2>2. CASE js.state = "FAILED"
    <3>1. fired' = [fired EXCEPT !.failed = fired.failed + 1]
      BY <2>2 DEF Report
    <3> QED BY <1>3, <2>2, <3>1
  <2>3. CASE js.state \notin {"VERIFIED", "FAILED"}
    BY <1>3, <2>3 DEF Report
  <2> QED BY <2>1, <2>2, <2>3
<1>5. rcv'[m].pc = "idle" /\ js' \in JoinState /\ js'.state # "NONE"
  BY <1>1, <1>2 DEF JoinTypes, Waiting, Begun
<1>6. ASSUME ~overlap, Lone(m)
      PROVE  Ballot' /\ AtPlace(m)' /\ Open' /\ Decided' /\ Told' /\ Answered'
  <2>1. /\ Ballot /\ AtPlace(m) /\ Open /\ Decided /\ Told /\ Answered
        /\ ~Tallying /\ ~Tallying' /\ fired.verified = 0 /\ fired.failed = 0
        /\ js.state = "PROVISIONAL" => ~js.asked /\ js.disagree = 0 /\ js.agree < js.required
    BY <1>2, <1>5, <1>6, LonePlace DEF Deciding
  <2>2. has_voted(m)
    BY <1>2, <2>1 DEF AtPlace
  <2>3. Ballot'
    BY <1>2, <2>1 DEF Ballot
  <2>4. AtPlace(m)'
    BY <1>5 DEF AtPlace, Deciding
  <2>5. Open' /\ Decided'
    BY <1>2, <2>1 DEF Open, Decided
  <2>6. Told'
    BY <1>2, <1>4, <1>5, <1>6, <2>1 DEF Told, Lone
  <2>7. Answered'
    BY <1>2, <1>6, <2>1, <2>2 DEF Answered, Lone, has_voted
  <2> QED BY <2>3, <2>4, <2>5, <2>6, <2>7
<1> QED BY <1>2, <1>4, <1>5, <1>6, ThreadKeeps

\* Every step keeps the invariant.
LEMMA JoinInvStep == JoinInv /\ [JoinNext]_joinVars => JoinInv'
<1> SUFFICES ASSUME JoinInv, [JoinNext]_joinVars PROVE JoinInv'
  OBVIOUS
<1>1. CASE UNCHANGED joinVars
  <2>1. JoinTypes' /\ Begun' /\ Steady' /\ (~overlap => Answered')
    BY <1>1 DEF joinVars, JoinInv, JoinTypes, Begun, Steady, Answered, has_voted
  <2> QED BY <1>1, <2>1, Untouched DEF joinVars
<1>2. CASE \E t, p \in BOOLEAN : JoinBegin(t, p)
  BY <1>2, BeginKeeps
<1>3. CASE SyncNonces
  BY <1>3, SyncKeeps
<1>4. ASSUME NEW m \in Attesters,
             \/ ConnectMember(m) \/ attest_respond(m) \/ attest_handle(m)
             \/ attest_process(m) \/ LoseMember(m) \/ MemberLeaves(m)
      PROVE  JoinInv'
  <2>1. CASE ConnectMember(m)
    BY <2>1, ConnectKeeps
  <2>2. CASE attest_respond(m)
    BY <2>2, RespondKeeps
  <2>3. CASE attest_handle(m)
    BY <2>3, HandleKeeps
  <2>4. CASE attest_process(m)
    BY <2>4, SubmitCheckKeeps, SubmitRecordKeeps, SubmitReadKeeps, SubmitWriteKeeps,
       EvaluateKeeps, DecideKeeps, ReportKeeps DEF attest_process
  <2>5. CASE LoseMember(m)
    BY <2>5, LoseKeeps
  <2>6. CASE MemberLeaves(m)
    BY <2>6, LeaveKeeps
  <2> QED BY <1>4, <2>1, <2>2, <2>3, <2>4, <2>5, <2>6
<1> QED BY <1>1, <1>2, <1>3, <1>4 DEF JoinNext

\* Votes that were counted and tallied in peace are of as many members of the joiner's view.
LEMMA Voters ==
    ASSUME JoinInv, ~overlap, js.disagree = 0, ~Tallying
    PROVE  LET voters == {js.votes[i] : i \in 1 .. js.count}
           IN  /\ Cardinality(voters) = js.agree /\ js.agree = js.count
               /\ voters \subseteq Attesters \ {Inviter} /\ IsFiniteSet(voters)
               /\ \A m \in voters : view[m] = "same"
<1> DEFINE voters == {js.votes[i] : i \in 1 .. js.count}
<1>1. js.count \in Nat /\ js.agree \in Nat
  BY DEF JoinInv, JoinTypes, JoinState
<1>2. Ballot
  BY DEF JoinInv
<1>3. js.agree = js.count
  BY <1>1, <1>2 DEF Ballot
<1>4. Cardinality(voters) = js.count
  BY <1>1, <1>2, VotersSize DEF Ballot
<1>5. /\ voters \subseteq Attesters \ {Inviter}
      /\ \A m \in voters : view[m] = "same"
  BY <1>2 DEF Ballot
<1>6. IsFiniteSet(voters)
  BY <1>5, JoinAssumption, FS_Subset
<1> QED BY <1>3, <1>4, <1>5, <1>6

\* The invariant gives what VerdictSound says of a state.
LEMMA JoinInvMeans ==
    ASSUME JoinInv
    PROVE  JoinTypeOK /\ QuorumIsReal /\ ToldOnce /\ JoinIsDecided
<1>1. JoinTypes
  BY DEF JoinInv
<1>2. js.count \in Nat /\ js.agree \in Nat /\ js.disagree \in Nat /\ js.required \in Nat
  BY <1>1 DEF JoinTypes, JoinState
<1>3. ~overlap => /\ Ballot /\ Placed /\ Open /\ Decided /\ Told /\ Answered
                  /\ js.state # "PROVISIONAL" => ~Tallying
  BY DEF JoinInv, Placed, AtPlace, Tallying
<1>4. JoinTypeOK
  <2>1. ~overlap => js.agree + js.disagree <= js.count /\ js.count <= MAX_TRACKED
    BY <1>2, <1>3 DEF Ballot
  <2> QED BY <1>1, <2>1 DEF JoinTypes, JoinState, JoinTypeOK
<1>5. QuorumIsReal
  <2> SUFFICES ASSUME js.state = "VERIFIED", ~js.bypass, ~js.override, ~overlap
               PROVE  LET voters == {js.votes[i] : i \in 1 .. js.count}
                      IN  /\ Cardinality(voters) >= js.required /\ js.required >= MIN_QUORUM
                          /\ Inviter \notin voters
                          /\ \A m \in voters : view[m] = "same"
    BY DEF QuorumIsReal
  <2>1. /\ js.agree >= js.required /\ js.disagree = 0 /\ js.required >= MIN_QUORUM
        /\ ~Tallying
    BY <1>3 DEF Decided
  <2> QED BY <1>2, <2>1, Voters
<1>6. ToldOnce
  BY <1>3 DEF Told, ToldOnce
<1>7. JoinIsDecided
  <2> DEFINE agree == {m \in Attesters \ {Inviter} : view[m] = "same"}
             dissent == {m \in Attesters \ {Inviter} : view[m] = "other"}
             voters == {js.votes[i] : i \in 1 .. js.count}
  <2> SUFFICES ASSUME \A m \in Attesters : /\ link[m].nonce_sent /\ link[m].msg = "none"
                                           /\ rcv[m].pc = "idle",
                      faults = 0, ~overlap, js.state = "PROVISIONAL"
               PROVE  dissent = {} /\ Cardinality(agree) < js.required
    BY DEF JoinIsDecided
  <2>1. js.disagree = 0 /\ js.agree < js.required /\ ~Tallying
    BY <1>3 DEF Open, Deciding, Tallying
  <2>2. /\ Cardinality(voters) = js.agree /\ IsFiniteSet(voters)
        /\ \A m \in voters : view[m] = "same"
    BY <2>1, Voters
  <2>3. \A m \in Attesters \ {Inviter} : view[m] # "badkey" => m \in voters
    BY <1>3 DEF Answered, has_voted
  <2>4. dissent = {} /\ agree \subseteq voters
    BY <2>2, <2>3
  <2>5. /\ Cardinality(agree) \in Nat /\ Cardinality(agree) <= Cardinality(voters)
    BY <2>2, <2>4, FS_Subset, FS_CardinalityType
  <2> HIDE DEF agree, voters, dissent
  <2> QED BY <1>2, <2>1, <2>2, <2>4, <2>5
<1> QED BY <1>4, <1>5, <1>6, <1>7

\* evaluate gives a verdict only while the verification is open, and the thread that read it
\* open is alone until it has.
LEMMA FinalStep ==
    ASSUME JoinInv, [JoinNext]_joinVars
    PROVE  [js.state \in {"VERIFIED", "FAILED"} /\ ~overlap' => js'.state = js.state]_joinVars
<1> SUFFICES ASSUME JoinNext, js.state \in {"VERIFIED", "FAILED"}, ~overlap'
             PROVE  js'.state = js.state
  BY DEF joinVars
<1>1. js \in JoinState
  BY DEF JoinInv, JoinTypes
<1>2. ~overlap => Placed
  BY DEF JoinInv
<1>3. CASE UNCHANGED js
  BY <1>3
<1>4. ASSUME NEW m \in Attesters, SubmitRecord(m) \/ SubmitWrite(m) \/ Evaluate(m)
      PROVE  js'.state = js.state
  <2>1. CASE SubmitRecord(m)
    BY <1>1, <2>1 DEF SubmitRecord, JoinState
  <2>2. CASE SubmitWrite(m)
    BY <1>1, <2>2 DEF SubmitWrite, JoinState
  <2>3. CASE Evaluate(m)
    BY <1>1, <2>3 DEF Evaluate, JoinState
  <2> QED BY <1>4, <2>1, <2>2, <2>3
<1>5. ASSUME NEW m \in Attesters, Decide(m)
      PROVE  FALSE
  <2>1. rcv[m].pc \in {"pass", "fail", "ask"} /\ UNCHANGED overlap
    BY <1>5 DEF Decide, Step, JoinRest
  <2> QED BY <1>2, <2>1 DEF Placed, AtPlace, Deciding
<1>6. ~ \E t, p \in BOOLEAN : JoinBegin(t, p)
  BY DEF JoinBegin
<1> QED
  BY <1>3, <1>4, <1>5, <1>6
  DEF JoinNext, SyncNonces, ConnectMember, attest_respond, attest_handle, LoseMember,
      MemberLeaves, attest_process, SubmitCheck, SubmitRead, Report

\* A join's verdict rests on a real quorum of distinct members, is reached when it can be, is
\* told once and is final, as long as no two receive threads attest at once: for any group,
\* any quorum and any number of faults (gr_join_submit_peer_header, gr_join_evaluate).
THEOREM VerdictIsSound == JoinSpec => VerdictSound
<1> DEFINE Good == JoinTypeOK /\ QuorumIsReal /\ ToldOnce /\ JoinIsDecided
           Final == [js.state \in {"VERIFIED", "FAILED"} /\ ~overlap'
                        => js'.state = js.state]_joinVars
<1>1. JoinInv /\ [JoinNext]_joinVars => Final
  BY FinalStep
<1>2. JoinInv => Good
  BY JoinInvMeans
<1>3. JoinSpec => []JoinInv
  BY JoinInvInit, JoinInvStep, PTL DEF JoinSpec
<1>4. JoinSpec => []Good
  BY <1>2, <1>3, PTL
<1>5. JoinSpec => [][js.state \in {"VERIFIED", "FAILED"} /\ ~overlap'
                        => js'.state = js.state]_joinVars
  BY <1>1, <1>3, PTL DEF JoinSpec
<1> QED BY <1>4, <1>5 DEF VerdictSound, VerdictIsFinal

-----------------------------------------------------------------------------
(***************************************************************************)
(* The bootstrap server.                                                   *)
(***************************************************************************)
AddressRow == [fails : 0 .. BLOCK_MAX_FAILS, blocked : BOOLEAN, at : 0 .. MaxTime]
LogEntry == [prev : Nat, by : Mutators \cup {"boot"}]

BootTypes ==
    /\ rows \in [Addresses -> AddressRow] /\ clock \in 0 .. MaxTime
    /\ audit \in Seq(LogEntry) /\ Len(audit) <= MaxLog
    /\ dbLock \in Mutators \cup {Free}
    /\ boot.pc \in {"poll", "verify", "audit", "insert"} /\ boot.prev \in Nat
    /\ boot \in [pc : {"poll", "verify", "audit", "insert"}, ip : Addresses \cup {"none"},
                 kind : {"none", "REQ", "CONN_REQ"}, prev : Nat]
    /\ mutator \in [Mutators -> [prev : Nat, mark : Nat]]
    /\ streak \in [Addresses -> Nat]

\* The address whose request is looked at is not blocked.
Admitted == boot.pc = "verify" => boot.ip \in Addresses /\ ~rows[boot.ip].blocked

\* The log is a chain up to the first entry of the worker ...
ChainToWorker ==
    \A n \in 1 .. Len(audit) : (\A i \in 1 .. n : audit[i].by # "boot") => audit[n].prev = n - 1

\* ... and whoever holds the lock began at its end but for what the worker has added since.
HolderKnowsEnd ==
    dbLock # Free =>
        /\ mutator[dbLock].mark = mutator[dbLock].prev /\ mutator[dbLock].mark <= Len(audit)
        /\ \A i \in mutator[dbLock].mark + 1 .. Len(audit) : audit[i].by = "boot"

\* The strengthened invariant of the bootstrap server.
BootInv == BootTypes /\ BlocksAreEarned /\ Admitted /\ ChainToWorker /\ HolderKnowsEnd

\* BootInit: an empty blocklist and log.
LEMMA BootInvInit == BootInit => BootInv
<1> SUFFICES ASSUME BootInit PROVE BootInv
  OBVIOUS
<1>1. Absent \in AddressRow /\ Absent.fails = 0 /\ ~Absent.blocked /\ ~(0 >= BLOCK_MAX_FAILS)
  BY BootAssumption DEF Absent, AddressRow
<1>2. BootTypes
  BY <1>1, BootAssumption DEF BootTypes, BootInit, BootIdle
<1>3. BlocksAreEarned
  <2>1. FALSE = (0 >= BLOCK_MAX_FAILS)
    BY <1>1
  <2>2. \A a \in Addresses : rows[a] = Absent /\ streak[a] = 0
    BY DEF BootInit
  <2>3. Absent.blocked = FALSE
    BY DEF Absent
  <2> QED BY <1>1, <2>1, <2>2, <2>3 DEF BlocksAreEarned
<1>4. Admitted /\ ChainToWorker /\ HolderKnowsEnd
  BY DEF Admitted, ChainToWorker, HolderKnowsEnd, BootInit, BootIdle
<1> QED BY <1>2, <1>3, <1>4 DEF BootInv

\* A step that leaves the log and the lock alone.
LEMMA LogStays ==
    ASSUME BootInv, UNCHANGED <<audit, dbLock, mutator>>
    PROVE  ChainToWorker' /\ HolderKnowsEnd'
BY DEF BootInv, ChainToWorker, HolderKnowsEnd

\* Some addresses start anew.
LEMMA RowsCleared ==
    ASSUME BootInv, NEW A \in SUBSET Addresses,
           rows' = [a \in Addresses |-> IF a \in A THEN Absent ELSE rows[a]],
           streak' = [a \in Addresses |-> IF a \in A THEN 0 ELSE streak[a]]
    PROVE  /\ rows' \in [Addresses -> AddressRow] /\ streak' \in [Addresses -> Nat]
           /\ BlocksAreEarned'
           /\ \A a \in Addresses : rows'[a].blocked => rows[a].blocked
           /\ \A a \in Addresses \ A : rows'[a] = rows[a]
<1>1. Absent \in AddressRow /\ Absent.fails = 0 /\ Absent.blocked = FALSE /\ ~(0 >= BLOCK_MAX_FAILS)
  BY BootAssumption DEF Absent, AddressRow
<1>2. rows' \in [Addresses -> AddressRow] /\ streak' \in [Addresses -> Nat]
  BY <1>1 DEF BootInv, BootTypes
<1>3. ASSUME NEW a \in Addresses
      PROVE  rows'[a].fails = streak'[a] /\ rows'[a].blocked = (streak'[a] >= BLOCK_MAX_FAILS)
  <2>1. CASE a \in A
    <3>1. rows'[a] = Absent /\ streak'[a] = 0
      BY <2>1
    <3>2. FALSE = (0 >= BLOCK_MAX_FAILS)
      BY <1>1
    <3> QED BY <1>1, <3>1, <3>2
  <2>2. CASE a \notin A
    <3>1. rows'[a] = rows[a] /\ streak'[a] = streak[a]
      BY <2>2
    <3> QED BY <3>1 DEF BootInv, BlocksAreEarned
  <2> QED BY <2>1, <2>2
<1> QED BY <1>1, <1>2, <1>3 DEF BlocksAreEarned

\* gr_blocklist_check, with the expiry of a block.
LEMMA CheckKeeps ==
    ASSUME BootInv, NEW a \in Addresses, NEW k \in {"REQ", "CONN_REQ"}, gr_blocklist_check(a, k)
    PROVE  BootInv'
<1>1. UNCHANGED <<clock, audit, dbLock, mutator>>
  BY DEF gr_blocklist_check
<1>2. CASE UNCHANGED <<boot, rows, streak>>
  BY <1>1, <1>2, LogStays DEF BootInv, BootTypes, BlocksAreEarned, Admitted
<1>3. CASE ~UNCHANGED <<boot, rows, streak>>
  <2> DEFINE A == IF rows[a].blocked THEN {a} ELSE {}
  <2>1. /\ boot' = [BootIdle EXCEPT !.pc = "verify", !.ip = a, !.kind = k]
        /\ rows' = [b \in Addresses |-> IF b \in A THEN Absent ELSE rows[b]]
        /\ streak' = [b \in Addresses |-> IF b \in A THEN 0 ELSE streak[b]]
    BY <1>3 DEF gr_blocklist_check, BootInv, BootTypes
  <2>2. A \in SUBSET Addresses
    OBVIOUS
  <2>3. ~rows'[a].blocked
    BY <2>1 DEF Absent
  <2>4. /\ rows' \in [Addresses -> AddressRow] /\ streak' \in [Addresses -> Nat]
        /\ BlocksAreEarned'
    <3> HIDE DEF A
    <3> QED BY <2>1, <2>2, RowsCleared
  <2>5. boot'.pc = "verify" /\ boot'.ip = a /\ boot'.kind = k /\ boot'.prev = 0
    BY <2>1 DEF BootIdle
  <2>6. BootTypes'
    BY <1>1, <2>1, <2>4, <2>5 DEF BootInv, BootTypes, BootIdle
  <2>7. Admitted'
    BY <2>3, <2>5 DEF Admitted
  <2> QED BY <1>1, <2>4, <2>6, <2>7, LogStays DEF BootInv
<1> QED BY <1>2, <1>3

\* boot_worker answers a request.
LEMMA AnswerKeeps == ASSUME BootInv, Answer PROVE BootInv'
<1> DEFINE A == IF boot.kind = "REQ" THEN {boot.ip} ELSE {}
<1>1. UNCHANGED <<clock, audit, dbLock, mutator>> /\ boot' = BootIdle /\ boot.pc = "verify"
  BY DEF Answer
<1>2. boot.ip \in Addresses
  BY <1>1 DEF BootInv, Admitted
<1>3. /\ rows' = [b \in Addresses |-> IF b \in A THEN Absent ELSE rows[b]]
      /\ streak' = [b \in Addresses |-> IF b \in A THEN 0 ELSE streak[b]]
  BY <1>2 DEF Answer, BootInv, BootTypes
<1>4. A \in SUBSET Addresses
  BY <1>2
<1>5. /\ rows' \in [Addresses -> AddressRow] /\ streak' \in [Addresses -> Nat]
      /\ BlocksAreEarned'
  <2> HIDE DEF A
  <2> QED BY <1>3, <1>4, RowsCleared
<1>6. BootTypes' /\ Admitted'
  BY <1>1, <1>5 DEF BootInv, BootTypes, BootIdle, Admitted
<1> QED BY <1>1, <1>5, <1>6, LogStays DEF BootInv

\* gr_blocklist_record_fail: one failure more, and the block when they are enough.
LEMMA RecordFailKeeps == ASSUME BootInv, gr_blocklist_record_fail PROVE BootInv'
<1> DEFINE a == boot.ip
           n == rows[a].fails + 1
           block == n >= BLOCK_MAX_FAILS
           row == [fails |-> n, blocked |-> block, at |-> IF block THEN clock ELSE 0]
<1>1. /\ UNCHANGED <<clock, audit, dbLock, mutator>> /\ boot.pc = "verify"
      /\ rows' = [rows EXCEPT ![a] = row] /\ streak' = [streak EXCEPT ![a] = @ + 1]
      /\ boot' = IF block THEN [boot EXCEPT !.pc = "audit"] ELSE BootIdle
  BY DEF gr_blocklist_record_fail
<1>2. /\ a \in Addresses /\ ~rows[a].blocked /\ rows[a] \in AddressRow /\ rows[a].fails = streak[a]
      /\ rows[a].blocked = (streak[a] >= BLOCK_MAX_FAILS)
  BY <1>1 DEF BootInv, Admitted, BootTypes, BlocksAreEarned
<1>3. n \in 1 .. BLOCK_MAX_FAILS /\ streak[a] \in Nat
  BY <1>2, BootAssumption DEF AddressRow
<1>4. row \in AddressRow
  BY <1>3, BootAssumption DEF AddressRow, BootInv, BootTypes
<1>5. BlocksAreEarned'
  BY <1>1, <1>2, <1>3 DEF BlocksAreEarned, BootInv, BootTypes
<1>6. boot' \in [pc : {"poll", "audit"}, ip : Addresses \cup {"none"},
                 kind : {"none", "REQ", "CONN_REQ"}, prev : Nat]
  BY <1>1 DEF BootInv, BootTypes, BootIdle
<1>7. rows' \in [Addresses -> AddressRow] /\ streak' \in [Addresses -> Nat]
  BY <1>1, <1>2, <1>4 DEF BootInv, BootTypes
<1>8. BootTypes' /\ Admitted'
  BY <1>1, <1>6, <1>7 DEF BootInv, BootTypes, Admitted
<1> QED BY <1>1, <1>5, <1>8, LogStays DEF BootInv

\* What is left of a log.
LEMMA LogCut ==
    ASSUME BootTypes, NEW n \in 0 .. Len(audit), audit' = SubSeq(audit, 1, n)
    PROVE  /\ audit' \in Seq(LogEntry) /\ Len(audit') = n /\ n \in Nat /\ Len(audit') <= MaxLog
           /\ \A i \in 1 .. n : audit'[i] = audit[i]
BY LenProperties, SubSeqProperties, BootAssumption DEF BootTypes

\* The front of a chain is a chain.
LEMMA CutIsChain ==
    ASSUME BootInv, NEW n \in 0 .. Len(audit), Len(audit) \in Nat, Len(audit') = n,
           \A i \in 1 .. n : audit'[i] = audit[i]
    PROVE  ChainToWorker'
<1> SUFFICES ASSUME NEW k \in 1 .. n, \A i \in 1 .. k : audit'[i].by # "boot"
             PROVE  audit'[k].prev = k - 1
  BY DEF ChainToWorker
<1>1. k \in 1 .. Len(audit) /\ \A i \in 1 .. k : i \in 1 .. n
  OBVIOUS
<1>2. \A i \in 1 .. k : audit[i].by # "boot"
  BY <1>1
<1> QED BY <1>1, <1>2 DEF BootInv, ChainToWorker

\* A log with one more entry.
LEMMA LogGrown ==
    ASSUME BootTypes, NEW e \in LogEntry, Len(audit) < MaxLog, audit' = Append(audit, e)
    PROVE  /\ audit' \in Seq(LogEntry) /\ Len(audit') = Len(audit) + 1 /\ Len(audit) \in Nat
           /\ Len(audit') <= MaxLog
           /\ \A i \in 1 .. Len(audit) : audit'[i] = audit[i]
           /\ audit'[Len(audit) + 1] = e
BY LenProperties, AppendProperties, BootAssumption DEF BootTypes

\* The worker's unlocked audit entry: the end of the log is read ...
LEMMA AuditReadKeeps == ASSUME BootInv, BootAuditRead PROVE BootInv'
<1>1. UNCHANGED <<rows, clock, audit, dbLock, mutator, streak>> /\ boot.pc = "audit"
      /\ boot' = [boot EXCEPT !.pc = "insert", !.prev = Len(audit)]
  BY DEF BootAuditRead
<1>2. Len(audit) \in Nat
  BY LenProperties DEF BootInv, BootTypes
<1>3. boot'.pc = "insert" /\ boot'.prev = Len(audit)
  BY <1>1 DEF BootInv, BootTypes
<1>4. BootTypes' /\ Admitted' /\ BlocksAreEarned'
  BY <1>1, <1>2, <1>3 DEF BootInv, BootTypes, Admitted, BlocksAreEarned
<1> QED BY <1>1, <1>4, LogStays DEF BootInv

\* ... and the entry written behind whatever is there by then.
LEMMA AuditInsertKeeps == ASSUME BootInv, BootAuditInsert PROVE BootInv'
<1> DEFINE e == [prev |-> boot.prev, by |-> "boot"]
<1>1. UNCHANGED <<rows, clock, dbLock, mutator, streak>> /\ boot' = BootIdle /\ Len(audit) < MaxLog
      /\ audit' = Append(audit, e)
  BY DEF BootAuditInsert
<1>2. e \in LogEntry /\ e.by = "boot"
  BY DEF BootInv, BootTypes, LogEntry
<1> HIDE DEF e
<1>3. /\ audit' \in Seq(LogEntry) /\ Len(audit') = Len(audit) + 1 /\ Len(audit) \in Nat
      /\ Len(audit') <= MaxLog /\ \A i \in 1 .. Len(audit) : audit'[i] = audit[i]
      /\ audit'[Len(audit) + 1] = e
  BY <1>1, <1>2, LogGrown DEF BootInv
<1>4. BootTypes' /\ Admitted' /\ BlocksAreEarned'
  <2>1. boot' \in [pc : {"poll", "verify", "audit", "insert"}, ip : Addresses \cup {"none"},
                   kind : {"none", "REQ", "CONN_REQ"}, prev : Nat]
        /\ boot'.pc = "poll" /\ boot'.prev = 0
    BY <1>1 DEF BootIdle
  <2>2. BootTypes'
    BY <1>1, <1>3, <2>1 DEF BootInv, BootTypes
  <2>3. Admitted' /\ BlocksAreEarned'
    BY <1>1, <2>1 DEF BootInv, Admitted, BlocksAreEarned
  <2> QED BY <2>2, <2>3
<1>5. ChainToWorker'
  BY <1>2, <1>3 DEF BootInv, ChainToWorker
<1>6. HolderKnowsEnd'
  BY <1>1, <1>2, <1>3 DEF BootInv, BootTypes, HolderKnowsEnd
<1> QED BY <1>4, <1>5, <1>6 DEF BootInv

\* A mutator takes the lock and reads the end of the log ...
LEMMA MutatorBeginKeeps == ASSUME BootInv, NEW t \in Mutators, MutatorBegin(t) PROVE BootInv'
<1>1. UNCHANGED <<rows, clock, audit, boot, streak>> /\ dbLock' = t
      /\ mutator' = [mutator EXCEPT ![t] = [prev |-> Len(audit), mark |-> Len(audit)]]
  BY DEF MutatorBegin
<1>2. Len(audit) \in Nat
  BY LenProperties DEF BootInv, BootTypes
<1>3. BootTypes' /\ Admitted' /\ BlocksAreEarned' /\ ChainToWorker'
  BY <1>1, <1>2 DEF BootInv, BootTypes, Admitted, BlocksAreEarned, ChainToWorker
<1>4. HolderKnowsEnd'
  BY <1>1, <1>2 DEF BootInv, BootTypes, HolderKnowsEnd
<1> QED BY <1>3, <1>4 DEF BootInv

\* ... and appends, commits or rolls back.
LEMMA MutatorEndKeeps == ASSUME BootInv, NEW t \in Mutators, MutatorEnd(t) PROVE BootInv'
<1> DEFINE m == mutator[t]
           e == [prev |-> m.prev, by |-> t]
<1>1. UNCHANGED <<rows, clock, boot, mutator, streak>> /\ dbLock' = Free /\ dbLock = t /\ t # Free
  BY BootAssumption DEF MutatorEnd
<1>2. /\ m.prev \in Nat /\ m.mark = m.prev /\ m.mark <= Len(audit) /\ Len(audit) \in Nat
      /\ \A i \in m.mark + 1 .. Len(audit) : audit[i].by = "boot"
  BY <1>1, LenProperties DEF BootInv, BootTypes, HolderKnowsEnd
<1>3. e \in LogEntry /\ e.prev = m.prev /\ e.by = t
  BY <1>2 DEF LogEntry
<1>4. CASE Len(audit) < MaxLog /\ audit' = Append(audit, e)
  <2> HIDE DEF e
  <2>1. /\ audit' \in Seq(LogEntry) /\ Len(audit') = Len(audit) + 1
        /\ Len(audit') <= MaxLog /\ \A i \in 1 .. Len(audit) : audit'[i] = audit[i]
        /\ audit'[Len(audit) + 1] = e
    BY <1>3, <1>4, LogGrown DEF BootInv
  <2>2. ChainToWorker'
    <3> SUFFICES ASSUME NEW n \in 1 .. Len(audit) + 1, \A i \in 1 .. n : audit'[i].by # "boot"
                 PROVE  audit'[n].prev = n - 1
      BY <2>1 DEF ChainToWorker
    <3>1. CASE n <= Len(audit)
      <4>1. n \in 1 .. Len(audit) /\ \A i \in 1 .. n : i \in 1 .. Len(audit)
        BY <1>2, <3>1
      <4>2. \A i \in 1 .. n : audit[i].by # "boot"
        BY <2>1, <4>1
      <4> QED BY <2>1, <4>1, <4>2 DEF BootInv, ChainToWorker
    <3>2. CASE n = Len(audit) + 1
      <4>1. \A i \in 1 .. Len(audit) : audit[i].by # "boot"
        BY <1>2, <2>1, <3>2
      <4>2. m.mark = Len(audit)
        BY <1>2, <4>1
      <4> QED BY <1>2, <1>3, <2>1, <3>2, <4>2
    <3> QED BY <1>2, <3>1, <3>2
  <2>3. BootTypes' /\ Admitted' /\ BlocksAreEarned' /\ HolderKnowsEnd'
    BY <1>1, <2>1 DEF BootInv, BootTypes, Admitted, BlocksAreEarned, HolderKnowsEnd
  <2> QED BY <2>2, <2>3 DEF BootInv
<1>5. CASE audit' = SubSeq(audit, 1, m.mark)
  <2>1. /\ audit' \in Seq(LogEntry) /\ Len(audit') = m.mark /\ Len(audit') <= MaxLog
        /\ \A i \in 1 .. m.mark : audit'[i] = audit[i]
    BY <1>2, <1>5, LogCut DEF BootInv
  <2>2. BootTypes' /\ Admitted' /\ BlocksAreEarned' /\ HolderKnowsEnd'
    BY <1>1, <2>1 DEF BootInv, BootTypes, Admitted, BlocksAreEarned, HolderKnowsEnd
  <2>3. ChainToWorker'
    BY <1>2, <2>1, CutIsChain
  <2> QED BY <2>2, <2>3 DEF BootInv
<1> QED BY <1>4, <1>5 DEF MutatorEnd

\* gr_blocklist_cleanup.
LEMMA CleanupKeeps == ASSUME BootInv, gr_blocklist_cleanup PROVE BootInv'
<1> DEFINE old == {a \in Addresses : rows[a].blocked /\ rows[a].at < clock - BLOCK_DURATION}
<1>1. /\ UNCHANGED <<clock, audit, dbLock, boot, mutator>>
      /\ rows' = [a \in Addresses |-> IF a \in old THEN Absent ELSE rows[a]]
      /\ streak' = [a \in Addresses |-> IF a \in old THEN 0 ELSE streak[a]]
      /\ old \in SUBSET Addresses
  BY DEF gr_blocklist_cleanup
<1>2. /\ rows' \in [Addresses -> AddressRow] /\ streak' \in [Addresses -> Nat]
      /\ BlocksAreEarned' /\ \A a \in Addresses : rows'[a].blocked => rows[a].blocked
  <2> HIDE DEF old
  <2> QED BY <1>1, RowsCleared
<1>3. BootTypes' /\ Admitted'
  BY <1>1, <1>2 DEF BootInv, BootTypes, Admitted
<1> QED BY <1>1, <1>2, <1>3, LogStays DEF BootInv

\* The program ends and is started again.
LEMMA RestartKeeps == ASSUME BootInv, BootRestart PROVE BootInv'
<1>1. UNCHANGED <<rows, clock, mutator, streak>> /\ boot' = BootIdle /\ dbLock' = Free
  BY DEF BootRestart
<1>2. PICK n \in 0 .. Len(audit) :
        \/ audit' = SubSeq(audit, 1, n)
        \/ n = Len(audit) /\ audit' = audit
  <2>1. Len(audit) \in Nat
    BY LenProperties DEF BootInv, BootTypes
  <2>2. dbLock # Free => mutator[dbLock].mark \in 0 .. Len(audit)
    BY <2>1 DEF BootInv, BootTypes, HolderKnowsEnd
  <2> QED BY <2>1, <2>2 DEF BootRestart
<1>3. /\ audit' \in Seq(LogEntry) /\ Len(audit') = n /\ n \in Nat /\ Len(audit') <= MaxLog
      /\ \A i \in 1 .. n : audit'[i] = audit[i]
  BY <1>2, LogCut, LenProperties DEF BootInv, BootTypes
<1>4. BootTypes' /\ Admitted' /\ BlocksAreEarned' /\ HolderKnowsEnd'
  BY <1>1, <1>3 DEF BootInv, BootTypes, Admitted, BlocksAreEarned, HolderKnowsEnd, BootIdle
<1>5. ChainToWorker'
  BY <1>3, LenProperties, CutIsChain DEF BootInv, BootTypes
<1> QED BY <1>4, <1>5 DEF BootInv

\* Every step.
LEMMA BootInvStep == BootInv /\ [BootNext]_bootVars => BootInv'
<1> SUFFICES ASSUME BootInv, [BootNext]_bootVars PROVE BootInv'
  OBVIOUS
<1>1. CASE Tick \/ UNCHANGED bootVars
  <2>1. clock' \in 0 .. MaxTime /\ UNCHANGED <<rows, audit, dbLock, boot, mutator, streak>>
    BY <1>1, BootAssumption DEF Tick, bootVars, BootInv, BootTypes
  <2>2. BootTypes' /\ Admitted' /\ BlocksAreEarned'
    BY <2>1 DEF BootInv, BootTypes, Admitted, BlocksAreEarned
  <2> QED BY <2>1, <2>2, LogStays DEF BootInv
<1>2. CASE BootNext /\ ~Tick
  BY <1>2, CheckKeeps, AnswerKeeps, RecordFailKeeps, AuditReadKeeps, AuditInsertKeeps,
     MutatorBeginKeeps, MutatorEndKeeps, CleanupKeeps, RestartKeeps DEF BootNext
<1> QED BY <1>1, <1>2

\* The invariant implies the invariants that the run checks.
LEMMA BootInvSound == BootInv => BootTypeOK /\ BlocksAreEarned /\ ForksNeedTheWorker
<1> SUFFICES ASSUME BootInv PROVE BootTypeOK /\ BlocksAreEarned /\ ForksNeedTheWorker
  OBVIOUS
<1>1. BootTypeOK
  BY DEF BootTypeOK, BootInv, BootTypes, AddressRow
<1>2. ForksNeedTheWorker
  BY LenProperties DEF ForksNeedTheWorker, BootInv, BootTypes, ChainToWorker
<1> QED BY <1>1, <1>2 DEF BootInv

\* A block ends by its expiry or by a cleanup after it, and by nothing else.
LEMMA BlockedUntilExpired ==
    ASSUME BootInv, [BootNext]_bootVars, NEW a \in Addresses, rows[a].blocked, ~rows'[a].blocked
    PROVE  clock - rows[a].at >= BLOCK_DURATION
<1>1. rows[a].at \in Int /\ clock \in Int /\ BLOCK_DURATION \in Int
  BY BootAssumption DEF BootInv, BootTypes, AddressRow
<1>2. ASSUME NEW b \in Addresses, NEW k \in {"REQ", "CONN_REQ"}, gr_blocklist_check(b, k)
      PROVE  clock - rows[a].at >= BLOCK_DURATION
  BY <1>2 DEF gr_blocklist_check, Expired, BootInv, BootTypes
<1>3. ~Answer /\ ~gr_blocklist_record_fail
  BY DEF Answer, gr_blocklist_record_fail, BootInv, BootTypes, Admitted
<1>4. CASE gr_blocklist_cleanup
  BY <1>1, <1>4 DEF gr_blocklist_cleanup
<1>5. rows' # rows
  OBVIOUS
<1> QED BY <1>2, <1>3, <1>4, <1>5 DEF BootNext, bootVars, BootAuditRead, BootAuditInsert,
           MutatorBegin, MutatorEnd, BootRestart, Tick

\* BlocksHold for any addresses, mutators and bounds: the blocklist blocks whom it should, for
\* as long as it should, and only the worker's own unlocked audit entry can fork the log.
THEOREM BlocksAlwaysHold == BootSpec => BlocksHold
<1>1. BootInit => BootInv
  BY BootInvInit
<1>2. BootInv /\ [BootNext]_bootVars => BootInv'
  BY BootInvStep
<1>3. BootInv => BootTypeOK /\ BlocksAreEarned /\ ForksNeedTheWorker
  BY BootInvSound
<1>4. BootInv /\ [BootNext]_bootVars =>
        [\A a \in Addresses : rows[a].blocked /\ ~rows'[a].blocked
          => clock - rows[a].at >= BLOCK_DURATION]_bootVars
  BY BlockedUntilExpired
<1> QED BY <1>1, <1>2, <1>3, <1>4, PTL DEF BootSpec, BlocksHold, BlockedForTheDuration
=============================================================================
