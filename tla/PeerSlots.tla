------------------------------ MODULE PeerSlots ------------------------------
(***************************************************************************)
(* The peer table of a client (yumi_client.c, sections 6, 9, 10 and 12 to  *)
(* 15) and the threads that share it: the sync worker, which connects to   *)
(* the members of the registrar, reaps failed slots and tears down silent  *)
(* ones; the bootstrap worker, which connects on request; the receive      *)
(* threads of the SUDP connections, which report state changes and relay   *)
(* mesh packets; and the application, which sends and shuts down.          *)
(*                                                                         *)
(* The handshake is the environment: from its creation on a connection     *)
(* may report ESTABLISHED, once, and then FAILED, at any time.  Destroying a connection  *)
(* joins its threads, so it waits for a callback that is under way.  Time  *)
(* is abstracted: any connected peer may have been silent for too long.    *)
(***************************************************************************)
EXTENDS Integers, FiniteSets

CONSTANTS
    Members,    \* the active peers of the registrar, without ourselves
    Slots,      \* indices of c->peers (YUMI_CLIENT_MAX_PEERS), from 1 on
    Stuns,      \* c->stun_count
    MaxConns    \* bound: SUDP connections created

Threads == {"sync", "boot", "app"}
Conns == 1 .. MaxConns
None == 0

ASSUME SlotAssumption ==
    /\ Stuns \in Nat /\ MaxConns \in Nat
    /\ IsFiniteSet(Slots) /\ Slots \subseteq Nat \ {0}
    /\ None \notin Members
Unlocked == "nobody"

VARIABLES
    slot,       \* slot -> peer_slot_t
    conn,       \* connection -> its state, the peer and slot_idx of its context
    cb,         \* connection -> what its receive thread does in a callback
    lock,       \* holder of c->peer_lock
    th,         \* thread -> its place and locals
    retries,    \* retries[] of the sync worker
    phase,      \* "closed", "open" or "stopping"
    early,      \* history: did a connection report before peer_connect was done
    misused     \* history: who used a connection that was being destroyed

vars == <<slot, conn, cb, lock, th, retries, phase, early, misused>>

FreeSlot == [state |-> "free", peer |-> None, sudp |-> None, stun |-> 0]
NoConn == [life |-> "none", peer |-> None, slot |-> None, told |-> "nothing"]
Idle == [pc |-> "idle", peer |-> None, slot |-> None, conn |-> None, stun |-> 0, scan |-> 0]

Init ==
    /\ slot = [s \in Slots |-> FreeSlot]
    /\ conn = [t \in Conns |-> NoConn]
    /\ cb = [t \in Conns |-> "none"]
    /\ lock = Unlocked
    /\ th = [x \in Threads |-> Idle]
    /\ retries = {} /\ phase = "closed"
    /\ early = FALSE /\ misused = {}

At(x, pc) == th[x].pc = pc
Return(x, pc) == th' = [th EXCEPT ![x] = [Idle EXCEPT !.pc = pc, !.scan = th[x].scan]]
Loop(x, pc) == th' = [th EXCEPT ![x] = [th[x] EXCEPT !.pc = pc, !.scan = 0]]

\* The for loops over c->peers visit every slot once, in order.
NextIn(x, set, s) == s \in set /\ s > th[x].scan /\ \A i \in set : i > th[x].scan => s <= i
NoneIn(x, set) == \A s \in set : s <= th[x].scan
HasNext(x, set) == \E s \in set : NextIn(x, set, s)

\* Where the caller of peer_connect goes on.
After(x) == IF th[x].pc \in {"retry", "redial"} THEN "reaped" ELSE "idle"

slot_find(p) == {s \in Slots : slot[s].state # "free" /\ slot[s].peer = p}
slot_alloc == {s \in Slots : slot[s].state = "free"}
UsedSlots == {s \in Slots : slot[s].state # "free"}
Connected(s) == slot[s].state = "connected" /\ slot[s].sudp # None

\* A thread touches the connections ts; after an early report all bets are off.
Use(x, ts) ==
    misused' = IF ~early /\ \E t \in ts : conn[t].life \in {"closing", "freed"}
               THEN misused \cup {x} ELSE misused

-----------------------------------------------------------------------------
(***************************************************************************)
(* Life of the client.                                                     *)
(***************************************************************************)
start_workers == phase' = "open"

\* yumi_client_create_group, _open and _join end in start_workers.
Start ==
    /\ phase = "closed" /\ th["app"] = Idle /\ \A t \in Conns : conn[t].life = "none"
    /\ start_workers
    /\ UNCHANGED <<slot, conn, cb, lock, th, retries, early, misused>>

\* yumi_client_destroy: stop_workers waits for both, then every slot goes.
Stop ==
    /\ phase = "open" /\ At("app", "idle")
    /\ phase' = "stopping"
    /\ UNCHANGED <<slot, conn, cb, lock, th, retries, early, misused>>

Joined ==
    /\ phase = "stopping" /\ At("app", "idle") /\ At("sync", "idle") /\ At("boot", "idle")
    /\ lock = Unlocked

StopWorkers ==
    /\ Joined
    /\ lock' = "app" /\ Loop("app", "disconnect")
    /\ UNCHANGED <<slot, conn, cb, retries, phase, early, misused>>

Closed ==
    /\ At("app", "disconnect") /\ NoneIn("app", UsedSlots)
    /\ lock' = Unlocked /\ phase' = "closed" /\ Loop("app", "closed")
    /\ UNCHANGED <<slot, conn, cb, retries, early, misused>>

-----------------------------------------------------------------------------
(***************************************************************************)
(* slot_free: the connection is destroyed, which joins its threads, then   *)
(* the slot is wiped.  Callers differ in whether they hold peer_lock.      *)
(***************************************************************************)
\* The caller's next place once the slot is free.
Resume(x) == CASE At(x, "free_refused") -> "idle"
               [] At(x, "free_redial") -> "reaped"
               [] At(x, "free_reap") -> "reap"
               [] At(x, "free_silent") -> "keepalive"
               [] At(x, "free_all") -> "disconnect"

BeginFree(x, s, pc) ==
    /\ th' = [th EXCEPT ![x] =
                [th[x] EXCEPT !.pc = pc, !.slot = s, !.conn = slot[s].sudp,
                              !.scan = IF pc \in {"free_refused", "free_redial"} THEN 0 ELSE s]]
    /\ conn' = IF slot[s].sudp = None THEN conn
               ELSE [conn EXCEPT ![slot[s].sudp].life = "closing"]

\* pthread_join of the receive threads: no callback is left running.
Freeing(x) == th[x].pc \in {"free_refused", "free_redial", "free_reap", "free_silent", "free_all"}
CallbackOver(t) == t # None => cb[t] = "none"

slot_free(x) ==
    /\ Freeing(x) /\ CallbackOver(th[x].conn)
    /\ slot' = [slot EXCEPT ![th[x].slot] = FreeSlot]
    /\ conn' = IF th[x].conn = None THEN conn
               ELSE [conn EXCEPT ![th[x].conn].life = "freed"]
    /\ Return(x, Resume(x))
    /\ UNCHANGED <<cb, lock, retries, phase, early, misused>>

-----------------------------------------------------------------------------
(***************************************************************************)
(* peer_connect, run by the sync worker and by the bootstrap worker.       *)
(***************************************************************************)
\* auto_connect_peers looks the peer up and lets go of the lock again.
auto_connect_peers(p) ==
    /\ phase = "open" /\ At("sync", "idle") /\ lock = Unlocked
    /\ slot_find(p) = {}
    /\ th' = [th EXCEPT !["sync"] = [Idle EXCEPT !.pc = "connect", !.peer = p]]
    /\ UNCHANGED <<slot, conn, cb, lock, retries, phase, early, misused>>

boot_handle_conn_req(p) ==
    /\ phase = "open" /\ At("boot", "idle")
    /\ th' = [th EXCEPT !["boot"] = [Idle EXCEPT !.pc = "connect", !.peer = p]]
    /\ UNCHANGED <<slot, conn, cb, lock, retries, phase, early, misused>>

\* With the next STUN server, if the peer is still a member.
Retry(r) ==
    /\ At("sync", "reaped") /\ r \in retries
    /\ retries' = retries \ {r}
    /\ th' = IF r.peer \notin Members THEN th
             ELSE [th EXCEPT !["sync"] =
                     [Idle EXCEPT !.pc = "retry", !.peer = r.peer, !.stun = r.stun]]
    /\ UNCHANGED <<slot, conn, cb, lock, phase, early, misused>>

\* A mutant: the look-up in auto_connect_peers is trusted.
ClaimUnchecked(x) ==
    /\ th[x].pc \in {"connect", "retry"} /\ lock = Unlocked
    /\ \E s \in slot_alloc :
          /\ slot' = [slot EXCEPT ![s] =
                  [state |-> "connecting", peer |-> th[x].peer, sudp |-> None, stun |-> th[x].stun]]
          /\ th' = [th EXCEPT ![x] =
                  [th[x] EXCEPT !.pc = IF At(x, "retry") THEN "redial" ELSE "create", !.slot = s]]
    /\ UNCHANGED <<conn, cb, lock, retries, phase, early, misused>>

\* Under peer_lock: find the peer, else take the first free slot.
Claim(x) ==
    /\ th[x].pc \in {"connect", "retry"} /\ lock = Unlocked
    /\ IF slot_find(th[x].peer) # {} \/ slot_alloc = {}
       THEN Return(x, After(x)) /\ UNCHANGED slot
       ELSE LET s == CHOOSE i \in slot_alloc : \A j \in slot_alloc : i <= j
            IN  /\ slot' = [slot EXCEPT ![s] = [state |-> "connecting", peer |-> th[x].peer,
                                               sudp |-> None, stun |-> th[x].stun]]
                /\ th' = [th EXCEPT ![x] =
                        [th[x] EXCEPT !.pc = IF At(x, "retry") THEN "redial" ELSE "create",
                                      !.slot = s]]
    /\ UNCHANGED <<conn, cb, lock, retries, phase, early, misused>>

\* A bad address, no memory, or yumi_sudp_client_create fails.
Refuse(x) ==
    /\ th[x].pc \in {"create", "redial"} /\ th[x].conn = None
    /\ BeginFree(x, th[x].slot, IF At(x, "redial") THEN "free_redial" ELSE "free_refused")
    /\ UNCHANGED <<slot, cb, lock, retries, phase, early, misused>>

\* yumi_sudp_client_create: its threads run before *out is written.
Create(x) ==
    /\ th[x].pc \in {"create", "redial"} /\ th[x].conn = None
    /\ \E t \in Conns :
          /\ conn[t].life = "none" /\ \A u \in Conns : u < t => conn[u].life # "none"
          /\ conn' = [conn EXCEPT ![t] = [life |-> "live", peer |-> th[x].peer,
                                          slot |-> th[x].slot, told |-> "nothing"]]
          /\ th' = [th EXCEPT ![x].conn = t]
    /\ UNCHANGED <<slot, cb, lock, retries, phase, early, misused>>

Created(x) ==
    /\ th[x].pc \in {"create", "redial"} /\ th[x].conn # None
    /\ slot' = [slot EXCEPT ![th[x].slot].sudp = th[x].conn]
    /\ th' = [th EXCEPT ![x].pc = IF At(x, "redial") THEN "redialed" ELSE "dial"]
    /\ UNCHANGED <<conn, cb, lock, retries, phase, early, misused>>

\* yumi_sudp_client_connect on what the slot holds now.
Dial(x) ==
    /\ th[x].pc \in {"dial", "redialed"} /\ slot[th[x].slot].sudp # None
    /\ Use(x, {slot[th[x].slot].sudp})
    /\ Return(x, IF At(x, "redialed") THEN "reaped" ELSE "idle")
    /\ UNCHANGED <<slot, conn, cb, lock, retries, phase, early>>

\* It fails, or the peer was faster and the session is ESTABLISHED already.
DialFails(x) ==
    /\ th[x].pc \in {"dial", "redialed"}
    /\ LET s == th[x].slot
       IN  /\ Use(x, IF slot[s].sudp = None THEN {} ELSE {slot[s].sudp})
           /\ BeginFree(x, s, IF At(x, "redialed") THEN "free_redial" ELSE "free_refused")
    /\ UNCHANGED <<slot, cb, lock, retries, phase, early>>

-----------------------------------------------------------------------------
(***************************************************************************)
(* The sync worker's passes over the table, under peer_lock.               *)
(***************************************************************************)
BeginReap ==
    /\ phase = "open" /\ At("sync", "idle") /\ lock = Unlocked
    /\ lock' = "sync" /\ Loop("sync", "reap")
    /\ UNCHANGED <<slot, conn, cb, retries, phase, early, misused>>

FailedSlots == {s \in Slots : slot[s].state = "failed"}

Reap(s) ==
    /\ At("sync", "reap") /\ NextIn("sync", FailedSlots, s)
    /\ retries' = IF slot[s].stun + 1 < Stuns
                  THEN retries \cup {[peer |-> slot[s].peer, stun |-> slot[s].stun + 1]}
                  ELSE retries
    /\ BeginFree("sync", s, "free_reap")
    /\ UNCHANGED <<slot, cb, lock, phase, early, misused>>

EndReap ==
    /\ At("sync", "reap") /\ NoneIn("sync", FailedSlots)
    /\ lock' = Unlocked /\ Loop("sync", "reaped")
    /\ UNCHANGED <<slot, conn, cb, retries, phase, early, misused>>

BeginKeepalive ==
    /\ At("sync", "reaped") /\ retries = {} /\ lock = Unlocked
    /\ lock' = "sync" /\ Loop("sync", "keepalive")
    /\ UNCHANGED <<slot, conn, cb, retries, phase, early, misused>>

\* KEEPALIVE_TIMEOUT_MS without data.
Silent(s) ==
    /\ At("sync", "keepalive") /\ Connected(s) /\ s > th["sync"].scan
    /\ BeginFree("sync", s, "free_silent")
    /\ UNCHANGED <<slot, cb, lock, retries, phase, early, misused>>

\* The pings use the connections of the slots that stay.
EndKeepalive ==
    /\ At("sync", "keepalive")
    /\ Use("sync", {slot[s].sudp : s \in {i \in Slots : Connected(i)}})
    /\ lock' = Unlocked /\ Loop("sync", "idle")
    /\ UNCHANGED <<slot, conn, cb, retries, phase, early>>

Disconnect(s) ==
    /\ At("app", "disconnect") /\ NextIn("app", UsedSlots, s)
    /\ BeginFree("app", s, "free_all")
    /\ UNCHANGED <<slot, cb, lock, retries, phase, early, misused>>

-----------------------------------------------------------------------------
(***************************************************************************)
(* Callbacks on the receive thread of a connection.                        *)
(***************************************************************************)
Ready(t) == conn[t].life = "live" /\ cb[t] = "none"

\* peer_connect is not done with the slot yet, and works on it unlocked.
Filling(s) == \E x \in {"sync", "boot"} :
    /\ th[x].pc \in {"create", "dial", "redial", "redialed", "free_refused", "free_redial"}
    /\ th[x].slot = s

\* sudp_state_cb(ESTABLISHED): CONNECTED first, then the look for a twin.
Established(t) ==
    /\ Ready(t) /\ conn[t].told = "nothing"
    /\ conn' = [conn EXCEPT ![t].told = "established"]
    /\ slot' = [slot EXCEPT ![conn[t].slot].state = "connected"]
    /\ cb' = [cb EXCEPT ![t] = "check"]
    /\ early' = (early \/ Filling(conn[t].slot))
    /\ UNCHANGED <<lock, th, retries, phase, misused>>

\* The twin check, then sync_send_version on the slot's connection.
TwinCheck(t) ==
    /\ cb[t] = "check" /\ lock = Unlocked
    /\ LET s == conn[t].slot
           twin == \E i \in Slots \ {s} :
                      slot[i].state = "connected" /\ slot[i].peer = slot[s].peer
       IN  /\ slot' = IF twin THEN [slot EXCEPT ![s].state = "failed"] ELSE slot
           /\ Use("callback", IF ~twin /\ Connected(s) /\ slot[s].sudp # t
                              THEN {slot[s].sudp} ELSE {})
    /\ cb' = [cb EXCEPT ![t] = "none"]
    /\ UNCHANGED <<conn, lock, th, retries, phase, early>>

Failed(t) ==
    /\ Ready(t) /\ conn[t].told # "failed"
    /\ conn' = [conn EXCEPT ![t].told = "failed"]
    /\ slot' = [slot EXCEPT ![conn[t].slot].state = "failed"]
    /\ early' = (early \/ Filling(conn[t].slot))
    /\ UNCHANGED <<cb, lock, th, retries, phase, misused>>

\* mesh_handle of a packet for somebody else: it has to wait for the lock.
Relay(t) ==
    /\ Ready(t) /\ conn[t].told = "established"
    /\ cb' = [cb EXCEPT ![t] = "relay"]
    /\ UNCHANGED <<slot, conn, lock, th, retries, phase, early, misused>>

RelayOut(t) ==
    /\ cb[t] = "relay" /\ lock = Unlocked
    /\ Use("callback", {slot[s].sudp : s \in {i \in Slots : Connected(i) /\ i # conn[t].slot}})
    /\ cb' = [cb EXCEPT ![t] = "none"]
    /\ UNCHANGED <<slot, conn, lock, th, retries, phase, early>>

-----------------------------------------------------------------------------
(***************************************************************************)
(* Messages of the application.                                            *)
(***************************************************************************)

\* yumi_client_broadcast and the mesh fallback send under the lock.
Broadcast ==
    /\ phase = "open" /\ At("app", "idle") /\ lock = Unlocked
    /\ Use("app", {slot[s].sudp : s \in {i \in Slots : Connected(i)}})
    /\ UNCHANGED <<slot, conn, cb, lock, th, retries, phase, early>>

\* yumi_client_send looks the connection up under the lock ...
Send(p) ==
    /\ phase = "open" /\ At("app", "idle") /\ lock = Unlocked
    /\ \E s \in slot_find(p) :
          /\ Connected(s)
          /\ th' = [th EXCEPT !["app"] = [Idle EXCEPT !.pc = "send", !.conn = slot[s].sudp]]
    /\ UNCHANGED <<slot, conn, cb, lock, retries, phase, early, misused>>

\* ... and uses it after letting go.
SendOut ==
    /\ At("app", "send")
    /\ Use("sender", {th["app"].conn})
    /\ Return("app", "idle")
    /\ UNCHANGED <<slot, conn, cb, lock, retries, phase, early>>

-----------------------------------------------------------------------------
Connecting(x) == Claim(x) \/ Refuse(x) \/ Create(x) \/ Created(x) \/ Dial(x) \/ DialFails(x)
Pass ==
    \/ BeginReap \/ EndReap \/ BeginKeepalive \/ EndKeepalive
    \/ \E s \in Slots : Reap(s) \/ Silent(s)
    \/ \E r \in retries : Retry(r)
Callback(t) == TwinCheck(t) \/ RelayOut(t)
Destroy == StopWorkers \/ Closed \/ \E s \in Slots : Disconnect(s)

Next ==
    \/ Start \/ Stop \/ Destroy \/ Pass \/ Broadcast \/ SendOut
    \/ \E p \in Members : auto_connect_peers(p) \/ boot_handle_conn_req(p) \/ Send(p)
    \/ \E x \in {"sync", "boot"} : Connecting(x)
    \/ \E x \in Threads : slot_free(x)
    \/ \E t \in Conns : Established(t) \/ Failed(t) \/ Relay(t) \/ Callback(t)

Spec == Init /\ [][Next]_vars

-----------------------------------------------------------------------------
TypeOK ==
    /\ \A s \in Slots :
          /\ slot[s].state \in {"free", "connecting", "connected", "failed"}
          /\ slot[s].stun \in {0} \cup 0 .. Stuns - 1 /\ slot[s].sudp \in {None} \cup Conns
    /\ \A t \in Conns : /\ conn[t].life \in {"none", "live", "closing", "freed"}
                        /\ cb[t] \in {"none", "check", "relay"}
    /\ lock \in {Unlocked} \cup Threads /\ phase \in {"closed", "open", "stopping"}

(* peer_lock makes the look-up and the claim one step: whatever connects,  *)
(* to whomever and on whoever's behalf, a peer never has two slots.  (A    *)
(* report that is too early can bring a slot back that has been wiped: it  *)
(* is in use then, for nobody, and there may be several.)                  *)
OneSlotPerPeer ==
    \A s, i \in Slots :
        (s # i /\ slot[s].state # "free" /\ slot[i].state # "free" /\ slot[s].peer = slot[i].peer)
            => slot[s].peer = None /\ early

(* A slot only ever points to a connection that was made for it and its    *)
(* peer and that is not freed, unless a connection reported back while     *)
(* peer_connect still worked on the slot without the lock.                 *)
OwnConnection ==
    \A s \in Slots : LET t == slot[s].sudp IN
        (slot[s].state # "free" /\ t # None /\ ~early) =>
            /\ conn[t].slot = s /\ conn[t].peer = slot[s].peer
            /\ conn[t].life # "freed"

(* Under the same condition only yumi_client_send and its variants, which  *)
(* use a connection after unlocking, meet one that is being destroyed.     *)
OnlySendersMisuse == ~early => misused \subseteq {"sender"}

(* Once the client is closed every connection ever created is freed.       *)
NothingLeaks ==
    (At("app", "closed") /\ ~early) => \A t \in Conns : conn[t].life \in {"none", "freed"}

(* A destroyer that holds peer_lock and joins a receive thread that waits  *)
(* for it.                                                                 *)
Wedged ==
    \E x \in Threads : lock = x /\ th[x].conn # None /\ cb[th[x].conn] # "none"

(* The guards of the steps of each thread.                                 *)
WorkerGoesOn(x) ==
    \/ th[x].pc \in {"connect", "retry"} /\ lock = Unlocked
    \/ th[x].pc \in {"create", "redial", "dial", "redialed"}
SyncGoesOn ==
    \/ At("sync", "reap") /\ (HasNext("sync", FailedSlots) \/ NoneIn("sync", FailedSlots))
    \/ At("sync", "reaped") /\ (retries # {} \/ lock = Unlocked)
    \/ At("sync", "keepalive")
AppGoesOn ==
    \/ Joined \/ At("app", "send")
    \/ At("app", "disconnect") /\ (HasNext("app", UsedSlots) \/ NoneIn("app", UsedSlots))

(* Nothing but that circular wait keeps yumi_client_destroy from coming    *)
(* back: until it has, a worker, a callback or the destroyer can go on.    *)
HangsOnlyWedged ==
    (phase = "stopping" /\ ~Wedged) =>
        \/ AppGoesOn \/ SyncGoesOn \/ WorkerGoesOn("sync") \/ WorkerGoesOn("boot")
        \/ \E x \in Threads : Freeing(x) /\ CallbackOver(th[x].conn)
        \/ lock = Unlocked /\ \E t \in Conns : cb[t] # "none"

\* The peer table under both workers, callbacks, senders and shutdown: one slot per peer, each
\* with its own connection, all freed in the end, and one circular wait as the only way to hang.
PeerTableSound ==
    /\ TypeOK /\ OneSlotPerPeer /\ OwnConnection /\ OnlySendersMisuse /\ NothingLeaks
    /\ HangsOnlyWedged
==============================================================================
