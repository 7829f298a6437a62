------------------------------- MODULE SudpRekey -------------------------------
(***************************************************************************)
(* How two established secure clients change keys                          *)
(* (network/yumi_sudp_client.c): sudp_derive_keys at the end of the        *)
(* handshake, sudp_epoch_rekey when either thread of a client notices that *)
(* the registrar moved to another epoch, the generation rekey by nonce     *)
(* counter, and the keys sudp_pkt_decrypt tries.  The send worker encrypts *)
(* and the receive worker decrypts; crypto_lock makes only the commit of   *)
(* an epoch rekey atomic, so the comparison of epoch ids, the derivation   *)
(* from c->rekey_seed, the commit, and the derivation and installation of  *)
(* a generation key are steps of their own.                                *)
(*                                                                         *)
(* Keys are symbolic: a seed is the sequence of epochs mixed into it, a    *)
(* transport key is a seed and a generation (the direction is that of the  *)
(* datagram), and a datagram opens under exactly the key it was sealed     *)
(* with.  A torn read of the cached subkeys during the other thread's      *)
(* commit gives a key nothing opens, which is a lost datagram: any         *)
(* datagram may stay in net unreceived.                                    *)
(***************************************************************************)
EXTENDS Integers, Sequences

CONSTANTS
    Msgs,            \* reliable user messages each sender submits, once each
    Senders,         \* the ends that submit user messages
    Removers,        \* the ends whose registrar may come to list the peer inactive
    RekeyInterval,   \* SUDP_REKEY_INTERVAL: nonces per generation
    MaxEpoch,        \* bound: epochs of the group
    MaxCtr           \* bound: datagrams an end encrypts

ASSUME RekeyAssumption ==
    RekeyInterval \in Nat \ {0} /\ MaxEpoch \in Nat \ {0} /\ MaxCtr \in Nat

\* End 1 is the initiator.
Ends == {1, 2}
OtherEnd(e) == 3 - e
Threads == {"worker", "rx"}

VARIABLES
    latest,   \* the newest epoch of the group
    reg,      \* end -> [epoch, peer]: its registrar's header and the peer's status
    conn,     \* end -> the key state of its yumi_sudp_client
    th,       \* end -> thread -> where it stands and the copies it holds
    flight,   \* end -> message -> the epoch id stamped into it, 0 before
    acked,    \* end -> messages acknowledged to it
    acks,     \* end -> acknowledgements its worker has to send
    net,      \* end -> datagrams on their way to it, in any order and number
    got,      \* end -> messages handed to recv_cb
    dropped,  \* history: end -> <<stamp, epoch>> of messages dropped after the ack
    raced,    \* history: the ends whose keys two threads changed at once
    skipped   \* history: the ends that rekeyed past an epoch they never used

rekeyVars == <<latest, reg, conn, th, flight, acked, acks, net, got, dropped, raced, skipped>>
app == <<flight, acked, acks, got, dropped>>

Key(seed, gen) == [seed |-> seed, gen |-> gen]
Generation(ctr) == ctr \div RekeyInterval

\* The key state between calloc and the end of the handshake.
NewClient ==
    [ready |-> FALSE, epoch |-> 0, seed |-> <<>>, send |-> Key(<<>>, 0),
     recv |-> Key(<<>>, 0), sgen |-> 0, rgen |-> 0, ctr |-> 0, seen |-> {},
     active |-> TRUE, failed |-> FALSE]

NoDgram == [msg |-> "none", ack |-> FALSE, eid |-> 0, ctr |-> 0, key |-> Key(<<>>, 0)]
Idle == [pc |-> "idle", ep |-> 0, from |-> 0, seed |-> <<>>, d |-> NoDgram]

RekeyStart(client) ==
    /\ latest = 1
    /\ reg = [e \in Ends |-> [epoch |-> 1, peer |-> "active"]]
    /\ conn = [e \in Ends |-> client]
    /\ th = [e \in Ends |-> [t \in Threads |-> Idle]]
    /\ flight = [e \in Ends |-> [m \in Msgs |-> 0]]
    /\ acked = [e \in Ends |-> {}] /\ acks = [e \in Ends |-> {}]
    /\ net = [e \in Ends |-> {}] /\ got = [e \in Ends |-> {}]
    /\ dropped = [e \in Ends |-> {}]
    /\ raced = {} /\ skipped = {}

RekeyInit == RekeyStart(NewClient)

-----------------------------------------------------------------------------
(***************************************************************************)
(* The registrars.  Somebody rotates the epoch; an end learns of it when   *)
(* it rotates itself or loads a snapshot that may carry several rotations. *)
(***************************************************************************)
Rotate ==
    /\ latest < MaxEpoch
    /\ latest' = latest + 1
    /\ UNCHANGED <<reg, conn, th, app, net, raced, skipped>>

Sync(e) ==
    /\ reg[e].epoch < latest
    /\ \E n \in reg[e].epoch + 1 .. latest, p \in {reg[e].peer, "kicked"} :
          /\ p = "active" \/ e \in Removers
          /\ reg' = [reg EXCEPT ![e] = [epoch |-> n, peer |-> p]]
    /\ UNCHANGED <<latest, conn, th, app, net, raced, skipped>>

\* sudp_derive_keys: the seed is derived under the epoch current at this end now.
DeriveKeys(e) ==
    /\ ~conn[e].ready
    /\ LET s == <<reg[e].epoch>>
       IN  conn' = [conn EXCEPT ![e] =
                    [@ EXCEPT !.ready = TRUE, !.epoch = reg[e].epoch, !.seed = s,
                              !.send = Key(s, 0), !.recv = Key(s, 0)]]
    /\ UNCHANGED <<latest, reg, th, app, net, raced, skipped>>

-----------------------------------------------------------------------------
(***************************************************************************)
(* sudp_epoch_rekey, on whichever thread noticed.                          *)
(***************************************************************************)
Stale(e) == conn[e].ready /\ reg[e].epoch # conn[e].epoch

Noticed(e, t, d) ==
    th' = [th EXCEPT ![e][t] =
              [pc |-> "noticed", ep |-> reg[e].epoch, from |-> conn[e].epoch,
               seed |-> <<>>, d |-> d]]

\* The new seed is computed from a copy of rekey_seed taken without the lock.
Derive(e, t) ==
    /\ th[e][t].pc = "noticed"
    /\ th' = [th EXCEPT ![e][t].pc = "derived",
                        ![e][t].seed = Append(conn[e].seed, th[e][t].ep)]
    /\ UNCHANGED <<latest, reg, conn, app, net, raced, skipped>>

\* A mutant: a commit that does not store the epoch id.
CommittedNoId(e, t) ==
    LET w == th[e][t]
    IN  [conn[e] EXCEPT !.seed = w.seed, !.send = Key(w.seed, 0), !.recv = Key(w.seed, 0),
                     !.sgen = 0, !.rgen = 0]

\* The commit under the write lock, and the look at the peer's status.
Committed(e, t) ==
    LET w == th[e][t]
    IN  [conn[e] EXCEPT !.epoch = w.ep, !.seed = w.seed,
                     !.send = Key(w.seed, 0), !.recv = Key(w.seed, 0),
                     !.sgen = 0, !.rgen = 0,
                     !.active = @ /\ reg[e].peer = "active"]

\* The worker patches the stamp of the packet in hand; the receiver tries again.
Commit(e, t) ==
    /\ th[e][t].pc = "derived"
    /\ conn' = [conn EXCEPT ![e] = Committed(e, t)]
    /\ th' = [th EXCEPT ![e][t] =
                 IF t = "worker"
                 THEN [Idle EXCEPT !.pc = "key", !.d = [th[e][t].d EXCEPT !.eid = th[e][t].ep]]
                 ELSE [Idle EXCEPT !.pc = "retry", !.d = th[e][t].d]]
    /\ raced' = IF th[e][t].from # conn[e].epoch /\ th[e][t].seed # conn[e].seed
                THEN raced \cup {e} ELSE raced
    /\ skipped' = IF th[e][t].ep # th[e][t].from + 1 THEN skipped \cup {e} ELSE skipped
    /\ UNCHANGED <<latest, reg, app, net>>

-----------------------------------------------------------------------------
(***************************************************************************)
(* Sending: sudp_encrypt_send stamps, the send worker encrypts.            *)
(***************************************************************************)

\* yumi_sudp_client_send_reliable.
Submit(e, m) ==
    /\ conn[e].ready /\ ~conn[e].failed /\ conn[e].active
    /\ e \in Senders /\ flight[e][m] = 0
    /\ flight' = [flight EXCEPT ![e][m] = conn[e].epoch]
    /\ UNCHANGED <<latest, reg, conn, th, acked, acks, net, got, dropped, raced, skipped>>

SubmitRefused(e) ==
    /\ conn[e].ready /\ ~conn[e].failed /\ ~conn[e].active
    /\ conn' = [conn EXCEPT ![e].failed = TRUE]
    /\ UNCHANGED <<latest, reg, th, app, net, raced, skipped>>

WorkerIdle(e) == conn[e].ready /\ th[e]["worker"].pc = "idle"

\* A first transmission or a retransmission: the stamp stays what it was.
\* The 30 s between two looks at the registrar may have passed or not.
EncryptData(e, m) ==
    /\ WorkerIdle(e) /\ flight[e][m] # 0 /\ m \notin acked[e]
    /\ LET d == [NoDgram EXCEPT !.msg = m, !.eid = flight[e][m]]
       IN  \/ Stale(e) /\ Noticed(e, "worker", d)
           \/ /\ conn[e].ctr < MaxCtr
              /\ th' = [th EXCEPT ![e]["worker"] = [Idle EXCEPT !.pc = "key", !.d = d]]
    /\ UNCHANGED <<latest, reg, conn, app, net, raced, skipped>>

\* An acknowledgement is too short for the epoch check.
EncryptAck(e, m) ==
    /\ WorkerIdle(e) /\ m \in acks[e] /\ conn[e].ctr < MaxCtr
    /\ acks' = [acks EXCEPT ![e] = @ \ {m}]
    /\ th' = [th EXCEPT ![e]["worker"] =
                 [Idle EXCEPT !.pc = "key", !.d = [NoDgram EXCEPT !.msg = m, !.ack = TRUE]]]
    /\ UNCHANGED <<latest, reg, conn, flight, acked, net, got, dropped, raced, skipped>>

\* The nonce counter; a new generation copies the seed under the read lock.
TakeNonce(e) ==
    /\ th[e]["worker"].pc = "key" /\ conn[e].ctr < MaxCtr
    /\ conn' = [conn EXCEPT ![e].ctr = @ + 1]
    /\ th' = [th EXCEPT ![e]["worker"] =
                 [@ EXCEPT !.d.ctr = conn[e].ctr, !.seed = conn[e].seed,
                           !.pc = IF Generation(conn[e].ctr) # conn[e].sgen THEN "gen" ELSE "seal"]]
    /\ UNCHANGED <<latest, reg, app, net, raced, skipped>>

\* The bound MaxCtr: the packet in hand is lost.
OutOfNonces(e) ==
    /\ th[e]["worker"].pc = "key" /\ conn[e].ctr = MaxCtr
    /\ th' = [th EXCEPT ![e]["worker"] = Idle]
    /\ UNCHANGED <<latest, reg, conn, app, net, raced, skipped>>

\* The generation key is written without the lock, from the copied seed.
InstallSendGen(e) ==
    /\ th[e]["worker"].pc = "gen"
    /\ LET w == th[e]["worker"]
           g == Generation(w.d.ctr)
       IN  /\ conn' = [conn EXCEPT ![e].send = Key(w.seed, g), ![e].sgen = g]
           /\ raced' = IF w.seed # conn[e].seed THEN raced \cup {e} ELSE raced
    /\ th' = [th EXCEPT ![e]["worker"].pc = "seal"]
    /\ UNCHANGED <<latest, reg, app, net, skipped>>

Seal(e) ==
    /\ th[e]["worker"].pc = "seal"
    /\ net' = [net EXCEPT ![OtherEnd(e)] = @ \cup {[th[e]["worker"].d EXCEPT !.key = conn[e].send]}]
    /\ th' = [th EXCEPT ![e]["worker"] = Idle]
    /\ UNCHANGED <<latest, reg, conn, app, raced, skipped>>

-----------------------------------------------------------------------------
(***************************************************************************)
(* Receiving: sudp_pkt_decrypt, then the channel and sudp_inner_recv.      *)
(***************************************************************************)
\* A datagram that opened goes through the replay check.
Opened(e, d, client) ==
    IF d.ctr \in client.seen
    THEN /\ conn' = [conn EXCEPT ![e] = client]
         /\ th' = [th EXCEPT ![e]["rx"] = Idle]
    ELSE /\ conn' = [conn EXCEPT ![e] = [client EXCEPT !.seen = @ \cup {d.ctr}]]
         /\ th' = [th EXCEPT ![e]["rx"] = [Idle EXCEPT !.pc = "opened", !.d = d]]

\* All keys failed: rekey and try again if the registrar moved, or give up.
Fallback(e, d) ==
    /\ IF Stale(e) THEN Noticed(e, "rx", d)
                   ELSE th' = [th EXCEPT ![e]["rx"] = Idle]
    /\ UNCHANGED conn

Recv(e, d) ==
    /\ conn[e].ready /\ th[e]["rx"].pc = "idle" /\ d \in net[e]
    /\ CASE Generation(d.ctr) # conn[e].rgen ->
               /\ th' = [th EXCEPT ![e]["rx"] =
                            [Idle EXCEPT !.pc = "gen", !.seed = conn[e].seed, !.d = d]]
               /\ UNCHANGED conn
         [] Generation(d.ctr) = conn[e].rgen /\ d.key = conn[e].recv -> Opened(e, d, conn[e])
         [] OTHER -> Fallback(e, d)
    /\ UNCHANGED <<latest, reg, app, net, raced, skipped>>

\* The sender is in another generation: derive its key from the copied seed.
AdvanceRecvGen(e) ==
    /\ th[e]["rx"].pc = "gen"
    /\ LET w == th[e]["rx"]
           k == Key(w.seed, Generation(w.d.ctr))
       IN  IF w.d.key = k
           THEN /\ Opened(e, w.d, [conn[e] EXCEPT !.recv = k, !.rgen = k.gen])
                /\ raced' = IF w.seed # conn[e].seed THEN raced \cup {e} ELSE raced
           ELSE Fallback(e, w.d) /\ UNCHANGED raced
    /\ UNCHANGED <<latest, reg, app, net, skipped>>

\* After its rekey the receiver tries the generation-0 key only.
Retry(e) ==
    /\ th[e]["rx"].pc = "retry"
    /\ LET d == th[e]["rx"].d
       IN  IF d.key = conn[e].recv THEN Opened(e, d, conn[e])
           ELSE th' = [th EXCEPT ![e]["rx"] = Idle] /\ UNCHANGED conn
    /\ UNCHANGED <<latest, reg, app, net, raced, skipped>>

\* The channel acknowledges what it takes, then sudp_inner_recv looks at it.
InnerRecv(e) ==
    /\ th[e]["rx"].pc = "opened"
    /\ th' = [th EXCEPT ![e]["rx"] = Idle]
    /\ LET d == th[e]["rx"].d
           fresh == d.msg \notin got[e] /\ conn[e].active
       IN  /\ acked' = [acked EXCEPT ![e] = IF d.ack THEN @ \cup {d.msg} ELSE @]
           /\ acks' = [acks EXCEPT ![e] = IF d.ack THEN @ ELSE @ \cup {d.msg}]
           /\ conn' = [conn EXCEPT ![e].failed = @ \/ (~d.ack /\ ~conn[e].active)]
           /\ got' = [got EXCEPT ![e] =
                         IF ~d.ack /\ fresh /\ d.eid = conn[e].epoch THEN @ \cup {d.msg} ELSE @]
           /\ dropped' = [dropped EXCEPT ![e] =
                             IF ~d.ack /\ fresh /\ d.eid # conn[e].epoch
                             THEN @ \cup {<<d.eid, conn[e].epoch>>} ELSE @]
    /\ UNCHANGED <<latest, reg, flight, net, raced, skipped>>

-----------------------------------------------------------------------------
Worker(e) ==
    \/ \E m \in Msgs : EncryptData(e, m) \/ EncryptAck(e, m)
    \/ TakeNonce(e) \/ OutOfNonces(e) \/ InstallSendGen(e) \/ Seal(e)
Receiver(e) == AdvanceRecvGen(e) \/ Retry(e) \/ InnerRecv(e)
Rekey(e) == \E t \in Threads : Derive(e, t) \/ Commit(e, t)

RekeyNext ==
    \/ Rotate
    \/ \E e \in Ends :
          \/ Sync(e) \/ DeriveKeys(e) \/ SubmitRefused(e)
          \/ \E m \in Msgs : Submit(e, m)
          \/ \E d \in net[e] : Recv(e, d)
          \/ Worker(e) \/ Receiver(e) \/ Rekey(e)

\* Threads keep running, registrars keep syncing, the application keeps sending
\* and every packet it sends looks at the registrar again after 30 s.
CheckDue(e) == \E m \in Msgs : Stale(e) /\ EncryptData(e, m)
RekeyFairness ==
    \A e \in Ends :
        /\ WF_rekeyVars(Sync(e)) /\ WF_rekeyVars(DeriveKeys(e))
        /\ \A m \in Msgs : WF_rekeyVars(Submit(e, m))
        /\ SF_rekeyVars(CheckDue(e)) /\ WF_rekeyVars(Rekey(e))
        /\ WF_rekeyVars(TakeNonce(e) \/ OutOfNonces(e) \/ InstallSendGen(e) \/ Seal(e))
        /\ WF_rekeyVars(Receiver(e))

-----------------------------------------------------------------------------
RekeyTypeOK ==
    /\ latest \in 1 .. MaxEpoch
    /\ \A e \in Ends :
          /\ reg[e].epoch \in 1 .. latest /\ reg[e].peer \in {"active", "kicked"}
          /\ conn[e].epoch \in 0 .. MaxEpoch /\ conn[e].ctr \in 0 .. MaxCtr
          /\ \A i \in 1 .. Len(conn[e].seed) : conn[e].seed[i] \in 1 .. MaxEpoch
          /\ \A t \in Threads :
                th[e][t].pc \in {"idle", "noticed", "derived", "key", "gen", "seal",
                                 "retry", "opened"}
          /\ acked[e] \subseteq Msgs /\ acks[e] \subseteq Msgs /\ got[e] \subseteq Msgs
    /\ raced \subseteq Ends /\ skipped \subseteq Ends

\* What an end has to avoid for its keys to stay in step with the peer's.
Clean(e) == conn[e].ready /\ e \notin raced \cup skipped

(* The session survives rotations as long as both ends saw every epoch and *)
(* neither end's two threads rekeyed over each other: in the same epoch    *)
(* they hold the same seed, whichever thread of each end noticed first.    *)
SeedsAgree ==
    (Clean(1) /\ Clean(2) /\ conn[1].epoch = conn[2].epoch /\ conn[1].seed[1] = conn[2].seed[1])
        => conn[1].seed = conn[2].seed

(* Without a race, the cached transport keys of both directions come from  *)
(* the current seed: a generation change next to an epoch change never     *)
(* leaves the send or the receive key behind.                              *)
KeysFollowSeed ==
    \A e \in Ends : (conn[e].ready /\ e \notin raced) =>
        /\ conn[e].seed[Len(conn[e].seed)] = conn[e].epoch
        /\ conn[e].send.seed = conn[e].seed /\ conn[e].send.gen = conn[e].sgen
        /\ conn[e].recv.seed = conn[e].seed /\ conn[e].recv.gen = conn[e].rgen

(* A message the channel acknowledged and sudp_inner_recv then threw away  *)
(* was stamped in an epoch the receiver has left: a stamp ahead of the     *)
(* receiver's epoch would need the keys of that epoch to open.             *)
DroppedIsOld ==
    \A e \in Ends : (raced = {}) => \A p \in dropped[e] : p[1] < p[2]

(* An end never goes back to an older epoch, unless two of its threads     *)
(* noticed different rotations and committed in the other order.           *)
EpochForward ==
    [][\A e \in Ends : conn'[e].epoch < conn[e].epoch => e \in raced']_rekeyVars

(* A sender that has something to send follows every rotation: it ends up  *)
(* in the newest epoch, unless its session was torn down.                  *)
RotationReaches ==
    \A e \in Senders :
        latest = MaxEpoch ~>
            \/ conn[e].epoch = MaxEpoch \/ ~conn[e].active
            \/ acked[e] = Msgs \/ e \in raced

\* Two ends that follow the registrar's epochs stay in step: same seeds, keys of those seeds,
\* never back to an older epoch, and every rotation reaches a sender; each part names the
\* interleaving that breaks it.
KeysInStep ==
    /\ [](RekeyTypeOK /\ SeedsAgree /\ KeysFollowSeed /\ DroppedIsOld) /\ EpochForward
    /\ RotationReaches
================================================================================
