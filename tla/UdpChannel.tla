----------------------------- MODULE UdpChannel -----------------------------
(***************************************************************************)
(* One channel of the UDP client between a sender and a receiver           *)
(* (network/yumi_udp_client.c): reliable packets with a retransmit table,  *)
(* ACKs and SACKs, the receiver's reorder window, and unreliable packets,  *)
(* over a network that loses, duplicates and reorders datagrams.           *)
(*                                                                         *)
(* A packet is its sequence number.  The 32-bit numbers are naturals here: *)
(* the comparison is int32_t (seq - next), the same as that of naturals    *)
(* while fewer than 2^31 packets separate the two ends.  The clock is      *)
(* abstracted: a timer may fire whenever its entry is active.  worker_recv *)
(* and worker_recv_ice are the same code for socket and ICE.               *)
(***************************************************************************)
EXTENDS Integers, Sequences, FiniteSets

CONSTANTS
    Window,        \* YUMI_REORDER_WINDOW
    MaxRetransmits,\* max_retransmits
    MaxSent,       \* bound: reliable packets sent
    MaxUnreliable  \* bound: unreliable packets sent

ASSUME WindowAssumption == Window \in Nat \ {0}
ASSUME ChannelAssumption ==
    MaxRetransmits \in Nat /\ MaxSent \in Nat /\ MaxUnreliable \in Nat

VARIABLES
    \* the sender
    relSeq,      \* rel_seq[ch]
    sending,     \* the packet sent but not yet in the table (set of at most one)
    active,      \* the entries of reliable_table that are active
    count,       \* packet -> retransmit_count
    acked,       \* history: packets whose entry an ACK removed
    gaveUp,      \* history: packets dropped after max_retransmits
    \* the network: every datagram ever sent.  It is received any number of
    \* times, at any time and in any order; a lost one is never received, and
    \* an ACK for which the ACK ring has no room is a lost one.
    net,
    \* the receiver
    started,     \* recv_rel_started[ch]
    next,        \* recv_rel_next[ch]
    reorder,     \* slot -> the packet it holds, or None
    draining,    \* the packet being delivered under the channel lock (set)
    base,        \* history: the packet the receiver started with
    delivered,   \* history: reliable packets handed to recv_cb
    \* unreliable packets
    unrelSeq, unrelStarted, unrelNext, unrelDelivered

senderVars == <<relSeq, sending, active, count, acked, gaveUp>>
receiverVars == <<started, next, reorder, draining, base, delivered>>
unrelVars == <<unrelSeq, unrelStarted, unrelNext, unrelDelivered>>
vars == <<relSeq, sending, active, count, acked, gaveUp, net, started, next,
          reorder, draining, base, delivered, unrelSeq, unrelStarted, unrelNext,
          unrelDelivered>>

None == -1
Slots == 0 .. Window - 1
Slot(s) == s % Window
Packets == 0 .. MaxSent - 1

DataMsg(s) == [type |-> "data", seq |-> s]
UnrelMsg(s) == [type |-> "unrel", seq |-> s]
AckMsg(s) == [type |-> "ack", seq |-> s]
SackMsg(s, c, have) == [type |-> "sack", seq |-> s, cumulative |-> c, have |-> have]

Init ==
    /\ relSeq = 0 /\ sending = {} /\ active = {}
    /\ count = [s \in Packets |-> 0]
    /\ acked = {} /\ gaveUp = {} /\ net = {}
    /\ started = FALSE /\ next = 0
    /\ reorder = [i \in Slots |-> None]
    /\ draining = {} /\ base = 0 /\ delivered = <<>>
    /\ unrelSeq = 0 /\ unrelStarted = FALSE /\ unrelNext = 0
    /\ unrelDelivered = <<>>

-----------------------------------------------------------------------------
(***************************************************************************)
(* The sender.                                                             *)
(***************************************************************************)
\* send_worker_process_item takes a number and sends ...
SendReliable ==
    /\ relSeq < MaxSent /\ sending = {}
    /\ relSeq' = relSeq + 1
    /\ net' = net \cup {DataMsg(relSeq)}
    /\ sending' = {relSeq}
    /\ UNCHANGED <<active, count, acked, gaveUp, receiverVars, unrelVars>>

\* ... and only then enters the packet in the table, under state_lock: an ACK
\* may come before the entry.
ReliableAdd ==
    \E s \in sending :
        /\ active' = active \cup {s}
        /\ count' = [count EXCEPT ![s] = 0]
        /\ sending' = {}
        /\ UNCHANGED <<relSeq, acked, gaveUp, net, receiverVars, unrelVars>>

\* A mutant: a retransmission that is not counted.
RetransmitUncounted(s) ==
    /\ s \in active
    /\ net' = net \cup {DataMsg(s)}
    /\ UNCHANGED <<senderVars, receiverVars, unrelVars>>

\* worker_reliable_retransmit, entry s expired: retransmit, or give up.
Retransmit(s) ==
    /\ s \in active /\ count[s] < MaxRetransmits
    /\ net' = net \cup {DataMsg(s)}
    /\ count' = [count EXCEPT ![s] = @ + 1]
    /\ UNCHANGED <<relSeq, sending, active, acked, gaveUp, receiverVars,
                   unrelVars>>

GiveUp(s) ==
    /\ s \in active /\ count[s] >= MaxRetransmits
    /\ active' = active \ {s}
    /\ gaveUp' = gaveUp \cup {s}
    /\ UNCHANGED <<relSeq, sending, count, acked, net, receiverVars, unrelVars>>

\* worker_reliable_ack
Ack(s) ==
    /\ active' = active \ {s}
    /\ acked' = IF s \in active THEN acked \cup {s} ELSE acked

RecvAck(m) ==
    /\ m \in net /\ m.type = "ack"
    /\ Ack(m.seq)
    /\ UNCHANGED <<relSeq, sending, count, gaveUp, net, receiverVars, unrelVars>>

\* worker_handle_sack: what the bitmap lacks and the table still holds is sent
\* again, except entries sent within half a timeout (the ones not in resend).
RecvSack(m) ==
    /\ m \in net /\ m.type = "sack"
    /\ Ack(m.seq)
    /\ \E resend \in SUBSET {s \in active' \ m.have :
                                s \in m.cumulative .. m.cumulative + Window - 1} :
          net' = net \cup {DataMsg(s) : s \in resend}
    /\ UNCHANGED <<relSeq, sending, count, gaveUp, receiverVars, unrelVars>>

SendUnreliable ==
    /\ unrelSeq < MaxUnreliable
    /\ unrelSeq' = unrelSeq + 1
    /\ net' = net \cup {UnrelMsg(unrelSeq)}
    /\ UNCHANGED <<senderVars, receiverVars, unrelStarted, unrelNext,
                   unrelDelivered>>

-----------------------------------------------------------------------------
(***************************************************************************)
(* The receiver.  The first packet to arrive fixes where the channel       *)
(* starts.  draining holds the packet whose delivery is in progress: the   *)
(* receive worker holds the channel lock until the reorder buffer is       *)
(* drained and only then sends its ACK.                                    *)
(***************************************************************************)
Expected(s) == IF started THEN next ELSE s

Receiving(m, type) == m \in net /\ m.type = type /\ draining = {}

\* dist < 0: taken for a duplicate, acknowledged again.
RecvOld(m) ==
    /\ Receiving(m, "data") /\ m.seq < Expected(m.seq)
    /\ net' = net \cup {AckMsg(m.seq)}
    /\ UNCHANGED <<senderVars, receiverVars, unrelVars>>

\* A mutant: whatever is not old is delivered at once, as unreliable packets are.
RecvInOrderSkip(m) ==
    /\ Receiving(m, "data") /\ m.seq >= Expected(m.seq)
    /\ started' = TRUE
    /\ base' = IF started THEN base ELSE m.seq
    /\ delivered' = Append(delivered, m.seq)
    /\ next' = m.seq + 1
    /\ draining' = {m.seq}
    /\ UNCHANGED <<senderVars, net, reorder, unrelVars>>

\* dist = 0: deliver and start draining.
RecvInOrder(m) ==
    /\ Receiving(m, "data") /\ m.seq = Expected(m.seq)
    /\ started' = TRUE
    /\ base' = IF started THEN base ELSE m.seq
    /\ delivered' = Append(delivered, m.seq)
    /\ next' = m.seq + 1
    /\ draining' = {m.seq}
    /\ UNCHANGED <<senderVars, net, reorder, unrelVars>>

\* A mutant: a drain that forgets to free the slot.
DrainKeepSlot ==
    /\ draining # {}
    /\ reorder[Slot(next)] = next
    /\ delivered' = Append(delivered, next)
    /\ next' = next + 1
    /\ UNCHANGED <<senderVars, net, started, reorder, draining, base, unrelVars>>

\* worker_reorder_drain, one turn.
Drain ==
    /\ draining # {}
    /\ reorder[Slot(next)] = next
    /\ delivered' = Append(delivered, next)
    /\ reorder' = [reorder EXCEPT ![Slot(next)] = None]
    /\ next' = next + 1
    /\ UNCHANGED <<senderVars, net, started, draining, base, unrelVars>>

\* Nothing more to drain: unlock and acknowledge the packet.
DrainDone ==
    /\ reorder[Slot(next)] # next
    /\ \E s \in draining : net' = net \cup {AckMsg(s)}
    /\ draining' = {}
    /\ UNCHANGED <<senderVars, started, next, reorder, base, delivered, unrelVars>>

\* Is the packet within the reorder window?
InWindow(s) == s > Expected(s) /\ s - Expected(s) < Window

\* 0 < dist < window: buffer it unless its slot is taken, and send a SACK.
RecvAhead(m) ==
    /\ Receiving(m, "data") /\ InWindow(m.seq)
    /\ reorder' = IF reorder[Slot(m.seq)] = None
                    THEN [reorder EXCEPT ![Slot(m.seq)] = m.seq] ELSE reorder
    /\ net' = net \cup
         {SackMsg(m.seq, next, {s \in next .. next + Window - 1 :
                                  reorder'[Slot(s)] = s})}
    /\ UNCHANGED <<senderVars, started, next, draining, base, delivered, unrelVars>>

\* Beyond the window: dropped, not acknowledged; the model need not take a step.

\* Unreliable: an old one is dropped, any other delivered at once.
RecvUnreliable(m) ==
    /\ Receiving(m, "unrel")
    /\ unrelStarted => m.seq >= unrelNext
    /\ unrelStarted' = TRUE
    /\ unrelNext' = m.seq + 1
    /\ unrelDelivered' = Append(unrelDelivered, m.seq)
    /\ UNCHANGED <<senderVars, net, receiverVars, unrelSeq>>

-----------------------------------------------------------------------------
Timers == \E s \in Packets : Retransmit(s) \/ GiveUp(s)

Receive(m) ==
    \/ RecvAck(m) \/ RecvSack(m)
    \/ RecvOld(m) \/ RecvInOrder(m) \/ RecvAhead(m) \/ RecvUnreliable(m)

Next ==
    \/ SendReliable \/ ReliableAdd \/ Timers \/ SendUnreliable
    \/ Drain \/ DrainDone
    \/ \E m \in net : Receive(m)

Spec == Init /\ [][Next]_vars

(***************************************************************************)
(* The 10 ms timer keeps ticking and the workers keep running.  Nothing is *)
(* assumed of the network.                                                 *)
(***************************************************************************)
Fairness ==
    /\ WF_vars(ReliableAdd) /\ WF_vars(Drain) /\ WF_vars(DrainDone)
    /\ \A s \in Packets : WF_vars(Retransmit(s)) /\ WF_vars(GiveUp(s))

FairSpec == Spec /\ Fairness

-----------------------------------------------------------------------------
TypeOK ==
    /\ relSeq \in 0 .. MaxSent
    /\ sending \subseteq Packets /\ active \subseteq Packets
    /\ count \in [Packets -> 0 .. MaxRetransmits]
    /\ acked \subseteq Packets /\ gaveUp \subseteq Packets
    /\ \A m \in net :
          \/ \E s \in Packets : m \in {DataMsg(s), AckMsg(s)}
          \/ \E s \in 0 .. MaxUnreliable : m = UnrelMsg(s)
          \/ \E s \in Packets, c \in 0 .. MaxSent :
                \E have \in SUBSET (c .. c + Window - 1) : m = SackMsg(s, c, have)
    /\ started \in BOOLEAN /\ next \in 0 .. MaxSent
    /\ reorder \in [Slots -> Packets \cup {None}]
    /\ draining \subseteq Packets
    /\ base \in Nat /\ delivered \in Seq(Nat)
    /\ unrelSeq \in 0 .. MaxUnreliable /\ unrelStarted \in BOOLEAN
    /\ unrelNext \in Nat /\ unrelDelivered \in Seq(Nat)

\* Reliable packets reach recv_cb in order, without a gap and without a
\* duplicate, counted from the packet the channel started with, whatever the
\* network loses, duplicates or reorders (yumi_udp_client.c:1163-1219).
InOrder ==
    /\ \A k \in 1 .. Len(delivered) : delivered[k] = base + k - 1
    /\ started => next = base + Len(delivered)

\* A slot of the reorder buffer never holds anything but a packet of the
\* current window, in its place: a leftover would keep its successor out for
\* ever, since an occupied slot is not overwritten (yumi_udp_client.c:1191).
WindowSound ==
    \A i \in Slots : reorder[i] # None =>
        /\ started /\ Slot(reorder[i]) = i
        /\ next <= reorder[i] /\ reorder[i] < next + Window
        /\ draining = {} => next < reorder[i]

\* Has the receiver the packet?
Received(s) == (started /\ base <= s /\ s < next) \/ (\E i \in Slots : reorder[i] = s)

\* From the packet the channel started with, an acknowledged packet is never
\* lost: the receiver delivered it or holds it in its window.
AckedIsHeld == \A s \in acked : started /\ (s >= base => Received(s))

\* When every packet from the start is acknowledged, every one was delivered:
\* nothing acknowledged is left waiting in the window for a gap to close.
AllAckedAllDelivered ==
    started /\ draining = {} /\ (base .. relSeq - 1) \subseteq acked
        => next = relSeq

\* An unreliable packet is never delivered twice or after a later one.
UnreliableIncreasing ==
    \A j, k \in DOMAIN unrelDelivered : j < k => unrelDelivered[j] < unrelDelivered[k]

\* Every reliable packet is resolved: its entry does not stay in the table for
\* ever, whatever the network does (the retransmissions are counted).
Resolved == \A s \in Packets : (s \in active) ~> (s \notin active)

\* What the application sees of a channel: reliable packets in order, once and without a gap,
\* unreliable ones never twice or behind a later one.
DeliveryInOrder == TypeOK /\ InOrder /\ UnreliableIncreasing

\* What the sender may conclude from an acknowledgement: the packet was delivered or is held
\* in its place of the window, and when all are acknowledged all were delivered.
AckedIsSafe == WindowSound /\ AckedIsHeld /\ AllAckedAllDelivered
=============================================================================
