-------------------------- MODULE UdpChannelProofs --------------------------
(***************************************************************************)
(* Proofs about UdpChannel: for every window, every bound on packets and   *)
(* retransmissions, and a network that loses, duplicates and reorders as   *)
(* it likes, reliable packets are delivered in order and once, and an      *)
(* acknowledgement is never given for a packet the receiver may lose.      *)
(*                                                                         *)
(* The invariants are not inductive by themselves.  The datagrams remember *)
(* the past: an acknowledgement may arrive long after it was sent, so IInv *)
(* says of every acknowledgement ever sent that the receiver still has its *)
(* packet, and of every datagram that its packet was sent.                 *)
(*                                                                         *)
(* The second part is about the congestion control of the channel (Bbr),   *)
(* for any constants of it: what the probe believes and what it hands to   *)
(* TDS is measured. The bandwidth filter is a falling part of the samples  *)
(* (FilterOf), and no packet of a probe outlives the TDS that follows it.  *)
(***************************************************************************)
EXTENDS UdpChannel, Bbr, FiniteSetTheorems, SequenceTheorems, WellFoundedInduction, TLAPS

\* Of the packets sent: numbers below relSeq, in the network, the table, the
\* window and at the receiver.
Sent ==
    /\ sending \cup active \subseteq 0 .. relSeq - 1
    /\ \A m \in net : m.type = "data" => m.seq < relSeq
    /\ \A i \in Slots : reorder[i] # None => reorder[i] < relSeq
    /\ next <= relSeq

\* Before the first packet the receiver holds nothing and has sent nothing.
Fresh ==
    ~started => /\ next = 0 /\ delivered = <<>> /\ draining = {} /\ acked = {}
                /\ \A i \in Slots : reorder[i] = None

\* The packet being delivered has been counted.
Draining == \A s \in draining : started /\ base <= s /\ s < next

\* An acknowledgement is a promise: the receiver has the packet.
Promised ==
    \A m \in net : m.type \in {"ack", "sack"} =>
        started /\ (m.seq >= base => Received(m.seq))

\* The unreliable packets delivered so far are behind unrelNext.
Behind ==
    \A k \in DOMAIN unrelDelivered : unrelStarted /\ unrelDelivered[k] < unrelNext

IInv ==
    /\ TypeOK /\ InOrder /\ UnreliableIncreasing /\ WindowSound /\ AckedIsHeld
    /\ Sent /\ Fresh /\ Draining /\ Promised /\ Behind

-----------------------------------------------------------------------------
(***************************************************************************)
(* Lemmas about slots and messages.                                        *)
(***************************************************************************)
\* A packet has a slot.
LEMMA SlotType == ASSUME NEW s \in Nat PROVE Slot(s) \in Slots
BY WindowAssumption DEF Slot, Slots

\* Two packets of one window have different slots.
LEMMA SlotsApart ==
    ASSUME NEW a \in Nat, NEW b \in Nat, NEW n \in Nat,
           n <= a, a < n + Window, n <= b, b < n + Window, Slot(a) = Slot(b)
    PROVE  a = b
<1>1. /\ a = Window * (a \div Window) + Slot(a)
      /\ b = Window * (b \div Window) + Slot(b)
      /\ a \div Window \in Int /\ b \div Window \in Int /\ Slot(a) \in Int
  BY WindowAssumption DEF Slot
<1>2. \A x, y \in Int : x # y => Window * (x - y) >= Window \/ Window * (x - y) <= -Window
  BY WindowAssumption
<1>3. \A x, y \in Int : Window * x - Window * y = Window * (x - y)
  BY WindowAssumption
<1>4. a - b = Window * ((a \div Window) - (b \div Window))
  BY <1>1, <1>3, WindowAssumption
<1>5. a \div Window = b \div Window
  BY <1>1, <1>2, <1>4, WindowAssumption
<1> QED
  BY <1>1, <1>5

\* The fields of a datagram as it is sent.
LEMMA Fields ==
    /\ \A s : DataMsg(s).type = "data" /\ DataMsg(s).seq = s
    /\ \A s : AckMsg(s).type = "ack" /\ AckMsg(s).seq = s
    /\ \A s : UnrelMsg(s).type = "unrel" /\ UnrelMsg(s).seq = s
    /\ \A s, c, have : SackMsg(s, c, have).type = "sack" /\ SackMsg(s, c, have).seq = s
BY DEF DataMsg, AckMsg, UnrelMsg, SackMsg

-----------------------------------------------------------------------------
(***************************************************************************)
(* Types.                                                                  *)
(***************************************************************************)
\* The datagrams of the network, as TypeOK has them.
Datagrams ==
    {DataMsg(s) : s \in Packets} \cup {AckMsg(s) : s \in Packets}
    \cup {UnrelMsg(s) : s \in 0 .. MaxUnreliable}
    \cup {SackMsg(q[1], q[2], q[3]) :
            q \in {x \in Packets \X (0 .. MaxSent) \X SUBSET Int :
                     x[3] \subseteq x[2] .. x[2] + Window - 1}}

LEMMA NetType ==
    ASSUME NEW N
    PROVE  (\A m \in N :
              \/ \E s \in Packets : m \in {DataMsg(s), AckMsg(s)}
              \/ \E s \in 0 .. MaxUnreliable : m = UnrelMsg(s)
              \/ \E s \in Packets, c \in 0 .. MaxSent :
                    \E have \in SUBSET (c .. c + Window - 1) : m = SackMsg(s, c, have))
           <=> N \subseteq Datagrams
<1>1. ASSUME NEW s \in Packets, NEW c \in 0 .. MaxSent,
             NEW have \in SUBSET (c .. c + Window - 1)
      PROVE  SackMsg(s, c, have) \in Datagrams
  <2>1. have \in SUBSET Int
    BY ChannelAssumption, WindowAssumption
  <2> DEFINE q == <<s, c, have>>
  <2>2. q \in {x \in Packets \X (0 .. MaxSent) \X SUBSET Int :
                 x[3] \subseteq x[2] .. x[2] + Window - 1}
    BY <2>1
  <2> QED
    BY <2>2 DEF Datagrams
<1> QED
  BY <1>1 DEF Datagrams

\* What a datagram of each type holds.
LEMMA Datagram ==
    ASSUME NEW m \in Datagrams
    PROVE  /\ m.type \in {"data", "ack", "unrel", "sack"}
           /\ m.type \in {"data", "ack"} => m.seq \in Packets
           /\ m.type = "sack" => m.seq \in Packets /\ m.cumulative \in Nat
           /\ m.type = "unrel" => m.seq \in Nat
BY ChannelAssumption DEF Datagrams, DataMsg, AckMsg, UnrelMsg, SackMsg

\* The other types.
LocalTypes ==
    /\ relSeq \in 0 .. MaxSent
    /\ sending \subseteq Packets /\ active \subseteq Packets
    /\ count \in [Packets -> 0 .. MaxRetransmits]
    /\ acked \subseteq Packets /\ gaveUp \subseteq Packets
    /\ started \in BOOLEAN /\ next \in 0 .. MaxSent
    /\ reorder \in [Slots -> Packets \cup {None}]
    /\ draining \subseteq Packets
    /\ base \in Nat /\ delivered \in Seq(Nat)
    /\ unrelSeq \in 0 .. MaxUnreliable /\ unrelStarted \in BOOLEAN
    /\ unrelNext \in Nat /\ unrelDelivered \in Seq(Nat)

\* What the channel sends has the type of a datagram.
LEMMA NewDatagram ==
    /\ \A s \in Packets : DataMsg(s) \in Datagrams /\ AckMsg(s) \in Datagrams
    /\ \A s \in 0 .. MaxUnreliable : UnrelMsg(s) \in Datagrams
    /\ \A s \in Packets, c \in 0 .. MaxSent, have \in SUBSET Int :
          have \subseteq c .. c + Window - 1 => SackMsg(s, c, have) \in Datagrams
<1>1. ASSUME NEW s \in Packets, NEW c \in 0 .. MaxSent, NEW have \in SUBSET Int,
             have \subseteq c .. c + Window - 1
      PROVE  SackMsg(s, c, have) \in Datagrams
  <2> DEFINE q == <<s, c, have>>
  <2>1. q \in {x \in Packets \X (0 .. MaxSent) \X SUBSET Int :
                 x[3] \subseteq x[2] .. x[2] + Window - 1}
    BY <1>1
  <2> QED
    BY <2>1 DEF Datagrams
<1> QED
  BY <1>1 DEF Datagrams

\* The sender's steps keep the types.
LEMMA SenderTypes ==
    ASSUME LocalTypes, net \subseteq Datagrams
    PROVE  /\ SendReliable \/ ReliableAdd \/ SendUnreliable
                => LocalTypes' /\ net' \subseteq Datagrams
           /\ \A s \in Packets : Retransmit(s) \/ GiveUp(s)
                => LocalTypes' /\ net' \subseteq Datagrams
           /\ \A m \in net : RecvAck(m) \/ RecvSack(m)
                => LocalTypes' /\ net' \subseteq Datagrams
<1> USE ChannelAssumption
<1>1. ASSUME SendReliable PROVE LocalTypes' /\ net' \subseteq Datagrams
  <2>1. relSeq \in Packets
    BY <1>1 DEF SendReliable, LocalTypes, Packets
  <2> QED
    BY <1>1, <2>1, NewDatagram DEF SendReliable, LocalTypes, receiverVars, unrelVars, Packets
<1>2. ASSUME ReliableAdd PROVE LocalTypes' /\ net' \subseteq Datagrams
  <2>1. PICK s \in sending : active' = active \cup {s} /\ count' = [count EXCEPT ![s] = 0]
    BY <1>2 DEF ReliableAdd
  <2>2. count' \in [Packets -> 0 .. MaxRetransmits]
    BY <2>1 DEF LocalTypes
  <2> QED
    BY <1>2, <2>1, <2>2 DEF ReliableAdd, LocalTypes, receiverVars, unrelVars
<1>3. ASSUME SendUnreliable PROVE LocalTypes' /\ net' \subseteq Datagrams
  <2>1. unrelSeq \in 0 .. MaxUnreliable /\ unrelSeq + 1 \in 0 .. MaxUnreliable
    BY <1>3 DEF SendUnreliable, LocalTypes
  <2> QED
    BY <1>3, <2>1, NewDatagram DEF SendUnreliable, LocalTypes, senderVars, receiverVars
<1>4. ASSUME NEW s \in Packets, Retransmit(s)
      PROVE  LocalTypes' /\ net' \subseteq Datagrams
  <2>1. count' \in [Packets -> 0 .. MaxRetransmits]
    <3>1. count[s] + 1 \in 0 .. MaxRetransmits
      BY <1>4 DEF Retransmit, LocalTypes
    <3> QED
      BY <1>4, <3>1 DEF Retransmit, LocalTypes
  <2> QED
    BY <1>4, <2>1, NewDatagram DEF Retransmit, LocalTypes, receiverVars, unrelVars
<1>5. ASSUME NEW s \in Packets, GiveUp(s)
      PROVE  LocalTypes' /\ net' \subseteq Datagrams
  BY <1>5 DEF GiveUp, LocalTypes, receiverVars, unrelVars
<1>6. ASSUME NEW m \in net, RecvAck(m)
      PROVE  LocalTypes' /\ net' \subseteq Datagrams
  <2>1. m.seq \in Packets
    BY <1>6, Datagram DEF RecvAck
  <2> QED
    BY <1>6, <2>1 DEF RecvAck, Ack, LocalTypes, receiverVars, unrelVars
<1>7. ASSUME NEW m \in net, RecvSack(m)
      PROVE  LocalTypes' /\ net' \subseteq Datagrams
  <2>1. m.seq \in Packets
    BY <1>7, Datagram DEF RecvSack
  <2>2. active' \subseteq Packets /\ acked' \subseteq Packets
    BY <1>7, <2>1 DEF RecvSack, Ack, LocalTypes
  <2>3. net' \subseteq Datagrams
    BY <1>7, <2>2, NewDatagram DEF RecvSack
  <2> QED
    BY <1>7, <2>2, <2>3 DEF RecvSack, LocalTypes, receiverVars, unrelVars
<1> QED
  BY <1>1, <1>2, <1>3, <1>4, <1>5, <1>6, <1>7

\* And so do the receiver's.
LEMMA ReceiverTypes ==
    ASSUME LocalTypes, net \subseteq Datagrams
    PROVE  /\ Drain \/ DrainDone => LocalTypes' /\ net' \subseteq Datagrams
           /\ \A m \in net : \/ RecvOld(m) \/ RecvInOrder(m)
                             \/ RecvAhead(m) \/ RecvUnreliable(m)
                => LocalTypes' /\ net' \subseteq Datagrams
<1> USE ChannelAssumption, WindowAssumption
<1>1. ASSUME Drain PROVE LocalTypes' /\ net' \subseteq Datagrams
  <2>1. next \in Nat /\ Slot(next) \in Slots
    BY SlotType DEF LocalTypes
  <2>2. next \in Packets
    BY <1>1, <2>1 DEF Drain, LocalTypes, None
  <2>3. reorder' \in [Slots -> Packets \cup {None}]
    BY <1>1, <2>1 DEF Drain, LocalTypes
  <2>4. next' \in 0 .. MaxSent /\ delivered' \in Seq(Nat)
    BY <1>1, <2>1, <2>2 DEF Drain, LocalTypes, Packets
  <2> QED
    BY <1>1, <2>3, <2>4 DEF Drain, LocalTypes, senderVars, unrelVars
<1>2. ASSUME DrainDone PROVE LocalTypes' /\ net' \subseteq Datagrams
  BY <1>2, NewDatagram DEF DrainDone, LocalTypes, senderVars, unrelVars
<1>3. ASSUME NEW m \in net, RecvOld(m)
      PROVE  LocalTypes' /\ net' \subseteq Datagrams
  BY <1>3, NewDatagram, Datagram
     DEF RecvOld, Receiving, LocalTypes, senderVars, receiverVars, unrelVars
<1>4. ASSUME NEW m \in net, RecvInOrder(m)
      PROVE  LocalTypes' /\ net' \subseteq Datagrams
  <2>1. m.seq \in Packets /\ m.seq \in Nat /\ m.seq + 1 \in 0 .. MaxSent
    BY <1>4, Datagram DEF RecvInOrder, Receiving, Packets
  <2>2. base' \in Nat /\ delivered' \in Seq(Nat)
    BY <1>4, <2>1 DEF RecvInOrder, LocalTypes
  <2> QED
    BY <1>4, <2>1, <2>2 DEF RecvInOrder, LocalTypes, senderVars, unrelVars
<1>5. ASSUME NEW m \in net, RecvAhead(m)
      PROVE  LocalTypes' /\ net' \subseteq Datagrams
  <2>1. m.seq \in Packets /\ next \in 0 .. MaxSent
    BY <1>5, Datagram DEF RecvAhead, Receiving, LocalTypes
  <2>2. reorder' \in [Slots -> Packets \cup {None}]
    BY <1>5, <2>1, SlotType DEF RecvAhead, LocalTypes, Packets
  <2> DEFINE have == {s \in next .. next + Window - 1 : reorder'[Slot(s)] = s}
  <2>3. have \in SUBSET Int /\ have \subseteq next .. next + Window - 1
    BY <2>1
  <2>4. net' = net \cup {SackMsg(m.seq, next, have)}
    BY <1>5 DEF RecvAhead
  <2> HIDE DEF have
  <2>5. SackMsg(m.seq, next, have) \in Datagrams
    BY <2>1, <2>3, NewDatagram
  <2> QED
    BY <1>5, <2>2, <2>4, <2>5 DEF RecvAhead, LocalTypes, senderVars, unrelVars
<1>6. ASSUME NEW m \in net, RecvUnreliable(m)
      PROVE  LocalTypes' /\ net' \subseteq Datagrams
  <2>1. m.seq \in Nat
    BY <1>6, Datagram DEF RecvUnreliable, Receiving
  <2>2. unrelDelivered' \in Seq(Nat) /\ unrelNext' \in Nat
    BY <1>6, <2>1 DEF RecvUnreliable, LocalTypes
  <2> QED
    BY <1>6, <2>2 DEF RecvUnreliable, LocalTypes, senderVars, receiverVars
<1> QED
  BY <1>1, <1>2, <1>3, <1>4, <1>5, <1>6

\* Every step keeps the types (yumi_udp_chan_t, reliable_table and the datagrams).
LEMMA TypeStep == TypeOK /\ [Next]_vars => TypeOK'
<1> SUFFICES ASSUME TypeOK, [Next]_vars PROVE TypeOK'
  OBVIOUS
<1>1. LocalTypes /\ net \subseteq Datagrams
  BY NetType DEF TypeOK, LocalTypes
<1>2. LocalTypes' /\ net' \subseteq Datagrams
  <2>1. CASE UNCHANGED vars
    BY <1>1, <2>1 DEF vars, LocalTypes
  <2> QED
    BY <1>1, <2>1, SenderTypes, ReceiverTypes DEF Next, Timers, Receive
<1> QED
  BY <1>2, NetType DEF TypeOK, LocalTypes

-----------------------------------------------------------------------------
(***************************************************************************)
(* The invariant.                                                          *)
(***************************************************************************)
\* What the proofs use of TypeOK: numbers are numbers, datagrams datagrams.
LEMMA Basics ==
    ASSUME TypeOK
    PROVE  /\ relSeq \in Nat /\ next \in Nat /\ base \in Nat /\ Window \in Nat \ {0}
           /\ reorder \in [Slots -> Packets \cup {None}]
           /\ \A s \in Packets : s \in Nat /\ s # None
           /\ acked \subseteq Packets /\ draining \subseteq Packets
           /\ delivered \in Seq(Nat) /\ unrelDelivered \in Seq(Nat)
           /\ unrelNext \in Nat
           /\ net \subseteq Datagrams
<1>1. net \subseteq Datagrams
  BY NetType DEF TypeOK
<1>2. \A s \in Packets : s \in Nat /\ s # None
  BY ChannelAssumption DEF Packets, None
<1> QED
  BY <1>1, <1>2, WindowAssumption DEF TypeOK

\* A new channel.
LEMMA InvInit == Init => IInv
<1> SUFFICES ASSUME Init PROVE IInv
  OBVIOUS
<1> USE ChannelAssumption, WindowAssumption
<1>1. TypeOK
  <2>1. delivered \in Seq(Nat) /\ unrelDelivered \in Seq(Nat)
    BY DEF Init
  <2>2. count \in [Packets -> 0 .. MaxRetransmits]
    BY DEF Init
  <2>3. reorder \in [Slots -> Packets \cup {None}]
    BY DEF Init
  <2>4. base \in Nat /\ unrelNext \in Nat /\ unrelSeq \in 0 .. MaxUnreliable
    BY DEF Init
  <2>5. relSeq \in 0 .. MaxSent /\ next \in 0 .. MaxSent
    BY DEF Init
  <2>6. net = {}
    BY DEF Init
  <2> QED
    BY <2>1, <2>2, <2>3, <2>4, <2>5, <2>6 DEF Init, TypeOK
<1>2. InOrder /\ UnreliableIncreasing /\ WindowSound /\ AckedIsHeld
  BY DEF Init, InOrder, UnreliableIncreasing, WindowSound, AckedIsHeld, Slots, None
<1>3. Sent /\ Fresh /\ Draining /\ Promised /\ Behind
  BY DEF Init, Sent, Fresh, Draining, Promised, Behind, Slots, None
<1> QED
  BY <1>1, <1>2, <1>3 DEF IInv

\* A step of the sender: it sends only packets that have a number, and takes an
\* entry for acknowledged only when it received the acknowledgement.
LEMMA SenderStep ==
    ASSUME IInv, TypeOK',
           UNCHANGED <<receiverVars, unrelStarted, unrelNext, unrelDelivered>>,
           relSeq <= relSeq',
           sending' \cup active' \subseteq 0 .. relSeq' - 1,
           \A m \in net' : m \in net \/ m.type = "unrel"
                                     \/ (m.type = "data" /\ m.seq < relSeq'),
           \A s \in acked' : s \in acked \/ \E m \in net : m.type \in {"ack", "sack"} /\ m.seq = s
    PROVE  IInv'
<1>0. TypeOK /\ relSeq' \in Nat
  <2>1. TypeOK
    BY DEF IInv
  <2>2. relSeq' \in 0 .. MaxSent
    BY DEF TypeOK
  <2> QED
    BY <2>1, <2>2, ChannelAssumption
<1> USE <1>0, Basics
<1>1. InOrder' /\ UnreliableIncreasing' /\ WindowSound' /\ Behind' /\ Draining'
  BY DEF IInv, InOrder, UnreliableIncreasing, WindowSound, Behind, Draining, receiverVars
<1>2. AckedIsHeld'
  <2> SUFFICES ASSUME NEW s \in acked' PROVE started /\ (s >= base => Received(s))
    BY DEF AckedIsHeld, Received, receiverVars
  <2>1. CASE s \in acked
    BY <2>1 DEF IInv, AckedIsHeld
  <2>2. ASSUME NEW m \in net, m.type \in {"ack", "sack"}, m.seq = s
        PROVE  started /\ (s >= base => Received(s))
    BY <2>2 DEF IInv, Promised
  <2> QED
    BY <2>1, <2>2
<1>3. Sent'
  <2>1. ASSUME NEW m \in net', m.type = "data" PROVE m.seq < relSeq'
    <3>1. CASE m \in net
      <4>1. m.seq \in Nat /\ m.seq < relSeq
        BY <2>1, <3>1, Datagram DEF IInv, Sent
      <4> QED
        BY <4>1
    <3> QED
      BY <2>1, <3>1
  <2>2. \A i \in Slots : reorder[i] # None => reorder[i] < relSeq'
    BY DEF IInv, Sent
  <2> QED
    BY <2>1, <2>2 DEF IInv, Sent, receiverVars
<1>4. Promised'
  BY DEF IInv, Promised, Received, receiverVars
<1>5. Fresh'
  <2>1. ~started => acked' = {}
    BY DEF IInv, Fresh, Promised
  <2> QED
    BY <2>1 DEF IInv, Fresh, receiverVars
<1> QED
  BY <1>1, <1>2, <1>3, <1>4, <1>5 DEF IInv

\* Delivering a packet in order (yumi_udp_client.c:1181): the window moves by
\* one place, and what is in it stays in it.
LEMMA RecvInOrderStep ==
    ASSUME IInv, TypeOK', NEW m \in net, RecvInOrder(m)
    PROVE  IInv'
<1>0. TypeOK
  BY DEF IInv
<1> USE <1>0, Basics
<1>1. /\ m.type = "data" /\ m.seq \in Nat /\ m.seq < relSeq /\ draining = {}
      /\ started' = TRUE /\ next' = m.seq + 1 /\ draining' = {m.seq}
      /\ delivered' = Append(delivered, m.seq)
      /\ reorder' = reorder /\ net' = net /\ relSeq' = relSeq /\ acked' = acked
      /\ UNCHANGED <<senderVars, unrelVars>>
  <2>1. m.type = "data" /\ m.seq \in Packets
    BY Datagram DEF RecvInOrder, Receiving
  <2> QED
    BY <2>1 DEF RecvInOrder, Receiving, senderVars, IInv, Sent
<1>2. CASE started
  <2>1. m.seq = next /\ base' = base
    BY <1>2 DEF RecvInOrder, Expected
  <2>2. InOrder'
    BY <1>1, <1>2, <2>1 DEF IInv, InOrder
  <2>3. WindowSound'
    BY <1>1, <2>1 DEF IInv, WindowSound
  <2>4. base <= next
    BY <1>2 DEF IInv, InOrder
  <2>5. \A s \in Nat : Received(s) => Received(s)'
    BY <1>1, <1>2, <2>1 DEF Received
  <2>6. AckedIsHeld'
    BY <1>1, <1>2, <2>1, <2>5 DEF IInv, AckedIsHeld
  <2>7. Promised'
    <3> SUFFICES ASSUME NEW a \in net, a.type \in {"ack", "sack"}
                 PROVE  a.seq >= base => Received(a.seq)'
      BY <1>1, <2>1 DEF Promised
    <3>1. a.seq \in Nat
      BY Datagram
    <3> QED
      BY <2>5, <3>1 DEF IInv, Promised
  <2>8. Draining'
    BY <1>1, <2>1, <2>4 DEF Draining
  <2> QED
    BY <1>1, <2>2, <2>3, <2>6, <2>7, <2>8
       DEF IInv, Sent, Fresh, Behind, UnreliableIncreasing, senderVars, unrelVars
<1>3. CASE ~started
  <2>1. base' = m.seq
    BY <1>3 DEF RecvInOrder
  <2>2. /\ delivered = <<>> /\ acked = {} /\ \A i \in Slots : reorder[i] = None
        /\ \A a \in net : a.type \notin {"ack", "sack"}
    BY <1>3 DEF IInv, Fresh, Promised
  <2>3. InOrder'
    BY <1>1, <2>1, <2>2 DEF InOrder
  <2>4. WindowSound' /\ AckedIsHeld' /\ Promised' /\ Draining'
    BY <1>1, <2>1, <2>2 DEF WindowSound, AckedIsHeld, Promised, Draining
  <2> QED
    BY <1>1, <2>2, <2>3, <2>4
       DEF IInv, Sent, Fresh, Behind, UnreliableIncreasing, senderVars, unrelVars
<1> QED
  BY <1>2, <1>3

\* One turn of worker_reorder_drain: the packet leaves its slot, the others
\* keep theirs.
LEMMA DrainStep ==
    ASSUME IInv, TypeOK', Drain
    PROVE  IInv'
<1>0. TypeOK
  BY DEF IInv
<1> USE <1>0, Basics
<1> DEFINE here == Slot(next)
<1>1. /\ here \in Slots /\ reorder[here] = next /\ next \in Nat /\ next # None
      /\ next' = next + 1 /\ delivered' = Append(delivered, next)
      /\ reorder' = [reorder EXCEPT ![here] = None]
      /\ started' = started /\ draining' = draining /\ base' = base /\ draining # {}
      /\ net' = net /\ acked' = acked /\ relSeq' = relSeq
      /\ UNCHANGED <<senderVars, unrelVars>>
  BY SlotType DEF Drain, None, senderVars
<1> HIDE DEF here
<1>2. started /\ next < relSeq /\ base <= next
  BY <1>1 DEF IInv, WindowSound, Sent, InOrder
<1>3. InOrder'
  <2>1. next = base + Len(delivered) /\ \A k \in 1 .. Len(delivered) : delivered[k] = base + k - 1
    BY <1>2 DEF IInv, InOrder
  <2>2. Len(delivered') = Len(delivered) + 1
    BY <1>1
  <2>3. ASSUME NEW k \in 1 .. Len(delivered') PROVE delivered'[k] = base + k - 1
    BY <1>1, <2>1, <2>2
  <2> QED
    BY <1>1, <2>1, <2>2, <2>3 DEF InOrder
<1>4. ASSUME NEW i \in Slots, i # here
      PROVE  reorder'[i] = reorder[i] /\ reorder[i] # next
  BY <1>1, <1>4 DEF IInv, WindowSound, here
<1>5. reorder'[here] = None
  BY <1>1
<1>6. WindowSound'
  <2> SUFFICES ASSUME NEW i \in Slots, reorder'[i] # None
               PROVE  /\ Slot(reorder[i]) = i
                      /\ next + 1 <= reorder[i] /\ reorder[i] < next + 1 + Window
                      /\ reorder'[i] = reorder[i]
    BY <1>1, <1>2 DEF WindowSound
  <2>1. i # here /\ reorder[i] \in Packets
    BY <1>4, <1>5
  <2> QED
    BY <1>4, <2>1 DEF IInv, WindowSound
<1>7. \A s \in Nat : Received(s) => Received(s)'
  BY <1>1, <1>2, <1>4 DEF Received
<1>8. AckedIsHeld'
  BY <1>1, <1>2, <1>7 DEF IInv, AckedIsHeld
<1>9. Promised'
  <2> SUFFICES ASSUME NEW a \in net, a.type \in {"ack", "sack"}
               PROVE  a.seq >= base => Received(a.seq)'
    BY <1>1, <1>2 DEF Promised
  <2>1. a.seq \in Nat
    BY Datagram
  <2> QED
    BY <1>7, <2>1 DEF IInv, Promised
<1>10. Sent'
  BY <1>1, <1>2, <1>4, <1>5 DEF IInv, Sent, senderVars
<1> QED
  BY <1>1, <1>2, <1>3, <1>6, <1>8, <1>9, <1>10
     DEF IInv, Fresh, Draining, Behind, UnreliableIncreasing, unrelVars

\* The window is drained (yumi_udp_client.c:1210): the packet that was delivered
\* is acknowledged.
LEMMA DrainDoneStep ==
    ASSUME IInv, TypeOK', DrainDone
    PROVE  IInv'
<1>0. TypeOK
  BY DEF IInv
<1> USE <1>0, Basics
<1>1. PICK s \in draining : net' = net \cup {AckMsg(s)}
  BY DEF DrainDone
<1>2. /\ reorder[Slot(next)] # next /\ draining' = {}
      /\ started' = started /\ next' = next /\ reorder' = reorder /\ base' = base
      /\ delivered' = delivered /\ relSeq' = relSeq /\ acked' = acked
      /\ UNCHANGED <<senderVars, unrelVars>>
  BY DEF DrainDone, senderVars
<1>3. started /\ base <= s /\ s < next
  BY DEF IInv, Draining
<1>4. WindowSound'
  <2> SUFFICES ASSUME NEW i \in Slots, reorder[i] # None
               PROVE  next < reorder[i]
    BY <1>2 DEF IInv, WindowSound
  <2>1. Slot(reorder[i]) = i /\ next <= reorder[i] /\ reorder[i] \in Nat
    BY DEF IInv, WindowSound
  <2>2. reorder[i] # next
    BY <1>2, <2>1
  <2> QED
    BY <2>1, <2>2
<1>5. Promised'
  <2> SUFFICES ASSUME NEW a \in net', a.type \in {"ack", "sack"}
               PROVE  a.seq >= base => Received(a.seq)
    BY <1>2, <1>3 DEF Promised, Received
  <2>1. CASE a \in net
    BY <2>1 DEF IInv, Promised
  <2>2. CASE a = AckMsg(s)
    BY <1>3, <2>2, Fields DEF Received
  <2> QED
    BY <1>1, <2>1, <2>2
<1>6. Sent'
  <2>1. \A a \in net' : a.type = "data" => a \in net
    BY <1>1, Fields
  <2> QED
    BY <1>2, <2>1 DEF IInv, Sent, senderVars
<1> QED
  BY <1>2, <1>3, <1>4, <1>5, <1>6
     DEF IInv, InOrder, AckedIsHeld, Received, Fresh, Draining, Behind,
         UnreliableIncreasing, senderVars, unrelVars

\* A packet behind the expected one (yumi_udp_client.c:1172) was delivered
\* before: acknowledging it again promises nothing new.
LEMMA RecvOldStep ==
    ASSUME IInv, TypeOK', NEW m \in net, RecvOld(m)
    PROVE  IInv'
<1>0. TypeOK
  BY DEF IInv
<1> USE <1>0, Basics
<1>1. m.seq \in Nat /\ m.seq < Expected(m.seq) /\ net' = net \cup {AckMsg(m.seq)}
  BY Datagram DEF RecvOld, Receiving
<1>2. UNCHANGED <<senderVars, receiverVars, unrelVars>>
  BY DEF RecvOld
<1>3. started /\ m.seq < next
  BY <1>1 DEF Expected
<1>4. Promised'
  <2> SUFFICES ASSUME NEW a \in net', a.type \in {"ack", "sack"}
               PROVE  a.seq >= base => Received(a.seq)
    BY <1>2, <1>3 DEF Promised, Received, receiverVars
  <2>1. CASE a \in net
    BY <2>1 DEF IInv, Promised
  <2>2. CASE a = AckMsg(m.seq)
    BY <1>1, <1>3, <2>2, Fields DEF Received
  <2> QED
    BY <1>1, <2>1, <2>2
<1>5. Sent'
  <2>1. \A a \in net' : a.type = "data" => a \in net
    BY <1>1, Fields
  <2> QED
    BY <1>2, <2>1 DEF IInv, Sent, senderVars, receiverVars
<1> QED
  BY <1>2, <1>4, <1>5
     DEF IInv, InOrder, WindowSound, AckedIsHeld, Received, Fresh, Draining, Behind,
         UnreliableIncreasing, senderVars, receiverVars, unrelVars

\* A packet ahead of the expected one (yumi_udp_client.c:1186): it takes its
\* slot, or the slot holds it already, so the SACK that answers it is true.
LEMMA RecvAheadStep ==
    ASSUME IInv, TypeOK', NEW m \in net, RecvAhead(m)
    PROVE  IInv'
<1>0. TypeOK
  BY DEF IInv
<1> USE <1>0, Basics
<1> DEFINE here == Slot(m.seq)
<1>1. PICK have : net' = net \cup {SackMsg(m.seq, next, have)}
  BY DEF RecvAhead
<1>2. /\ m.type = "data" /\ m.seq \in Packets /\ m.seq \in Nat /\ m.seq < relSeq
      /\ draining = {} /\ InWindow(m.seq)
  <2>1. m.type = "data" /\ m.seq \in Packets
    BY Datagram DEF RecvAhead, Receiving
  <2> QED
    BY <2>1 DEF RecvAhead, Receiving, IInv, Sent
<1>3. started /\ next < m.seq /\ m.seq < next + Window
  BY <1>2 DEF InWindow, Expected
<1>4. /\ started' = started /\ next' = next /\ base' = base /\ draining' = draining
      /\ delivered' = delivered /\ relSeq' = relSeq /\ acked' = acked
      /\ UNCHANGED <<senderVars, unrelVars>>
  BY DEF RecvAhead, senderVars
<1>5. here \in Slots
  BY <1>2, SlotType
<1>6. /\ reorder'[here] = m.seq
      /\ \A i \in Slots : i # here => reorder'[i] = reorder[i]
      /\ \A i \in Slots : reorder[i] # None => reorder'[i] = reorder[i]
  <2>1. CASE reorder[here] = None
    BY <1>5, <2>1 DEF RecvAhead
  <2>2. CASE reorder[here] # None
    <3>1. /\ Slot(reorder[here]) = here /\ reorder[here] \in Nat
          /\ next <= reorder[here] /\ reorder[here] < next + Window
      BY <1>5, <2>2 DEF IInv, WindowSound
    <3>2. reorder[here] = m.seq
      BY <1>2, <1>3, <3>1, SlotsApart
    <3>3. reorder' = reorder
      BY <2>2 DEF RecvAhead
    <3> QED
      BY <3>2, <3>3
  <2> QED
    BY <2>1, <2>2
<1>7. WindowSound'
  <2> SUFFICES ASSUME NEW i \in Slots, reorder'[i] # None
               PROVE  /\ Slot(reorder'[i]) = i /\ next < reorder'[i]
                      /\ next <= reorder'[i] /\ reorder'[i] < next + Window
    BY <1>3, <1>4 DEF WindowSound
  <2>1. CASE i = here
    BY <1>2, <1>3, <1>6, <2>1
  <2>2. CASE i # here
    <3>1. reorder'[i] = reorder[i] /\ reorder[i] # None
      BY <1>6, <2>2
    <3>2. reorder[i] \in Packets
      BY <3>1
    <3> QED
      BY <1>2, <3>1, <3>2 DEF IInv, WindowSound
  <2> QED
    BY <2>1, <2>2
<1>8. \A s \in Nat : Received(s) => Received(s)'
  <2> SUFFICES ASSUME NEW s \in Nat, NEW i \in Slots, reorder[i] = s
               PROVE  reorder'[i] = s
    BY <1>4 DEF Received
  <2> QED
    BY <1>6 DEF None
<1>9. AckedIsHeld'
  BY <1>3, <1>4, <1>8 DEF IInv, AckedIsHeld
<1>10. Promised'
  <2> SUFFICES ASSUME NEW a \in net', a.type \in {"ack", "sack"}
               PROVE  a.seq >= base => Received(a.seq)'
    BY <1>3, <1>4 DEF Promised
  <2>1. CASE a \in net
    BY <1>8, <2>1, Datagram DEF IInv, Promised
  <2>2. CASE a = SackMsg(m.seq, next, have)
    BY <1>5, <1>6, <2>2, Fields DEF Received
  <2> QED
    BY <1>1, <2>1, <2>2
<1>11. Sent'
  <2>1. \A a \in net' : a.type = "data" => a \in net
    BY <1>1, Fields
  <2>2. \A i \in Slots : reorder'[i] # None => reorder'[i] < relSeq
    <3> SUFFICES ASSUME NEW i \in Slots, reorder'[i] # None PROVE reorder'[i] < relSeq
      OBVIOUS
    <3>1. CASE i = here
      BY <1>2, <1>6, <3>1
    <3>2. CASE i # here
      BY <1>6, <3>2 DEF IInv, Sent
    <3> QED
      BY <3>1, <3>2
  <2> QED
    BY <1>4, <2>1, <2>2 DEF IInv, Sent, senderVars
<1> QED
  BY <1>3, <1>4, <1>7, <1>9, <1>10, <1>11
     DEF IInv, InOrder, Fresh, Draining, Behind, UnreliableIncreasing, unrelVars

\* An unreliable packet is delivered only at or past unrelNext (worker_recv).
LEMMA RecvUnreliableStep ==
    ASSUME IInv, TypeOK', NEW m \in net, RecvUnreliable(m)
    PROVE  IInv'
<1>0. TypeOK
  BY DEF IInv
<1> USE <1>0, Basics
<1>1. /\ m.seq \in Nat /\ unrelNext' = m.seq + 1 /\ unrelStarted' = TRUE
      /\ unrelDelivered' = Append(unrelDelivered, m.seq)
      /\ unrelStarted => m.seq >= unrelNext
  BY Datagram DEF RecvUnreliable, Receiving
<1>2. UNCHANGED <<senderVars, receiverVars, net>>
  BY DEF RecvUnreliable
<1>3. \A k \in DOMAIN unrelDelivered :
         unrelDelivered[k] \in Nat /\ unrelDelivered[k] < m.seq
  <2> SUFFICES ASSUME NEW k \in DOMAIN unrelDelivered
               PROVE  unrelDelivered[k] \in Nat /\ unrelDelivered[k] < m.seq
    OBVIOUS
  <2>1. unrelDelivered[k] \in Nat
    OBVIOUS
  <2>2. unrelStarted /\ unrelDelivered[k] < unrelNext
    BY DEF IInv, Behind
  <2> QED
    BY <1>1, <2>1, <2>2
<1>4. /\ DOMAIN unrelDelivered = 1 .. Len(unrelDelivered)
      /\ DOMAIN unrelDelivered' = 1 .. Len(unrelDelivered) + 1
      /\ Len(unrelDelivered) \in Nat
      /\ unrelDelivered'[Len(unrelDelivered) + 1] = m.seq
      /\ \A k \in 1 .. Len(unrelDelivered) : unrelDelivered'[k] = unrelDelivered[k]
  BY <1>1
<1>5. UnreliableIncreasing'
  <2> SUFFICES ASSUME NEW j \in DOMAIN unrelDelivered', NEW k \in DOMAIN unrelDelivered', j < k
               PROVE  unrelDelivered'[j] < unrelDelivered'[k]
    BY DEF UnreliableIncreasing
  <2>1. j \in DOMAIN unrelDelivered /\ unrelDelivered'[j] = unrelDelivered[j]
    BY <1>4
  <2>2. CASE k \in DOMAIN unrelDelivered
    BY <1>4, <2>1, <2>2 DEF IInv, UnreliableIncreasing
  <2>3. CASE k = Len(unrelDelivered) + 1
    BY <1>3, <1>4, <2>1, <2>3
  <2> QED
    BY <1>4, <2>2, <2>3
<1>6. Behind'
  BY <1>1, <1>3, <1>4 DEF Behind
<1> QED
  BY <1>2, <1>5, <1>6
     DEF IInv, InOrder, WindowSound, AckedIsHeld, Received, Sent, Fresh, Draining,
         Promised, senderVars, receiverVars

\* Every step keeps the invariant.
LEMMA InvStep == IInv /\ [Next]_vars => IInv'
<1> SUFFICES ASSUME IInv, [Next]_vars PROVE IInv'
  OBVIOUS
<1>0. TypeOK /\ TypeOK'
  BY TypeStep DEF IInv
<1> USE <1>0, Basics
<1>1. /\ sending \cup active \subseteq 0 .. relSeq - 1
      /\ \A m \in net : m.type = "data" => m.seq < relSeq
  BY DEF IInv, Sent
<1>2. CASE SendReliable
  <2>1. \A m \in net' : m \in net \/ (m.type = "data" /\ m.seq < relSeq')
    BY <1>2, Fields DEF SendReliable
  <2> QED
    BY <1>1, <1>2, <2>1, SenderStep DEF SendReliable, unrelVars
<1>3. CASE ReliableAdd
  BY <1>1, <1>3, SenderStep DEF ReliableAdd, unrelVars
<1>4. CASE SendUnreliable
  <2>1. \A m \in net' : m \in net \/ m.type = "unrel"
    BY <1>4, Fields DEF SendUnreliable
  <2> QED
    BY <1>1, <1>4, <2>1, SenderStep DEF SendUnreliable, senderVars
<1>5. ASSUME NEW s \in Packets, Retransmit(s) PROVE IInv'
  <2>1. \A m \in net' : m \in net \/ (m.type = "data" /\ m.seq < relSeq)
    BY <1>1, <1>5, Fields DEF Retransmit
  <2> QED
    BY <1>1, <1>5, <2>1, SenderStep DEF Retransmit, unrelVars
<1>6. ASSUME NEW s \in Packets, GiveUp(s) PROVE IInv'
  BY <1>1, <1>6, SenderStep DEF GiveUp, unrelVars
<1>7. ASSUME NEW m \in net, RecvAck(m) PROVE IInv'
  BY <1>1, <1>7, SenderStep DEF RecvAck, Ack, unrelVars
<1>8. ASSUME NEW m \in net, RecvSack(m) PROVE IInv'
  <2>1. active' \subseteq active /\ m.type = "sack"
    BY <1>8 DEF RecvSack, Ack
  <2>2. \A d \in net' : d \in net \/ (d.type = "data" /\ d.seq < relSeq)
    BY <1>1, <1>8, <2>1, Fields DEF RecvSack
  <2>3. \A s \in acked' : s \in acked \/ s = m.seq
    BY <1>8 DEF RecvSack, Ack
  <2>4. /\ relSeq' = relSeq /\ sending' = sending
        /\ UNCHANGED <<receiverVars, unrelStarted, unrelNext, unrelDelivered>>
    BY <1>8 DEF RecvSack, unrelVars
  <2> QED
    BY <1>1, <2>1, <2>2, <2>3, <2>4, SenderStep
<1>9. CASE UNCHANGED vars
  BY <1>1, <1>9, SenderStep DEF vars, receiverVars
<1> QED
  BY <1>2, <1>3, <1>4, <1>5, <1>6, <1>7, <1>8, <1>9, DrainStep, DrainDoneStep,
     RecvOldStep, RecvInOrderStep, RecvAheadStep, RecvUnreliableStep
     DEF Next, Timers, Receive

-----------------------------------------------------------------------------
(***************************************************************************)
(* The theorems.                                                           *)
(***************************************************************************)
\* The inductive invariant: what the two ends and every datagram ever sent know
\* of each other (yumi_udp_client.c).
THEOREM Invariance == Spec => []IInv
BY InvInit, InvStep, PTL DEF Spec

\* An application sees the reliable packets of a channel in order, once and
\* without a gap, the unreliable ones never twice or behind a later one, for
\* every window and whatever the network does (worker_recv).
THEOREM DeliveredInOrder == Spec => []DeliveryInOrder
<1>1. IInv => DeliveryInOrder
  BY DEF IInv, DeliveryInOrder
<1> QED
  BY <1>1, Invariance, PTL

\* When every packet from the start is acknowledged, none of them waits in the
\* window: what is next would be held in a slot, and a drained window holds
\* only packets past next.
LEMMA NoneWaits == IInv => AllAckedAllDelivered
<1> SUFFICES ASSUME IInv, started, draining = {}, base .. relSeq - 1 \subseteq acked,
                    next # relSeq
             PROVE  FALSE
  BY DEF AllAckedAllDelivered
<1>0. TypeOK
  BY DEF IInv
<1> USE <1>0, Basics
<1>1. base <= next /\ next < relSeq
  BY DEF IInv, InOrder, Sent
<1>2. next \in acked
  BY <1>1
<1>3. Received(next)
  BY <1>1, <1>2 DEF IInv, AckedIsHeld
<1>4. PICK i \in Slots : reorder[i] = next
  BY <1>3 DEF Received
<1> QED
  BY <1>4 DEF IInv, WindowSound, None

\* An acknowledgement is safe to act on: whatever the sender drops from its table
\* as acknowledged was delivered or is held in its place of the window, although
\* acknowledgements are lost, repeated and arrive late (worker_reliable_ack).
THEOREM AckedStaysSafe == Spec => []AckedIsSafe
<1>1. IInv => AckedIsSafe
  BY NoneWaits DEF IInv, AckedIsSafe
<1> QED
  BY <1>1, Invariance, PTL

-----------------------------------------------------------------------------
(***************************************************************************)
(* Congestion control.                                                     *)
(***************************************************************************)

\* Every set of numbers that is not empty has a least one.
LEMMA LeastNumber ==
    ASSUME NEW A \in SUBSET Nat, A # {}
    PROVE  \E s \in A : \A i \in A : s <= i
<1>1. IsWellFoundedOn(OpToRel(<, Nat), Nat)
  BY NatLessThanWellFounded
<1>2. PICK s \in A : \A i \in A : ~(<<i, s>> \in OpToRel(<, Nat))
  BY <1>1, WFMin
<1>3. \A i \in A : ~(i < s)
  BY <1>2 DEF OpToRel
<1> QED BY <1>3

\* A measured rate and the round it was measured in.
Sample == [val : Int, stamp : Nat]

\* What the filter f is to the samples S it was given, none of them after the given round: a
\* falling part of them, and no sample after one in the filter is larger.
FilterOf(f, S, round) ==
    /\ f \in Seq(Sample) /\ S \subseteq Sample /\ round \in Nat
    /\ \A s \in S : s.stamp <= round
    /\ \A i \in 1 .. Len(f) : f[i] \in S
    /\ \A i, j \in 1 .. Len(f) : i < j => f[i].val > f[j].val /\ f[i].stamp <= f[j].stamp
    /\ \A i \in 1 .. Len(f) : \A r \in S : r.stamp > f[i].stamp => r.val <= f[i].val
    /\ f = <<>> => S = {}

\* A set of places has a first and a last one.
LEMMA Ends ==
    ASSUME NEW n \in Nat, NEW S \in SUBSET (1 .. n), S # {}
    PROVE  /\ \E i \in S : \A j \in S : i <= j
           /\ \E i \in S : \A j \in S : i >= j
<1>1. S \subseteq Nat
  OBVIOUS
<1>2. \E i \in S : \A j \in S : i <= j
  BY <1>1, LeastNumber
<1>3. \E i \in S : \A j \in S : i >= j
  <2> DEFINE U == {u \in Nat : \A y \in S : u >= y}
  <2>1. n \in U /\ U \subseteq Nat
    OBVIOUS
  <2>2. PICK u \in U : \A w \in U : u <= w
    <3> HIDE DEF U
    <3> QED BY <2>1, LeastNumber
  <2>3. u \in Nat /\ \A y \in S : u >= y /\ y \in 1 .. n
    OBVIOUS
  <2>4. u \in S
    <3> SUFFICES ASSUME u \notin S PROVE FALSE
      OBVIOUS
    <3>1. \A y \in S : u - 1 >= y
      BY <2>3
    <3>2. u - 1 \in Nat
      <4>1. PICK y \in S : TRUE
        OBVIOUS
      <4> QED BY <4>1, <2>3, <3>1
    <3>3. u - 1 \in U
      BY <3>1, <3>2
    <3> QED BY <2>2, <2>3, <3>3
  <2> QED BY <2>3, <2>4
<1> QED BY <1>2, <1>3

\* What stays of a filter: only samples that are recent and larger, in their order.
LEMMA PartStays ==
    ASSUME NEW f, NEW S, NEW r \in Nat, FilterOf(f, S, r), NEW val \in Int, NEW round \in Nat
    PROVE  LET t == Part(f, Staying(f, val, round)) IN
           /\ t \in Seq(Sample) /\ Len(t) \in Nat
           /\ \A i \in 1 .. Len(t) :
                \E k \in 1 .. Len(f) : /\ t[i] = f[k]
                                       /\ round - t[i].stamp < FilterRounds /\ t[i].val > val
           /\ \A i, j \in 1 .. Len(t) : i < j => t[i].val > t[j].val /\ t[i].stamp <= t[j].stamp
<1> DEFINE A == Staying(f, val, round)
           t == Part(f, A)
           lo == CHOOSE i \in A : \A j \in A : i <= j
           hi == CHOOSE i \in A : \A j \in A : i >= j
<1> SUFFICES /\ t \in Seq(Sample) /\ Len(t) \in Nat
             /\ \A i \in 1 .. Len(t) :
                  \E k \in 1 .. Len(f) : /\ t[i] = f[k]
                                         /\ round - t[i].stamp < FilterRounds /\ t[i].val > val
             /\ \A i, j \in 1 .. Len(t) : i < j => t[i].val > t[j].val /\ t[i].stamp <= t[j].stamp
  OBVIOUS
<1>1. f \in Seq(Sample) /\ Len(f) \in Nat /\ DOMAIN f = 1 .. Len(f)
  BY DEF FilterOf
<1>2. CASE A = {}
  <2>1. t = <<>>
    BY <1>2 DEF Part
  <2> HIDE DEF t
  <2>2. t \in Seq(Sample) /\ Len(t) = 0 /\ 1 .. Len(t) = {}
    BY <2>1
  <2> QED BY <2>2
<1>3. CASE A # {}
  <2>1. A \subseteq 1 .. Len(f)
    BY <1>1 DEF Staying
  <2>2. t = SubSeq(f, lo, hi)
    BY <1>3 DEF Part
  <2>3. lo \in A /\ hi \in A /\ lo <= hi
    <3> HIDE DEF A
    <3>1. (\E i \in A : \A j \in A : i <= j) /\ (\E i \in A : \A j \in A : i >= j)
      BY <1>1, <1>3, <2>1, Ends
    <3>2. lo \in A /\ hi \in A /\ \A j \in A : lo <= j
      BY <3>1
    <3> QED BY <3>2
  <2>4. \A k \in 1 .. Len(f) : k \in A <=> round - f[k].stamp < FilterRounds /\ f[k].val > val
    BY <1>1 DEF Staying
  <2> HIDE DEF A, lo, hi, t
  <2>5. lo \in 1 .. Len(f) /\ hi \in 1 .. Len(f)
    BY <2>1, <2>3
  <2>6. t \in Seq(Sample) /\ Len(t) = hi - lo + 1 /\ \A i \in 1 .. Len(t) : t[i] = f[lo + i - 1]
    BY <1>1, <2>2, <2>3, <2>5
  <2>7. \A k \in 1 .. Len(f) : f[k].val \in Int /\ f[k].stamp \in Nat
    <3>1. \A s \in Sample : s.val \in Int /\ s.stamp \in Nat
      BY DEF Sample
    <3> QED BY <3>1, <1>1
  <2>8. \A k \in lo .. hi : round - f[k].stamp < FilterRounds /\ f[k].val > val
    <3> SUFFICES ASSUME NEW k \in lo .. hi
                 PROVE  round - f[k].stamp < FilterRounds /\ f[k].val > val
      OBVIOUS
    <3>1. k \in 1 .. Len(f)
      BY <2>5, <1>1
    <3>2. f[lo].stamp <= f[k].stamp /\ f[k].val >= f[hi].val
      BY <2>5, <2>7, <3>1 DEF FilterOf
    <3>3. round - f[lo].stamp < FilterRounds /\ f[hi].val > val
      BY <2>3, <2>4, <2>5
    <3>4. /\ f[lo].stamp \in Nat /\ f[k].stamp \in Nat /\ f[k].val \in Int /\ f[hi].val \in Int
          /\ FilterRounds \in Nat
      BY <3>1, <2>5, <2>7, CcNumbers
    <3> QED BY <3>2, <3>3, <3>4
  <2>9. \A i \in 1 .. Len(t) : lo + i - 1 \in lo .. hi /\ lo + i - 1 \in 1 .. Len(f)
    BY <1>1, <2>5, <2>6
  <2>10. \A i, j \in 1 .. Len(t) : i < j => t[i].val > t[j].val /\ t[i].stamp <= t[j].stamp
    <3> SUFFICES ASSUME NEW i \in 1 .. Len(t), NEW j \in 1 .. Len(t), i < j
                 PROVE  t[i].val > t[j].val /\ t[i].stamp <= t[j].stamp
      OBVIOUS
    <3> DEFINE k == lo + i - 1
               h == lo + j - 1
    <3>1. k \in 1 .. Len(f) /\ h \in 1 .. Len(f)
      BY <2>9
    <3>2. t[i] = f[k] /\ t[j] = f[h]
      BY <2>6
    <3>3. k < h
      BY <2>5
    <3> HIDE DEF k, h
    <3> QED BY <3>1, <3>2, <3>3 DEF FilterOf
  <2>11. Len(t) \in Nat
    BY <2>3, <2>5, <2>6
  <2>12. ASSUME NEW i \in 1 .. Len(t)
         PROVE  \E k \in 1 .. Len(f) : /\ t[i] = f[k]
                                       /\ round - t[i].stamp < FilterRounds /\ t[i].val > val
    <3>1. t[i] = f[lo + i - 1]
      BY <2>6
    <3> QED BY <2>8, <2>9, <3>1
  <2> QED BY <2>6, <2>10, <2>11, <2>12
<1> QED BY <1>2, <1>3

\* The filter with one sample more.
LEMMA FilterUpdated ==
    ASSUME NEW f, NEW S, NEW r \in Nat, FilterOf(f, S, r), NEW val \in Int, NEW round \in Nat, round >= r
    PROVE  LET g == max_filter_update(f, val, round) IN
           /\ g # <<>>
           /\ FilterOf(g, {s \in S : round - s.stamp < FilterRounds} \cup {[val |-> val, stamp |-> round]},
                       round)
<1> DEFINE new == [val |-> val, stamp |-> round]
           T == {s \in S : round - s.stamp < FilterRounds} \cup {new}
           t == Part(f, Staying(f, val, round))
           g == max_filter_update(f, val, round)
<1> SUFFICES g # <<>> /\ FilterOf(g, T, round)
  OBVIOUS
<1>1. new \in Sample /\ new.val = val /\ new.stamp = round
  BY DEF Sample
<1>2. \A s \in Sample : s.val \in Int /\ s.stamp \in Nat
  BY DEF Sample
<1>3. T \subseteq Sample /\ \A s \in T : s.stamp <= round
  BY <1>1, <1>2 DEF FilterOf
<1>4. CASE g = <<new>>
  <2>1. g \in Seq(Sample) /\ Len(g) = 1 /\ g[1] = new /\ g # <<>>
    BY <1>1, <1>4
  <2> HIDE DEF g
  <2>2. new \in T
    OBVIOUS
  <2> HIDE DEF T, new
  <2>3. \A s \in T : ~(s.stamp > new.stamp)
    BY <1>1, <1>2, <1>3
  <2>4. \A i \in 1 .. Len(g) : i = 1
    BY <2>1
  <2> QED BY <1>3, <2>1, <2>2, <2>3, <2>4 DEF FilterOf
<1>5. CASE g # <<new>>
  <2>1. /\ t \in Seq(Sample) /\ Len(t) \in Nat
        /\ \A i \in 1 .. Len(t) :
             \E k \in 1 .. Len(f) : /\ t[i] = f[k]
                                    /\ round - t[i].stamp < FilterRounds /\ t[i].val > val
        /\ \A i, j \in 1 .. Len(t) : i < j => t[i].val > t[j].val /\ t[i].stamp <= t[j].stamp
    BY PartStays
  <2>2. g = IF Len(t) < FilterLen THEN Append(t, new) ELSE t
    BY <1>5 DEF max_filter_update
  <2> HIDE DEF t, g
  <2>3. \A i \in 1 .. Len(t) : t[i] \in T /\ t[i] \in Sample /\ t[i].val > new.val /\ t[i].stamp <= new.stamp
    BY <1>1, <1>2, <1>3, <2>1 DEF FilterOf
  <2>4. \A i \in 1 .. Len(t) : \A s \in T : s.stamp > t[i].stamp => s.val <= t[i].val
    <3> SUFFICES ASSUME NEW i \in 1 .. Len(t), NEW s \in T, s.stamp > t[i].stamp
                 PROVE  s.val <= t[i].val
      OBVIOUS
    <3>1. CASE s \in S
      BY <3>1, <2>1 DEF FilterOf
    <3>2. CASE s = new
      BY <3>2, <1>1, <1>2, <2>3
    <3> QED BY <3>1, <3>2
  <2>5. CASE g = t /\ Len(t) >= FilterLen
    <3>1. Len(t) >= 1
      BY <2>5, <2>1, CcNumbers
    <3>2. t # <<>>
      BY <3>1, <2>1
    <3> HIDE DEF T
    <3> QED BY <1>3, <2>1, <2>3, <2>4, <2>5, <3>2 DEF FilterOf
  <2>6. CASE g = Append(t, new)
    <3>1. /\ g \in Seq(Sample) /\ g # <<>> /\ Len(g) = Len(t) + 1
          /\ \A i \in 1 .. Len(t) : g[i] = t[i]
          /\ g[Len(t) + 1] = new
      BY <1>1, <2>1, <2>6, AppendProperties
    <3>2. \A i \in 1 .. Len(g) : i \in 1 .. Len(t) \/ i = Len(t) + 1
      BY <2>1, <3>1
    <3>3. new \in T
      OBVIOUS
    <3> HIDE DEF T, new
    <3>4. \A i \in 1 .. Len(g) : g[i] \in T
      BY <2>3, <3>1, <3>2, <3>3
    <3>5. \A i, j \in 1 .. Len(g) : i < j => g[i].val > g[j].val /\ g[i].stamp <= g[j].stamp
      <4> SUFFICES ASSUME NEW i \in 1 .. Len(g), NEW j \in 1 .. Len(g), i < j
                   PROVE  g[i].val > g[j].val /\ g[i].stamp <= g[j].stamp
        OBVIOUS
      <4>1. i \in 1 .. Len(t)
        BY <2>1, <3>1
      <4>2. CASE j \in 1 .. Len(t)
        BY <2>1, <3>1, <4>1, <4>2
      <4>3. CASE j = Len(t) + 1
        BY <2>3, <3>1, <4>1, <4>3
      <4> QED BY <3>2, <4>2, <4>3
    <3>6. \A i \in 1 .. Len(g) : \A s \in T : s.stamp > g[i].stamp => s.val <= g[i].val
      <4> SUFFICES ASSUME NEW i \in 1 .. Len(g), NEW s \in T, s.stamp > g[i].stamp
                   PROVE  s.val <= g[i].val
        OBVIOUS
      <4>1. CASE i \in 1 .. Len(t)
        BY <2>4, <3>1, <4>1
      <4>2. CASE i = Len(t) + 1
        <5>1. s.stamp <= round /\ s.stamp \in Nat
          BY <1>2, <1>3
        <5>2. g[i].stamp = round
          BY <1>1, <3>1, <4>2
        <5> QED BY <5>1, <5>2
      <4> QED BY <3>2, <4>1, <4>2
    <3> QED BY <1>3, <3>1, <3>4, <3>5, <3>6 DEF FilterOf
  <2> QED BY <2>1, <2>2, <2>5, <2>6, CcNumbers
<1> QED BY <1>4, <1>5

-----------------------------------------------------------------------------
\* The fields of the probe.
ProbeFields ==
    {"state", "filter", "btl_bw", "rtprop", "rtStamp", "nextRound", "rounds", "roundStart", "delivered",
     "deliveredTime", "gain", "rate", "cwndGain", "cwnd", "inflight", "fullBw", "fullCount", "cycle",
     "cycleStamp", "rttDone", "rttStamp", "expired", "firstSent"}

\* Its states.
States == {"STARTUP", "DRAIN", "PROBE_BW", "PROBE_RTT"}

\* The state machine of the probe changes its gains, never what was measured.
SameMeasures(p, q) ==
    /\ DOMAIN q = ProbeFields
    /\ q.filter = p.filter /\ q.btl_bw = p.btl_bw /\ q.rounds = p.rounds /\ q.rtprop = p.rtprop
    /\ q.delivered = p.delivered /\ q.deliveredTime = p.deliveredTime
    /\ q.firstSent = p.firstSent /\ q.inflight = p.inflight
    /\ p.state \in States => q.state \in States

\* It stays so over several changes.
LEMMA SameTwice ==
    ASSUME NEW p, NEW q, NEW r, SameMeasures(p, q), SameMeasures(q, r)
    PROVE  SameMeasures(p, r)
BY DEF SameMeasures

\* The states it enters.
LEMMA EnteredKeeps ==
    ASSUME NEW p, DOMAIN p = ProbeFields
    PROVE  /\ SameMeasures(p, p)
           /\ SameMeasures(p, probe_enter_drain(p)) /\ SameMeasures(p, probe_enter_probe_bw(p))
           /\ SameMeasures(p, probe_enter_probe_rtt(p)) /\ SameMeasures(p, probe_enter_startup(p))
           /\ SameMeasures(p, Cycled(p)) /\ SameMeasures(p, probe_check_full_bw(p))
           /\ SameMeasures(p, probe_set_pacing_rate(p)) /\ SameMeasures(p, probe_set_cwnd(p))
           /\ SameMeasures(p, [p EXCEPT !.rttDone = TRUE, !.rttStamp = now])
           /\ SameMeasures(p, [p EXCEPT !.rtStamp = now])
<1> USE DEF SameMeasures, ProbeFields, States
<1>1. SameMeasures(p, p)
  OBVIOUS
<1>2. SameMeasures(p, probe_enter_drain(p))
  BY DEF probe_enter_drain
<1>3. SameMeasures(p, probe_enter_probe_bw(p))
  BY DEF probe_enter_probe_bw
<1>4. SameMeasures(p, probe_enter_probe_rtt(p))
  BY DEF probe_enter_probe_rtt
<1>5. SameMeasures(p, probe_enter_startup(p))
  BY DEF probe_enter_startup
<1>6. SameMeasures(p, Cycled(p))
  BY DEF Cycled
<1>7. SameMeasures(p, probe_check_full_bw(p))
  BY DEF probe_check_full_bw
<1>8. SameMeasures(p, probe_set_pacing_rate(p))
  BY DEF probe_set_pacing_rate
<1>9. SameMeasures(p, probe_set_cwnd(p))
  BY DEF probe_set_cwnd
<1>10. SameMeasures(p, [p EXCEPT !.rttDone = TRUE, !.rttStamp = now])
  OBVIOUS
<1>11. SameMeasures(p, [p EXCEPT !.rtStamp = now])
  OBVIOUS
<1> HIDE DEF SameMeasures, ProbeFields, States
<1> QED BY <1>1, <1>2, <1>3, <1>4, <1>5, <1>6, <1>7, <1>8, <1>9, <1>10, <1>11

\* probe_update_state.
LEMMA StateKeeps ==
    ASSUME NEW p, DOMAIN p = ProbeFields, p.state \in States
    PROVE  SameMeasures(p, probe_update_state(p))
<1> DEFINE s == probe_update_state(p)
<1>1. CASE p.state = "STARTUP"
  <2> DEFINE q == probe_check_full_bw(p)
  <2>1. s = IF probe_filled_pipe(q) THEN probe_enter_drain(q) ELSE q
    BY <1>1 DEF probe_update_state
  <2>2. SameMeasures(p, q)
    BY EnteredKeeps
  <2>3. DOMAIN q = ProbeFields
    BY <2>2 DEF SameMeasures
  <2> HIDE DEF q, s
  <2>4. SameMeasures(q, q) /\ SameMeasures(q, probe_enter_drain(q))
    BY <2>3, EnteredKeeps
  <2>5. SameMeasures(p, s)
    BY <2>1, <2>2, <2>4, SameTwice
  <2> QED BY <2>5 DEF s
<1>2. CASE p.state = "DRAIN"
  <2>1. s = IF p.inflight <= probe_bdp(p) THEN probe_enter_probe_bw(p) ELSE p
    BY <1>2 DEF probe_update_state
  <2> HIDE DEF s
  <2>2. SameMeasures(p, s)
    BY <2>1, EnteredKeeps
  <2> QED BY <2>2 DEF s
<1>3. CASE p.state = "PROBE_BW"
  <2> DEFINE q == Cycled(p)
  <2>1. s = IF p.expired THEN probe_enter_probe_rtt(q) ELSE q
    BY <1>3 DEF probe_update_state
  <2>2. SameMeasures(p, q)
    BY EnteredKeeps
  <2>3. DOMAIN q = ProbeFields
    BY <2>2 DEF SameMeasures
  <2> HIDE DEF q, s
  <2>4. SameMeasures(q, probe_enter_probe_rtt(q))
    BY <2>3, EnteredKeeps
  <2>5. SameMeasures(p, s)
    BY <2>1, <2>2, <2>4, SameTwice
  <2> QED BY <2>5 DEF s
<1>4. CASE p.state = "PROBE_RTT"
  <2> DEFINE q == IF ~p.rttDone /\ p.inflight <= MinCwnd
                  THEN [p EXCEPT !.rttDone = TRUE, !.rttStamp = now] ELSE p
             r == [q EXCEPT !.rtStamp = now]
  <2>1. s \in {q, probe_enter_probe_bw(r), probe_enter_startup(r)}
    BY <1>4 DEF probe_update_state
  <2>2. SameMeasures(p, q)
    BY EnteredKeeps
  <2>3. DOMAIN q = ProbeFields
    BY <2>2 DEF SameMeasures
  <2> HIDE DEF q
  <2>4. SameMeasures(q, r)
    BY <2>3, EnteredKeeps
  <2>5. DOMAIN r = ProbeFields
    BY <2>4 DEF SameMeasures
  <2> HIDE DEF r, s
  <2>6. SameMeasures(r, probe_enter_probe_bw(r)) /\ SameMeasures(r, probe_enter_startup(r))
    BY <2>5, EnteredKeeps
  <2>7. SameMeasures(p, s)
    BY <2>1, <2>2, <2>4, <2>6, SameTwice
  <2> QED BY <2>7 DEF s
<1> QED BY <1>1, <1>2, <1>3, <1>4 DEF States

\* The acknowledgement, as far as the counters go.
LEMMA AckedIs ==
    ASSUME NEW p, DOMAIN p = ProbeFields, NEW pkt, p.rounds \in Nat
    PROVE  LET a == probe_update_round(Acked(p, pkt), pkt) IN
           /\ DOMAIN a = ProbeFields /\ a.state = p.state
           /\ a.filter = p.filter /\ a.btl_bw = p.btl_bw /\ a.rtprop = p.rtprop
           /\ a.delivered = p.delivered + 1 /\ a.deliveredTime = now
           /\ a.firstSent = pkt.sent /\ a.inflight = Less(p.inflight)
           /\ a.rounds \in Nat /\ a.rounds >= p.rounds
<1> DEFINE q == Acked(p, pkt)
<1>1. /\ DOMAIN q = ProbeFields /\ q.state = p.state
      /\ q.filter = p.filter /\ q.btl_bw = p.btl_bw /\ q.rtprop = p.rtprop
      /\ q.delivered = p.delivered + 1 /\ q.deliveredTime = now
      /\ q.firstSent = pkt.sent /\ q.inflight = Less(p.inflight) /\ q.rounds = p.rounds
  BY DEF Acked, ProbeFields
<1> HIDE DEF q
<1> QED BY <1>1 DEF probe_update_round, ProbeFields, q

\* The bandwidth and the round trip, each in its field.
LEMMA MeasuredFields ==
    ASSUME NEW a, DOMAIN a = ProbeFields, NEW rate, NEW rtt
    PROVE  LET b == probe_update_btl_bw(a, rate)
               c == probe_update_rtprop(b, rtt)
           IN  /\ DOMAIN c = ProbeFields /\ c.state = a.state
               /\ c.filter = IF rate = 0 THEN a.filter ELSE max_filter_update(a.filter, rate, a.rounds)
               /\ c.btl_bw = IF rate = 0 THEN a.btl_bw ELSE max_filter_get(c.filter)
               /\ c.rtprop \in {a.rtprop, rtt}
               /\ c.delivered = a.delivered /\ c.deliveredTime = a.deliveredTime
               /\ c.firstSent = a.firstSent /\ c.inflight = a.inflight /\ c.rounds = a.rounds
<1> DEFINE b == probe_update_btl_bw(a, rate)
           c == probe_update_rtprop(b, rtt)
<1>1. /\ DOMAIN b = ProbeFields /\ b.state = a.state
      /\ b.filter = IF rate = 0 THEN a.filter ELSE max_filter_update(a.filter, rate, a.rounds)
      /\ b.btl_bw = IF rate = 0 THEN a.btl_bw ELSE max_filter_get(b.filter)
      /\ b.rtprop = a.rtprop
      /\ b.delivered = a.delivered /\ b.deliveredTime = a.deliveredTime
      /\ b.firstSent = a.firstSent /\ b.inflight = a.inflight /\ b.rounds = a.rounds
  BY DEF probe_update_btl_bw, ProbeFields
<1> HIDE DEF b
<1>2. /\ DOMAIN c = ProbeFields /\ c.state = b.state /\ c.filter = b.filter /\ c.btl_bw = b.btl_bw
      /\ c.rtprop \in {b.rtprop, rtt}
      /\ c.delivered = b.delivered /\ c.deliveredTime = b.deliveredTime
      /\ c.firstSent = b.firstSent /\ c.inflight = b.inflight /\ c.rounds = b.rounds
  BY <1>1 DEF probe_update_rtprop, ProbeFields
<1> HIDE DEF c
<1> QED BY <1>1, <1>2 DEF b, c

-----------------------------------------------------------------------------
\* A packet under way with its snapshot; the fields of TDS; the types.
Packet ==
    [seq : Nat, sent : Nat, delivered : Nat, deliveredTime : Nat, firstSent : Nat, probe : BOOLEAN]
TdsFields == {"sendRate", "rtprop", "windowSent", "windowLost", "windowStart"}

CcTypes ==
    /\ mode \in {"PROBE", "TDS"} /\ now \in 0 .. MaxTime /\ lastProbe \in Int
    /\ flight \subseteq Packet /\ IsFiniteSet(flight)
    /\ DOMAIN tds = TdsFields /\ tds.rtprop \in Int /\ tds.rtprop <= NoRtt /\ tds.windowStart \in Int

\* The probe's own counters.
ProbeTypes(p) ==
    /\ DOMAIN p = ProbeFields /\ p.state \in States
    /\ p.rtprop \in Int /\ p.rtprop <= NoRtt
    /\ p.delivered \in Nat /\ p.deliveredTime \in Nat /\ p.deliveredTime <= now
    /\ p.firstSent \in Nat /\ p.inflight \in Nat /\ p.rounds \in Nat

\* A packet of TDS carries nothing, and none outlives its lifetime.
FlightFits ==
    \A f \in flight :
       /\ f.sent <= now /\ now - f.sent <= Lifetime
       /\ ~f.probe => f.delivered = 0 /\ f.deliveredTime = 0

\* In TDS what the last probe sent is older than TDS.
OldProbes == mode = "TDS" => \A f \in flight : f.probe => f.sent <= lastProbe

\* The probe's bandwidth is that of its filter, which is that of the samples.
Estimate(p, S) == FilterOf(p.filter, S, p.rounds) /\ p.btl_bw = max_filter_get(p.filter)

\* The strengthened invariant of congestion control.
CcInv ==
    /\ CcTypes /\ ProbeTypes(probe) /\ FlightFits /\ OldProbes
    /\ mode = "PROBE" => Estimate(probe, samples)
    /\ SnapshotsFit /\ InflightIsReal

\* yumi_cc_init.
LEMMA CcInvInit == CcInit => CcInv
<1> SUFFICES ASSUME CcInit PROVE CcInv
  OBVIOUS
<1> USE DEF CcInit
<1>1. CcTypes
  BY CcNumbers, FS_EmptySet DEF CcTypes, NoTds, NoRtt, TdsFields
<1>2. ProbeTypes(probe)
  BY CcNumbers DEF ProbeTypes, probe_init, ProbeFields, States, NoRtt
<1>3. FlightFits /\ OldProbes /\ SnapshotsFit
  BY DEF FlightFits, OldProbes, SnapshotsFit
<1>4. Estimate(probe, samples)
  <2>1. probe.filter = <<>> /\ probe.btl_bw = 0 /\ probe.rounds = 0
    BY DEF probe_init
  <2> QED BY <2>1 DEF Estimate, FilterOf, max_filter_get
<1>5. InflightIsReal
  <2>1. probe.inflight = 0
    BY DEF probe_init
  <2>2. {f \in flight : f.probe} = {}
    OBVIOUS
  <2> QED BY <2>1, <2>2, FS_EmptySet DEF InflightIsReal
<1> QED BY <1>1, <1>2, <1>3, <1>4, <1>5 DEF CcInv

\* A tick: no packet under way reaches the end of its life unnoticed.
LEMMA TickKeeps ==
    ASSUME CcInv, Tick
    PROVE  CcInv'
<1> USE DEF CcInv, Tick
<1>1. CcTypes'
  BY CcNumbers DEF CcTypes, NoRtt
<1>2. ProbeTypes(probe)'
  BY CcNumbers DEF ProbeTypes, CcTypes
<1>3. FlightFits'
  BY CcNumbers DEF FlightFits, CcTypes, Packet
<1>4. OldProbes' /\ SnapshotsFit' /\ InflightIsReal' /\ (mode' = "PROBE" => Estimate(probe, samples)')
  BY DEF OldProbes, SnapshotsFit, InflightIsReal, Estimate
<1> QED BY <1>1, <1>2, <1>3, <1>4

\* What is under way of a probe, with a packet more or less.
LEMMA FlightCounts ==
    ASSUME NEW F, IsFiniteSet(F), NEW pkt
    PROVE  LET c == Cardinality({f \in F : f.probe})
           IN  /\ c \in Nat
               /\ pkt \notin F => Cardinality({f \in F \cup {pkt} : f.probe}) >= c
               /\ pkt \notin F /\ pkt.probe => Cardinality({f \in F \cup {pkt} : f.probe}) = c + 1
               /\ pkt \in F => /\ Cardinality({f \in F \ {pkt} : f.probe}) >= c - 1
                               /\ Cardinality({f \in F \ {pkt} : f.probe}) \in Nat
<1> DEFINE A == {f \in F : f.probe}
           B == {f \in F \cup {pkt} : f.probe}
           D == {f \in F \ {pkt} : f.probe}
<1>1. IsFiniteSet(A)
  BY FS_Subset
<1>2. Cardinality(A) \in Nat
  BY <1>1, FS_CardinalityType
<1>3. B = A \/ B = A \cup {pkt}
  OBVIOUS
<1>4. pkt.probe /\ pkt \notin F => B = A \cup {pkt} /\ pkt \notin A
  OBVIOUS
<1>5. D = A \/ D = A \ {pkt}
  OBVIOUS
<1>6. Cardinality(A \cup {pkt}) = IF pkt \in A THEN Cardinality(A) ELSE Cardinality(A) + 1
  <2> HIDE DEF A
  <2> QED BY <1>1, FS_AddElement
<1>7. Cardinality(A \ {pkt}) = IF pkt \in A THEN Cardinality(A) - 1 ELSE Cardinality(A)
  <2> HIDE DEF A
  <2> QED BY <1>1, FS_RemoveElement
<1>8. IsFiniteSet(D)
  <2> HIDE DEF D
  <2> QED BY <1>1, <1>5, FS_RemoveElement
<1>9. Cardinality(D) \in Nat
  BY <1>8, FS_CardinalityType
<1> HIDE DEF A, B, D
<1>10. pkt \notin F => Cardinality(B) >= Cardinality(A)
  BY <1>2, <1>3, <1>6
<1>11. pkt \notin F /\ pkt.probe => Cardinality(B) = Cardinality(A) + 1
  BY <1>2, <1>4, <1>6
<1>12. Cardinality(D) >= Cardinality(A) - 1
  BY <1>2, <1>5, <1>7
<1> QED BY <1>2, <1>9, <1>10, <1>11, <1>12 DEF A, B, D

\* yumi_cc_on_send.
LEMMA OnSendKeeps ==
    ASSUME CcInv, OnSend
    PROVE  CcInv'
<1>1. PICK seq \in 1 .. Flying :
         /\ \A f \in flight : f.seq # seq
         /\ IF mode = "PROBE"
            THEN /\ flight' = flight \cup
                      {[seq |-> seq, sent |-> now, delivered |-> probe.delivered,
                        deliveredTime |-> probe.deliveredTime, firstSent |-> probe.firstSent,
                        probe |-> TRUE]}
                 /\ probe' = [probe EXCEPT !.inflight = @ + 1]
                 /\ UNCHANGED tds
            ELSE /\ flight' = flight \cup
                      {[seq |-> seq, sent |-> now, delivered |-> 0, deliveredTime |-> 0, firstSent |-> 0,
                        probe |-> FALSE]}
                 /\ tds' = [tds EXCEPT !.windowSent = @ + 1]
                 /\ UNCHANGED probe
  BY DEF OnSend
<1>2. UNCHANGED <<mode, lastProbe, now, samples>>
  BY DEF OnSend
<1>3. CcTypes /\ ProbeTypes(probe) /\ FlightFits /\ OldProbes /\ SnapshotsFit /\ InflightIsReal
        /\ (mode = "PROBE" => Estimate(probe, samples)) /\ now \in Nat /\ IsFiniteSet(flight)
  BY CcNumbers DEF CcInv, CcTypes
<1>4. CASE mode = "PROBE"
  <2> DEFINE pkt == [seq |-> seq, sent |-> now, delivered |-> probe.delivered,
                     deliveredTime |-> probe.deliveredTime, firstSent |-> probe.firstSent,
                     probe |-> TRUE]
  <2>1. flight' = flight \cup {pkt} /\ UNCHANGED tds
    BY <1>1, <1>4
  <2>2. /\ pkt \in Packet /\ pkt \notin flight /\ pkt.sent = now /\ pkt.probe
        /\ pkt.delivered = probe.delivered /\ pkt.deliveredTime = probe.deliveredTime
    BY <1>1, <1>3 DEF Packet, ProbeTypes
  <2>3. /\ DOMAIN probe' = ProbeFields /\ probe'.state = probe.state /\ probe'.filter = probe.filter
        /\ probe'.btl_bw = probe.btl_bw /\ probe'.rounds = probe.rounds /\ probe'.rtprop = probe.rtprop
        /\ probe'.delivered = probe.delivered /\ probe'.deliveredTime = probe.deliveredTime
        /\ probe'.firstSent = probe.firstSent /\ probe'.inflight = probe.inflight + 1
    BY <1>1, <1>3, <1>4 DEF ProbeTypes, ProbeFields, SameMeasures
  <2> HIDE DEF pkt
  <2>4. CcTypes'
    BY <1>2, <1>3, <2>1, <2>2, FS_AddElement DEF CcTypes, NoRtt
  <2>5. ProbeTypes(probe)'
    BY <1>2, <1>3, <2>3 DEF ProbeTypes, NoRtt
  <2>6. FlightFits' /\ OldProbes' /\ SnapshotsFit'
    BY <1>2, <1>3, <1>4, <2>1, <2>2, <2>3, CcNumbers DEF FlightFits, OldProbes, SnapshotsFit, ProbeTypes
  <2>7. Estimate(probe, samples)'
    BY <1>2, <1>3, <1>4, <2>3 DEF Estimate
  <2>8. InflightIsReal'
    <3> DEFINE c == Cardinality({f \in flight : f.probe})
               d == Cardinality({f \in flight \cup {pkt} : f.probe})
    <3>1. c \in Nat /\ d = c + 1
      BY <1>3, <2>2, FlightCounts
    <3>2. probe.inflight <= c /\ probe.inflight \in Nat
      BY <1>3, <1>4 DEF InflightIsReal, ProbeTypes
    <3>3. d = Cardinality({f \in flight' : f.probe})
      BY <2>1
    <3> HIDE DEF c, d
    <3>4. probe'.inflight <= d
      BY <2>3, <3>1, <3>2
    <3> QED BY <3>3, <3>4 DEF InflightIsReal
  <2> QED BY <1>2, <1>4, <2>4, <2>5, <2>6, <2>7, <2>8 DEF CcInv
<1>5. CASE mode = "TDS"
  <2> DEFINE pkt == [seq |-> seq, sent |-> now, delivered |-> 0, deliveredTime |-> 0, firstSent |-> 0,
                     probe |-> FALSE]
  <2>1. flight' = flight \cup {pkt} /\ UNCHANGED probe /\ tds' = [tds EXCEPT !.windowSent = @ + 1]
    BY <1>1, <1>5
  <2>2. pkt \in Packet /\ pkt.sent = now /\ ~pkt.probe /\ pkt.delivered = 0 /\ pkt.deliveredTime = 0
    BY <1>1, <1>3 DEF Packet
  <2>3. DOMAIN tds' = TdsFields /\ tds'.rtprop = tds.rtprop /\ tds'.windowStart = tds.windowStart
    BY <1>3, <2>1 DEF CcTypes, TdsFields
  <2> HIDE DEF pkt
  <2>4. CcTypes'
    BY <1>2, <1>3, <2>1, <2>2, <2>3, FS_AddElement DEF CcTypes, NoRtt
  <2>5. ProbeTypes(probe)' /\ FlightFits' /\ OldProbes' /\ SnapshotsFit' /\ InflightIsReal'
    BY <1>2, <1>3, <1>5, <2>1, <2>2, CcNumbers
       DEF ProbeTypes, FlightFits, OldProbes, SnapshotsFit, InflightIsReal, NoRtt
  <2> QED BY <1>2, <1>5, <2>4, <2>5 DEF CcInv
<1> QED BY <1>3, <1>4, <1>5 DEF CcTypes

\* yumi_cc_on_loss.
LEMMA OnLossKeeps ==
    ASSUME CcInv, NEW pkt \in flight, OnLoss(pkt)
    PROVE  CcInv'
<1>1. CcTypes /\ ProbeTypes(probe) /\ FlightFits /\ OldProbes /\ SnapshotsFit /\ InflightIsReal
        /\ (mode = "PROBE" => Estimate(probe, samples)) /\ now \in Nat /\ IsFiniteSet(flight)
  BY CcNumbers DEF CcInv, CcTypes
<1>2. UNCHANGED <<mode, lastProbe, now, samples>> /\ flight' = flight \ {pkt}
  BY DEF OnLoss
<1>3. /\ DOMAIN probe' = ProbeFields /\ probe'.state = probe.state /\ probe'.filter = probe.filter
      /\ probe'.btl_bw = probe.btl_bw /\ probe'.rounds = probe.rounds /\ probe'.rtprop = probe.rtprop
      /\ probe'.delivered = probe.delivered /\ probe'.deliveredTime = probe.deliveredTime
      /\ probe'.firstSent = probe.firstSent /\ probe'.inflight \in Nat
      /\ mode = "PROBE" => probe'.inflight = Less(probe.inflight)
  BY <1>1 DEF OnLoss, ProbeTypes, ProbeFields, Less
<1>4. DOMAIN tds' = TdsFields /\ tds'.rtprop = tds.rtprop /\ tds'.windowStart = tds.windowStart
  BY <1>1 DEF OnLoss, CcTypes, TdsFields
<1>5. CcTypes'
  BY <1>1, <1>2, <1>4, FS_RemoveElement DEF CcTypes, NoRtt
<1>6. ProbeTypes(probe)'
  BY <1>1, <1>2, <1>3 DEF ProbeTypes, NoRtt
<1>7. FlightFits' /\ OldProbes' /\ SnapshotsFit'
  BY <1>1, <1>2, <1>3 DEF FlightFits, OldProbes, SnapshotsFit
<1>8. mode' = "PROBE" => Estimate(probe, samples)'
  BY <1>1, <1>2, <1>3 DEF Estimate
<1>9. InflightIsReal'
  <2> DEFINE c == Cardinality({f \in flight : f.probe})
             d == Cardinality({f \in flight \ {pkt} : f.probe})
  <2>1. c \in Nat /\ d \in Nat /\ d >= c - 1
    BY <1>1, FlightCounts
  <2>2. d = Cardinality({f \in flight' : f.probe})
    BY <1>2
  <2>3. mode = "PROBE" => probe.inflight <= c
    BY <1>1 DEF InflightIsReal
  <2> HIDE DEF c, d
  <2>4. mode = "PROBE" => Less(probe.inflight) <= d
    BY <1>1, <2>1, <2>3 DEF Less, ProbeTypes
  <2> QED BY <1>2, <1>3, <2>2, <2>4 DEF InflightIsReal
<1> QED BY <1>5, <1>6, <1>7, <1>8, <1>9 DEF CcInv

\* A product of counts is one.
LEMMA ProductIs == \A i, j \in Nat : i * j \in Nat
OBVIOUS

\* A round trip is not longer than the time that passed.
LEMMA TripsFit ==
    ASSUME CcInv, NEW pkt \in flight, NEW rtt \in RoundTrips(pkt)
    PROVE  rtt \in Int /\ rtt <= now
<1>1. now \in Nat /\ pkt.sent \in Nat /\ pkt.sent <= now /\ Timeout \in Nat /\ Timeout > 0
  BY CcNumbers DEF CcInv, CcTypes, FlightFits, Packet
<1>2. PICK k \in 0 .. (now - pkt.sent) \div Timeout : rtt = now - pkt.sent - k * Timeout
  BY DEF RoundTrips
<1>3. k \in Nat
  BY <1>1
<1>4. k * Timeout \in Nat
  BY <1>1, <1>3, ProductIs
<1> QED BY <1>1, <1>2, <1>4

\* A rate is a number.
LEMMA RateIs ==
    ASSUME NEW a, NEW pkt \in Packet, a.delivered \in Nat, a.deliveredTime \in Nat,
           pkt.delivered <= a.delivered, pkt.deliveredTime <= a.deliveredTime
    PROVE  probe_delivery_rate(a, pkt) \in Int
<1> DEFINE acks == a.deliveredTime - pkt.deliveredTime
           sends == IF pkt.sent > pkt.firstSent THEN pkt.sent - pkt.firstSent ELSE 0
           interval == IF acks > sends THEN acks ELSE sends
           arrived == a.delivered - pkt.delivered
<1>1. acks \in Nat /\ sends \in Nat /\ arrived \in Nat
  BY DEF Packet
<1> HIDE DEF acks, sends, arrived
<1>2. interval \in Nat
  BY <1>1
<1> HIDE DEF interval
<1>3. arrived * RateUnit \in Nat
  BY <1>1, CcNumbers, ProductIs
<1>4. interval # 0 => (arrived * RateUnit) \div interval \in Int
  BY <1>2, <1>3
<1>5. probe_delivery_rate(a, pkt) = IF interval = 0 THEN 0 ELSE (arrived * RateUnit) \div interval
  BY DEF probe_delivery_rate, interval, arrived, acks, sends
<1> QED BY <1>4, <1>5

\* A filter's samples stay in the past when rounds go on.
LEMMA LaterRound ==
    ASSUME NEW f, NEW S, NEW r \in Nat, FilterOf(f, S, r), NEW q \in Nat, q >= r
    PROVE  FilterOf(f, S, q)
<1>1. \A s \in S : s.stamp \in Nat
  BY DEF FilterOf, Sample
<1> QED BY <1>1 DEF FilterOf

\* What the probe keeps of the samples when it measures a rate.
Sampled(a, rate) ==
    IF rate = 0 THEN samples
    ELSE {s \in samples : a.rounds - s.stamp < FilterRounds} \cup {[val |-> rate, stamp |-> a.rounds]}

\* The whole of yumi_cc_on_ack in PROBE, up to the change of modes.
LEMMA MeasuredIs ==
    ASSUME CcInv, mode = "PROBE", NEW pkt \in flight, NEW rtt \in RoundTrips(pkt)
    PROVE  LET a == probe_update_round(Acked(probe, pkt), pkt)
               p == Measured(pkt, rtt)
           IN  /\ ProbeTypes(p) /\ Estimate(p, Sampled(a, probe_delivery_rate(a, pkt)))
               /\ p.delivered = probe.delivered + 1 /\ p.deliveredTime = now
               /\ p.inflight = Less(probe.inflight)
<1> DEFINE a == probe_update_round(Acked(probe, pkt), pkt)
           rate == probe_delivery_rate(a, pkt)
           c == probe_update_rtprop(probe_update_btl_bw(a, rate), rtt)
           u == probe_update_state(c)
           v == probe_set_pacing_rate(u)
           p == probe_set_cwnd(v)
<1>0. p = Measured(pkt, rtt)
  BY DEF Measured
<1>1. CcTypes /\ ProbeTypes(probe) /\ SnapshotsFit /\ Estimate(probe, samples) /\ now \in Nat
        /\ pkt \in Packet
  BY CcNumbers DEF CcInv, CcTypes
<1>2. /\ DOMAIN a = ProbeFields /\ a.state = probe.state
      /\ a.filter = probe.filter /\ a.btl_bw = probe.btl_bw /\ a.rtprop = probe.rtprop
      /\ a.delivered = probe.delivered + 1 /\ a.deliveredTime = now
      /\ a.firstSent = pkt.sent /\ a.inflight = Less(probe.inflight)
      /\ a.rounds \in Nat /\ a.rounds >= probe.rounds
  BY <1>1, AckedIs DEF ProbeTypes
<1> SUFFICES /\ ProbeTypes(p) /\ Estimate(p, Sampled(a, rate))
             /\ p.delivered = probe.delivered + 1 /\ p.deliveredTime = now
             /\ p.inflight = Less(probe.inflight)
  BY <1>0
<1> HIDE DEF a
<1>3. rate \in Int
  <2>1. a.delivered \in Nat /\ a.deliveredTime \in Nat
    BY <1>1, <1>2 DEF ProbeTypes
  <2>2. pkt.delivered <= a.delivered /\ pkt.deliveredTime <= a.deliveredTime
    BY <1>1, <1>2 DEF ProbeTypes, SnapshotsFit, Packet
  <2> QED BY <1>1, <2>1, <2>2, RateIs
<1> HIDE DEF rate
<1>4. /\ DOMAIN c = ProbeFields /\ c.state = a.state
      /\ c.filter = IF rate = 0 THEN a.filter ELSE max_filter_update(a.filter, rate, a.rounds)
      /\ c.btl_bw = IF rate = 0 THEN a.btl_bw ELSE max_filter_get(c.filter)
      /\ c.rtprop \in {a.rtprop, rtt}
      /\ c.delivered = a.delivered /\ c.deliveredTime = a.deliveredTime
      /\ c.firstSent = a.firstSent /\ c.inflight = a.inflight /\ c.rounds = a.rounds
  BY <1>2, MeasuredFields
<1> HIDE DEF c
<1>5. SameMeasures(c, u)
  BY <1>1, <1>2, <1>4, StateKeeps DEF ProbeTypes
<1> HIDE DEF u
<1>6. SameMeasures(u, v)
  BY <1>5, EnteredKeeps DEF SameMeasures
<1> HIDE DEF v
<1>7. SameMeasures(v, p)
  BY <1>6, EnteredKeeps DEF SameMeasures
<1> HIDE DEF p
<1>8. SameMeasures(c, p)
  BY <1>5, <1>6, <1>7, SameTwice
<1>9. rtt \in Int /\ rtt <= NoRtt
  BY <1>1, TripsFit, CcNumbers DEF CcTypes, NoRtt
<1>10. ProbeTypes(p)
  <2>1. c.state \in States /\ c.rtprop \in Int /\ c.rtprop <= NoRtt
    BY <1>1, <1>2, <1>4, <1>9 DEF ProbeTypes
  <2>2. c.delivered \in Nat /\ c.deliveredTime = now /\ c.firstSent \in Nat /\ c.inflight \in Nat
          /\ c.rounds \in Nat
    BY <1>1, <1>2, <1>4 DEF ProbeTypes, Packet, Less
  <2> QED BY <1>1, <1>8, <2>1, <2>2 DEF ProbeTypes, SameMeasures
<1>11. Estimate(c, Sampled(a, rate))
  <2>1. FilterOf(probe.filter, samples, probe.rounds) /\ probe.btl_bw = max_filter_get(probe.filter)
          /\ probe.rounds \in Nat
    BY <1>1 DEF Estimate, ProbeTypes
  <2>2. CASE rate = 0
    <3>1. FilterOf(probe.filter, samples, a.rounds)
      BY <1>2, <2>1, LaterRound
    <3> QED BY <1>2, <1>4, <2>1, <2>2, <3>1 DEF Estimate, Sampled
  <2>3. CASE rate # 0
    <3>1. FilterOf(max_filter_update(probe.filter, rate, a.rounds),
                   {s \in samples : a.rounds - s.stamp < FilterRounds}
                     \cup {[val |-> rate, stamp |-> a.rounds]}, a.rounds)
      BY <1>2, <1>3, <2>1, FilterUpdated
    <3> QED BY <1>2, <1>4, <2>3, <3>1 DEF Estimate, Sampled
  <2> QED BY <2>2, <2>3
<1>12. Estimate(p, Sampled(a, rate))
  BY <1>8, <1>11 DEF Estimate, SameMeasures
<1>13. p.delivered = probe.delivered + 1 /\ p.deliveredTime = now /\ p.inflight = Less(probe.inflight)
  BY <1>2, <1>4, <1>8 DEF SameMeasures
<1> QED BY <1>10, <1>12, <1>13

\* yumi_cc_on_ack in PROBE.
LEMMA OnAckProbeKeeps ==
    ASSUME CcInv, NEW pkt \in flight, NEW rtt \in RoundTrips(pkt), OnAckProbe(pkt, rtt)
    PROVE  /\ CcInv'
           /\ mode' = "TDS" =>
                /\ \E s \in samples' : tds'.sendRate = (s.val * 9) \div 10
                /\ tds'.rtprop <= MaxTime
<1> DEFINE a == probe_update_round(Acked(probe, pkt), pkt)
           p == Measured(pkt, rtt)
           S == Sampled(a, probe_delivery_rate(a, pkt))
<1>1. CcTypes /\ ProbeTypes(probe) /\ FlightFits /\ OldProbes /\ SnapshotsFit /\ InflightIsReal
        /\ Estimate(probe, samples) /\ now \in Nat /\ IsFiniteSet(flight) /\ mode = "PROBE"
  BY CcNumbers DEF CcInv, CcTypes, OnAckProbe
<1>2. /\ samples' = S /\ flight' = flight \ {pkt} /\ UNCHANGED now
      /\ IF should_graduate_to_tds(p) THEN enter_tds(p)
         ELSE probe' = p /\ UNCHANGED <<mode, tds, lastProbe>>
  BY DEF OnAckProbe, Sampled
<1>3. /\ ProbeTypes(p) /\ Estimate(p, S)
      /\ p.delivered = probe.delivered + 1 /\ p.deliveredTime = now
      /\ p.inflight = Less(probe.inflight)
  BY <1>1, MeasuredIs
<1> HIDE DEF a, p, S
<1>4. IsFiniteSet(flight') /\ flight' \subseteq Packet
  BY <1>1, <1>2, FS_RemoveElement DEF CcTypes
<1>5. probe' = p
  BY <1>2 DEF enter_tds
<1>6. ProbeTypes(probe)' /\ Estimate(probe, samples)' /\ FlightFits'
  BY <1>1, <1>2, <1>3, <1>5 DEF ProbeTypes, Estimate, FlightFits, NoRtt
<1>7. CASE should_graduate_to_tds(p)
  <2>1. /\ mode' = "TDS" /\ lastProbe' = now /\ tds' = tds_init_from_probe(p)
        /\ p.btl_bw # 0 /\ p.rtprop # NoRtt
    BY <1>2, <1>7 DEF enter_tds, should_graduate_to_tds
  <2>2. DOMAIN tds' = TdsFields /\ tds'.rtprop = p.rtprop /\ tds'.windowStart = now
          /\ tds'.sendRate = (p.btl_bw * 9) \div 10
    BY <2>1 DEF tds_init_from_probe, NoTds, TdsFields
  <2>3. CcTypes'
    BY <1>1, <1>2, <1>3, <1>4, <2>1, <2>2 DEF CcTypes, ProbeTypes, NoRtt
  <2>4. OldProbes'
    BY <1>1, <1>2, <2>1 DEF OldProbes, FlightFits
  <2>5. SnapshotsFit' /\ InflightIsReal'
    BY <2>1 DEF SnapshotsFit, InflightIsReal
  <2>6. \E s \in samples' : tds'.sendRate = (s.val * 9) \div 10
    <3>1. p.filter # <<>> /\ p.btl_bw = p.filter[1].val
      BY <1>3, <2>1 DEF Estimate, max_filter_get
    <3>2. 1 \in 1 .. Len(p.filter)
      BY <1>3, <3>1 DEF Estimate, FilterOf
    <3>3. p.filter[1] \in S
      BY <1>3, <3>2 DEF Estimate, FilterOf
    <3> QED BY <1>2, <2>2, <3>1, <3>3
  <2>7. tds'.rtprop <= MaxTime
    BY <1>3, <2>1, <2>2, CcNumbers DEF ProbeTypes, NoRtt
  <2> QED BY <1>6, <2>1, <2>3, <2>4, <2>5, <2>6, <2>7 DEF CcInv
<1>8. CASE ~should_graduate_to_tds(p)
  <2>1. UNCHANGED <<mode, tds, lastProbe>>
    BY <1>2, <1>8
  <2>2. CcTypes'
    BY <1>1, <1>2, <1>4, <2>1 DEF CcTypes, NoRtt
  <2>3. OldProbes'
    BY <1>1, <2>1 DEF OldProbes
  <2>4. SnapshotsFit'
    BY <1>1, <1>2, <1>3, <1>5 DEF SnapshotsFit, ProbeTypes, CcTypes, Packet
  <2>5. InflightIsReal'
    <3> DEFINE c == Cardinality({f \in flight : f.probe})
               d == Cardinality({f \in flight \ {pkt} : f.probe})
    <3>1. c \in Nat /\ d \in Nat /\ d >= c - 1
      BY <1>1, FlightCounts
    <3>2. d = Cardinality({f \in flight' : f.probe})
      BY <1>2
    <3>3. probe.inflight <= c
      BY <1>1 DEF InflightIsReal
    <3> HIDE DEF c, d
    <3>4. Less(probe.inflight) <= d
      BY <1>1, <3>1, <3>3 DEF Less, ProbeTypes
    <3> QED BY <1>3, <1>5, <3>2, <3>4 DEF InflightIsReal
  <2> QED BY <1>1, <1>6, <2>1, <2>2, <2>3, <2>4, <2>5 DEF CcInv
<1> QED BY <1>7, <1>8

\* The loss that TDS looks at is that of the window it has just begun: it never ends TDS.
LEMMA LossUnseen ==
    ASSUME CcTypes
    PROVE  LET t == tds_rotate_window(tds) IN
           /\ ~tds_loss_exceeded(t)
           /\ DOMAIN t = TdsFields /\ t.rtprop = tds.rtprop /\ t.windowStart \in Int
<1> DEFINE t == tds_rotate_window(tds)
<1>1. DOMAIN tds = TdsFields /\ now \in Nat /\ tds.windowStart \in Int
  BY CcNumbers DEF CcTypes
<1>2. CASE now - tds.windowStart >= LossWindow
  <2>1. t = [tds EXCEPT !.windowSent = 0, !.windowLost = 0, !.windowStart = now]
    BY <1>2 DEF tds_rotate_window
  <2>2. DOMAIN t = TdsFields /\ t.windowSent = 0 /\ t.rtprop = tds.rtprop /\ t.windowStart = now
    BY <1>1, <2>1 DEF TdsFields
  <2> HIDE DEF t
  <2>3. ~tds_loss_exceeded(t)
    BY <2>2 DEF tds_loss_exceeded
  <2> QED BY <1>1, <2>2, <2>3 DEF t
<1>3. CASE ~(now - tds.windowStart >= LossWindow)
  <2>1. t = tds
    BY <1>3 DEF tds_rotate_window
  <2> QED BY <1>1, <1>3, <2>1 DEF tds_loss_exceeded
<1> QED BY <1>2, <1>3

\* yumi_cc_on_ack in TDS.
LEMMA OnAckTdsKeeps ==
    ASSUME CcInv, NEW pkt \in flight, OnAckTds(pkt)
    PROVE  CcInv'
<1> DEFINE t == tds_rotate_window(tds)
<1>1. CcTypes /\ ProbeTypes(probe) /\ FlightFits /\ OldProbes
        /\ now \in Nat /\ IsFiniteSet(flight) /\ mode = "TDS"
  BY CcNumbers DEF CcInv, CcTypes, OnAckTds
<1>2. ~tds_loss_exceeded(t) /\ DOMAIN t = TdsFields /\ t.rtprop = tds.rtprop /\ t.windowStart \in Int
  BY <1>1, LossUnseen
<1>3. /\ flight' = flight \ {pkt} /\ UNCHANGED now
      /\ IF ReprobeDue THEN enter_probe(t) ELSE tds' = t /\ UNCHANGED <<mode, probe, lastProbe, samples>>
  BY <1>2 DEF OnAckTds
<1> HIDE DEF t
<1>4. IsFiniteSet(flight') /\ flight' \subseteq Packet
  BY <1>1, <1>3, FS_RemoveElement DEF CcTypes
<1>5. FlightFits'
  BY <1>1, <1>3 DEF FlightFits
<1>6. CASE ReprobeDue
  <2>1. mode' = "PROBE" /\ tds' = t /\ samples' = {} /\ UNCHANGED lastProbe
          /\ probe' = IF t.rtprop \notin {0, NoRtt}
                      THEN [probe_init EXCEPT !.rtprop = t.rtprop, !.rtStamp = now] ELSE probe_init
    BY <1>3, <1>6 DEF enter_probe
  <2>2. \A f \in flight' : ~f.probe
    BY <1>1, <1>3, <1>6, CcNumbers, CcAssumption
       DEF ReprobeDue, FlightFits, OldProbes, CcTypes, Packet
  <2>3. CcTypes'
    BY <1>1, <1>2, <1>3, <1>4, <2>1 DEF CcTypes, NoRtt
  <2>4. /\ DOMAIN probe' = ProbeFields /\ probe'.state = "STARTUP" /\ probe'.filter = <<>> /\ probe'.btl_bw = 0
        /\ probe'.rounds = 0 /\ probe'.delivered = 0 /\ probe'.deliveredTime = 0 /\ probe'.inflight = 0
        /\ probe'.firstSent = 0 /\ probe'.rtprop \in {NoRtt, t.rtprop}
    BY <2>1 DEF probe_init, ProbeFields
  <2>5. ProbeTypes(probe)'
    <3>1. NoRtt \in Int /\ tds.rtprop \in Int /\ tds.rtprop <= NoRtt
      BY <1>1, CcNumbers DEF CcTypes, NoRtt
    <3>2. probe'.rtprop \in Int /\ probe'.rtprop <= NoRtt
      BY <1>2, <2>4, <3>1
    <3> QED BY <1>1, <1>3, <2>4, <3>2 DEF ProbeTypes, States, NoRtt
  <2>6. Estimate(probe, samples)'
    <3>1. FilterOf(<<>>, {}, 0) /\ max_filter_get(<<>>) = 0
      BY DEF FilterOf, max_filter_get
    <3> QED BY <2>1, <2>4, <3>1 DEF Estimate
  <2>7. SnapshotsFit'
    BY <1>5, <2>2, <2>4 DEF SnapshotsFit, FlightFits
  <2>8. InflightIsReal'
    <3>1. {f \in flight' : f.probe} = {}
      BY <2>2
    <3>2. Cardinality({f \in flight' : f.probe}) = 0
      BY <3>1, FS_EmptySet
    <3> QED BY <2>4, <3>2 DEF InflightIsReal
  <2> QED BY <1>5, <2>1, <2>3, <2>5, <2>6, <2>7, <2>8 DEF CcInv, OldProbes
<1>7. CASE ~ReprobeDue
  <2>1. tds' = t /\ UNCHANGED <<mode, probe, lastProbe, samples>>
    BY <1>3, <1>7
  <2>2. CcTypes'
    BY <1>1, <1>2, <1>3, <1>4, <2>1 DEF CcTypes, NoRtt
  <2>3. ProbeTypes(probe)' /\ OldProbes' /\ SnapshotsFit' /\ InflightIsReal'
    BY <1>1, <1>3, <2>1 DEF ProbeTypes, OldProbes, SnapshotsFit, InflightIsReal, NoRtt
  <2> QED BY <1>1, <1>5, <2>1, <2>2, <2>3 DEF CcInv
<1> QED BY <1>6, <1>7

\* Every step.
LEMMA CcInvStep ==
    ASSUME CcInv, [CcNext]_ccVars
    PROVE  /\ CcInv'
           /\ (mode = "PROBE" /\ mode' = "TDS" =>
                  /\ \E s \in samples' : tds'.sendRate = (s.val * 9) \div 10
                  /\ tds'.rtprop <= MaxTime)
<1>1. CASE OnSend
  BY <1>1, OnSendKeeps DEF OnSend
<1>2. CASE Tick
  BY <1>2, TickKeeps DEF Tick
<1>3. ASSUME NEW pkt \in flight, NEW rtt \in RoundTrips(pkt), OnAckProbe(pkt, rtt)
      PROVE  /\ CcInv'
             /\ mode' = "TDS" =>
                  /\ \E s \in samples' : tds'.sendRate = (s.val * 9) \div 10
                  /\ tds'.rtprop <= MaxTime
  BY <1>3, OnAckProbeKeeps
<1>4. ASSUME NEW pkt \in flight, OnAckTds(pkt)
      PROVE  CcInv' /\ mode = "TDS"
  BY <1>4, OnAckTdsKeeps DEF OnAckTds
<1>5. ASSUME NEW pkt \in flight, OnLoss(pkt)
      PROVE  CcInv' /\ mode' = mode
  BY <1>5, OnLossKeeps DEF OnLoss
<1>6. CASE UNCHANGED ccVars
  <2>1. CcInv'
    BY <1>6 DEF ccVars, CcInv, CcTypes, ProbeTypes, FlightFits, OldProbes, SnapshotsFit, InflightIsReal,
                Estimate, NoRtt
  <2> QED BY <1>6, <2>1 DEF ccVars
<1> QED BY <1>1, <1>2, <1>3, <1>4, <1>5, <1>6 DEF CcNext

\* The first entry of the filter is the sample that is asked for.
LEMMA CcInvSound == CcInv => SnapshotsFit /\ InflightIsReal /\ BandwidthIsRecent
<1> SUFFICES ASSUME CcInv, mode = "PROBE", samples # {}
             PROVE  \E s \in samples :
                       s.val = probe.btl_bw /\ \A r \in samples : r.stamp > s.stamp => r.val <= s.val
  BY DEF CcInv, BandwidthIsRecent
<1>1. FilterOf(probe.filter, samples, probe.rounds) /\ probe.btl_bw = max_filter_get(probe.filter)
  BY DEF CcInv, Estimate
<1>2. probe.filter # <<>> /\ 1 \in 1 .. Len(probe.filter)
  BY <1>1 DEF FilterOf
<1>3. probe.filter[1] \in samples /\ probe.btl_bw = probe.filter[1].val
  BY <1>1, <1>2 DEF FilterOf, max_filter_get
<1> QED BY <1>1, <1>2, <1>3 DEF FilterOf

\* ProbeSound for all constants of the congestion control: no snapshot is ahead of the counters
\* it is compared with, the probe believes no more to be under way than is, its bandwidth is
\* that of a recent sample, and TDS sends at a rate that was measured.
THEOREM ProbesAreSound == CcSpec => ProbeSound
<1>1. CcInit => CcInv
  BY CcInvInit
<1>2. CcInv /\ [CcNext]_ccVars => CcInv'
  BY CcInvStep
<1>3. CcInv => SnapshotsFit /\ InflightIsReal /\ BandwidthIsRecent
  BY CcInvSound
<1>4. CcInv /\ [CcNext]_ccVars =>
        [mode = "PROBE" /\ mode' = "TDS" =>
           /\ \E s \in samples' : tds'.sendRate = (s.val * 9) \div 10
           /\ tds'.rtprop <= MaxTime]_ccVars
  BY CcInvStep
<1> QED BY <1>1, <1>2, <1>3, <1>4, PTL DEF CcSpec, ProbeSound, CruiseIsMeasured

\* The loss watchdog of TDS never ends it ("excessive loss triggers automatic re-probe",
\* bbr.c:585), for any threshold and window: yumi_cc_on_ack empties the window before it judges
\* it, so only the timer leads back to PROBE.
THEOREM LossNeverReprobes == CcSpec => [][mode = "TDS" /\ mode' = "PROBE" => ReprobeDue]_ccVars
<1>1. CcInit => CcInv
  BY CcInvInit
<1>2. CcInv /\ [CcNext]_ccVars => CcInv'
  BY CcInvStep
<1>3. CcInv /\ [CcNext]_ccVars => [mode = "TDS" /\ mode' = "PROBE" => ReprobeDue]_ccVars
  <2> SUFFICES ASSUME CcInv, CcNext, mode = "TDS", mode' = "PROBE"
               PROVE  ReprobeDue
    OBVIOUS
  <2>1. PICK pkt \in flight : OnAckTds(pkt)
    BY DEF CcNext, OnSend, Tick, OnAckProbe, OnLoss
  <2>2. ~tds_loss_exceeded(tds_rotate_window(tds))
    BY LossUnseen DEF CcInv
  <2> QED BY <2>1, <2>2 DEF OnAckTds
<1> QED BY <1>1, <1>2, <1>3, PTL DEF CcSpec
=============================================================================
