---------------------------- MODULE ChunkStream ----------------------------
(***************************************************************************)
(* Large messages on one channel of a connection (chunked_send and         *)
(* reasm_feed in yumi_client.c).  The channel is reliable and in order,    *)
(* but nothing keeps two threads of the sender from sending at once: the   *)
(* receive callback answers while the sync worker broadcasts.              *)
(***************************************************************************)
EXTENDS Integers, Sequences, FiniteSets

CONSTANTS
    ChunkThreads,   \* threads of the sender
    MaxPayload,     \* yumi_sudp_client_get_max_payload
    Lengths,        \* lengths of messages
    MaxTotal,       \* 4 MB
    MessageBound,   \* bound: messages of a thread
    StreamBound     \* bound: packets under way

ASSUME ChunkAssumption == MaxPayload >= 10 /\ \A n \in Lengths : n \in Nat

VARIABLES
    sending,    \* thread -> [msg, sent] or Quiet
    made,       \* thread -> messages begun
    stream,     \* packets under way
    reasm,      \* yc_reasm_t
    got,        \* what the last packet completed, or NoMessage
    \* history
    mixed       \* messages that another large one cut into, or that were broken off

chunkVars == <<sending, made, stream, reasm, got, mixed>>

Quiet == [msg |-> <<>>, sent |-> 0]
NoMessage == [msg |-> <<>>, total |-> 0, parts |-> <<>>]

\* a message is <<thread, number, length>>
LengthOf(m) == m[3]
Small(m) == LengthOf(m) + 1 <= MaxPayload

----------------------------------------------------------------------------
(* chunked_send                                                            *)

Least(a, b) == IF a < b THEN a ELSE b

\* the bytes of a message with their place in it
Part(m, from, n) == <<m, from, n>>

OthersSending(t) == {sending[u].msg : u \in {u \in ChunkThreads \ {t} : sending[u] # Quiet}}

SendSmall(t, n) ==
    /\ Len(stream) < StreamBound /\ sending[t] = Quiet /\ made[t] < MessageBound
    /\ LET m == <<t, made[t], n>>
       IN  Small(m) /\ stream' = Append(stream, [kind |-> "single", part |-> Part(m, 0, n)])
    /\ made' = [made EXCEPT ![t] = @ + 1]
    /\ UNCHANGED <<sending, reasm, got, mixed>>

\* 0xFE, the type, the length and as much as fits
SendStart(t, n) ==
    /\ Len(stream) < StreamBound /\ sending[t] = Quiet /\ made[t] < MessageBound
    /\ LET m == <<t, made[t], n>>
           first == MaxPayload - 6
       IN  /\ ~Small(m)
           /\ stream' = Append(stream, [kind |-> "start", part |-> Part(m, 0, first)])
           /\ sending' = [sending EXCEPT ![t] = [msg |-> m, sent |-> first]]
           /\ mixed' = mixed \cup OthersSending(t)
    /\ made' = [made EXCEPT ![t] = @ + 1]
    /\ UNCHANGED <<reasm, got>>

SendCont(t) ==
    /\ Len(stream) < StreamBound /\ sending[t] # Quiet
    /\ LET m == sending[t].msg
           n == Least(MaxPayload - 1, LengthOf(m) - sending[t].sent)
           sent == sending[t].sent + n
       IN  /\ stream' = Append(stream, [kind |-> "cont", part |-> Part(m, sending[t].sent, n)])
           /\ sending' = [sending EXCEPT ![t] = IF sent = LengthOf(m) THEN Quiet ELSE [@ EXCEPT !.sent = sent]]
           /\ mixed' = mixed \cup OthersSending(t)
    /\ UNCHANGED <<made, reasm, got>>

\* the send is refused: the rest is not tried
SendFails(t) ==
    /\ sending[t] # Quiet
    /\ mixed' = mixed \cup {sending[t].msg}
    /\ sending' = [sending EXCEPT ![t] = Quiet]
    /\ UNCHANGED <<made, stream, reasm, got>>

----------------------------------------------------------------------------
(* reasm_feed                                                              *)

reasm_reset == [on |-> FALSE, total |-> 0, received |-> 0, parts |-> <<>>]

\* A mutant: a message under way is kept when a new one starts
StartedOnTop(r, p) ==
    IF r.on THEN r
    ELSE [on |-> TRUE, total |-> LengthOf(p[1]), received |-> p[3], parts |-> <<p>>]
\* what was not finished is given up
Started(r, p) ==
    IF LengthOf(p[1]) > MaxTotal THEN reasm_reset
    ELSE [on |-> TRUE, total |-> LengthOf(p[1]), received |-> p[3], parts |-> <<p>>]

\* a chunk is cut to the room that is left
Fitting(r, n) == Least(n, r.total - r.received)

Continued(r, p) ==
    IF ~r.on THEN r
    ELSE LET n == Fitting(r, p[3])
         IN  [r EXCEPT !.received = @ + n, !.parts = Append(@, Part(p[1], p[2], n))]

Fed(r, pkt) ==
    CASE pkt.kind = "start" -> Started(r, pkt.part)
      [] pkt.kind = "cont" -> Continued(r, pkt.part)
      [] pkt.kind = "single" -> r

reasm_feed ==
    /\ stream # <<>>
    /\ LET pkt == Head(stream)
           r == Fed(reasm, pkt)
       IN  IF pkt.kind = "single"
           THEN /\ got' = [msg |-> pkt.part[1], total |-> pkt.part[3], parts |-> <<pkt.part>>]
                /\ UNCHANGED reasm
           ELSE IF r.on /\ r.received >= r.total
           THEN /\ got' = [msg |-> r.parts[1][1], total |-> r.total, parts |-> r.parts]
                /\ reasm' = reasm_reset
           ELSE reasm' = r /\ got' = NoMessage
    /\ stream' = Tail(stream)
    /\ UNCHANGED <<sending, made, mixed>>

ChunkInit ==
    /\ sending = [t \in ChunkThreads |-> Quiet] /\ made = [t \in ChunkThreads |-> 0]
    /\ stream = <<>> /\ reasm = reasm_reset /\ got = NoMessage /\ mixed = {}

ChunkNext ==
    \/ \E t \in ChunkThreads :
         \/ \E n \in Lengths : SendSmall(t, n) \/ SendStart(t, n)
         \/ SendCont(t) \/ SendFails(t)
    \/ reasm_feed

----------------------------------------------------------------------------
(* Properties.                                                             *)

\* the parts are those of one message, in order and complete
Intact(g) ==
    /\ \A k \in 1 .. Len(g.parts) : g.parts[k][1] = g.msg
    /\ \A k \in 1 .. Len(g.parts) :
         g.parts[k][2] = IF k = 1 THEN 0 ELSE g.parts[k - 1][2] + g.parts[k - 1][3]
    /\ LET last == g.parts[Len(g.parts)] IN last[2] + last[3] = LengthOf(g.msg)

\* A message that no other large message cut into, and that was sent to its end,
\* is handed on whole when its last packet is fed, whatever half of another
\* message the buffer held before and whatever small messages came between.
UncutArrives ==
    [][Len(stream') < Len(stream) =>
         LET p == Head(stream).part
         IN  p[2] + p[3] = LengthOf(p[1]) /\ p[1] \notin mixed /\ LengthOf(p[1]) <= MaxTotal
             => got'.msg = p[1] /\ Intact(got')]_chunkVars

\* What is handed on has the length its first chunk declared: a stray chunk of
\* another message is cut to the buffer.
LengthIsDeclared ==
    got # NoMessage =>
        LET bytes[k \in 0 .. Len(got.parts)] == IF k = 0 THEN 0 ELSE bytes[k - 1] + got.parts[k][3]
        IN  bytes[Len(got.parts)] = got.total

\* Large messages arrive as they were sent, with the length they declared, unless another
\* thread's chunks cut into them (yumi_client.c:372).
MessagesWhole == []LengthIsDeclared /\ UncutArrives
=============================================================================
