---------------------------- MODULE IceTransport ----------------------------
(***************************************************************************)
(* The way of a datagram from the ICE agent to the receive worker          *)
(* (network/yumi_udp_client.c).  The agent's thread writes a length and    *)
(* the datagram into a non-blocking pipe; the worker reads the pipe as a   *)
(* stream of bytes and keeps what it has of an unfinished datagram between *)
(* two looks.  Around them, the client is created step by step, any of     *)
(* which may fail, and destroyed while the agent still delivers.           *)
(*                                                                         *)
(* A byte is named by its datagram and its place there; a length is read   *)
(* only from bytes that are the length of one datagram.                    *)
(***************************************************************************)
EXTENDS Integers, Sequences

CONSTANTS
    Lengths,     \* the lengths of the datagrams that arrive, in order
    HdrLen,      \* 4: the bytes of the length
    MaxDgram,    \* YUMI_UDP_MAX_DGRAM
    PipeCap      \* bytes that the pipe holds

VARIABLES
    stage,     \* how far creation or destruction has come
    agent,     \* ice_agent exists
    pipe,      \* the bytes between ice_recv_fd and ice_pipe_rd
    cb,        \* the datagram that ice_on_recv is about to write, or 0
    came,      \* datagrams that have arrived
    hdr, msg,  \* ice_pipe_hdr and the worker's buffer, as far as they are read
    wpc,       \* the worker: "poll", "read"
    written,   \* history: datagrams written to the pipe
    handed     \* history: what the worker took for a datagram

iceVars == <<stage, agent, pipe, cb, came, hdr, msg, wpc, written, handed>>

LengthBytes(m) == [i \in 1 .. HdrLen |-> <<m, "length", i>>]
Payload(m) == [i \in 1 .. Lengths[m] |-> <<m, "data", i>>]

IceInit ==
    /\ stage = "none" /\ agent = FALSE /\ pipe = <<>> /\ cb = 0 /\ came = 0
    /\ hdr = <<>> /\ msg = <<>> /\ wpc = "poll" /\ written = <<>> /\ handed = <<>>

----------------------------------------------------------------------------
(* yumi_udp_client_create and yumi_udp_client_destroy                      *)

Stage(from, to) == stage = from /\ stage' = to

OpenPipe ==
    Stage("none", "pipe") /\ UNCHANGED <<agent, pipe, cb, came, hdr, msg, wpc, written, handed>>

\* From here on the agent gathers, connects and delivers.
CreateAgent ==
    /\ Stage("pipe", "agent") /\ agent' = TRUE
    /\ UNCHANGED <<pipe, cb, came, hdr, msg, wpc, written, handed>>

\* epoll_ctl on the read end
WatchPipe ==
    Stage("agent", "watched") /\ UNCHANGED <<agent, pipe, cb, came, hdr, msg, wpc, written, handed>>

StartWorkers ==
    Stage("watched", "running") /\ UNCHANGED <<agent, pipe, cb, came, hdr, msg, wpc, written, handed>>

\* goto fail: a descriptor, memory or the agent is not to be had
CreateFails ==
    /\ stage \in {"none", "pipe", "agent", "watched"} /\ stage' = "joined"
    /\ UNCHANGED <<agent, pipe, cb, came, hdr, msg, wpc, written, handed>>

\* running = false: by destroy, or because a later worker could not be started
StopWorkers ==
    Stage("running", "stopping") /\ UNCHANGED <<agent, pipe, cb, came, hdr, msg, wpc, written, handed>>

\* the worker looks at running only between two rounds
JoinWorkers ==
    /\ Stage("stopping", "joined") /\ wpc = "poll"
    /\ UNCHANGED <<agent, pipe, cb, came, hdr, msg, wpc, written, handed>>

\* juice_destroy ends the agent's thread; a callback that runs is waited for
DestroyAgent ==
    /\ Stage("joined", "quiet") /\ cb = 0 /\ agent' = FALSE
    /\ UNCHANGED <<pipe, cb, came, hdr, msg, wpc, written, handed>>

CloseFds ==
    /\ Stage("quiet", "closed") /\ pipe' = <<>>
    /\ UNCHANGED <<agent, cb, came, hdr, msg, wpc, written, handed>>

----------------------------------------------------------------------------
(* ice_on_recv, on the agent's thread                                      *)

RecvOpen == stage \notin {"none", "closed"}

IceOnRecv ==
    /\ agent /\ cb = 0 /\ came < Len(Lengths) /\ came' = came + 1
    /\ cb' = IF Lengths[came + 1] <= MaxDgram /\ RecvOpen THEN came + 1 ELSE 0
    /\ UNCHANGED <<stage, agent, pipe, hdr, msg, wpc, written, handed>>

\* A mutant: what there is room for is written
AcceptedPart(bytes) ==
    SubSeq(bytes, 1, IF Len(bytes) < PipeCap - Len(pipe) THEN Len(bytes) ELSE PipeCap - Len(pipe))
\* writev of at most PIPE_BUF bytes: all of them, or EAGAIN
Accepted(bytes) == IF Len(pipe) + Len(bytes) <= PipeCap THEN bytes ELSE <<>>

IceWrite ==
    /\ cb # 0 /\ cb' = 0
    /\ LET bytes == Accepted(LengthBytes(cb) \o Payload(cb))
       IN  /\ pipe' = pipe \o bytes
           /\ written' = IF bytes = <<>> THEN written ELSE Append(written, cb)
    /\ UNCHANGED <<stage, agent, came, hdr, msg, wpc, handed>>

----------------------------------------------------------------------------
(* worker_recv_ice, on receive worker 0                                    *)

\* epoll, level-triggered
Readable == pipe # <<>>

Wake ==
    /\ wpc = "poll" /\ stage = "running" /\ Readable /\ wpc' = "read"
    /\ UNCHANGED <<stage, agent, pipe, cb, came, hdr, msg, written, handed>>

\* the lengths that hdr may stand for
Decoded(h) == IF \E m \in DOMAIN Lengths : h = LengthBytes(m)
              THEN {Lengths[h[1][1]]} ELSE 0 .. MaxDgram + 1

\* read: between one byte and all that is there and wanted
ReadSizes(want) == 1 .. (IF want < Len(pipe) THEN want ELSE Len(pipe))

Rest(n) == SubSeq(pipe, n + 1, Len(pipe))

ReadHeader ==
    /\ wpc = "read" /\ Len(hdr) < HdrLen
    /\ \E n \in ReadSizes(HdrLen - Len(hdr)) : hdr' = hdr \o SubSeq(pipe, 1, n) /\ pipe' = Rest(n)
    /\ UNCHANGED <<stage, agent, cb, came, msg, wpc, written, handed>>

\* no such length: the pipe is emptied
Corrupt(len) ==
    /\ len > MaxDgram /\ pipe' = <<>> /\ hdr' = <<>> /\ msg' = <<>> /\ wpc' = "poll"
    /\ UNCHANGED handed

ReadPayload(len) ==
    /\ len <= MaxDgram /\ Len(msg) < len
    /\ \E n \in ReadSizes(len - Len(msg)) : msg' = msg \o SubSeq(pipe, 1, n) /\ pipe' = Rest(n)
    /\ UNCHANGED <<hdr, wpc, handed>>

\* what follows is the channel's (UdpChannel, Receive)
Complete(len) ==
    /\ len <= MaxDgram /\ Len(msg) >= len
    /\ handed' = Append(handed, msg) /\ hdr' = <<>> /\ msg' = <<>>
    /\ UNCHANGED <<pipe, wpc>>

ReadMessage ==
    /\ wpc = "read" /\ Len(hdr) = HdrLen
    /\ \E len \in Decoded(hdr) : Corrupt(len) \/ ReadPayload(len) \/ Complete(len)
    /\ UNCHANGED <<stage, agent, cb, came, written>>

\* read finds nothing: the rest comes another time
Leave ==
    /\ wpc = "read" /\ pipe = <<>> /\ wpc' = "poll"
    /\ \/ Len(hdr) < HdrLen
       \/ \E len \in Decoded(hdr) : len <= MaxDgram /\ Len(msg) < len
    /\ UNCHANGED <<stage, agent, pipe, cb, came, hdr, msg, written, handed>>

RecvWorker0 == Wake \/ ReadHeader \/ ReadMessage \/ Leave

IceNext ==
    \/ OpenPipe \/ CreateAgent \/ WatchPipe \/ StartWorkers \/ CreateFails
    \/ StopWorkers \/ JoinWorkers \/ DestroyAgent \/ CloseFds
    \/ IceOnRecv \/ IceWrite
    \/ RecvWorker0

\* the receive worker runs
IceFairness == WF_iceVars(RecvWorker0)

----------------------------------------------------------------------------
(* Properties.                                                             *)

\* The pipe stays in frame: what the worker takes for datagrams are the
\* datagrams written, whole, once and in order, although reads come short and
\* writes find the pipe full.
StaysInFrame ==
    Len(handed) <= Len(written) /\ \A i \in DOMAIN handed : handed[i] = Payload(written[i])

\* No callback writes to a pipe that is closed, in either way down.
NoLateWrite == cb # 0 => RecvOpen

\* While the client runs, what was written reaches the worker, also what was
\* written before the pipe was watched and what ends on a boundary of a read.
WrittenIsHanded ==
    (stage = "running" /\ Len(handed) < Len(written))
        ~> (stage # "running" \/ Len(handed) = Len(written))

\* The pipe of the ICE agent delivers: in frame, never after it is closed, and everything
\* that was written while the client runs.
PipeDelivers == [](StaysInFrame /\ NoLateWrite) /\ WrittenIsHanded
=============================================================================
