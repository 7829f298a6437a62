------------------------------ MODULE BootFetch ------------------------------
(***************************************************************************)
(* The joiner's side of the bootstrap: boot_fetch_registrar asks the       *)
(* bootstrap peers of the invite, one after the other, for the serialised  *)
(* registrar, which boot_send_registrar sends as numbered chunks and a     *)
(* DONE over raw UDP; yumi_client_join then adopts what was assembled.     *)
(*                                                                         *)
(* Datagrams are lost, duplicated, delayed and reordered.  A server        *)
(* serialises anew for every request, so a blob is a pair of server and    *)
(* version; the receiver looks at neither the sender nor the version.  A   *)
(* server that has no such invite, or has blocked the address, is silent.  *)
(***************************************************************************)
EXTENDS Integers, Sequences, FiniteSets

CONSTANTS
    BootPeers,      \* sequence of the ticket's bootstrap peers
    Size(_),        \* version -> number of chunks of its serialisation
    MaxVersion,     \* bound: changes of a server's registrar
    FETCH_RETRIES   \* resends after a silent poll (5)

ASSUME FetchAssumption == MaxVersion \in Nat /\ FETCH_RETRIES \in Nat

Servers == {BootPeers[i] : i \in 1 .. Len(BootPeers)}
MaxChunks == CHOOSE n \in {Size(v) : v \in 1 .. MaxVersion} :
                 \A v \in 1 .. MaxVersion : Size(v) <= n
Blobs == Servers \X (1 .. MaxVersion)
NoChunk == <<"none", 0>>

VARIABLES
    wire,       \* datagrams in flight
    version,    \* server -> the version it would serialise
    changed,    \* history: did a server's registrar change during the fetch
    fetch       \* the joiner: [pc, p, total, chunks, retries]

fetchVars == <<wire, version, changed, fetch>>

NoChunks == [i \in 1 .. MaxChunks |-> NoChunk]

FetchInit ==
    /\ wire = {}
    /\ version = [s \in Servers |-> 1]
    /\ changed = FALSE
    /\ fetch = [pc |-> "idle", p |-> 0, total |-> 0, chunks |-> NoChunks, retries |-> 0]

Request(s) == [type |-> "REQ", to |-> s]
Chunks(s) == {[type |-> "DATA", blob |-> <<s, version[s]>>, seq |-> i, total |-> Size(version[s])]
                  : i \in 1 .. Size(version[s])}
DoneMarker == [type |-> "DONE"]

\* boot_send_registrar, when boot_worker accepts the request.
boot_send_registrar(s) ==
    /\ Request(s) \in wire
    /\ wire' = (wire \ {Request(s)}) \cup Chunks(s) \cup {DoneMarker}
    /\ UNCHANGED <<version, changed, fetch>>

\* A datagram is lost, or a request is refused without an answer.
LoseDatagram ==
    /\ \E d \in wire : wire' = wire \ {d}
    /\ UNCHANGED <<version, changed, fetch>>

ServerChanges(s) ==
    /\ fetch.pc # "idle" /\ version[s] < MaxVersion
    /\ version' = [version EXCEPT ![s] = @ + 1]
    /\ changed' = TRUE
    /\ UNCHANGED <<wire, fetch>>

----------------------------------------------------------------------------
(* boot_fetch_registrar.                                                   *)

\* yumi_client_join with an invite that parses and a fresh identity.
StartJoin ==
    /\ fetch.pc = "idle"
    /\ fetch' = [fetch EXCEPT !.pc = "next"]
    /\ UNCHANGED <<wire, version, changed>>

\* Next bootstrap peer, with nothing kept of the last one, or give up.
TryPeer ==
    /\ fetch.pc = "next"
    /\ IF fetch.p = Len(BootPeers)
       THEN fetch' = [fetch EXCEPT !.pc = "failed"] /\ UNCHANGED wire
       ELSE /\ fetch' = [pc |-> "recv", p |-> fetch.p + 1, total |-> 0,
                         chunks |-> NoChunks, retries |-> 0]
            /\ wire' = wire \cup {Request(BootPeers[fetch.p + 1])}
    /\ UNCHANGED <<version, changed>>

\* The first chunk fixes the number of chunks; a chunk is kept when its
\* number is in range and not there yet.  The copy may stay in flight.
Keep(d) ==
    LET total == IF fetch.total = 0 THEN d.total ELSE fetch.total
    IN  [fetch EXCEPT !.total = total,
             !.chunks = IF d.seq <= total /\ @[d.seq] = NoChunk
                        THEN [@ EXCEPT ![d.seq] = d.blob] ELSE @]

\* A mutant: something is there.
CompleteTail(f) == \E i \in 1 .. f.total : f.chunks[i] # NoChunk

Complete(f) == \A i \in 1 .. f.total : f.chunks[i] # NoChunk

RecvData ==
    /\ fetch.pc \in {"recv", "nack"}
    /\ \E d \in wire :
          /\ d.type = "DATA"
          /\ wire' \in {wire, wire \ {d}}
          /\ LET f == Keep(d)
             IN  fetch' = IF f.pc = "nack" /\ Complete(f) THEN [f EXCEPT !.pc = "have"] ELSE f
    /\ UNCHANGED <<version, changed>>

\* DONE ends the loop: next peer when nothing came, assemble when all is
\* there, else NACK (which no server answers) and wait a little longer.
RecvDone ==
    /\ fetch.pc \in {"recv", "nack"} /\ DoneMarker \in wire
    /\ wire' \in {wire, wire \ {DoneMarker}}
    /\ fetch' = IF fetch.pc = "nack" THEN fetch
                ELSE [fetch EXCEPT !.pc = IF fetch.total = 0 THEN "next"
                                          ELSE IF Complete(fetch) THEN "have" ELSE "nack"]
    /\ UNCHANGED <<version, changed>>

\* Two seconds of silence: ask again, at most FETCH_RETRIES times.
PollSilent ==
    /\ fetch.pc = "recv"
    /\ IF fetch.retries = FETCH_RETRIES
       THEN fetch' = [fetch EXCEPT !.pc = "next"] /\ UNCHANGED wire
       ELSE /\ fetch' = [fetch EXCEPT !.retries = @ + 1]
            /\ wire' = wire \cup {Request(BootPeers[fetch.p])}
    /\ UNCHANGED <<version, changed>>

\* The deadline of the receive loop, or of the wait after the NACK.
Deadline ==
    /\ fetch.pc \in {"recv", "nack"}
    /\ fetch' = [fetch EXCEPT !.pc = "next"]
    /\ UNCHANGED <<wire, version, changed>>

\* yumi_client_join: a registrar is created with the joiner's own identity as
\* its owner, and gr_deserialize refuses a blob whose owner is another one.
\* The socket is closed; what is in flight is gone.
Adopt ==
    /\ fetch.pc = "have"
    /\ LET localOwner == "joiner"
           blobOwner == "owner"
       IN  fetch' = [fetch EXCEPT !.pc = IF localOwner = blobOwner THEN "open" ELSE "refused"]
    /\ wire' = {}
    /\ UNCHANGED <<version, changed>>

FetchNext ==
    \/ \E s \in Servers : boot_send_registrar(s) \/ ServerChanges(s)
    \/ LoseDatagram
    \/ StartJoin \/ TryPeer \/ RecvData \/ RecvDone \/ PollSilent \/ Deadline \/ Adopt

\* The joiner's thread runs, and time passes its deadlines.
FetchFairness == WF_fetchVars(TryPeer \/ Deadline \/ Adopt)

----------------------------------------------------------------------------
(* Properties.                                                             *)

Assembled == SubSeq(fetch.chunks, 1, fetch.total)
Whole(b) == [i \in 1 .. Size(b[2]) |-> b]

\* Types; chunks are kept only below the number of chunks.
FetchTypeOK ==
    /\ fetch.pc \in {"idle", "next", "recv", "nack", "have", "refused", "open", "failed"}
    /\ fetch.p \in 0 .. Len(BootPeers) /\ fetch.retries \in 0 .. FETCH_RETRIES
    /\ \A i \in 1 .. MaxChunks : fetch.chunks[i] \in Blobs \cup {NoChunk}
    /\ \A i \in 1 .. MaxChunks : i > fetch.total => fetch.chunks[i] = NoChunk

\* What is assembled from chunks that were lost, repeated and reordered is
\* one serialisation of the first server asked, complete and nothing else,
\* unless a registrar changed during the fetch or an earlier server was given
\* up (its late chunks are taken for the new server's: recvfrom drops the
\* source address).
AssembledIsOneBlob ==
    fetch.pc = "have" /\ ~changed /\ fetch.p = 1
        => Assembled = Whole(<<BootPeers[1], version[BootPeers[1]]>>)

\* Whatever is mixed, nothing incomplete is handed on.
NoHoles ==
    fetch.pc = "have" => fetch.total > 0 /\ \A i \in 1 .. fetch.total : fetch.chunks[i] # NoChunk

\* The fetch ends: joining returns, with a registrar or without.
FetchEnds == fetch.pc = "next" ~> (fetch.pc \in {"refused", "open", "failed"})

\* Fetching a registrar ends, and hands on one complete serialisation or none; what can be
\* mixed into it is named.
FetchSound == [](FetchTypeOK /\ AssembledIsOneBlob /\ NoHoles) /\ FetchEnds
=============================================================================
