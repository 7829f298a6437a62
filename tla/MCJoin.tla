------------------------------- MODULE MCJoin -------------------------------
(***************************************************************************)
(* The parts of joining a group for TLC.  They share no state while they   *)
(* run (the server that answers, the joiner that fetches, the joiner that  *)
(* is verified, the member into whose audit log others' are merged), so a  *)
(* behaviour is one of the server, of a fetch, of a verification or of a   *)
(* log: focus says which, and the others stay where they start.            *)
(***************************************************************************)
EXTENDS BootServer, BootFetch, JoinVerify, AuditForks

VARIABLE focus

vars == <<bootVars, fetchVars, joinVars, forkVars, focus>>

TwoPeers == <<"s1", "s2">>
ChunkCount(v) == 3 - v      \* two chunks, then one

Init ==
    /\ focus \in {"serve", "fetch", "verify", "log"}
    /\ BootInit /\ FetchInit /\ JoinInit /\ ForkInit
    /\ focus # "verify" => ~asker /\ \A m \in Attesters : view[m] = "same"

Serve == focus = "serve" /\ BootNext /\ UNCHANGED <<fetchVars, joinVars, forkVars, focus>>
Fetch == focus = "fetch" /\ FetchNext /\ UNCHANGED <<bootVars, joinVars, forkVars, focus>>
Verify == focus = "verify" /\ JoinNext /\ UNCHANGED <<bootVars, fetchVars, forkVars, focus>>
Log == focus = "log" /\ ForkNext /\ UNCHANGED <<bootVars, fetchVars, joinVars, focus>>

Next == Serve \/ Fetch \/ Verify \/ Log

Spec == Init /\ [][Next]_vars /\ FetchFairness
=============================================================================
