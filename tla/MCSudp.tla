------------------------------- MODULE MCSudp -------------------------------
(***************************************************************************)
(* The secure client for TLC, one part at a time: the handshake of two     *)
(* clients, the keys of an established connection while epochs rotate, or  *)
(* the pipe by which the ICE agent below hands datagrams to the worker.    *)
(* The parts that are not watched rest: clients that nobody connects, a    *)
(* connection that failed as soon as it had its keys, a pipe not opened.   *)
(***************************************************************************)
EXTENDS SudpHandshake, SudpRekey, IceTransport

VARIABLE part

MCLengths == <<2, 0, 1, 4, 2>>      \* the fourth is too long

Failed ==
    [NewClient EXCEPT !.ready = TRUE, !.failed = TRUE, !.epoch = 1, !.seed = <<1>>,
                      !.send = Key(<<1>>, 0), !.recv = Key(<<1>>, 0)]

SudpInit ==
    /\ Init /\ IceInit
    /\ \/ part \in {"handshake", "ice"} /\ RekeyStart(Failed)
       \/ part = "rekey" /\ RekeyInit

Ice(A) == part = "ice" /\ A /\ UNCHANGED <<vars, rekeyVars>>

SudpNext ==
    /\ UNCHANGED part
    /\ \/ part = "handshake" /\ Next /\ UNCHANGED <<rekeyVars, iceVars>>
       \/ part = "rekey" /\ RekeyNext /\ UNCHANGED <<vars, iceVars>>
       \/ Ice(IceNext)

SudpSpec ==
    /\ SudpInit /\ [][SudpNext]_<<part, vars, rekeyVars, iceVars>>
    /\ Fairness /\ RekeyFairness /\ IceFairness
=============================================================================
