----------------------------- MODULE WorkQueue ------------------------------
(***************************************************************************)
(* What the ring of network/yumi_udp.c promises its users: a bounded queue *)
(* in which a place is taken and filled in two steps, places are served in *)
(* the order they were taken, a place is served only once it is filled,    *)
(* and at most Cap places are taken and not yet served.  A request may be  *)
(* turned away at any time; it then leaves no trace.                       *)
(***************************************************************************)
EXTENDS Naturals, Sequences

CONSTANTS Items, Cap

VARIABLES
    order,      \* the items in the order their places were taken
    committed,  \* the places (positions in order) that are filled
    out         \* the items served

Init == order = <<>> /\ committed = {} /\ out = <<>>

Take(i) ==
    /\ Len(order) - Len(out) < Cap
    /\ order' = Append(order, i)
    /\ UNCHANGED <<committed, out>>

Fill(k) ==
    /\ k \in 1 .. Len(order) /\ k \notin committed
    /\ committed' = committed \cup {k}
    /\ UNCHANGED <<order, out>>

Serve ==
    /\ Len(out) + 1 \in committed
    /\ out' = Append(out, order[Len(out) + 1])
    /\ UNCHANGED <<order, committed>>

Next ==
    \/ \E i \in Items : Take(i)
    \/ \E k \in 1 .. Len(order) : Fill(k)
    \/ Serve

Spec == Init /\ [][Next]_<<order, committed, out>>
=============================================================================
