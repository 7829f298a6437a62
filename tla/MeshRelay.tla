------------------------------ MODULE MeshRelay ------------------------------
(***************************************************************************)
(* The meshnet relay of the client (yumi_client.c, section 8.5): a message *)
(* for a peer without a connection is flooded over the connections there   *)
(* are.  A copy lives for a number of hops, each node takes a limited rate *)
(* of bytes from each neighbour, and nothing recognises a copy seen before.*)
(***************************************************************************)
EXTENDS Integers, Sequences, FiniteSets

CONSTANTS
    MeshPeers,
    Topologies,     \* connections: sets of pairs {a, b}
    MeshRate,       \* YUMI_MESH_RATE_BYTES_SEC
    MeshLen,        \* bytes of a packet
    Second,         \* ticks of a second
    AbuseFactor,    \* 5
    MeshBound       \* bound: messages sent

MinTtl == 2         \* YUMI_MESH_MIN_TTL

VARIABLES
    edges,      \* the connections
    route,      \* [src, dst, ttl] of the message under way
    copies,     \* <<from, to>> -> packets under way, in order
    bucket,     \* <<node, neighbour>> -> [tokens, since, fwd]: the slot's limiter
    \* history
    arrived,    \* the destination's application has the message
    sends,      \* messages sent
    refused,    \* a bucket refused a copy of it
    spent       \* <<node, neighbour>> -> bytes taken in each of the last Second ticks

meshVars == <<edges, route, copies, bucket, arrived, sends, refused, spent>>

Neighbours(n) == {m \in MeshPeers : {n, m} \in edges}
Arcs == {a \in MeshPeers \X MeshPeers : {a[1], a[2]} \in edges}
NoRoute == [src |-> 0, dst |-> 0, ttl |-> 0]
NoCopies == \A a \in Arcs : copies[a] = <<>>

\* the least number of bits that holds the count of connections, at least two;
\* of the node's own connections, not of the group's members
mesh_compute_ttl(n) ==
    LET count == Cardinality(Neighbours(n))
        bits == CHOOSE b \in 0 .. count : 2 ^ b >= count /\ \A k \in 0 .. b - 1 : 2 ^ k < count
    IN  IF count <= 2 \/ bits < MinTtl THEN MinTtl ELSE bits

----------------------------------------------------------------------------
(* The limiter.  since is the time from the last refill, of which no more  *)
(* than a second matters; a fresh slot has none.                           *)

Fresh == -1
NewSlot == [tokens |-> MeshRate, since |-> Fresh, fwd |-> 0]

Capped(tokens) == IF tokens > MeshRate THEN MeshRate ELSE tokens

Refilled(b) ==
    IF b.since <= 0 THEN [b EXCEPT !.since = 0]
    ELSE [b EXCEPT !.tokens = Capped(@ + (MeshRate * b.since) \div Second), !.since = 0]

mesh_bucket_allow(b) == Refilled(b).tokens >= MeshLen

\* the bytes taken are counted up to an alert, however long that lasts
Charged(b) ==
    LET r == Refilled(b)
    IN  [r EXCEPT !.tokens = @ - MeshLen,
                  !.fwd = IF @ + MeshLen > MeshRate * AbuseFactor THEN 0 ELSE @ + MeshLen]

----------------------------------------------------------------------------
(* Relay.                                                                  *)

SendOn(cs, arcs, pkt) == [a \in DOMAIN cs |-> IF a \in arcs THEN Append(cs[a], pkt) ELSE cs[a]]

\* yumi_client_send for a peer without a connection.  The next message is sent
\* when the last one has died out.
mesh_relay_send(src, dst) ==
    /\ NoCopies /\ sends < MeshBound /\ src # dst /\ dst \notin Neighbours(src)
    /\ route' = [src |-> src, dst |-> dst, ttl |-> mesh_compute_ttl(src)]
    /\ copies' = SendOn(copies, {src} \X Neighbours(src), [ttl |-> mesh_compute_ttl(src), hops |-> 1])
    /\ arrived' = FALSE /\ refused' = FALSE /\ sends' = sends + 1
    /\ UNCHANGED <<edges, bucket, spent>>

OneLess(ttl) == ttl - 1

\* straight to the destination if it is a neighbour, with the time to live as it
\* came; to every neighbour but the sender otherwise
mesh_forward_to_peers(cs, n, from, pkt) ==
    IF route.dst \in Neighbours(n) \ {from}
    THEN SendOn(cs, {<<n, route.dst>>}, [pkt EXCEPT !.hops = @ + 1])
    ELSE SendOn(cs, {n} \X (Neighbours(n) \ {from}), [ttl |-> OneLess(pkt.ttl), hops |-> pkt.hops + 1])

\* A mutant: the last hop is not taken
MayForwardEarly(ttl) == ttl > 1
MayForward(ttl) == ttl > 0

\* mesh_handle; the sender of a message forwards it too when it comes back
mesh_handle(from, n) ==
    LET pkt == Head(copies[<<from, n>>])
        rest == [copies EXCEPT ![<<from, n>>] = Tail(@)]
        slot == <<n, from>>
    IN  /\ IF ~mesh_bucket_allow(bucket[slot])
           THEN /\ bucket' = [bucket EXCEPT ![slot] = Refilled(@)]
                /\ refused' = TRUE /\ copies' = rest /\ UNCHANGED <<arrived, spent>>
           ELSE /\ bucket' = [bucket EXCEPT ![slot] = Charged(@)]
                /\ spent' = [spent EXCEPT ![slot][1] = @ + MeshLen]
                /\ arrived' = (arrived \/ n = route.dst)
                /\ copies' = IF n # route.dst /\ MayForward(pkt.ttl)
                             THEN mesh_forward_to_peers(rest, n, from, pkt) ELSE rest
                /\ UNCHANGED refused
        /\ UNCHANGED <<edges, route, sends>>

MeshTick ==
    /\ bucket' = [s \in Arcs |->
                    IF bucket[s].since \in 0 .. Second - 1
                    THEN [bucket[s] EXCEPT !.since = @ + 1] ELSE bucket[s]]
    /\ spent' = [s \in Arcs |-> <<0>> \o SubSeq(spent[s], 1, Second - 1)]
    /\ UNCHANGED <<edges, route, copies, arrived, sends, refused>>

MeshInit ==
    /\ edges \in Topologies
    /\ route = NoRoute /\ arrived = FALSE /\ sends = 0 /\ refused = FALSE
    /\ copies = [a \in Arcs |-> <<>>] /\ bucket = [a \in Arcs |-> NewSlot]
    /\ spent = [a \in Arcs |-> [k \in 1 .. Second |-> 0]]

\* only the first peer sends
MeshNext ==
    \/ \E dst \in MeshPeers : mesh_relay_send(1, dst)
    \/ \E a \in Arcs : copies[a] # <<>> /\ mesh_handle(a[1], a[2])
    \/ MeshTick

----------------------------------------------------------------------------
(* Properties.                                                             *)

\* peers within k connections of n
Ball(n, k) ==
    LET within[j \in 0 .. k] == IF j = 0 THEN {n} ELSE within[j - 1] \cup UNION {Neighbours(m) : m \in within[j - 1]}
    IN  within[k]

\* No copy travels further than its time to live and one hop: the flood ends,
\* although copies go round in circles and a direct hop does not count.
FloodEnds == \A a \in Arcs : \A k \in 1 .. Len(copies[a]) : copies[a][k].hops <= route.ttl + 1

\* A message for a peer that many hops away has arrived when the flood is over,
\* unless a bucket refused a copy.
RelayReaches ==
    route # NoRoute /\ NoCopies /\ ~refused /\ route.dst \in Ball(route.src, route.ttl + 1) => arrived

\* In no second does a node take more than twice the rate from a neighbour,
\* however long the neighbour was silent before.
RateIsKept ==
    \A s \in Arcs :
        LET total[k \in 0 .. Second] == IF k = 0 THEN 0 ELSE total[k - 1] + spent[s][k]
        IN  total[Second] <= 2 * MeshRate

\* A flood ends, reaches whom it can, and keeps to the rate each neighbour is allowed.
FloodSound == FloodEnds /\ RelayReaches /\ RateIsKept
=============================================================================
