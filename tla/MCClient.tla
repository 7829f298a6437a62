----------------------------- MODULE MCClient -----------------------------
(***************************************************************************)
(* The client above the transport, one part at a time: its peer slots with *)
(* every thread, the chunk stream and the mesh relay.  part names the one  *)
(* that runs; the others rest in an initial state.                         *)
(***************************************************************************)
EXTENDS PeerSlots, ChunkStream, MeshRelay

VARIABLE part

clientVars == <<part, vars, chunkVars, meshVars>>

\* connections: a line of five peers, and a ring of four
McLine == {{1, 2}, {2, 3}, {3, 4}, {4, 5}}
McSquare == {{1, 2}, {2, 3}, {3, 4}, {1, 4}}
McTopologies == {McLine, McSquare}

ClientInit ==
    /\ part \in {"slots", "chunks", "mesh"}
    /\ Init /\ ChunkInit /\ MeshInit
    /\ part # "mesh" => edges = McLine

ClientNext ==
    /\ UNCHANGED part
    /\ \/ part = "slots" /\ Next /\ UNCHANGED <<chunkVars, meshVars>>
       \/ part = "chunks" /\ ChunkNext /\ UNCHANGED <<vars, meshVars>>
       \/ part = "mesh" /\ MeshNext /\ UNCHANGED <<vars, chunkVars>>

ClientSpec == ClientInit /\ [][ClientNext]_clientVars
=============================================================================
