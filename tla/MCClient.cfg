CONSTANTS
    Members = {p, q}
    Slots = {1, 2}
    Stuns = 2
    MaxConns = 2
    ChunkThreads = {1, 2}
    MaxPayload = 10
    Lengths = {0, 12, 14, 30}
    MaxTotal = 20
    MessageBound = 2
    StreamBound = 2
    MeshPeers = {1, 2, 3, 4, 5}
    Topologies <- McTopologies
    MeshRate = 1
    MeshLen = 1
    Second = 2
    AbuseFactor = 1
    MeshBound = 4
SPECIFICATION ClientSpec
INVARIANTS PeerTableSound 
PROPERTIES MessagesWhole
CHECK_DEADLOCK FALSE
