CONSTANTS
    Addresses = {x, y}
    Mutators = {t, u}
    BLOCK_MAX_FAILS = 2
    BLOCK_DURATION = 2
    MaxTime = 3
    MaxLog = 2
    BootPeers <- TwoPeers
    Size <- ChunkCount
    MaxVersion = 2
    FETCH_RETRIES = 2
    Attesters = {i, a, b}
    Inviter = i
    MIN_QUORUM = 2
    MAX_QUORUM = 2
    SMALL_GROUP = 3
    MAX_TRACKED = 2
    MaxFaults = 1
    AuditMax = 4
    Branches = 2
    Batch = 2
    ForkCaps = {1, 2, 3}
    HashBound = 5
    TickBound = 2
SPECIFICATION Spec
PROPERTIES BlocksHold FetchSound VerdictSound ForksKept
CHECK_DEADLOCK FALSE
