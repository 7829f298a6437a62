CONSTANTS
    WordBits = 2
    Words = 4
    MaxSeq = 9
    RateUnit = 12
    InitialCwnd = 2
    MinCwnd = 1
    FilterLen = 2
    FilterRounds = 2
    FullBwCount = 1
    RtpropFilter = 2
    RttDuration = 1
    Settle = 2
    LossWindow = 1
    LossPercent = 5
    Reprobe = 3
    Timeout = 1
    Lifetime = 2
    Flying = 2
    MaxTime = 7
    HeapThreads = {1, 2}
    NodeCount = 3
    CacheSize = 2
    RefillBatch = 2
    SlotCount = 2
    SlotOf <- McSlotOf
    LockFailures = 1
    TableChannels = {0, 1}
    TableSlots = 2
    TableMost = 4
    RetxTimeout = 1
    MaxRetransmits = 1
    DeferMax = 1
    MaxProbes = 1
    SeqBound = 2
    ProbeBound = 1
    ClockBound = 2
SPECIFICATION KernelSpec
INVARIANTS WindowExact NodesKept
PROPERTIES ProbeSound TimersSound
CHECK_DEADLOCK FALSE
