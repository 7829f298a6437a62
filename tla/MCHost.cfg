SPECIFICATION Spec
CONSTANTS
    Apps <- MCApps
    Imports <- MCImports
    SlotGroups = {g1, g2}
    MaxRuns = 3
    MaxSlots = 3
    DialogPool = 1
    MaxGroups = 2
    GroupCap = 1
    MaxClients = 2
    CtxPool = 2
    People = {p1, p2, p3}
    MaxClock = 2
    WordBits = 16
    MemSize = 10000
    Caps = {0, 1, 2, 235}
    Outs = {0, 800, 9850}
    MaxRows = 2
    MaxMerges = 2
    Actors = {1, 2, 3}
    Subjects = {1, 2}
    ChangeKinds = {"join", "kick", "epoch"}
    MergedKinds = {"kick"}
    AskedWindows = {1, 2}
    AlertWindow = 1
    Minute = 1
    Hour = 2
    BurstPerMin = 1
    SwarmPerMin = 2
    AbusePercent = 60
    AbuseMin = 2
    EpochPerHour = 1
    ChurnAttention = 1
    ScaleFrom = 1
    MaxActors = 2
    AuditRows = 3
    MergeBound = 1
    ChangeBound = 3
    DayBound = 2
SYMMETRY Sym
INVARIANTS GroupsSound ProxySound BehaviorSound
PROPERTIES SlotsSound FriendsSound
CHECK_DEADLOCK FALSE
