CONSTANTS
    Producers = {p1, p2}
    Cap = 2
    Patience = 1
    MaxCalls = 3
SPECIFICATION FairSpec
INVARIANTS RingSafe
PROPERTIES ImplementsQueue Drained
CHECK_DEADLOCK FALSE
