CONSTANTS
    Apps = {a1}
    Cap = 2
    Retries = 2
    Rates = {0, 1}
    Elapsed = {1, 2}
    Second = 2
    Cost = 1
    Burst = 1
    MaxAcks = 1
    MaxCalls = 3
SPECIFICATION FairSpec
INVARIANTS ServedInOrder
PROPERTIES WorkEnds
