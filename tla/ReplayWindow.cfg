CONSTANTS
    WordBits = 2
    Words = 4
    MaxSeq = 4
SPECIFICATION Spec
INVARIANT NoReplay
CHECK_DEADLOCK FALSE
