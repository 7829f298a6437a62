CONSTANTS
    Callers = {1, 2}
    MaxConnects = 2
    MaxLosses = 1
    MaxFailures = 1
    Hurried = {1}
    Kickers = {2}
    Msgs = {m1}
    Senders = {1}
    Removers = {2}
    RekeyInterval = 1
    MaxEpoch = 3
    MaxCtr = 2
    Lengths <- MCLengths
    HdrLen = 2
    MaxDgram = 3
    PipeCap = 7
SPECIFICATION SudpSpec
 
PROPERTIES TieResolved  PipeDelivers
CHECK_DEADLOCK FALSE
