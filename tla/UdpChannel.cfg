CONSTANTS
    Window = 2
    MaxRetransmits = 1
    MaxSent = 4
    MaxUnreliable = 2
SPECIFICATION FairSpec
INVARIANTS DeliveryInOrder AckedIsSafe
 
CHECK_DEADLOCK FALSE
