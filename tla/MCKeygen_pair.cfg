CONSTANTS
    Node = {1, 2}
    Validators <- TwoPorts
    SessionFlag <- OnlyIdle
    FirstLeader = 2
    MaxRequests = 1
    MaxStarts = 2
SPECIFICATION FairKeygenSpec
PROPERTIES RefusedSessionStays
CHECK_DEADLOCK FALSE
