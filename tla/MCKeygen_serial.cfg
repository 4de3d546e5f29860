CONSTANTS
    Node = {1, 2, 3}
    Validators <- ThreePorts
    SessionFlag <- OnlyIdle
    FirstLeader = 2
    MaxRequests = 0
    MaxStarts = 2
SPECIFICATION SerialSpec
INVARIANTS ConcludedKey NothingLeft
PROPERTIES SessionEnds SessionRotatesLeader
CHECK_DEADLOCK FALSE
