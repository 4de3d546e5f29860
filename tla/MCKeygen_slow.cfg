CONSTANTS
    Node = {1, 2, 3}
    Validators <- ThreePorts
    SessionFlag <- OnlyIdle
    FirstLeader = 2
    MaxRequests = 0
    MaxStarts = 1
SPECIFICATION KeygenSpec
INVARIANT KeygenInv
PROPERTIES KeepsStep
ACTION_CONSTRAINT OneSlowReader
CHECK_DEADLOCK FALSE
