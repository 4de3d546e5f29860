CONSTANTS
    Node = {1, 2, 3, 4}
    Validators <- FourPorts
    SessionFlag <- OnlyIdle
    FirstLeader = 1
    MaxRequests = 0
    Tx = {t1}
    Override = {t1}
    MaxBlocks = 2
    MaxBacklog = 20
SPECIFICATION Spec
ACTION_CONSTRAINT FourthAhead
INVARIANT OwnChainValid
CHECK_DEADLOCK FALSE
