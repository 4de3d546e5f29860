CONSTANTS
    Node = {1, 2, 3}
    Validators <- ThreePorts
    SessionFlag <- OnlyIdle
    FirstLeader = 1
    MaxRequests = 0
    Tx = {t1}
    Override = {t1}
    MaxBlocks = 2
    MaxBacklog = 20
SPECIFICATION AnywhereSpec
INVARIANT EverySessionMakesBlock
CHECK_DEADLOCK FALSE
