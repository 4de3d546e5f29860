CONSTANTS
    Node = {1, 2, 3}
    Validators <- ThreePorts
    SessionFlag <- OnlyIdle
    FirstLeader = 1
    MaxRequests = 0
    Tx = {t1, t2}
    Override = {t1, t2}
    MaxBlocks = 2
    MaxBacklog = 20
SPECIFICATION RoundsSpec
INVARIANTS NothingThrown RoundsSettle
PROPERTIES CommitsKept RoundsComplete
CHECK_DEADLOCK FALSE
