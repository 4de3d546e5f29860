CONSTANTS
    Node = {1, 2}
    Validators <- TwoPorts
    SessionFlag <- OnlyIdle
    FirstLeader = 1
    MaxRequests = 1
    Tx = {t1}
    Override = {t1}
    MaxBlocks = 1
    MaxBacklog = 20
SPECIFICATION Spec
INVARIANT TypeOK
PROPERTIES PairKeepsLeader
CHECK_DEADLOCK FALSE
