CONSTANTS
    Node = {1, 2, 3, 4}
    Validators <- FourPorts
    SessionFlag = {TRUE}
    FirstLeader = 1
    MaxRequests = 0
    Tx = {t1, t2}
    Override = {t1, t2}
    MaxBlocks = 2
    MaxBacklog = 12
SPECIFICATION Spec
ACTION_CONSTRAINT FourthAhead
PROPERTY KeepsPromise
INVARIANTS PhasesInOrder Certified
CHECK_DEADLOCK FALSE
SYMMETRY Alike
