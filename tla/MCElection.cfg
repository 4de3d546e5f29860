CONSTANTS
    Node = {1, 2, 3}
    Validators <- ThreePorts
    SessionFlag = {TRUE, FALSE}
    FirstLeader = 1
    MaxRequests = 2
SPECIFICATION MCSpec
INVARIANTS ElectionTypeOK NoVoteForConductor ElectionSettlesInTurn
PROPERTIES LeaderStepsDown RotatesLeaderInTurn
CHECK_DEADLOCK FALSE
