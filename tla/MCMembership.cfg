CONSTANTS
    Node = {1, 2, 3}
    MaxOps = 5
    MaxBlocks = 2
SPECIFICATION MCSpec
ACTION_CONSTRAINTS InOrder OnlyTwoOverlap
INVARIANTS MembershipTypeOK NeighborsOpen Mutual ListsAgreeInTurn LeaderOfRedisInTurn ChainOfRedisInTurn OwnChainValidInTurn
PROPERTY JoinsMesh
CHECK_DEADLOCK FALSE
