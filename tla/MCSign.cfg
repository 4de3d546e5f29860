SPECIFICATION MCSpec
CONSTANT Node = {1, 2, 3}
CONSTANT MaxStarts = 3
INVARIANT NonceUsedOnce
INVARIANT SignInv
CHECK_DEADLOCK FALSE
PROPERTY LaterSessionEnds
PROPERTY NewcomerUnlistsNodes
