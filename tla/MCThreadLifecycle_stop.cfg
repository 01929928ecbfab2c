\* ECCS_Init followed at once by ECCS_Release.
CONSTANT MaxPosts = 0
SPECIFICATION Spec
PROPERTY StopReturns
CHECK_DEADLOCK FALSE
