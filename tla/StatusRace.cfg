SPECIFICATION RunSpec
CONSTANTS
    Kin <- MCKin
    k1 = k1
    CloseRounds = 2
    None = None
INVARIANTS StatusIsFinal
CHECK_DEADLOCK FALSE
