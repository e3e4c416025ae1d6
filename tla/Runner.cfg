SPECIFICATION Spec
CONSTANTS
    Kin <- MCKin
    k1 = k1
    CloseRounds = 2
    None = None
INVARIANTS Inv ReconciledIsFinal WorkIsRecorded AuditAlone SuccessIsSealed
PROPERTIES RunEnds EventuallyClosed GuardianEndsWork
CHECK_DEADLOCK FALSE
