SPECIFICATION Spec
CONSTANTS
    Families = {f1, f2}
    Generations = {g1, g2}
    Publishers = {w1}
    Operators = {o1}
    Names <- MCNames
    Layouts <- Contended
    Precedes <- RootBeforeReceipts
    SharedLogs <- MCShared
    t1 = t1
    t2 = t2
    log = log
    None = None
    MaxAttempts = 2
    MaxLate = 1
SYMMETRY Symmetry
INVARIANTS OneOwner Inv SelectedComplete ChainHeld
PROPERTIES OneFamilyPerWrite PublicationIsAtomic
CHECK_DEADLOCK FALSE
