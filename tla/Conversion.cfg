SPECIFICATION CSpec
CONSTANTS
    Families = {f1}
    Generations = {g1, g2, g3}
    Publishers = {c1, p1}
    Converters = {c1}
    Operators = {o1}
    Names <- MCNames
    Layouts <- MCLayouts
    Precedes <- RootBeforeReceipts
    SharedLogs = {}
    t1 = t1
    None = None
    MaxAttempts = 1
    MaxLate = 1
SYMMETRY Symmetry
INVARIANTS CInv ReceiptSuffices
PROPERTIES NothingDiscardedUnseen
CHECK_DEADLOCK FALSE
