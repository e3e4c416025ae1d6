SPECIFICATION RSpec
CONSTANTS
    Families = {f1}
    Generations = {g1, g2, g3}
    Publishers = {p1, p2}
    Operators = {}
    Names <- MCNames
    Layouts <- Single
    Precedes <- TablesFirst
    SharedLogs = {}
    t1 = t1
    t2 = t2
    None = None
    MaxAttempts = 1
    MaxLate = 0
    KeepLast = 2
    Grace = 1
    MaxClock = 2
    MaxPins = 0
SYMMETRY Symmetry
INVARIANTS RInv CurrentStored
PROPERTIES RecentChainSpared
CHECK_DEADLOCK FALSE
