SPECIFICATION RSpec
CONSTANTS
    Families = {f1, f2}
    Generations = {g1, g2, g3}
    Publishers = {p1}
    Operators = {}
    Names <- MCNames
    Layouts <- Apart
    Precedes <- TablesFirst
    SharedLogs = {}
    t1 = t1
    t2 = t2
    None = None
    MaxAttempts = 1
    MaxLate = 0
    KeepLast = 1
    Grace = 0
    MaxClock = 2
    MaxPins = 1
SYMMETRY Symmetry
PROPERTIES ParentsSpared PlanHolds
CHECK_DEADLOCK FALSE
