SPECIFICATION Spec
CONSTANTS
    Ids = {i1}
    a1 = a1
    a2 = a2
    Agencies = {a1, a2}
    Dates = {1, 2}
    AgencyOf <- MCAgencyOf
    Writers = {w1, w2}
    MaxVersion = 2
    None = None
    MaxDeaths = 2
    Forces = {FALSE}
INVARIANTS MirrorIsWhole
CHECK_DEADLOCK FALSE
