SPECIFICATION EtlSpec
CONSTANTS
    Documents <- MCDocuments
    Comments <- MCComments
    d1 = d1
    c1 = c1
    Batches = 2
    BatchOf <- MCBatchOf
    Runners = {runner}
    Desks = {desk}
    Dispatches <- MCDispatches
    Disturbances = 2
    VetAtDesk = TRUE
    None = None
INVARIANTS RetiredIsHeld
CHECK_DEADLOCK FALSE
