SPECIFICATION Spec
CONSTANTS
    Documents <- MCDocuments
    Comments <- MCComments
    d1 = d1
    c1 = c1
    Batches = 2
    BatchOf <- MCBatchOf
    Runners = {runner}
    Desks = {desk}
    Dispatches <- MCDispatches
    Disturbances = 2
    VetAtDesk = FALSE
    None = None
INVARIANTS Inv RetiredIsHeld
PROPERTIES DocumentsGrow KeyLands
CHECK_DEADLOCK FALSE
