SPECIFICATION Spec
CONSTANTS
    Runs = {r1, r2, r3, r4}
    Parts = {a1, a2}
    None = None
SYMMETRY Symmetry
INVARIANTS Inv SelectedComplete PublishedStays
PROPERTIES PriorIsReplaced
CHECK_DEADLOCK FALSE
