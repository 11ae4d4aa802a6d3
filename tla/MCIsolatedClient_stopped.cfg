SPECIFICATION Spec
CONSTANTS
    Caller = {c1, c2, c3}
    OneThread = TRUE
    MaxProcess = 3
SYMMETRY Symmetry
INVARIANTS StoppedStays
CHECK_DEADLOCK FALSE
