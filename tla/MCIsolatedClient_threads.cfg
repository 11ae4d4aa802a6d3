SPECIFICATION FairSpec
CONSTANTS
    Caller = {c1, c2, c3}
    OneThread = FALSE
    MaxProcess = 1
INVARIANTS RecordedIsBound
PROPERTIES StartAnswered
CHECK_DEADLOCK FALSE
