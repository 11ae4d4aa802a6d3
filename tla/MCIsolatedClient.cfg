SPECIFICATION FairSpec
CONSTANTS
    Caller = {c1, c2, c3}
    OneThread = TRUE
    MaxProcess = 2
INVARIANTS TypeOK BinderIsWatched
PROPERTIES DeadBinderForgotten
CHECK_DEADLOCK FALSE
