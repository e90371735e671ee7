SPECIFICATION Spec
CHECK_DEADLOCK FALSE
CONSTANTS
    Ids = {a}
    Limits <- FineLimit
    Threads = {t1, t2}
    CallerLock = FALSE
    MaxCounts = 3
    Wrap = 8
    MaxTime = 5
INVARIANTS
    AtMostRounded
