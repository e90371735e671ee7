SPECIFICATION Spec
CHECK_DEADLOCK FALSE
CONSTANTS
    Ids = {a, b}
    Limits <- TwoLimits
    Threads = {t1}
    CallerLock = TRUE
    MaxCounts = 2
    Wrap = 16
    MaxTime = 6
INVARIANTS
    AtMostRounded
PROPERTIES
    ImplementsWindow
