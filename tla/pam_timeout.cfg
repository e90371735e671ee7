SPECIFICATION TimeoutSpec
CHECK_DEADLOCK FALSE
CONSTANTS
    Workers = {w1, w2}
    alice = alice
    guest = guest
    nobody = nobody
    good = good
    bad = bad
    Lines <- MCLines
    Users <- OneUser
    Pws <- OnePw
    Valid <- OneValid
    ChildMayStall = TRUE
    ChildMayDie = TRUE
    MayInterrupt = TRUE
    EsrchAfterExit = FALSE
    MaxPending = 2
PROPERTIES
    LoginReturns
    ShutdownCompletes
