SPECIFICATION FairSpec
CHECK_DEADLOCK FALSE
CONSTANTS
    Workers = {w1, w2}
    alice = alice
    guest = guest
    nobody = nobody
    good = good
    bad = bad
    Lines <- MCLines
    Users <- MCUsers
    Pws <- MCPws
    Valid <- MCValid
    ChildMayStall = TRUE
    ChildMayDie = TRUE
    MayInterrupt = FALSE
    EsrchAfterExit = TRUE
    MaxPending = 2
INVARIANTS
    TypeOK
    NoFalseAccept
    RightAnswer
    Lockstep
    SlotLent
PROPERTIES
    ReturnsWhileAlive
