SPECIFICATION Spec
CONSTANTS
    Workers = {w1, w2}
    alice = alice
    guest = guest
    nobody = nobody
    good = good
    bad = bad
    Lines <- MCLines
    Users <- MCUsers
    Pws <- MCPws
    Valid <- MCValid
    ChildMayStall = FALSE
    ChildMayDie = FALSE
    MayInterrupt = TRUE
    EsrchAfterExit = TRUE
    MaxPending = 2
INVARIANTS
    NoFalseAccept
