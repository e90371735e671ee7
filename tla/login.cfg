SPECIFICATION FlowSpec
CHECK_DEADLOCK FALSE
CONSTANTS
    Threads = {t1, t2}
    Realms <- ThreeRealms
    DefaultRealm = "Mail"
    Rdrs = {"/x"}
    None = None
    Names = {"ann"}
    Pws = {"a", "b"}
    Stack <- TabsStack
    Accepts <- MCAccepts
    Limit = 2
    Period = 1
    MaxCounts = 1
    MaxTime = 0
    MaxForms = 5
    MaxGets = 5
SYMMETRY Symmetry
CONSTRAINT OverlapEarly
INVARIANTS
    FormRealmKept
    TokenOnce
    ErrorIsMine
