SPECIFICATION FlowSpec
CHECK_DEADLOCK FALSE
CONSTANTS
    Threads = {t1}
    Realms <- ThreeRealms
    DefaultRealm = "Mail"
    Rdrs = {"/x"}
    None = None
    Names = {"ann"}
    Pws = {"a", "b"}
    Stack <- TabsStack
    Accepts <- MCAccepts
    Limit = 2
    Period = 1
    MaxCounts = 1
    MaxTime = 0
    MaxForms = 5
    MaxGets = 5
INVARIANTS
    FormRealmHonoured
