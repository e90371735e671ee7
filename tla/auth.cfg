SPECIFICATION MCSpec
CONSTANTS
    Realms <- AllRealms
    Names = {"ann"}
    Pws = {"a", "b", "c"}
    Stack <- MCStack
    Accepts <- MCAccepts
    Limit = 1
    Period = 3
    MaxCounts = 2
    MaxTime = 4
    Words <- MCWords
    Users <- MCUsers
    Groups <- MCGroups
    Files <- MCFiles
    ServerKeys = {"port", "nat64_prefix"}
    Invalid = Invalid
    NoName = NoName
    Default = Default
    LimitRoom = 2
    CheckerRoom = 3
    MaxRead <- MCRead
    SessionDefaults <- MCDefaults
CHECK_DEADLOCK FALSE
INVARIANTS
    UserWasChecked
    AtMostOneMore
    RunsAsTold
    
    RealmsAsConfigured
    ServersAsConfigured
