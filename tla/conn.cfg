SPECIFICATION Spec
CONSTANTS
    ConnTimeout = 2
    RequestTimeout = 4
    MaxReqs = 3
    MaxChunks = 2
INVARIANTS
    MemorySafe
PROPERTIES
    AllReleased
