SPECIFICATION MCSpec
CONSTANTS
  Threads = {t1, t2}
  Sessions = {s1, s2, s3}
  Hash <- MCHash
  NBuckets = 2
  MaxIdle = 2
  MaxAge = 3
  CleanInterval = 1
  MaxStall = 1
  MaxTime = 4
  NONE = NONE
  PThreads = {p1, p2}
  MaxRequests = 5
SYMMETRY Sym
CONSTRAINTS Claimed Issued
CHECK_DEADLOCK FALSE
INVARIANTS ChainsSound NotLost Swept PropsOwned
PROPERTIES HeldUntilOld
