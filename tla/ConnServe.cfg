SPECIFICATION FairSpec
CONSTANTS
  Shape <- All
  BufSize = 4
  EnableKeepAlive = TRUE
  MaxRequests = 2
  MaxConnections = 2
CHECK_DEADLOCK FALSE
INVARIANTS InOrder BodyExact IdleIsFatal DeathExplained
PROPERTIES Released
