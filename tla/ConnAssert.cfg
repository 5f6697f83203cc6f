SPECIFICATION Spec
CONSTANTS
  Shape <- Plain
  BufSize = 4
  EnableKeepAlive = TRUE
  MaxRequests = 2
  MaxConnections = 2
CHECK_DEADLOCK FALSE
INVARIANTS BufferFits
