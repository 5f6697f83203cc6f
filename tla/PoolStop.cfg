SPECIFICATION FairSpec
CONSTANTS
  w1 = w1
  w2 = w2
  None = None
  Worker <- TwoWorkers
  Size = 2
  MaxSockets = 2
  MaxSpurious = 0
CHECK_DEADLOCK FALSE
PROPERTIES StopReturns
