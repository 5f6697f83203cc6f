SPECIFICATION FairSpec
CONSTANTS
  w1 = w1
  w2 = w2
  None = None
  Worker <- TwoWorkers
  Seg <- Segs
  Request <- ServeRequests
  Source <- ServeSource
  Condition <- Good
  Disk = TRUE
  Limited = FALSE
  FdLimit = 0
  MaxRequests = 3
  MaxVersion = 0
  MaxCrashes = 0
CHECK_DEADLOCK FALSE
INVARIANTS StackBound FoundServed CleanCache
PROPERTIES Answered
