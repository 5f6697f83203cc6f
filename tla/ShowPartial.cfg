SPECIFICATION Spec
CONSTANTS
  w1 = w1
  w2 = w2
  None = None
  Worker <- TwoWorkers
  Seg <- Segs
  Request <- FlatRequests
  Source <- FlatSource
  Condition <- Good
  Disk = TRUE
  Limited = FALSE
  FdLimit = 0
  MaxRequests = 2
  MaxVersion = 0
  MaxCrashes = 0
CHECK_DEADLOCK FALSE
INVARIANTS ServedWhole
