SPECIFICATION Spec
CONSTANTS
  w1 = w1
  w2 = w2
  None = None
  Worker <- TwoWorkers
  Seg <- Segs
  Request <- NestedRequests
  Source <- NestedSource
  Condition <- Conditions
  Disk = TRUE
  Limited = FALSE
  FdLimit = 0
  MaxRequests = 3
  MaxVersion = 1
  MaxCrashes = 1
SYMMETRY AnyOrder
CHECK_DEADLOCK FALSE
INVARIANTS CacheFaithful ServedFaithful StuckExplained
PROPERTIES OriginalsKept IsCache
