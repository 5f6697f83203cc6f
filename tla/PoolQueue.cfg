SPECIFICATION FairSpec
CONSTANTS
  w1 = w1
  w2 = w2
  None = None
  Worker <- TwoWorkers
  Size = 2
  MaxSockets = 6
  MaxSpurious = 1
CHECK_DEADLOCK FALSE
INVARIANTS NoneStranded MasterNotStranded FreedLast
PROPERTIES IsQueue Served StopExplained
