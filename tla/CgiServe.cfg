SPECIFICATION FairSpec
CONSTANTS
  Worker = {w1, w2}
  Pid = {1, 2}
  Request <- Requests
  Capacity = 1
  MaxRequests = 2
CHECK_DEADLOCK FALSE
INVARIANTS NoneLeft OutputWhole
PROPERTIES HangsExplained
