SPECIFICATION Spec
CONSTANTS
  Worker = {w1, w2}
  Path <- Paths
  Parent <- Parents
  Above <- Aboves
  Index <- Indexes
  Ssi = {"s"}
  Hidden = {}
  Locked = {"f"}
  Tree <- Trees
  Request <- Requests
  Listing = TRUE
  IncludeLevels = 1
  MaxRequests = 3
  LastRequest <- Later
  MaxTick = 2
SYMMETRY Alike
CHECK_DEADLOCK FALSE
INVARIANTS BodyExplained  PutExplained EndsClean
