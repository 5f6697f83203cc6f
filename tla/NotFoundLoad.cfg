SPECIFICATION FairSpec
CONSTANTS
  w1 = w1
  w2 = w2
  Worker <- TwoWorkers
  Sizes <- ThreeSizes
  Images <- AllKinds
  MaxChanges = 2
  MaxFailures = 1
  MaxRequests = 4
CHECK_DEADLOCK FALSE
INVARIANTS InBounds Settled LostBuffers Framed
PROPERTIES Answered
