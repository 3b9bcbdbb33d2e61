SPECIFICATION FairSpec
CONSTANTS
  Jobs = {j1, j2, j3, j4}
  Workers = {w1, w2}
  Capacity = 2
CHECK_DEADLOCK FALSE
INVARIANTS
  JobsAccounted
  NoSendOnClosed
PROPERTIES
  CloseEnds
