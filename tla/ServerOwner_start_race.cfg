SPECIFICATION FairSpec
CHECK_DEADLOCK FALSE
CONSTANTS
  Conns = {1}
  None = None
  MaxConnections = 1
  Requests <- OneRead
INVARIANT
  ClosedMeansSettled
