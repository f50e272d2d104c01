SPECIFICATION FairSpec
\* A server that is closed, or that failed to start, stops.
CHECK_DEADLOCK FALSE
CONSTANTS
  Conns = {1, 2, 3}
  None = None
  MaxConnections = 2
  Requests <- Meetings
INVARIANTS
  GateIsTheActiveDrive
  RetryableMeansUndone
  CloseIsComplete
PROPERTIES
  AdmittedCallsReturn
