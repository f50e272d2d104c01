SPECIFICATION Spec
\* A run that is finished, or waits for an operator out of retries, stops.
CHECK_DEADLOCK FALSE
CONSTANTS
  Harnesses = {h1}
  Tools = {"read", "send", "write", "gone"}
  Revisions = {"unknown", "r1"}
  Keys = {"k1"}
  NoKey = NoKey
  Ids = {"i1", "i2"}
  NoId = NoId
  Catalogs <- OneCatalog
  Requests <- WriteRequests
  ReplyRowsUnique = TRUE
  MaxSteps = 1
  MaxCalls = 1
  MaxFaults = 1
  MaxRetries = 1
  MaxRevision = 40
INVARIANTS
  CancelledEffectIsReconcilable
