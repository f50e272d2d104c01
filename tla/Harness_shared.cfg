SPECIFICATION Spec
\* A run that is finished, or waits for an operator out of retries, stops.
CHECK_DEADLOCK FALSE
CONSTANTS
  Harnesses = {h1, h2}
  Tools = {"read", "send", "write", "gone"}
  Revisions = {"unknown", "r1", "r2"}
  Keys = {"k1", "k2"}
  NoKey = NoKey
  Ids = {"i1", "i2"}
  NoId = NoId
  Catalogs <- Redeployments
  Requests <- MutatingRequests
  ReplyRowsUnique = FALSE
  MaxSteps = 2
  MaxCalls = 1
  MaxFaults = 1
  MaxRetries = 1
  MaxRevision = 9
INVARIANTS
  ApprovedBeforeDispatch
  PausesAreResolvable
PROPERTIES
  NoLostUpdate
  DispatchesRecordedContract
  ImplementsCallContract
