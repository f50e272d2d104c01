SPECIFICATION FairSpec
\* A run that is finished, or waits for an operator out of retries, stops.
CHECK_DEADLOCK FALSE
CONSTANTS
  Harnesses = {h1}
  Tools = {"read", "send", "write", "gone"}
  Revisions = {"unknown", "r1", "r2"}
  Keys = {"k1", "k2"}
  NoKey = NoKey
  Ids = {"i1", "i2"}
  NoId = NoId
  Catalogs <- Redeployments
  Requests <- WriteRequests
  ReplyRowsUnique = TRUE
  MaxSteps = 1
  MaxCalls = 1
  MaxFaults = 3
  MaxRetries = 1
  MaxRevision = 40
PROPERTIES
  ApprovalIsActedUpon
