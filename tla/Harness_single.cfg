SPECIFICATION FairSpec
\* A run that is finished, or waits for an operator out of retries, stops.
CHECK_DEADLOCK FALSE
CONSTANTS
  Harnesses = {h1}
  Tools = {"read", "send", "write", "gone"}
  Revisions = {"unknown", "r1"}
  Keys = {"k1"}
  NoKey = NoKey
  Ids = {"i1", "i2"}
  NoId = NoId
  Catalogs <- OneCatalog
  Requests <- AllRequests
  ReplyRowsUnique = TRUE
  MaxSteps = 2
  MaxCalls = 2
  MaxFaults = 2
  MaxRetries = 1
  MaxRevision = 60
INVARIANTS
  TypeOK
  AtMostOneDispatch
  AnsweredExactlyOnce
  SerialExecution
  ModelSeesEveryResult
  TerminalEventMatches
PROPERTIES
  Settles
