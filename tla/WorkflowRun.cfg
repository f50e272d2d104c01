SPECIFICATION RunSpec
CHECK_DEADLOCK FALSE
CONSTANTS
  Harnesses = {h1}
  Tools = {"lookup", "notify", "record"}
  Revisions = {"unknown", "r1"}
  Keys = {"k1", "k2"}
  NoKey = NoKey
  Ids = {"w1", "w2", "w3"}
  NoId = NoId
  Catalogs <- Deployments
  Requests <- Asked
  ReplyRowsUnique = TRUE
  MaxSteps = 4
  MaxCalls = 2
  MaxFaults = 3
  MaxRetries = 2
  MaxRevision = 60
  Steps <- ThreeSteps
  StepIds <- ThreeIds
INVARIANTS
  StopsAtFirstFailure
  RunStaysLoadable
  SettledRunIsProjected
