SPECIFICATION RunSpec
CHECK_DEADLOCK FALSE
CONSTANTS
  Harnesses = {h1}
  Tools = {"record"}
  Revisions = {"unknown", "r1"}
  Keys = {"k1"}
  NoKey = NoKey
  Ids = {"w1"}
  NoId = NoId
  Catalogs <- OneWrapper
  Requests <- OneAsked
  ReplyRowsUnique = TRUE
  MaxSteps = 2
  MaxCalls = 1
  MaxFaults = 1
  MaxRetries = 1
  MaxRevision = 60
  Steps <- OneStep
  StepIds <- OneId
PROPERTY ResolutionIsProjected
