SPECIFICATION Spec
CHECK_DEADLOCK FALSE
CONSTANTS
    None = None
    Wake = Wake
    MaxProgress = 3
    Replies = {"yes", "no"}
    MaxStreamed = 4
    Scripts <- Sendable
    MaxLines = 2
    MaxRuns = 2
    HostIds <- HostIdsDef
    HostContents <- ContentsDef
    Limit = 1
    PageSize = 1
    MaxFaults = 2
    Runs = {"r1", "r2"}
    Tasks = {1, 2}
    MaxEvents <- EventsDef
    MaxEpoch = 2
    MaxActions = 1
    MaxLosses = 1
    Callers = {1, 2, 3}
    Keys = {"k1", "k2"}
    Room <- RoomDef
    Sizes = {1, 2}
    MaxEntries = 1
    MaxCalls = 3
    Histories <- Conversations
    Budgets = {2, 4, 6}
    HotTurns = 1
    Found = {0, 3}
    InjectionLimit = 3
    SummaryUnits = {1, 2}
    Processes = {1, 2}
    Attempts = {1, 2, 3}
    Sources = {"s1", "s2"}
    Texts = {1, 2}
INVARIANTS
    ProgressPrecedesResult
    ReplyIsTheStreams
    ReplyIsWhole
    GivenUpIsAborted
    TextIsTheAnswer
    RefsAreReadable
    TimelineIsTheRuns
    OverlapAgrees
    ProjectionIsMaximal
    SchemaIsWhole
    GenerationsAreLinear
PROPERTIES
    EveryChildIsReaped
    ReadyMeansPublished
    ViewNeverGoesBack
