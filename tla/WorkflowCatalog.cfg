SPECIFICATION Spec
CONSTANTS
    w1 = w1
    w2 = w2
    Nothing = Nothing
    Ids <- MCIds
    Definitions <- MCDefinitions
    Template = "a"
    MaxTools = 2
    Contract <- MCContract
    MaxSaves = 2
    MaxOthers = 1
    MaxReads = 1
SYMMETRY MCSymmetry
INVARIANTS
    NoSilentOverwrite
    OneRevisionPerSave
    SavedIsDurable
CHECK_DEADLOCK FALSE
