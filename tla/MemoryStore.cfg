CONSTANTS
    Bindings = {b1, b2}
    AppOf <- Notes
    Runs = {"r1", "r2"}
    RunApp <- BothNotes
    Keys = {1, 2}
    Calls <- ThreeCalls
    Requests <- Arguments
    Attempts = {1, 2}
    MaxDispatches = 3
    MaxRestarts = 1
    MaxRebuilds = 1
    Nothing = Nothing
    b1 = b1
    b2 = b2
SYMMETRY Revisable
SPECIFICATION Spec
INVARIANTS
    IndexIsExact
    OneEffectPerCall
PROPERTIES
    RepeatedRequestsAgree
    RecallChangesAreVisible
CHECK_DEADLOCK FALSE
