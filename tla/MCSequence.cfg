SPECIFICATION Spec
CONSTANTS
    Device = {d1, d2}
    MaxNodes = 4
    MaxErased = 1
    MaxResets = 1
INVARIANTS
    AllReadOneOrder
    RunsDoNotInterleave
PROPERTIES
    InsertsLandWhereTyped
ACTION_CONSTRAINT
    IdsAscend
SYMMETRY Symmetry
CHECK_DEADLOCK FALSE
