SPECIFICATION Spec
CONSTANTS
    Address = {a1}
    Attempts = 1
    Coalesces = FALSE
    Damaged = {}
    Happens = {}
    MaxNet = 1
INVARIANTS
    MissingIsAskedFor
CHECK_DEADLOCK FALSE
