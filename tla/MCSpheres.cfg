SPECIFICATION SpheresSpec
CONSTANTS
    Address = {a1, a2}
    Attempts = 2
    Coalesces = TRUE
    Damaged = {a1}
    Happens = {"elsewhere", "lose", "repeat", "policy", "fetch", "close", "supply"}
    MaxNet = 1
    MaxSessions = 2
    MaxSeq = 4
INVARIANTS
    ShowsTheNewest
PROPERTIES
    OnlyAckOrWantMisses
    CautiousAsksNothingNew
    WaitingEnds
    PresenceEnds
CHECK_DEADLOCK FALSE
