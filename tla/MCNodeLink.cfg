SPECIFICATION FairSpec
CONSTANTS
    Msg = {m1, m2, m3}
    OutboxLimit = 2
    None = None
    MaxEvents = 3
INVARIANTS
    SessionFollowsLink
PROPERTIES
    PromisesAreKept
    OpeningEnds
    QueueMoves
    EndedSessionEndsLink
CHECK_DEADLOCK FALSE
