SPECIFICATION Spec
CONSTANTS
    Peer = {p1, p2}
    Hash = {1, 2, 3}
    MaxBatch = 2
    MaxInbox = 2
    Happens = {"damage"}
INVARIANTS
    ReceivePlacesAll
    WrittenLoadsBack
    AncestryIsKnowledge
    HeadsNameTheCut
    TimelineIsCausal
SYMMETRY Symmetry
CHECK_DEADLOCK FALSE
