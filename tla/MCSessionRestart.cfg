SPECIFICATION Spec
CONSTANTS
    Peer <- PeerPair
    Other <- OtherOf
    IdOf <- OwnIds
    Fact <- OneOnly
    Maker <- MadeBy
    Withheld = {}
    Malformed = {}
    None = None
    SavesFirst = {"edits", "merges"}
    Happens = {"crash", "share", "repeat", "close", "timeout"}
    MaxStarts = 3
    MaxNet = 1
    MaxRepeats = 1
INVARIANTS
    InSyncIsTrue
PROPERTIES
    ShareIsAskedAgain
CHECK_DEADLOCK FALSE
