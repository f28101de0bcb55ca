SPECIFICATION FairSpec
CONSTANTS
    Peer <- PeerPair
    Other <- OtherOf
    IdOf <- OwnIds
    Fact <- OneOnly
    Maker <- MadeBy
    Withheld = {}
    Malformed = {}
    None = None
    SavesFirst = {"edits"}
    Happens = {"lose", "crash"}
    MaxStarts = 3
    MaxNet = 1
    MaxRepeats = 1
PROPERTIES
    Converges
    HandshakeCompletes
CHECK_DEADLOCK FALSE
