SPECIFICATION SpecForked
CONSTANTS
    Id = {1, 2, 3}
    Device = {"a", "b"}
    Obj = {"m", "r1", "r2", "g"}
    Root = "root"
    Parent <- TreeParent
    Glyph = {"g"}
    Fixed <- FixedPlaces
    Keyed <- KeyedPlaces
    Bag <- BagPlaces
    Value = {0, 1, 2}
    Null = 0
    Policy <- Policies
    Visit <- VisitOrder
    Deltas = FALSE
    Happens = {}
    LamportCeiling = 20
    MaxIssued = 12
    MaxAir = 0
    Ends <- EdgeEnds
    Declares <- GlyphNamed
    Private = {"r1"}
    Takes <- Taken
    Author = 3
    IdOn <- IdsOn
    First <- OneLinked
    MaxEdits = 3
INVARIANTS
    ObservingOwnOutputIsSilent
    ObservedIsShown
    JoinCommutes
    ConflictsSurviveObserving
    AnomaliesMatchTheState
    ExportShowsTheSharedPart
    RemovalsTravel
    WritersExplainTheReading
PROPERTIES
    MergeReportsLostEdits
    BrokenLinksAreExplained
CHECK_DEADLOCK FALSE
