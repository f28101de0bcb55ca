SPECIFICATION Spec
CONSTANTS
    Id = {1, 2}
    Device = {d1, d2}
    Obj = {"glyph"}
    Root = "root"
    Parent <- FlatParent
    Glyph = {"glyph"}
    Fixed <- OneDescriptor
    Keyed = {}
    Bag = {}
    Value = {0, 1}
    Null = 0
    Policy <- AllShown
    Visit <- VisitOrder
    Deltas = TRUE
    Happens = {"crash", "fork", "refused"}
    LamportCeiling = 6
    MaxIssued = 3
    MaxAir = 2
INVARIANTS
    NoFalseCollision
    TagsAreUnique
PROPERTIES
    ImplementsKnowledge
CONSTRAINTS
    FewEdits
    FewAtOnce
SYMMETRY Symmetry
CHECK_DEADLOCK FALSE
