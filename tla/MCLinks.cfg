SPECIFICATION Spec
CONSTANTS
    Rune = {1, 2, 3, 4, 5}
    NameOf <- SharedName
    Label = {"tie", "1:2"}
    Equivalence = {"tie"}
    Acyclic = {"1:2"}
    Counted = {"tie", "1:2"}
    Slot = "ports"
    PortsOf <- TieArcAndPort
    NoPorts = NoPorts
    Limit = 1
    Note = {"first", "second"}
    MaxLinks = 3
INVARIANTS
    QuotientIsSmallest
    CapacityIsOfTheClass
    CyclesAreExact
CONSTRAINT
    NotesTellParallelsApart
CHECK_DEADLOCK FALSE
