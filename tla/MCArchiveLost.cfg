SPECIFICATION Spec
CONSTANTS
    Rune = {r1}
    Glyph = {g1}
    Config = {c1, c2}
    Name = {n1}
    Bytes = {b1}
    MaxSaves = 2
    Happens = {"write", "crash"}
    None = None
    Absent = Absent
    Torn = Torn
    Lost = Lost
INVARIANTS
    ArchiveIsNeverLost
