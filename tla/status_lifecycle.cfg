CONSTANTS
    Readers = {r1}
    Cleaners = {k1, k2}
    Values = {a, b}
    Old = old
    Payload = {"p", "q"}
    MAGIC = MAGIC
    VERSION = VERSION
    Size = 2
    MaxInodes = 2
    MaxWrites = 2
    MaxCrashes = 1
SPECIFICATION Spec
SYMMETRY MCSymmetry
INVARIANTS
    LastWriteStands
    ReadIdentified
    UndisturbedReadExact
