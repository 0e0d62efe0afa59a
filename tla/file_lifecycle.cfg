CONSTANTS
    Creators = {c1, c2}
    Openers = {o1}
    Capacities = {1, 2, 3, 4, 32}
    RecordSizes = {1, 2}
    ForeignMasks = {0, 1, 2, 3, 31, 63}
    ForeignLens = {1, 2, 4, 6}
    MaxReaders = 2
    HeaderSize = 2
    USIZE = 64
    MAGIC = 7
    VERSION = 1
SPECIFICATION Spec
SYMMETRY MCSymmetry
INVARIANTS
    CreatedRingIntact
    OpenHandleSound
    LargerRingsOpen
    SettledPushStays
