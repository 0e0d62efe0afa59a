CONSTANTS
    Creators = {c1}
    Openers = {o1}
    Capacities = {2, 32}
    RecordSizes = {2}
    ForeignMasks = {}
    ForeignLens = {}
    MaxReaders = 2
    HeaderSize = 2
    USIZE = 64
    MAGIC = 7
    VERSION = 1
SPECIFICATION Spec
INVARIANTS
    OpenHandleFits
