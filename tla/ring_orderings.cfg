CONSTANTS
    NumReaders = 2
    LOOM_CAPACITY = 2
    MESSAGES = 3
    U64_MAX = 15
    Roles <- MCRoles
    MaxReads = 1
SPECIFICATION Spec
INVARIANTS
    NoDataRace
    ReadsInStream
    BoundaryHeld
    WokenSeesPublish
