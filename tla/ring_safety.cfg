CONSTANTS
    MaxReaders = 3
    NumReaders = 2
    Capacity = 2
    a = a
    b = b
    Words = {1, 2}
    WordVals <- MCWordVals
    Zero = 0
    Messages <- MCMessages
    U64_MAX = 15
    MaxPush = 4
    MaxCrashes = 1
SPECIFICATION Spec
SYMMETRY MCSymmetry
INVARIANTS
    LagBounded
    NoOverwriteBeforeSlowestRead
    NoTornRead
    NoSlotRace
    PeekWindow
    ScanSandwich
    TotalWrittenTracks
    IndInv
PROPERTIES
    ImplementsBroadcastLog
