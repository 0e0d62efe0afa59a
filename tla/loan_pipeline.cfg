CONSTANTS
    MaxReaders = 1
    NumReaders = 1
    Capacity = 2
    a = a
    b = b
    Words = {1}
    WordVals <- MCWordVals
    Zero = 0
    Messages <- MCMessages
    U64_MAX = 15
    MaxPush = 3
    MaxCrashes = 1
    LoanIds = {l1, l2}
    Ops = {"commit", "abortYoungest", "drop", "pop"}
SPECIFICATION LSpec
SYMMETRY MCSymmetry
INVARIANTS
    LoanInv
    LoanPinned
    LoanViewsItsMessage
    LentOnce
    GateGuardsLoans
PROPERTIES
    ImplementsBroadcastLog

