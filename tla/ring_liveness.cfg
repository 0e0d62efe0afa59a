CONSTANTS
    MaxReaders = 2
    NumReaders = 2
    Capacity = 2
    a = a
    Words = {1}
    WordVals <- MCWordVals
    Zero = 0
    Messages <- MCOneMessage
    U64_MAX = 15
    MaxPush = 3
    MaxCrashes = 1
    MaxCalls = 1
SPECIFICATION OFairSpec
INVARIANTS
    AnswersHold
    ReportWrapsOnlyOnPublish
PROPERTIES
    ImplementsFairBroadcastLog
    StreamDelivered
