CONSTANTS
    Consumers = {c1}
    Capacity = 2
    EfdMax = 2
    TicksPerMs = 2
    PollMax = 2
    Timeouts = {3, 6}
    MaxPush = 4
    MaxTime = 6
    MaxFaults = 1
SPECIFICATION NFairSpec
INVARIANTS
    NoLostWakeup
    DuplicatesOnlyAfterError
    TimeoutWithinOneMs
PROPERTIES
    AllDelivered
