SPECIFICATION LiveSpec
CONSTANTS
    MaxEvent = 3
    BatchSize = 2
    BusSize = 1
    MaxConns = 3
    MaxFaults = 2
INVARIANTS
    TypeOK
    NoConnectionLeak
    NoCircularWait
    LostOnlyAfterTwoFailures
PROPERTIES
    Delivered
    StopEnds
