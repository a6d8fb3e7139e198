SPECIFICATION LiveSpec
CONSTANTS
    Request = {r1, r2, r3}
    Registration = {r1, r2}
    Conn = {c1, c2}
    Statements = 2
    Retries = 2
    MaxFaults = 1
    None = None
INVARIANTS
    TypeOK
    NoConnectionLeak
    OnlyRegistrationsBlock
    PoolClosed
    OkMeansDrained
PROPERTIES
    Answered
    StopEnds
