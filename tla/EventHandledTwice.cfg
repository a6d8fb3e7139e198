SPECIFICATION Spec
CONSTANTS
    Reg = {r1}
    Email = {m1}
    Worker = {w1}
    BatchSize = 1
    ReceiveSize = 1
    MaxReceive = 2
    MaxFaults = 1
INVARIANTS
    HandledOnce
