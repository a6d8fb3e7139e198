SPECIFICATION Spec
CONSTANTS
    Reg = {r1, r2}
    Email = {m1, m2}
    Worker = {w1}
    BatchSize = 2
    ReceiveSize = 2
    MaxReceive = 1
    MaxFaults = 1
SYMMETRY Symmetry
INVARIANTS
    UserHasEvent
    MailOnlyToRegistered
