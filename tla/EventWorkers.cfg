SPECIFICATION LiveSpec
CONSTANTS
    Reg = {r1}
    Email = {m1}
    Worker = {w1, w2}
    BatchSize = 1
    ReceiveSize = 2
    MaxReceive = 2
    MaxFaults = 1
INVARIANTS
    TypeOK
    RepublishedOnlyByFailure
    RemailedOnlyByFailure
    MailedOncePerDelivery
PROPERTIES
    ImplementsLifecycle
    EventSettles
