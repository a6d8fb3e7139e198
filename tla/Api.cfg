SPECIFICATION Spec
CONSTANTS
    r1 = r1
    r2 = r2
    w = w
    Request = {r1, r2, w}
    Clients <- TwoClients
    Walker = w
    Existing = 2
    MaxUser = 4
    Name = {1, 2}
    Search = {0, 2}
    Password = {p1, p2}
    PageSize = 1
    MaxFaults = 1
SYMMETRY Symmetry
INVARIANTS
    TypeOK
    NeedsAuthority
    StatusTellsEffect
    LogTellsTruth
    AnswersDocumented
    PasswordKnown
    SignOutsCount
    WalkMissesNobody
    WalkRepeatsNobody
