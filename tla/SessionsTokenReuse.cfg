CONSTANTS
    User = {u1}
    Password = {p1}
    Request = {r1, r2, r3}
    SessionId = {s1}
    Token = {t1, t2, t3}
    Op = {"Refresh"}
    RefreshTTL = 1
    MaxTime = 0
    NoToken = NoToken
    NoSession = NoSession
    NoClaims = NoClaims
SYMMETRY Symmetry
SPECIFICATION Spec
INVARIANT ReuseEndsSession
