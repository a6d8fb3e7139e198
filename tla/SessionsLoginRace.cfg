CONSTANTS
    User = {u1}
    Password = {p1, p2}
    Request = {r1, r2}
    SessionId = {s1, s2}
    Token = {t1, t2, t3}
    Op = {"Login", "ChangePassword"}
    RefreshTTL = 1
    MaxTime = 0
    NoToken = NoToken
    NoSession = NoSession
    NoClaims = NoClaims
SYMMETRY Symmetry
SPECIFICATION Spec
INVARIANT PasswordChangeEndsSessions
