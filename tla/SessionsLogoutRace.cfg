CONSTANTS
    User = {u1}
    Password = {p1}
    Request = {r1, r2}
    SessionId = {s1}
    Token = {t1, t2}
    Op = {"Refresh", "LogoutAll"}
    RefreshTTL = 1
    MaxTime = 0
    NoToken = NoToken
    NoSession = NoSession
    NoClaims = NoClaims
SYMMETRY Symmetry
SPECIFICATION Spec
INVARIANT LogoutAllEndsAccess
