CONSTANTS
    User = {u1, u2}
    Password = {p1}
    Request = {r1, r2, r3}
    SessionId = {s1, s2}
    Token = {t1, t2, t3}
    Op = {"Login", "Refresh", "LogoutAll", "ChangePassword", "DeleteUser", "GetMe"}
    RefreshTTL = 1
    MaxTime = 0
    NoToken = NoToken
    NoSession = NoSession
    NoClaims = NoClaims
SYMMETRY Symmetry
SPECIFICATION Spec
INVARIANTS SignOutIsFinal DeletedUserHasNoSession
PROPERTIES StaleTokenRefused
