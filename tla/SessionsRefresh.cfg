CONSTANTS
    User = {u1}
    Password = {p1, p2}
    Request = {r1, r2, r3}
    SessionId = {s1}
    Token = {t1, t2, t3, t4}
    Op = {"Refresh", "Logout", "ChangePassword", "DeleteUser"}
    RefreshTTL = 1
    MaxTime = 2
    NoToken = NoToken
    NoSession = NoSession
    NoClaims = NoClaims
SYMMETRY Symmetry
SPECIFICATION Spec
INVARIANTS TypeOK SingleUse DoublePresentationEndsSession
PROPERTIES RevokedForever ExpiredNeverExchanged ImplementsChain
