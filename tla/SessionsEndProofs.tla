-------------------------- MODULE SessionsEndProofs --------------------------
(* Proofs that what ends a session or an access token ends it for good, for *)
(* every value of the constants of Sessions.                                *)
EXTENDS SessionsProofs

(***************************************************************************)
(* The operations that reach a step, and the requests that still know no   *)
(* session.                                                                *)
(***************************************************************************)
OpAt(r) ==
    /\ pc[r] \in {"verify", "create"} => call[r].op = "Login"
    /\ pc[r] \in {"find", "revoke"} => call[r].op \in {"Refresh", "Logout"}
    /\ pc[r] \in {"user", "rotate"} => call[r].op = "Refresh"
    /\ pc[r] = "issue" => call[r].op \in {"Login", "Refresh"}
    /\ pc[r] = "bump" => call[r].op = "LogoutAll"
    /\ pc[r] \in {"check", "update"} => call[r].op = "ChangePassword"
    /\ pc[r] = "revokeAll" => call[r].op \in SignOut
    /\ pc[r] = "delete" => call[r].op = "DeleteUser"
    /\ pc[r] = "get" => call[r].op = "GetMe"

SidAt(r) ==
    /\ pc[r] \in {"idle", "find"} => loc[r].sid = NoSession
    /\ pc[r] = "done" /\ loc[r].res = "revoked" => loc[r].sid = NoSession
    /\ pc[r] \in {"user", "rotate", "issue", "revoke"} => loc[r].sid \in Opened

PlaceInv == \A r \in Request : OpAt(r) /\ SidAt(r)

\* No token_version that a request or a client holds is ahead of the row's.
VersionAt(r) ==
    /\ pc[r] = "create" => loc[r].ver <= users[call[r].user].ver
    /\ pc[r] \in {"rotate", "issue"}
         => loc[r].ver <= users[sessions[loc[r].sid].user].ver

VersionInv ==
    /\ \A a \in access : a.ver <= users[a.user].ver
    /\ \A r \in Request : VersionAt(r)

\* What a sign-out found on arrival, and what is left of it after each step.
SignOutAt(r) ==
    /\ \A s \in call[r].before :
         s \in Opened /\ sessions[s].user = call[r].user
    /\ \A a \in call[r].holding :
         a.user = call[r].user /\ a.ver <= users[a.user].ver
    /\ pc[r] = "revokeAll" \/ SignedOut(r)
         => \A a \in call[r].holding : a.ver < users[a.user].ver
    /\ SignedOut(r) => call[r].before \cap Live = {}

SignOutInv == \A r \in Request : SignOutAt(r)

\* A client presents tokens it was given; one drawn and not stored is none.
PresentedAt(r) ==
    /\ call[r].op \in {"Refresh", "Logout"} => call[r].tok \in held
    /\ call[r].at <= now
    /\ Drawn(r) => loc[r].next \notin held
    /\ pc[r] = "issue" =>
         /\ loc[r].next \in issued
         /\ \A q \in Request : Drawn(q) => loc[q].next # loc[r].next

PresentedInv == held \subseteq issued /\ \A r \in Request : PresentedAt(r)

\* While the token a Refresh presents is current, its session expires no
\* earlier than the request arrived.
ExpiryInv ==
    \A r \in Request :
        pc[r] \in {"user", "rotate"} /\ sessions[loc[r].sid].cur = call[r].tok
            => call[r].at <= sessions[loc[r].sid].exp

\* Token t was handed out for session s: it is current or an exchange spent it.
Of(t, s) ==
    /\ s \in Opened /\ t # NoToken
    /\ \/ sessions[s].cur = t
       \/ \E q \in Request : loc[q].spent = t /\ loc[q].sid = s

Ended(s) == s \in Opened \ Live

FoundAt(r) ==
    call[r].op = "Refresh" =>
        /\ pc[r] \in {"user", "rotate", "revoke"} => Of(call[r].tok, loc[r].sid)
        /\ pc[r] = "issue" \/ (pc[r] = "done" /\ loc[r].res = "ok")
             => loc[r].spent = call[r].tok /\ Of(call[r].tok, loc[r].sid)
        /\ pc[r] = "done" /\ loc[r].res \in {"reused", "userGone"}
             => Of(call[r].tok, loc[r].sid) /\ Ended(loc[r].sid)
        /\ pc[r] = "done" /\ loc[r].res = "revoked"
             => \E s \in SessionId : Of(call[r].tok, s) /\ Ended(s)

PrevInv ==
    \A s \in Opened : sessions[s].prev # NoToken =>
        \E q \in Request : loc[q].spent = sessions[s].prev /\ loc[q].sid = s

LineInv == PrevInv /\ \A r \in Request : FoundAt(r)
------------------------------------------------------------------------------
(***************************************************************************)
(* What one step does to the two tables.                                   *)
(***************************************************************************)

\* The other requests stay where they are.
Frame(r) ==
    \A q \in Request \ {r} : pc'[q] = pc[q] /\ call'[q] = call[q] /\ loc'[q] = loc[q]

\* Rows are only closed.
Closing ==
    \A s \in SessionId :
        \/ sessions'[s] = sessions[s]
        \/ s \in Live /\ sessions'[s] = [sessions[s] EXCEPT !.status = "revoked"]
        \/ s \in Stored /\ sessions'[s] = [sessions[s] EXCEPT !.status = "deleted"]

\* Request r stores the session of its login in row s.
Creates(r, s) ==
    /\ pc[r] = "create" /\ pc'[r] = "issue" /\ HasUser(call[r].user)
    /\ sessions[s].status = "free"
    /\ sessions' = [sessions EXCEPT ![s] =
         NewRow(call[r].user, loc[r].next, loc[r].exp, loc[r].ver)]
    /\ call' = call /\ loc' = [loc EXCEPT ![r].sid = s]

\* Request r replaces the current token of its session.
Rotates(r) ==
    /\ pc[r] = "rotate" /\ pc'[r] = "issue"
    /\ loc[r].sid \in SessionId /\ Rotatable(r)
    /\ sessions' = [sessions EXCEPT
         ![loc[r].sid].prev = sessions[loc[r].sid].cur,
         ![loc[r].sid].cur = loc[r].next, ![loc[r].sid].exp = loc[r].exp]
    /\ call' = call /\ loc' = [loc EXCEPT ![r].spent = call[r].tok]

LEMMA RotatedRow ==
    ASSUME TypeInv, NEW r \in Request, Rotates(r)
    PROVE  /\ sessions'[loc[r].sid].prev = sessions[loc[r].sid].cur
           /\ sessions'[loc[r].sid].cur = loc[r].next
           /\ \A x \in SessionId : x # loc[r].sid => sessions'[x] = sessions[x]
<1> DEFINE s == loc[r].sid
<1>1. /\ s \in SessionId
      /\ sessions' = [sessions EXCEPT ![s].prev = sessions[s].cur,
                                      ![s].cur = loc[r].next,
                                      ![s].exp = loc[r].exp]
    BY DEF Rotates
<1> HIDE DEF s
<1>2. /\ sessions'[s].prev = sessions[s].cur /\ sessions'[s].cur = loc[r].next
      /\ \A x \in SessionId : x # s => sessions'[x] = sessions[x]
    BY <1>1 DEF TypeInv, StoreOK, SessionRow
<1> QED BY <1>2 DEF s

LEMMA ClosedRow ==
    ASSUME TypeInv, Closing, NEW s \in SessionId
    PROVE  sessions'[s].cur = sessions[s].cur /\ sessions'[s].prev = sessions[s].prev
<1>1. sessions[s] \in SessionRow
    BY DEF TypeInv, StoreOK
<1>2. ASSUME NEW st, sessions'[s] = [sessions[s] EXCEPT !.status = st]
      PROVE  sessions'[s].cur = sessions[s].cur /\ sessions'[s].prev = sessions[s].prev
    BY <1>1, <1>2 DEF SessionRow
<1> QED BY <1>2 DEF Closing

LEMMA ClosingActions ==
    ASSUME TypeInv, NEW r \in Request, Revoke(r) \/ RevokeAll(r) \/ DeleteUser(r)
    PROVE  Closing
<1>1. CASE Revoke(r)
    <2>1. CASE sessions' = [sessions EXCEPT ![loc[r].sid].status = "revoked"]
               /\ sessions[loc[r].sid].status = "live"
        BY <2>1 DEF Closing, Live, TypeInv, StoreOK, SessionRow
    <2>2. CASE sessions' = [sessions EXCEPT ![loc[r].sid].status = @]
        BY <2>2 DEF Closing, TypeInv, StoreOK, SessionRow
    <2> QED BY <1>1, <2>1, <2>2 DEF Revoke
<1>2. CASE RevokeAll(r)
    BY <1>2 DEF Closing, RevokeAll, LiveOf, Live, TypeInv, StoreOK, SessionRow
<1>3. CASE DeleteUser(r)
    BY <1>3 DEF Closing, DeleteUser, Cascade, Stored, TypeInv, StoreOK, SessionRow
<1> QED BY <1>1, <1>2, <1>3

\* The sessions table changes in no other way.
LEMMA SessionsStep ==
    ASSUME TypeInv, NEW r \in Request,
           \/ StartLogin(r) \/ StartTokenOp(r)
           \/ StartLogoutAll(r) \/ StartChangePassword(r)
           \/ StartDeleteUser(r) \/ StartGetMe(r)
           \/ LoginVerify(r) \/ LoginCreate(r) \/ Issue(r)
           \/ RefreshFind(r) \/ RefreshUser(r) \/ RefreshRotate(r)
           \/ LogoutFind(r) \/ Revoke(r)
           \/ Authenticate(r) \/ LogoutAllBump(r)
           \/ ChangePasswordCheck(r) \/ ChangePasswordUpdate(r)
           \/ RevokeAll(r) \/ DeleteUser(r) \/ GetMe(r) \/ Abort(r)
    PROVE  /\ Frame(r)
           /\ \/ Closing
              \/ \E s \in SessionId : Creates(r, s)
              \/ Rotates(r)
<1>1. CASE \/ StartLogin(r) \/ StartTokenOp(r) \/ StartLogoutAll(r)
           \/ StartChangePassword(r) \/ StartDeleteUser(r) \/ StartGetMe(r)
    <2>1. \E c, first : Arrive(r, c, first)
        BY <1>1 DEF StartLogin, StartTokenOp, StartLogoutAll, StartChangePassword,
                    StartDeleteUser, StartGetMe
    <2> QED BY <2>1 DEF Arrive, GoTo, Frame, Closing, TypeInv, RequestsOK
<1>2. CASE LoginVerify(r)
    BY <1>2 DEF LoginVerify, GoTo, Finish, Frame, Closing, TypeInv, RequestsOK
<1>3. CASE LoginCreate(r)
    <2>1. Frame(r)
        BY <1>3 DEF LoginCreate, GoTo, Finish, Frame, TypeInv, RequestsOK
    <2>2. CASE HasUser(call[r].user)
        BY <1>3, <2>1, <2>2 DEF LoginCreate, Creates, At, GoTo, TypeInv, RequestsOK
    <2>3. CASE ~HasUser(call[r].user)
        BY <1>3, <2>1, <2>3 DEF LoginCreate, Closing
    <2> QED BY <2>2, <2>3
<1>4. CASE RefreshUser(r)
    BY <1>4 DEF RefreshUser, GoTo, Finish, Frame, Closing, TypeInv, RequestsOK
<1>5. CASE RefreshRotate(r)
    <2>1. Frame(r)
        BY <1>5 DEF RefreshRotate, GoTo, Frame, TypeInv, RequestsOK
    <2>2. CASE Rotatable(r)
        BY <1>5, <2>1, <2>2
           DEF RefreshRotate, Rotates, At, GoTo, TypeInv, RequestsOK, Known
    <2>3. CASE ~Rotatable(r)
        BY <1>5, <2>1, <2>3 DEF RefreshRotate, Closing
    <2> QED BY <2>2, <2>3
<1>6. CASE Issue(r) \/ RefreshFind(r) \/ LogoutFind(r)
    <2>1. Closing
        BY <1>6 DEF Issue, RefreshFind, LogoutFind, Closing
    <2>2. Frame(r)
        BY <1>6 DEF Issue, RefreshFind, LogoutFind, GoTo, Finish, Frame,
                    TypeInv, RequestsOK
    <2> QED BY <2>1, <2>2
<1>7. CASE Revoke(r) \/ RevokeAll(r) \/ DeleteUser(r)
    <2>1. Frame(r)
        BY <1>7 DEF Revoke, RevokeAll, DeleteUser, GoTo, Finish, Frame,
                    TypeInv, RequestsOK
    <2> QED BY <1>7, <2>1, ClosingActions
<1>8. CASE \/ Authenticate(r) \/ LogoutAllBump(r) \/ ChangePasswordCheck(r)
           \/ ChangePasswordUpdate(r) \/ GetMe(r) \/ Abort(r)
    <2>1. Closing
        BY <1>8 DEF Authenticate, LogoutAllBump, ChangePasswordCheck,
                    ChangePasswordUpdate, GetMe, Abort, Closing
    <2>2. Frame(r)
        BY <1>8 DEF Authenticate, LogoutAllBump, ChangePasswordCheck,
                    ChangePasswordUpdate, GetMe, Abort, GoTo, Finish, Frame,
                    TypeInv, RequestsOK
    <2> QED BY <2>1, <2>2
<1> QED BY <1>1, <1>2, <1>3, <1>4, <1>5, <1>6, <1>7, <1>8

\* A version never goes back, a deleted user stays deleted, an opened session
\* stays its user's, and one that is not live stays that.
Growing ==
    /\ \A u \in User :
         users[u].ver <= users'[u].ver /\ (users'[u].live => users[u].live)
    /\ \A s \in Opened :
         /\ s \in Opened' /\ sessions'[s].user = sessions[s].user
         /\ s \in Live' => s \in Live

LEMMA UsersStep ==
    ASSUME TypeInv, [Next]_vars
    PROVE  \A u \in User :
             users[u].ver <= users'[u].ver /\ (users'[u].live => users[u].live)
<1>1. CASE users' = users
    BY <1>1 DEF TypeInv, StoreOK, UserRow
<1>2. ASSUME NEW r \in Request, LogoutAllBump(r) \/ ChangePasswordUpdate(r)
      PROVE  users' = users
             \/ \E u \in User : \E pw :
                    users' = [users EXCEPT ![u].pw = pw, ![u].ver = users[u].ver + 1]
    <2>1. call[r].user \in User
        BY DEF TypeInv, RequestsOK, Call
    <2>2. CASE LogoutAllBump(r)
        <3> DEFINE u == call[r].user
        <3>1. users' = users \/ users' = [users EXCEPT ![u].ver = users[u].ver + 1]
            BY <2>2 DEF LogoutAllBump, NextVersion
        <3>2. [users EXCEPT ![u].ver = users[u].ver + 1] =
                [users EXCEPT ![u].pw = users[u].pw, ![u].ver = users[u].ver + 1]
            BY <2>1 DEF TypeInv, StoreOK, UserRow
        <3> HIDE DEF u
        <3> QED BY <2>1, <3>1, <3>2 DEF u
    <2>3. CASE ChangePasswordUpdate(r)
        BY <2>1, <2>3 DEF ChangePasswordUpdate, NextVersion
    <2> QED BY <1>2, <2>2, <2>3
<1>3. ASSUME NEW u \in User, NEW pw,
             users' = [users EXCEPT ![u].pw = pw, ![u].ver = users[u].ver + 1]
      PROVE  \A x \in User :
               users[x].ver <= users'[x].ver /\ users'[x].live = users[x].live
    BY <1>3 DEF TypeInv, StoreOK, UserRow
<1>4. ASSUME NEW r \in Request, DeleteUser(r)
      PROVE  \A x \in User :
               users[x].ver <= users'[x].ver /\ (users'[x].live => users[x].live)
    BY <1>4 DEF DeleteUser, TypeInv, StoreOK, UserRow
<1>5. CASE \E r \in Request : LogoutAllBump(r) \/ ChangePasswordUpdate(r)
    BY <1>1, <1>2, <1>3, <1>5
<1>6. CASE \E r \in Request : DeleteUser(r)
    BY <1>4, <1>6
<1>7. ASSUME NEW r \in Request,
             \/ StartLogin(r) \/ StartTokenOp(r)
             \/ StartLogoutAll(r) \/ StartChangePassword(r)
             \/ StartDeleteUser(r) \/ StartGetMe(r)
             \/ LoginVerify(r) \/ LoginCreate(r) \/ Issue(r)
             \/ RefreshFind(r) \/ RefreshUser(r) \/ RefreshRotate(r)
             \/ LogoutFind(r) \/ Revoke(r) \/ Authenticate(r)
             \/ ChangePasswordCheck(r) \/ RevokeAll(r) \/ GetMe(r) \/ Abort(r)
      PROVE  users' = users
    BY <1>7 DEF StartLogin, StartTokenOp, StartLogoutAll, StartChangePassword,
                StartDeleteUser, StartGetMe, Arrive, LoginVerify, LoginCreate,
                Issue, RefreshFind, RefreshUser, RefreshRotate, LogoutFind,
                Revoke, Authenticate, ChangePasswordCheck, RevokeAll, GetMe, Abort
<1>8. CASE Tick \/ UNCHANGED vars
    BY <1>1, <1>8 DEF Tick, vars
<1> QED BY <1>1, <1>5, <1>6, <1>7, <1>8 DEF Next, Quiesce

LEMMA GrowingStep == ASSUME TypeInv, [Next]_vars PROVE Growing
<1> DEFINE Kept(s) == /\ s \in Opened' /\ sessions'[s].user = sessions[s].user
                      /\ s \in Live' => s \in Live
<1> SUFFICES \A s \in Opened : Kept(s)
    BY UsersStep DEF Growing
<1>1. ASSUME Closing PROVE \A s \in Opened : Kept(s)
    BY <1>1 DEF Closing, Opened, Live, Stored, TypeInv, StoreOK, SessionRow
<1>2. ASSUME NEW r, NEW x \in SessionId, Creates(r, x)
      PROVE  \A s \in Opened : Kept(s)
    BY <1>2 DEF Creates, Opened, Live, TypeInv, StoreOK
<1>3. ASSUME NEW r, Rotates(r) PROVE \A s \in Opened : Kept(s)
    BY <1>3 DEF Rotates, Rotatable, Opened, Live, TypeInv, StoreOK, SessionRow
<1>4. CASE Tick \/ UNCHANGED vars
    BY <1>1, <1>4 DEF Tick, vars, Closing
<1> QED BY <1>1, <1>2, <1>3, <1>4, SessionsStep DEF Next, Quiesce
RevokedStep ==
    \A s \in SessionId : sessions[s].status \in {"revoked", "deleted"} =>
        \/ sessions'[s] = sessions[s]
        \/ sessions'[s] = [sessions[s] EXCEPT !.status = "deleted"]

LEMMA RevokedNext == TypeInv /\ [Next]_vars => RevokedStep
<1> SUFFICES ASSUME TypeInv, [Next]_vars PROVE RevokedStep
    OBVIOUS
<1>1. ASSUME Closing PROVE RevokedStep
    BY <1>1 DEF Closing, Live, RevokedStep
<1>2. ASSUME NEW r, NEW x \in SessionId, Creates(r, x) PROVE RevokedStep
    BY <1>2 DEF Creates, TypeInv, StoreOK, RevokedStep
<1>3. ASSUME NEW r, Rotates(r) PROVE RevokedStep
    BY <1>3 DEF Rotates, Rotatable, TypeInv, StoreOK, RevokedStep
<1>4. CASE Tick \/ UNCHANGED vars
    BY <1>4 DEF Tick, vars, RevokedStep
<1> QED BY <1>1, <1>2, <1>3, <1>4, SessionsStep DEF Next, Quiesce

\* A revoked session stays as it is until its user is deleted, for every
\* number of requests, whatever they read of it before it was revoked.
THEOREM RevokedStays == Spec => RevokedForever
<1>1. TypeInv /\ [Next]_vars => [RevokedStep]_vars
    BY RevokedNext
<1> QED BY <1>1, TypeInit, TypeNext, PTL DEF Spec, RevokedForever, RevokedStep
------------------------------------------------------------------------------
(***************************************************************************)
(* Deletion.                                                               *)
(***************************************************************************)

\* A step that deletes a user leaves none of its sessions stored.
LEMMA DeletionStep ==
    ASSUME TypeInv, [Next]_vars, NEW u \in User, users[u].live, ~users'[u].live
    PROVE  \A s \in SessionId : s \in Stored' => sessions'[s].user # u
<1>1. ASSUME NEW r \in Request, DeleteUser(r)
      PROVE  \A s \in SessionId : s \in Stored' => sessions'[s].user # u
    <2>1. users[call[r].user].live
        BY <1>1 DEF DeleteUser
    <2>2. call[r].user = u
        BY <1>1, <2>1 DEF DeleteUser, TypeInv, StoreOK, UserRow
    <2>3. sessions' = [s \in SessionId |-> [sessions[s] EXCEPT !.status =
                         IF s \in Cascade(u) THEN "deleted" ELSE @]]
        BY <1>1, <2>1, <2>2 DEF DeleteUser
    <2> QED BY <2>3 DEF Cascade, Stored, TypeInv, StoreOK, SessionRow
<1>2. ASSUME NEW r \in Request, LogoutAllBump(r) \/ ChangePasswordUpdate(r)
      PROVE  users'[u].live = users[u].live
    <2>1. CASE LogoutAllBump(r)
        BY <2>1 DEF LogoutAllBump, TypeInv, StoreOK, UserRow
    <2>2. CASE ChangePasswordUpdate(r)
        BY <2>2 DEF ChangePasswordUpdate, TypeInv, StoreOK, UserRow
    <2> QED BY <1>2, <2>1, <2>2
<1>3. ASSUME NEW r \in Request,
             \/ StartLogin(r) \/ StartTokenOp(r)
             \/ StartLogoutAll(r) \/ StartChangePassword(r)
             \/ StartDeleteUser(r) \/ StartGetMe(r)
             \/ LoginVerify(r) \/ LoginCreate(r) \/ Issue(r)
             \/ RefreshFind(r) \/ RefreshUser(r) \/ RefreshRotate(r)
             \/ LogoutFind(r) \/ Revoke(r) \/ Authenticate(r)
             \/ ChangePasswordCheck(r) \/ RevokeAll(r) \/ GetMe(r) \/ Abort(r)
      PROVE  users' = users
    BY <1>3 DEF StartLogin, StartTokenOp, StartLogoutAll, StartChangePassword,
                StartDeleteUser, StartGetMe, Arrive, LoginVerify, LoginCreate,
                Issue, RefreshFind, RefreshUser, RefreshRotate, LogoutFind,
                Revoke, Authenticate, ChangePasswordCheck, RevokeAll, GetMe, Abort
<1>4. CASE Tick \/ UNCHANGED vars
    BY <1>4 DEF Tick, vars
<1> QED BY <1>1, <1>2, <1>3, <1>4 DEF Next, Quiesce

LEMMA DeletedInit == Init => DeletedUserHasNoSession
<1> SUFFICES ASSUME Init PROVE DeletedUserHasNoSession
    OBVIOUS
<1>1. TypeInv
    BY TypeInit
<1>2. \A u \in User : users[u].live
    BY DEF Init
<1> QED BY <1>1, <1>2 DEF DeletedUserHasNoSession, Stored, TypeInv, StoreOK, SessionRow

LEMMA DeletedNext ==
    TypeInv /\ DeletedUserHasNoSession /\ [Next]_vars => DeletedUserHasNoSession'
<1> SUFFICES ASSUME TypeInv, DeletedUserHasNoSession, [Next]_vars,
                    NEW s \in Stored'
             PROVE  users'[sessions'[s].user].live
    BY DEF DeletedUserHasNoSession
<1>1. s \in SessionId /\ sessions'[s].user \in User
    BY TypeNext DEF Stored, TypeInv, StoreOK, SessionRow
<1> SUFFICES users[sessions'[s].user].live
    BY <1>1, DeletionStep DEF TypeInv, StoreOK
<1>2. CASE s \in Stored
    <2>1. sessions'[s].user = sessions[s].user
        BY <1>2, GrowingStep DEF Growing, Opened, Stored
    <2> QED BY <1>2, <2>1 DEF DeletedUserHasNoSession
<1>3. ASSUME s \notin Stored, Closing PROVE FALSE
    BY <1>1, <1>3 DEF Closing, Live, Stored
<1>4. ASSUME s \notin Stored, NEW r \in Request, NEW x \in SessionId, Creates(r, x)
      PROVE  users[sessions'[s].user].live
    BY <1>1, <1>4 DEF Creates, HasUser, NewRow, Stored, TypeInv, StoreOK
<1>5. ASSUME s \notin Stored, NEW r \in Request, Rotates(r) PROVE FALSE
    BY <1>1, <1>5 DEF Rotates, Rotatable, Stored, TypeInv, StoreOK, SessionRow
<1>6. ASSUME s \notin Stored, Tick \/ UNCHANGED vars PROVE FALSE
    BY <1>1, <1>6 DEF Tick, vars, Stored
<1> QED BY <1>2, <1>3, <1>4, <1>5, <1>6, SessionsStep DEF Next, Quiesce

\* No session of a deleted user is stored, whatever Login and Refresh read
\* before the deletion.
THEOREM DeletedEndsSessions == Spec => []DeletedUserHasNoSession
BY TypeInit, TypeNext, DeletedInit, DeletedNext, PTL DEF Spec
------------------------------------------------------------------------------
(***************************************************************************)
(* Where a request is.                                                     *)
(***************************************************************************)
LEMMA PlaceInit == Init => PlaceInv
BY DEF Init, PlaceInv, OpAt, SidAt

\* A request that a step leaves alone keeps its place.
LEMMA PlaceKept ==
    ASSUME PlaceInv, Growing, NEW q \in Request,
           pc'[q] = pc[q], call'[q] = call[q], loc'[q] = loc[q]
    PROVE  OpAt(q)' /\ SidAt(q)'
BY DEF PlaceInv, OpAt, SidAt, Growing, SignOut

\* A request that is answered.
LEMMA PlaceDone ==
    ASSUME TypeInv, PlaceInv, NEW r \in Request, NEW res, Finish(r, res),
           call' = call, res # "revoked" \/ pc[r] = "find"
    PROVE  OpAt(r)' /\ SidAt(r)'
BY DEF PlaceInv, OpAt, SidAt, Finish, GoTo, TypeInv, RequestsOK, Local

LEMMA PlaceArrive ==
    ASSUME TypeInv, PlaceInv, NEW r \in Request, NEW c, NEW first, Arrive(r, c, first),
           \/ first = "verify" /\ c.op = "Login"
           \/ first = "find" /\ c.op \in {"Refresh", "Logout"}
           \/ first = "authenticate"
    PROVE  OpAt(r)' /\ SidAt(r)'
BY DEF PlaceInv, OpAt, SidAt, Arrive, At, GoTo, TypeInv, RequestsOK

LEMMA PlaceStart ==
    ASSUME TypeInv, PlaceInv, NEW r \in Request,
           \/ StartLogin(r) \/ StartTokenOp(r) \/ StartLogoutAll(r)
           \/ StartChangePassword(r) \/ StartDeleteUser(r) \/ StartGetMe(r)
    PROVE  OpAt(r)' /\ SidAt(r)'
<1>1. NoCall.op = "GetMe" /\ \A o : [NoCall EXCEPT !.op = o].op = o
    BY DEF NoCall
<1>2. CASE StartLogin(r)
    BY <1>1, <1>2, PlaceArrive DEF StartLogin, NoCall
<1>3. CASE StartTokenOp(r)
    BY <1>1, <1>3, PlaceArrive DEF StartTokenOp, NoCall
<1>4. CASE \/ StartLogoutAll(r) \/ StartChangePassword(r)
           \/ StartDeleteUser(r) \/ StartGetMe(r)
    <2>1. \E c : Arrive(r, c, "authenticate")
        BY <1>4 DEF StartLogoutAll, StartChangePassword, StartDeleteUser, StartGetMe
    <2> QED BY <2>1, PlaceArrive
<1> QED BY <1>2, <1>3, <1>4

LEMMA PlaceToken ==
    ASSUME TypeInv, PlaceInv, Growing, NEW r \in Request,
           \/ LoginVerify(r) \/ LoginCreate(r) \/ Issue(r)
           \/ RefreshFind(r) \/ RefreshUser(r) \/ RefreshRotate(r)
           \/ LogoutFind(r) \/ Revoke(r)
    PROVE  OpAt(r)' /\ SidAt(r)'
<1>1. CASE LoginVerify(r)
    BY <1>1, PlaceDone DEF LoginVerify, PlaceInv, OpAt, SidAt, At, GoTo, TypeInv, RequestsOK
<1>2. CASE LoginCreate(r)
    <2>1. CASE ~HasUser(call[r].user)
        BY <1>2, <2>1, PlaceDone DEF LoginCreate
    <2>2. CASE HasUser(call[r].user)
        <3>1. PICK s \in SessionId : Creates(r, s)
            BY <1>2, <2>2 DEF LoginCreate, Creates, At, GoTo, TypeInv, RequestsOK
        <3>2. s \in Opened'
            BY <3>1 DEF Creates, Opened, NewRow, TypeInv, StoreOK
        <3>3. loc'[r].sid = s
            BY <3>1 DEF Creates, TypeInv, RequestsOK, Local
        <3> QED BY <3>1, <3>2, <3>3 DEF Creates, PlaceInv, OpAt, SidAt
    <2> QED BY <2>1, <2>2
<1>3. CASE Issue(r)
    BY <1>3, PlaceDone DEF Issue
<1>4. CASE RefreshFind(r)
    <2>1. pc[r] = "find" /\ call' = call /\ call[r].op = "Refresh"
          /\ sessions' = sessions
        BY <1>4 DEF RefreshFind, At
    <2>2. CASE \E res : Finish(r, res)
        BY <2>1, <2>2, PlaceDone
    <2>3. CASE \E s \in Opened, step \in {"revoke", "user"} :
                 loc' = [loc EXCEPT ![r].sid = s] /\ GoTo(r, step)
        BY <2>1, <2>3 DEF PlaceInv, OpAt, SidAt, GoTo, TypeInv, RequestsOK, Local,
                          Opened
    <2> QED BY <1>4, <2>2, <2>3 DEF RefreshFind, FindSessionByToken, Stored, Opened
<1>5. CASE RefreshUser(r)
    <2>1. pc[r] = "user" /\ call' = call /\ sessions' = sessions
        BY <1>5 DEF RefreshUser, At
    <2>2. CASE Finish(r, "userGone")
        BY <2>1, <2>2, PlaceDone
    <2>3. CASE ~Finish(r, "userGone")
        <3>1. pc'[r] = "rotate" /\ loc'[r].sid = loc[r].sid
            BY <1>5, <2>3 DEF RefreshUser, GoTo, TypeInv, RequestsOK, Local
        <3> QED BY <2>1, <3>1 DEF PlaceInv, OpAt, SidAt, Opened
    <2> QED BY <2>2, <2>3
<1>6. CASE RefreshRotate(r)
    <2>1. /\ pc[r] = "rotate" /\ call' = call /\ pc'[r] \in {"issue", "revoke"}
          /\ loc'[r].sid = loc[r].sid
        BY <1>6 DEF RefreshRotate, At, GoTo, TypeInv, RequestsOK, Local
    <2> QED BY <2>1 DEF PlaceInv, OpAt, SidAt, Growing
<1>7. CASE LogoutFind(r)
    <2>1. pc[r] = "find" /\ call' = call /\ call[r].op = "Logout"
          /\ sessions' = sessions
        BY <1>7 DEF LogoutFind, At
    <2>2. CASE Finish(r, "ok")
        BY <2>1, <2>2, PlaceDone
    <2>3. CASE \E s \in Opened : loc' = [loc EXCEPT ![r].sid = s] /\ GoTo(r, "revoke")
        BY <2>1, <2>3 DEF PlaceInv, OpAt, SidAt, GoTo, TypeInv, RequestsOK, Local,
                          Opened
    <2> QED BY <1>7, <2>2, <2>3 DEF LogoutFind, FindSessionByToken, Stored, Opened
<1>8. CASE Revoke(r)
    <2>1. \E res \in {"reused", "ok"} : Finish(r, res)
        BY <1>8 DEF Revoke
    <2> QED BY <1>8, <2>1, PlaceDone DEF Revoke
<1> QED BY <1>1, <1>2, <1>3, <1>4, <1>5, <1>6, <1>7, <1>8

LEMMA PlaceBearer ==
    ASSUME TypeInv, PlaceInv, Growing, NEW r \in Request,
           \/ Authenticate(r) \/ LogoutAllBump(r) \/ ChangePasswordCheck(r)
           \/ ChangePasswordUpdate(r) \/ RevokeAll(r) \/ DeleteUser(r)
           \/ GetMe(r) \/ Abort(r)
    PROVE  OpAt(r)' /\ SidAt(r)'
<1>1. call' = call
    BY DEF Authenticate, LogoutAllBump, ChangePasswordCheck, ChangePasswordUpdate,
           RevokeAll, DeleteUser, GetMe, Abort
<1>2. CASE \E res : Finish(r, res) /\ res # "revoked"
    BY <1>1, <1>2, PlaceDone
<1>3. CASE Authenticate(r) /\ GoTo(r, AfterAuthenticate[call[r].op])
    <2>1. call[r].op \in BearerOp
        BY <1>3 DEF Authenticate, At, TypeInv, RequestsOK, Known
    <2>2. pc'[r] = AfterAuthenticate[call[r].op]
        BY <1>3 DEF GoTo, TypeInv, RequestsOK
    <2> QED BY <1>1, <2>1, <2>2 DEF AfterAuthenticate, BearerOp, OpAt, SidAt
<1>4. CASE LogoutAllBump(r) /\ GoTo(r, "revokeAll")
    BY <1>1, <1>4 DEF LogoutAllBump, At, GoTo, PlaceInv, OpAt, SidAt, SignOut,
                      TypeInv, RequestsOK
<1>5. CASE ChangePasswordCheck(r) /\ GoTo(r, "update")
    BY <1>1, <1>5 DEF ChangePasswordCheck, At, GoTo, PlaceInv, OpAt, SidAt,
                      TypeInv, RequestsOK
<1>6. CASE ChangePasswordUpdate(r) /\ GoTo(r, "revokeAll")
    BY <1>1, <1>6 DEF ChangePasswordUpdate, At, GoTo, PlaceInv, OpAt, SidAt, SignOut,
                      TypeInv, RequestsOK
<1>7. Authenticate(r) => \/ Finish(r, "unauthorized")
                         \/ GoTo(r, AfterAuthenticate[call[r].op])
    BY DEF Authenticate
<1>8. LogoutAllBump(r) => Finish(r, "notFound") \/ GoTo(r, "revokeAll")
    BY DEF LogoutAllBump
<1>9. ChangePasswordCheck(r) => \/ Finish(r, "notFound") \/ Finish(r, "invalid")
                                \/ GoTo(r, "update")
    BY DEF ChangePasswordCheck
<1>10. ChangePasswordUpdate(r) => Finish(r, "notFound") \/ GoTo(r, "revokeAll")
    BY DEF ChangePasswordUpdate
<1>11. RevokeAll(r) \/ DeleteUser(r) \/ GetMe(r) \/ Abort(r)
         => Finish(r, "ok") \/ Finish(r, "notFound") \/ Finish(r, "error")
    BY DEF RevokeAll, DeleteUser, GetMe, Abort
<1> QED BY <1>2, <1>3, <1>4, <1>5, <1>6, <1>7, <1>8, <1>9, <1>10, <1>11

LEMMA PlaceNext == TypeInv /\ PlaceInv /\ [Next]_vars => PlaceInv'
<1> SUFFICES ASSUME TypeInv, PlaceInv, [Next]_vars, NEW q \in Request
             PROVE  OpAt(q)' /\ SidAt(q)'
    BY DEF PlaceInv
<1>1. Growing
    BY GrowingStep
<1>2. CASE Tick \/ UNCHANGED vars
    BY <1>1, <1>2, PlaceKept DEF Tick, vars
<1>3. ASSUME NEW r \in Request, Frame(r), r # q PROVE OpAt(q)' /\ SidAt(q)'
    BY <1>1, <1>3, PlaceKept DEF Frame
<1> QED BY <1>1, <1>2, <1>3, SessionsStep, PlaceStart, PlaceToken, PlaceBearer
           DEF Next, Quiesce------------------------------------------------------------------------------
(***************************************************************************)
(* Versions and sign-outs.                                                 *)
(***************************************************************************)

\* Only four steps take a request where it is about to write a session or to
\* answer with a token.
LEMMA OtherSteps ==
    ASSUME TypeInv, NEW r \in Request,
           \/ StartLogin(r) \/ StartTokenOp(r)
           \/ StartLogoutAll(r) \/ StartChangePassword(r)
           \/ StartDeleteUser(r) \/ StartGetMe(r)
           \/ Issue(r) \/ RefreshFind(r) \/ LogoutFind(r) \/ Revoke(r)
           \/ Authenticate(r) \/ LogoutAllBump(r)
           \/ ChangePasswordCheck(r) \/ ChangePasswordUpdate(r)
           \/ RevokeAll(r) \/ DeleteUser(r) \/ GetMe(r) \/ Abort(r)
    PROVE  pc'[r] \notin {"create", "rotate", "issue"}
<1>1. CASE \/ StartLogin(r) \/ StartTokenOp(r) \/ StartLogoutAll(r)
           \/ StartChangePassword(r) \/ StartDeleteUser(r) \/ StartGetMe(r)
    <2>1. ASSUME NEW c, NEW first, Arrive(r, c, first) PROVE pc'[r] = first
        BY <2>1 DEF Arrive, GoTo, TypeInv, RequestsOK
    <2>2. CASE StartLogin(r)
        BY <2>1, <2>2 DEF StartLogin
    <2>3. CASE StartTokenOp(r)
        BY <2>1, <2>3 DEF StartTokenOp
    <2>4. CASE \/ StartLogoutAll(r) \/ StartChangePassword(r)
               \/ StartDeleteUser(r) \/ StartGetMe(r)
        <3>1. \E c : Arrive(r, c, "authenticate")
            BY <2>4 DEF StartLogoutAll, StartChangePassword, StartDeleteUser,
                        StartGetMe
        <3> QED BY <2>1, <3>1
    <2> QED BY <1>1, <2>2, <2>3, <2>4
<1>2. CASE Authenticate(r)
    <2>1. call[r].op \in BearerOp
        BY <1>2 DEF Authenticate, At, TypeInv, RequestsOK, Known
    <2>2. AfterAuthenticate[call[r].op] \in {"bump", "check", "delete", "get"}
        BY <2>1 DEF AfterAuthenticate, BearerOp
    <2>3. pc'[r] \in {"done", AfterAuthenticate[call[r].op]}
        BY <1>2 DEF Authenticate, Finish, GoTo, TypeInv, RequestsOK
    <2> QED BY <2>2, <2>3
<1>3. CASE Issue(r) \/ RefreshFind(r) \/ LogoutFind(r) \/ Revoke(r)
    BY <1>3 DEF Issue, RefreshFind, LogoutFind, Revoke, Finish, GoTo,
                TypeInv, RequestsOK
<1>4. CASE \/ LogoutAllBump(r) \/ ChangePasswordCheck(r) \/ ChangePasswordUpdate(r)
           \/ RevokeAll(r) \/ DeleteUser(r) \/ GetMe(r) \/ Abort(r)
    BY <1>4 DEF LogoutAllBump, ChangePasswordCheck, ChangePasswordUpdate,
                RevokeAll, DeleteUser, GetMe, Abort, Finish, GoTo,
                TypeInv, RequestsOK
<1> QED BY <1>1, <1>2, <1>3, <1>4

\* The access tokens a client can get come from requests about to answer.
LEMMA AccessStep ==
    ASSUME TypeInv, [Next]_vars, NEW a \in access', a \notin access
    PROVE  \E r \in Request : pc[r] = "issue" /\
             a = [user |-> sessions[loc[r].sid].user, ver |-> loc[r].ver,
                  sid |-> loc[r].sid]
<1>1. ASSUME NEW r \in Request, Issue(r)
      PROVE  pc[r] = "issue" /\
             a = [user |-> sessions[loc[r].sid].user, ver |-> loc[r].ver,
                  sid |-> loc[r].sid]
    BY <1>1 DEF Issue, At
<1>2. ASSUME NEW r \in Request,
             \/ StartLogin(r) \/ StartTokenOp(r)
             \/ StartLogoutAll(r) \/ StartChangePassword(r)
             \/ StartDeleteUser(r) \/ StartGetMe(r)
             \/ LoginVerify(r) \/ LoginCreate(r)
             \/ RefreshFind(r) \/ RefreshUser(r) \/ RefreshRotate(r)
             \/ LogoutFind(r) \/ Revoke(r)
             \/ Authenticate(r) \/ LogoutAllBump(r)
             \/ ChangePasswordCheck(r) \/ ChangePasswordUpdate(r)
             \/ RevokeAll(r) \/ DeleteUser(r) \/ GetMe(r) \/ Abort(r)
      PROVE  access' = access
    BY <1>2 DEF StartLogin, StartTokenOp, StartLogoutAll, StartChangePassword,
                StartDeleteUser, StartGetMe, Arrive, LoginVerify, LoginCreate,
                RefreshFind, RefreshUser, RefreshRotate, LogoutFind, Revoke,
                Authenticate, LogoutAllBump, ChangePasswordCheck,
                ChangePasswordUpdate, RevokeAll, DeleteUser, GetMe, Abort
<1>3. CASE Tick \/ UNCHANGED vars
    BY <1>3 DEF Tick, vars
<1> QED BY <1>1, <1>2, <1>3 DEF Next, Quiesce

LEMMA VersionInit == Init => VersionInv
<1> SUFFICES ASSUME Init PROVE VersionInv
    OBVIOUS
<1>1. TypeInv
    BY TypeInit
<1>2. \A r \in Request : VersionAt(r)
    BY DEF Init, VersionAt
<1>3. \A u \in User : users[u].ver = 0
    BY DEF Init
<1>4. \A a \in access : a.ver = 0 /\ a.user \in User
    BY <1>1 DEF Init, TypeInv, StoreOK, Claims
<1> QED BY <1>2, <1>3, <1>4 DEF VersionInv

LEMMA VersionKept ==
    ASSUME TypeInv, PlaceInv, VersionInv, Growing, TypeInv', NEW q \in Request,
           pc'[q] = pc[q], call'[q] = call[q], loc'[q] = loc[q]
    PROVE  VersionAt(q)'
<1>1. call[q].user \in User /\ loc[q].ver \in Nat
    BY DEF TypeInv, RequestsOK, Call, Local
<1>2. CASE pc[q] = "create"
    <2>1. /\ loc[q].ver <= users[call[q].user].ver
          /\ users[call[q].user].ver <= users'[call[q].user].ver
          /\ users[call[q].user].ver \in Nat /\ users'[call[q].user].ver \in Nat
        BY <1>1, <1>2 DEF VersionInv, VersionAt, Growing, TypeInv, StoreOK, UserRow
    <2> QED BY <1>1, <1>2, <2>1 DEF VersionAt
<1>3. CASE pc[q] \in {"rotate", "issue"}
    <2> DEFINE u == sessions[loc[q].sid].user
    <2>1. loc[q].sid \in Opened /\ u \in User /\ sessions'[loc[q].sid].user = u
        BY <1>3 DEF PlaceInv, SidAt, Growing, Opened, TypeInv, StoreOK, SessionRow
    <2>2. /\ loc[q].ver <= users[u].ver /\ users[u].ver <= users'[u].ver
          /\ users[u].ver \in Nat /\ users'[u].ver \in Nat
        BY <1>3, <2>1 DEF VersionInv, VersionAt, Growing, TypeInv, StoreOK, UserRow
    <2>3. loc'[q].ver <= users'[sessions'[loc'[q].sid].user].ver
        BY <1>1, <2>1, <2>2
    <2> QED BY <1>3, <2>3 DEF VersionAt
<1> QED BY <1>2, <1>3 DEF VersionAt

LEMMA VersionActs ==
    ASSUME TypeInv, PlaceInv, VersionInv, Growing, NEW r \in Request,
           LoginVerify(r) \/ LoginCreate(r) \/ RefreshUser(r) \/ RefreshRotate(r)
    PROVE  VersionAt(r)'
<1>1. call[r].user \in User /\ \A u \in User : users[u].ver \in Nat
    BY DEF TypeInv, StoreOK, RequestsOK, Call, UserRow
<1>2. CASE LoginVerify(r)
    <2>1. /\ users' = users /\ call' = call
          /\ \/ pc'[r] = "done"
             \/ pc'[r] = "create" /\ loc'[r].ver = users[call[r].user].ver
        <3>1. CASE Finish(r, "unauthorized")
            BY <1>2, <3>1 DEF LoginVerify, Finish, GoTo, TypeInv, RequestsOK
        <3>2. CASE ~Finish(r, "unauthorized")
            <4>1. PICK t \in Token :
                    /\ GoTo(r, "create")
                    /\ loc' = [loc EXCEPT ![r] =
                         [@ EXCEPT !.next = t, !.ver = users[call[r].user].ver,
                                   !.exp = now + RefreshTTL]]
                BY <1>2, <3>2 DEF LoginVerify
            <4> QED BY <1>2, <4>1 DEF LoginVerify, GoTo, TypeInv, RequestsOK, Local
        <3> QED BY <3>1, <3>2
    <2> QED BY <1>1, <2>1 DEF VersionAt
<1>3. CASE LoginCreate(r)
    <2>1. CASE ~HasUser(call[r].user)
        BY <1>3, <2>1 DEF LoginCreate, Finish, GoTo, TypeInv, RequestsOK, VersionAt
    <2>2. CASE HasUser(call[r].user)
        <3>1. PICK s \in SessionId : Creates(r, s)
            BY <1>3, <2>2 DEF LoginCreate, Creates, At, GoTo, TypeInv, RequestsOK
        <3>2. /\ sessions'[s].user = call[r].user /\ users' = users
              /\ loc'[r].sid = s /\ loc'[r].ver = loc[r].ver
            BY <1>3, <3>1 DEF LoginCreate, Creates, NewRow, TypeInv, StoreOK,
                              RequestsOK, Local
        <3> QED BY <3>1, <3>2 DEF Creates, VersionInv, VersionAt
    <2> QED BY <2>1, <2>2
<1>4. CASE RefreshUser(r)
    <2> DEFINE u == sessions[loc[r].sid].user
    <2>1. u \in User
        BY <1>4 DEF RefreshUser, At, TypeInv, StoreOK, RequestsOK, Known, SessionRow
    <2>2. /\ users' = users /\ sessions' = sessions
          /\ \/ pc'[r] = "done"
             \/ /\ pc'[r] = "rotate" /\ loc'[r].ver = users[u].ver
                /\ loc'[r].sid = loc[r].sid
        <3>1. CASE Finish(r, "userGone")
            BY <1>4, <3>1 DEF RefreshUser, Finish, GoTo, TypeInv, RequestsOK
        <3>2. CASE ~Finish(r, "userGone")
            <4>1. PICK t \in Token :
                    /\ GoTo(r, "rotate")
                    /\ loc' = [loc EXCEPT ![r] =
                         [@ EXCEPT !.next = t, !.ver = users[u].ver,
                                   !.exp = now + RefreshTTL]]
                BY <1>4, <3>2 DEF RefreshUser
            <4> HIDE DEF u
            <4> QED BY <1>4, <4>1 DEF RefreshUser, GoTo, TypeInv, RequestsOK, Local
        <3> QED BY <3>1, <3>2
    <2>3. pc'[r] = "rotate" => loc'[r].ver <= users'[sessions'[loc'[r].sid].user].ver
        BY <1>1, <2>1, <2>2
    <2> QED BY <2>2, <2>3 DEF VersionAt
<1>5. CASE RefreshRotate(r)
    <2>1. /\ users' = users /\ pc[r] = "rotate" /\ loc'[r].ver = loc[r].ver
          /\ loc'[r].sid = loc[r].sid /\ pc'[r] # "create"
        BY <1>5 DEF RefreshRotate, At, GoTo, TypeInv, RequestsOK, Local
    <2>2. sessions'[loc[r].sid].user = sessions[loc[r].sid].user
        BY <2>1 DEF PlaceInv, SidAt, Growing
    <2> QED BY <2>1, <2>2 DEF VersionInv, VersionAt
<1> QED BY <1>2, <1>3, <1>4, <1>5

LEMMA VersionNext ==
    TypeInv /\ PlaceInv /\ VersionInv /\ [Next]_vars => VersionInv'
<1> SUFFICES ASSUME TypeInv, PlaceInv, VersionInv, [Next]_vars PROVE VersionInv'
    OBVIOUS
<1>1. Growing /\ TypeInv'
    BY GrowingStep, TypeNext
<1>2. ASSUME NEW a \in access' PROVE a.ver <= users'[a.user].ver
    <2>1. a.ver \in Nat /\ a.user \in User /\ users[a.user].ver \in Nat
          /\ users'[a.user].ver \in Nat
        BY <1>1 DEF TypeInv, StoreOK, Claims, UserRow
    <2>2. users[a.user].ver <= users'[a.user].ver
        BY <1>1, <2>1 DEF Growing
    <2>3. CASE a \in access
        BY <2>1, <2>2, <2>3 DEF VersionInv
    <2>4. CASE a \notin access
        <3>1. PICK r \in Request : pc[r] = "issue" /\
                a = [user |-> sessions[loc[r].sid].user, ver |-> loc[r].ver,
                     sid |-> loc[r].sid]
            BY <2>4, AccessStep
        <3>2. a.ver <= users[a.user].ver
            BY <3>1 DEF VersionInv, VersionAt
        <3> QED BY <2>1, <2>2, <3>2
    <2> QED BY <2>3, <2>4
<1>3. ASSUME NEW q \in Request PROVE VersionAt(q)'
    <2>1. CASE Tick \/ UNCHANGED vars
        BY <1>1, <2>1, VersionKept DEF Tick, vars
    <2>2. ASSUME NEW r \in Request, Frame(r), r # q PROVE VersionAt(q)'
        BY <1>1, <2>2, VersionKept DEF Frame
    <2>3. pc'[q] \notin {"create", "rotate", "issue"} => VersionAt(q)'
        BY DEF VersionAt
    <2> QED BY <1>1, <2>1, <2>2, <2>3, SessionsStep, VersionActs, OtherSteps
               DEF Next, Quiesce
<1> QED BY <1>2, <1>3 DEF VersionInv
------------------------------------------------------------------------------
LEMMA SignOutInit == Init => SignOutInv
BY DEF Init, SignOutInv, SignOutAt, SignedOut, NoCall

\* A step that does not sign the request out keeps what it found.
LEMMA SignOutKept ==
    ASSUME TypeInv, SignOutInv, Growing, TypeInv', NEW q \in Request,
           call'[q] = call[q],
           pc'[q] = "revokeAll" => pc[q] = "revokeAll",
           SignedOut(q)' => SignedOut(q)
    PROVE  SignOutAt(q)'
<1>1. \A a \in call[q].holding :
        /\ a.user = call[q].user /\ a.user \in User /\ a.ver \in Nat
        /\ users[a.user].ver \in Nat /\ users'[a.user].ver \in Nat
        /\ a.ver <= users[a.user].ver /\ users[a.user].ver <= users'[a.user].ver
    BY DEF SignOutInv, SignOutAt, Growing, TypeInv, StoreOK, RequestsOK, Call,
           Claims, UserRow
<1>2. \A s \in call[q].before :
        /\ s \in Opened' /\ sessions'[s].user = call[q].user
        /\ s \in Live' => s \in Live
    BY DEF SignOutInv, SignOutAt, Growing
<1>3. \A a \in call[q].holding : a.ver <= users'[a.user].ver
    BY <1>1
<1>4. pc'[q] = "revokeAll" \/ SignedOut(q)'
        => \A a \in call[q].holding : a.ver < users'[a.user].ver
    BY <1>1 DEF SignOutInv, SignOutAt
<1>5. SignedOut(q)' => call[q].before \cap Live' = {}
    BY <1>2 DEF SignOutInv, SignOutAt
<1> QED BY <1>1, <1>2, <1>3, <1>4, <1>5 DEF SignOutAt

\* A request that is answered without signing out.
LEMMA SignOutDone ==
    ASSUME TypeInv, PlaceInv, NEW r \in Request,
           \/ LoginVerify(r) \/ LoginCreate(r) \/ Issue(r)
           \/ RefreshFind(r) \/ RefreshUser(r) \/ RefreshRotate(r)
           \/ LogoutFind(r) \/ Revoke(r) \/ Authenticate(r)
           \/ ChangePasswordCheck(r) \/ DeleteUser(r) \/ GetMe(r) \/ Abort(r)
    PROVE  call' = call /\ pc'[r] # "revokeAll" /\ ~SignedOut(r)'
<1>1. call' = call
    BY DEF LoginVerify, LoginCreate, Issue, RefreshFind, RefreshUser, RefreshRotate,
           LogoutFind, Revoke, Authenticate, ChangePasswordCheck, DeleteUser,
           GetMe, Abort
<1>2. CASE \E res : Finish(r, res) /\ res # "ok"
    BY <1>1, <1>2 DEF Finish, GoTo, SignedOut, TypeInv, RequestsOK, Local
<1>3. CASE Finish(r, "ok") /\ call[r].op \notin SignOut
    BY <1>1, <1>3 DEF Finish, GoTo, SignedOut, TypeInv, RequestsOK
<1>4. CASE \E step : GoTo(r, step) /\ step \notin {"done", "revokeAll"}
    BY <1>1, <1>4 DEF GoTo, SignedOut, TypeInv, RequestsOK
<1>5. LoginVerify(r) => Finish(r, "unauthorized") \/ GoTo(r, "create")
    BY Zenon DEF LoginVerify
<1>6. LoginCreate(r) => Finish(r, "error") \/ GoTo(r, "issue")
    BY DEF LoginCreate
<1>7. Issue(r) => Finish(r, "ok") /\ call[r].op \notin SignOut
    BY DEF Issue, At, PlaceInv, OpAt, SignOut
<1>8. RefreshFind(r) => \/ Finish(r, "noSession") \/ Finish(r, "revoked")
                        \/ Finish(r, "expired")
                        \/ GoTo(r, "revoke") \/ GoTo(r, "user")
    BY DEF RefreshFind
<1>9. RefreshUser(r) => Finish(r, "userGone") \/ GoTo(r, "rotate")
    BY Zenon DEF RefreshUser
<1>10. RefreshRotate(r) => GoTo(r, "issue") \/ GoTo(r, "revoke")
    BY DEF RefreshRotate
<1>11. LogoutFind(r) => \/ Finish(r, "ok") /\ call[r].op \notin SignOut
                        \/ GoTo(r, "revoke")
    BY DEF LogoutFind, SignOut
<1>12. Revoke(r) => \/ Finish(r, "reused")
                    \/ Finish(r, "ok") /\ call[r].op \notin SignOut
    BY DEF Revoke, At, PlaceInv, OpAt, SignOut
<1>13. Authenticate(r) => \/ Finish(r, "unauthorized")
                          \/ \E step \in {"bump", "check", "delete", "get"} :
                               GoTo(r, step)
    <2>1. Authenticate(r) => call[r].op \in BearerOp
        BY DEF Authenticate, At, TypeInv, RequestsOK, Known
    <2>2. call[r].op \in BearerOp =>
            AfterAuthenticate[call[r].op] \in {"bump", "check", "delete", "get"}
        BY DEF AfterAuthenticate, BearerOp
    <2> QED BY <2>1, <2>2 DEF Authenticate
<1>14. ChangePasswordCheck(r) => \/ Finish(r, "notFound") \/ Finish(r, "invalid")
                                 \/ GoTo(r, "update")
    BY DEF ChangePasswordCheck
<1>15. DeleteUser(r) => \/ Finish(r, "ok") /\ call[r].op \notin SignOut
                        \/ Finish(r, "notFound")
    BY DEF DeleteUser, At, PlaceInv, OpAt, SignOut
<1>16. GetMe(r) => \/ Finish(r, "ok") /\ call[r].op \notin SignOut
                   \/ Finish(r, "notFound")
    BY DEF GetMe, At, PlaceInv, OpAt, SignOut
<1>17. Abort(r) => Finish(r, "error")
    BY DEF Abort
<1> QED BY <1>1, <1>2, <1>3, <1>4, <1>5, <1>6, <1>7, <1>8, <1>9, <1>10, <1>11,
           <1>12, <1>13, <1>14, <1>15, <1>16, <1>17

\* A request arrives: a sign-out notes what is live and held.
LEMMA SignOutArrive ==
    ASSUME TypeInv, VersionInv, NEW r \in Request, NEW c, NEW first,
           Arrive(r, c, first), first \in {"verify", "find", "authenticate"},
           c.before \subseteq LiveOf(c.user),
           c.holding \subseteq {a \in access : a.user = c.user}
    PROVE  SignOutAt(r)'
<1>1. /\ call'[r] = c /\ pc'[r] = first /\ users' = users /\ sessions' = sessions
    BY DEF Arrive, GoTo, TypeInv, RequestsOK
<1>2. ~SignedOut(r)'
    BY <1>1 DEF SignedOut
<1>3. \A s \in c.before : s \in Opened /\ sessions[s].user = c.user
    BY DEF LiveOf, Live, Opened
<1>4. \A a \in c.holding : a.user = c.user /\ a.ver <= users[a.user].ver
    BY DEF VersionInv
<1> QED BY <1>1, <1>2, <1>3, <1>4 DEF SignOutAt, Opened

LEMMA SignOutStart ==
    ASSUME TypeInv, VersionInv, NEW r \in Request,
           \/ StartLogin(r) \/ StartTokenOp(r) \/ StartLogoutAll(r)
           \/ StartChangePassword(r) \/ StartDeleteUser(r) \/ StartGetMe(r)
    PROVE  SignOutAt(r)'
<1>1. CASE StartLogin(r)
    BY <1>1, SignOutArrive DEF StartLogin, NoCall
<1>2. CASE StartTokenOp(r)
    BY <1>2, SignOutArrive DEF StartTokenOp, NoCall
<1>3. CASE StartLogoutAll(r)
    BY <1>3, SignOutArrive DEF StartLogoutAll, SignOutCall, BearerCall, NoCall
<1>4. CASE StartChangePassword(r)
    BY <1>4, SignOutArrive DEF StartChangePassword, SignOutCall, BearerCall, NoCall
<1>5. CASE StartDeleteUser(r)
    BY <1>5, SignOutArrive DEF StartDeleteUser, BearerCall, NoCall
<1>6. CASE StartGetMe(r)
    BY <1>6, SignOutArrive DEF StartGetMe, BearerCall, NoCall
<1> QED BY <1>1, <1>2, <1>3, <1>4, <1>5, <1>6

\* The version of the user moves past every token found on arrival.
LEMMA SignOutBump ==
    ASSUME TypeInv, SignOutInv, Growing, TypeInv', NEW r \in Request,
           LogoutAllBump(r) \/ ChangePasswordUpdate(r)
    PROVE  SignOutAt(r)'
<1>1. call' = call /\ sessions' = sessions
    BY DEF LogoutAllBump, ChangePasswordUpdate
<1>2. CASE Finish(r, "notFound")
    <2>1. pc'[r] = "done" /\ ~SignedOut(r)'
        BY <1>2 DEF Finish, GoTo, SignedOut, TypeInv, RequestsOK, Local
    <2> QED BY <1>1, <2>1, SignOutKept
<1>3. CASE /\ users'[call[r].user].ver = users[call[r].user].ver + 1
           /\ GoTo(r, "revokeAll")
    <2>1. pc'[r] = "revokeAll" /\ ~SignedOut(r)'
        BY <1>3 DEF GoTo, SignedOut, TypeInv, RequestsOK
    <2>2. \A a \in call[r].holding :
            /\ a.user = call[r].user /\ a.user \in User /\ a.ver \in Nat
            /\ users[a.user].ver \in Nat /\ a.ver <= users[a.user].ver
        BY DEF SignOutInv, SignOutAt, TypeInv, StoreOK, RequestsOK, Call,
               Claims, UserRow
    <2>3. \A a \in call[r].holding :
            a.ver < users'[a.user].ver /\ a.ver <= users'[a.user].ver
        BY <1>3, <2>2
    <2>4. \A s \in call[r].before : s \in Opened' /\ sessions'[s].user = call[r].user
        BY DEF SignOutInv, SignOutAt, Growing
    <2> QED BY <1>1, <2>1, <2>2, <2>3, <2>4 DEF SignOutAt
<1>4. CASE LogoutAllBump(r)
    <2>1. call[r].user \in User
        BY DEF TypeInv, RequestsOK, Call
    <2> QED BY <1>2, <1>3, <1>4, <2>1
               DEF LogoutAllBump, NextVersion, TypeInv, StoreOK, UserRow
<1>5. CASE ChangePasswordUpdate(r)
    <2>1. call[r].user \in User
        BY DEF TypeInv, RequestsOK, Call
    <2> QED BY <1>2, <1>3, <1>5, <2>1
               DEF ChangePasswordUpdate, NextVersion, TypeInv, StoreOK, UserRow
<1> QED BY <1>4, <1>5

LEMMA SignOutRevoke ==
    ASSUME TypeInv, SignOutInv, Growing, TypeInv', NEW r \in Request, RevokeAll(r)
    PROVE  SignOutAt(r)'
<1>1. /\ call' = call /\ users' = users /\ pc[r] = "revokeAll" /\ pc'[r] = "done"
    BY DEF RevokeAll, At, Finish, GoTo, TypeInv, RequestsOK
<1>2. \A s \in call[r].before :
        s \in Opened' /\ s \in SessionId /\ sessions'[s].user = call[r].user
        /\ sessions[s].user = call[r].user
    BY DEF SignOutInv, SignOutAt, Growing, Opened
<1>3. \A s \in SessionId : sessions[s].user = call[r].user => s \notin Live'
    BY DEF RevokeAll, LiveOf, Live, TypeInv, StoreOK, SessionRow
<1>4. call[r].before \cap Live' = {}
    BY <1>2, <1>3
<1> QED BY <1>1, <1>2, <1>4 DEF SignOutInv, SignOutAt

LEMMA SignOutNext ==
    TypeInv /\ PlaceInv /\ VersionInv /\ SignOutInv /\ [Next]_vars => SignOutInv'
<1> SUFFICES ASSUME TypeInv, PlaceInv, VersionInv, SignOutInv, [Next]_vars,
                    NEW q \in Request
             PROVE  SignOutAt(q)'
    BY DEF SignOutInv
<1>1. Growing /\ TypeInv'
    BY GrowingStep, TypeNext
<1>2. ASSUME pc'[q] = pc[q], call'[q] = call[q], loc'[q] = loc[q]
      PROVE  SignOutAt(q)'
    BY <1>1, <1>2, SignOutKept DEF SignedOut
<1>3. CASE Tick \/ UNCHANGED vars
    BY <1>2, <1>3 DEF Tick, vars
<1>4. ASSUME NEW r \in Request, Frame(r), r # q PROVE SignOutAt(q)'
    BY <1>2, <1>4 DEF Frame
<1>5. ASSUME call' = call /\ pc'[q] # "revokeAll" /\ ~SignedOut(q)'
      PROVE  SignOutAt(q)'
    BY <1>1, <1>5, SignOutKept
<1> QED BY <1>1, <1>3, <1>4, <1>5, SessionsStep, SignOutDone, SignOutStart,
           SignOutBump, SignOutRevoke DEF Next, Quiesce

SignOutAll == TypeInv /\ PlaceInv /\ VersionInv /\ SignOutInv

LEMMA SignOutAlways == Spec => []SignOutAll
<1>1. Init => SignOutAll
    BY TypeInit, PlaceInit, VersionInit, SignOutInit DEF SignOutAll
<1>2. SignOutAll /\ [Next]_vars => SignOutAll'
    BY TypeNext, PlaceNext, VersionNext, SignOutNext DEF SignOutAll
<1> QED BY <1>1, <1>2, PTL DEF Spec

\* Once LogoutAll or ChangePassword has answered, what it found live or held
\* is ended, whatever other requests read or wrote in between.
THEOREM SignOutFinal == Spec => []SignOutIsFinal
<1>1. SignOutAll => SignOutIsFinal
    BY DEF SignOutAll, SignOutInv, SignOutAt, SignOutIsFinal
<1> QED BY <1>1, SignOutAlways, PTL

StaleStep ==
    \A r, q \in Request :
        /\ SignedOut(q) /\ pc[r] = "authenticate"
        /\ call[r].claims \in call[q].holding
        => pc'[r] \in {"authenticate", "done"}

LEMMA StaleNext == SignOutAll /\ [Next]_vars => StaleStep
<1> SUFFICES ASSUME SignOutAll, [Next]_vars, NEW r \in Request, NEW q \in Request,
                    SignedOut(q), pc[r] = "authenticate",
                    call[r].claims \in call[q].holding
             PROVE  pc'[r] \in {"authenticate", "done"}
    BY DEF StaleStep
<1> USE DEF SignOutAll
<1> DEFINE c == call[r].claims
<1>1. /\ c.ver < users[c.user].ver /\ c.ver \in Nat /\ c.user \in User
      /\ users[c.user].ver \in Nat
    BY DEF SignOutInv, SignOutAt, TypeInv, StoreOK, RequestsOK, Call, Claims, UserRow
<1>2. ~Authentic(c)
    BY <1>1 DEF Authentic
<1> HIDE DEF c
<1>3. CASE Tick \/ UNCHANGED vars
    BY <1>3 DEF Tick, vars
<1>4. ASSUME NEW x \in Request, Frame(x), x # r PROVE pc'[r] = "authenticate"
    BY <1>4 DEF Frame
<1>5. CASE Authenticate(r) \/ Abort(r)
    <2>1. Finish(r, "unauthorized") \/ Finish(r, "error")
        BY <1>2, <1>5 DEF Authenticate, Abort, c
    <2> QED BY <2>1 DEF Finish, GoTo, TypeInv, RequestsOK
<1>6. ~( \/ StartLogin(r) \/ StartTokenOp(r)
         \/ StartLogoutAll(r) \/ StartChangePassword(r)
         \/ StartDeleteUser(r) \/ StartGetMe(r)
         \/ LoginVerify(r) \/ LoginCreate(r) \/ Issue(r)
         \/ RefreshFind(r) \/ RefreshUser(r) \/ RefreshRotate(r)
         \/ LogoutFind(r) \/ Revoke(r) \/ LogoutAllBump(r)
         \/ ChangePasswordCheck(r) \/ ChangePasswordUpdate(r)
         \/ RevokeAll(r) \/ DeleteUser(r) \/ GetMe(r) )
    BY DEF StartLogin, StartTokenOp, StartLogoutAll, StartChangePassword,
           StartDeleteUser, StartGetMe, Arrive, LoginVerify, LoginCreate, Issue,
           RefreshFind, RefreshUser, RefreshRotate, LogoutFind, Revoke,
           LogoutAllBump, ChangePasswordCheck, ChangePasswordUpdate, RevokeAll,
           DeleteUser, GetMe, At
<1> QED BY <1>3, <1>4, <1>5, <1>6, SessionsStep DEF Next, Quiesce

\* No request gets past Authenticate with an access token that a completed
\* sign-out found in a client's hands, for every number of requests.
THEOREM StaleRefused == Spec => StaleTokenRefused
<1>1. SignOutAll /\ [Next]_vars => [StaleStep]_vars
    BY StaleNext
<1> QED BY <1>1, SignOutAlways, PTL DEF Spec, StaleTokenRefused, StaleStep------------------------------------------------------------------------------
(***************************************************************************)
(* The tokens that requests present, and when their sessions expire.       *)
(***************************************************************************)
LEMMA PresentedInit == Init => PresentedInv
<1> SUFFICES ASSUME Init PROVE PresentedInv
    OBVIOUS
<1>1. \A r \in Request : call[r].op = "GetMe" /\ call[r].at = 0 /\ pc[r] = "idle"
    BY DEF Init, NoCall
<1>2. held \subseteq issued /\ now = 0
    BY DEF Init
<1> QED BY <1>1, <1>2 DEF PresentedInv, PresentedAt, Drawn

\* The steps that neither draw, nor store, nor hand out a token.
LEMMA PresentedQuiet ==
    ASSUME TypeInv, PresentedInv, Quiet, held' = held, now' \in Nat, now <= now',
           \A q \in Request :
             /\ pc'[q] = "issue" => pc[q] = "issue"
             /\ \/ call'[q] = call[q]
                \/ /\ call'[q].op \in {"Refresh", "Logout"} => call'[q].tok \in held
                   /\ call'[q].at <= now
                   /\ call'[q].at \in Nat
    PROVE  PresentedInv'
<1>1. issued' = issued /\ \A q \in Request : Drawn(q)' => Drawn(q)
    BY DEF Quiet, Drawn
<1>2. \A q \in Request : loc'[q].next = loc[q].next
    BY DEF Quiet
<1>3. ASSUME NEW q \in Request PROVE PresentedAt(q)'
    <2>1. call'[q].op \in {"Refresh", "Logout"} => call'[q].tok \in held
        BY DEF PresentedInv, PresentedAt
    <2>2. call'[q].at <= now'
        <3>1. call'[q].at <= now /\ call'[q].at \in Nat
            BY DEF PresentedInv, PresentedAt, TypeInv, RequestsOK, Call
        <3> QED BY <3>1 DEF TypeInv, StoreOK
    <2>3. Drawn(q)' => loc'[q].next \notin held
        BY <1>1, <1>2 DEF PresentedInv, PresentedAt
    <2>4. pc'[q] = "issue" => /\ loc'[q].next \in issued'
                              /\ \A x \in Request : Drawn(x)' => loc'[x].next # loc'[q].next
        BY <1>1, <1>2 DEF PresentedInv, PresentedAt
    <2> QED BY <2>1, <2>2, <2>3, <2>4 DEF PresentedAt
<1> QED BY <1>1, <1>3 DEF PresentedInv

LEMMA PresentedDraw ==
    ASSUME Inv, PresentedInv, NEW r \in Request, NEW t \in Token \ issued,
           NEW step \in {"create", "rotate"}, GoTo(r, step), Frame(r),
           loc'[r].next = t, issued' = issued \cup {t},
           call' = call, held' = held, now' = now
    PROVE  PresentedInv'
<1>1. pc'[r] = step
    BY DEF GoTo, Inv, TypeInv, RequestsOK
<1>2. held' \subseteq issued' /\ t \notin held
    BY DEF PresentedInv
<1>3. ASSUME NEW q \in Request PROVE PresentedAt(q)'
    <2>1. CASE q = r
        BY <1>1, <1>2, <2>1 DEF PresentedInv, PresentedAt
    <2>2. CASE q # r
        <3>1. pc'[q] = pc[q] /\ loc'[q] = loc[q] /\ (Drawn(q)' <=> Drawn(q))
            BY <2>2 DEF Frame, Drawn
        <3>2. pc[q] = "issue" => loc[q].next \in issued /\ loc[q].next # t
            BY DEF PresentedInv, PresentedAt
        <3>3. ASSUME pc[q] = "issue", NEW x \in Request, Drawn(x)'
              PROVE  loc'[x].next # loc[q].next
            <4>1. CASE x = r
                BY <3>2, <3>3, <4>1
            <4>2. CASE x # r
                <5>1. loc'[x] = loc[x] /\ Drawn(x)
                    BY <3>3, <4>2 DEF Frame, Drawn
                <5> QED BY <3>3, <5>1 DEF PresentedInv, PresentedAt
            <4> QED BY <4>1, <4>2
        <3> QED BY <3>1, <3>2, <3>3 DEF PresentedInv, PresentedAt
    <2> QED BY <2>1, <2>2
<1> QED BY <1>2, <1>3 DEF PresentedInv

LEMMA PresentedStore ==
    ASSUME Inv, PresentedInv, NEW r \in Request, Drawn(r), pc'[r] = "issue", Frame(r),
           loc'[r].next = loc[r].next, issued' = issued,
           call' = call, held' = held, now' = now
    PROVE  PresentedInv'
<1>1. \A q \in Request : loc'[q].next = loc[q].next /\ (Drawn(q)' => Drawn(q) /\ q # r)
    BY DEF Frame, Drawn
<1>2. loc[r].next \in issued
      /\ \A q \in Request : r # q /\ Drawn(q) => loc[q].next # loc[r].next
    BY DEF Inv, TokenInv, DrawnInv
<1>3. ASSUME NEW q \in Request PROVE PresentedAt(q)'
    <2>1. CASE q = r
        BY <1>1, <1>2, <2>1 DEF PresentedInv, PresentedAt, Drawn
    <2>2. CASE q # r
        BY <1>1, <2>2 DEF PresentedInv, PresentedAt, Frame
    <2> QED BY <2>1, <2>2
<1> QED BY <1>3 DEF PresentedInv

LEMMA PresentedIssue ==
    ASSUME Inv, PresentedInv, NEW r \in Request, Issue(r)
    PROVE  PresentedInv'
<1>1. /\ pc[r] = "issue" /\ pc'[r] = "done" /\ held' = held \cup {loc[r].next}
      /\ call' = call /\ issued' = issued /\ now' = now
      /\ \A q \in Request : loc'[q].next = loc[q].next
      /\ \A q \in Request : q # r => pc'[q] = pc[q]
    BY DEF Issue, At, Finish, GoTo, Inv, TypeInv, RequestsOK, Local
<1>2. \A q \in Request : Drawn(q)' => Drawn(q)
    BY <1>1 DEF Drawn
<1>3. ASSUME NEW q \in Request PROVE PresentedAt(q)'
    BY <1>1, <1>2 DEF PresentedInv, PresentedAt
<1>4. held' \subseteq issued'
    BY <1>1 DEF PresentedInv, PresentedAt
<1> QED BY <1>3, <1>4 DEF PresentedInv

\* What a request that arrives presents.
LEMMA PresentedStart ==
    ASSUME TypeInv, PresentedInv, NEW r \in Request,
           \/ StartLogin(r) \/ StartTokenOp(r) \/ StartLogoutAll(r)
           \/ StartChangePassword(r) \/ StartDeleteUser(r) \/ StartGetMe(r)
    PROVE  PresentedInv'
<1>1. Quiet
    BY StartQuiet
<1>2. ASSUME NEW c, NEW first \in {"verify", "find", "authenticate"},
             Arrive(r, c, first), c.at \in Nat, c.at <= now,
             c.op \in {"Refresh", "Logout"} => c.tok \in held
      PROVE  PresentedInv'
    <2>1. /\ held' = held /\ now' = now /\ now \in Nat /\ now <= now'
          /\ pc'[r] # "issue" /\ call'[r] = c
          /\ \A q \in Request : q # r => pc'[q] = pc[q] /\ call'[q] = call[q]
        BY <1>2 DEF Arrive, GoTo, TypeInv, StoreOK, RequestsOK
    <2> QED BY <1>1, <1>2, <2>1, PresentedQuiet
<1>3. now \in Nat /\ 0 \in Nat /\ 0 <= now /\ now <= now
    BY DEF TypeInv, StoreOK
<1>4. CASE StartLogin(r)
    BY <1>2, <1>3, <1>4 DEF StartLogin, NoCall
<1>5. CASE StartTokenOp(r)
    BY <1>2, <1>3, <1>5 DEF StartTokenOp, NoCall
<1>6. CASE StartLogoutAll(r)
    BY <1>2, <1>3, <1>6 DEF StartLogoutAll, SignOutCall, BearerCall, NoCall
<1>7. CASE StartChangePassword(r)
    BY <1>2, <1>3, <1>7 DEF StartChangePassword, SignOutCall, BearerCall, NoCall
<1>8. CASE StartDeleteUser(r)
    BY <1>2, <1>3, <1>8 DEF StartDeleteUser, BearerCall, NoCall
<1>9. CASE StartGetMe(r)
    BY <1>2, <1>3, <1>9 DEF StartGetMe, BearerCall, NoCall
<1> QED BY <1>4, <1>5, <1>6, <1>7, <1>8, <1>9

\* A step of request r that draws, stores and hands out nothing.
LEMMA PresentedOther ==
    ASSUME TypeInv, PresentedInv, Quiet, NEW r \in Request, Frame(r),
           held' = held, now' = now, call' = call, pc'[r] # "issue"
    PROVE  PresentedInv'
<1>1. now \in Nat /\ now <= now
    BY DEF TypeInv, StoreOK
<1>2. \A q \in Request : pc'[q] = "issue" => pc[q] = "issue"
    BY DEF Frame
<1> QED BY <1>1, <1>2, PresentedQuiet

LEMMA PresentedNext == Inv /\ PresentedInv /\ [Next]_vars => PresentedInv'
<1> SUFFICES ASSUME Inv, PresentedInv, [Next]_vars PROVE PresentedInv'
    OBVIOUS
<1> USE DEF Inv
<1>1. CASE Tick \/ UNCHANGED vars
    <2>1. /\ held' = held /\ call' = call /\ pc' = pc
          /\ now \in Nat /\ (now' = now \/ now' = now + 1)
        BY <1>1 DEF Tick, vars, TypeInv, StoreOK
    <2>2. now' \in Nat /\ now <= now'
        BY <2>1
    <2> QED BY <1>1, <2>1, <2>2, IdleQuiet, PresentedQuiet
<1>2. ASSUME NEW r \in Request, LoginVerify(r) PROVE PresentedInv'
    <2>1. Frame(r) /\ call' = call /\ held' = held /\ now' = now
        BY <1>2, SessionsStep DEF LoginVerify
    <2>2. CASE Finish(r, "unauthorized") /\ issued' = issued
        <3>1. Quiet /\ pc'[r] = "done"
            BY <1>2, <2>2, FinishQuiet DEF LoginVerify, Result, Finish, GoTo,
                                           TypeInv, RequestsOK
        <3> QED BY <2>1, <3>1, PresentedOther
    <2>3. CASE ~(Finish(r, "unauthorized") /\ issued' = issued)
        <3>1. PICK t \in Token \ issued :
                /\ issued' = issued \cup {t} /\ GoTo(r, "create")
                /\ loc' = [loc EXCEPT ![r] =
                     [@ EXCEPT !.next = t, !.ver = users[call[r].user].ver,
                               !.exp = now + RefreshTTL]]
            BY <1>2, <2>3 DEF LoginVerify
        <3>2. loc'[r].next = t
            BY <3>1 DEF TypeInv, RequestsOK, Local
        <3> QED BY <2>1, <3>1, <3>2, PresentedDraw
    <2> QED BY <2>2, <2>3
<1>3. ASSUME NEW r \in Request, RefreshUser(r) PROVE PresentedInv'
    <2>1. Frame(r) /\ call' = call /\ held' = held /\ now' = now
        BY <1>3, SessionsStep DEF RefreshUser
    <2>2. CASE Finish(r, "userGone") /\ issued' = issued
        <3>1. Quiet /\ pc'[r] = "done"
            BY <1>3, <2>2, FinishQuiet DEF RefreshUser, Result, Finish, GoTo,
                                           TypeInv, RequestsOK
        <3> QED BY <2>1, <3>1, PresentedOther
    <2>3. CASE ~(Finish(r, "userGone") /\ issued' = issued)
        <3>1. PICK t \in Token \ issued :
                /\ issued' = issued \cup {t} /\ GoTo(r, "rotate")
                /\ loc' = [loc EXCEPT ![r] =
                     [@ EXCEPT !.next = t,
                               !.ver = users[sessions[loc[r].sid].user].ver,
                               !.exp = now + RefreshTTL]]
            BY <1>3, <2>3 DEF RefreshUser
        <3>2. loc'[r].next = t
            BY <3>1 DEF TypeInv, RequestsOK, Local
        <3> QED BY <2>1, <3>1, <3>2, PresentedDraw
    <2> QED BY <2>2, <2>3
<1>4. ASSUME NEW r \in Request, LoginCreate(r) PROVE PresentedInv'
    <2>1. /\ Frame(r) /\ call' = call /\ held' = held /\ now' = now
          /\ issued' = issued /\ pc[r] = "create"
        BY <1>4, SessionsStep DEF LoginCreate, At
    <2>2. CASE HasUser(call[r].user)
        <3>1. pc'[r] = "issue" /\ loc'[r].next = loc[r].next
            BY <1>4, <2>2 DEF LoginCreate, GoTo, TypeInv, RequestsOK, Local
        <3> QED BY <2>1, <3>1, PresentedStore DEF Drawn
    <2>3. CASE ~HasUser(call[r].user)
        <3>1. Quiet /\ pc'[r] = "done"
            BY <1>4, <2>3, FinishQuiet DEF LoginCreate, Result, Finish, GoTo,
                                           TypeInv, RequestsOK
        <3> QED BY <2>1, <3>1, PresentedOther
    <2> QED BY <2>2, <2>3
<1>5. ASSUME NEW r \in Request, RefreshRotate(r) PROVE PresentedInv'
    <2>1. /\ Frame(r) /\ call' = call /\ held' = held /\ now' = now
          /\ issued' = issued /\ pc[r] = "rotate"
        BY <1>5, SessionsStep DEF RefreshRotate, At
    <2>2. CASE Rotatable(r)
        <3>1. pc'[r] = "issue" /\ loc'[r].next = loc[r].next
            BY <1>5, <2>2 DEF RefreshRotate, GoTo, TypeInv, RequestsOK, Local
        <3> QED BY <2>1, <3>1, PresentedStore DEF Drawn
    <2>3. CASE ~Rotatable(r)
        <3>1. Quiet
            BY <1>5, <2>3, GoToQuiet DEF RefreshRotate, At, Step
        <3>2. pc'[r] = "revoke"
            BY <1>5, <2>3 DEF RefreshRotate, GoTo, TypeInv, RequestsOK
        <3> QED BY <2>1, <3>1, <3>2, PresentedOther
    <2> QED BY <2>2, <2>3
<1>6. ASSUME NEW r \in Request, RefreshFind(r) \/ LogoutFind(r) \/ Revoke(r)
      PROVE  PresentedInv'
    <2>1. call' = call /\ held' = held /\ now' = now
        BY <1>6 DEF RefreshFind, LogoutFind, Revoke
    <2> QED BY <1>6, <2>1, SessionsStep, TokenOpQuiet, OtherSteps, PresentedOther
<1>7. ASSUME NEW r \in Request,
             \/ Authenticate(r) \/ LogoutAllBump(r) \/ ChangePasswordCheck(r)
             \/ ChangePasswordUpdate(r) \/ RevokeAll(r) \/ DeleteUser(r)
             \/ GetMe(r) \/ Abort(r)
      PROVE  PresentedInv'
    <2>1. call' = call /\ held' = held /\ now' = now
        BY <1>7 DEF Authenticate, LogoutAllBump, ChangePasswordCheck,
                    ChangePasswordUpdate, RevokeAll, DeleteUser, GetMe, Abort
    <2> QED BY <1>7, <2>1, SessionsStep, BearerQuiet, OtherSteps, PresentedOther
<1> QED BY <1>1, <1>2, <1>3, <1>4, <1>5, <1>6, <1>7, PresentedIssue, PresentedStart
           DEF Next, Quiesce
------------------------------------------------------------------------------
ExpiryAt(q) ==
    pc[q] \in {"user", "rotate"} /\ sessions[loc[q].sid].cur = call[q].tok
        => call[q].at <= sessions[loc[q].sid].exp

LEMMA ExpiryInit == Init => ExpiryInv
BY DEF Init, ExpiryInv

\* A request that finds its session in time.
LEMMA ExpiryFind ==
    ASSUME TypeInv, PresentedInv, NEW r \in Request, RefreshFind(r)
    PROVE  ExpiryAt(r)'
<1>1. call' = call /\ sessions' = sessions
    BY DEF RefreshFind
<1>2. CASE \E res : Finish(r, res)
    BY <1>2 DEF Finish, GoTo, ExpiryAt, TypeInv, RequestsOK
<1>3. CASE GoTo(r, "revoke")
    BY <1>3 DEF GoTo, ExpiryAt, TypeInv, RequestsOK
<1>4. ASSUME NEW s \in SessionId, ~Expired(s), loc' = [loc EXCEPT ![r].sid = s]
      PROVE  ExpiryAt(r)'
    <2>1. loc'[r].sid = s
        BY <1>4 DEF TypeInv, RequestsOK, Local
    <2>2. call[r].at <= now /\ call[r].at \in Nat
        BY DEF PresentedInv, PresentedAt, TypeInv, RequestsOK, Call
    <2>3. now <= sessions[s].exp
        BY <1>4 DEF Expired, TypeInv, StoreOK, SessionRow
    <2>4. call[r].at <= sessions[s].exp
        BY <2>2, <2>3 DEF TypeInv, StoreOK, SessionRow
    <2> QED BY <1>1, <2>1, <2>4 DEF ExpiryAt
<1> QED BY <1>2, <1>3, <1>4 DEF RefreshFind, FindSessionByToken, Stored

LEMMA ExpiryUser ==
    ASSUME TypeInv, ExpiryInv, NEW r \in Request, RefreshUser(r) PROVE ExpiryAt(r)'
<1>1. call' = call /\ sessions' = sessions /\ pc[r] = "user"
    BY DEF RefreshUser, At
<1>2. loc'[r].sid = loc[r].sid
    <2>1. CASE Finish(r, "userGone")
        BY <2>1 DEF Finish, TypeInv, RequestsOK, Local
    <2>2. CASE ~Finish(r, "userGone")
        BY <2>2 DEF RefreshUser, TypeInv, RequestsOK, Local
    <2> QED BY <2>1, <2>2
<1> QED BY <1>1, <1>2 DEF ExpiryInv, ExpiryAt

\* No other step takes a request where its session was found in time.
LEMMA ExpiryElsewhere ==
    ASSUME TypeInv, NEW r \in Request,
           \/ StartLogin(r) \/ StartTokenOp(r)
           \/ StartLogoutAll(r) \/ StartChangePassword(r)
           \/ StartDeleteUser(r) \/ StartGetMe(r)
           \/ LoginVerify(r) \/ LoginCreate(r) \/ Issue(r) \/ RefreshRotate(r)
           \/ LogoutFind(r) \/ Revoke(r)
           \/ Authenticate(r) \/ LogoutAllBump(r)
           \/ ChangePasswordCheck(r) \/ ChangePasswordUpdate(r)
           \/ RevokeAll(r) \/ DeleteUser(r) \/ GetMe(r) \/ Abort(r)
    PROVE  pc'[r] \notin {"user", "rotate"}
<1>1. CASE \/ StartLogin(r) \/ StartTokenOp(r) \/ StartLogoutAll(r)
           \/ StartChangePassword(r) \/ StartDeleteUser(r) \/ StartGetMe(r)
    <2>1. ASSUME NEW c, NEW first, Arrive(r, c, first) PROVE pc'[r] = first
        BY <2>1 DEF Arrive, GoTo, TypeInv, RequestsOK
    <2>2. CASE StartLogin(r)
        BY <2>1, <2>2 DEF StartLogin
    <2>3. CASE StartTokenOp(r)
        BY <2>1, <2>3 DEF StartTokenOp
    <2>4. CASE \/ StartLogoutAll(r) \/ StartChangePassword(r)
               \/ StartDeleteUser(r) \/ StartGetMe(r)
        <3>1. \E c : Arrive(r, c, "authenticate")
            BY <2>4 DEF StartLogoutAll, StartChangePassword, StartDeleteUser,
                        StartGetMe
        <3> QED BY <2>1, <3>1
    <2> QED BY <1>1, <2>2, <2>3, <2>4
<1>2. CASE Authenticate(r)
    <2>1. call[r].op \in BearerOp
        BY <1>2 DEF Authenticate, At, TypeInv, RequestsOK, Known
    <2>2. AfterAuthenticate[call[r].op] \in {"bump", "check", "delete", "get"}
        BY <2>1 DEF AfterAuthenticate, BearerOp
    <2>3. pc'[r] \in {"done", AfterAuthenticate[call[r].op]}
        BY <1>2 DEF Authenticate, Finish, GoTo, TypeInv, RequestsOK
    <2> QED BY <2>2, <2>3
<1>3. CASE \/ LoginVerify(r) \/ LoginCreate(r) \/ Issue(r) \/ RefreshRotate(r)
           \/ LogoutFind(r) \/ Revoke(r)
    <2>1. LoginVerify(r) => pc'[r] \in {"create", "done"}
        BY DEF LoginVerify, Finish, GoTo, TypeInv, RequestsOK
    <2>2. LoginCreate(r) \/ Issue(r) \/ RefreshRotate(r) \/ LogoutFind(r) \/ Revoke(r)
            => pc'[r] \in {"issue", "revoke", "done"}
        BY DEF LoginCreate, Issue, RefreshRotate, LogoutFind, Revoke, Finish, GoTo,
               TypeInv, RequestsOK
    <2> QED BY <1>3, <2>1, <2>2
<1>4. CASE \/ LogoutAllBump(r) \/ ChangePasswordCheck(r) \/ ChangePasswordUpdate(r)
           \/ RevokeAll(r) \/ DeleteUser(r) \/ GetMe(r) \/ Abort(r)
    BY <1>4 DEF LogoutAllBump, ChangePasswordCheck, ChangePasswordUpdate,
                RevokeAll, DeleteUser, GetMe, Abort, Finish, GoTo,
                TypeInv, RequestsOK
<1> QED BY <1>1, <1>2, <1>3, <1>4

\* Another request's step: a rotation replaces the token that was presented.
LEMMA ExpiryKept ==
    ASSUME Inv, PlaceInv, PresentedInv, ExpiryInv, NEW q \in Request,
           pc'[q] = pc[q], call'[q] = call[q], loc'[q] = loc[q],
           \/ Closing
           \/ \E r \in Request, s \in SessionId : Creates(r, s)
           \/ \E r \in Request : Rotates(r)
    PROVE  ExpiryAt(q)'
<1> USE DEF Inv
<1> SUFFICES ASSUME pc[q] \in {"user", "rotate"}
             PROVE  sessions'[loc[q].sid].cur = call[q].tok
                      => call[q].at <= sessions'[loc[q].sid].exp
    BY DEF ExpiryAt
<1>1. loc[q].sid \in Opened /\ loc[q].sid \in SessionId /\ call[q].op = "Refresh"
    BY DEF PlaceInv, OpAt, SidAt, Opened
<1>2. CASE Closing
    <2>1. /\ sessions'[loc[q].sid].cur = sessions[loc[q].sid].cur
          /\ sessions'[loc[q].sid].exp = sessions[loc[q].sid].exp
        BY <1>1, <1>2 DEF Closing, TypeInv, StoreOK, SessionRow
    <2> QED BY <2>1 DEF ExpiryInv
<1>3. ASSUME NEW r \in Request, NEW s \in SessionId, Creates(r, s)
      PROVE  sessions'[loc[q].sid] = sessions[loc[q].sid]
    BY <1>1, <1>3 DEF Creates, Opened, TypeInv, StoreOK
<1>4. ASSUME NEW r \in Request, Rotates(r), loc[r].sid # loc[q].sid
      PROVE  sessions'[loc[q].sid] = sessions[loc[q].sid]
    BY <1>1, <1>4 DEF Rotates, TypeInv, StoreOK
<1>5. ASSUME NEW r \in Request, Rotates(r), loc[r].sid = loc[q].sid
      PROVE  sessions'[loc[q].sid].cur # call[q].tok
    <2>1. sessions'[loc[q].sid].cur = loc[r].next
        BY <1>5, RotatedRow
    <2>2. loc[r].next \notin held /\ call[q].tok \in held
        BY <1>1, <1>5 DEF Rotates, Drawn, PresentedInv, PresentedAt
    <2> QED BY <2>1, <2>2
<1> QED BY <1>2, <1>3, <1>4, <1>5 DEF ExpiryInv

LEMMA ExpiryNext ==
    Inv /\ PlaceInv /\ PresentedInv /\ ExpiryInv /\ [Next]_vars => ExpiryInv'
<1> SUFFICES ASSUME Inv, PlaceInv, PresentedInv, ExpiryInv, [Next]_vars,
                    NEW q \in Request
             PROVE  ExpiryAt(q)'
    BY DEF ExpiryInv, ExpiryAt
<1>1. TypeInv
    BY DEF Inv
<1>2. CASE Tick \/ UNCHANGED vars
    BY <1>2, ExpiryKept DEF Tick, vars, Closing
<1>3. ASSUME NEW r \in Request, Frame(r), r # q,
             Closing \/ (\E s \in SessionId : Creates(r, s)) \/ Rotates(r)
      PROVE  ExpiryAt(q)'
    BY <1>3, ExpiryKept DEF Frame
<1>4. pc'[q] \notin {"user", "rotate"} => ExpiryAt(q)'
    BY DEF ExpiryAt
<1> QED BY <1>1, <1>2, <1>3, <1>4, SessionsStep, ExpiryFind, ExpiryUser,
           ExpiryElsewhere DEF Next, Quiesce

ExpiryAll == Inv /\ PlaceInv /\ PresentedInv /\ ExpiryInv

LEMMA ExpiryAlways == Spec => []ExpiryAll
<1>1. Init => ExpiryAll
    BY TypeInit, TokenInit, PlaceInit, PresentedInit, ExpiryInit DEF ExpiryAll, Inv
<1>2. ExpiryAll /\ [Next]_vars => ExpiryAll'
    BY InvNext, PlaceNext, PresentedNext, ExpiryNext DEF ExpiryAll, Inv
<1> QED BY <1>1, <1>2, PTL DEF Spec

ExpiryStep ==
    \A r \in Request :
        pc[r] = "rotate" /\ pc'[r] = "issue"
            => call[r].at <= sessions[loc[r].sid].exp

LEMMA ExpiryStepNext == ExpiryAll /\ [Next]_vars => ExpiryStep
<1> SUFFICES ASSUME ExpiryAll, [Next]_vars, NEW r \in Request,
                    pc[r] = "rotate", pc'[r] = "issue"
             PROVE  call[r].at <= sessions[loc[r].sid].exp
    BY DEF ExpiryStep
<1>1. TypeInv
    BY DEF ExpiryAll, Inv
<1>2. ~(Tick \/ UNCHANGED vars) /\ \A x \in Request : Frame(x) => x = r
    BY DEF Tick, vars, Frame
<1>3. ASSUME RefreshRotate(r) PROVE call[r].at <= sessions[loc[r].sid].exp
    <2>1. Rotatable(r)
        BY <1>1, <1>3 DEF RefreshRotate, GoTo, TypeInv, RequestsOK
    <2> QED BY <2>1 DEF Rotatable, ExpiryAll, ExpiryInv
<1>4. ~(LoginVerify(r) \/ LoginCreate(r) \/ RefreshUser(r))
    BY DEF LoginVerify, LoginCreate, RefreshUser, At
<1> QED BY <1>1, <1>2, <1>3, <1>4, SessionsStep, OtherSteps DEF Next, Quiesce

\* A request that arrived after its session expired never rotates it, for
\* every lifetime of a session and every number of requests.
THEOREM ExpiryHolds == Spec => ExpiredNeverExchanged
<1>1. ExpiryAll /\ [Next]_vars => [ExpiryStep]_vars
    BY ExpiryStepNext
<1> QED BY <1>1, ExpiryAlways, PTL DEF Spec, ExpiredNeverExchanged, ExpiryStep------------------------------------------------------------------------------
(***************************************************************************)
(* The session a token was handed out for.                                 *)
(***************************************************************************)
LEMMA LineInit == Init => LineInv
<1> SUFFICES ASSUME Init PROVE LineInv
    OBVIOUS
<1>1. FreeRow.prev = NoToken
      /\ \A u \in User, t \in Token : NewRow(u, t, RefreshTTL, 0).prev = NoToken
    BY DEF FreeRow, NewRow
<1>2. \A s \in SessionId : sessions[s].prev = NoToken
    BY <1>1 DEF Init
<1>3. \A r \in Request : call[r].op = "GetMe"
    BY DEF Init, NoCall
<1> QED BY <1>2, <1>3 DEF LineInv, PrevInv, FoundAt, Opened

\* A token belongs to one session.
LEMMA OfUnique ==
    ASSUME Inv, NEW t, NEW s1, NEW s2, Of(t, s1), Of(t, s2)
    PROVE  s1 = s2
BY DEF Of, Inv, TokenInv, CurrentInv, SpentInv

\* The steps that may run after an exchange leave its record alone.
LEMMA SpentKept ==
    ASSUME Inv, [Next]_vars, NEW q \in Request, loc[q].spent # NoToken
    PROVE  loc'[q].spent = loc[q].spent /\ loc'[q].sid = loc[q].sid
<1> USE DEF Inv
<1>1. pc[q] \in {"issue", "done"}
    BY DEF TokenInv, SpentInv
<1>2. CASE Tick \/ UNCHANGED vars
    BY <1>2 DEF Tick, vars
<1>3. ASSUME NEW r \in Request, Frame(r), r # q PROVE loc'[q] = loc[q]
    BY <1>3 DEF Frame
<1>4. CASE Issue(q) \/ Abort(q)
    BY <1>4 DEF Issue, Abort, Finish, TypeInv, RequestsOK, Local
<1>5. ~( \/ StartLogin(q) \/ StartTokenOp(q)
         \/ StartLogoutAll(q) \/ StartChangePassword(q)
         \/ StartDeleteUser(q) \/ StartGetMe(q)
         \/ LoginVerify(q) \/ LoginCreate(q)
         \/ RefreshFind(q) \/ RefreshUser(q) \/ RefreshRotate(q)
         \/ LogoutFind(q) \/ Revoke(q) \/ Authenticate(q) \/ LogoutAllBump(q)
         \/ ChangePasswordCheck(q) \/ ChangePasswordUpdate(q)
         \/ RevokeAll(q) \/ DeleteUser(q) \/ GetMe(q) )
    BY <1>1 DEF StartLogin, StartTokenOp, StartLogoutAll, StartChangePassword,
           StartDeleteUser, StartGetMe, Arrive, LoginVerify, LoginCreate,
           RefreshFind, RefreshUser, RefreshRotate, LogoutFind, Revoke,
           Authenticate, LogoutAllBump, ChangePasswordCheck, ChangePasswordUpdate,
           RevokeAll, DeleteUser, GetMe, At
<1> QED BY <1>2, <1>3, <1>4, <1>5, SessionsStep DEF Next, Quiesce

\* How the rows of the sessions table may change.
RowsStep ==
    \/ Closing
    \/ \E r \in Request, s \in SessionId : Creates(r, s)
    \/ \E r \in Request : Rotates(r)

LEMMA RowsNext == ASSUME TypeInv, [Next]_vars PROVE RowsStep
<1>1. CASE Tick \/ UNCHANGED vars
    BY <1>1 DEF Tick, vars, Closing, RowsStep
<1> QED BY <1>1, SessionsStep DEF Next, Quiesce, RowsStep

\* A token stays with its session.
LEMMA OfKept ==
    ASSUME Inv, [Next]_vars, NEW t, NEW s, Of(t, s)
    PROVE  Of(t, s)'
<1> USE DEF Inv
<1>1. s \in Opened' /\ s \in SessionId /\ s \in Opened /\ t # NoToken
    BY GrowingStep DEF Of, Growing, Opened
<1>2. CASE \E q \in Request : loc[q].spent = t /\ loc[q].sid = s
    BY <1>1, <1>2, SpentKept DEF Of
<1>3. CASE sessions[s].cur = t
    <2>1. CASE sessions'[s].cur = sessions[s].cur
        BY <1>1, <1>3, <2>1 DEF Of
    <2>2. ASSUME Closing PROVE sessions'[s].cur = sessions[s].cur
        BY <1>1, <2>2, ClosedRow
    <2>3. ASSUME NEW r \in Request, NEW x \in SessionId, Creates(r, x)
          PROVE  sessions'[s].cur = sessions[s].cur
        BY <1>1, <2>3 DEF Creates, Opened, TypeInv, StoreOK
    <2>4. ASSUME NEW r \in Request, Rotates(r), loc[r].sid # s
          PROVE  sessions'[s].cur = sessions[s].cur
        BY <1>1, <2>4, RotatedRow
    <2>5. ASSUME NEW r \in Request, Rotates(r), loc[r].sid = s PROVE Of(t, s)'
        <3>1. loc'[r].spent = t /\ loc'[r].sid = s
            BY <1>3, <2>5 DEF Rotates, Rotatable, TypeInv, RequestsOK, Local
        <3> QED BY <1>1, <3>1 DEF Of
    <2> QED BY <2>1, <2>2, <2>3, <2>4, <2>5, RowsNext DEF RowsStep
<1> QED BY <1>2, <1>3 DEF Of

LEMMA EndedKept ==
    ASSUME TypeInv, [Next]_vars, NEW s, Ended(s)
    PROVE  Ended(s)'
BY GrowingStep DEF Ended, Growing

LEMMA PrevNext == ASSUME Inv, LineInv, [Next]_vars PROVE PrevInv'
<1> USE DEF Inv
<1> SUFFICES ASSUME NEW s \in Opened', sessions'[s].prev # NoToken
             PROVE  \E q \in Request :
                      loc'[q].spent = sessions'[s].prev /\ loc'[q].sid = s
    BY DEF PrevInv
<1>1. s \in SessionId
    BY DEF Opened
<1>2. ASSUME s \in Opened, sessions'[s].prev = sessions[s].prev
      PROVE  \E q \in Request :
               loc'[q].spent = sessions'[s].prev /\ loc'[q].sid = s
    <2>1. PICK q \in Request : loc[q].spent = sessions[s].prev /\ loc[q].sid = s
        BY <1>2 DEF LineInv, PrevInv
    <2> QED BY <1>2, <2>1, SpentKept
<1>3. ASSUME Closing PROVE s \in Opened /\ sessions'[s].prev = sessions[s].prev
    BY <1>1, <1>3 DEF Closing, Opened, Live, Stored, TypeInv, StoreOK, SessionRow
<1>4. ASSUME NEW r \in Request, NEW x \in SessionId, Creates(r, x)
      PROVE  s \in Opened /\ sessions'[s].prev = sessions[s].prev
    <2>1. sessions'[x].prev = NoToken
        BY <1>4 DEF Creates, NewRow, TypeInv, StoreOK
    <2> QED BY <1>1, <1>4, <2>1 DEF Creates, Opened, TypeInv, StoreOK
<1>5. ASSUME NEW r \in Request, Rotates(r), loc[r].sid # s
      PROVE  s \in Opened /\ sessions'[s].prev = sessions[s].prev
    BY <1>1, <1>5, RotatedRow DEF Opened
<1>6. ASSUME NEW r \in Request, Rotates(r), loc[r].sid = s
      PROVE  loc'[r].spent = sessions'[s].prev /\ loc'[r].sid = s
    <2>1. sessions'[s].prev = call[r].tok
        BY <1>6, RotatedRow DEF Rotates, Rotatable
    <2>2. loc'[r].spent = call[r].tok /\ loc'[r].sid = loc[r].sid
        BY <1>6 DEF Rotates, TypeInv, RequestsOK, Local
    <2> QED BY <1>6, <2>1, <2>2
<1> QED BY <1>2, <1>3, <1>4, <1>5, <1>6, RowsNext DEF RowsStep

\* A request that a step leaves alone keeps what it found.
LEMMA FoundKept ==
    ASSUME Inv, LineInv, [Next]_vars, NEW q \in Request,
           pc'[q] = pc[q], call'[q] = call[q], loc'[q] = loc[q]
    PROVE  FoundAt(q)'
<1>1. \A s : Of(call[q].tok, s) => Of(call[q].tok, s)'
    BY OfKept
<1>2. \A s : Ended(s) => Ended(s)'
    BY EndedKept DEF Inv
<1>3. /\ Of(call[q].tok, loc[q].sid) => Of(call[q].tok, loc[q].sid)'
      /\ Ended(loc[q].sid) => Ended(loc[q].sid)'
    BY <1>1, <1>2
<1> QED BY <1>1, <1>2, <1>3 DEF LineInv, FoundAt
\* A request finds the session of the token it presents.
LEMMA FoundFind ==
    ASSUME Inv, PlaceInv, PresentedInv, LineInv, [Next]_vars,
           NEW r \in Request, RefreshFind(r)
    PROVE  FoundAt(r)'
<1> USE DEF Inv
<1>1. /\ pc[r] = "find" /\ call' = call /\ sessions' = sessions
      /\ call[r].op = "Refresh"
    BY DEF RefreshFind, At
<1>2. PICK t : t = call[r].tok
    OBVIOUS
<1>3. t # NoToken
    BY <1>1, <1>2, AtomAssumption DEF PresentedInv, PresentedAt, TypeInv, StoreOK
<1>4. ASSUME NEW s \in FindSessionByToken(t)
      PROVE  Of(t, s) /\ s \in Opened /\ s \in SessionId
    <2>1. s \in Opened /\ s \in SessionId
        BY <1>4 DEF FindSessionByToken, Stored, Opened
    <2>2. CASE sessions[s].cur = t
        BY <1>3, <2>1, <2>2 DEF Of
    <2>3. CASE sessions[s].prev = t
        BY <1>3, <2>1, <2>3 DEF Of, LineInv, PrevInv
    <2> QED BY <1>4, <2>1, <2>2, <2>3 DEF FindSessionByToken
<1>5. CASE Finish(r, "noSession") \/ Finish(r, "expired")
    BY <1>5 DEF Finish, GoTo, FoundAt, TypeInv, RequestsOK, Local
<1>6. ASSUME NEW s \in FindSessionByToken(t),
             sessions[s].status = "revoked", Finish(r, "revoked")
      PROVE  FoundAt(r)'
    <2>1. Of(t, s) /\ Ended(s) /\ s \in SessionId
        BY <1>4, <1>6 DEF Ended, Live
    <2>2. Of(t, s)' /\ Ended(s)'
        BY <2>1, OfKept, EndedKept
    <2>3. pc'[r] = "done" /\ loc'[r].res = "revoked"
        BY <1>6 DEF Finish, GoTo, TypeInv, RequestsOK, Local
    <2> QED BY <1>1, <1>2, <2>1, <2>2, <2>3 DEF FoundAt
<1>7. ASSUME NEW s \in FindSessionByToken(t),
             NEW step \in {"revoke", "user"}, GoTo(r, step),
             loc' = [loc EXCEPT ![r].sid = s]
      PROVE  FoundAt(r)'
    <2>1. pc'[r] = step /\ loc'[r].sid = s
        BY <1>7 DEF GoTo, TypeInv, RequestsOK, Local
    <2>2. Of(t, s)'
        BY <1>4, <1>7, OfKept
    <2> QED BY <1>1, <1>2, <2>1, <2>2 DEF FoundAt
<1> QED BY <1>2, <1>5, <1>6, <1>7 DEF RefreshFind

LEMMA FoundUser ==
    ASSUME Inv, PlaceInv, LineInv, DeletedUserHasNoSession, [Next]_vars,
           NEW r \in Request, RefreshUser(r)
    PROVE  FoundAt(r)'
<1> USE DEF Inv
<1>1. pc[r] = "user" /\ call' = call /\ call[r].op = "Refresh"
    BY DEF RefreshUser, At, PlaceInv, OpAt
<1>2. PICK t, s : t = call[r].tok /\ s = loc[r].sid
    OBVIOUS
<1>3. Of(t, s)
    BY <1>1, <1>2 DEF LineInv, FoundAt
<1>4. Of(t, s)'
    BY <1>3, OfKept
<1>5. CASE ~users[sessions[loc[r].sid].user].live
    <2>1. Finish(r, "userGone")
        BY <1>5 DEF RefreshUser
    <2>2. pc'[r] = "done" /\ loc'[r].res = "userGone" /\ loc'[r].sid = s
        BY <1>2, <2>1 DEF Finish, GoTo, TypeInv, RequestsOK, Local
    <2>3. s \in Opened /\ s \in SessionId
        BY <1>1, <1>2 DEF PlaceInv, SidAt, Opened
    <2>4. Ended(s)
        BY <1>2, <1>5, <2>3 DEF Ended, Live, DeletedUserHasNoSession, Stored
    <2>5. Ended(s)'
        BY <2>4, EndedKept
    <2> QED BY <1>1, <1>2, <1>4, <2>2, <2>5 DEF FoundAt
<1>6. CASE users[sessions[loc[r].sid].user].live
    <2> DEFINE v == users[sessions[loc[r].sid].user].ver
    <2>1. PICK x \in Token :
            /\ GoTo(r, "rotate")
            /\ loc' = [loc EXCEPT ![r] =
                 [@ EXCEPT !.next = x, !.ver = v, !.exp = now + RefreshTTL]]
        BY <1>6 DEF RefreshUser
    <2> HIDE DEF v
    <2>2. pc'[r] = "rotate" /\ loc'[r].sid = s
        BY <1>2, <2>1 DEF GoTo, TypeInv, RequestsOK, Local
    <2> QED BY <1>1, <1>2, <1>4, <2>2 DEF FoundAt
<1> QED BY <1>5, <1>6

LEMMA FoundRotate ==
    ASSUME Inv, PlaceInv, LineInv, [Next]_vars, NEW r \in Request, RefreshRotate(r)
    PROVE  FoundAt(r)'
<1> USE DEF Inv
<1>1. pc[r] = "rotate" /\ call' = call /\ call[r].op = "Refresh"
    BY DEF RefreshRotate, At, PlaceInv, OpAt
<1>2. PICK t, s : t = call[r].tok /\ s = loc[r].sid
    OBVIOUS
<1>3. Of(t, s)
    BY <1>1, <1>2 DEF LineInv, FoundAt
<1>4. Of(t, s)'
    BY <1>3, OfKept
<1>5. \/ pc'[r] = "revoke" /\ loc'[r].sid = s
      \/ pc'[r] = "issue" /\ loc'[r].sid = s /\ loc'[r].spent = t
    BY <1>2 DEF RefreshRotate, GoTo, TypeInv, RequestsOK, Local
<1> QED BY <1>1, <1>2, <1>4, <1>5 DEF FoundAt

LEMMA FoundIssue ==
    ASSUME Inv, LineInv, [Next]_vars, NEW r \in Request, Issue(r)
    PROVE  FoundAt(r)'
<1> USE DEF Inv
<1> SUFFICES ASSUME call'[r].op = "Refresh" PROVE FoundAt(r)'
    BY DEF FoundAt
<1>1. PICK t, s : t = call[r].tok /\ s = loc[r].sid
    OBVIOUS
<1>2. /\ pc[r] = "issue" /\ call' = call /\ pc'[r] = "done" /\ loc'[r].res = "ok"
      /\ loc'[r].sid = s /\ loc'[r].spent = loc[r].spent
    BY <1>1 DEF Issue, At, Finish, GoTo, TypeInv, RequestsOK, Local
<1>3. loc[r].spent = t /\ Of(t, s)
    BY <1>1, <1>2 DEF LineInv, FoundAt
<1>4. Of(t, s)'
    BY <1>3, OfKept
<1> QED BY <1>1, <1>2, <1>3, <1>4 DEF FoundAt

LEMMA FoundRevoke ==
    ASSUME Inv, PlaceInv, LineInv, [Next]_vars, NEW r \in Request, Revoke(r)
    PROVE  FoundAt(r)'
<1> USE DEF Inv
<1> SUFFICES ASSUME call'[r].op = "Refresh" PROVE FoundAt(r)'
    BY DEF FoundAt
<1>1. PICK t, s : t = call[r].tok /\ s = loc[r].sid
    OBVIOUS
<1>2. /\ pc[r] = "revoke" /\ call' = call /\ pc'[r] = "done"
      /\ loc'[r].res = "reused" /\ loc'[r].sid = s
    BY <1>1 DEF Revoke, At, Finish, GoTo, TypeInv, RequestsOK, Local
<1>3. Of(t, s)
    BY <1>1, <1>2 DEF LineInv, FoundAt
<1>4. Of(t, s)'
    BY <1>3, OfKept
<1>5. s \in Opened' /\ s \in SessionId
    BY <1>3, GrowingStep DEF Of, Growing, Opened
<1>6. sessions' = [sessions EXCEPT ![s].status =
                     IF sessions[s].status = "live" THEN "revoked"
                       ELSE sessions[s].status]
    BY <1>1 DEF Revoke
<1>7. s \notin Live'
    BY <1>5, <1>6 DEF Live, TypeInv, StoreOK, SessionRow
<1>8. Ended(s)'
    BY <1>5, <1>7 DEF Ended
<1> QED BY <1>1, <1>2, <1>4, <1>8 DEF FoundAt

\* A request that found no session, or is no Refresh, or failed.
LEMMA FoundOther ==
    ASSUME TypeInv, PlaceInv, NEW r \in Request,
           \/ StartLogin(r) \/ StartTokenOp(r) \/ StartLogoutAll(r)
           \/ StartChangePassword(r) \/ StartDeleteUser(r) \/ StartGetMe(r)
           \/ LoginVerify(r) \/ LoginCreate(r) \/ LogoutFind(r)
           \/ Authenticate(r) \/ LogoutAllBump(r) \/ ChangePasswordCheck(r)
           \/ ChangePasswordUpdate(r) \/ RevokeAll(r) \/ DeleteUser(r)
           \/ GetMe(r) \/ Abort(r)
    PROVE  FoundAt(r)'
<1>1. CASE \/ StartLogin(r) \/ StartTokenOp(r) \/ StartLogoutAll(r)
           \/ StartChangePassword(r) \/ StartDeleteUser(r) \/ StartGetMe(r)
    <2>1. ASSUME NEW c, NEW first \in {"verify", "find", "authenticate"},
                 Arrive(r, c, first)
          PROVE  FoundAt(r)'
        BY <2>1 DEF Arrive, GoTo, FoundAt, TypeInv, RequestsOK
    <2>2. CASE StartLogin(r)
        BY <2>1, <2>2 DEF StartLogin
    <2>3. CASE StartTokenOp(r)
        BY <2>1, <2>3 DEF StartTokenOp
    <2>4. CASE \/ StartLogoutAll(r) \/ StartChangePassword(r)
               \/ StartDeleteUser(r) \/ StartGetMe(r)
        <3>1. \E c : Arrive(r, c, "authenticate")
            BY <2>4 DEF StartLogoutAll, StartChangePassword, StartDeleteUser,
                        StartGetMe
        <3> QED BY <2>1, <3>1
    <2> QED BY <1>1, <2>2, <2>3, <2>4
<1>2. CASE call'[r].op # "Refresh"
    BY <1>2 DEF FoundAt
<1>3. CASE LoginVerify(r) \/ LoginCreate(r)
    <2>1. call' = call /\ call[r].op = "Login"
        BY <1>3 DEF LoginVerify, LoginCreate, At, PlaceInv, OpAt
    <2> QED BY <1>2, <2>1
<1>4. CASE LogoutFind(r)
    BY <1>2, <1>4 DEF LogoutFind
<1>5. CASE Authenticate(r)
    <2>1. call' = call /\ call[r].op \in BearerOp
        BY <1>5 DEF Authenticate, At, TypeInv, RequestsOK, Known
    <2> QED BY <1>2, <2>1 DEF BearerOp
<1>6. CASE \/ LogoutAllBump(r) \/ ChangePasswordCheck(r) \/ ChangePasswordUpdate(r)
           \/ RevokeAll(r) \/ DeleteUser(r) \/ GetMe(r)
    <2>1. call' = call /\ call[r].op # "Refresh"
        BY <1>6 DEF LogoutAllBump, ChangePasswordCheck, ChangePasswordUpdate,
                    RevokeAll, DeleteUser, GetMe, At, PlaceInv, OpAt, SignOut
    <2> QED BY <1>2, <2>1
<1>7. CASE Abort(r)
    BY <1>7 DEF Abort, Finish, GoTo, FoundAt, TypeInv, RequestsOK, Local
<1> QED BY <1>1, <1>3, <1>4, <1>5, <1>6, <1>7

LEMMA LineNext ==
    /\ Inv /\ PlaceInv /\ DeletedUserHasNoSession /\ PresentedInv /\ LineInv
    /\ [Next]_vars
    => LineInv'
<1> SUFFICES ASSUME Inv, PlaceInv, DeletedUserHasNoSession, PresentedInv, LineInv,
                    [Next]_vars, NEW q \in Request
             PROVE  FoundAt(q)'
    BY PrevNext DEF LineInv
<1>1. TypeInv
    BY DEF Inv
<1>2. CASE Tick \/ UNCHANGED vars
    BY <1>2, FoundKept DEF Tick, vars
<1>3. ASSUME NEW r \in Request, Frame(r), r # q PROVE FoundAt(q)'
    BY <1>3, FoundKept DEF Frame
<1> QED BY <1>1, <1>2, <1>3, SessionsStep, FoundFind, FoundUser, FoundRotate,
           FoundIssue, FoundRevoke, FoundOther DEF Next, Quiesce

LineAll ==
    Inv /\ PlaceInv /\ DeletedUserHasNoSession /\ PresentedInv /\ LineInv

LEMMA LineAlways == Spec => []LineAll
<1>1. Init => LineAll
    BY TypeInit, TokenInit, PlaceInit, DeletedInit, PresentedInit, LineInit
       DEF LineAll, Inv
<1>2. LineAll /\ [Next]_vars => LineAll'
    BY InvNext, PlaceNext, DeletedNext, PresentedNext, LineNext DEF LineAll, Inv
<1> QED BY <1>1, <1>2, PTL DEF Spec

LEMMA DoubleEnds == LineAll => DoublePresentationEndsSession
<1> SUFFICES ASSUME LineAll, NEW r1 \in Request, NEW r2 \in Request, NEW t \in Token,
                    r1 # r2, Presented(r1, t), Presented(r2, t), NEW s \in Live
             PROVE  t \notin {sessions[s].cur, sessions[s].prev} /\ s # loc[r1].sid
    BY DEF DoublePresentationEndsSession
<1> USE DEF LineAll, Inv
<1>1. t # NoToken /\ s \in SessionId /\ s \in Opened
    BY AtomAssumption DEF Live, Opened
<1>2. \E x \in SessionId : Of(t, x) /\ Ended(x)
    <2>1. ASSUME NEW r \in Request, Presented(r, t), loc[r].res # "ok"
          PROVE  \E x \in SessionId : Of(t, x) /\ Ended(x)
        <3>1. CASE loc[r].res = "revoked"
            BY <2>1, <3>1 DEF Presented, LineInv, FoundAt
        <3>2. CASE loc[r].res \in {"reused", "userGone"}
            <4>1. Of(t, loc[r].sid) /\ Ended(loc[r].sid)
                BY <2>1, <3>2 DEF Presented, LineInv, FoundAt
            <4> QED BY <4>1 DEF Of, Opened
        <3> QED BY <2>1, <3>1, <3>2 DEF Presented
    <2>2. ~(loc[r1].res = "ok" /\ loc[r2].res = "ok")
        BY <1>1 DEF Presented, LineInv, FoundAt, TokenInv, SpentInv
    <2> QED BY <2>1, <2>2
<1>3. PICK x \in SessionId : Of(t, x) /\ Ended(x)
    BY <1>2
<1>4. s # x /\ ~Of(t, s)
    BY <1>3, OfUnique DEF Ended
<1>5. t # sessions[s].cur
    BY <1>1, <1>4 DEF Of
<1>6. t # sessions[s].prev
    BY <1>1, <1>4 DEF LineInv, PrevInv, Of
<1>7. s # loc[r1].sid
    <2>1. CASE loc[r1].res = "revoked"
        BY <1>1, <2>1, AtomAssumption DEF Presented, PlaceInv, SidAt
    <2>2. CASE loc[r1].res \in {"ok", "reused", "userGone"}
        <3>1. Of(t, loc[r1].sid)
            BY <2>2 DEF Presented, LineInv, FoundAt
        <3> QED BY <1>4, <3>1
    <2> QED BY <2>1, <2>2 DEF Presented
<1> QED BY <1>5, <1>6, <1>7

\* Two requests that presented the same token and were answered leave its
\* session ended, for every number of requests and sessions.
THEOREM DoublePresentation == Spec => []DoublePresentationEndsSession
BY LineAlways, DoubleEnds, PTL
==============================================================================
