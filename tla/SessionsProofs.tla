--------------------------- MODULE SessionsProofs ---------------------------
(***************************************************************************)
(* Type correctness, that a refresh token is exchanged at most once, and   *)
(* that Sessions implements RefreshChain, for every value of the constants *)
(* of Sessions.                                                            *)
(***************************************************************************)
EXTENDS Sessions, TLAPS

BearerOp == {"LogoutAll", "ChangePassword", "DeleteUser", "GetMe"}

\* What a request knows at its step: the fields that TypeOK leaves optional
\* are set where a statement uses them.
Known(r) ==
    /\ pc[r] \in {"user", "rotate", "issue", "revoke"}
         => loc[r].sid \in SessionId
    /\ pc[r] \in {"create", "rotate", "issue"} => loc[r].next \in Token
    /\ pc[r] = "authenticate" => call[r].op \in BearerOp

RequestsOK ==
    /\ pc \in [Request -> Step]
    /\ call \in [Request -> Call]
    /\ loc \in [Request -> Local]
    /\ \A r \in Request : Known(r)

StoreOK ==
    /\ users \in [User -> UserRow]
    /\ sessions \in [SessionId -> SessionRow]
    /\ issued \subseteq Token
    /\ now \in Nat
    /\ held \subseteq Token
    /\ access \subseteq Claims

TypeInv == StoreOK /\ RequestsOK
-----------------------------------------------------------------------------
LEMMA NoCallType == NoCall \in Call
BY InhabitedAssumption
   DEF NoCall, Call, AnyUser, AnyPassword, Operation, OptToken

\* A request that ends knows nothing it must use.
LEMMA FinishOK ==
    ASSUME RequestsOK, NEW r \in Request, NEW res \in Result, Finish(r, res),
           call' = call
    PROVE  RequestsOK'
<1>1. pc' \in [Request -> Step]
    BY DEF RequestsOK, Finish, GoTo, Step
<1>2. loc' \in [Request -> Local]
    BY DEF RequestsOK, Finish, Local
<1>3. ASSUME NEW q \in Request PROVE Known(q)'
    <2>1. CASE q = r
        BY <2>1 DEF RequestsOK, Finish, GoTo, Known
    <2>2. CASE q # r
        BY <2>2 DEF RequestsOK, Finish, GoTo, Known
    <2> QED BY <2>1, <2>2
<1> QED BY <1>1, <1>2, <1>3 DEF RequestsOK

\* A request that goes to another step with new local variables that suit it.
LEMMA MoveOK ==
    ASSUME RequestsOK, NEW r \in Request, NEW step \in Step, NEW l \in Local,
           GoTo(r, step), loc' = [loc EXCEPT ![r] = l], call' = call,
           step \in {"user", "rotate", "issue", "revoke"} => l.sid \in SessionId,
           step \in {"create", "rotate", "issue"} => l.next \in Token,
           step # "authenticate"
    PROVE  RequestsOK'
<1>1. pc' \in [Request -> Step]
    BY DEF RequestsOK, GoTo
<1>2. loc' \in [Request -> Local]
    BY DEF RequestsOK
<1>3. ASSUME NEW q \in Request PROVE Known(q)'
    <2>1. CASE q = r
        BY <2>1 DEF RequestsOK, GoTo, Known
    <2>2. CASE q # r
        BY <2>2 DEF RequestsOK, GoTo, Known
    <2> QED BY <2>1, <2>2
<1> QED BY <1>1, <1>2, <1>3 DEF RequestsOK
-----------------------------------------------------------------------------
LEMMA TypeInit == Init => TypeInv
<1> SUFFICES ASSUME Init PROVE TypeInv
    OBVIOUS
<1>1. users \in [User -> UserRow]
    <2>1. \A p \in Password : [live |-> TRUE, pw |-> p, ver |-> 0] \in UserRow
        BY Zenon DEF UserRow
    <2>2. users \in [User -> {[live |-> TRUE, pw |-> p, ver |-> 0] : p \in Password}]
        BY DEF Init
    <2> QED BY <2>1, <2>2
<1>2. \A u \in User, t \in Token : NewRow(u, t, RefreshTTL, 0) \in SessionRow
    BY TimeAssumption DEF NewRow, SessionRow, OptToken
<1>3. FreeRow \in SessionRow /\ FreeRow.status = "free"
    <2>1. AnyUser \in User
        BY InhabitedAssumption DEF AnyUser
    <2> QED BY <2>1 DEF FreeRow, NewRow, SessionRow, OptToken
<1>4. sessions \in [SessionId -> SessionRow]
    BY <1>2, <1>3 DEF Init
<1>5. \A s \in Live : sessions[s].cur \in Token
    BY <1>3 DEF Init, Live, NewRow
<1>6. issued \subseteq Token /\ held \subseteq Token
    BY <1>5 DEF Init
<1>7. access \subseteq Claims
    BY <1>4 DEF Init, Claims, Live, SessionRow
<1>8. call \in [Request -> Call]
    BY NoCallType DEF Init
<1>9. loc \in [Request -> Local]
    BY DEF Init, Local, Result, OptToken
<1>10. pc \in [Request -> Step] /\ now \in Nat
    BY DEF Init, Step
<1>11. \A r \in Request : Known(r)
    BY DEF Init, Known
<1> QED
    BY <1>1, <1>4, <1>6, <1>7, <1>8, <1>9, <1>10, <1>11
       DEF TypeInv, StoreOK, RequestsOK
-----------------------------------------------------------------------------
LEMMA ArriveType ==
    ASSUME TypeInv, NEW r \in Request, NEW c \in Call, NEW first \in Step,
           Arrive(r, c, first), first \in {"verify", "find", "authenticate"},
           first = "authenticate" => c.op \in BearerOp
    PROVE  TypeInv'
<1>1. StoreOK'
    BY DEF TypeInv, StoreOK, Arrive
<1>2. pc' \in [Request -> Step] /\ call' \in [Request -> Call]
      /\ loc' \in [Request -> Local]
    BY DEF TypeInv, RequestsOK, Arrive, GoTo
<1>3. ASSUME NEW q \in Request PROVE Known(q)'
    <2>1. CASE q = r
        BY <2>1 DEF TypeInv, RequestsOK, Arrive, GoTo, Known
    <2>2. CASE q # r
        BY <2>2 DEF TypeInv, RequestsOK, Arrive, GoTo, Known
    <2> QED BY <2>1, <2>2
<1> QED BY <1>1, <1>2, <1>3 DEF TypeInv, RequestsOK

LEMMA StartLoginType ==
    ASSUME TypeInv, NEW r \in Request, StartLogin(r) PROVE TypeInv'
<1>1. PICK u \in User, p \in Password :
        Arrive(r, [NoCall EXCEPT !.op = "Login", !.user = u, !.pw = p], "verify")
    BY DEF StartLogin
<1>2. [NoCall EXCEPT !.op = "Login", !.user = u, !.pw = p] \in Call
    BY NoCallType DEF Call, Operation
<1> QED BY <1>1, <1>2, ArriveType DEF Step

LEMMA StartTokenOpType ==
    ASSUME TypeInv, NEW r \in Request, StartTokenOp(r) PROVE TypeInv'
<1>1. PICK t \in held, o \in {"Refresh", "Logout"} :
        Arrive(r, [NoCall EXCEPT !.op = o, !.tok = t, !.at = now], "find")
    BY DEF StartTokenOp
<1>2. t \in OptToken /\ now \in Nat
    BY DEF TypeInv, StoreOK, OptToken
<1>3. [NoCall EXCEPT !.op = o, !.tok = t, !.at = now] \in Call
    BY <1>2, NoCallType DEF Call, Operation
<1> QED BY <1>1, <1>3, ArriveType DEF Step

LEMMA BearerCallType ==
    ASSUME TypeInv, NEW op \in BearerOp, NEW c \in access, NEW u \in User
    PROVE  /\ BearerCall(op, c, u) \in Call /\ BearerCall(op, c, u).op = op
           /\ SignOutCall(op, c, u) \in Call /\ SignOutCall(op, c, u).op = op
<1>1. c \in Claims /\ access \subseteq Claims
    BY DEF TypeInv, StoreOK
<1>2. BearerCall(op, c, u) \in Call /\ BearerCall(op, c, u).op = op
    BY <1>1, NoCallType DEF BearerCall, BearerOp, Call, Operation
<1>3. LiveOf(u) \in SUBSET SessionId
      /\ {a \in access : a.user = u} \in SUBSET Claims
    BY <1>1 DEF LiveOf, Live
<1>4. SignOutCall(op, c, u) \in Call /\ SignOutCall(op, c, u).op = op
    BY <1>2, <1>3 DEF SignOutCall, Call
<1> QED BY <1>2, <1>4

\* The user an access token names is one.
LEMMA ClaimsName == ASSUME TypeInv, NEW c \in access PROVE c.user \in User
BY DEF TypeInv, StoreOK, Claims

LEMMA StartBearerType ==
    ASSUME TypeInv, NEW r \in Request,
           StartLogoutAll(r) \/ StartChangePassword(r)
             \/ StartDeleteUser(r) \/ StartGetMe(r)
    PROVE  TypeInv'
<1>1. "authenticate" \in Step
    BY DEF Step
<1>2. CASE StartLogoutAll(r)
    BY <1>1, <1>2, ClaimsName, BearerCallType, ArriveType DEF StartLogoutAll, BearerOp
<1>3. CASE StartChangePassword(r)
    <2>1. PICK c \in access, u \in User, p, q \in Password :
            Arrive(r, [SignOutCall("ChangePassword", c, u) EXCEPT
                         !.pw = p, !.newpw = q], "authenticate")
        BY <1>3 DEF StartChangePassword
    <2>2. /\ SignOutCall("ChangePassword", c, u) \in Call
          /\ SignOutCall("ChangePassword", c, u).op \in BearerOp
        BY BearerCallType DEF BearerOp
    <2>3. /\ [SignOutCall("ChangePassword", c, u) EXCEPT !.pw = p, !.newpw = q]
               \in Call
          /\ [SignOutCall("ChangePassword", c, u) EXCEPT !.pw = p, !.newpw = q].op
               \in BearerOp
        BY <2>2 DEF Call
    <2> QED BY <1>1, <2>1, <2>3, ArriveType
<1>4. CASE StartDeleteUser(r)
    BY <1>1, <1>4, BearerCallType, ArriveType DEF StartDeleteUser, BearerOp
<1>5. CASE StartGetMe(r)
    BY <1>1, <1>5, ClaimsName, BearerCallType, ArriveType DEF StartGetMe, BearerOp
<1> QED BY <1>2, <1>3, <1>4, <1>5
-----------------------------------------------------------------------------
LEMMA LoginType ==
    ASSUME TypeInv, NEW r \in Request, LoginVerify(r) \/ LoginCreate(r)
    PROVE  TypeInv'
<1> USE DEF TypeInv
<1>1. call[r].user \in User /\ loc[r] \in Local
      /\ users[call[r].user].ver \in Nat
    BY DEF StoreOK, RequestsOK, Call, UserRow
<1>2. CASE LoginVerify(r)
    <2>1. StoreOK'
        BY <1>2 DEF LoginVerify, StoreOK
    <2>2. CASE Finish(r, "unauthorized")
        BY <1>2, <2>1, <2>2, FinishOK DEF LoginVerify, Result
    <2>3. CASE ~Finish(r, "unauthorized")
        <3>1. PICK t \in Token :
                /\ GoTo(r, "create")
                /\ loc' = [loc EXCEPT ![r] =
                     [@ EXCEPT !.next = t, !.ver = users[call[r].user].ver,
                               !.exp = now + RefreshTTL]]
            BY <1>2, <2>3 DEF LoginVerify
        <3> DEFINE l == [loc[r] EXCEPT !.next = t,
                           !.ver = users[call[r].user].ver,
                           !.exp = now + RefreshTTL]
        <3>2. now + RefreshTTL \in Nat
            BY TimeAssumption DEF StoreOK
        <3>3. l \in Local /\ l.next \in Token
            BY <1>1, <3>2 DEF Local, OptToken
        <3>4. loc' = [loc EXCEPT ![r] = l] /\ call' = call
            BY <1>2, <3>1 DEF LoginVerify
        <3> HIDE DEF l
        <3> QED BY <2>1, <3>1, <3>3, <3>4, MoveOK DEF Step
    <2> QED BY <2>2, <2>3
<1>3. CASE LoginCreate(r)
    <2>1. CASE ~HasUser(call[r].user)
        BY <1>3, <2>1, FinishOK DEF LoginCreate, Result, StoreOK
    <2>2. CASE HasUser(call[r].user)
        <3>1. PICK s \in SessionId :
                /\ sessions' = [sessions EXCEPT ![s] =
                     NewRow(call[r].user, loc[r].next, loc[r].exp, loc[r].ver)]
                /\ loc' = [loc EXCEPT ![r].sid = s]
                /\ GoTo(r, "issue")
            BY <1>3, <2>2 DEF LoginCreate
        <3> DEFINE l == [loc[r] EXCEPT !.sid = s]
        <3>2. loc[r].next \in Token
            BY <1>3 DEF LoginCreate, At, RequestsOK, Known
        <3>3. l \in Local /\ l.sid \in SessionId /\ l.next \in Token
            BY <1>1, <3>2 DEF Local
        <3>4. NewRow(call[r].user, loc[r].next, loc[r].exp, loc[r].ver)
                \in SessionRow
            BY <1>1, <3>2 DEF NewRow, SessionRow, Local, OptToken
        <3>5. StoreOK'
            BY <1>3, <3>1, <3>4 DEF LoginCreate, StoreOK
        <3>6. loc' = [loc EXCEPT ![r] = l] /\ call' = call
            BY <1>3, <3>1 DEF LoginCreate
        <3> HIDE DEF l
        <3> QED BY <3>1, <3>3, <3>5, <3>6, MoveOK DEF Step
    <2> QED BY <2>1, <2>2
<1> QED BY <1>2, <1>3

LEMMA IssueType ==
    ASSUME TypeInv, NEW r \in Request, Issue(r) PROVE TypeInv'
<1>1. loc[r].sid \in SessionId /\ loc[r].next \in Token /\ loc[r].ver \in Nat
    BY DEF TypeInv, RequestsOK, Known, Local, Issue, At
<1>2. StoreOK'
    BY <1>1 DEF TypeInv, StoreOK, Issue, Claims, SessionRow
<1> QED BY <1>2, FinishOK DEF TypeInv, Issue, Result

LEMMA RefreshType ==
    ASSUME TypeInv, NEW r \in Request,
           RefreshFind(r) \/ RefreshUser(r) \/ RefreshRotate(r)
    PROVE  TypeInv'
<1> USE DEF TypeInv
<1>1. loc[r] \in Local /\ call[r].tok \in OptToken
    BY DEF RequestsOK, Call
<1>2. CASE RefreshFind(r)
    <2>1. StoreOK' /\ call' = call
        BY <1>2 DEF RefreshFind, StoreOK
    <2>2. CASE \E res \in Result : Finish(r, res)
        BY <2>1, <2>2, FinishOK
    <2>3. CASE \E s \in SessionId, step \in {"revoke", "user"} :
                 GoTo(r, step) /\ loc' = [loc EXCEPT ![r].sid = s]
        <3>1. PICK s \in SessionId, step \in {"revoke", "user"} :
                 GoTo(r, step) /\ loc' = [loc EXCEPT ![r].sid = s]
            BY <2>3
        <3> DEFINE l == [loc[r] EXCEPT !.sid = s]
        <3>2. l \in Local /\ l.sid \in SessionId
            BY <1>1 DEF Local
        <3>3. loc' = [loc EXCEPT ![r] = l]
            BY <3>1
        <3>4. step \in Step /\ step \notin {"create", "rotate", "issue"}
              /\ step # "authenticate"
            BY DEF Step
        <3> HIDE DEF l
        <3> QED BY <2>1, <3>1, <3>2, <3>3, <3>4, MoveOK
    <2> QED
        BY <1>2, <2>2, <2>3
           DEF RefreshFind, FindSessionByToken, Stored, Result
<1>3. CASE RefreshUser(r)
    <2>1. StoreOK' /\ call' = call
        BY <1>3 DEF RefreshUser, StoreOK
    <2>2. CASE Finish(r, "userGone")
        BY <2>1, <2>2, FinishOK DEF Result
    <2>3. CASE ~Finish(r, "userGone")
        <3> DEFINE v == users[sessions[loc[r].sid].user].ver
        <3>1. PICK t \in Token :
                /\ GoTo(r, "rotate")
                /\ loc' = [loc EXCEPT ![r] =
                     [@ EXCEPT !.next = t, !.ver = v, !.exp = now + RefreshTTL]]
            BY <1>3, <2>3 DEF RefreshUser
        <3>2. loc[r].sid \in SessionId
            BY <1>3 DEF RefreshUser, At, RequestsOK, Known
        <3>3. v \in Nat /\ now + RefreshTTL \in Nat
            BY <3>2, TimeAssumption DEF StoreOK, SessionRow, UserRow
        <3> HIDE DEF v
        <3> DEFINE l == [loc[r] EXCEPT !.next = t, !.ver = v,
                                       !.exp = now + RefreshTTL]
        <3>4. l \in Local /\ l.next \in Token /\ l.sid \in SessionId
            BY <1>1, <3>2, <3>3 DEF Local, OptToken
        <3>5. loc' = [loc EXCEPT ![r] = l]
            BY <3>1
        <3> HIDE DEF l
        <3> QED BY <2>1, <3>1, <3>4, <3>5, MoveOK DEF Step
    <2> QED BY <2>2, <2>3
<1>4. CASE RefreshRotate(r)
    <2>1. loc[r].sid \in SessionId /\ loc[r].next \in Token
        BY <1>4 DEF RefreshRotate, At, RequestsOK, Known
    <2>2. CASE Rotatable(r)
        <3> DEFINE l == [loc[r] EXCEPT !.spent = call[r].tok]
        <3>1. l \in Local /\ l.next \in Token /\ l.sid \in SessionId
            BY <1>1, <2>1 DEF Local
        <3>2. /\ loc' = [loc EXCEPT ![r] = l] /\ call' = call
              /\ GoTo(r, "issue")
            BY <1>4, <2>2 DEF RefreshRotate
        <3>3. sessions' \in [SessionId -> SessionRow]
            BY <1>1, <1>4, <2>1, <2>2
               DEF RefreshRotate, StoreOK, SessionRow, Local, OptToken
        <3>4. StoreOK'
            BY <1>4, <3>3 DEF RefreshRotate, StoreOK
        <3> HIDE DEF l
        <3> QED BY <3>1, <3>2, <3>4, MoveOK DEF Step
    <2>3. CASE ~Rotatable(r)
        <3>1. /\ loc' = [loc EXCEPT ![r] = loc[r]] /\ call' = call
              /\ GoTo(r, "revoke")
            BY <1>4, <2>3 DEF RefreshRotate, RequestsOK
        <3>2. StoreOK'
            BY <1>4, <2>3 DEF RefreshRotate, StoreOK
        <3> QED BY <1>1, <2>1, <3>1, <3>2, MoveOK DEF Step
    <2> QED BY <2>2, <2>3
<1> QED BY <1>2, <1>3, <1>4

LEMMA LogoutType ==
    ASSUME TypeInv, NEW r \in Request, LogoutFind(r) \/ Revoke(r)
    PROVE  TypeInv'
<1> USE DEF TypeInv
<1>1. loc[r] \in Local
    BY DEF RequestsOK
<1>2. CASE LogoutFind(r)
    <2>1. StoreOK' /\ call' = call
        BY <1>2 DEF LogoutFind, StoreOK
    <2>2. CASE Finish(r, "ok")
        BY <2>1, <2>2, FinishOK DEF Result
    <2>3. CASE ~Finish(r, "ok")
        <3>1. PICK s \in SessionId :
                 GoTo(r, "revoke") /\ loc' = [loc EXCEPT ![r].sid = s]
            BY <1>2, <2>3 DEF LogoutFind, FindSessionByToken, Stored
        <3> DEFINE l == [loc[r] EXCEPT !.sid = s]
        <3>2. l \in Local /\ l.sid \in SessionId
            BY <1>1 DEF Local
        <3>3. loc' = [loc EXCEPT ![r] = l]
            BY <3>1
        <3> HIDE DEF l
        <3> QED BY <2>1, <3>1, <3>2, <3>3, MoveOK DEF Step
    <2> QED BY <2>2, <2>3
<1>3. CASE Revoke(r)
    <2> DEFINE st == IF sessions[loc[r].sid].status = "live" THEN "revoked"
                       ELSE sessions[loc[r].sid].status
    <2>4. sessions' = [sessions EXCEPT ![loc[r].sid].status = st]
        BY <1>3 DEF Revoke
    <2>5. loc[r].sid \in SessionId
        BY <1>3 DEF Revoke, At, RequestsOK, Known
    <2>6. st \in {"free", "live", "revoked", "deleted"}
        BY <2>5 DEF StoreOK, SessionRow
    <2> HIDE DEF st
    <2>1. sessions' \in [SessionId -> SessionRow]
        BY <2>4, <2>6 DEF StoreOK, SessionRow
    <2>2. StoreOK' /\ call' = call
        BY <1>3, <2>1 DEF Revoke, StoreOK
    <2>3. PICK res \in Result : Finish(r, res)
        BY <1>3 DEF Revoke, Result
    <2> QED BY <2>2, <2>3, FinishOK
<1> QED BY <1>2, <1>3

\* The steps of a bearer operation that keep the local variables or end.
LEMMA StepOK ==
    ASSUME RequestsOK, NEW r \in Request,
           NEW step \in {"bump", "check", "delete", "get", "update", "revokeAll"},
           NEW v \in Nat, GoTo(r, step), call' = call,
           loc' = loc \/ loc' = [loc EXCEPT ![r].ver = v]
    PROVE  RequestsOK'
<1> DEFINE l == IF loc' = loc THEN loc[r] ELSE [loc[r] EXCEPT !.ver = v]
<1>1. l \in Local
    BY DEF RequestsOK, Local
<1>2. loc' = [loc EXCEPT ![r] = l]
    BY DEF RequestsOK
<1>3. step \in Step /\ step # "authenticate"
      /\ step \notin {"user", "rotate", "issue", "revoke", "create"}
    BY DEF Step
<1> HIDE DEF l
<1> QED BY <1>1, <1>2, <1>3, MoveOK

LEMMA BearerType ==
    ASSUME TypeInv, NEW r \in Request,
           \/ Authenticate(r) \/ LogoutAllBump(r) \/ ChangePasswordCheck(r)
           \/ ChangePasswordUpdate(r) \/ RevokeAll(r) \/ DeleteUser(r) \/ GetMe(r)
    PROVE  TypeInv'
<1> USE DEF TypeInv
<1>1. call[r] \in Call /\ call[r].user \in User /\ call[r].newpw \in Password
    BY DEF RequestsOK, Call
<1>2. users[call[r].user].ver + 1 \in Nat
    BY <1>1 DEF StoreOK, UserRow
<1>3. CASE Authenticate(r)
    <2>1. StoreOK' /\ call' = call
        BY <1>3 DEF Authenticate, StoreOK
    <2>2. CASE Finish(r, "unauthorized")
        BY <2>1, <2>2, FinishOK DEF Result
    <2>3. CASE ~Finish(r, "unauthorized")
        <3>1. call[r].op \in BearerOp
            BY <1>3 DEF Authenticate, At, RequestsOK, Known
        <3>2. GoTo(r, AfterAuthenticate[call[r].op]) /\ loc' = loc
            BY <1>3, <2>3 DEF Authenticate
        <3>3. AfterAuthenticate[call[r].op] \in {"bump", "check", "delete", "get"}
            BY <3>1 DEF AfterAuthenticate, BearerOp
        <3> QED BY <1>2, <2>1, <3>2, <3>3, StepOK
    <2> QED BY <2>2, <2>3
<1>4. CASE LogoutAllBump(r)
    <2>1. CASE ~users[call[r].user].live
        BY <1>4, <2>1, FinishOK DEF LogoutAllBump, Result, StoreOK
    <2>2. CASE users[call[r].user].live
        <3>1. users' = [users EXCEPT ![call[r].user].ver =
                                       users[call[r].user].ver + 1]
              /\ loc' = [loc EXCEPT ![r].ver = users[call[r].user].ver + 1]
              /\ GoTo(r, "revokeAll") /\ call' = call
            BY <1>4, <2>2 DEF LogoutAllBump, NextVersion
        <3>2. users' \in [User -> UserRow]
            BY <1>2, <3>1 DEF StoreOK, UserRow
        <3>3. StoreOK'
            BY <1>4, <3>2 DEF LogoutAllBump, StoreOK
        <3> QED BY <1>2, <3>1, <3>3, StepOK
    <2> QED BY <2>1, <2>2
<1>5. CASE ChangePasswordCheck(r)
    <2>1. StoreOK' /\ call' = call
        BY <1>5 DEF ChangePasswordCheck, StoreOK
    <2>2. CASE \E res \in Result : Finish(r, res)
        BY <2>1, <2>2, FinishOK
    <2>3. CASE GoTo(r, "update") /\ loc' = loc
        BY <1>2, <2>1, <2>3, StepOK
    <2> QED BY <1>5, <2>2, <2>3 DEF ChangePasswordCheck, Result
<1>6. CASE ChangePasswordUpdate(r)
    <2>1. CASE ~users[call[r].user].live
        BY <1>6, <2>1, FinishOK DEF ChangePasswordUpdate, Result, StoreOK
    <2>2. CASE users[call[r].user].live
        <3>1. users' = [users EXCEPT ![call[r].user].pw = call[r].newpw,
                          ![call[r].user].ver = users[call[r].user].ver + 1]
              /\ loc' = [loc EXCEPT ![r].ver = users[call[r].user].ver + 1]
              /\ GoTo(r, "revokeAll") /\ call' = call
            BY <1>6, <2>2 DEF ChangePasswordUpdate, NextVersion
        <3>2. users' \in [User -> UserRow]
            BY <1>1, <1>2, <3>1 DEF StoreOK, UserRow
        <3>3. StoreOK'
            BY <1>6, <3>2 DEF ChangePasswordUpdate, StoreOK
        <3> QED BY <1>2, <3>1, <3>3, StepOK
    <2> QED BY <2>1, <2>2
<1>7. CASE RevokeAll(r)
    <2>1. sessions' \in [SessionId -> SessionRow]
        BY <1>7 DEF RevokeAll, StoreOK, SessionRow
    <2> QED BY <1>7, <2>1, FinishOK DEF RevokeAll, StoreOK, Result
<1>8. CASE DeleteUser(r)
    <2>1. sessions' \in [SessionId -> SessionRow]
        BY <1>8 DEF DeleteUser, StoreOK, SessionRow
    <2>2. users' \in [User -> UserRow]
        <3>1. users' = users
              \/ users' = [users EXCEPT ![call[r].user].live = FALSE]
            BY <1>8 DEF DeleteUser
        <3> QED BY <3>1 DEF StoreOK, UserRow
    <2>3. StoreOK' /\ call' = call
        BY <1>8, <2>1, <2>2 DEF DeleteUser, StoreOK
    <2>4. \E res \in Result : Finish(r, res)
        BY <1>8 DEF DeleteUser, Result
    <2> QED BY <2>3, <2>4, FinishOK
<1>9. CASE GetMe(r)
    <2>1. \E res \in Result : Finish(r, res)
        BY <1>9 DEF GetMe, Result
    <2> QED BY <1>9, <2>1, FinishOK DEF GetMe, StoreOK
<1> QED BY <1>3, <1>4, <1>5, <1>6, <1>7, <1>8, <1>9

LEMMA TypeNext == TypeInv /\ [Next]_vars => TypeInv'
<1> SUFFICES ASSUME TypeInv, [Next]_vars PROVE TypeInv'
    OBVIOUS
<1>1. ASSUME NEW r \in Request, Abort(r) PROVE TypeInv'
    BY <1>1, FinishOK DEF Abort, TypeInv, StoreOK, Result
<1>2. CASE Tick
    BY <1>2 DEF Tick, TypeInv, StoreOK, RequestsOK, Known
<1>3. CASE UNCHANGED vars
    BY <1>3 DEF vars, TypeInv, StoreOK, RequestsOK, Known
<1> QED
    BY <1>1, <1>2, <1>3, StartLoginType, StartTokenOpType, StartBearerType,
       LoginType, IssueType, RefreshType, LogoutType, BearerType
       DEF Next, Quiesce

\* Every row of the two tables, every token and every local variable keeps its
\* type, whatever requests the clients send and wherever they fail.
THEOREM TypeCorrect == Spec => []TypeOK
<1>1. TypeInv => TypeOK
    BY DEF TypeInv, StoreOK, RequestsOK, TypeOK
<1> QED
    BY <1>1, TypeInit, TypeNext, PTL DEF Spec
-----------------------------------------------------------------------------
(* The tokens, and the chain they make.                                    *)

Opened == {s \in SessionId : sessions[s].status # "free"}

\* A request that has drawn a token no row holds yet.
Drawn(r) == pc[r] \in {"create", "rotate"}

(***************************************************************************)
(* Why RotateRefreshToken cannot take a token twice: the tokens that are   *)
(* current, those that were spent and those drawn but not stored are three *)
(* disjoint sets of drawn tokens, none of which lists a token twice.       *)
(***************************************************************************)
CurrentInv ==
    \A s \in Opened :
        /\ sessions[s].cur \in issued
        /\ \A q \in Opened : s # q => sessions[s].cur # sessions[q].cur

DrawnInv ==
    \A r \in Request : Drawn(r) =>
        /\ loc[r].next \in issued
        /\ \A s \in Opened : sessions[s].cur # loc[r].next
        /\ \A q \in Request : r # q /\ Drawn(q) => loc[r].next # loc[q].next

SpentInv ==
    \A r \in Request : loc[r].spent # NoToken =>
        /\ pc[r] \in {"issue", "done"}
        /\ loc[r].spent \in issued
        /\ \A s \in Opened : sessions[s].cur # loc[r].spent
        /\ \A q \in Request : Drawn(q) => loc[q].next # loc[r].spent
        /\ \A q \in Request : r # q => loc[r].spent # loc[q].spent

TokenInv == CurrentInv /\ DrawnInv /\ SpentInv

Inv == TypeInv /\ TokenInv
------------------------------------------------------------------------------
LEMMA TokenInit == Init => TokenInv
<1> SUFFICES ASSUME Init PROVE TokenInv
    OBVIOUS
<1>1. FreeRow.status = "free"
      /\ \A u \in User, t \in Token : NewRow(u, t, RefreshTTL, 0).status = "live"
    BY DEF FreeRow, NewRow
<1>2. Opened = Live
    BY <1>1 DEF Init, Opened, Live
<1>3. CurrentInv
    BY <1>2 DEF Init, CurrentInv
<1>4. DrawnInv /\ SpentInv
    BY DEF Init, DrawnInv, SpentInv, Drawn
<1> QED BY <1>3, <1>4 DEF TokenInv

\* The steps that neither draw, nor store, nor spend a token.
Quiet ==
    /\ issued' = issued
    /\ \A s \in SessionId :
         /\ sessions'[s].cur = sessions[s].cur
         /\ sessions'[s].status = "free" <=> sessions[s].status = "free"
    /\ \A r \in Request :
         /\ loc'[r].next = loc[r].next
         /\ loc'[r].spent = loc[r].spent
         /\ \/ pc'[r] = pc[r]
            \/ pc'[r] = "done"
            \/ pc[r] \notin {"issue", "done"} /\ pc'[r] \notin {"create", "rotate"}

LEMMA QuietInv == ASSUME TokenInv, Quiet PROVE TokenInv'
<1>1. Opened' = Opened /\ \A s \in Opened : sessions'[s].cur = sessions[s].cur
    BY DEF Quiet, Opened
<1>2. \A r \in Request : Drawn(r)' => Drawn(r)
    BY DEF Quiet, Drawn
<1>3. CurrentInv'
    BY <1>1 DEF TokenInv, CurrentInv, Quiet
<1>4. DrawnInv'
    BY <1>1, <1>2 DEF TokenInv, DrawnInv, Quiet
<1>5. SpentInv'
    BY <1>1, <1>2 DEF TokenInv, SpentInv, Quiet
<1> QED BY <1>3, <1>4, <1>5 DEF TokenInv

\* A request that ends, whatever it was doing.
LEMMA FinishQuiet ==
    ASSUME TypeInv, NEW r \in Request, NEW res \in Result, Finish(r, res),
           issued' = issued,
           \A s \in SessionId :
             /\ sessions'[s].cur = sessions[s].cur
             /\ sessions'[s].status = "free" <=> sessions[s].status = "free"
    PROVE  Quiet
BY DEF TypeInv, RequestsOK, Finish, GoTo, Quiet, Local

\* A request that goes on, before it has anything to issue.
LEMMA GoToQuiet ==
    ASSUME TypeInv, NEW r \in Request, NEW step \in Step, GoTo(r, step),
           pc[r] \notin {"issue", "done"}, step \notin {"create", "rotate"},
           \/ loc' = loc
           \/ \E x : loc' = [loc EXCEPT ![r].sid = x]
           \/ \E x : loc' = [loc EXCEPT ![r].ver = x],
           issued' = issued, sessions' = sessions
    PROVE  Quiet
BY DEF TypeInv, RequestsOK, GoTo, Quiet, Local
-----------------------------------------------------------------------------
\* LoginVerify and RefreshUser: the request draws a token.
LEMMA DrawInv ==
    ASSUME Inv, NEW r \in Request, NEW t \in Token \ issued,
           NEW step \in {"create", "rotate"},
           pc[r] \in {"verify", "user"}, GoTo(r, step),
           issued' = issued \cup {t}, sessions' = sessions,
           loc'[r].next = t, loc'[r].spent = loc[r].spent,
           \A q \in Request : q # r => loc'[q] = loc[q]
    PROVE  TokenInv'
<1> USE DEF Inv, TokenInv
<1>1. /\ loc'[r].next = t /\ loc'[r].spent = loc[r].spent
      /\ \A q \in Request : q # r => loc'[q] = loc[q] /\ pc'[q] = pc[q]
      /\ pc'[r] = step
    BY DEF TypeInv, RequestsOK, GoTo, Local
<1>2. Opened' = Opened
    BY DEF Opened
<1>3. \A q \in Request : q # r => (Drawn(q)' <=> Drawn(q))
    BY <1>1 DEF Drawn
<1>4. loc[r].spent = NoToken
    BY DEF SpentInv
<1>5. CurrentInv'
    BY <1>2 DEF CurrentInv
<1>6. DrawnInv'
    BY <1>1, <1>2, <1>3 DEF DrawnInv, CurrentInv
<1>7. SpentInv'
    BY <1>1, <1>2, <1>3, <1>4 DEF SpentInv
<1> QED BY <1>5, <1>6, <1>7

\* LoginCreate: the token drawn becomes the current one of a new session.
LEMMA StoreInv ==
    ASSUME Inv, NEW r \in Request, NEW s \in SessionId, NEW row,
           pc[r] = "create", GoTo(r, "issue"), sessions[s].status = "free",
           sessions' = [sessions EXCEPT ![s] = row],
           row.status = "live", row.cur = loc[r].next,
           loc' = [loc EXCEPT ![r].sid = s], issued' = issued
    PROVE  TokenInv'
<1> USE DEF Inv, TokenInv
<1>1. /\ \A q \in Request : /\ loc'[q].next = loc[q].next
                            /\ loc'[q].spent = loc[q].spent
                            /\ q # r => pc'[q] = pc[q]
      /\ pc'[r] = "issue"
    BY DEF TypeInv, RequestsOK, GoTo, Local
<1>2. /\ sessions'[s].cur = loc[r].next /\ sessions'[s].status = "live"
      /\ \A x \in SessionId : x # s => sessions'[x] = sessions[x]
    BY DEF TypeInv, StoreOK
<1>3. Opened' = Opened \cup {s} /\ s \notin Opened
    BY <1>2 DEF Opened
<1>4. Drawn(r) /\ ~Drawn(r)'
      /\ \A q \in Request : q # r => (Drawn(q)' <=> Drawn(q))
    BY <1>1 DEF Drawn
<1>5. CurrentInv'
    BY <1>2, <1>3, <1>4 DEF CurrentInv, DrawnInv, Opened
<1>6. DrawnInv'
    BY <1>1, <1>2, <1>3, <1>4 DEF DrawnInv, Opened
<1>7. SpentInv'
    BY <1>1, <1>2, <1>3, <1>4 DEF SpentInv, Opened
<1> QED BY <1>5, <1>6, <1>7

\* RefreshRotate: the current token is spent and the one drawn is current.
LEMMA RotateInv ==
    ASSUME Inv, NEW r \in Request, RefreshRotate(r), Rotatable(r)
    PROVE  TokenInv'
<1> USE DEF Inv, TokenInv
<1> DEFINE s == loc[r].sid
<1>1. s \in SessionId /\ pc[r] = "rotate" /\ pc'[r] = "issue"
      /\ sessions[s].status = "live" /\ sessions[s].cur = call[r].tok
      /\ issued' = issued
    BY DEF TypeInv, RequestsOK, Known, RefreshRotate, Rotatable, At, GoTo
<1>2. /\ loc'[r].next = loc[r].next /\ loc'[r].spent = sessions[s].cur
      /\ \A q \in Request : q # r => loc'[q] = loc[q] /\ pc'[q] = pc[q]
    BY <1>1 DEF TypeInv, RequestsOK, RefreshRotate, GoTo, Local
<1>3. /\ sessions'[s].cur = loc[r].next /\ sessions'[s].status = "live"
      /\ \A x \in SessionId : x # s => sessions'[x] = sessions[x]
    BY <1>1 DEF TypeInv, StoreOK, RefreshRotate, SessionRow
<1>4. Opened' = Opened /\ s \in Opened
    BY <1>1, <1>3 DEF Opened
<1>5. Drawn(r) /\ ~Drawn(r)'
      /\ \A q \in Request : q # r => (Drawn(q)' <=> Drawn(q))
    BY <1>1, <1>2 DEF Drawn
<1> HIDE DEF s
<1>6. CurrentInv'
    BY <1>1, <1>3, <1>4, <1>5 DEF CurrentInv, DrawnInv, Opened
<1>7. DrawnInv'
    BY <1>1, <1>2, <1>3, <1>4, <1>5 DEF DrawnInv, Opened
<1>8. ASSUME NEW q \in Request, loc'[q].spent # NoToken, q # r
      PROVE  /\ pc'[q] \in {"issue", "done"} /\ loc'[q].spent \in issued
             /\ \A x \in Opened' : sessions'[x].cur # loc'[q].spent
             /\ \A x \in Request : Drawn(x)' => loc'[x].next # loc'[q].spent
             /\ \A x \in Request : q # x => loc'[q].spent # loc'[x].spent
    BY <1>1, <1>2, <1>3, <1>4, <1>5, <1>8 DEF SpentInv, Opened
<1>9. /\ loc'[r].spent \in issued
      /\ \A x \in Opened' : sessions'[x].cur # loc'[r].spent
      /\ \A x \in Request : Drawn(x)' => loc'[x].next # loc'[r].spent
    BY <1>1, <1>2, <1>3, <1>4, <1>5 DEF CurrentInv, DrawnInv, Opened
<1>10. ASSUME NEW q \in Request, q # r PROVE loc'[r].spent # loc'[q].spent
    BY <1>1, <1>2, <1>4, <1>9, <1>10, AtomAssumption
       DEF SpentInv, TypeInv, StoreOK
<1>11. SpentInv'
    BY <1>1, <1>8, <1>9, <1>10 DEF SpentInv
<1> QED BY <1>6, <1>7, <1>11
-----------------------------------------------------------------------------
\* A step draws a token, stores one, exchanges one or is quiet.
LEMMA LoginVerifyInv ==
    ASSUME Inv, NEW r \in Request, LoginVerify(r) PROVE TokenInv'
<1>1. CASE Finish(r, "unauthorized") /\ issued' = issued
    <2>1. Quiet
        BY <1>1, FinishQuiet DEF Inv, LoginVerify, Result
    <2> QED BY <2>1, QuietInv DEF Inv
<1>2. CASE ~(Finish(r, "unauthorized") /\ issued' = issued)
    <2>1. PICK t \in Token \ issued :
            /\ issued' = issued \cup {t} /\ GoTo(r, "create")
            /\ loc' = [loc EXCEPT ![r] =
                 [@ EXCEPT !.next = t, !.ver = users[call[r].user].ver,
                           !.exp = now + RefreshTTL]]
        BY <1>2 DEF LoginVerify
    <2>2. pc[r] = "verify" /\ sessions' = sessions
        BY DEF LoginVerify, At
    <2>3. /\ loc'[r].next = t /\ loc'[r].spent = loc[r].spent
          /\ \A q \in Request : q # r => loc'[q] = loc[q]
        BY <2>1 DEF Inv, TypeInv, RequestsOK, Local
    <2> QED BY <2>1, <2>2, <2>3, DrawInv
<1> QED BY <1>1, <1>2

LEMMA RefreshUserInv ==
    ASSUME Inv, NEW r \in Request, RefreshUser(r) PROVE TokenInv'
<1>1. CASE Finish(r, "userGone") /\ issued' = issued
    <2>1. Quiet
        BY <1>1, FinishQuiet DEF Inv, RefreshUser, Result
    <2> QED BY <2>1, QuietInv DEF Inv
<1>2. CASE ~(Finish(r, "userGone") /\ issued' = issued)
    <2>1. PICK t \in Token \ issued :
            /\ issued' = issued \cup {t} /\ GoTo(r, "rotate")
            /\ loc' = [loc EXCEPT ![r] =
                 [@ EXCEPT !.next = t, !.ver = users[sessions[loc[r].sid].user].ver,
                           !.exp = now + RefreshTTL]]
        BY <1>2 DEF RefreshUser
    <2>2. pc[r] = "user" /\ sessions' = sessions
        BY DEF RefreshUser, At
    <2>3. /\ loc'[r].next = t /\ loc'[r].spent = loc[r].spent
          /\ \A q \in Request : q # r => loc'[q] = loc[q]
        BY <2>1 DEF Inv, TypeInv, RequestsOK, Local
    <2> QED BY <2>1, <2>2, <2>3, DrawInv
<1> QED BY <1>1, <1>2

LEMMA LoginCreateInv ==
    ASSUME Inv, NEW r \in Request, LoginCreate(r) PROVE TokenInv'
<1>1. CASE HasUser(call[r].user)
    <2> DEFINE row == NewRow(call[r].user, loc[r].next, loc[r].exp, loc[r].ver)
    <2>1. PICK s \in SessionId :
            /\ sessions[s].status = "free"
            /\ sessions' = [sessions EXCEPT ![s] = row]
            /\ loc' = [loc EXCEPT ![r].sid = s]
            /\ GoTo(r, "issue")
        BY <1>1 DEF LoginCreate
    <2>2. row.status = "live" /\ row.cur = loc[r].next
        BY DEF NewRow
    <2>3. pc[r] = "create" /\ issued' = issued
        BY DEF LoginCreate, At
    <2> HIDE DEF row
    <2> QED BY <2>1, <2>2, <2>3, StoreInv
<1>2. CASE ~HasUser(call[r].user)
    <2>1. Quiet
        BY <1>2, FinishQuiet DEF Inv, LoginCreate, Result
    <2> QED BY <2>1, QuietInv DEF Inv
<1> QED BY <1>1, <1>2

LEMMA RefreshRotateInv ==
    ASSUME Inv, NEW r \in Request, RefreshRotate(r) PROVE TokenInv'
<1>1. CASE ~Rotatable(r)
    <2>1. Quiet
        BY <1>1, GoToQuiet DEF Inv, RefreshRotate, At, Step
    <2> QED BY <2>1, QuietInv DEF Inv
<1> QED BY <1>1, RotateInv

LEMMA ArriveQuiet ==
    ASSUME TypeInv, NEW r \in Request, NEW c,
           NEW first \in {"verify", "find", "authenticate"}, Arrive(r, c, first)
    PROVE  Quiet
BY GoToQuiet DEF Arrive, At, Step

LEMMA StartQuiet ==
    ASSUME TypeInv, NEW r \in Request,
           \/ StartLogin(r) \/ StartTokenOp(r) \/ StartLogoutAll(r)
           \/ StartChangePassword(r) \/ StartDeleteUser(r) \/ StartGetMe(r)
    PROVE  Quiet
<1>1. StartLogin(r) => Quiet
    BY ArriveQuiet DEF StartLogin
<1>2. StartTokenOp(r) => Quiet
    BY ArriveQuiet DEF StartTokenOp
<1>3. StartLogoutAll(r) => Quiet
    BY ArriveQuiet DEF StartLogoutAll
<1>4. StartChangePassword(r) => Quiet
    BY ArriveQuiet DEF StartChangePassword
<1>5. StartDeleteUser(r) => Quiet
    BY ArriveQuiet DEF StartDeleteUser
<1>6. StartGetMe(r) => Quiet
    BY ArriveQuiet DEF StartGetMe
<1> QED BY <1>1, <1>2, <1>3, <1>4, <1>5, <1>6

LEMMA TokenOpQuiet ==
    ASSUME TypeInv, NEW r \in Request,
           Issue(r) \/ RefreshFind(r) \/ LogoutFind(r) \/ Revoke(r)
    PROVE  Quiet
<1>1. CASE Issue(r)
    BY <1>1, FinishQuiet DEF Issue, Result
<1>2. CASE RefreshFind(r)
    <2>1. issued' = issued /\ sessions' = sessions /\ pc[r] = "find"
        BY <1>2 DEF RefreshFind, At
    <2>2. CASE \E res \in Result : Finish(r, res)
        BY <2>1, <2>2, FinishQuiet
    <2>3. CASE \E s : GoTo(r, "revoke") /\ loc' = [loc EXCEPT ![r].sid = s]
        BY <2>1, <2>3, GoToQuiet DEF Step
    <2>4. CASE \E s : GoTo(r, "user") /\ loc' = [loc EXCEPT ![r].sid = s]
        BY <2>1, <2>4, GoToQuiet DEF Step
    <2> QED BY <1>2, <2>2, <2>3, <2>4 DEF RefreshFind, Result
<1>3. CASE LogoutFind(r)
    <2>1. issued' = issued /\ sessions' = sessions /\ pc[r] = "find"
        BY <1>3 DEF LogoutFind, At
    <2>2. CASE Finish(r, "ok")
        BY <2>1, <2>2, FinishQuiet DEF Result
    <2>3. CASE \E s : GoTo(r, "revoke") /\ loc' = [loc EXCEPT ![r].sid = s]
        BY <2>1, <2>3, GoToQuiet DEF Step
    <2> QED BY <1>3, <2>2, <2>3 DEF LogoutFind
<1>4. CASE Revoke(r)
    <2>1. \E res \in Result : Finish(r, res)
        BY <1>4 DEF Revoke, Result
    <2>2. issued' = issued
        BY <1>4 DEF Revoke
    <2>3. ASSUME NEW s \in SessionId
          PROVE  /\ sessions'[s].cur = sessions[s].cur
                 /\ sessions'[s].status = "free" <=> sessions[s].status = "free"
        <3>1. CASE sessions' = [sessions EXCEPT ![loc[r].sid].status = "revoked"]
                   /\ sessions[loc[r].sid].status = "live"
            BY <3>1 DEF TypeInv, StoreOK, SessionRow
        <3>2. CASE sessions' = [sessions EXCEPT ![loc[r].sid].status = @]
            BY <3>2 DEF TypeInv, StoreOK, SessionRow
        <3> QED BY <1>4, <3>1, <3>2 DEF Revoke
    <2> QED BY <2>1, <2>2, <2>3, FinishQuiet
<1> QED BY <1>1, <1>2, <1>3, <1>4

LEMMA BearerQuiet ==
    ASSUME TypeInv, NEW r \in Request,
           \/ Authenticate(r) \/ LogoutAllBump(r) \/ ChangePasswordCheck(r)
           \/ ChangePasswordUpdate(r) \/ RevokeAll(r) \/ DeleteUser(r)
           \/ GetMe(r) \/ Abort(r)
    PROVE  Quiet
<1>1. CASE Authenticate(r)
    <2>1. issued' = issued /\ sessions' = sessions /\ pc[r] = "authenticate"
        BY <1>1 DEF Authenticate, At
    <2>2. call[r].op \in BearerOp
        BY <2>1 DEF TypeInv, RequestsOK, Known
    <2>3. AfterAuthenticate[call[r].op] \in {"bump", "check", "delete", "get"}
        BY <2>2 DEF AfterAuthenticate, BearerOp
    <2>4. CASE Finish(r, "unauthorized")
        BY <2>1, <2>4, FinishQuiet DEF Result
    <2>5. CASE GoTo(r, AfterAuthenticate[call[r].op]) /\ loc' = loc
        BY <2>1, <2>3, <2>5, GoToQuiet DEF Step
    <2> QED BY <1>1, <2>4, <2>5 DEF Authenticate
<1>2. CASE LogoutAllBump(r)
    <2>1. issued' = issued /\ sessions' = sessions /\ pc[r] = "bump"
        BY <1>2 DEF LogoutAllBump, At
    <2>2. CASE Finish(r, "notFound")
        BY <2>1, <2>2, FinishQuiet DEF Result
    <2>3. CASE \E x : GoTo(r, "revokeAll") /\ loc' = [loc EXCEPT ![r].ver = x]
        BY <2>1, <2>3, GoToQuiet DEF Step
    <2> QED BY <1>2, <2>2, <2>3 DEF LogoutAllBump
<1>3. CASE ChangePasswordCheck(r)
    <2>1. issued' = issued /\ sessions' = sessions /\ pc[r] = "check"
        BY <1>3 DEF ChangePasswordCheck, At
    <2>2. CASE \E res \in Result : Finish(r, res)
        BY <2>1, <2>2, FinishQuiet
    <2>3. CASE GoTo(r, "update") /\ loc' = loc
        BY <2>1, <2>3, GoToQuiet DEF Step
    <2> QED BY <1>3, <2>2, <2>3 DEF ChangePasswordCheck, Result
<1>4. CASE ChangePasswordUpdate(r)
    <2>1. issued' = issued /\ sessions' = sessions /\ pc[r] = "update"
        BY <1>4 DEF ChangePasswordUpdate, At
    <2>2. CASE Finish(r, "notFound")
        BY <2>1, <2>2, FinishQuiet DEF Result
    <2>3. CASE \E x : GoTo(r, "revokeAll") /\ loc' = [loc EXCEPT ![r].ver = x]
        BY <2>1, <2>3, GoToQuiet DEF Step
    <2> QED BY <1>4, <2>2, <2>3 DEF ChangePasswordUpdate
<1>5. CASE RevokeAll(r)
    <2>1. \A s \in SessionId :
            /\ sessions'[s].cur = sessions[s].cur
            /\ sessions'[s].status = "free" <=> sessions[s].status = "free"
        BY <1>5 DEF RevokeAll, LiveOf, Live, TypeInv, StoreOK, SessionRow
    <2> QED BY <1>5, <2>1, FinishQuiet DEF RevokeAll, Result
<1>6. CASE DeleteUser(r)
    <2>1. \A s \in SessionId :
            /\ sessions'[s].cur = sessions[s].cur
            /\ sessions'[s].status = "free" <=> sessions[s].status = "free"
        BY <1>6 DEF DeleteUser, Cascade, Stored, TypeInv, StoreOK, SessionRow
    <2>2. \E res \in Result : Finish(r, res)
        BY <1>6 DEF DeleteUser, Result
    <2> QED BY <1>6, <2>1, <2>2, FinishQuiet DEF DeleteUser
<1>7. CASE GetMe(r) \/ Abort(r)
    <2>1. \E res \in Result : Finish(r, res)
        BY <1>7 DEF GetMe, Abort, Result
    <2> QED BY <1>7, <2>1, FinishQuiet DEF GetMe, Abort
<1> QED BY <1>1, <1>2, <1>3, <1>4, <1>5, <1>6, <1>7

LEMMA IdleQuiet == ASSUME TypeInv, Tick \/ UNCHANGED vars PROVE Quiet
BY DEF Tick, vars, Quiet

LEMMA InvNext == Inv /\ [Next]_vars => Inv'
<1> SUFFICES ASSUME Inv, [Next]_vars PROVE TokenInv'
    BY TypeNext DEF Inv
<1>1. CASE Quiet
    BY <1>1, QuietInv DEF Inv
<1> QED
    BY <1>1, LoginVerifyInv, RefreshUserInv, LoginCreateInv, RefreshRotateInv,
       StartQuiet, TokenOpQuiet, BearerQuiet, IdleQuiet
       DEF Next, Quiesce, Inv

LEMMA InvAlways == Spec => []Inv
BY TypeInit, TokenInit, InvNext, PTL DEF Spec, Inv

\* No refresh token is exchanged twice, for any number of requests, sessions
\* and users, whatever order their statements run in.
THEOREM SingleUseHolds == Spec => []SingleUse
<1>1. Inv => SingleUse
    BY DEF Inv, TokenInv, SpentInv, SingleUse
<1> QED BY <1>1, InvAlways, PTL
-----------------------------------------------------------------------------
(* The refinement: a stored token opens a chain, an exchange is an         *)
(* exchange, a step that revokes or deletes ends chains, any other step    *)
(* leaves the chains alone.                                                *)
SpentTokens == {loc[r].spent : r \in Request} \ {NoToken}
CurrentTokens == [s \in SessionId |-> sessions[s].cur]

ChainStep == [Chain!Next]_<<ChainState, CurrentTokens, SpentTokens>>

\* Sessions only ever move from live to revoked or deleted.
Ending ==
    \A s \in SessionId :
        \/ sessions'[s].status = sessions[s].status
        \/ /\ sessions[s].status \in {"live", "revoked"}
           /\ sessions'[s].status \in {"revoked", "deleted"}

LEMMA ChainInit == Init => Chain!Init
<1> SUFFICES ASSUME Init PROVE Chain!Init
    OBVIOUS
<1>1. /\ FreeRow.status = "free" /\ FreeRow.cur = NoToken
      /\ \A u \in User, t \in Token :
           NewRow(u, t, RefreshTTL, 0).status = "live"
           /\ NewRow(u, t, RefreshTTL, 0).cur = t
    BY DEF FreeRow, NewRow
<1>2. \A s \in SessionId :
        \/ sessions[s].status = "free" /\ sessions[s].cur = NoToken
        \/ sessions[s].status = "live" /\ sessions[s].cur \in Token
    BY <1>1 DEF Init
<1>3. \A s \in SessionId :
        /\ sessions[s].status = "free" <=> ChainState[s] = "unopened"
        /\ sessions[s].status = "live" <=> ChainState[s] = "open"
        /\ ChainState[s] \in {"unopened", "open"}
    BY <1>2 DEF ChainState
<1>4. ChainState \in [SessionId -> {"unopened", "open"}]
    BY <1>3 DEF ChainState
<1>5. CurrentTokens \in [SessionId -> Token \cup {NoToken}]
    BY <1>2 DEF CurrentTokens
<1>6. Chain!Opened = Live
    BY <1>2, <1>3 DEF Chain!Opened, Live
<1>7. \A s \in Live : CurrentTokens[s] = sessions[s].cur
    BY DEF CurrentTokens, Live
<1>8. \A s \in Live : CurrentTokens[s] \in Token
    BY <1>1, <1>2, <1>7 DEF Live
<1>9. \A s, q \in Live : s # q => CurrentTokens[s] # CurrentTokens[q]
    BY <1>7 DEF Init
<1>10. SpentTokens = {}
    BY DEF Init, SpentTokens
<1> QED BY <1>4, <1>5, <1>6, <1>8, <1>9, <1>10
           DEF Chain!Init, CurrentTokens, SpentTokens

LEMMA EndStep == ASSUME TypeInv, Quiet, Ending PROVE ChainStep
<1>1. CurrentTokens' = CurrentTokens
    BY DEF CurrentTokens, Quiet
<1>2. SpentTokens' = SpentTokens
    BY DEF SpentTokens, Quiet
<1> DEFINE ending == {s \in SessionId : ChainState[s] # ChainState'[s]}
<1>3. \A s \in SessionId :
        \/ ChainState'[s] = ChainState[s]
        \/ (ChainState[s] = "open" /\ ChainState'[s] = "ended")
    BY DEF Ending, ChainState, TypeInv, StoreOK, SessionRow
<1>4. \A s \in ending : ChainState[s] = "open"
    BY <1>3
<1>5. ChainState' = [s \in SessionId |->
                       IF s \in ending THEN "ended" ELSE ChainState[s]]
    BY <1>3 DEF ChainState
<1> HIDE DEF ending
<1>6. Chain!End(ending)
    BY <1>1, <1>2, <1>4, <1>5 DEF Chain!End, CurrentTokens, SpentTokens
<1>7. ending \in SUBSET SessionId
    BY DEF ending
<1> QED BY <1>6, <1>7 DEF ChainStep, Chain!Next

LEMMA ChainSeen ==
    ASSUME Inv, NEW r \in Request, Drawn(r)
    PROVE  loc[r].next \notin Chain!Seen
<1>1. Chain!Opened \subseteq Opened
    BY DEF Chain!Opened, ChainState, Opened
<1>2. \A s \in Opened : sessions[s].cur # loc[r].next
    BY DEF Inv, TokenInv, DrawnInv
<1>3. loc[r].next \notin SpentTokens
    BY DEF Inv, TokenInv, SpentInv, SpentTokens
<1> QED BY <1>1, <1>2, <1>3 DEF Chain!Seen, SpentTokens, Opened

LEMMA OpenStep ==
    ASSUME Inv, NEW r \in Request, NEW s \in SessionId, NEW row \in SessionRow,
           pc[r] = "create", sessions[s].status = "free",
           sessions' = [sessions EXCEPT ![s] = row],
           row.status = "live", row.cur = loc[r].next,
           loc' = [loc EXCEPT ![r].sid = s]
    PROVE  ChainStep
<1>1. SpentTokens' = SpentTokens
    BY DEF SpentTokens, Inv, TypeInv, RequestsOK, Local
<1>2. ChainState' = [ChainState EXCEPT ![s] = "open"]
    BY DEF ChainState, Inv, TypeInv, StoreOK
<1>3. CurrentTokens' = [CurrentTokens EXCEPT ![s] = loc[r].next]
    BY DEF CurrentTokens, Inv, TypeInv, StoreOK
<1>4. ChainState[s] = "unopened"
    BY DEF ChainState
<1>5. loc[r].next \in Token /\ loc[r].next \notin Chain!Seen
    BY ChainSeen DEF Inv, TypeInv, RequestsOK, Known, Drawn
<1>6. PICK t \in Token : t = loc[r].next
    BY <1>5
<1>7. Chain!Open(s, t)
    BY <1>1, <1>2, <1>3, <1>4, <1>5, <1>6
       DEF Chain!Open, CurrentTokens, SpentTokens
<1> QED BY <1>7 DEF ChainStep, Chain!Next

LEMMA ExchangeStep ==
    ASSUME Inv, NEW r \in Request, RefreshRotate(r), Rotatable(r)
    PROVE  ChainStep
<1> DEFINE s == loc[r].sid
<1>1. s \in SessionId /\ pc[r] = "rotate" /\ loc[r].next \in Token
      /\ sessions[s].status = "live" /\ sessions[s].cur = call[r].tok
    BY DEF Inv, TypeInv, RequestsOK, Known, RefreshRotate, Rotatable, At
<1>2. /\ sessions'[s].cur = loc[r].next /\ sessions'[s].status = "live"
      /\ \A x \in SessionId : x # s => sessions'[x] = sessions[x]
    BY <1>1 DEF Inv, TypeInv, StoreOK, RefreshRotate, SessionRow
<1>3. /\ loc'[r].spent = sessions[s].cur
      /\ \A q \in Request : q # r => loc'[q] = loc[q]
    BY <1>1 DEF Inv, TypeInv, RequestsOK, RefreshRotate, Local
<1>4. ChainState' = ChainState /\ ChainState[s] = "open"
    BY <1>1, <1>2 DEF ChainState
<1>5. CurrentTokens' = [CurrentTokens EXCEPT ![s] = loc[r].next]
      /\ CurrentTokens[s] = sessions[s].cur
    BY <1>1, <1>2 DEF CurrentTokens
<1>6. loc[r].spent = NoToken
    BY <1>1 DEF Inv, TokenInv, SpentInv
<1>7. sessions[s].cur # NoToken
    BY <1>1, AtomAssumption
       DEF Inv, TypeInv, StoreOK, TokenInv, CurrentInv, Opened
<1>8. SpentTokens' = SpentTokens \cup {CurrentTokens[s]}
    BY <1>3, <1>5, <1>6, <1>7 DEF SpentTokens
<1>9. loc[r].next \notin Chain!Seen
    BY <1>1, ChainSeen DEF Drawn
<1> HIDE DEF s
<1>10. PICK x \in SessionId, t \in Token : x = s /\ t = loc[r].next
    BY <1>1
<1>11. Chain!Exchange(x, t)
    BY <1>4, <1>5, <1>8, <1>9, <1>10
       DEF Chain!Exchange, CurrentTokens, SpentTokens
<1> QED BY <1>11 DEF ChainStep, Chain!Next

LEMMA SameStep ==
    ASSUME TypeInv, sessions' = sessions,
           \A q \in Request : loc'[q].spent = loc[q].spent
    PROVE  ChainStep
<1>1. ChainState' = ChainState /\ CurrentTokens' = CurrentTokens
    BY DEF ChainState, CurrentTokens
<1>2. SpentTokens' = SpentTokens
    BY DEF SpentTokens
<1> QED BY <1>1, <1>2 DEF ChainStep

\* The steps that write the sessions table without storing a token.
LEMMA EndingActions ==
    ASSUME TypeInv, NEW r \in Request, Revoke(r) \/ RevokeAll(r) \/ DeleteUser(r)
    PROVE  Ending
<1>1. CASE Revoke(r)
    <2>1. CASE sessions' = [sessions EXCEPT ![loc[r].sid].status = "revoked"]
               /\ sessions[loc[r].sid].status = "live"
        BY <2>1 DEF Ending, TypeInv, StoreOK, SessionRow
    <2>2. CASE sessions' = [sessions EXCEPT ![loc[r].sid].status = @]
        BY <2>2 DEF Ending, TypeInv, StoreOK, SessionRow
    <2> QED BY <1>1, <2>1, <2>2 DEF Revoke
<1>2. CASE RevokeAll(r)
    BY <1>2 DEF Ending, RevokeAll, LiveOf, Live, TypeInv, StoreOK, SessionRow
<1>3. CASE DeleteUser(r)
    BY <1>3 DEF Ending, DeleteUser, Cascade, Stored, TypeInv, StoreOK, SessionRow
<1> QED BY <1>1, <1>2, <1>3

LEMMA ChainNext == Inv /\ [Next]_vars => ChainStep
<1> SUFFICES ASSUME Inv, [Next]_vars PROVE ChainStep
    OBVIOUS
<1>1. TypeInv
    BY DEF Inv
<1>2. CASE Quiet /\ sessions' = sessions
    BY <1>1, <1>2, SameStep DEF Quiet
<1>3. ASSUME NEW r \in Request, LoginVerify(r) \/ RefreshUser(r) PROVE ChainStep
    <2>1. sessions' = sessions
        BY <1>3 DEF LoginVerify, RefreshUser
    <2>2. ASSUME NEW q \in Request PROVE loc'[q].spent = loc[q].spent
        <3>1. CASE \E res : Finish(r, res)
            BY <1>1, <3>1 DEF Finish, TypeInv, RequestsOK, Local
        <3>2. CASE \E t, v, e : loc' = [loc EXCEPT ![r] =
                       [@ EXCEPT !.next = t, !.ver = v, !.exp = e]]
            BY <1>1, <3>2 DEF TypeInv, RequestsOK, Local
        <3>3. LoginVerify(r) => \/ Finish(r, "unauthorized")
                                \/ \E t, v, e : loc' = [loc EXCEPT ![r] =
                                      [@ EXCEPT !.next = t, !.ver = v, !.exp = e]]
            BY Zenon DEF LoginVerify
        <3>4. RefreshUser(r) => \/ Finish(r, "userGone")
                                \/ \E t, v, e : loc' = [loc EXCEPT ![r] =
                                      [@ EXCEPT !.next = t, !.ver = v, !.exp = e]]
            BY Zenon DEF RefreshUser
        <3> QED BY <1>3, <3>1, <3>2, <3>3, <3>4
    <2> QED BY <1>1, <2>1, <2>2, SameStep
<1>4. ASSUME NEW r \in Request, LoginCreate(r), HasUser(call[r].user)
      PROVE  ChainStep
    <2> DEFINE row == NewRow(call[r].user, loc[r].next, loc[r].exp, loc[r].ver)
    <2>1. pc[r] = "create"
        BY <1>4 DEF LoginCreate, At
    <2>2. call[r].user \in User /\ loc[r].exp \in Nat /\ loc[r].ver \in Nat
          /\ loc[r].next \in Token
        BY <1>1, <2>1 DEF TypeInv, RequestsOK, Known, Call, Local
    <2>3. row \in SessionRow /\ row.status = "live" /\ row.cur = loc[r].next
        BY <2>2 DEF NewRow, SessionRow, OptToken
    <2>4. PICK s \in SessionId :
            /\ sessions[s].status = "free"
            /\ sessions' = [sessions EXCEPT ![s] = row]
            /\ loc' = [loc EXCEPT ![r].sid = s]
        BY <1>4 DEF LoginCreate
    <2> HIDE DEF row
    <2> QED BY <2>1, <2>3, <2>4, OpenStep
<1>5. ASSUME NEW r \in Request, LoginCreate(r), ~HasUser(call[r].user)
      PROVE  ChainStep
    <2>1. Quiet /\ sessions' = sessions
        BY <1>1, <1>5, FinishQuiet DEF LoginCreate, Result
    <2> QED BY <1>2, <2>1
<1>6. ASSUME NEW r \in Request, RefreshRotate(r) PROVE ChainStep
    <2>1. CASE Rotatable(r)
        BY <1>6, <2>1, ExchangeStep
    <2>2. CASE ~Rotatable(r)
        BY <1>1, <1>6, <2>2, SameStep DEF RefreshRotate
    <2> QED BY <2>1, <2>2
<1>7. ASSUME NEW r \in Request, Revoke(r) \/ RevokeAll(r) \/ DeleteUser(r)
      PROVE  ChainStep
    BY <1>1, <1>7, EndStep, EndingActions, TokenOpQuiet, BearerQuiet
<1>8. ASSUME NEW r \in Request,
             \/ StartLogin(r) \/ StartTokenOp(r) \/ StartLogoutAll(r)
             \/ StartChangePassword(r) \/ StartDeleteUser(r) \/ StartGetMe(r)
      PROVE  ChainStep
    <2>1. sessions' = sessions
        BY <1>8 DEF StartLogin, StartTokenOp, StartLogoutAll, StartGetMe,
                    StartChangePassword, StartDeleteUser, Arrive
    <2> QED BY <1>1, <1>2, <1>8, <2>1, StartQuiet
<1>9. ASSUME NEW r \in Request, Issue(r) \/ RefreshFind(r) \/ LogoutFind(r)
      PROVE  ChainStep
    <2>1. sessions' = sessions
        BY <1>9 DEF Issue, RefreshFind, LogoutFind
    <2> QED BY <1>1, <1>2, <1>9, <2>1, TokenOpQuiet
<1>10. ASSUME NEW r \in Request,
              \/ Authenticate(r) \/ LogoutAllBump(r) \/ ChangePasswordCheck(r)
              \/ ChangePasswordUpdate(r) \/ GetMe(r) \/ Abort(r)
       PROVE  ChainStep
    <2>1. sessions' = sessions
        BY <1>10 DEF Authenticate, LogoutAllBump, ChangePasswordCheck,
                     ChangePasswordUpdate, GetMe, Abort
    <2> QED BY <1>1, <1>2, <1>10, <2>1, BearerQuiet
<1>11. CASE Tick \/ UNCHANGED vars
    BY <1>1, <1>2, <1>11, IdleQuiet DEF Tick, vars
<1> QED
    BY <1>3, <1>4, <1>5, <1>6, <1>7, <1>8, <1>9, <1>10, <1>11
       DEF Next, Quiesce

\* Whatever requests interleave, and wherever they fail, each session is a
\* chain of single-use refresh tokens: Sessions implements RefreshChain.
THEOREM ChainRefinement == Spec => ImplementsChain
<1>1. Init => Chain!Init
    BY ChainInit
<1>2. Inv /\ [Next]_vars => [Chain!Next]_(Chain!chainVars)
    BY ChainNext DEF ChainStep, Chain!chainVars, CurrentTokens, SpentTokens
<1> QED BY <1>1, <1>2, InvAlways, PTL DEF Spec, ImplementsChain, Chain!Spec
============================================================================
