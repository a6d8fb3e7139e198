------------------------------ MODULE Sessions ------------------------------
(***************************************************************************)
(* Login sessions of the API: apps/api/services/auth.go and the sign-out   *)
(* paths of apps/api/services/users.go, over the users and sessions tables *)
(* of apps/api/repos.  A request is a process; one action is one SQL       *)
(* statement with the Go code up to the next one, so two requests          *)
(* interleave exactly where two goroutines of the API (or two instances of *)
(* it) can.  No service method of this part opens a transaction.           *)
(*                                                                         *)
(* Refresh tokens and session ids are atoms drawn fresh (crypto/rand, an   *)
(* identity column).  An access token is the claims the code puts in it;   *)
(* its short lifetime is abstracted: Parse may refuse any token.           *)
(***************************************************************************)
EXTENDS Naturals, FiniteSets

CONSTANTS
    User,           \* the registered users
    Password,       \* the passwords clients use
    Request,        \* the requests of a behaviour, each handled once
    SessionId,      \* the ids CreateSession can hand out
    Token,          \* the refresh tokens NewRefreshToken can draw
    Op,             \* the operations clients call, a subset of Operation
    RefreshTTL,     \* Config.RefreshTokenTTL
    MaxTime,        \* bound on the clock
    NoToken, NoSession, NoClaims

Operation == {"Login", "Refresh", "Logout", "LogoutAll", "ChangePassword",
              "DeleteUser", "GetMe"}

SignOut == {"LogoutAll", "ChangePassword"}

ASSUME OpAssumption == Op \subseteq Operation
ASSUME TimeAssumption == RefreshTTL \in Nat \ {0} /\ MaxTime \in Nat
ASSUME AtomAssumption ==
    NoToken \notin Token /\ NoSession \notin SessionId
ASSUME InhabitedAssumption == User # {} /\ Password # {}

VARIABLES
    users,      \* users table: [live, pw, ver]; ver is token_version
    sessions,   \* sessions table; "free" ids are not handed out yet
    issued,     \* the refresh tokens drawn so far
    now,        \* the clock
    pc,         \* where each request is
    call,       \* the arguments of each request, and what it found on arrival
    loc,        \* the local variables of each request
    held,       \* the refresh tokens that reached a client
    access      \* the access tokens that reached a client

vars == <<users, sessions, issued, now, pc, call, loc, held, access>>
-----------------------------------------------------------------------------
OptToken == Token \cup {NoToken}

UserRow == [live : BOOLEAN, pw : Password, ver : Nat]

\* born is not a column: the token_version that Login read before it opened
\* the session.
SessionRow == [status : {"free", "live", "revoked", "deleted"},
               user : User, cur : OptToken, prev : OptToken,
               exp : Nat, born : Nat]

\* sid is not a claim: the session whose exchange or login issued the token.
Claims == [user : User, ver : Nat, sid : SessionId]

\* at, before and holding record the arrival of the request: the time, the
\* user's live sessions and the user's access tokens.
Call == [op : Operation, user : User, tok : OptToken,
         claims : Claims \cup {NoClaims}, pw : Password, newpw : Password,
         at : Nat, before : SUBSET SessionId, holding : SUBSET Claims]

Result == {"none", "ok", "noSession", "revoked", "expired", "reused",
           "userGone", "unauthorized", "notFound", "invalid", "error"}

\* spent records the token whose exchange by this request the database took.
Local == [sid : SessionId \cup {NoSession}, ver : Nat, next : OptToken,
          exp : Nat, spent : OptToken, res : Result]

Step == {"idle", "verify", "create", "find", "user", "rotate", "revoke",
         "issue", "authenticate", "bump", "check", "update", "revokeAll",
         "delete", "get", "done"}

Live == {s \in SessionId : sessions[s].status = "live"}
LiveOf(u) == {s \in Live : sessions[s].user = u}

\* A row exists while the session is live or revoked; deleting the user
\* deletes it.
Stored == {s \in SessionId : sessions[s].status \in {"live", "revoked"}}

FindSessionByToken(t) ==
    {s \in Stored : t \in {sessions[s].cur, sessions[s].prev}}

At(r, step) == pc[r] = step
GoTo(r, step) == pc' = [pc EXCEPT ![r] = step]
Finish(r, res) ==
    /\ GoTo(r, "done")
    /\ loc' = [loc EXCEPT ![r].res = res]
-----------------------------------------------------------------------------
AnyUser == CHOOSE u \in User : TRUE
AnyPassword == CHOOSE p \in Password : TRUE

NoCall == [op |-> "GetMe", user |-> AnyUser, tok |-> NoToken,
           claims |-> NoClaims, pw |-> AnyPassword, newpw |-> AnyPassword,
           at |-> 0, before |-> {}, holding |-> {}]

NewRow(u, t, exp, ver) ==
    [status |-> "live", user |-> u, cur |-> t, prev |-> NoToken,
     exp |-> exp, born |-> ver]

FreeRow == [NewRow(AnyUser, NoToken, 0, 0) EXCEPT !.status = "free"]

\* The tables may already hold live sessions, each with its own token, whose
\* clients hold the tokens of the login that opened them.
Init ==
    /\ users \in [User -> {[live |-> TRUE, pw |-> p, ver |-> 0] : p \in Password}]
    /\ sessions \in [SessionId -> {FreeRow} \cup
                      {NewRow(u, t, RefreshTTL, 0) : u \in User, t \in Token}]
    /\ \A s1, s2 \in Live : s1 # s2 => sessions[s1].cur # sessions[s2].cur
    /\ issued = {sessions[s].cur : s \in Live}
    /\ held = issued
    /\ access = {[user |-> sessions[s].user, ver |-> 0, sid |-> s] : s \in Live}
    /\ now = 0
    /\ pc = [r \in Request |-> "idle"]
    /\ call = [r \in Request |-> NoCall]
    /\ loc = [r \in Request |->
                [sid |-> NoSession, ver |-> 0, next |-> NoToken, exp |-> 0,
                 spent |-> NoToken, res |-> "none"]]
-----------------------------------------------------------------------------
\* A request arrives: first is the step its handler starts with.
Arrive(r, c, first) ==
    /\ At(r, "idle")
    /\ c.op \in Op
    /\ call' = [call EXCEPT ![r] = c]
    /\ GoTo(r, first)
    /\ UNCHANGED <<users, sessions, issued, now, loc, held, access>>

StartLogin(r) ==
    \E u \in User, p \in Password :
        Arrive(r, [NoCall EXCEPT !.op = "Login", !.user = u, !.pw = p],
               "verify")

StartTokenOp(r) ==
    \E t \in held, o \in {"Refresh", "Logout"} :
        Arrive(r, [NoCall EXCEPT !.op = o, !.tok = t, !.at = now], "find")

\* A request with an access token that concerns user u.
BearerCall(op, c, u) == [NoCall EXCEPT !.op = op, !.user = u, !.claims = c]

\* A sign-out also notes what it is to end.
SignOutCall(op, c, u) ==
    [BearerCall(op, c, u) EXCEPT !.before = LiveOf(u),
                                 !.holding = {a \in access : a.user = u}]

StartLogoutAll(r) ==
    \E c \in access : Arrive(r, SignOutCall("LogoutAll", c, c.user), "authenticate")

\* The user whose password changes or who is deleted is named in the path; it
\* need not be the caller.
StartChangePassword(r) ==
    \E c \in access, u \in User, p, q \in Password :
        Arrive(r, [SignOutCall("ChangePassword", c, u) EXCEPT !.pw = p, !.newpw = q],
               "authenticate")

StartDeleteUser(r) ==
    \E c \in access, u \in User :
        Arrive(r, BearerCall("DeleteUser", c, u), "authenticate")

StartGetMe(r) ==
    \E c \in access : Arrive(r, BearerCall("GetMe", c, c.user), "authenticate")
-----------------------------------------------------------------------------
\* Login: GetUserByEmail, Verify and NewRefreshToken.
LoginVerify(r) ==
    /\ At(r, "verify")
    /\ LET u == users[call[r].user] IN
         IF u.live /\ u.pw = call[r].pw
           THEN \E t \in Token \ issued :
                  /\ issued' = issued \cup {t}
                  /\ loc' = [loc EXCEPT ![r] =
                       [@ EXCEPT !.next = t, !.ver = u.ver,
                                 !.exp = now + RefreshTTL]]
                  /\ GoTo(r, "create")
           ELSE Finish(r, "unauthorized") /\ UNCHANGED issued
    /\ UNCHANGED <<users, sessions, now, call, held, access>>

NoForeignKey(u) == TRUE                                                \* mutant
\* The foreign key of sessions.user_id refuses a session of a deleted user.
HasUser(u) == users[u].live

\* CreateSession.
LoginCreate(r) ==
    /\ At(r, "create")
    /\ IF HasUser(call[r].user)
         THEN \E s \in SessionId :
                /\ sessions[s].status = "free"
                /\ sessions' = [sessions EXCEPT ![s] =
                     NewRow(call[r].user, loc[r].next, loc[r].exp, loc[r].ver)]
                /\ loc' = [loc EXCEPT ![r].sid = s]
                /\ GoTo(r, "issue")
         ELSE Finish(r, "error") /\ UNCHANGED sessions
    /\ UNCHANGED <<users, issued, now, call, held, access>>

\* tokenPair: the pair reaches the client.
Issue(r) ==
    /\ At(r, "issue")
    /\ held' = held \cup {loc[r].next}
    /\ access' = access \cup {[user |-> sessions[loc[r].sid].user,
                               ver |-> loc[r].ver, sid |-> loc[r].sid]}
    /\ Finish(r, "ok")
    /\ UNCHANGED <<users, sessions, issued, now, call>>
-----------------------------------------------------------------------------
NeverExpired(s) == FALSE                                               \* mutant
Expired(s) == now > sessions[s].exp

\* Refresh: FindSessionByToken and the checks on what it returned.
RefreshFind(r) ==
    /\ At(r, "find") /\ call[r].op = "Refresh"
    /\ \/ /\ FindSessionByToken(call[r].tok) = {}
          /\ Finish(r, "noSession")
       \/ \E s \in FindSessionByToken(call[r].tok) :
            \/ /\ sessions[s].status = "revoked"
               /\ Finish(r, "revoked")
            \/ /\ sessions[s].status = "live"
               /\ sessions[s].cur # call[r].tok
               /\ loc' = [loc EXCEPT ![r].sid = s]
               /\ GoTo(r, "revoke")
            \/ /\ sessions[s].status = "live"
               /\ sessions[s].cur = call[r].tok
               /\ Expired(s)
               /\ Finish(r, "expired")
            \/ /\ sessions[s].status = "live"
               /\ sessions[s].cur = call[r].tok
               /\ ~Expired(s)
               /\ loc' = [loc EXCEPT ![r].sid = s]
               /\ GoTo(r, "user")
    /\ UNCHANGED <<users, sessions, issued, now, call, held, access>>

\* GetUser(session.UserID) and NewRefreshToken.
RefreshUser(r) ==
    /\ At(r, "user")
    /\ LET u == users[sessions[loc[r].sid].user] IN
         IF u.live
           THEN \E t \in Token \ issued :
                  /\ issued' = issued \cup {t}
                  /\ loc' = [loc EXCEPT ![r] =
                       [@ EXCEPT !.next = t, !.ver = u.ver,
                                 !.exp = now + RefreshTTL]]
                  /\ GoTo(r, "rotate")
           ELSE Finish(r, "userGone") /\ UNCHANGED issued
    /\ UNCHANGED <<users, sessions, now, call, held, access>>

RotateWithoutCompare(r) == sessions[loc[r].sid].status = "live"        \* mutant
RotateRevoked(r) == /\ sessions[loc[r].sid].status \in {"live", "revoked"} \* mutant
                    /\ sessions[loc[r].sid].cur = call[r].tok
RotateByEitherHash(r) == /\ sessions[loc[r].sid].status = "live"        \* mutant
                         /\ call[r].tok \in {sessions[loc[r].sid].cur,
                                             sessions[loc[r].sid].prev}
\* The WHERE clause of RotateRefreshToken.
Rotatable(r) == /\ sessions[loc[r].sid].status = "live"
                /\ sessions[loc[r].sid].cur = call[r].tok

\* RotateRefreshToken, one UPDATE.
RefreshRotate(r) ==
    /\ At(r, "rotate")
    /\ LET s == loc[r].sid IN
         IF Rotatable(r)
           THEN /\ sessions' = [sessions EXCEPT
                     ![s].prev = sessions[s].cur,
                     ![s].cur = loc[r].next,
                     ![s].exp = loc[r].exp]
                /\ loc' = [loc EXCEPT ![r].spent = call[r].tok]
                /\ GoTo(r, "issue")
           ELSE GoTo(r, "revoke") /\ UNCHANGED <<sessions, loc>>
    /\ UNCHANGED <<users, issued, now, call, held, access>>

LogoutFind(r) ==
    /\ At(r, "find") /\ call[r].op = "Logout"
    /\ \/ /\ FindSessionByToken(call[r].tok) = {}
          /\ Finish(r, "ok")
       \/ \E s \in FindSessionByToken(call[r].tok) :
            /\ loc' = [loc EXCEPT ![r].sid = s]
            /\ GoTo(r, "revoke")
    /\ UNCHANGED <<users, sessions, issued, now, call, held, access>>

\* RevokeSession, the last step of revokeReused and of Logout.
Revoke(r) ==
    /\ At(r, "revoke")
    /\ sessions' = [sessions EXCEPT ![loc[r].sid].status =
                      IF @ = "live" THEN "revoked" ELSE @]
    /\ Finish(r, IF call[r].op = "Refresh" THEN "reused" ELSE "ok")
    /\ UNCHANGED <<users, issued, now, call, held, access>>
-----------------------------------------------------------------------------
\* Authenticate: Parse may refuse (the token has expired); a token of a
\* deleted user or of an older token_version is refused.
AuthenticAnyVersion(c) == users[c.user].live                           \* mutant
Authentic(c) == users[c.user].live /\ users[c.user].ver = c.ver

AfterAuthenticate == [LogoutAll |-> "bump", ChangePassword |-> "check",
                      DeleteUser |-> "delete", GetMe |-> "get"]

Authenticate(r) ==
    /\ At(r, "authenticate")
    /\ \/ Finish(r, "unauthorized")
       \/ /\ Authentic(call[r].claims)
          /\ GoTo(r, AfterAuthenticate[call[r].op])
          /\ UNCHANGED loc
    /\ UNCHANGED <<users, sessions, issued, now, call, held, access>>

KeepVersion(u) == users[u].ver                                         \* mutant
PreviousVersion(u) == users[u].ver - 1                                 \* mutant
NextVersion(u) == users[u].ver + 1

\* BumpUserTokenVersion.
LogoutAllBump(r) ==
    /\ At(r, "bump")
    /\ IF users[call[r].user].live
         THEN /\ users' = [users EXCEPT ![call[r].user].ver = NextVersion(call[r].user)]
              /\ loc' = [loc EXCEPT ![r].ver = NextVersion(call[r].user)]
              /\ GoTo(r, "revokeAll")
         ELSE Finish(r, "notFound") /\ UNCHANGED users
    /\ UNCHANGED <<sessions, issued, now, call, held, access>>

\* ChangePassword: GetUser and Verify of the current password.
ChangePasswordCheck(r) ==
    /\ At(r, "check")
    /\ LET u == users[call[r].user] IN
         \/ ~u.live /\ Finish(r, "notFound")
         \/ u.live /\ u.pw # call[r].pw /\ Finish(r, "invalid")
         \/ u.live /\ u.pw = call[r].pw /\ GoTo(r, "update") /\ UNCHANGED loc
    /\ UNCHANGED <<users, sessions, issued, now, call, held, access>>

\* UpdateUserPassword: the hash and the version in one statement.
ChangePasswordUpdate(r) ==
    /\ At(r, "update")
    /\ IF users[call[r].user].live
         THEN /\ users' = [users EXCEPT ![call[r].user].pw = call[r].newpw,
                              ![call[r].user].ver = NextVersion(call[r].user)]
              /\ loc' = [loc EXCEPT ![r].ver = NextVersion(call[r].user)]
              /\ GoTo(r, "revokeAll")
         ELSE Finish(r, "notFound") /\ UNCHANGED users
    /\ UNCHANGED <<sessions, issued, now, call, held, access>>

\* RevokeUserSessions, the last step of LogoutAll and of ChangePassword.
RevokeAll(r) ==
    /\ At(r, "revokeAll")
    /\ sessions' = [s \in SessionId |->
                      [sessions[s] EXCEPT !.status =
                         IF s \in LiveOf(call[r].user) THEN "revoked" ELSE @]]
    /\ Finish(r, "ok")
    /\ UNCHANGED <<users, issued, now, call, held, access>>

CascadeLive(u) == LiveOf(u)                                            \* mutant
\* The rows ON DELETE CASCADE takes with the user.
Cascade(u) == {s \in Stored : sessions[s].user = u}

DeleteUser(r) ==
    /\ At(r, "delete")
    /\ IF users[call[r].user].live
         THEN /\ users' = [users EXCEPT ![call[r].user].live = FALSE]
              /\ sessions' = [s \in SessionId |->
                   [sessions[s] EXCEPT !.status =
                      IF s \in Cascade(call[r].user) THEN "deleted" ELSE @]]
              /\ Finish(r, "ok")
         ELSE Finish(r, "notFound") /\ UNCHANGED <<users, sessions>>
    /\ UNCHANGED <<issued, now, call, held, access>>

GetMe(r) ==
    /\ At(r, "get")
    /\ Finish(r, IF users[call[r].user].live THEN "ok" ELSE "notFound")
    /\ UNCHANGED <<users, sessions, issued, now, call, held, access>>
-----------------------------------------------------------------------------
\* A statement fails, the client goes away or the process dies: the request
\* ends where it is, its statements so far stay.  At "issue" it is the
\* response that is lost.
Abort(r) ==
    /\ pc[r] \notin {"idle", "done"}
    /\ Finish(r, "error")
    /\ UNCHANGED <<users, sessions, issued, now, call, held, access>>

Tick ==
    /\ now < MaxTime
    /\ now' = now + 1
    /\ UNCHANGED <<users, sessions, issued, pc, call, loc, held, access>>

\* Every request that arrived has been answered.
Quiesce ==
    /\ \A r \in Request : pc[r] \in {"idle", "done"}
    /\ UNCHANGED vars

Next ==
    \/ \E r \in Request :
         \/ StartLogin(r) \/ StartTokenOp(r)
         \/ StartLogoutAll(r) \/ StartChangePassword(r)
         \/ StartDeleteUser(r) \/ StartGetMe(r)
         \/ LoginVerify(r) \/ LoginCreate(r) \/ Issue(r)
         \/ RefreshFind(r) \/ RefreshUser(r) \/ RefreshRotate(r)
         \/ LogoutFind(r) \/ Revoke(r)
         \/ Authenticate(r) \/ LogoutAllBump(r)
         \/ ChangePasswordCheck(r) \/ ChangePasswordUpdate(r)
         \/ RevokeAll(r) \/ DeleteUser(r) \/ GetMe(r) \/ Abort(r)
    \/ Tick
    \/ Quiesce

Spec == Init /\ [][Next]_vars
-----------------------------------------------------------------------------
TypeOK ==
    /\ users \in [User -> UserRow]
    /\ sessions \in [SessionId -> SessionRow]
    /\ issued \subseteq Token
    /\ now \in Nat
    /\ pc \in [Request -> Step]
    /\ call \in [Request -> Call]
    /\ loc \in [Request -> Local]
    /\ held \subseteq Token
    /\ access \subseteq Claims

\* No refresh token is exchanged twice, whatever the interleaving of the
\* requests that present it: RotateRefreshToken is the only arbiter, the
\* checks of Refresh on the row it read are stale by then.
SingleUse ==
    \A r1, r2 \in Request :
        r1 # r2 /\ loc[r1].spent # NoToken => loc[r1].spent # loc[r2].spent

Presented(r, t) ==
    /\ pc[r] = "done" /\ call[r].op = "Refresh" /\ call[r].tok = t
    /\ loc[r].res \in {"ok", "reused", "revoked", "userGone"}

\* Two requests that presented the same token, found its session and were
\* answered leave that session ended, also when both read the row before
\* either wrote it (revokeReused in services/auth.go).
DoublePresentationEndsSession ==
    \A r1, r2 \in Request, t \in Token :
        r1 # r2 /\ Presented(r1, t) /\ Presented(r2, t)
            => \A s \in Live : t \notin {sessions[s].cur, sessions[s].prev}
                             /\ s # loc[r1].sid

SignedOut(r) == /\ pc[r] = "done" /\ loc[r].res = "ok"
                /\ call[r].op \in SignOut

\* Once LogoutAll or ChangePassword has answered, no session that was live
\* when the request arrived is live, and no access token a client held then
\* carries the user's token_version.
SignOutIsFinal ==
    \A r \in Request : SignedOut(r) =>
        /\ call[r].before \cap Live = {}
        /\ \A a \in call[r].holding :
             ~users[a.user].live \/ a.ver < users[a.user].ver

\* No request gets past Authenticate with an access token that a completed
\* sign-out found in a client's hands.
StaleTokenRefused ==
    [][\A r, q \in Request :
         /\ SignedOut(q) /\ pc[r] = "authenticate"
         /\ call[r].claims \in call[q].holding
         => pc'[r] \in {"authenticate", "done"}]_vars

\* A revoked session stays as it is until its user is deleted: a Refresh that
\* read it live before it was revoked neither rotates nor extends it, and no
\* step makes it live again.
RevokedForever ==
    [][\A s \in SessionId : sessions[s].status \in {"revoked", "deleted"} =>
         \/ sessions'[s] = sessions[s]
         \/ sessions'[s] = [sessions[s] EXCEPT !.status = "deleted"]]_vars

\* A request that arrived after its session expired never rotates it, though
\* expires_at is checked on the row read earlier and not by the UPDATE.
ExpiredNeverExchanged ==
    [][\A r \in Request :
         pc[r] = "rotate" /\ pc'[r] = "issue"
            => call[r].at <= sessions[loc[r].sid].exp]_vars

\* Deleting a user ends everything at once: no session of a deleted user is
\* stored, though Login and Refresh may have read the user before.
DeletedUserHasNoSession ==
    \A s \in Stored : users[sessions[s].user].live
-----------------------------------------------------------------------------
(* The sessions seen from outside: revoked and deleted sessions are ended, *)
(* and a token is spent once RotateRefreshToken has replaced it.           *)
ChainState == [s \in SessionId |-> CASE sessions[s].status = "free" -> "unopened"
                                     [] sessions[s].status = "live" -> "open"
                                     [] OTHER -> "ended"]

Chain == INSTANCE RefreshChain
           WITH state <- ChainState,
                current <- [s \in SessionId |-> sessions[s].cur],
                spent <- {loc[r].spent : r \in Request} \ {NoToken}

\* Whatever requests interleave, and wherever they fail, each session is a
\* chain of single-use refresh tokens.
ImplementsChain == Chain!Spec
-----------------------------------------------------------------------------
(* What the API's documents say and the code does not do.                  *)

\* openapi/paths/auth.yaml:32, "The refresh token is single-use. Reusing one
\* ends its session.": a Refresh answered after its token had been exchanged
\* leaves the session ended.
ReuseEndsSession ==
    \A r1, r2 \in Request :
        /\ r1 # r2 /\ loc[r1].spent # NoToken /\ call[r2].tok = loc[r1].spent
        /\ pc[r2] = "done" /\ call[r2].op = "Refresh"
        /\ loc[r2].res \notin {"error", "expired"}
        => loc[r1].sid \notin Live

\* openapi/paths/users.yaml:167, "Signs the user out of every session.": once
\* ChangePassword has answered, no live session was opened with the password
\* it replaced.
PasswordChangeEndsSessions ==
    \A r \in Request : SignedOut(r) /\ call[r].op = "ChangePassword" =>
        \A s \in LiveOf(call[r].user) : sessions[s].born >= loc[r].ver

\* openapi/paths/auth.yaml:79, "Also invalidates every access token issued so
\* far.": once LogoutAll has answered, no access token of a session it ended
\* passes Authenticate.
LogoutAllEndsAccess ==
    \A r \in Request : SignedOut(r) /\ call[r].op = "LogoutAll" =>
        \A a \in access : a.sid \in call[r].before => ~Authentic(a)
=============================================================================
