-------------------------------- MODULE Api --------------------------------
(***************************************************************************)
(* Every operation of the HTTP interface, from the request line to the log *)
(* line: the middleware chain of httpx.Default, routing and parameter      *)
(* binding, authenticate, the handlers' decoding, the statements of the    *)
(* use-cases against the users table, WriteJSON and WriteError, and        *)
(* Recover.  Requests run concurrently and interleave at every statement.  *)
(* One client pages through GET /v1/users.                                 *)
(*                                                                         *)
(* The users table is kept row by row, with the id and the name the        *)
(* listing sorts by, the password and the token version.  Sessions are     *)
(* abstracted to the outcomes a lookup or a rotation can have.             *)
(***************************************************************************)
EXTENDS HttpContract

CONSTANTS
    Request,        \* the connections
    Clients,        \* the sets of connections that may be in use together
    Walker,         \* the connection whose client pages through the users
    Existing,       \* how many users there are at first
    MaxUser,        \* bound on the ids the sequence hands out
    Name,           \* names, as numbers in their order
    Search,         \* what the walker may search for: a name, or 0 for nothing
    Password,       \* passwords
    PageSize,       \* the limit the walker asks for
    MaxFaults       \* bound on failed statements and panics

ASSUME ApiAssumption ==
    /\ IsFiniteSet(Request) /\ Clients \subseteq SUBSET Request
    /\ Existing \in Nat /\ MaxUser \in Nat /\ Existing <= MaxUser
    /\ Name \subseteq Nat \ {0} /\ Name # {} /\ Search \subseteq Name \cup {0}
    /\ Password # {}
    /\ PageSize \in Nat \ {0} /\ MaxFaults \in Nat

VARIABLES
    users,      \* the table users
    active,     \* the connections in use
    req,        \* what each request is doing
    walk,       \* what the paging client has seen
    faults      \* how often something failed

vars == <<users, active, req, walk, faults>>

User == 1..MaxUser
Row(st, name, pw, ver) == [st |-> st, name |-> name, pw |-> pw, ver |-> ver]
FirstPassword == CHOOSE pw \in Password : TRUE
NoRow == Row("free", 0, FirstPassword, 0)
Stored(u) == u \in User /\ users[u].st = "stored"

\* Claims of an access token.  Nobody is user 0: the request came without a
\* token or with one that does not parse.
NoUser == 0
NoToken == [user |-> NoUser, ver |-> 0]
\* The tokens that may be about: their user was stored once, and their version
\* was current once.  A request raises a version once at most.
Tokens ==
    {t \in [user : User, ver : 0..Cardinality(Request)] :
        users[t.user].st \in {"stored", "gone"} /\ t.ver <= users[t.user].ver}
Current(t) == Stored(t.user) /\ users[t.user].ver = t.ver

\* A request: where it is, the operation it was meant for and the one it
\* reached, the claims of its token and whether its caller had a right to the
\* operation when it came in, the user it is about, the password it presents,
\* what it wants to store, the passwords its user had since, the statements
\* left and those that took effect, a page, whether a logout found no session,
\* whether the handler panicked; the status, the error recorded for the log,
\* and the log line.
Idle ==
    [at |-> "idle", asked |-> "none", op |-> "none", claims |-> NoToken,
     entitled |-> FALSE, id |-> NoUser, old |-> {}, new |-> {}, known |-> {},
     todo |-> << >>, wrote |-> {}, page |-> << >>, total |-> 0, noSession |-> FALSE,
     panicked |-> FALSE, status |-> 0, recorded |-> "none", log |-> {}]

NoWalk ==
    [at |-> "none", by |-> "id", dir |-> "asc", search |-> 0, offset |-> 0,
     got |-> << >>, start |-> {}, grew |-> FALSE, shrank |-> FALSE, renamed |-> FALSE]

Init ==
    /\ \E name \in [1..Existing -> Name] :
          users = [u \in User |->
                     IF u <= Existing THEN Row("stored", name[u], FirstPassword, 0)
                     ELSE NoRow]
    /\ active \in Clients
    /\ req = [r \in Request |-> Idle]
    /\ walk = NoWalk
    /\ faults = 0

Fault == faults < MaxFaults /\ faults' = faults + 1
-----------------------------------------------------------------------------
(* Answers: WriteJSON, WriteError and the middlewares.                     *)

\* The handler's return; the status is on the wire.
Reply(q, status) ==
    [q EXCEPT !.at = "answer", !.status = status, !.todo = << >>, !.new = {}]
\* The error also goes to the log entry of the request.
WriteError(q, error) == [Reply(q, Code(error)) EXCEPT !.recorded = error]

LoggerInside == <<"RequestID", "Recover", "Logger", "MaxBody">>        \* mutant
\* The standard chain, the outermost middleware first.
Default == <<"RequestID", "Logger", "Recover", "MaxBody">>
Outside(a, b) ==
    \E i, j \in DOMAIN Default : Default[i] = a /\ Default[j] = b /\ i < j

\* A panic unwinds to Recover, past the middlewares inside it.
LoggerReturns(q) == q.panicked => Outside("Logger", "Recover")

\* responseRecorder: the status given to WriteHeader; the pages do not call it.
RecorderStatus(q) == IF q.op \in Pages THEN 200 ELSE q.status

LogLine(q) == [status |-> RecorderStatus(q), error |-> q.recorded]
Respond(r) ==
    /\ req[r].at = "answer"
    /\ req' = [req EXCEPT ![r].at = "done",
                          ![r].log = IF LoggerReturns(req[r]) THEN {LogLine(req[r])} ELSE {}]
    /\ UNCHANGED <<users, active, walk, faults>>

Recover(r) ==
    /\ req[r].at = "panic"
    /\ req' = [req EXCEPT ![r] = WriteError(@, "Internal")]
    /\ UNCHANGED <<users, active, walk, faults>>
-----------------------------------------------------------------------------
(* The way in: the mux, the generated wrapper and authenticate.            *)

\* authenticate lets a caller pass without looking at the claims.
Open(op, token) ==
    Access(op) = "anonymous" \/ (Access(op) = "optional" /\ token = NoToken)

\* The wrapper binds the parameters and only then runs authenticate.
Enter(q, token, bound) ==
    IF q.op = "none" THEN WriteError(q, "NotFound")
    ELSE IF q.op \in Pages THEN Reply(q, 200)
    ELSE IF ~bound THEN WriteError(q, "BadRequest")
    ELSE IF Open(q.op, token) THEN [q EXCEPT !.at = "handle"]
    ELSE IF token = NoToken THEN WriteError(q, "Unauthorized")
    ELSE [q EXCEPT !.at = "authenticate", !.claims = token]

CallsOn(r) == {c \in Calls : (c.op = "ListUsers") <=> (r = Walker)}
OpOf(call) == IF Reached(call) = {} THEN "none" ELSE CHOOSE op \in Reached(call) : TRUE
Binds(op) == op \in ById \cup ByQuery

\* The document leaves the operation open, or the token is in force.
Entitled(op, token) == Security(op) = {} \/ Current(token)

Matching(search) == {u \in User : Stored(u) /\ search \in {0, users[u].name}}

\* The paging client starts its walk, or goes on with the next page.
WalkOn ==
    IF walk.at = "none"
    THEN \E by \in {"id", "name"}, dir \in {"asc", "desc"}, search \in Search :
           walk' = [NoWalk EXCEPT !.at = "on", !.by = by, !.dir = dir, !.search = search,
                                  !.start = Matching(search)]
    ELSE UNCHANGED walk

Arrive(r) ==
    /\ r \in active /\ req[r].at = "idle"
    /\ IF r = Walker THEN WalkOn ELSE UNCHANGED walk
    /\ \E call \in CallsOn(r), token \in {NoToken} \cup Tokens, bound \in BOOLEAN :
         LET op == OpOf(call)
             q  == [Idle EXCEPT !.asked = call.op, !.op = op,
                                !.entitled = Entitled(call.op, token)]
         IN  /\ bound \/ Binds(op)
             /\ req' = [req EXCEPT ![r] = Enter(q, token, bound)]
    /\ UNCHANGED <<users, active, faults>>

StaleAccepted(t) == Stored(t.user)                                     \* mutant
\* Authenticate: the user of the token is there and its version is the same.
Authentic(t) == Stored(t.user) /\ users[t.user].ver = t.ver

Authenticate(r) ==
    /\ req[r].at = "authenticate"
    /\ req' = [req EXCEPT ![r] =
                  IF Authentic(@.claims) THEN [@ EXCEPT !.at = "handle"]
                  ELSE WriteError([@ EXCEPT !.claims = NoToken], "Unauthorized")]
    /\ UNCHANGED <<users, active, walk, faults>>
-----------------------------------------------------------------------------
(* The handlers: they decode the body, check what they were given and hand *)
(* over to the use-case.                                                   *)

HasBody(op) == \E c \in ApiCalls : c.op = op /\ c.body

\* DecodeJSON: the body is not the JSON it should be, or over MaxBody's limit.
Oversized == {"TooLarge"}
Undecoded(op) == IF HasBody(op) THEN {"BadRequest"} \cup Oversized ELSE {}
\* The page asked for, and the column and direction to sort by.
Unlistable(op) == IF op = "ListUsers" THEN {"Validation"} ELSE {}
\* Register, UpdateUser and ChangePassword check what they are to store.
Invalid(op) == IF op \in Validated THEN {"Validation"} ELSE {}

\* Who the operation is about: the caller, the user of the path, the user of
\* the e-mail address or of the refresh token, or nobody.
Subjects(q) ==
    CASE q.op \in {"GetMe", "LogoutAll"} -> {q.claims.user}
      [] q.op \in ById \cup {"Login", "RefreshToken", "Logout"} -> User
      [] OTHER -> {NoUser}
Presents(op) ==
    IF op \in {"Login", "ChangeUserPassword"} THEN {{pw} : pw \in Password} ELSE {{}}
Stores(op) ==
    CASE op = "ChangeUserPassword" -> {{pw} : pw \in Password}
      [] op \in {"CreateUser", "UpdateUser"} -> {{n} : n \in Name}
      [] OTHER -> {{}}

Begin(q) == IF Program[q.op] = << >> THEN Reply(q, Success(q.op))
            ELSE [q EXCEPT !.at = "run", !.todo = Program[q.op]]

Handle(r) ==
    /\ req[r].at = "handle"
    /\ LET q == req[r] IN
       \/ \E error \in Undecoded(q.op) \cup Invalid(q.op) \cup Unlistable(q.op) :
             req' = [req EXCEPT ![r] = WriteError([q EXCEPT !.claims = NoToken], error)]
       \/ \E id \in Subjects(q), old \in Presents(q.op), new \in Stores(q.op) :
             req' = [req EXCEPT ![r] =
                       Begin([q EXCEPT !.claims = NoToken, !.id = id, !.old = old, !.new = new,
                                       !.known = IF id \in User /\ q.op = "ChangeUserPassword"
                                                 THEN {users[id].pw} ELSE {}])]
    /\ UNCHANGED <<users, active, walk, faults>>
-----------------------------------------------------------------------------
(* The statements of the use-cases.                                        *)

Runs(r, stmts) == req[r].at = "run" /\ Head(req[r].todo) \in stmts
Set(r, q) == req' = [req EXCEPT ![r] = q]
Proceed(q) ==
    IF Len(q.todo) > 1 THEN [q EXCEPT !.todo = Tail(@)] ELSE Reply(q, Success(q.op))

\* Statements about the row of a user, or one that hangs on it.
OnUser ==
    {"getUser", "getUserByEmail", "findSession", "createSession", "rotate",
     "bumpVersion", "updateUser", "updatePassword", "deleteUser"}
Applies(q) == Head(q.todo) \in OnUser => Stored(q.id)

\* No row: ErrNotFound, or a violated foreign key for a new session.  Logout
\* has nothing to do when no session has the token.
NoRows(r) ==
    /\ Runs(r, OnUser \ {"rotate"})
    /\ ~Applies(req[r]) \/ Runs(r, {"findSession"})
    /\ LET q == req[r]  s == Head(q.todo) IN
       Set(r, IF q.op = "Logout" THEN [Reply(q, Success(q.op)) EXCEPT !.noSession = TRUE]
              ELSE WriteError(q, Failure(q.op, s, IF s = "createSession" THEN "foreignKey"
                                                  ELSE "noRows")))
    /\ UNCHANGED <<users, active, walk, faults>>

NotVerified(q) == TRUE                                                 \* mutant
\* Hasher.Verify: the password presented is the one stored.
Verified(q) == q.old \subseteq {users[q.id].pw}
Mismatch(op) == IF op = "Login" THEN "Unauthorized" ELSE "Validation"

Lookup(r) ==
    /\ Runs(r, {"getUser", "getUserByEmail"}) /\ Applies(req[r])
    /\ Set(r, IF Verified(req[r]) THEN Proceed(req[r])
              ELSE WriteError(req[r], Mismatch(req[r].op)))
    /\ UNCHANGED <<users, active, walk, faults>>

Reused(q) == [q EXCEPT !.todo = <<"revokeReused">>]

\* For Refresh the session must not be revoked or expired, and the token must
\* be its current one.
FindSession(r) ==
    /\ Runs(r, {"findSession"}) /\ Applies(req[r])
    /\ \/ Set(r, Proceed(req[r]))
       \/ /\ req[r].op = "RefreshToken"
          /\ Set(r, WriteError(req[r], "Unauthorized")) \/ Set(r, Reused(req[r]))
    /\ UNCHANGED <<users, active, walk, faults>>

\* The rotation finds the token replaced or the session revoked.
RotateNothing(r) ==
    /\ Runs(r, {"rotate"})
    /\ Set(r, Reused(req[r]))
    /\ UNCHANGED <<users, active, walk, faults>>

ReadBefore(ver) == 1                                                   \* mutant
\* token_version + 1, in the statement itself.
NextVersion(ver) == ver + 1

\* The users table after the statement.
Applied(q) ==
    IF ~Stored(q.id) /\ Head(q.todo) # "commit" THEN users
    ELSE CASE Head(q.todo) = "bumpVersion" ->
                [users EXCEPT ![q.id].ver = NextVersion(@)]
           [] Head(q.todo) = "updatePassword" ->
                [users EXCEPT ![q.id].ver = NextVersion(@), ![q.id].pw = CHOOSE pw \in q.new : TRUE]
           [] Head(q.todo) = "updateUser" ->
                [users EXCEPT ![q.id].name = CHOOSE n \in q.new : TRUE]
           [] Head(q.todo) = "deleteUser" ->
                [users EXCEPT ![q.id] = [NoRow EXCEPT !.st = "gone", !.ver = users[q.id].ver]]
           [] Head(q.todo) = "commit" -> [users EXCEPT ![q.id].st = "stored"]
           [] OTHER -> users

\* WithTxOptions rolls the registration back.
Aborted(q) ==
    IF q.op = "CreateUser" /\ q.id \in User
    THEN [users EXCEPT ![q.id] = [NoRow EXCEPT !.st = "void"]] ELSE users

\* What happens to the listing while somebody walks it.
Noticed(q) ==
    IF walk.at # "on" THEN walk
    ELSE CASE Head(q.todo) = "commit" -> [walk EXCEPT !.grew = TRUE]
           [] Head(q.todo) = "deleteUser" -> [walk EXCEPT !.shrank = TRUE]
           [] Head(q.todo) = "updateUser" /\ (walk.by = "name" \/ walk.search # 0) ->
                [walk EXCEPT !.renamed = TRUE]
           [] OTHER -> walk

Took(q) == [q EXCEPT !.wrote = @ \cup ({Head(q.todo)} \cap Writing)]

\* Changes of a password that are under way when q changes it.
Overlaps(p, q) == p.op = "ChangeUserPassword" /\ p.at = "run" /\ p.id = q.id
Learned(q) ==
    [x \in Request |->
        IF Head(q.todo) = "updatePassword" /\ Overlaps(req[x], q)
        THEN [req[x] EXCEPT !.known = @ \cup q.new] ELSE req[x]]

TakesEffect(r) ==
    LET q == req[r] IN
    /\ users' = Applied(q) /\ walk' = Noticed(q)

Execute(r) ==
    /\ Runs(r, Writing \cup {"ping"}) /\ Applies(req[r])
    /\ TakesEffect(r)
    /\ LET q == Took(req[r]) IN
       req' = [Learned(req[r]) EXCEPT ![r] =
                  IF Head(q.todo) = "revokeReused" THEN WriteError(q, "Unauthorized")
                  ELSE Proceed(q)]
    /\ UNCHANGED <<active, faults>>

NextId == {u \in User : users[u].st = "free" /\ \A v \in 1..(u - 1) : users[v].st # "free"}

\* The id is drawn now, the row can be seen once the transaction commits.
InsertUser(r) ==
    /\ Runs(r, {"insertUser"})
    /\ \E u \in NextId, n \in req[r].new :
          /\ users' = [users EXCEPT ![u] = Row("pending", n, FirstPassword, 0)]
          /\ Set(r, Proceed([req[r] EXCEPT !.id = u]))
    /\ UNCHANGED <<active, walk, faults>>

\* The e-mail address is somebody's.
Conflict(r) ==
    /\ Runs(r, {"insertUser"}) /\ \E u \in User : Stored(u)
    /\ Set(r, WriteError(req[r], Failure(req[r].op, "insertUser", "unique")))
    /\ UNCHANGED <<users, active, walk, faults>>
-----------------------------------------------------------------------------
(* The listing.                                                            *)

NameOnly(by) == IF by = "name" THEN <<"name">> ELSE <<"id">>           \* mutant
\* Columns.OrderBy: every order but the one by id is completed by the id.
OrderBy(by) == IF by = "name" THEN <<"name", "id">> ELSE <<"id">>

Key(u, column) == IF column = "id" THEN u ELSE users[u].name
Less(u, v, columns) ==
    \E j \in DOMAIN columns :
        /\ Key(u, columns[j]) < Key(v, columns[j])
        /\ \A i \in 1..(j - 1) : Key(u, columns[i]) = Key(v, columns[i])

\* The sequences the ORDER BY allows for a set of rows.
Listings(rows, columns, dir) ==
    {s \in [1..Cardinality(rows) -> rows] :
        \A i, j \in 1..Cardinality(rows) : i < j =>
            /\ s[i] # s[j]
            /\ IF dir = "asc" THEN ~Less(s[j], s[i], columns) ELSE ~Less(s[i], s[j], columns)}

NoLimit(s, limit, offset) == SubSeq(s, offset + 1, Len(s))              \* mutant
\* LIMIT and OFFSET.
Page(s, limit, offset) ==
    SubSeq(s, offset + 1, IF offset + limit <= Len(s) THEN offset + limit ELSE Len(s))

ListUsers(r) ==
    /\ Runs(r, {"listUsers"})
    /\ \E s \in Listings(Matching(walk.search), OrderBy(walk.by), walk.dir) :
          Set(r, Proceed([req[r] EXCEPT !.page = Page(s, PageSize, walk.offset)]))
    /\ UNCHANGED <<users, active, walk, faults>>

CountUsers(r) ==
    /\ Runs(r, {"countUsers"})
    /\ Set(r, Proceed([req[r] EXCEPT !.total = Cardinality(Matching(walk.search))]))
    /\ UNCHANGED <<users, active, walk, faults>>

\* The client takes the page and asks for the next one until it has asked for
\* as many users as there are.
TakePage(r) ==
    /\ r = Walker /\ req[r].at = "done" /\ req[r].status = 200 /\ walk.at = "on"
    /\ LET next == walk.offset + PageSize
           over == next >= req[r].total
       IN  /\ walk' = [walk EXCEPT !.got = @ \o req[r].page, !.offset = next,
                                   !.at = IF over THEN "over" ELSE "on"]
           /\ Set(r, IF over THEN [req[r] EXCEPT !.page = << >>] ELSE Idle)
    /\ UNCHANGED <<users, active, faults>>

\* It asks again for a page it did not get.
RetryPage(r) ==
    /\ r = Walker /\ req[r].at = "done" /\ req[r].status # 200
    /\ Set(r, Idle)
    /\ UNCHANGED <<users, active, walk, faults>>
-----------------------------------------------------------------------------
(* Failures.                                                               *)

\* The driver reports an error.  A statement may have taken effect all the
\* same, as when the client left or the connection broke after it was sent.
Fail(r) ==
    /\ req[r].at = "run"
    /\ Fault
    /\ LET q == req[r]  error == Failure(q.op, Head(q.todo), "driver") IN
       \/ /\ users' = Aborted(q) /\ Set(r, WriteError(q, error))
          /\ UNCHANGED walk
       \/ /\ Head(q.todo) \in Writing /\ Applies(q)
          /\ walk' = Noticed(q)
          /\ users' = IF Head(q.todo) = "recordEvent" THEN Aborted(q) ELSE Applied(q)
          /\ req' = [Learned(q) EXCEPT ![r] = WriteError(Took(q), error)]
    /\ UNCHANGED active

\* The user of the token cannot be read.
AuthenticateFail(r) ==
    /\ req[r].at = "authenticate"
    /\ Fault
    /\ Set(r, WriteError([req[r] EXCEPT !.claims = NoToken], "Internal"))
    /\ UNCHANGED <<users, active, walk>>

\* A panic, wherever; WithTxOptions rolls back and passes it on.
Panic(r) ==
    /\ req[r].at \in {"authenticate", "handle", "run"}
    /\ Fault
    /\ users' = Aborted(req[r])
    /\ Set(r, [req[r] EXCEPT !.at = "panic", !.todo = << >>, !.claims = NoToken,
                              !.panicked = TRUE])
    /\ UNCHANGED <<active, walk>>

Served == \A r \in active : req[r].at = "done" /\ (r = Walker => walk.at = "over")
Quiesce == Served /\ UNCHANGED vars
-----------------------------------------------------------------------------
Step(r) ==
    \/ NoRows(r) \/ Lookup(r) \/ FindSession(r) \/ RotateNothing(r) \/ Execute(r)
    \/ InsertUser(r) \/ Conflict(r) \/ ListUsers(r) \/ CountUsers(r)

Next ==
    \/ Quiesce
    \/ \E r \in Request :
         \/ Arrive(r) \/ Authenticate(r) \/ Handle(r) \/ Step(r)
         \/ Fail(r) \/ AuthenticateFail(r) \/ Panic(r) \/ Recover(r) \/ Respond(r)
         \/ TakePage(r) \/ RetryPage(r)

Spec == Init /\ [][Next]_vars
-----------------------------------------------------------------------------
(* Properties.                                                             *)

TypeOK ==
    /\ users \in [User -> [st : {"free", "pending", "stored", "gone", "void"},
                           name : Name \cup {0}, pw : Password, ver : Nat]]
    /\ active \in Clients
    /\ \A r \in Request :
         /\ req[r].at \in {"idle", "authenticate", "handle", "run", "panic", "answer", "done"}
         /\ req[r].id \in User \cup {NoUser}
         /\ req[r].wrote \subseteq Writing
         /\ Len(req[r].page) <= PageSize
    /\ walk.at \in {"none", "on", "over"}
    /\ faults \in 0..MaxFaults

Good(status) == status \in 200..299
Refused(status) == status \in 400..499
Answered(r) == req[r].at \in {"answer", "done"}

\* Nothing is done and nothing is told on a request the OpenAPI document
\* protects unless its token was in force when the request came in.
NeedsAuthority ==
    \A r \in Request :
        (req[r].wrote # {} \/ (Answered(r) /\ Good(req[r].status))) => req[r].entitled

\* The writes an operation owes who gets a success.
Owed(q) ==
    IF q.noSession \/ q.op \notin Operation THEN {}
    ELSE Writing \cap {Program[q.op][i] : i \in DOMAIN Program[q.op]}

\* A success means that everything the operation writes is written, and a
\* refusal that nothing is, but for the session a reused token ends.
StatusTellsEffect ==
    \A r \in Request : Answered(r) =>
        /\ Good(req[r].status) => Owed(req[r]) \subseteq req[r].wrote
        /\ Refused(req[r].status) => req[r].wrote \subseteq {"revokeReused"}

\* Every request has one log line, with the status that was sent and, for an
\* error, the error.
LogTellsTruth ==
    \A r \in Request : req[r].at = "done" =>
        \E line \in req[r].log :
            /\ line.status = req[r].status
            /\ line.error = "none" <=> Good(req[r].status)

\* The generated client has a type for every answer it gets, but for a body
\* over the limit, a panic, and the user who was deleted while it asked for
\* itself.
AnswersDocumented ==
    \A r \in Request : LET q == req[r] IN
        (Answered(r) /\ q.asked \in Operation) =>
            \/ <<q.asked, q.status>> \in Documented
            \/ q.status = 413 \/ q.panicked
            \/ q.asked \in {"GetMe", "LogoutAll"} /\ q.status = 404 /\ users[q.id].st = "gone"

\* Who changes a password presented one that was the user's at some time since
\* the request came in, however many others change it meanwhile.
PasswordKnown ==
    \A r \in Request :
        (req[r].op = "ChangeUserPassword" /\ "updatePassword" \in req[r].wrote) =>
            req[r].old \subseteq req[r].known

\* Every sign-out counts: two that overlap raise the version by two.
SignOuts(u) ==
    {c \in Request \X {"bumpVersion", "updatePassword"} :
        req[c[1]].id = u /\ c[2] \in req[c[1]].wrote}
SignOutsCount == \A u \in User : users[u].ver = Cardinality(SignOuts(u))

Seen == {walk.got[i] : i \in DOMAIN walk.got}

\* Who pages to the end while nobody is deleted or moved by a new name has
\* seen every user who was there when the walk began.
WalkMissesNobody ==
    (walk.at = "over" /\ ~walk.shrank /\ ~walk.renamed) => walk.start \subseteq Seen

\* Who pages while no user appears or is moved by a new name meets nobody twice.
WalkRepeatsNobody ==
    (~walk.grew /\ ~walk.renamed) => Cardinality(Seen) = Len(walk.got)
=============================================================================
