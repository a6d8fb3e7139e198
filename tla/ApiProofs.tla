----------------------------- MODULE ApiProofs -----------------------------
(***************************************************************************)
(* What the HTTP interface owes its callers, for every number of requests, *)
(* users, names and passwords and for failures and panics anywhere: types, *)
(* authority and the agreement of status, log line and effect.  The        *)
(* inductive invariant says of each request where in its use-case it is,   *)
(* what it has written and what is still owed.                             *)
(***************************************************************************)
EXTENDS Api, TLAPS, FiniteSetTheorems, SequenceTheorems

RowType ==
    [st : {"free", "pending", "stored", "gone", "void"}, name : Name \cup {0},
     pw : Password, ver : Nat]
Asked == Operation \cup Pages \cup {"stray", "none"}
Logged == AppError \cup {"none"}
Places == {"idle", "authenticate", "handle", "run", "panic", "answer", "done"}
ClaimsType == [user : User \cup {NoUser}, ver : Nat]
PageType == {s \in Seq(User) : Len(s) <= PageSize}
RequestType ==
    [at : Places,
     asked : Asked, op : Operation \cup Pages \cup {"none"}, claims : ClaimsType,
     entitled : BOOLEAN, id : User \cup {NoUser},
     old : SUBSET Password, new : SUBSET (Password \cup Name), known : SUBSET Password,
     todo : Seq(Statement), wrote : SUBSET Writing, page : PageType, total : Nat,
     noSession : BOOLEAN, panicked : BOOLEAN, status : Nat, recorded : Logged,
     log : SUBSET [status : Nat, error : Logged]]
WalkType ==
    [at : {"none", "on", "over"}, by : {"id", "name"}, dir : {"asc", "desc"},
     search : Nat, offset : Nat, got : Seq(User), start : SUBSET User,
     grew : BOOLEAN, shrank : BOOLEAN, renamed : BOOLEAN]

\* Where a request can be in its use-case, by the statements left.
One ==
    {<<"Login", "createSession">>, <<"RefreshToken", "rotate">>,
     <<"RefreshToken", "revokeReused">>, <<"Logout", "revokeSession">>,
     <<"LogoutAll", "revokeUserSessions">>, <<"GetMe", "getUser">>, <<"GetUser", "getUser">>,
     <<"ListUsers", "countUsers">>, <<"CreateUser", "commit">>, <<"UpdateUser", "updateUser">>,
     <<"DeleteUser", "deleteUser">>, <<"ChangeUserPassword", "revokeUserSessions">>,
     <<"GetReadyz", "ping">>}
Two ==
    {<<"Login", "getUserByEmail", "createSession">>, <<"RefreshToken", "getUser", "rotate">>,
     <<"Logout", "findSession", "revokeSession">>,
     <<"LogoutAll", "bumpVersion", "revokeUserSessions">>,
     <<"ListUsers", "listUsers", "countUsers">>, <<"CreateUser", "recordEvent", "commit">>,
     <<"ChangeUserPassword", "updatePassword", "revokeUserSessions">>}
Three ==
    {<<"RefreshToken", "findSession", "getUser", "rotate">>,
     <<"CreateUser", "insertUser", "recordEvent", "commit">>,
     <<"ChangeUserPassword", "getUser", "updatePassword", "revokeUserSessions">>}
Stage(op, todo) ==
    \/ \E s \in Statement : <<op, s>> \in One /\ todo = <<s>>
    \/ \E s, t \in Statement : <<op, s, t>> \in Two /\ todo = <<s, t>>
    \/ \E s, t, v \in Statement : <<op, s, t, v>> \in Three /\ todo = <<s, t, v>>

\* Nothing can be refused once one of these is all that is left.
Late == {"revokeUserSessions", "commit"}
Rest(todo) == Writing \cap {todo[i] : i \in DOMAIN todo}

Stored1(q) ==
    /\ q.op = "ChangeUserPassword" => q.new # {} /\ q.new \subseteq Password
    /\ q.op \in {"CreateUser", "UpdateUser"} => q.new # {} /\ q.new \subseteq Name

\* A request in its use-case.
RunInv(q) ==
    /\ q.op \in Operation /\ Stage(q.op, q.todo)
    /\ Head(q.todo) = "revokeReused" \/ Owed(q) \subseteq q.wrote \cup Rest(q.todo)
    /\ q.wrote # {} => Head(q.todo) \in Late
    /\ ~q.noSession
    /\ Stored1(q)

\* A request whose status is on the wire.
AnswerInv(q) ==
    /\ q.recorded = "none" <=> Good(q.status)
    /\ q.op \in Pages => q.status = 200
    /\ Good(q.status) => q.entitled /\ Owed(q) \subseteq q.wrote
    /\ Refused(q.status) => q.wrote \subseteq {"revokeReused"}

LoggedInv(q) == \E line \in q.log : line.status = q.status /\ line.error = q.recorded

RequestInv(q) ==
    /\ q \in RequestType
    /\ q.at \in {"idle", "authenticate", "handle"} => q.wrote = {} /\ q.id = NoUser
    /\ q.at \in {"authenticate", "handle"} => ~q.noSession
    /\ q.at \in {"authenticate", "handle", "panic"} => q.op \in Operation
    /\ q.at \notin {"answer", "done"} => q.recorded = "none"
    /\ q.at \in {"handle", "run"} \/ q.wrote # {} => q.entitled
    /\ q.at = "run" => RunInv(q)
    /\ q.at \in {"answer", "done"} => AnswerInv(q)
    /\ q.at = "done" => LoggedInv(q)

\* Once out of date a token stays so.
Outdated(table, t) ==
    /\ t.user \in User
    /\ \/ table[t.user].st = "gone"
       \/ table[t.user].st = "stored" /\ t.ver < table[t.user].ver
TokenInv ==
    \A r \in Request :
        req[r].at = "authenticate" /\ ~req[r].entitled => Outdated(users, req[r].claims)

\* A registration that is under way has a row of its own, not yet to be seen.
Creating(r) == req[r].at = "run" /\ req[r].op = "CreateUser"
OpenInv ==
    /\ \A r \in Request : Creating(r) =>
          IF Head(req[r].todo) = "insertUser" THEN req[r].id = NoUser
          ELSE req[r].id \in User /\ users[req[r].id].st = "pending"
    /\ \A r, s \in Request :
          Creating(r) /\ Creating(s) /\ req[r].id \in User /\ req[r].id = req[s].id => r = s
    /\ \A u \in User : users[u].st \in {"free", "pending"} =>
          users[u].ver = 0 /\ users[u].pw = FirstPassword

Inv ==
    /\ users \in [User -> RowType]
    /\ active \in Clients /\ walk \in WalkType /\ faults \in 0..MaxFaults
    /\ req \in [Request -> RequestType]
    /\ \A r \in Request : RequestInv(req[r])
    /\ TokenInv /\ OpenInv
-----------------------------------------------------------------------------
(* The tables.                                                             *)

LEMMA PageNames == Pages = {"openapi", "docs"} /\ Pages \cap Operation = {}
<1>1. Pages = {"openapi", "docs"}
  BY DEF Pages, PageCalls, Call
<1>. QED
  BY <1>1 DEF Operation

LEMMA Sequences ==
    ASSUME NEW s \in Statement, NEW t \in Statement, NEW v \in Statement
    PROVE  /\ <<s>> \in Seq(Statement) /\ Len(<<s>>) = 1 /\ Head(<<s>>) = s
           /\ <<s, t>> \in Seq(Statement) /\ Len(<<s, t>>) = 2
           /\ Head(<<s, t>>) = s /\ Tail(<<s, t>>) = <<t>>
           /\ <<s, t, v>> \in Seq(Statement) /\ Len(<<s, t, v>>) = 3
           /\ Head(<<s, t, v>>) = s /\ Tail(<<s, t, v>>) = <<t, v>>
OBVIOUS

\* Every use-case begins at a stage, unless it has nothing to do.
LEMMA ProgramStages ==
    ASSUME NEW op \in Operation
    PROVE  Program[op] = << >> \/ Stage(op, Program[op])
<1>1. Program[op] =
        CASE op = "Login" -> <<"getUserByEmail", "createSession">>
          [] op = "RefreshToken" -> <<"findSession", "getUser", "rotate">>
          [] op = "Logout" -> <<"findSession", "revokeSession">>
          [] op = "LogoutAll" -> <<"bumpVersion", "revokeUserSessions">>
          [] op \in {"GetMe", "GetUser"} -> <<"getUser">>
          [] op = "ListUsers" -> <<"listUsers", "countUsers">>
          [] op = "CreateUser" -> <<"insertUser", "recordEvent", "commit">>
          [] op = "UpdateUser" -> <<"updateUser">>
          [] op = "DeleteUser" -> <<"deleteUser">>
          [] op = "ChangeUserPassword" -> <<"getUser", "updatePassword", "revokeUserSessions">>
          [] op = "GetReadyz" -> <<"ping">>
          [] OTHER -> << >>
  BY DEF Operation, Program, SessionProgram, AccountProgram, HealthProgram, ListProgram,
         PasswordProgram
<1>. QED
  BY <1>1 DEF Stage, One, Two, Three, Operation, Statement, Writing

StageNext(op, todo) ==
    /\ Stage(op, Tail(todo)) /\ Head(Tail(todo)) \notin {"revokeReused", "insertUser"}
    /\ Head(todo) \in Writing => Head(Tail(todo)) \in Late

LEMMA StageTails ==
    ASSUME NEW op, NEW todo, Stage(op, todo)
    PROVE  /\ todo \in Seq(Statement) /\ Len(todo) \in Nat \ {0} /\ Head(todo) \in Statement
           /\ Len(todo) = 1 \/ Len(todo) > 1
           /\ Head(todo) \in Late => Len(todo) = 1
           /\ Head(todo) = "revokeReused" => Len(todo) = 1 /\ op = "RefreshToken"
           /\ Len(todo) > 1 => StageNext(op, todo)
<1>1. CASE \E s \in Statement : <<op, s>> \in One /\ todo = <<s>>
  <2>1. PICK s \in Statement : <<op, s>> \in One /\ todo = <<s>>
    BY <1>1
  <2>2. s = "revokeReused" => op = "RefreshToken"
    BY <2>1 DEF One
  <2>. QED
    BY <2>1, <2>2, Sequences
<1>2. CASE \E s, t \in Statement : <<op, s, t>> \in Two /\ todo = <<s, t>>
  <2>1. PICK s, t \in Statement : <<op, s, t>> \in Two /\ todo = <<s, t>>
    BY <1>2
  <2>2. <<op, t>> \in One /\ t \notin {"revokeReused", "insertUser"} /\ s # "revokeReused"
        /\ s \notin Late /\ (s \in Writing => t \in Late)
    BY <2>1 DEF One, Two, Late, Writing
  <2>3. Stage(op, <<t>>)
    BY <2>2 DEF Stage
  <2>. QED
    BY <2>1, <2>2, <2>3, Sequences DEF StageNext
<1>3. CASE \E s, t, v \in Statement : <<op, s, t, v>> \in Three /\ todo = <<s, t, v>>
  <2>1. PICK s, t, v \in Statement : <<op, s, t, v>> \in Three /\ todo = <<s, t, v>>
    BY <1>3
  <2>2. <<op, t, v>> \in Two /\ t \notin {"revokeReused", "insertUser"} /\ s # "revokeReused"
        /\ s \notin Late /\ s \notin Writing
    BY <2>1 DEF Two, Three, Late, Writing
  <2>3. Stage(op, <<t, v>>)
    BY <2>2 DEF Stage
  <2>. QED
    BY <2>1, <2>2, <2>3, Sequences DEF StageNext
<1>. QED
  BY <1>1, <1>2, <1>3 DEF Stage

LEMMA StageRest ==
    ASSUME NEW op, NEW todo, Stage(op, todo)
    PROVE  /\ Len(todo) > 1 => Rest(todo) \subseteq {Head(todo)} \cup Rest(Tail(todo))
           /\ Len(todo) = 1 => Rest(todo) \subseteq {Head(todo)}
<1>1. todo \in Seq(Statement) /\ Len(todo) > 0
  BY StageTails
<1>2. ASSUME NEW i \in DOMAIN todo
      PROVE  \/ todo[i] = Head(todo)
             \/ /\ Len(todo) > 1 /\ i - 1 \in DOMAIN Tail(todo)
                /\ todo[i] = Tail(todo)[i - 1]
  <2>1. i \in 1..Len(todo) /\ Len(todo) \in Nat
    BY <1>1
  <2>2. CASE i = 1
    BY <1>1, <2>2
  <2>3. CASE i > 1
    BY <1>1, <2>1, <2>3
  <2>. QED
    BY <2>1, <2>2, <2>3
<1>3. ASSUME NEW x \in Rest(todo)
      PROVE  x = Head(todo) \/ (Len(todo) > 1 /\ x \in Rest(Tail(todo)))
  <2>1. PICK i \in DOMAIN todo : x = todo[i] /\ x \in Writing
    BY DEF Rest
  <2>. QED
    BY <1>2, <2>1 DEF Rest
<1>4. Len(todo) = 1 => ~(Len(todo) > 1)
  BY <1>1
<1>. QED
  BY <1>3, <1>4, Zenon

LEMMA StageOperations ==
    ASSUME NEW op, NEW todo, Stage(op, todo)
    PROVE  /\ Head(todo) = "updatePassword" => op = "ChangeUserPassword"
           /\ Head(todo) = "updateUser" => op = "UpdateUser"
           /\ Head(todo) \in {"insertUser", "recordEvent", "commit"} <=> op = "CreateUser"
           /\ Head(todo) \in {"listUsers", "countUsers"} <=> op = "ListUsers"
           /\ Head(todo) = "bumpVersion" => op = "LogoutAll"
           /\ Head(todo) \in {"rotate", "revokeReused"} => op = "RefreshToken"
           /\ op = "ChangeUserPassword"
                 => Head(todo) \in {"getUser", "updatePassword", "revokeUserSessions"}
<1>1. CASE \E s \in Statement : <<op, s>> \in One /\ todo = <<s>>
  <2>1. PICK s \in Statement : <<op, s>> \in One /\ todo = <<s>>
    BY <1>1
  <2>. QED
    BY <2>1, Sequences DEF One
<1>2. CASE \E s, t \in Statement : <<op, s, t>> \in Two /\ todo = <<s, t>>
  <2>1. PICK s, t \in Statement : <<op, s, t>> \in Two /\ todo = <<s, t>>
    BY <1>2
  <2>. QED
    BY <2>1, Sequences DEF Two
<1>3. CASE \E s, t, v \in Statement : <<op, s, t, v>> \in Three /\ todo = <<s, t, v>>
  <2>1. PICK s, t, v \in Statement : <<op, s, t, v>> \in Three /\ todo = <<s, t, v>>
    BY <1>3
  <2>. QED
    BY <2>1, Sequences DEF Three
<1>. QED
  BY <1>1, <1>2, <1>3 DEF Stage

\* What a success owes is what is left at the beginning.
LEMMA OwedProgram ==
    ASSUME NEW q, q.op \in Operation
    PROVE  Owed(q) \subseteq Rest(Program[q.op])
BY DEF Owed, Rest

LEMMA StatusOf ==
    ASSUME NEW error \in AppError
    PROVE  /\ error # "none"
           /\ Code(error) \in Nat /\ ~Good(Code(error))
           /\ error \in {"Internal", "Unavailable"} => ~Refused(Code(error))
<1>1. error # "none"
  BY DEF AppError
<1>2. Code(error) \in {400, 401, 404, 409, 413, 422, 500, 503}
  BY DEF Code
<1>3. error \in {"Internal", "Unavailable"} => Code(error) \in {500, 503}
  BY DEF Code
<1>. QED
  BY <1>1, <1>2, <1>3 DEF Good, Refused

LEMMA FailureKinds ==
    ASSUME NEW op, NEW stmt, NEW cause
    PROVE  /\ Failure(op, stmt, cause) \in AppError
           /\ cause = "driver" => Failure(op, stmt, cause) \in {"Internal", "Unavailable"}
BY DEF Failure, SessionError, RegisterError, UserError, Sentinel, AppError

LEMMA SuccessStatus == \A op : Success(op) \in {200, 201, 204}
BY DEF Success
-----------------------------------------------------------------------------
(* Records of requests: what each update leaves of the type.               *)

LEMMA Moved ==
    ASSUME NEW q \in RequestType
    PROVE  /\ \A x \in Places : [q EXCEPT !.at = x] \in RequestType
           /\ \A x \in Seq(Statement) : [q EXCEPT !.todo = x] \in RequestType
           /\ \A x \in SUBSET Writing : [q EXCEPT !.wrote = x] \in RequestType
           /\ \A x \in BOOLEAN : [q EXCEPT !.noSession = x] \in RequestType
           /\ \A x \in BOOLEAN : [q EXCEPT !.panicked = x] \in RequestType
<1>1. \A x \in Places : [q EXCEPT !.at = x] \in RequestType
  BY DEF RequestType
<1>2. \A x \in Seq(Statement) : [q EXCEPT !.todo = x] \in RequestType
  BY DEF RequestType
<1>3. \A x \in SUBSET Writing : [q EXCEPT !.wrote = x] \in RequestType
  BY DEF RequestType
<1>4. \A x \in BOOLEAN : [q EXCEPT !.noSession = x] \in RequestType
  BY DEF RequestType
<1>5. \A x \in BOOLEAN : [q EXCEPT !.panicked = x] \in RequestType
  BY DEF RequestType
<1>. QED
  BY <1>1, <1>2, <1>3, <1>4, <1>5

LEMMA Given ==
    ASSUME NEW q \in RequestType
    PROVE  /\ \A x \in ClaimsType : [q EXCEPT !.claims = x] \in RequestType
           /\ \A x \in User \cup {NoUser} : [q EXCEPT !.id = x] \in RequestType
           /\ \A x \in SUBSET Password : [q EXCEPT !.old = x] \in RequestType
           /\ \A x \in SUBSET (Password \cup Name) : [q EXCEPT !.new = x] \in RequestType
           /\ \A x \in SUBSET Password : [q EXCEPT !.known = x] \in RequestType
<1>1. \A x \in ClaimsType : [q EXCEPT !.claims = x] \in RequestType
  BY DEF RequestType
<1>2. \A x \in User \cup {NoUser} : [q EXCEPT !.id = x] \in RequestType
  BY DEF RequestType
<1>3. \A x \in SUBSET Password : [q EXCEPT !.old = x] \in RequestType
  BY DEF RequestType
<1>4. \A x \in SUBSET (Password \cup Name) : [q EXCEPT !.new = x] \in RequestType
  BY DEF RequestType
<1>5. \A x \in SUBSET Password : [q EXCEPT !.known = x] \in RequestType
  BY DEF RequestType
<1>. QED
  BY <1>1, <1>2, <1>3, <1>4, <1>5

LEMMA Told ==
    ASSUME NEW q \in RequestType
    PROVE  /\ \A x \in PageType : [q EXCEPT !.page = x] \in RequestType
           /\ \A x \in Nat : [q EXCEPT !.total = x] \in RequestType
           /\ \A x \in Nat : [q EXCEPT !.status = x] \in RequestType
           /\ \A x \in Logged : [q EXCEPT !.recorded = x] \in RequestType
           /\ \A x \in SUBSET [status : Nat, error : Logged] : [q EXCEPT !.log = x] \in RequestType
<1>1. \A x \in PageType : [q EXCEPT !.page = x] \in RequestType
  BY DEF RequestType
<1>2. \A x \in Nat : [q EXCEPT !.total = x] \in RequestType
  BY DEF RequestType
<1>3. \A x \in Nat : [q EXCEPT !.status = x] \in RequestType
  BY DEF RequestType
<1>4. \A x \in Logged : [q EXCEPT !.recorded = x] \in RequestType
  BY DEF RequestType
<1>5. \A x \in SUBSET [status : Nat, error : Logged] : [q EXCEPT !.log = x] \in RequestType
  BY DEF RequestType
<1>. QED
  BY <1>1, <1>2, <1>3, <1>4, <1>5

LEMMA Replied ==
    ASSUME NEW q \in RequestType, NEW status \in Nat, NEW p, p = Reply(q, status)
    PROVE  /\ p \in RequestType /\ p.at = "answer" /\ p.status = status
           /\ p.op = q.op /\ p.id = q.id /\ p.wrote = q.wrote /\ p.entitled = q.entitled
           /\ p.recorded = q.recorded /\ p.noSession = q.noSession /\ p.known = q.known
           /\ p.old = q.old
<1>1. p = [[[[q EXCEPT !.at = "answer"] EXCEPT !.status = status] EXCEPT !.todo = << >>]
              EXCEPT !.new = {}]
  BY DEF Reply
<1>2. "answer" \in Places /\ << >> \in Seq(Statement)
  BY DEF Places
<1>3. [q EXCEPT !.at = "answer"] \in RequestType
  BY <1>2, Moved
<1>4. [[q EXCEPT !.at = "answer"] EXCEPT !.status = status] \in RequestType
  BY <1>3, Told
<1>5. [[[q EXCEPT !.at = "answer"] EXCEPT !.status = status] EXCEPT !.todo = << >>]
      \in RequestType
  BY <1>2, <1>4, Moved
<1>6. p \in RequestType
  BY <1>1, <1>5, Given
<1>7. /\ p.at = "answer" /\ p.status = status
      /\ p.op = q.op /\ p.id = q.id /\ p.wrote = q.wrote /\ p.entitled = q.entitled
      /\ p.recorded = q.recorded /\ p.noSession = q.noSession /\ p.known = q.known
      /\ p.old = q.old
  BY DEF RequestType, Reply
<1>. QED
  BY <1>6, <1>7

LEMMA Written ==
    ASSUME NEW q \in RequestType, NEW error \in AppError, NEW p, p = WriteError(q, error)
    PROVE  /\ p \in RequestType /\ p.at = "answer" /\ p.status = Code(error)
           /\ p.op = q.op /\ p.id = q.id /\ p.wrote = q.wrote /\ p.entitled = q.entitled
           /\ p.recorded = error /\ p.noSession = q.noSession /\ p.known = q.known
           /\ p.old = q.old
<1>. DEFINE x == Reply(q, Code(error))
<1>1. Code(error) \in Nat /\ error \in Logged
  BY StatusOf DEF Logged
<1>2. /\ x \in RequestType /\ x.at = "answer" /\ x.status = Code(error)
      /\ x.op = q.op /\ x.id = q.id /\ x.wrote = q.wrote /\ x.entitled = q.entitled
      /\ x.noSession = q.noSession /\ x.known = q.known /\ x.old = q.old
  BY <1>1, Replied
<1>3. p = [x EXCEPT !.recorded = error]
  BY DEF WriteError
<1>. HIDE DEF x
<1>4. p \in RequestType
  BY <1>1, <1>2, <1>3, Told
<1>5. /\ p.at = x.at /\ p.status = x.status /\ p.op = x.op /\ p.id = x.id
      /\ p.wrote = x.wrote /\ p.entitled = x.entitled /\ p.recorded = error
      /\ p.noSession = x.noSession /\ p.known = x.known /\ p.old = x.old
  BY <1>2, <1>3 DEF RequestType
<1>. QED
  BY <1>2, <1>4, <1>5
-----------------------------------------------------------------------------
(* Answers and steps of one request.                                       *)

LEMMA ReplyAnswer ==
    ASSUME NEW q \in RequestType, NEW status \in {200, 201, 204},
           q.recorded = "none", q.entitled, Owed(q) \subseteq q.wrote,
           q.op \notin Pages \/ status \in {200}
    PROVE  RequestInv(Reply(q, status))
<1>. DEFINE p == Reply(q, status)
<1>0. p = Reply(q, status)
  OBVIOUS
<1>. HIDE DEF p
<1>1. /\ p \in RequestType /\ p.at = "answer" /\ p.status = status
      /\ p.op = q.op /\ p.wrote = q.wrote /\ p.recorded = q.recorded
      /\ p.noSession = q.noSession
  BY <1>0, Replied
<1>5. p.entitled
  BY <1>0, Replied
<1>2. Owed(p) = Owed(q)
  BY <1>1 DEF Owed
<1>3. AnswerInv(p)
  BY <1>1, <1>2, <1>5 DEF AnswerInv, Good, Refused
<1>4. RequestInv(p)
  BY <1>1, <1>3, <1>5 DEF RequestInv
<1>. QED
  BY <1>4 DEF p

LEMMA ErrorAnswer ==
    ASSUME NEW q \in RequestType, NEW error \in AppError, q.op \notin Pages,
           q.wrote # {} => q.entitled,
           error \in {"Internal", "Unavailable"} \/ q.wrote \subseteq {"revokeReused"}
    PROVE  RequestInv(WriteError(q, error))
<1>. DEFINE p == WriteError(q, error)
<1>1. error # "none" /\ ~Good(Code(error))
      /\ (error \in {"Internal", "Unavailable"} => ~Refused(Code(error)))
  BY StatusOf
<1>2. /\ p \in RequestType /\ p.at = "answer" /\ p.status = Code(error)
      /\ p.op = q.op /\ p.wrote = q.wrote /\ p.entitled = q.entitled /\ p.recorded = error
  BY Written
<1>. HIDE DEF p
<1>3. AnswerInv(p)
  BY <1>1, <1>2 DEF AnswerInv
<1>4. RequestInv(p)
  BY <1>2, <1>3 DEF RequestInv
<1>. QED
  BY <1>4 DEF p

\* A statement that went well: on to the next, or the success.
LEMMA ProceedStep ==
    ASSUME NEW q \in RequestType, q.at = "run", q.op \in Operation, Stage(q.op, q.todo),
           q.recorded = "none", ~q.noSession, q.entitled, Stored1(q),
           Head(q.todo) # "revokeReused",
           Owed(q) \subseteq q.wrote \cup Rest(q.todo),
           Head(q.todo) \in Writing => Head(q.todo) \in q.wrote,
           q.wrote # {} => Head(q.todo) \in Writing
    PROVE  RequestInv(Proceed(q))
<1>1. CASE Len(q.todo) > 1
  <2>. DEFINE p == [q EXCEPT !.todo = Tail(@)]
  <2>1. q.todo \in Seq(Statement) /\ Tail(q.todo) \in Seq(Statement)
    <3>1. q.todo \in Seq(Statement) /\ Len(q.todo) \in Nat \ {0}
      BY StageTails
    <3>2. q.todo # << >>
      BY <3>1
    <3>. QED
      BY <3>1, <3>2, HeadTailProperties
  <2>2. p \in RequestType
    BY <2>1, Moved
  <2>3. p.at = "run" /\ p.op = q.op /\ p.todo = Tail(q.todo) /\ p.recorded = "none"
        /\ p.noSession = q.noSession /\ p.entitled /\ p.wrote = q.wrote /\ p.new = q.new
    BY DEF RequestType
  <2>4. Proceed(q) = p
    BY <1>1 DEF Proceed
  <2>. HIDE DEF p
  <2>5. StageNext(q.op, q.todo)
    BY <1>1, StageTails
  <2>6. Stage(p.op, p.todo) /\ (p.wrote # {} => Head(p.todo) \in Late)
    BY <2>3, <2>5 DEF StageNext
  <2>7. Owed(p) \subseteq p.wrote \cup Rest(p.todo)
    <3>1. Rest(q.todo) \subseteq {Head(q.todo)} \cup Rest(p.todo)
      BY <1>1, <2>3, StageRest
    <3>2. Owed(p) = Owed(q)
      BY <2>3 DEF Owed
    <3>3. Owed(q) \subseteq Writing
      BY DEF Owed
    <3>. QED
      BY <2>3, <3>1, <3>2, <3>3
  <2>8. Stored1(p)
    BY <2>3 DEF Stored1
  <2>9. RunInv(p)
    BY <2>3, <2>6, <2>7, <2>8 DEF RunInv
  <2>. QED
    BY <2>2, <2>3, <2>4, <2>9 DEF RequestInv
<1>2. CASE ~(Len(q.todo) > 1)
  <2>1. Len(q.todo) = 1
    <3>1. Len(q.todo) = 1 \/ Len(q.todo) > 1
      BY StageTails
    <3>. QED
      BY <1>2, <3>1, Zenon
  <2>2. Rest(q.todo) \subseteq {Head(q.todo)}
    BY <2>1, StageRest
  <2>3. Owed(q) \subseteq q.wrote
    <3>1. Owed(q) \subseteq Writing
      BY DEF Owed
    <3>. QED
      BY <2>2, <3>1
  <2>4. q.op \notin Pages
    BY PageNames
  <2>5. Proceed(q) = Reply(q, Success(q.op))
    BY <1>2 DEF Proceed
  <2>. QED
    BY <2>3, <2>4, <2>5, ReplyAnswer, SuccessStatus
<1>. QED
  BY <1>1, <1>2

\* What is known of a request that is in its use-case.
Working(q) ==
    /\ q \in RequestType /\ q.at = "run" /\ q.op \in Operation /\ q.op \notin Pages
    /\ q.recorded = "none" /\ ~q.noSession /\ q.entitled
    /\ Stage(q.op, q.todo) /\ Stored1(q) /\ Head(q.todo) \in Statement
    /\ Head(q.todo) = "revokeReused" \/ Owed(q) \subseteq q.wrote \cup Rest(q.todo)
    /\ Head(q.todo) \notin Late => q.wrote = {}

LEMMA Works ==
    ASSUME NEW q, RequestInv(q), q.at = "run"
    PROVE  Working(q)
<1>1. RunInv(q)
  BY DEF RequestInv
<1>2. Head(q.todo) \in Statement
  BY <1>1, StageTails DEF RunInv
<1>. QED
  BY <1>1, <1>2, PageNames DEF RequestInv, RunInv, Working

\* A statement that fails before anything was written.
LEMMA Refusal ==
    ASSUME NEW q, Working(q), Head(q.todo) \notin Late, NEW error \in AppError
    PROVE  RequestInv(WriteError(q, error))
BY ErrorAnswer DEF Working

\* A statement that writes nothing.
LEMMA Reading ==
    ASSUME NEW q, Working(q), Head(q.todo) \notin Writing
    PROVE  RequestInv(Proceed(q))
<1>1. q.wrote = {} /\ Head(q.todo) # "revokeReused"
  BY DEF Working, Late, Writing
<1>. QED
  BY <1>1, ProceedStep DEF Working

\* What most steps leave alone of the request they are about.
Keeps(p, q) ==
    p.op = q.op /\ p.id = q.id /\ p.wrote = q.wrote /\ p.old = q.old /\ p.known = q.known

LEMMA Keeping ==
    ASSUME NEW q \in RequestType
    PROVE  /\ Keeps(Proceed(q), q) /\ Keeps(Reused(q), q)
           /\ q.at = "run" => Proceed(q).at \in {"run", "answer"} /\ Reused(q).at = "run"
           /\ Proceed(q).at = "run" => Len(q.todo) > 1 /\ Proceed(q).todo = Tail(q.todo)
           /\ \A error \in AppError :
                 Keeps(WriteError(q, error), q) /\ WriteError(q, error).at = "answer"
<1>1. Keeps(Reused(q), q) /\ (q.at = "run" => Reused(q).at = "run")
  BY DEF Reused, Keeps, RequestType
<1>2. \A error \in AppError :
         Keeps(WriteError(q, error), q) /\ WriteError(q, error).at = "answer"
  BY Written DEF Keeps
<1>3. CASE Len(q.todo) > 1
  <2>1. Proceed(q) = [q EXCEPT !.todo = Tail(q.todo)]
    BY <1>3 DEF Proceed
  <2>2. Keeps(Proceed(q), q) /\ Proceed(q).at = q.at /\ Proceed(q).todo = Tail(q.todo)
    BY <2>1 DEF Keeps, RequestType
  <2>. QED
    BY <1>1, <1>2, <1>3, <2>2
<1>4. CASE ~(Len(q.todo) > 1)
  <2>1. Proceed(q) = Reply(q, Success(q.op)) /\ Success(q.op) \in Nat
    BY <1>4, SuccessStatus DEF Proceed
  <2>2. Keeps(Proceed(q), q) /\ Proceed(q).at = "answer"
    BY <2>1, Replied DEF Keeps
  <2>. QED
    BY <1>1, <1>2, <2>2
<1>. QED
  BY <1>3, <1>4

LEMMA Proceeds ==
    ASSUME NEW q \in RequestType, Stage(q.op, q.todo), Proceed(q).at = "run"
    PROVE  Head(Proceed(q).todo) # "insertUser" /\ Head(q.todo) \notin Late
<1>1. Len(q.todo) > 1 /\ Proceed(q).todo = Tail(q.todo)
  BY Keeping
<1>2. StageNext(q.op, q.todo) /\ (Head(q.todo) \in Late => Len(q.todo) = 1)
  BY <1>1, StageTails
<1>. QED
  BY <1>1, <1>2 DEF StageNext

LEMMA NoRowsStep ==
    ASSUME NEW r \in Request, req \in [Request -> RequestType], RequestInv(req[r]), NoRows(r)
    PROVE  RequestInv(req'[r])
<1>. DEFINE q == req[r]
<1>1. Working(q)
  BY Works DEF NoRows, Runs
<1>2. Head(q.todo) \notin Late
  BY DEF NoRows, Runs, OnUser, Late
<1>3. CASE q.op = "Logout"
  <2>. DEFINE x == Reply(q, Success(q.op))
              p == [x EXCEPT !.noSession = TRUE]
  <2>1. req'[r] = p
    BY <1>3 DEF NoRows, Set
  <2>2. Success(q.op) = 204
    BY <1>3 DEF Success
  <2>3. x \in RequestType /\ x.at = "answer" /\ x.status = 204 /\ x.wrote = q.wrote
        /\ x.op = q.op /\ x.recorded = "none"
    BY <1>1, <2>2, Replied DEF Working
  <2>4. x.entitled
    BY <1>1, <2>2, Replied DEF Working
  <2>. HIDE DEF x
  <2>5. p \in RequestType
    BY <2>3, Moved
  <2>6. p.at = "answer" /\ p.status = 204 /\ p.wrote = q.wrote /\ p.op = q.op
        /\ p.recorded = "none" /\ p.noSession
    BY <2>3 DEF RequestType
  <2>7. p.entitled
    BY <2>3, <2>4 DEF RequestType
  <2>. HIDE DEF p
  <2>8. Owed(p) = {}
    BY <2>6 DEF Owed
  <2>9. AnswerInv(p)
    BY <1>1, <2>6, <2>7, <2>8 DEF AnswerInv, Good, Refused, Working
  <2>. QED
    BY <2>1, <2>5, <2>6, <2>7, <2>9 DEF RequestInv
<1>4. CASE q.op # "Logout"
  <2>1. PICK cause : req'[r] = WriteError(q, Failure(q.op, Head(q.todo), cause))
    BY <1>4 DEF NoRows, Set
  <2>. QED
    BY <1>1, <1>2, <2>1, Refusal, FailureKinds
<1>. QED
  BY <1>3, <1>4

LEMMA LookupStep ==
    ASSUME NEW r \in Request, req \in [Request -> RequestType], RequestInv(req[r]), Lookup(r)
    PROVE  RequestInv(req'[r])
<1>. DEFINE q == req[r]
<1>1. Working(q) /\ Head(q.todo) \notin Writing /\ Head(q.todo) \notin Late
  BY Works DEF Lookup, Runs, Writing, Late
<1>2. Mismatch(q.op) \in AppError
  BY DEF Mismatch, AppError
<1>3. req'[r] = IF Verified(q) THEN Proceed(q) ELSE WriteError(q, Mismatch(q.op))
  BY DEF Lookup, Set
<1>. QED
  BY <1>1, <1>2, <1>3, Reading, Refusal

LEMMA ReusedStep ==
    ASSUME NEW q, Working(q), q.op = "RefreshToken", Head(q.todo) \notin Late
    PROVE  RequestInv(Reused(q))
<1>. DEFINE p == Reused(q)
<1>0. "revokeReused" \in Statement
  BY DEF Statement, Writing
<1>1. <<"revokeReused">> \in Seq(Statement) /\ Head(<<"revokeReused">>) = "revokeReused"
  BY <1>0, Sequences
<1>2. p = [q EXCEPT !.todo = <<"revokeReused">>]
  BY DEF Reused
<1>. HIDE DEF p
<1>3. p \in RequestType
  BY <1>1, <1>2, Moved DEF Working
<1>4. p.at = "run" /\ p.op = q.op /\ p.todo = <<"revokeReused">> /\ p.wrote = {}
      /\ p.recorded = "none" /\ p.noSession = q.noSession /\ p.new = q.new
  BY <1>2 DEF RequestType, Working
<1>5. p.entitled /\ ~p.noSession
  BY <1>2 DEF RequestType, Working
<1>6. Stage(p.op, p.todo)
  BY <1>0, <1>4 DEF Stage, One
<1>7. RunInv(p)
  BY <1>1, <1>4, <1>5, <1>6 DEF RunInv, Stored1, Working
<1>8. RequestInv(p)
  BY <1>3, <1>4, <1>5, <1>7 DEF RequestInv
<1>. QED
  BY <1>8 DEF p

LEMMA FindSessionStep ==
    ASSUME NEW r \in Request, req \in [Request -> RequestType], RequestInv(req[r]),
           FindSession(r) \/ RotateNothing(r)
    PROVE  RequestInv(req'[r])
<1>. DEFINE q == req[r]
<1>1. CASE FindSession(r)
  <2>1. Working(q) /\ Head(q.todo) \notin Writing /\ Head(q.todo) \notin Late
    BY <1>1, Works DEF FindSession, Runs, Writing, Late
  <2>2. \/ req'[r] = Proceed(q)
        \/ q.op = "RefreshToken" /\ req'[r] = WriteError(q, "Unauthorized")
        \/ q.op = "RefreshToken" /\ req'[r] = Reused(q)
    BY <1>1 DEF FindSession, Set
  <2>3. "Unauthorized" \in AppError
    BY DEF AppError
  <2>. QED
    BY <2>1, <2>2, <2>3, Reading, Refusal, ReusedStep
<1>2. CASE RotateNothing(r)
  <2>1. Working(q) /\ Head(q.todo) = "rotate"
    BY <1>2, Works DEF RotateNothing, Runs
  <2>2. q.op = "RefreshToken" /\ Head(q.todo) \notin Late
    BY <2>1, StageOperations DEF Working, Late
  <2>3. req'[r] = Reused(q)
    BY <1>2 DEF RotateNothing, Set
  <2>. QED
    BY <2>1, <2>2, <2>3, ReusedStep
<1>. QED
  BY <1>1, <1>2

\* Passwords that others learn change nothing else.
LEMMA Learning ==
    ASSUME NEW q, RequestInv(q), NEW k \in SUBSET Password,
           NEW p, p = [q EXCEPT !.known = k]
    PROVE  /\ RequestInv(p) /\ p.known = k
           /\ p.at = q.at /\ p.op = q.op /\ p.id = q.id /\ p.wrote = q.wrote
           /\ p.todo = q.todo /\ p.claims = q.claims /\ p.old = q.old
           /\ p.entitled <=> q.entitled
<1>0. q \in RequestType
  BY DEF RequestInv
<1>1. p \in RequestType
  BY <1>0, Given
<1>2. /\ p.known = k /\ p.at = q.at /\ p.op = q.op /\ p.id = q.id /\ p.wrote = q.wrote
      /\ p.todo = q.todo /\ p.claims = q.claims /\ p.recorded = q.recorded
      /\ p.status = q.status /\ p.new = q.new /\ p.log = q.log /\ p.old = q.old
  BY <1>0 DEF RequestType
<1>3. (p.entitled <=> q.entitled) /\ (p.noSession <=> q.noSession)
  BY <1>0 DEF RequestType
<1>4. Owed(p) = Owed(q)
  BY <1>2, <1>3 DEF Owed
<1>5. RunInv(q) => RunInv(p)
  BY <1>2, <1>3, <1>4 DEF RunInv, Stored1
<1>6. AnswerInv(q) => AnswerInv(p)
  BY <1>2, <1>3, <1>4 DEF AnswerInv
<1>7. LoggedInv(q) => LoggedInv(p)
  BY <1>2 DEF LoggedInv
<1>8. RequestInv(p)
  BY <1>1, <1>2, <1>3, <1>5, <1>6, <1>7 DEF RequestInv
<1>. QED
  BY <1>2, <1>3, <1>8

\* What r's statement makes the others learn.
LEMMA OthersLearn ==
    ASSUME NEW r \in Request, req \in [Request -> RequestType],
           \A x \in Request : RequestInv(req[x]), Working(req[r]),
           NEW y \in Request
    PROVE  /\ Learned(req[r])[y] = req[y]
              \/ \E k \in SUBSET Password : Learned(req[r])[y] = [req[y] EXCEPT !.known = k]
           /\ RequestInv(Learned(req[r])[y])
<1>. DEFINE q == req[r]
            k == req[y].known \cup q.new
<1>1. CASE Head(q.todo) = "updatePassword" /\ Overlaps(req[y], q)
  <2>1. q.op = "ChangeUserPassword"
    BY <1>1, StageOperations DEF Working
  <2>2. k \in SUBSET Password
    BY <2>1 DEF Working, Stored1, RequestType
  <2>3. Learned(q)[y] = [req[y] EXCEPT !.known = k]
    BY <1>1 DEF Learned
  <2>. HIDE DEF k
  <2>4. RequestInv(Learned(q)[y])
    BY <2>2, <2>3, Learning
  <2>. QED
    BY <2>2, <2>3, <2>4
<1>2. CASE ~(Head(q.todo) = "updatePassword" /\ Overlaps(req[y], q))
  BY <1>2 DEF Learned
<1>. QED
  BY <1>1, <1>2

LEMMA TookType ==
    ASSUME NEW q, Working(q), NEW p, p = Took(q)
    PROVE  /\ p \in RequestType /\ p.at = "run" /\ p.op = q.op /\ p.todo = q.todo
           /\ p.recorded = "none" /\ ~p.noSession /\ p.entitled /\ Stored1(p)
           /\ p.id = q.id /\ p.known = q.known /\ p.old = q.old
           /\ Owed(p) = Owed(q)
           /\ p.wrote = q.wrote \cup ({Head(q.todo)} \cap Writing)
<1>1. q \in RequestType
  BY DEF Working
<1>2. q.wrote \cup ({Head(q.todo)} \cap Writing) \in SUBSET Writing
  BY <1>1 DEF RequestType
<1>3. p = [q EXCEPT !.wrote = q.wrote \cup ({Head(q.todo)} \cap Writing)]
  BY DEF Took
<1>4. p \in RequestType
  BY <1>1, <1>2, <1>3, Moved
<1>5. /\ p.at = q.at /\ p.op = q.op /\ p.todo = q.todo /\ p.recorded = q.recorded
      /\ p.id = q.id /\ p.known = q.known /\ p.new = q.new /\ p.old = q.old
      /\ p.wrote = q.wrote \cup ({Head(q.todo)} \cap Writing)
  BY <1>1, <1>3 DEF RequestType
<1>6. (p.entitled <=> q.entitled) /\ (p.noSession <=> q.noSession)
  BY <1>1, <1>3 DEF RequestType
<1>7. Owed(p) = Owed(q)
  BY <1>5, <1>6 DEF Owed
<1>8. Stored1(p)
  BY <1>5 DEF Stored1, Working
<1>. QED
  BY <1>4, <1>5, <1>6, <1>7, <1>8 DEF Working

LEMMA ExecuteStep ==
    ASSUME NEW r \in Request, req \in [Request -> RequestType],
           \A x \in Request : RequestInv(req[x]), Execute(r)
    PROVE  RequestInv(req'[r])
<1>. DEFINE q == req[r]
            p == Took(q)
<1>1. Working(q) /\ Head(q.todo) \in Writing \cup {"ping"}
  BY Works DEF Execute, Runs
<1>2. /\ p \in RequestType /\ p.at = "run" /\ p.op = q.op /\ p.todo = q.todo
      /\ p.recorded = "none" /\ ~p.noSession /\ p.entitled /\ Stored1(p)
      /\ Owed(p) = Owed(q) /\ p.wrote = q.wrote \cup ({Head(q.todo)} \cap Writing)
  BY <1>1, TookType
<1>3. DOMAIN Learned(q) = Request
  BY DEF Learned
<1>4. req'[r] = IF Head(p.todo) = "revokeReused" THEN WriteError(p, "Unauthorized")
                ELSE Proceed(p)
  BY <1>3 DEF Execute
<1>. HIDE DEF p
<1>5. CASE Head(q.todo) = "revokeReused"
  <2>1. q.wrote = {} /\ p.wrote \subseteq {"revokeReused"}
    BY <1>1, <1>2, <1>5 DEF Working, Late
  <2>2. "Unauthorized" \in AppError /\ p.op \notin Pages
    BY <1>1, <1>2 DEF AppError, Working
  <2>. QED
    BY <1>2, <1>4, <1>5, <2>1, <2>2, ErrorAnswer
<1>6. CASE Head(q.todo) # "revokeReused"
  <2>1. Owed(p) \subseteq p.wrote \cup Rest(p.todo)
    BY <1>1, <1>2, <1>6 DEF Working
  <2>2. p.wrote # {} => Head(p.todo) \in Writing
    BY <1>1, <1>2 DEF Working, Late, Writing
  <2>3. Head(p.todo) \in Writing => Head(p.todo) \in p.wrote
    BY <1>2
  <2>4. p.op \in Operation /\ Stage(p.op, p.todo) /\ Head(p.todo) # "revokeReused"
    BY <1>1, <1>2, <1>6 DEF Working
  <2>5. RequestInv(Proceed(p))
    BY <1>2, <2>1, <2>2, <2>3, <2>4, ProceedStep
  <2>. QED
    BY <1>2, <1>4, <1>6, <2>5
<1>. QED
  BY <1>5, <1>6

LEMMA FailStep ==
    ASSUME NEW r \in Request, req \in [Request -> RequestType],
           \A x \in Request : RequestInv(req[x]), Fail(r)
    PROVE  RequestInv(req'[r])
<1>. DEFINE q == req[r]
            error == Failure(q.op, Head(q.todo), "driver")
<1>1. Working(q)
  BY Works DEF Fail
<1>2. error \in AppError /\ error \in {"Internal", "Unavailable"}
  BY FailureKinds
<1>3. q.op \notin Pages /\ q.entitled /\ q \in RequestType
  BY <1>1 DEF Working
<1>4. Took(q) \in RequestType /\ Took(q).op \notin Pages
  BY <1>1, <1>3, TookType
<1>5. Took(q).entitled
  BY <1>1, TookType
<1>6. req'[r] = WriteError(q, error) \/ req'[r] = WriteError(Took(q), error)
  BY DEF Fail, Set, Learned
<1>7. RequestInv(WriteError(q, error)) /\ RequestInv(WriteError(Took(q), error))
  <2>. HIDE DEF error, q
  <2>. QED
    BY <1>2, <1>3, <1>4, <1>5, ErrorAnswer
<1>. QED
  BY <1>6, <1>7

LEMMA InsertUserStep ==
    ASSUME NEW r \in Request, req \in [Request -> RequestType], RequestInv(req[r]),
           InsertUser(r)
    PROVE  /\ RequestInv(req'[r]) /\ req'[r].at \in {"run", "answer"}
           /\ req'[r].op = "CreateUser" /\ req'[r].wrote = {} /\ req'[r].id \in User
           /\ users[req'[r].id].st = "free"
           /\ \E n \in Name : users' = [users EXCEPT ![req'[r].id] = Row("pending", n, FirstPassword, 0)]
           /\ req'[r].at = "run" => Head(req'[r].todo) # "insertUser"
<1>. DEFINE q == req[r]
<1>1. Working(q) /\ Head(q.todo) = "insertUser"
  BY Works DEF InsertUser, Runs
<1>2. PICK u \in NextId, n \in q.new :
         /\ req'[r] = Proceed([q EXCEPT !.id = u])
         /\ users' = [users EXCEPT ![u] = Row("pending", n, FirstPassword, 0)]
  BY DEF InsertUser, Set
<1>. DEFINE p == [q EXCEPT !.id = u]
<1>3. u \in User /\ q \in RequestType
  BY <1>1 DEF NextId, Working
<1>4. p \in RequestType
  BY <1>3, Given
<1>5. /\ p.at = q.at /\ p.op = q.op /\ p.todo = q.todo /\ p.recorded = q.recorded
      /\ p.new = q.new /\ p.wrote = q.wrote /\ p.id = u
  BY <1>3 DEF RequestType
<1>6. (p.entitled <=> q.entitled) /\ (p.noSession <=> q.noSession)
  BY <1>3 DEF RequestType
<1>7. req'[r] = Proceed(p)
  BY <1>2
<1>. HIDE DEF p
<1>8. Owed(p) = Owed(q)
  BY <1>5, <1>6 DEF Owed
<1>9. Working(p)
  BY <1>1, <1>4, <1>5, <1>6, <1>8 DEF Working, Stored1
<1>10. RequestInv(Proceed(p))
  BY <1>1, <1>5, <1>9, Reading DEF Writing
<1>11. q.op = "CreateUser"
  BY <1>1, StageOperations DEF Working
<1>12. n \in Name
  BY <1>1, <1>11 DEF Working, Stored1
<1>13. q.wrote = {} /\ users[u].st = "free" /\ q.at = "run" /\ Stage(p.op, p.todo)
  BY <1>1, <1>9 DEF Working, Late, NextId
<1>14. Keeps(Proceed(p), p) /\ Proceed(p).at \in {"run", "answer"}
       /\ (Proceed(p).at = "run" => Head(Proceed(p).todo) # "insertUser")
  BY <1>4, <1>5, <1>13, Keeping, Proceeds
<1>. QED
  BY <1>2, <1>3, <1>5, <1>7, <1>10, <1>11, <1>12, <1>13, <1>14 DEF Keeps

LEMMA ConflictStep ==
    ASSUME NEW r \in Request, req \in [Request -> RequestType], RequestInv(req[r]),
           Conflict(r)
    PROVE  RequestInv(req'[r])
<1>1. Working(req[r]) /\ Head(req[r].todo) \notin Late
  BY Works DEF Conflict, Runs, Late
<1>2. req'[r] = WriteError(req[r], Failure(req[r].op, "insertUser", "unique"))
  BY DEF Conflict, Set
<1>. QED
  BY <1>1, <1>2, Refusal, FailureKinds

LEMMA PageBounds ==
    ASSUME NEW rows \in SUBSET User, NEW columns, NEW dir,
           NEW s \in Listings(rows, columns, dir), NEW offset \in Nat
    PROVE  Page(s, PageSize, offset) \in PageType
<1>. DEFINE last == IF offset + PageSize <= Len(s) THEN offset + PageSize ELSE Len(s)
<1>1. IsFiniteSet(rows)
  <2>1. IsFiniteSet(User)
    BY FS_Interval, ApiAssumption DEF User
  <2>. QED
    BY <2>1, FS_Subset
<1>2. Cardinality(rows) \in Nat
  BY <1>1, FS_CardinalityType
<1>3. s \in [1..Cardinality(rows) -> rows]
  BY DEF Listings
<1>4. s \in Seq(User) /\ Len(s) = Cardinality(rows)
  BY <1>2, <1>3
<1>5. PageSize \in Nat
  BY ApiAssumption
<1>6. last \in Int /\ last <= Len(s) /\ last - offset <= PageSize
  BY <1>2, <1>4, <1>5
<1>7. \A i \in (offset + 1)..last : s[i] \in User
  BY <1>2, <1>4, <1>6
<1>8. Page(s, PageSize, offset) = SubSeq(s, offset + 1, last)
  BY DEF Page
<1>. HIDE DEF last
<1>9. /\ SubSeq(s, offset + 1, last) \in Seq(User)
      /\ Len(SubSeq(s, offset + 1, last)) =
            IF offset + 1 <= last THEN last - (offset + 1) + 1 ELSE 0
  BY <1>6, <1>7, SubSeqProperties
<1>. QED
  BY <1>5, <1>6, <1>8, <1>9 DEF PageType

LEMMA ListUsersStep ==
    ASSUME NEW r \in Request, req \in [Request -> RequestType], RequestInv(req[r]),
           walk \in WalkType, ListUsers(r) \/ CountUsers(r)
    PROVE  /\ RequestInv(req'[r]) /\ req'[r].at \in {"run", "answer"}
           /\ Keeps(req'[r], req[r])
<1>. DEFINE q == req[r]
<1>0. Matching(walk.search) \in SUBSET User
  BY DEF Matching
<1>1. Working(q) /\ Head(q.todo) \notin Writing
  BY Works DEF ListUsers, CountUsers, Runs, Writing
<1>2. q \in RequestType
  BY <1>1 DEF Working
<1>3. CASE ListUsers(r)
  <2>1. PICK s \in Listings(Matching(walk.search), OrderBy(walk.by), walk.dir) :
           req'[r] = Proceed([q EXCEPT !.page = Page(s, PageSize, walk.offset)])
    BY <1>3 DEF ListUsers, Set
  <2>. DEFINE page == Page(s, PageSize, walk.offset)
              p == [q EXCEPT !.page = page]
  <2>2. page \in PageType
    BY <1>0, <2>1, PageBounds DEF WalkType
  <2>. HIDE DEF page
  <2>3. p \in RequestType
    BY <1>2, <2>2, Told
  <2>4. /\ p.at = q.at /\ p.op = q.op /\ p.todo = q.todo /\ p.recorded = q.recorded
        /\ p.new = q.new /\ p.wrote = q.wrote /\ Keeps(p, q)
    BY <1>2 DEF RequestType, Keeps
  <2>5. (p.entitled <=> q.entitled) /\ (p.noSession <=> q.noSession)
    BY <1>2 DEF RequestType
  <2>6. req'[r] = Proceed(p)
    BY <2>1 DEF page
  <2>. HIDE DEF p
  <2>7. Owed(p) = Owed(q)
    BY <2>4, <2>5 DEF Owed
  <2>8. Working(p)
    BY <1>1, <2>3, <2>4, <2>5, <2>7 DEF Working, Stored1
  <2>. QED
    BY <1>1, <2>3, <2>4, <2>6, <2>8, Reading, Keeping DEF Keeps, Working
<1>4. CASE CountUsers(r)
  <2>. DEFINE total == Cardinality(Matching(walk.search))
              p == [q EXCEPT !.total = total]
  <2>1. total \in Nat
    <3>1. IsFiniteSet(User)
      BY FS_Interval, ApiAssumption DEF User
    <3>. QED
      BY <1>0, <3>1, FS_Subset, FS_CardinalityType
  <2>2. req'[r] = Proceed(p)
    BY <1>4 DEF CountUsers, Set
  <2>. HIDE DEF total
  <2>3. p \in RequestType
    BY <1>2, <2>1, Told
  <2>4. /\ p.at = q.at /\ p.op = q.op /\ p.todo = q.todo /\ p.recorded = q.recorded
        /\ p.new = q.new /\ p.wrote = q.wrote /\ Keeps(p, q)
    BY <1>2 DEF RequestType, Keeps
  <2>5. (p.entitled <=> q.entitled) /\ (p.noSession <=> q.noSession)
    BY <1>2 DEF RequestType
  <2>. HIDE DEF p
  <2>7. Owed(p) = Owed(q)
    BY <2>4, <2>5 DEF Owed
  <2>8. Working(p)
    BY <1>1, <2>3, <2>4, <2>5, <2>7 DEF Working, Stored1
  <2>. QED
    BY <1>1, <2>2, <2>3, <2>4, <2>8, Reading, Keeping DEF Keeps, Working
<1>. QED
  BY <1>3, <1>4
-----------------------------------------------------------------------------
(* The way in and the way out.                                             *)

LEMMA CallList ==
    ASSUME NEW c \in Calls
    PROVE  \/ c = Call("GetHealthz", "GET", "/healthz", FALSE)
           \/ c = Call("GetReadyz", "GET", "/readyz", FALSE)
           \/ c = Call("Login", "POST", "/v1/auth/login", TRUE)
           \/ c = Call("Logout", "POST", "/v1/auth/logout", TRUE)
           \/ c = Call("LogoutAll", "POST", "/v1/auth/logout-all", FALSE)
           \/ c = Call("RefreshToken", "POST", "/v1/auth/refresh", TRUE)
           \/ c = Call("GetMe", "GET", "/v1/me", FALSE)
           \/ c = Call("ListUsers", "GET", "/v1/users", FALSE)
           \/ c = Call("CreateUser", "POST", "/v1/users", TRUE)
           \/ c = Call("DeleteUser", "DELETE", "/v1/users/:id", FALSE)
           \/ c = Call("GetUser", "GET", "/v1/users/:id", FALSE)
           \/ c = Call("UpdateUser", "PATCH", "/v1/users/:id", TRUE)
           \/ c = Call("ChangeUserPassword", "PUT", "/v1/users/:id/password", TRUE)
           \/ c = Call("openapi", "GET", "/openapi.json", FALSE)
           \/ c = Call("docs", "GET", "/docs", FALSE)
           \/ c = Call("stray", "POST", "/v1/me", FALSE)
BY Zenon DEF Calls, ApiCalls, SystemCalls, SessionCalls, ReadCalls, UserCalls, ChangeCalls,
   PageCalls, StrayCalls

LEMMA CallNames ==
    ASSUME NEW c \in Calls
    PROVE  c.op \in Operation \cup Pages \cup {"stray"}
BY CallList, PageNames DEF Call, Operation

\* A route that a call's method and path choose is the call's own.
LEMMA OneRoute ==
    ASSUME NEW c \in Calls, NEW x \in ApiRoutes \cup PageRoutes,
           x.method = c.method, x.path = c.path
    PROVE  x.op = c.op /\ x.op \in Operation \cup Pages
<1>. DEFINE m == x.method
            p == x.path
<1>1. x.op \in Operation \cup Pages
  BY PageNames DEF ApiRoutes, PageRoutes, Route, Operation
<1>2. \/ x.op = "GetHealthz" /\ m = "GET" /\ p = "/healthz"
      \/ x.op = "GetReadyz" /\ m = "GET" /\ p = "/readyz"
      \/ x.op = "Login" /\ m = "POST" /\ p = "/v1/auth/login"
      \/ x.op = "Logout" /\ m = "POST" /\ p = "/v1/auth/logout"
      \/ x.op = "LogoutAll" /\ m = "POST" /\ p = "/v1/auth/logout-all"
      \/ x.op = "RefreshToken" /\ m = "POST" /\ p = "/v1/auth/refresh"
      \/ x.op = "GetMe" /\ m = "GET" /\ p = "/v1/me"
      \/ x.op = "ListUsers" /\ m = "GET" /\ p = "/v1/users"
      \/ x.op = "CreateUser" /\ m = "POST" /\ p = "/v1/users"
      \/ x.op = "DeleteUser" /\ m = "DELETE" /\ p = "/v1/users/:id"
      \/ x.op = "GetUser" /\ m = "GET" /\ p = "/v1/users/:id"
      \/ x.op = "UpdateUser" /\ m = "PATCH" /\ p = "/v1/users/:id"
      \/ x.op = "ChangeUserPassword" /\ m = "PUT" /\ p = "/v1/users/:id/password"
      \/ x.op = "openapi" /\ m = "GET" /\ p = "/openapi.json"
      \/ x.op = "docs" /\ m = "GET" /\ p = "/docs"
  BY DEF ApiRoutes, PageRoutes, Route
<1>3. \/ c.op = "GetHealthz" /\ c.method = "GET" /\ c.path = "/healthz"
      \/ c.op = "GetReadyz" /\ c.method = "GET" /\ c.path = "/readyz"
      \/ c.op = "Login" /\ c.method = "POST" /\ c.path = "/v1/auth/login"
      \/ c.op = "Logout" /\ c.method = "POST" /\ c.path = "/v1/auth/logout"
      \/ c.op = "LogoutAll" /\ c.method = "POST" /\ c.path = "/v1/auth/logout-all"
      \/ c.op = "RefreshToken" /\ c.method = "POST" /\ c.path = "/v1/auth/refresh"
      \/ c.op = "GetMe" /\ c.method = "GET" /\ c.path = "/v1/me"
      \/ c.op = "ListUsers" /\ c.method = "GET" /\ c.path = "/v1/users"
      \/ c.op = "CreateUser" /\ c.method = "POST" /\ c.path = "/v1/users"
      \/ c.op = "DeleteUser" /\ c.method = "DELETE" /\ c.path = "/v1/users/:id"
      \/ c.op = "GetUser" /\ c.method = "GET" /\ c.path = "/v1/users/:id"
      \/ c.op = "UpdateUser" /\ c.method = "PATCH" /\ c.path = "/v1/users/:id"
      \/ c.op = "ChangeUserPassword" /\ c.method = "PUT" /\ c.path = "/v1/users/:id/password"
      \/ c.op = "openapi" /\ c.method = "GET" /\ c.path = "/openapi.json"
      \/ c.op = "docs" /\ c.method = "GET" /\ c.path = "/docs"
      \/ c.op = "stray" /\ c.method = "POST" /\ c.path = "/v1/me"
  BY CallList DEF Call
<1>. HIDE DEF m, p
<1>4. c.method = m /\ c.path = p
  BY DEF m, p
<1>5. x.op = c.op
  BY <1>2, <1>3, <1>4
<1>. QED
  BY <1>1, <1>5

LEMMA Routed ==
    ASSUME NEW c \in Calls
    PROVE  OpOf(c) = "none" \/ (OpOf(c) \in Operation \cup Pages /\ OpOf(c) = c.op)
<1>1. ASSUME NEW op \in Reached(c)
      PROVE  op = c.op /\ op \in Operation \cup Pages
  <2>1. PICK x \in ApiRoutes \cup PageRoutes :
           x.method = c.method /\ x.path = c.path /\ op = x.op
    BY DEF Reached
  <2>. QED
    BY <2>1, OneRoute
<1>. QED
  BY <1>1 DEF OpOf

LEMMA NobodyAsks == Security("none") = {} /\ \A op \in Pages : Security(op) = {}
<1>1. \A i \in Document : i.id \in Operation
  BY DEF Document, PublicItems, LoginItems, Item, Operation
<1>2. "none" \notin Operation /\ \A op \in Pages : op \notin Operation
  BY PageNames DEF Operation
<1>. QED
  BY <1>1, <1>2 DEF Security

\* The document and the routes list the same operations in the same places.
LEMMA DocumentRoutes ==
    /\ \A x \in ApiRoutes : \E i \in Document : Pattern(i) = Pattern(x) /\ i.id = x.op
    /\ \A i, j \in Document : i.id = j.id \/ Pattern(i) = Pattern(j) => i = j
    /\ \A op \in Operation : \E x \in ApiRoutes : x.op = op
<1>1. ASSUME NEW x \in ApiRoutes
      PROVE  \E i \in Document : Pattern(i) = Pattern(x) /\ i.id = x.op
  <2>1. Item(x.method, x.path, x.op) \in Document
    BY DEF ApiRoutes, Route, Document, PublicItems, LoginItems, Item
  <2>. QED
    BY <2>1 DEF Item, Pattern
<1>2. ASSUME NEW i \in Document, NEW j \in Document, i.id = j.id \/ Pattern(i) = Pattern(j)
      PROVE  i = j
  <2>1. i.id = j.id \/ (i.method = j.method /\ i.path = j.path)
    BY <1>2 DEF Pattern
  <2>2. \/ i.id = "GetHealthz" /\ i.method = "GET" /\ i.path = "/healthz"
        \/ i.id = "GetReadyz" /\ i.method = "GET" /\ i.path = "/readyz"
        \/ i.id = "Login" /\ i.method = "POST" /\ i.path = "/v1/auth/login"
        \/ i.id = "Logout" /\ i.method = "POST" /\ i.path = "/v1/auth/logout"
        \/ i.id = "LogoutAll" /\ i.method = "POST" /\ i.path = "/v1/auth/logout-all"
        \/ i.id = "RefreshToken" /\ i.method = "POST" /\ i.path = "/v1/auth/refresh"
        \/ i.id = "GetMe" /\ i.method = "GET" /\ i.path = "/v1/me"
        \/ i.id = "ListUsers" /\ i.method = "GET" /\ i.path = "/v1/users"
        \/ i.id = "CreateUser" /\ i.method = "POST" /\ i.path = "/v1/users"
        \/ i.id = "DeleteUser" /\ i.method = "DELETE" /\ i.path = "/v1/users/:id"
        \/ i.id = "GetUser" /\ i.method = "GET" /\ i.path = "/v1/users/:id"
        \/ i.id = "UpdateUser" /\ i.method = "PATCH" /\ i.path = "/v1/users/:id"
        \/ i.id = "ChangeUserPassword" /\ i.method = "PUT" /\ i.path = "/v1/users/:id/password"
    BY DEF Document, PublicItems, LoginItems, Item
  <2>3. i = Item(i.method, i.path, i.id) /\ j = Item(j.method, j.path, j.id)
    BY DEF Document, PublicItems, LoginItems, Item
  <2>4. j \in Document
    OBVIOUS
  <2>5. i.id = j.id /\ i.method = j.method /\ i.path = j.path
    BY <2>1, <2>2, <2>4 DEF Document, PublicItems, LoginItems, Item
  <2>. QED
    BY <2>3, <2>5
<1>3. ASSUME NEW op \in Operation
      PROVE  \E x \in ApiRoutes : x.op = op
  BY DEF ApiRoutes, Route, Operation
<1>. QED
  BY <1>1, <1>2, <1>3

\* Looked up by the pattern of its route, an operation has the mode that what
\* the document says of the operation comes to.
LEMMA ModeOf ==
    ASSUME NEW op \in Operation
    PROVE  Access(op) = Mode(Security(op))
<1>. DEFINE x == CHOOSE x \in ApiRoutes : x.op = op
            p == Pattern(x)
            j == CHOOSE j \in Document : Pattern(j) = p
<1>1. x \in ApiRoutes /\ x.op = op
  BY DocumentRoutes
<1>. HIDE DEF x
<1>2. PICK i \in Document : Pattern(i) = p /\ i.id = op
  BY <1>1, DocumentRoutes
<1>3. j \in Document /\ Pattern(j) = p
  BY <1>2
<1>4. j = i
  BY <1>2, <1>3, DocumentRoutes
<1>5. Security(op) = Requirements(i)
  <2>1. {k \in Document : k.id = op} = {i}
    BY <1>2, DocumentRoutes
  <2>. QED
    BY <2>1 DEF Security
<1>6. p \in DOMAIN AccessModes /\ AccessModes[p] = Mode(Requirements(j))
  BY <1>2 DEF AccessModes
<1>7. Access(op) = AccessModes[p]
  BY <1>6 DEF Access, x
<1>. QED
  BY <1>4, <1>5, <1>6, <1>7

\* What lets a caller pass without a look at the claims is a right to pass.
LEMMA OpenIsEntitled ==
    ASSUME NEW op \in Operation, NEW token, Open(op, token)
    PROVE  Entitled(op, token)
<1>1. {} \notin Security(op)
  BY DEF Security, Requirements, LoginSchemes
<1>. QED
  BY <1>1, ModeOf DEF Open, Mode, Entitled

LEMMA IdleType == Idle \in RequestType /\ RequestInv(Idle)
<1>1. NoToken \in ClaimsType
  BY DEF NoToken, NoUser, ClaimsType
<1>2. << >> \in Seq(Statement) /\ << >> \in PageType
  BY ApiAssumption DEF PageType
<1>3. Idle \in RequestType
  BY <1>1, <1>2 DEF Idle, RequestType, Places, Asked, Logged
<1>. QED
  BY <1>3 DEF RequestInv, Idle

LEMMA TokenType ==
    /\ NoToken \in ClaimsType /\ NoToken.user = 0
    /\ Tokens \subseteq ClaimsType /\ \A t \in Tokens : t.user \in User
<1>1. Cardinality(Request) \in Nat /\ MaxUser \in Nat
  BY ApiAssumption, FS_CardinalityType
<1>2. User \subseteq Nat
  BY <1>1 DEF User
<1>3. ASSUME NEW t \in Tokens
      PROVE  t \in ClaimsType /\ t.user \in User
  <2>1. t \in [user : User, ver : 0..Cardinality(Request)]
    BY DEF Tokens
  <2>2. t.user \in User /\ t.ver \in 0..Cardinality(Request)
    BY <2>1
  <2>3. t.ver \in Nat
    BY <1>1, <2>2
  <2>4. t = [user |-> t.user, ver |-> t.ver]
    BY <2>1
  <2>. QED
    BY <1>2, <2>2, <2>3, <2>4 DEF ClaimsType
<1>. QED
  BY <1>3 DEF NoToken, NoUser, ClaimsType

LEMMA ArriveStep ==
    ASSUME NEW r \in Request, req \in [Request -> RequestType], RequestInv(req[r]), Arrive(r)
    PROVE  /\ RequestInv(req'[r])
           /\ req'[r].at = "authenticate" =>
                 /\ req'[r].claims \in Tokens
                 /\ Current(req'[r].claims) => req'[r].entitled
           /\ req'[r].at # "run" /\ req'[r].wrote = {} /\ req'[r].id = NoUser
           /\ r = Walker => req'[r].op \in {"ListUsers", "none"}
<1>1. PICK call \in CallsOn(r), token \in {NoToken} \cup Tokens, bound \in BOOLEAN :
         req' = [req EXCEPT ![r] =
                    Enter([Idle EXCEPT !.asked = call.op, !.op = OpOf(call),
                                       !.entitled = Entitled(call.op, token)], token, bound)]
  BY DEF Arrive
<1>. DEFINE q == [Idle EXCEPT !.asked = call.op, !.op = OpOf(call),
                              !.entitled = Entitled(call.op, token)]
<1>2. call \in Calls /\ (r = Walker => call.op = "ListUsers")
  BY DEF CallsOn
<1>3. Entitled(call.op, token) \in BOOLEAN
  BY DEF Entitled, Current, Stored
<1>4. q = [Idle EXCEPT !.asked = call.op, !.op = OpOf(call),
                       !.entitled = Entitled(call.op, token)]
  OBVIOUS
<1>5. call.op \in Asked
  BY <1>2, CallNames DEF Asked
<1>6. OpOf(call) \in Operation \cup Pages \cup {"none"}
  BY <1>2, Routed
<1>7. q \in RequestType
  BY <1>3, <1>5, <1>6, IdleType DEF RequestType
<1>8. q.wrote = {} /\ q.id = NoUser /\ q.recorded = "none" /\ q.op = OpOf(call)
      /\ q.log = {} /\ q.at = "idle"
  BY DEF Idle
<1>9. r = Walker => q.op \in {"ListUsers", "none"}
  BY <1>2, <1>8, Routed
<1>10. ~q.noSession /\ (q.entitled <=> Entitled(call.op, token))
  BY DEF Idle
<1>11. req'[r] = Enter(q, token, bound)
  BY <1>1
<1>. HIDE DEF q
<1>12. CASE q.op = "none"
  <2>1. "NotFound" \in AppError /\ q.op \notin Pages
    BY <1>12, PageNames DEF AppError
  <2>2. req'[r] = WriteError(q, "NotFound")
    BY <1>11, <1>12 DEF Enter
  <2>3. RequestInv(req'[r])
    BY <1>7, <1>8, <2>1, <2>2, ErrorAnswer
  <2>. QED
    BY <1>7, <1>8, <1>9, <2>1, <2>2, <2>3, Written
<1>13. CASE q.op \in Pages
  <2>1. req'[r] = Reply(q, 200)
    BY <1>11, <1>13, PageNames DEF Enter
  <2>2. Entitled(call.op, token)
    BY <1>2, <1>8, <1>13, Routed, NobodyAsks, PageNames DEF Entitled
  <2>3. Owed(q) = {}
    BY <1>13, PageNames DEF Owed
  <2>4. q.entitled
    BY <1>10, <2>2
  <2>5. RequestInv(req'[r])
    BY <1>7, <1>8, <2>1, <2>3, <2>4, ReplyAnswer
  <2>. QED
    BY <1>7, <1>8, <1>9, <2>1, <2>5, Replied
<1>14. CASE q.op \in Operation
  <2>0. q.op # "none" /\ q.op \notin Pages /\ q.op = call.op
    BY <1>2, <1>8, <1>14, Routed, PageNames DEF Operation
  <2>1. CASE ~bound \/ (~Open(q.op, token) /\ token = NoToken)
    <3>1. PICK error \in {"BadRequest", "Unauthorized"} : req'[r] = WriteError(q, error)
      BY <1>11, <2>0, <2>1 DEF Enter
    <3>2. error \in AppError
      BY DEF AppError
    <3>3. RequestInv(req'[r])
      BY <1>7, <1>8, <2>0, <3>1, <3>2, ErrorAnswer
    <3>. QED
      BY <1>7, <1>8, <1>9, <3>1, <3>2, <3>3, Written
  <2>2. CASE bound /\ Open(q.op, token)
    <3>. DEFINE p == [q EXCEPT !.at = "handle"]
    <3>1. req'[r] = p
      BY <1>11, <2>0, <2>2 DEF Enter
    <3>2. p \in RequestType
      BY <1>7, Moved DEF Places
    <3>3. p.at = "handle" /\ p.wrote = {} /\ p.id = NoUser /\ p.recorded = "none" /\ p.op = q.op
      BY <1>7, <1>8 DEF RequestType
    <3>4. (p.entitled <=> q.entitled) /\ (p.noSession <=> q.noSession)
      BY <1>7 DEF RequestType
    <3>5. q.entitled
      BY <1>10, <1>14, <2>0, <2>2, OpenIsEntitled
    <3>. HIDE DEF p
    <3>6. RequestInv(p)
      BY <1>10, <1>14, <3>2, <3>3, <3>4, <3>5 DEF RequestInv
    <3>. QED
      BY <1>9, <3>1, <3>3, <3>6
  <2>3. CASE bound /\ ~Open(q.op, token) /\ token # NoToken
    <3>. DEFINE p == [q EXCEPT !.at = "authenticate", !.claims = token]
    <3>1. req'[r] = p
      BY <1>11, <2>0, <2>3 DEF Enter
    <3>2. token \in Tokens /\ token \in ClaimsType
      BY <2>3, TokenType
    <3>3. p \in RequestType
      <4>1. [q EXCEPT !.at = "authenticate"] \in RequestType
        BY <1>7, Moved DEF Places
      <4>. QED
        BY <3>2, <4>1, Given
    <3>4. p.at = "authenticate" /\ p.wrote = {} /\ p.id = NoUser /\ p.recorded = "none"
          /\ p.op = q.op /\ p.claims = token
      BY <1>7, <1>8 DEF RequestType
    <3>5. (p.entitled <=> q.entitled) /\ (p.noSession <=> q.noSession)
      BY <1>7 DEF RequestType
    <3>6. Current(token) => q.entitled
      BY <1>10 DEF Entitled
    <3>. HIDE DEF p
    <3>7. RequestInv(p)
      BY <1>10, <1>14, <3>3, <3>4, <3>5 DEF RequestInv
    <3>. QED
      BY <1>9, <3>1, <3>2, <3>4, <3>5, <3>6, <3>7
  <2>. QED
    BY <2>1, <2>2, <2>3
<1>. QED
  BY <1>6, <1>8, <1>12, <1>13, <1>14

LEMMA AuthenticateStep ==
    ASSUME NEW r \in Request, req \in [Request -> RequestType], RequestInv(req[r]),
           Authenticate(r), users \in [User -> RowType],
           ~req[r].entitled => Outdated(users, req[r].claims)
    PROVE  /\ RequestInv(req'[r])
           /\ req'[r].at \in {"handle", "answer"} /\ req'[r].wrote = {} /\ req'[r].id = NoUser
           /\ req'[r].op = req[r].op
<1>. DEFINE q == req[r]
<1>1. q.at = "authenticate" /\ q.op \in Operation /\ q.op \notin Pages /\ q.wrote = {}
      /\ q.id = NoUser /\ q.recorded = "none" /\ q \in RequestType
  BY PageNames DEF Authenticate, RequestInv
<1>2. ~q.noSession
  BY <1>1 DEF RequestInv
<1>3. CASE Authentic(q.claims)
  <2>. DEFINE p == [q EXCEPT !.at = "handle"]
  <2>1. req'[r] = p
    BY <1>3 DEF Authenticate
  <2>2. q.entitled
    <3>1. users[q.claims.user].ver \in Nat /\ users[q.claims.user].st = "stored"
          /\ users[q.claims.user].ver = q.claims.ver
      BY <1>3 DEF Authentic, Stored, RowType
    <3>2. ~Outdated(users, q.claims)
      BY <3>1 DEF Outdated
    <3>. QED
      BY <3>2
  <2>3. p \in RequestType
    BY <1>1, Moved DEF Places
  <2>4. p.at = "handle" /\ p.wrote = {} /\ p.id = NoUser /\ p.recorded = "none" /\ p.op = q.op
    BY <1>1 DEF RequestType
  <2>5. p.entitled /\ ~p.noSession
    BY <1>1, <1>2, <2>2 DEF RequestType
  <2>. HIDE DEF p
  <2>6. RequestInv(p)
    BY <1>1, <2>3, <2>4, <2>5 DEF RequestInv
  <2>. QED
    BY <2>1, <2>4, <2>6
<1>4. CASE ~Authentic(q.claims)
  <2>. DEFINE p == [q EXCEPT !.claims = NoToken]
  <2>1. req'[r] = WriteError(p, "Unauthorized")
    BY <1>4 DEF Authenticate
  <2>2. p \in RequestType
    BY <1>1, Given, TokenType
  <2>3. p.wrote = {} /\ p.id = NoUser /\ p.op = q.op
    BY <1>1 DEF RequestType
  <2>4. "Unauthorized" \in AppError
    BY DEF AppError
  <2>. HIDE DEF p
  <2>5. RequestInv(req'[r])
    BY <1>1, <2>1, <2>2, <2>3, <2>4, ErrorAnswer
  <2>. QED
    BY <2>1, <2>2, <2>3, <2>4, <2>5, Written
<1>. QED
  BY <1>3, <1>4

\* The request Handle hands over to the use-case.
LEMMA Begins ==
    ASSUME NEW q \in RequestType, q.at = "handle", q.wrote = {}, q.recorded = "none",
           q.op \in Operation, q.entitled, ~q.noSession, Stored1(q)
    PROVE  RequestInv(Begin(q))
<1>1. q.op \notin Pages
  BY PageNames
<1>2. Owed(q) \subseteq Rest(Program[q.op])
  BY OwedProgram
<1>3. CASE Program[q.op] = << >>
  <2>1. Owed(q) = {}
    BY <1>2, <1>3 DEF Rest
  <2>2. Begin(q) = Reply(q, Success(q.op))
    BY <1>3 DEF Begin
  <2>. QED
    BY <1>1, <2>1, <2>2, ReplyAnswer, SuccessStatus
<1>4. CASE Program[q.op] # << >>
  <2>. DEFINE p == [q EXCEPT !.at = "run", !.todo = Program[q.op]]
  <2>1. Begin(q) = p
    BY <1>4 DEF Begin
  <2>2. Stage(q.op, Program[q.op])
    BY <1>4, ProgramStages
  <2>3. Program[q.op] \in Seq(Statement)
    BY <2>2, StageTails
  <2>4. p \in RequestType
    <3>1. [q EXCEPT !.at = "run"] \in RequestType
      BY Moved DEF Places
    <3>. QED
      BY <2>3, <3>1, Moved
  <2>5. p.at = "run" /\ p.op = q.op /\ p.todo = Program[q.op] /\ p.wrote = {}
        /\ p.recorded = "none" /\ p.new = q.new
    BY DEF RequestType
  <2>6. p.entitled /\ ~p.noSession
    BY DEF RequestType
  <2>. HIDE DEF p
  <2>7. Owed(p) = Owed(q)
    BY <2>5, <2>6 DEF Owed
  <2>8. RunInv(p)
    BY <1>2, <2>2, <2>5, <2>6, <2>7 DEF RunInv, Stored1
  <2>. QED
    BY <2>1, <2>4, <2>5, <2>6, <2>8 DEF RequestInv
<1>. QED
  BY <1>3, <1>4

LEMMA FirstStatements ==
    Head(Program["CreateUser"]) = "insertUser" /\ Head(Program["ChangeUserPassword"]) = "getUser"
BY DEF Program, Operation, SessionProgram, AccountProgram, PasswordProgram

LEMMA SubjectType ==
    ASSUME NEW q \in RequestType
    PROVE  /\ Subjects(q) \subseteq User \cup {NoUser}
           /\ q.op = "CreateUser" => Subjects(q) = {NoUser}
<1>1. q.claims.user \in User \cup {NoUser}
  BY DEF RequestType, ClaimsType
<1>. QED
  BY <1>1 DEF Subjects, ById

Handed(q, id, old, new, known) ==
    [q EXCEPT !.claims = NoToken, !.id = id, !.old = old, !.new = new, !.known = known]

LEMMA HandleStep ==
    ASSUME NEW r \in Request, req \in [Request -> RequestType], RequestInv(req[r]), Handle(r),
           users \in [User -> RowType]
    PROVE  /\ RequestInv(req'[r])
           /\ req'[r].at \in {"run", "answer"} /\ req'[r].wrote = {}
           /\ req'[r].op = "CreateUser" => req'[r].id = NoUser
           /\ req'[r].at = "run" /\ req'[r].op = "CreateUser"
                 => Head(req'[r].todo) = "insertUser"
           /\ req'[r].op = req[r].op
           /\ req'[r].at = "run" /\ req'[r].op = "ChangeUserPassword"
                 => /\ Head(req'[r].todo) = "getUser"
                    /\ req'[r].id \in User => users[req'[r].id].pw \in req'[r].known
<1>. DEFINE q == req[r]
            x == [q EXCEPT !.claims = NoToken]
<1>1. q.at = "handle" /\ q.op \in Operation /\ q.op \notin Pages /\ q.wrote = {}
      /\ q.id = NoUser /\ q.recorded = "none" /\ q \in RequestType
  BY PageNames DEF Handle, RequestInv
<1>2. ~q.noSession /\ q.entitled
  BY <1>1 DEF RequestInv
<1>3. x \in RequestType
  BY <1>1, Given, TokenType
<1>4. x.at = q.at /\ x.wrote = {} /\ x.id = NoUser /\ x.op = q.op /\ x.recorded = "none"
  BY <1>1 DEF RequestType
<1>5. (x.entitled <=> q.entitled) /\ (x.noSession <=> q.noSession)
  BY <1>1 DEF RequestType
<1>6. ASSUME NEW error \in Undecoded(q.op) \cup Invalid(q.op) \cup Unlistable(q.op),
             req'[r] = WriteError(x, error)
      PROVE  RequestInv(req'[r]) /\ req'[r].at = "answer" /\ req'[r].wrote = {}
             /\ req'[r].id = NoUser /\ req'[r].op = q.op
  <2>1. error \in AppError
    BY DEF Undecoded, Oversized, Invalid, Unlistable, AppError
  <2>. HIDE DEF x
  <2>2. RequestInv(req'[r])
    BY <1>1, <1>3, <1>4, <1>6, <2>1, ErrorAnswer
  <2>. QED
    BY <1>3, <1>4, <1>6, <2>1, <2>2, Written
<1>7. ASSUME NEW id \in Subjects(q), NEW old \in Presents(q.op), NEW new \in Stores(q.op),
             NEW known \in SUBSET Password, NEW p,
             p = Handed(q, id, old, new, known)
      PROVE  /\ RequestInv(Begin(p)) /\ Begin(p).at \in {"run", "answer"}
             /\ Begin(p).wrote = {} /\ Begin(p).id = id /\ Begin(p).op = q.op
             /\ Begin(p).known = known
             /\ Begin(p).at = "run" => Begin(p).todo = Program[q.op]
  <2>1. id \in User \cup {NoUser}
    BY <1>1, SubjectType
  <2>2. old \in SUBSET Password /\ new \in SUBSET (Password \cup Name)
    BY DEF Presents, Stores
  <2>4. p = [[[[x EXCEPT !.id = id] EXCEPT !.old = old] EXCEPT !.new = new]
               EXCEPT !.known = known]
    BY <1>7 DEF Handed
  <2>5. p \in RequestType
    <3>. HIDE DEF x
    <3>1. [x EXCEPT !.id = id] \in RequestType
      BY <1>3, <2>1, Given
    <3>2. [[x EXCEPT !.id = id] EXCEPT !.old = old] \in RequestType
      BY <2>2, <3>1, Given
    <3>3. [[[x EXCEPT !.id = id] EXCEPT !.old = old] EXCEPT !.new = new] \in RequestType
      BY <2>2, <3>2, Given
    <3>. QED
      BY <2>4, <3>3, Given
  <2>6. p.at = "handle" /\ p.wrote = {} /\ p.op = q.op /\ p.recorded = "none" /\ p.id = id
        /\ p.new = new /\ p.known = known
    BY <1>1, <1>7 DEF RequestType, Handed
  <2>7. p.entitled /\ ~p.noSession
    BY <1>1, <1>2, <1>7 DEF RequestType, Handed
  <2>8. Stored1(p)
    BY <2>6 DEF Stored1, Stores
  <2>9. RequestInv(Begin(p))
    BY <1>1, <2>5, <2>6, <2>7, <2>8, Begins
  <2>10. /\ Begin(p).at \in {"run", "answer"} /\ Begin(p).wrote = {}
         /\ Begin(p).id = id /\ Begin(p).op = q.op /\ Begin(p).known = known
         /\ Begin(p).at = "run" => Begin(p).todo = Program[q.op]
    <3>1. CASE Program[p.op] = << >>
      <4>1. Success(p.op) \in Nat
        BY SuccessStatus
      <4>. QED
        BY <2>5, <2>6, <3>1, <4>1, Replied DEF Begin
    <3>2. CASE Program[p.op] # << >>
      BY <2>5, <2>6, <3>2 DEF Begin, RequestType
    <3>. QED
      BY <3>1, <3>2
  <2>. QED
    BY <2>9, <2>10
<1>8. \/ \E error \in Undecoded(q.op) \cup Invalid(q.op) \cup Unlistable(q.op) :
            req'[r] = WriteError(x, error)
      \/ \E id \in Subjects(q), old \in Presents(q.op), new \in Stores(q.op) :
            req'[r] = Begin([q EXCEPT !.claims = NoToken, !.id = id, !.old = old, !.new = new,
                                      !.known = IF id \in User /\ q.op = "ChangeUserPassword"
                                                THEN {users[id].pw} ELSE {}])
  BY DEF Handle
<1>9. CASE \E error \in Undecoded(q.op) \cup Invalid(q.op) \cup Unlistable(q.op) :
              req'[r] = WriteError(x, error)
  BY <1>6, <1>9
<1>10. CASE \E id \in Subjects(q), old \in Presents(q.op), new \in Stores(q.op) :
              req'[r] = Begin([q EXCEPT !.claims = NoToken, !.id = id, !.old = old, !.new = new,
                                        !.known = IF id \in User /\ q.op = "ChangeUserPassword"
                                                  THEN {users[id].pw} ELSE {}])
  <2>1. PICK id \in Subjects(q), old \in Presents(q.op), new \in Stores(q.op) :
           req'[r] = Begin([q EXCEPT !.claims = NoToken, !.id = id, !.old = old, !.new = new,
                                     !.known = IF id \in User /\ q.op = "ChangeUserPassword"
                                               THEN {users[id].pw} ELSE {}])
    BY <1>10
  <2>. DEFINE known == IF id \in User /\ q.op = "ChangeUserPassword" THEN {users[id].pw} ELSE {}
              p == [q EXCEPT !.claims = NoToken, !.id = id, !.old = old, !.new = new,
                             !.known = known]
  <2>2. /\ RequestInv(Begin(p)) /\ Begin(p).at \in {"run", "answer"}
        /\ Begin(p).wrote = {} /\ Begin(p).id = id /\ Begin(p).op = q.op
        /\ Begin(p).known = known
        /\ Begin(p).at = "run" => Begin(p).todo = Program[q.op]
    <3>1. known \in SUBSET Password
      BY DEF RowType
    <3>2. p = Handed(q, id, old, new, known)
      BY DEF Handed
    <3>. HIDE DEF p, known, q
    <3>. QED
      BY <1>7, <3>1, <3>2
  <2>3. req'[r] = Begin(p)
    BY <2>1
  <2>. HIDE DEF p
  <2>4. q.op = "CreateUser" => id = NoUser
    BY <1>1, SubjectType
  <2>5. /\ q.op = "CreateUser" => Head(Program[q.op]) = "insertUser"
        /\ q.op = "ChangeUserPassword" => Head(Program[q.op]) = "getUser"
    BY FirstStatements
  <2>6. q.op = "ChangeUserPassword" /\ id \in User => users[id].pw \in known
    OBVIOUS
  <2>. HIDE DEF known
  <2>. QED
    BY <2>2, <2>3, <2>4, <2>5, <2>6
<1>. QED
  BY <1>8, <1>9, <1>10

LEMMA FailureSteps ==
    ASSUME NEW r \in Request, req \in [Request -> RequestType], RequestInv(req[r]),
           AuthenticateFail(r) \/ Panic(r) \/ Recover(r)
    PROVE  /\ RequestInv(req'[r])
           /\ req'[r].at \in {"panic", "answer"} /\ req'[r].wrote = req[r].wrote
           /\ req'[r].id = req[r].id /\ req'[r].op = req[r].op /\ req'[r].known = req[r].known
           /\ req'[r].old = req[r].old
<1>. DEFINE q == req[r]
<1>1. "Internal" \in AppError
  BY DEF AppError
<1>2. /\ q.op \in Operation /\ q.op \notin Pages /\ q.recorded = "none" /\ q \in RequestType
      /\ q.wrote # {} => q.entitled
  BY PageNames DEF AuthenticateFail, Panic, Recover, RequestInv, RunInv
<1>3. CASE AuthenticateFail(r)
  <2>. DEFINE p == [q EXCEPT !.claims = NoToken]
  <2>1. req'[r] = WriteError(p, "Internal")
    BY <1>3 DEF AuthenticateFail, Set
  <2>2. p \in RequestType
    BY <1>2, Given, TokenType
  <2>3. p.wrote = q.wrote /\ p.id = q.id /\ p.op = q.op /\ p.known = q.known /\ p.old = q.old
    BY <1>2 DEF RequestType
  <2>4. p.entitled <=> q.entitled
    BY <1>2 DEF RequestType
  <2>. HIDE DEF p
  <2>5. RequestInv(req'[r])
    BY <1>1, <1>2, <2>1, <2>2, <2>3, <2>4, ErrorAnswer
  <2>. QED
    BY <1>1, <2>1, <2>2, <2>3, <2>5, Written
<1>4. CASE Recover(r)
  <2>1. req'[r] = WriteError(q, "Internal")
    BY <1>4 DEF Recover
  <2>2. RequestInv(req'[r])
    BY <1>1, <1>2, <2>1, ErrorAnswer
  <2>. QED
    BY <1>1, <1>2, <2>1, <2>2, Written
<1>5. CASE Panic(r)
  <2>. DEFINE p == [q EXCEPT !.at = "panic", !.todo = << >>, !.claims = NoToken,
                             !.panicked = TRUE]
  <2>1. req'[r] = p
    BY <1>5 DEF Panic, Set
  <2>2. p \in RequestType
    <3>0. << >> \in Seq(Statement) /\ "panic" \in Places
      BY DEF Places
    <3>1. [q EXCEPT !.at = "panic"] \in RequestType
      BY <1>2, <3>0, Moved
    <3>2. [[q EXCEPT !.at = "panic"] EXCEPT !.todo = << >>] \in RequestType
      BY <3>0, <3>1, Moved
    <3>3. [[[q EXCEPT !.at = "panic"] EXCEPT !.todo = << >>] EXCEPT !.claims = NoToken]
          \in RequestType
      BY <3>2, Given, TokenType
    <3>. QED
      BY <3>3, Moved
  <2>3. p.at = "panic" /\ p.wrote = q.wrote /\ p.id = q.id /\ p.op = q.op /\ p.known = q.known
        /\ p.old = q.old /\ p.recorded = "none"
    BY <1>2 DEF RequestType
  <2>4. p.entitled <=> q.entitled
    BY <1>2 DEF RequestType
  <2>. HIDE DEF p
  <2>5. RequestInv(p)
    BY <1>2, <2>2, <2>3, <2>4 DEF RequestInv
  <2>. QED
    BY <2>1, <2>3, <2>5
<1>. QED
  BY <1>3, <1>4, <1>5

LEMMA RespondStep ==
    ASSUME NEW r \in Request, req \in [Request -> RequestType], RequestInv(req[r]), Respond(r)
    PROVE  /\ RequestInv(req'[r])
           /\ req'[r].at = "done" /\ req'[r].wrote = req[r].wrote /\ req'[r].id = req[r].id
           /\ req'[r].op = req[r].op /\ req'[r].known = req[r].known /\ req'[r].old = req[r].old
<1>. DEFINE q == req[r]
            line == LogLine(q)
            p == [q EXCEPT !.at = "done", !.log = {line}]
<1>1. q.at = "answer" /\ q \in RequestType /\ AnswerInv(q)
  BY DEF Respond, RequestInv
<1>2. LoggerReturns(q)
  <2>1. Default[2] = "Logger" /\ Default[3] = "Recover" /\ 2 \in DOMAIN Default /\ 3 \in DOMAIN Default
    BY DEF Default
  <2>. QED
    BY <2>1 DEF LoggerReturns, Outside
<1>3. req'[r] = p
  BY <1>2 DEF Respond
<1>4. line.status = q.status /\ line.error = q.recorded /\ line.status \in Nat
      /\ line \in [status : Nat, error : Logged]
  BY <1>1 DEF LogLine, RecorderStatus, AnswerInv, RequestType
<1>. HIDE DEF line
<1>5. p \in RequestType
  <2>1. [q EXCEPT !.at = "done"] \in RequestType
    BY <1>1, Moved DEF Places
  <2>2. {line} \in SUBSET [status : Nat, error : Logged]
    BY <1>4
  <2>. QED
    BY <2>1, <2>2, Told
<1>6. /\ p.at = "done" /\ p.wrote = q.wrote /\ p.id = q.id /\ p.op = q.op /\ p.known = q.known
      /\ p.old = q.old /\ p.recorded = q.recorded /\ p.status = q.status /\ p.log = {line}
  BY <1>1 DEF RequestType
<1>7. (p.entitled <=> q.entitled) /\ (p.noSession <=> q.noSession)
  BY <1>1 DEF RequestType
<1>. HIDE DEF p
<1>8. Owed(p) = Owed(q)
  BY <1>6, <1>7 DEF Owed
<1>9. AnswerInv(p)
  BY <1>1, <1>6, <1>7, <1>8 DEF AnswerInv
<1>10. LoggedInv(p)
  BY <1>4, <1>6 DEF LoggedInv
<1>11. p.wrote # {} => p.entitled
  BY <1>1, <1>6, <1>7 DEF RequestInv
<1>12. RequestInv(p)
  BY <1>5, <1>6, <1>9, <1>10, <1>11 DEF RequestInv
<1>. QED
  BY <1>3, <1>6, <1>12

LEMMA WalkerSteps ==
    ASSUME NEW r \in Request, req \in [Request -> RequestType], RequestInv(req[r]),
           walk \in WalkType, TakePage(r) \/ RetryPage(r)
    PROVE  /\ RequestInv(req'[r]) /\ walk' \in WalkType
           /\ req'[r] = Idle \/ \E page \in {<< >>} : req'[r] = [req[r] EXCEPT !.page = page]
           /\ req'[r].at \in {"idle", "done"}
<1>. DEFINE q == req[r]
            p == [q EXCEPT !.page = << >>]
<1>1. q.at = "done" /\ q \in RequestType
  BY DEF TakePage, RetryPage, RequestInv
<1>2. req'[r] = Idle \/ req'[r] = p
  BY DEF TakePage, RetryPage, Set
<1>3. Idle.at = "idle"
  BY DEF Idle
<1>4. p \in RequestType
  <2>1. << >> \in PageType
    BY ApiAssumption DEF PageType
  <2>. QED
    BY <1>1, <2>1, Told
<1>5. /\ p.at = "done" /\ p.wrote = q.wrote /\ p.id = q.id /\ p.op = q.op /\ p.recorded = q.recorded
      /\ p.status = q.status /\ p.log = q.log
  BY <1>1 DEF RequestType
<1>6. (p.entitled <=> q.entitled) /\ (p.noSession <=> q.noSession)
  BY <1>1 DEF RequestType
<1>7. Owed(p) = Owed(q)
  BY <1>5, <1>6 DEF Owed
<1>. HIDE DEF p
<1>8. AnswerInv(p) /\ LoggedInv(p)
  BY <1>1, <1>5, <1>6, <1>7 DEF AnswerInv, LoggedInv, RequestInv
<1>9. RequestInv(p)
  BY <1>1, <1>4, <1>5, <1>6, <1>8 DEF RequestInv
<1>10. walk' \in WalkType
  <2>1. CASE RetryPage(r)
    BY <2>1 DEF RetryPage
  <2>2. CASE TakePage(r)
    <3>1. walk' = [walk EXCEPT !.got = @ \o q.page, !.offset = walk.offset + PageSize,
                               !.at = IF walk.offset + PageSize >= q.total THEN "over" ELSE "on"]
      BY <2>2 DEF TakePage
    <3>2. walk.got \in Seq(User) /\ q.page \in Seq(User) /\ walk.offset \in Nat /\ PageSize \in Nat
      BY <1>1, ApiAssumption DEF WalkType, RequestType, PageType
    <3>3. walk.got \o q.page \in Seq(User) /\ walk.offset + PageSize \in Nat
      BY <3>2, ConcatProperties
    <3>. QED
      BY <3>1, <3>3 DEF WalkType
  <2>. QED
    BY <2>1, <2>2
<1>. QED
  BY <1>2, <1>3, <1>5, <1>9, <1>10, IdleType DEF p
-----------------------------------------------------------------------------
(* The table users.                                                        *)

\* A user who is gone stays so, and a version never falls.
RowStep(a, b) ==
    /\ a.st = "gone" => b.st = "gone"
    /\ a.st = "stored" => b.st = "gone" \/ (b.st = "stored" /\ a.ver <= b.ver)
UsersStep == users' \in [User -> RowType] /\ \A u \in User : RowStep(users[u], users'[u])

LEMMA StaysOutdated ==
    ASSUME users \in [User -> RowType], UsersStep, NEW t \in ClaimsType, Outdated(users, t)
    PROVE  Outdated(users', t)
<1>1. t.user \in User /\ t.ver \in Nat
  BY DEF Outdated, ClaimsType
<1>2. RowStep(users[t.user], users'[t.user]) /\ users[t.user].ver \in Nat
      /\ users'[t.user].ver \in Nat
  BY <1>1 DEF UsersStep, RowType
<1>. QED
  BY <1>1, <1>2 DEF Outdated, RowStep

LEMMA NoRowType == NoRow \in RowType /\ NoRow.ver = 0 /\ NoRow.pw = FirstPassword /\ NoRow.st = "free"
<1>1. FirstPassword \in Password
  BY ApiAssumption DEF FirstPassword
<1>. QED
  BY <1>1 DEF NoRow, Row, RowType

\* What a statement makes of the row it is about.
RowOf(q, b) ==
    LET a == users[q.id] IN
    /\ q.id \in User /\ b \in RowType /\ RowStep(a, b) /\ b.st \in {"stored", "gone"}
    /\ a.st = "stored" \/ (Head(q.todo) = "commit" /\ a.st = "pending")
    /\ b.ver = IF Head(q.todo) \in {"bumpVersion", "updatePassword"} THEN a.ver + 1 ELSE a.ver
    /\ \/ b.pw = a.pw \/ b.st = "gone"
       \/ Head(q.todo) = "updatePassword" /\ b.pw \in q.new

LEMMA AppliedRow ==
    ASSUME users \in [User -> RowType], NEW q, Working(q), Applies(q),
           Head(q.todo) = "commit" => q.id \in User /\ users[q.id].st = "pending"
    PROVE  \/ Applied(q) = users /\ Head(q.todo) \notin {"bumpVersion", "updatePassword", "commit"}
           \/ \E b \in RowType : RowOf(q, b) /\ Applied(q) = [users EXCEPT ![q.id] = b]
<1>. DEFINE a == users[q.id]
            id == q.id
<1>0. Head(q.todo) \in OnUser => id \in User /\ a \in RowType /\ a.st = "stored" /\ Stored(id)
  BY DEF Applies, Stored
<1>1. CASE Head(q.todo) = "bumpVersion"
  <2>. DEFINE b == [a EXCEPT !.ver = a.ver + 1]
  <2>1. id \in User /\ a \in RowType /\ a.st = "stored" /\ Stored(id)
    BY <1>0, <1>1 DEF OnUser
  <2>2. Applied(q) = [users EXCEPT ![id] = b]
    BY <1>1, <2>1 DEF Applied, NextVersion
  <2>3. b \in RowType /\ b.st = "stored" /\ b.ver = a.ver + 1 /\ b.pw = a.pw /\ a.ver \in Nat
    BY <2>1 DEF RowType
  <2>. HIDE DEF b
  <2>4. RowOf(q, b)
    BY <1>1, <2>1, <2>3 DEF RowOf, RowStep
  <2>. QED
    BY <2>2, <2>3, <2>4
<1>2. CASE Head(q.todo) = "updatePassword"
  <2>. DEFINE pw == CHOOSE pw \in q.new : TRUE
              b == [a EXCEPT !.ver = a.ver + 1, !.pw = pw]
  <2>1. id \in User /\ a \in RowType /\ a.st = "stored" /\ Stored(id)
    BY <1>0, <1>2 DEF OnUser
  <2>2. pw \in q.new /\ pw \in Password
    BY <1>2, StageOperations DEF Working, Stored1
  <2>3. Applied(q) = [users EXCEPT ![id].ver = a.ver + 1, ![id].pw = pw]
    BY <1>2, <2>1 DEF Applied, NextVersion
  <2>. HIDE DEF pw
  <2>4. Applied(q) = [users EXCEPT ![id] = b]
    BY <2>1, <2>3 DEF RowType
  <2>5. b \in RowType /\ b.st = "stored" /\ b.ver = a.ver + 1 /\ b.pw = pw /\ a.ver \in Nat
    <3>1. a.ver \in Nat /\ a.ver + 1 \in Nat
      BY <2>1 DEF RowType
    <3>2. [a EXCEPT !.ver = a.ver + 1] \in RowType
      BY <2>1, <3>1 DEF RowType
    <3>3. [[a EXCEPT !.ver = a.ver + 1] EXCEPT !.pw = pw] \in RowType
      BY <2>2, <3>2 DEF RowType
    <3>. QED
      BY <2>1, <3>1, <3>3 DEF RowType
  <2>. HIDE DEF b
  <2>6. RowOf(q, b)
    BY <1>2, <2>1, <2>2, <2>5 DEF RowOf, RowStep
  <2>. QED
    BY <2>4, <2>5, <2>6
<1>3. CASE Head(q.todo) = "updateUser"
  <2>. DEFINE n == CHOOSE n \in q.new : TRUE
              b == [a EXCEPT !.name = n]
  <2>1. id \in User /\ a \in RowType /\ a.st = "stored" /\ Stored(id)
    BY <1>0, <1>3 DEF OnUser
  <2>2. n \in Name
    BY <1>3, StageOperations DEF Working, Stored1
  <2>3. Applied(q) = [users EXCEPT ![id] = b]
    BY <1>3, <2>1 DEF Applied
  <2>. HIDE DEF n
  <2>4. b \in RowType /\ b.st = "stored" /\ b.ver = a.ver /\ b.pw = a.pw /\ a.ver \in Nat
    BY <2>1, <2>2 DEF RowType
  <2>. HIDE DEF b
  <2>5. RowOf(q, b)
    BY <1>3, <2>1, <2>4 DEF RowOf, RowStep
  <2>. QED
    BY <2>3, <2>4, <2>5
<1>4. CASE Head(q.todo) = "deleteUser"
  <2>. DEFINE b == [NoRow EXCEPT !.st = "gone", !.ver = a.ver]
  <2>1. id \in User /\ a \in RowType /\ a.st = "stored" /\ Stored(id)
    BY <1>0, <1>4 DEF OnUser
  <2>2. Applied(q) = [users EXCEPT ![id] = b]
    BY <1>4, <2>1 DEF Applied
  <2>3. b \in RowType /\ b.st = "gone" /\ b.ver = a.ver /\ a.ver \in Nat
    BY <2>1, NoRowType DEF RowType
  <2>. HIDE DEF b
  <2>4. RowOf(q, b)
    BY <1>4, <2>1, <2>3 DEF RowOf, RowStep
  <2>. QED
    BY <2>2, <2>3, <2>4
<1>5. CASE Head(q.todo) = "commit"
  <2>. DEFINE b == [a EXCEPT !.st = "stored"]
  <2>1. id \in User /\ a \in RowType /\ a.st = "pending"
    BY <1>5
  <2>2. Applied(q) = [users EXCEPT ![id] = b]
    BY <1>5, <2>1 DEF Applied
  <2>3. b \in RowType /\ b.st = "stored" /\ b.ver = a.ver /\ b.pw = a.pw /\ a.ver \in Nat
    BY <2>1 DEF RowType
  <2>. HIDE DEF b
  <2>4. RowOf(q, b)
    BY <1>5, <2>1, <2>3 DEF RowOf, RowStep
  <2>. QED
    BY <2>2, <2>3, <2>4
<1>6. CASE Head(q.todo) \notin {"bumpVersion", "updatePassword", "updateUser", "deleteUser", "commit"}
  BY <1>6 DEF Applied
<1>. QED
  BY <1>1, <1>2, <1>3, <1>4, <1>5, <1>6
-----------------------------------------------------------------------------
(* The invariant.                                                          *)

\* Statements that only change their own request.
Quiet(r) ==
    NoRows(r) \/ Lookup(r) \/ FindSession(r) \/ RotateNothing(r) \/ Conflict(r)
        \/ ListUsers(r) \/ CountUsers(r)

LEMMA QuietStep ==
    ASSUME NEW r \in Request, req \in [Request -> RequestType], RequestInv(req[r]),
           walk \in WalkType, Quiet(r)
    PROVE  /\ UNCHANGED <<users, active, walk, faults>> /\ req' = [req EXCEPT ![r] = req'[r]]
           /\ RequestInv(req'[r]) /\ req'[r].at \in {"run", "answer"}
           /\ req'[r].at = "run" => req[r].op # "CreateUser"
           /\ Keeps(req'[r], req[r])
<1>. DEFINE q == req[r]
<1>1. RequestInv(req'[r])
  BY NoRowsStep, LookupStep, FindSessionStep, ConflictStep, ListUsersStep DEF Quiet
<1>2. UNCHANGED <<users, active, walk, faults>> /\ req' = [req EXCEPT ![r] = req'[r]]
  BY DEF Quiet, NoRows, Lookup, FindSession, RotateNothing, Conflict, ListUsers, CountUsers, Set
<1>3. Working(q) /\ q \in RequestType /\ q.at = "run"
  BY Works DEF Quiet, NoRows, Lookup, FindSession, RotateNothing, Conflict, ListUsers, CountUsers,
     Runs, Working
<1>4. CASE NoRows(r)
  <2>1. q.op # "CreateUser"
    BY <1>3, <1>4, StageOperations DEF NoRows, Runs, OnUser, Working
  <2>2. CASE q.op # "Logout"
    <3>1. PICK cause : req'[r] = WriteError(q, Failure(q.op, Head(q.todo), cause))
      BY <1>4, <2>2 DEF NoRows, Set
    <3>. QED
      BY <1>1, <1>2, <1>3, <2>1, <3>1, Keeping, FailureKinds
  <2>3. CASE q.op = "Logout"
    <3>1. req'[r] = [Reply(q, Success(q.op)) EXCEPT !.noSession = TRUE]
      BY <1>4, <2>3 DEF NoRows, Set
    <3>. DEFINE x == Reply(q, Success(q.op))
    <3>2. Success(q.op) \in Nat
      BY SuccessStatus
    <3>3. x \in RequestType /\ x.at = "answer" /\ Keeps(x, q)
      BY <1>3, <3>2, Replied DEF Keeps
    <3>4. req'[r] = [x EXCEPT !.noSession = TRUE]
      BY <3>1
    <3>. HIDE DEF x
    <3>5. req'[r].at = "answer" /\ Keeps(req'[r], q)
      BY <3>3, <3>4 DEF Keeps, RequestType
    <3>. QED
      BY <1>1, <1>2, <3>5
  <2>. QED
    BY <2>2, <2>3
<1>5. CASE Lookup(r) \/ FindSession(r) \/ RotateNothing(r)
  <2>1. q.op # "CreateUser"
    BY <1>3, <1>5, StageOperations DEF Lookup, FindSession, RotateNothing, Runs, Working
  <2>2. PICK error \in AppError :
           req'[r] \in {Proceed(q), Reused(q), WriteError(q, error)}
    <3>1. Mismatch(q.op) \in AppError /\ "Unauthorized" \in AppError
      BY DEF Mismatch, AppError
    <3>. QED
      BY <1>5, <3>1 DEF Lookup, FindSession, RotateNothing, Set
  <2>. QED
    BY <1>1, <1>2, <1>3, <2>1, <2>2, Keeping
<1>6. CASE Conflict(r)
  <2>1. req'[r] = WriteError(q, Failure(q.op, "insertUser", "unique"))
    BY <1>6 DEF Conflict, Set
  <2>. QED
    BY <1>1, <1>2, <1>3, <2>1, Keeping, FailureKinds
<1>7. CASE ListUsers(r) \/ CountUsers(r)
  <2>1. q.op # "CreateUser"
    BY <1>3, <1>7, StageOperations DEF ListUsers, CountUsers, Runs, Working
  <2>. QED
    BY <1>1, <1>2, <1>7, <2>1, ListUsersStep
<1>. QED
  BY <1>4, <1>5, <1>6, <1>7 DEF Quiet

\* What a request keeps while others run, apart from what it learns.
Alike(p, q) ==
    /\ p.at = q.at /\ p.op = q.op /\ p.id = q.id /\ p.wrote = q.wrote /\ p.todo = q.todo
    /\ p.claims = q.claims /\ p.old = q.old /\ (p.entitled <=> q.entitled)

LEMMA LearnedAlike ==
    ASSUME NEW r \in Request, req \in [Request -> RequestType],
           \A x \in Request : RequestInv(req[x]), Working(req[r]), NEW y \in Request
    PROVE  RequestInv(Learned(req[r])[y]) /\ Alike(Learned(req[r])[y], req[y])
<1>1. CASE Learned(req[r])[y] = req[y]
  BY <1>1 DEF Alike
<1>2. CASE \E k \in SUBSET Password : Learned(req[r])[y] = [req[y] EXCEPT !.known = k]
  BY <1>2, Learning DEF Alike
<1>. QED
  BY <1>1, <1>2, OthersLearn

LEMMA ExecuteKeeps ==
    ASSUME NEW r \in Request, req \in [Request -> RequestType],
           \A x \in Request : RequestInv(req[x]), Execute(r)
    PROVE  /\ Working(req[r]) /\ Applies(req[r]) /\ users' = Applied(req[r])
           /\ Head(req[r].todo) \in Writing \cup {"ping"}
           /\ RequestInv(req'[r]) /\ req'[r].at \in {"run", "answer"}
           /\ req'[r].at = "run" => Head(req'[r].todo) # "insertUser" /\ Head(req[r].todo) \notin Late
           /\ req'[r].op = req[r].op /\ req'[r].id = req[r].id /\ req'[r].old = req[r].old
           /\ req'[r].known = req[r].known
           /\ req'[r].wrote = req[r].wrote \cup ({Head(req[r].todo)} \cap Writing)
<1>. DEFINE q == req[r]
            p == Took(q)
<1>1. Working(q) /\ Head(q.todo) \in Writing \cup {"ping"}
  BY Works DEF Execute, Runs
<1>2. /\ p \in RequestType /\ p.at = "run" /\ p.op = q.op /\ p.todo = q.todo
      /\ p.id = q.id /\ p.known = q.known /\ p.old = q.old
      /\ p.wrote = q.wrote \cup ({Head(q.todo)} \cap Writing)
  BY <1>1, TookType
<1>3. DOMAIN Learned(q) = Request
  BY DEF Learned
<1>4. req'[r] = WriteError(p, "Unauthorized") \/ req'[r] = Proceed(p)
  BY <1>3 DEF Execute
<1>5. "Unauthorized" \in AppError /\ Stage(p.op, p.todo)
  BY <1>1, <1>2 DEF AppError, Working
<1>. HIDE DEF p
<1>6. Keeps(req'[r], p) /\ req'[r].at \in {"run", "answer"}
  BY <1>2, <1>4, <1>5, Keeping
<1>7. req'[r].at = "run" => Head(req'[r].todo) # "insertUser" /\ Head(q.todo) \notin Late
  BY <1>2, <1>4, <1>5, Keeping, Proceeds
<1>8. RequestInv(req'[r])
  BY ExecuteStep
<1>9. Applies(q) /\ users' = Applied(q)
  BY DEF Execute, TakesEffect
<1>. QED
  BY <1>1, <1>2, <1>6, <1>7, <1>8, <1>9 DEF Keeps

LEMMA FailKeeps ==
    ASSUME NEW r \in Request, req \in [Request -> RequestType],
           \A x \in Request : RequestInv(req[x]), Fail(r)
    PROVE  /\ Working(req[r]) /\ RequestInv(req'[r]) /\ req'[r].at = "answer"
           /\ req'[r].op = req[r].op /\ req'[r].id = req[r].id /\ req'[r].old = req[r].old
           /\ req'[r].known = req[r].known
           /\ \/ /\ users' = Aborted(req[r]) /\ req'[r].wrote = req[r].wrote
                 /\ \A y \in Request \ {r} : req'[y] = req[y]
              \/ /\ Head(req[r].todo) \in Writing /\ Applies(req[r])
                 /\ \/ Head(req[r].todo) = "recordEvent" /\ users' = Aborted(req[r])
                    \/ Head(req[r].todo) # "recordEvent" /\ users' = Applied(req[r])
                 /\ req'[r].wrote = req[r].wrote \cup {Head(req[r].todo)}
                 /\ \A y \in Request \ {r} : req'[y] = Learned(req[r])[y]
<1>. DEFINE q == req[r]
            p == Took(q)
            error == Failure(q.op, Head(q.todo), "driver")
<1>1. Working(q) /\ q \in RequestType
  BY Works DEF Fail, Working
<1>2. error \in AppError
  BY FailureKinds
<1>3. /\ p \in RequestType /\ p.op = q.op
      /\ p.id = q.id /\ p.known = q.known /\ p.old = q.old
      /\ p.wrote = q.wrote \cup ({Head(q.todo)} \cap Writing)
  BY <1>1, TookType
<1>4. RequestInv(req'[r])
  BY FailStep
<1>5. DOMAIN Learned(q) = Request
  BY DEF Learned
<1>6. \/ /\ users' = Aborted(q) /\ req'[r] = WriteError(q, error)
         /\ \A y \in Request \ {r} : req'[y] = req[y]
      \/ /\ Head(q.todo) \in Writing /\ Applies(q) /\ req'[r] = WriteError(p, error)
         /\ users' = IF Head(q.todo) = "recordEvent" THEN Aborted(q) ELSE Applied(q)
         /\ \A y \in Request \ {r} : req'[y] = Learned(q)[y]
  BY <1>5 DEF Fail, Set
<1>. HIDE DEF p, error
<1>7. /\ Keeps(WriteError(q, error), q) /\ WriteError(q, error).at = "answer"
      /\ Keeps(WriteError(p, error), p) /\ WriteError(p, error).at = "answer"
  BY <1>1, <1>2, <1>3, Keeping
<1>8. CASE /\ users' = Aborted(q) /\ req'[r] = WriteError(q, error)
           /\ \A y \in Request \ {r} : req'[y] = req[y]
  BY <1>1, <1>4, <1>7, <1>8 DEF Keeps
<1>9. CASE /\ Head(q.todo) \in Writing /\ Applies(q) /\ req'[r] = WriteError(p, error)
           /\ users' = IF Head(q.todo) = "recordEvent" THEN Aborted(q) ELSE Applied(q)
           /\ \A y \in Request \ {r} : req'[y] = Learned(q)[y]
  BY <1>1, <1>3, <1>4, <1>7, <1>9 DEF Keeps
<1>. QED
  BY <1>6, <1>8, <1>9

\* A step keeps the invariant when it keeps the part about its own request,
\* leaves the others alike and does not bring a user back.
LEMMA Frame ==
    ASSUME Inv, NEW r \in Request, UsersStep, active' = active, faults' \in 0..MaxFaults,
           walk' \in WalkType, DOMAIN req' = Request, req' = [x \in Request |-> req'[x]],
           RequestInv(req'[r]),
           \A y \in Request \ {r} : RequestInv(req'[y]) /\ Alike(req'[y], req[y]),
           (req'[r].at = "authenticate" /\ ~req'[r].entitled) => Outdated(users', req'[r].claims),
           OpenInv'
    PROVE  Inv'
<1>1. \A y \in Request : RequestInv(req'[y])
  OBVIOUS
<1>2. req' \in [Request -> RequestType]
  <2>1. \A y \in Request : req'[y] \in RequestType
    BY <1>1 DEF RequestInv
  <2>. QED
    BY <2>1
<1>3. TokenInv'
  <2>. SUFFICES ASSUME NEW y \in Request, req'[y].at = "authenticate", ~req'[y].entitled
                PROVE  Outdated(users', req'[y].claims)
    BY DEF TokenInv
  <2>1. CASE y = r
    BY <2>1
  <2>2. CASE y # r
    <3>1. Alike(req'[y], req[y]) /\ req[y] \in RequestType /\ users \in [User -> RowType]
      BY <2>2 DEF Inv
    <3>2. req[y].at = "authenticate" /\ ~req[y].entitled /\ req'[y].claims = req[y].claims
      BY <3>1 DEF Alike
    <3>3. Outdated(users, req[y].claims) /\ req[y].claims \in ClaimsType
      BY <3>1, <3>2 DEF Inv, TokenInv, RequestType
    <3>4. Outdated(users', req[y].claims)
      BY <3>1, <3>3, StaysOutdated
    <3>. QED
      BY <3>2, <3>4
  <2>. QED
    BY <2>1, <2>2
<1>. QED
  BY <1>1, <1>2, <1>3 DEF Inv, UsersStep

LEMMA SameUsers ==
    ASSUME users \in [User -> RowType], users' = users
    PROVE  UsersStep
<1>1. \A u \in User : users[u].ver \in Nat
  BY DEF RowType
<1>. QED
  BY <1>1 DEF UsersStep, RowStep

\* Steps that leave the table and all other requests alone.
LEMMA OwnStep ==
    ASSUME Inv, NEW r \in Request, UNCHANGED <<users, active>>, faults' \in 0..MaxFaults,
           walk' \in WalkType, req' = [req EXCEPT ![r] = req'[r]], RequestInv(req'[r]),
           (req'[r].at = "authenticate" /\ ~req'[r].entitled) => Outdated(users', req'[r].claims),
           (req'[r].at = "run" /\ req'[r].op = "CreateUser") =>
              Head(req'[r].todo) = "insertUser" /\ req'[r].id = NoUser
    PROVE  Inv'
<1>0. req \in [Request -> RequestType] /\ users \in [User -> RowType] /\ OpenInv
      /\ \A x \in Request : RequestInv(req[x])
  BY DEF Inv
<1>1. DOMAIN req' = Request /\ \A y \in Request \ {r} : req'[y] = req[y]
  BY <1>0
<1>2. req' = [x \in Request |-> req'[x]]
  BY <1>0
<1>3. \A y \in Request \ {r} : RequestInv(req'[y]) /\ Alike(req'[y], req[y])
  BY <1>0, <1>1 DEF Alike
<1>4. NoUser \notin User
  BY DEF NoUser, User
<1>5. OpenInv'
  BY <1>0, <1>1, <1>4 DEF OpenInv, Creating
<1>6. UsersStep
  BY <1>0, SameUsers
<1>. QED
  BY <1>1, <1>2, <1>3, <1>5, <1>6, Frame

LEMMA QuietInv ==
    ASSUME Inv, NEW r \in Request, Quiet(r)
    PROVE  Inv'
<1>1. req \in [Request -> RequestType] /\ walk \in WalkType /\ faults \in 0..MaxFaults
      /\ RequestInv(req[r])
  BY DEF Inv
<1>2. /\ UNCHANGED <<users, active, walk, faults>> /\ req' = [req EXCEPT ![r] = req'[r]]
      /\ RequestInv(req'[r]) /\ req'[r].at \in {"run", "answer"}
      /\ req'[r].at = "run" => req[r].op # "CreateUser"
      /\ Keeps(req'[r], req[r])
  BY <1>1, QuietStep
<1>. QED
  BY <1>1, <1>2, OwnStep DEF Keeps

LEMMA WalkOnType ==
    ASSUME walk \in WalkType, WalkOn
    PROVE  walk' \in WalkType
<1>1. ASSUME NEW by \in {"id", "name"}, NEW dir \in {"asc", "desc"}, NEW search \in Search,
             walk' = [NoWalk EXCEPT !.at = "on", !.by = by, !.dir = dir, !.search = search,
                                    !.start = Matching(search)]
      PROVE  walk' \in WalkType
  <2>1. search \in Nat /\ Matching(search) \in SUBSET User
    BY ApiAssumption DEF Matching
  <2>2. NoWalk \in WalkType
    BY DEF NoWalk, WalkType
  <2>. QED
    BY <1>1, <2>1, <2>2 DEF WalkType
<1>. QED
  BY <1>1 DEF WalkOn

LEMMA ArriveInv ==
    ASSUME Inv, NEW r \in Request, Arrive(r)
    PROVE  Inv'
<1>1. req \in [Request -> RequestType] /\ walk \in WalkType /\ faults \in 0..MaxFaults
      /\ RequestInv(req[r]) /\ users \in [User -> RowType]
  BY DEF Inv
<1>2. /\ RequestInv(req'[r])
      /\ req'[r].at = "authenticate" =>
            /\ req'[r].claims \in Tokens
            /\ Current(req'[r].claims) => req'[r].entitled
      /\ req'[r].at # "run"
  BY <1>1, ArriveStep
<1>3. UNCHANGED <<users, active, faults>> /\ req' = [req EXCEPT ![r] = req'[r]]
  BY <1>1 DEF Arrive
<1>4. walk' \in WalkType
  BY <1>1, WalkOnType DEF Arrive
<1>5. ASSUME req'[r].at = "authenticate", ~req'[r].entitled
      PROVE  Outdated(users', req'[r].claims)
  <2>. DEFINE t == req'[r].claims
  <2>1. t \in Tokens /\ ~Current(t) /\ t \in ClaimsType /\ t.user \in User
    BY <1>2, <1>5, TokenType
  <2>2. users[t.user].st \in {"stored", "gone"} /\ t.ver <= users[t.user].ver
    BY <2>1 DEF Tokens
  <2>3. t.ver \in Nat /\ users[t.user].ver \in Nat
    BY <1>1, <2>1 DEF ClaimsType, RowType
  <2>4. users[t.user].st = "stored" => users[t.user].ver # t.ver
    BY <2>1 DEF Current, Stored
  <2>. QED
    BY <1>3, <2>1, <2>2, <2>3, <2>4 DEF Outdated
<1>. QED
  BY <1>1, <1>2, <1>3, <1>4, <1>5, OwnStep

LEMMA EntryInv ==
    ASSUME Inv, NEW r \in Request,
           Authenticate(r) \/ Handle(r) \/ Respond(r) \/ TakePage(r) \/ RetryPage(r)
    PROVE  Inv'
<1>1. req \in [Request -> RequestType] /\ walk \in WalkType /\ faults \in 0..MaxFaults
      /\ RequestInv(req[r]) /\ users \in [User -> RowType]
      /\ (req[r].at = "authenticate" /\ ~req[r].entitled => Outdated(users, req[r].claims))
  BY DEF Inv, TokenInv
<1>2. CASE Authenticate(r)
  <2>1. RequestInv(req'[r]) /\ req'[r].at \in {"handle", "answer"}
    BY <1>1, <1>2, AuthenticateStep DEF Authenticate
  <2>2. UNCHANGED <<users, active, walk, faults>> /\ req' = [req EXCEPT ![r] = req'[r]]
    BY <1>1, <1>2 DEF Authenticate
  <2>. QED
    BY <1>1, <2>1, <2>2, OwnStep
<1>3. CASE Handle(r)
  <2>1. /\ RequestInv(req'[r]) /\ req'[r].at \in {"run", "answer"} /\ req'[r].wrote = {}
        /\ req'[r].op = "CreateUser" => req'[r].id = NoUser
        /\ req'[r].at = "run" /\ req'[r].op = "CreateUser" => Head(req'[r].todo) = "insertUser"
    <3>1. req \in [Request -> RequestType] /\ RequestInv(req[r]) /\ users \in [User -> RowType]
      BY <1>1
    <3>. QED
      BY <1>3, <3>1, HandleStep
  <2>2. UNCHANGED <<users, active, walk, faults>> /\ req' = [req EXCEPT ![r] = req'[r]]
    BY <1>1, <1>3 DEF Handle
  <2>. QED
    BY <1>1, <2>1, <2>2, OwnStep
<1>4. CASE Respond(r)
  <2>1. RequestInv(req'[r]) /\ req'[r].at = "done"
    BY <1>1, <1>4, RespondStep
  <2>2. UNCHANGED <<users, active, walk, faults>> /\ req' = [req EXCEPT ![r] = req'[r]]
    BY <1>1, <1>4 DEF Respond
  <2>. QED
    BY <1>1, <2>1, <2>2, OwnStep
<1>5. CASE TakePage(r) \/ RetryPage(r)
  <2>1. RequestInv(req'[r]) /\ req'[r].at \in {"idle", "done"} /\ walk' \in WalkType
    BY <1>1, <1>5, WalkerSteps
  <2>2. UNCHANGED <<users, active, faults>> /\ req' = [req EXCEPT ![r] = req'[r]]
    BY <1>1, <1>5 DEF TakePage, RetryPage, Set
  <2>. QED
    BY <1>1, <2>1, <2>2, OwnStep
<1>. QED
  BY <1>2, <1>3, <1>4, <1>5

\* Steps that change the row of their own request, if any.
Rewrites(r) ==
    \/ users' = users
    \/ \E b \in RowType :
          /\ req[r].id \in User /\ users' = [users EXCEPT ![req[r].id] = b]
          /\ RowStep(users[req[r].id], b) /\ b.st \notin {"free", "pending"}
          /\ users[req[r].id].st = "pending" => Creating(r)

LEMMA RewritesStep ==
    ASSUME Inv, NEW r \in Request, Rewrites(r)
    PROVE  UsersStep
<1>0. users \in [User -> RowType]
  BY DEF Inv
<1>1. CASE users' = users
  BY <1>0, <1>1, SameUsers
<1>2. CASE users' # users
  <2>1. PICK b \in RowType :
           /\ req[r].id \in User /\ users' = [users EXCEPT ![req[r].id] = b]
           /\ RowStep(users[req[r].id], b)
    BY <1>2 DEF Rewrites
  <2>2. \A u \in User : users[u].ver \in Nat
    BY <1>0 DEF RowType
  <2>3. ASSUME NEW u \in User
        PROVE  RowStep(users[u], users'[u])
    <3>1. CASE u = req[r].id
      BY <1>0, <2>1, <3>1
    <3>2. CASE u # req[r].id
      <4>1. users'[u] = users[u]
        BY <1>0, <2>1, <3>2
      <4>. QED
        BY <2>2, <4>1 DEF RowStep
    <3>. QED
      BY <3>1, <3>2
  <2>4. users' \in [User -> RowType]
    BY <1>0, <2>1
  <2>. QED
    BY <2>3, <2>4 DEF UsersStep
<1>. QED
  BY <1>1, <1>2

LEMMA RowWrite ==
    ASSUME Inv, NEW r \in Request, Rewrites(r), active' = active, faults' \in 0..MaxFaults,
           walk' \in WalkType, DOMAIN req' = Request, req' = [x \in Request |-> req'[x]],
           RequestInv(req'[r]),
           \A y \in Request \ {r} : RequestInv(req'[y]) /\ Alike(req'[y], req[y]),
           req'[r].at # "authenticate", req'[r].op = req[r].op, req'[r].id = req[r].id,
           (req'[r].at = "run" /\ req'[r].op = "CreateUser") =>
              /\ Creating(r) /\ Head(req'[r].todo) # "insertUser"
              /\ req[r].id \in User /\ users'[req[r].id].st = "pending"
    PROVE  Inv'
<1>1. users \in [User -> RowType] /\ OpenInv
  BY DEF Inv
<1>2. UsersStep
  BY RewritesStep
<1>3. ASSUME NEW y \in Request \ {r}
      PROVE  (Creating(y)' <=> Creating(y)) /\ req'[y].id = req[y].id
             /\ req'[y].todo = req[y].todo
  BY DEF Creating, Alike
<1>4. Creating(r)' => Creating(r) /\ Head(req'[r].todo) # "insertUser" /\ req[r].id \in User
                      /\ users'[req[r].id].st = "pending" /\ req'[r].id = req[r].id
  BY DEF Creating
<1>5. ASSUME NEW y \in Request \ {r}, Creating(y), req[y].id \in User,
             users[req[y].id].st = "pending"
      PROVE  users'[req[y].id].st = "pending"
  <2>1. CASE users' = users
    BY <1>5, <2>1
  <2>2. CASE users' # users
    <3>1. PICK b \in RowType :
             /\ req[r].id \in User /\ users' = [users EXCEPT ![req[r].id] = b]
             /\ users[req[r].id].st = "pending" => Creating(r)
      BY <2>2 DEF Rewrites
    <3>2. req[y].id # req[r].id
      BY <1>1, <1>5, <3>1 DEF OpenInv
    <3>. QED
      BY <1>1, <1>5, <3>1, <3>2
  <2>. QED
    BY <2>1, <2>2
<1>6. ASSUME NEW y \in Request, Creating(y)'
      PROVE  IF Head(req'[y].todo) = "insertUser" THEN req'[y].id = NoUser
             ELSE req'[y].id \in User /\ users'[req'[y].id].st = "pending"
  <2>1. CASE y = r
    BY <1>4, <1>6, <2>1
  <2>2. CASE y # r
    <3>1. Creating(y) /\ req'[y].id = req[y].id /\ req'[y].todo = req[y].todo
      BY <1>3, <1>6, <2>2
    <3>2. IF Head(req[y].todo) = "insertUser" THEN req[y].id = NoUser
          ELSE req[y].id \in User /\ users[req[y].id].st = "pending"
      BY <1>1, <3>1 DEF OpenInv
    <3>. QED
      BY <1>5, <2>2, <3>1, <3>2
  <2>. QED
    BY <2>1, <2>2
<1>7. ASSUME NEW x \in Request, NEW y \in Request, Creating(x)', Creating(y)',
             req'[x].id \in User, req'[x].id = req'[y].id
      PROVE  x = y
  <2>1. Creating(x) /\ Creating(y) /\ req[x].id = req'[x].id /\ req[y].id = req'[y].id
    BY <1>3, <1>4, <1>7
  <2>. QED
    BY <1>1, <1>7, <2>1 DEF OpenInv
<1>8. ASSUME NEW u \in User, users'[u].st \in {"free", "pending"}
      PROVE  users'[u].ver = 0 /\ users'[u].pw = FirstPassword
  <2>1. users'[u] = users[u]
    BY <1>1, <1>8 DEF Rewrites
  <2>. QED
    BY <1>1, <1>8, <2>1 DEF OpenInv
<1>9. OpenInv'
  BY <1>6, <1>7, <1>8 DEF OpenInv
<1>. QED
  BY <1>2, <1>9, Frame

\* What the table owes a statement and a registration that is under way.
LEMMA Pending ==
    ASSUME Inv, NEW r \in Request, req[r].at = "run"
    PROVE  /\ Working(req[r])
           /\ Head(req[r].todo) = "commit" =>
                 req[r].id \in User /\ users[req[r].id].st = "pending" /\ Creating(r)
           /\ (req[r].op = "CreateUser" /\ req[r].id \in User) =>
                 users[req[r].id].st = "pending" /\ Creating(r)
           /\ (req[r].op = "CreateUser" /\ Head(req[r].todo) # "insertUser") => req[r].id \in User
<1>1. Working(req[r])
  BY Works DEF Inv
<1>2. Head(req[r].todo) = "commit" => req[r].op = "CreateUser"
  BY <1>1, StageOperations DEF Working
<1>3. NoUser \notin User
  BY DEF NoUser, User
<1>. QED
  BY <1>1, <1>2, <1>3 DEF Inv, OpenInv, Creating

LEMMA AppliedRewrites ==
    ASSUME Inv, NEW r \in Request, req[r].at = "run", Applies(req[r]), users' = Applied(req[r])
    PROVE  Rewrites(r)
<1>1. /\ Working(req[r])
      /\ Head(req[r].todo) = "commit" =>
            req[r].id \in User /\ users[req[r].id].st = "pending" /\ Creating(r)
  BY Pending
<1>2. users \in [User -> RowType]
  BY DEF Inv
<1>3. \/ Applied(req[r]) = users
      \/ \E b \in RowType : RowOf(req[r], b) /\ Applied(req[r]) = [users EXCEPT ![req[r].id] = b]
  BY <1>1, <1>2, AppliedRow
<1>. QED
  BY <1>1, <1>3 DEF Rewrites, RowOf

LEMMA AbortedRewrites ==
    ASSUME Inv, NEW r \in Request, req[r].at \in {"authenticate", "handle", "run"},
           users' = Aborted(req[r])
    PROVE  Rewrites(r)
<1>1. users \in [User -> RowType] /\ RequestInv(req[r])
  BY DEF Inv
<1>2. (req[r].op = "CreateUser" /\ req[r].id \in User) =>
         users[req[r].id].st = "pending" /\ Creating(r)
  <2>1. NoUser \notin User
    BY DEF NoUser, User
  <2>. QED
    BY <1>1, <2>1, Pending DEF RequestInv
<1>3. CASE Aborted(req[r]) = users
  BY <1>3 DEF Rewrites
<1>4. CASE Aborted(req[r]) # users
  <2>. DEFINE b == [NoRow EXCEPT !.st = "void"]
  <2>1. /\ req[r].op = "CreateUser" /\ req[r].id \in User
        /\ Aborted(req[r]) = [users EXCEPT ![req[r].id] = b]
    BY <1>4 DEF Aborted
  <2>2. b \in RowType /\ b.st = "void"
    BY NoRowType DEF RowType
  <2>3. users[req[r].id].st = "pending" /\ Creating(r)
    BY <1>2, <2>1
  <2>. HIDE DEF b
  <2>4. RowStep(users[req[r].id], b) /\ b.st \notin {"free", "pending"}
    BY <2>2, <2>3 DEF RowStep
  <2>. QED
    BY <2>1, <2>2, <2>3, <2>4 DEF Rewrites
<1>. QED
  BY <1>3, <1>4

LEMMA NoticedType ==
    ASSUME walk \in WalkType, NEW q
    PROVE  Noticed(q) \in WalkType
BY DEF Noticed, WalkType

LEMMA ExecuteInv ==
    ASSUME Inv, NEW r \in Request, Execute(r)
    PROVE  Inv'
<1>. DEFINE q == req[r]
<1>1. /\ req \in [Request -> RequestType] /\ \A x \in Request : RequestInv(req[x])
      /\ walk \in WalkType /\ faults \in 0..MaxFaults
  BY DEF Inv
<1>2. /\ Working(q) /\ Applies(q) /\ users' = Applied(q)
      /\ RequestInv(req'[r]) /\ req'[r].at \in {"run", "answer"}
      /\ req'[r].at = "run" => Head(req'[r].todo) # "insertUser" /\ Head(q.todo) \notin Late
      /\ req'[r].op = q.op /\ req'[r].id = q.id
      /\ Head(q.todo) \in Writing \cup {"ping"}
  BY <1>1, ExecuteKeeps
<1>3. q.at = "run"
  BY <1>2 DEF Working
<1>4. Rewrites(r)
  BY <1>2, <1>3, AppliedRewrites
<1>5. /\ DOMAIN req' = Request /\ req' = [x \in Request |-> req'[x]]
      /\ \A y \in Request \ {r} : req'[y] = Learned(q)[y]
      /\ active' = active /\ faults' = faults /\ walk' = Noticed(q)
  BY DEF Execute, Learned, TakesEffect
<1>6. \A y \in Request \ {r} : RequestInv(req'[y]) /\ Alike(req'[y], req[y])
  BY <1>1, <1>2, <1>5, LearnedAlike
<1>7. ASSUME req'[r].at = "run", req'[r].op = "CreateUser"
      PROVE  Creating(r) /\ q.id \in User /\ users'[q.id].st = "pending"
  <2>1. Head(q.todo) = "recordEvent"
    BY <1>2, <1>7, StageOperations DEF Late, Working, Writing
  <2>2. Creating(r) /\ q.id \in User /\ users[q.id].st = "pending"
    BY <1>2, <1>3, <1>7, <2>1, Pending
  <2>3. Applied(q) = users
    BY <2>1 DEF Applied
  <2>. QED
    BY <1>2, <2>2, <2>3
<1>8. walk' \in WalkType
  BY <1>1, <1>5, NoticedType
<1>. QED
  BY <1>1, <1>2, <1>4, <1>5, <1>6, <1>7, <1>8, RowWrite

LEMMA FailInv ==
    ASSUME Inv, NEW r \in Request, Fail(r)
    PROVE  Inv'
<1>. DEFINE q == req[r]
<1>1. /\ req \in [Request -> RequestType] /\ \A x \in Request : RequestInv(req[x])
      /\ walk \in WalkType /\ faults \in 0..MaxFaults /\ q.at = "run"
  BY DEF Inv, Fail
<1>2. /\ Working(q) /\ RequestInv(req'[r]) /\ req'[r].at = "answer"
      /\ req'[r].op = q.op /\ req'[r].id = q.id
      /\ \/ users' = Aborted(q) \/ (users' = Applied(q) /\ Applies(q))
      /\ \/ \A y \in Request \ {r} : req'[y] = req[y]
         \/ \A y \in Request \ {r} : req'[y] = Learned(q)[y]
  BY <1>1, FailKeeps
<1>3. Rewrites(r)
  BY <1>1, <1>2, AppliedRewrites, AbortedRewrites
<1>4. /\ DOMAIN req' = Request /\ req' = [x \in Request |-> req'[x]]
      /\ active' = active
  BY <1>1 DEF Fail, Learned, Set
<1>5. faults' \in 0..MaxFaults
  BY <1>1, ApiAssumption DEF Fail, Fault
<1>6. walk' \in WalkType
  BY <1>1, NoticedType DEF Fail
<1>7. \A y \in Request \ {r} : RequestInv(req'[y]) /\ Alike(req'[y], req[y])
  <2>1. \A y \in Request : Alike(req[y], req[y])
    BY DEF Alike
  <2>. QED
    BY <1>1, <1>2, <2>1, LearnedAlike
<1>. QED
  BY <1>1, <1>2, <1>3, <1>4, <1>5, <1>6, <1>7, RowWrite

LEMMA PanicInv ==
    ASSUME Inv, NEW r \in Request, AuthenticateFail(r) \/ Panic(r) \/ Recover(r)
    PROVE  Inv'
<1>1. /\ req \in [Request -> RequestType] /\ \A x \in Request : RequestInv(req[x])
      /\ walk \in WalkType /\ faults \in 0..MaxFaults /\ users \in [User -> RowType]
  BY DEF Inv
<1>2. /\ RequestInv(req'[r]) /\ req'[r].at \in {"panic", "answer"}
      /\ req'[r].id = req[r].id /\ req'[r].op = req[r].op
  BY <1>1, FailureSteps
<1>3. /\ req' = [req EXCEPT ![r] = req'[r]] /\ active' = active /\ walk' = walk
      /\ DOMAIN req' = Request /\ req' = [x \in Request |-> req'[x]]
      /\ \A y \in Request \ {r} : req'[y] = req[y]
  BY <1>1 DEF AuthenticateFail, Panic, Recover, Set
<1>4. faults' \in 0..MaxFaults
  BY <1>1, ApiAssumption DEF AuthenticateFail, Panic, Recover, Fault
<1>5. Rewrites(r)
  <2>1. CASE Panic(r)
    BY <2>1, AbortedRewrites DEF Panic
  <2>2. CASE ~Panic(r)
    BY <2>2 DEF Rewrites, AuthenticateFail, Recover
  <2>. QED
    BY <2>1, <2>2
<1>6. \A y \in Request \ {r} : RequestInv(req'[y]) /\ Alike(req'[y], req[y])
  BY <1>1, <1>3 DEF Alike
<1>. QED
  BY <1>1, <1>2, <1>3, <1>4, <1>5, <1>6, RowWrite

LEMMA InsertInv ==
    ASSUME Inv, NEW r \in Request, InsertUser(r)
    PROVE  Inv'
<1>. DEFINE id == req'[r].id
<1>1. /\ req \in [Request -> RequestType] /\ \A x \in Request : RequestInv(req[x])
      /\ walk \in WalkType /\ faults \in 0..MaxFaults /\ users \in [User -> RowType] /\ OpenInv
  BY DEF Inv
<1>2. /\ RequestInv(req'[r]) /\ req'[r].at \in {"run", "answer"}
      /\ req'[r].op = "CreateUser" /\ id \in User /\ users[id].st = "free"
      /\ \E n \in Name : users' = [users EXCEPT ![id] = Row("pending", n, FirstPassword, 0)]
      /\ req'[r].at = "run" => Head(req'[r].todo) # "insertUser"
  BY <1>1, InsertUserStep
<1>3. PICK n \in Name : users' = [users EXCEPT ![id] = Row("pending", n, FirstPassword, 0)]
  BY <1>2
<1>4. /\ req' = [req EXCEPT ![r] = req'[r]] /\ active' = active /\ walk' = walk
      /\ faults' = faults
      /\ DOMAIN req' = Request /\ req' = [x \in Request |-> req'[x]]
      /\ \A y \in Request \ {r} : req'[y] = req[y]
  BY <1>1 DEF InsertUser, Set
<1>5. Row("pending", n, FirstPassword, 0) \in RowType
  BY NoRowType DEF Row, RowType
<1>6. /\ users'[id] = Row("pending", n, FirstPassword, 0)
      /\ \A u \in User \ {id} : users'[u] = users[u]
      /\ users' \in [User -> RowType]
  BY <1>1, <1>2, <1>3, <1>5
<1>7. UsersStep
  <2>1. \A u \in User : users[u].ver \in Nat
    BY <1>1 DEF RowType
  <2>. QED
    BY <1>2, <1>6, <2>1 DEF UsersStep, RowStep
<1>8. /\ users'[id].st = "pending" /\ users'[id].ver = 0 /\ users'[id].pw = FirstPassword
  BY <1>6 DEF Row
<1>9. \A y \in Request \ {r} : Creating(y)' <=> Creating(y)
  BY <1>4 DEF Creating
<1>10. ASSUME NEW y \in Request \ {r}, Creating(y)
       PROVE  req[y].id # id
  BY <1>1, <1>2, <1>10 DEF OpenInv, NoUser, User
<1>11. OpenInv'
  <2>1. NoUser \notin User
    BY DEF NoUser, User
  <2>2. ASSUME NEW y \in Request, Creating(y)'
        PROVE  IF Head(req'[y].todo) = "insertUser" THEN req'[y].id = NoUser
               ELSE req'[y].id \in User /\ users'[req'[y].id].st = "pending"
    <3>1. CASE y = r
      BY <1>2, <1>8, <2>2, <3>1 DEF Creating
    <3>2. CASE y # r
      <4>1. Creating(y) /\ req'[y] = req[y] /\ req[y].id # id
        BY <1>4, <1>9, <1>10, <2>2, <3>2
      <4>2. IF Head(req[y].todo) = "insertUser" THEN req[y].id = NoUser
            ELSE req[y].id \in User /\ users[req[y].id].st = "pending"
        BY <1>1, <4>1 DEF OpenInv
      <4>. QED
        BY <1>6, <4>1, <4>2
    <3>. QED
      BY <3>1, <3>2
  <2>3. ASSUME NEW x \in Request, NEW y \in Request, Creating(x)', Creating(y)',
               req'[x].id \in User, req'[x].id = req'[y].id
        PROVE  x = y
    <3>1. CASE x # r /\ y # r
      <4>1. Creating(x) /\ Creating(y) /\ req'[x] = req[x] /\ req'[y] = req[y]
        BY <1>4, <1>9, <2>3, <3>1
      <4>. QED
        BY <1>1, <2>3, <4>1 DEF OpenInv
    <3>2. CASE x = r /\ y # r
      <4>1. Creating(y) /\ req'[y] = req[y] /\ req[y].id # id
        BY <1>4, <1>9, <1>10, <2>3, <3>2
      <4>. QED
        BY <2>3, <3>2, <4>1
    <3>3. CASE x # r /\ y = r
      <4>1. Creating(x) /\ req'[x] = req[x] /\ req[x].id # id
        BY <1>4, <1>9, <1>10, <2>3, <3>3
      <4>. QED
        BY <2>3, <3>3, <4>1
    <3>. QED
      BY <3>1, <3>2, <3>3
  <2>4. ASSUME NEW u \in User, users'[u].st \in {"free", "pending"}
        PROVE  users'[u].ver = 0 /\ users'[u].pw = FirstPassword
    <3>1. CASE u = id
      BY <1>8, <3>1
    <3>2. CASE u # id
      BY <1>1, <1>6, <2>4, <3>2 DEF OpenInv
    <3>. QED
      BY <3>1, <3>2
  <2>. QED
    BY <2>2, <2>3, <2>4 DEF OpenInv
<1>12. \A y \in Request \ {r} : RequestInv(req'[y]) /\ Alike(req'[y], req[y])
  BY <1>1, <1>4 DEF Alike
<1>. QED
  BY <1>1, <1>2, <1>4, <1>7, <1>11, <1>12, Frame

LEMMA InitInv == Init => Inv
<1>. SUFFICES ASSUME Init PROVE Inv
  OBVIOUS
<1>1. PICK name \in [1..Existing -> Name] :
         users = [u \in User |->
                    IF u <= Existing THEN Row("stored", name[u], FirstPassword, 0) ELSE NoRow]
  BY DEF Init
<1>2. Existing \in Nat /\ MaxUser \in Nat /\ MaxFaults \in Nat
  BY ApiAssumption
<1>3. ASSUME NEW u \in User
      PROVE  users[u] \in RowType /\ users[u].ver = 0 /\ users[u].pw = FirstPassword
  <2>1. CASE u <= Existing
    <3>1. name[u] \in Name
      BY <1>2, <2>1 DEF User
    <3>2. users[u] = Row("stored", name[u], FirstPassword, 0)
      BY <1>1, <2>1
    <3>3. FirstPassword \in Password
      BY ApiAssumption DEF FirstPassword
    <3>. QED
      BY <3>1, <3>2, <3>3 DEF Row, RowType
  <2>2. CASE ~(u <= Existing)
    <3>1. users[u] = NoRow
      BY <1>1, <2>2
    <3>. QED
      BY <3>1, NoRowType
  <2>. QED
    BY <2>1, <2>2
<1>4. users \in [User -> RowType]
  BY <1>1, <1>3
<1>5. walk \in WalkType
  BY DEF Init, NoWalk, WalkType
<1>6. active \in Clients /\ faults \in 0..MaxFaults
  BY <1>2 DEF Init
<1>7. \A r \in Request : req[r] = Idle
  BY DEF Init
<1>8. req \in [Request -> RequestType] /\ \A r \in Request : RequestInv(req[r])
  BY IdleType DEF Init
<1>9. Idle.at = "idle"
  BY DEF Idle
<1>10. TokenInv
  BY <1>7, <1>9 DEF TokenInv
<1>11. OpenInv
  BY <1>3, <1>7, <1>9 DEF OpenInv, Creating
<1>. QED
  BY <1>4, <1>5, <1>6, <1>8, <1>10, <1>11 DEF Inv

LEMMA StutterInv ==
    ASSUME Inv, UNCHANGED vars
    PROVE  Inv'
<1>1. UNCHANGED <<users, active, req, walk, faults>>
  BY DEF vars
<1>. QED
  BY <1>1 DEF Inv, TokenInv, OpenInv, Creating

LEMMA StepInv == Inv /\ [Next]_vars => Inv'
<1>. SUFFICES ASSUME Inv, [Next]_vars PROVE Inv'
  OBVIOUS
<1>1. CASE UNCHANGED vars \/ Quiesce
  BY <1>1, StutterInv DEF Quiesce
<1>2. ASSUME NEW r \in Request, Arrive(r)
      PROVE  Inv'
  BY <1>2, ArriveInv
<1>3. ASSUME NEW r \in Request,
             Authenticate(r) \/ Handle(r) \/ Respond(r) \/ TakePage(r) \/ RetryPage(r)
      PROVE  Inv'
  BY <1>3, EntryInv
<1>4. ASSUME NEW r \in Request, Step(r)
      PROVE  Inv'
  <2>1. CASE Execute(r)
    BY <2>1, ExecuteInv
  <2>2. CASE InsertUser(r)
    BY <2>2, InsertInv
  <2>3. CASE Quiet(r)
    BY <2>3, QuietInv
  <2>. QED
    BY <1>4, <2>1, <2>2, <2>3 DEF Step, Quiet
<1>5. ASSUME NEW r \in Request, Fail(r)
      PROVE  Inv'
  BY <1>5, FailInv
<1>6. ASSUME NEW r \in Request, AuthenticateFail(r) \/ Panic(r) \/ Recover(r)
      PROVE  Inv'
  BY <1>6, PanicInv
<1>. QED
  BY <1>1, <1>2, <1>3, <1>4, <1>5, <1>6 DEF Next

\* Whatever the numbers of connections, users, names and passwords and
\* wherever statements fail and handlers panic, every request is at a place of
\* its use-case, with the statements left that belong there, what it wrote is
\* what the statements behind it write, a registration under way owns its row,
\* and a token that was out of date when it came in still is.
THEOREM Invariant == Spec => []Inv
<1>. QED
  BY InitInv, StepInv, PTL DEF Spec

\* The rows, the requests, the pages and the walk keep their types.
THEOREM Typed == Spec => []TypeOK
<1>1. ASSUME Inv PROVE TypeOK
  <2>1. ASSUME NEW r \in Request
        PROVE  /\ req[r].at \in Places /\ req[r].id \in User \cup {NoUser}
               /\ req[r].wrote \subseteq Writing /\ Len(req[r].page) <= PageSize
    <3>1. req[r] \in RequestType
      BY <1>1 DEF Inv
    <3>2. req[r].page \in PageType
      BY <3>1 DEF RequestType
    <3>. QED
      BY <3>1, <3>2 DEF RequestType, PageType
  <2>2. walk.at \in {"none", "on", "over"}
    BY <1>1 DEF Inv, WalkType
  <2>. QED
    BY <1>1, <2>1, <2>2 DEF Inv, TypeOK, RowType, Places
<1>. QED
  BY <1>1, Invariant, PTL

\* Nothing is done and nothing is told on an operation the document protects
\* unless the caller's token was in force when the request came in: accessModes,
\* authenticate and the order of the generated wrapper leave no way around it.
THEOREM Authority == Spec => []NeedsAuthority
<1>1. ASSUME Inv PROVE NeedsAuthority
  <2>. SUFFICES ASSUME NEW r \in Request,
                       req[r].wrote # {} \/ (Answered(r) /\ Good(req[r].status))
                PROVE  req[r].entitled
    BY DEF NeedsAuthority
  <2>1. RequestInv(req[r])
    BY <1>1 DEF Inv
  <2>2. CASE req[r].wrote # {}
    BY <2>1, <2>2 DEF RequestInv
  <2>3. CASE Answered(r) /\ Good(req[r].status)
    BY <2>1, <2>3 DEF RequestInv, AnswerInv, Answered
  <2>. QED
    BY <2>2, <2>3
<1>. QED
  BY <1>1, Invariant, PTL

\* A success means that everything the operation writes is written, and a
\* refusal that nothing is, but for the session a reused token ends, whichever
\* statement of whichever use-case was refused.
THEOREM StatusAndEffect == Spec => []StatusTellsEffect
<1>1. ASSUME Inv PROVE StatusTellsEffect
  <2>. SUFFICES ASSUME NEW r \in Request, Answered(r)
                PROVE  /\ Good(req[r].status) => Owed(req[r]) \subseteq req[r].wrote
                       /\ Refused(req[r].status) => req[r].wrote \subseteq {"revokeReused"}
    BY DEF StatusTellsEffect
  <2>1. AnswerInv(req[r])
    BY <1>1 DEF Inv, RequestInv, Answered
  <2>. QED
    BY <2>1 DEF AnswerInv
<1>. QED
  BY <1>1, Invariant, PTL

\* Every request leaves one log line, with the status that was sent and, for
\* an error, the error: a panic is recovered inside the Logger.
THEOREM LogAndAnswer == Spec => []LogTellsTruth
<1>1. ASSUME Inv PROVE LogTellsTruth
  <2>. SUFFICES ASSUME NEW r \in Request, req[r].at = "done"
                PROVE  \E line \in req[r].log :
                          /\ line.status = req[r].status
                          /\ line.error = "none" <=> Good(req[r].status)
    BY DEF LogTellsTruth
  <2>1. AnswerInv(req[r]) /\ LoggedInv(req[r])
    BY <1>1 DEF Inv, RequestInv
  <2>. QED
    BY <2>1 DEF AnswerInv, LoggedInv
<1>. QED
  BY <1>1, Invariant, PTL
=============================================================================
