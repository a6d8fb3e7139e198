---------------------------- MODULE HttpContract ----------------------------
(***************************************************************************)
(* What the two ends of the HTTP interface agree on, as tables: the        *)
(* requests the generated client builds, the routes the generated server   *)
(* registers, which of them bind parameters before anything else runs,     *)
(* what the OpenAPI document asks of a caller, the statements each         *)
(* operation's use-case runs, the status each failure becomes, and the     *)
(* statuses for which the generated client has a body.                     *)
(***************************************************************************)
EXTENDS Naturals, Sequences, FiniteSets
-----------------------------------------------------------------------------
(* The client: NewXRequest.                                                *)

\* A request of the generated client: its method, path and whether it has a
\* JSON body.  "/:id" stands for a path with the parameter filled in.
Call(op, method, path, body) ==
    [op |-> op, method |-> method, path |-> path, body |-> body]

SystemCalls ==
    {Call("GetHealthz", "GET", "/healthz", FALSE),
     Call("GetReadyz", "GET", "/readyz", FALSE)}
SessionCalls ==
    {Call("Login", "POST", "/v1/auth/login", TRUE),
     Call("Logout", "POST", "/v1/auth/logout", TRUE),
     Call("LogoutAll", "POST", "/v1/auth/logout-all", FALSE),
     Call("RefreshToken", "POST", "/v1/auth/refresh", TRUE)}
ReadCalls ==
    {Call("GetMe", "GET", "/v1/me", FALSE),
     Call("ListUsers", "GET", "/v1/users", FALSE)}
UserCalls ==
    {Call("CreateUser", "POST", "/v1/users", TRUE),
     Call("DeleteUser", "DELETE", "/v1/users/:id", FALSE),
     Call("GetUser", "GET", "/v1/users/:id", FALSE)}
ChangeCalls ==
    {Call("UpdateUser", "PATCH", "/v1/users/:id", TRUE),
     Call("ChangeUserPassword", "PUT", "/v1/users/:id/password", TRUE)}

ApiCalls == SystemCalls \cup SessionCalls \cup ReadCalls \cup UserCalls \cup ChangeCalls
\* The operations the server implements.
Operation ==
    {"GetHealthz", "GetReadyz", "Login", "Logout", "LogoutAll", "RefreshToken", "GetMe",
     "ListUsers", "CreateUser", "DeleteUser", "GetUser", "UpdateUser", "ChangeUserPassword"}

\* Requests no operation answers: the two pages the router adds, and a path
\* or method nobody registered.
PageCalls ==
    {Call("openapi", "GET", "/openapi.json", FALSE), Call("docs", "GET", "/docs", FALSE)}
Pages == {c.op : c \in PageCalls}
StrayCalls == {Call("stray", "POST", "/v1/me", FALSE)}
Calls == ApiCalls \cup PageCalls \cup StrayCalls
-----------------------------------------------------------------------------
(* The server: HandlerWithOptions, NewRouter and the parameter bindings.   *)

Route(method, path, op) == [method |-> method, path |-> path, op |-> op]

ApiRoutes ==
    {Route("GET", "/healthz", "GetHealthz"),
     Route("GET", "/readyz", "GetReadyz"),
     Route("POST", "/v1/auth/login", "Login"),
     Route("POST", "/v1/auth/logout", "Logout"),
     Route("POST", "/v1/auth/logout-all", "LogoutAll"),
     Route("POST", "/v1/auth/refresh", "RefreshToken"),
     Route("GET", "/v1/me", "GetMe"),
     Route("GET", "/v1/users", "ListUsers"),
     Route("POST", "/v1/users", "CreateUser"),
     Route("DELETE", "/v1/users/:id", "DeleteUser"),
     Route("GET", "/v1/users/:id", "GetUser"),
     Route("PATCH", "/v1/users/:id", "UpdateUser"),
     Route("PUT", "/v1/users/:id/password", "ChangeUserPassword")}
PageRoutes == {Route("GET", "/openapi.json", "openapi"), Route("GET", "/docs", "docs")}

\* The operation a request reaches; the pattern "/" takes whatever is left.
Reached(call) ==
    {r.op : r \in {r \in ApiRoutes \cup PageRoutes :
                       r.method = call.method /\ r.path = call.path}}

\* Operations whose wrapper binds path or query parameters; it does so before
\* it runs the middlewares.
ById == {"DeleteUser", "GetUser", "UpdateUser", "ChangeUserPassword"}
ByQuery == {"ListUsers"}
-----------------------------------------------------------------------------
(* Security: the embedded OpenAPI document and accessModes.                *)

\* An operation of the document, under the method and path that list it.
Item(method, path, id) == [method |-> method, path |-> path, id |-> id]

\* Those that declare `security: []`, and those that declare the two schemes;
\* none goes without a declaration of its own.
PublicItems ==
    {Item("GET", "/healthz", "GetHealthz"),
     Item("GET", "/readyz", "GetReadyz"),
     Item("POST", "/v1/auth/login", "Login"),
     Item("POST", "/v1/auth/logout", "Logout"),
     Item("POST", "/v1/auth/refresh", "RefreshToken"),
     Item("POST", "/v1/users", "CreateUser")}
LoginItems ==
    {Item("POST", "/v1/auth/logout-all", "LogoutAll"),
     Item("GET", "/v1/me", "GetMe"),
     Item("GET", "/v1/users", "ListUsers"),
     Item("DELETE", "/v1/users/:id", "DeleteUser"),
     Item("GET", "/v1/users/:id", "GetUser"),
     Item("PATCH", "/v1/users/:id", "UpdateUser"),
     Item("PUT", "/v1/users/:id/password", "ChangeUserPassword")}
Document == PublicItems \cup LoginItems

\* The scheme alternatives an item, or the operation of that id, declares.
LoginSchemes == {{"bearerAuth"}, {"cookieAuth"}}
Requirements(item) == IF item \in LoginItems THEN LoginSchemes ELSE {}
Security(op) == UNION {Requirements(i) : i \in {i \in Document : i.id = op}}

\* Only `security: []` opens an operation; an empty alternative makes the
\* login optional.
Mode(requirements) ==
    IF requirements = {} THEN "anonymous"
    ELSE IF {} \in requirements THEN "optional" ELSE "required"

PathOnly(x) == <<x.path>>                                              \* mutant
\* method + " " + path, of an item and of a route's pattern.
Pattern(x) == <<x.method, x.path>>
AccessModes ==
    [p \in {Pattern(i) : i \in Document} |->
        Mode(Requirements(CHOOSE i \in Document : Pattern(i) = p))]

\* modes[r.Pattern]: a pattern the map does not have gets the zero value.
Access(op) ==
    LET pattern == Pattern(CHOOSE r \in ApiRoutes : r.op = op) IN
    IF pattern \in DOMAIN AccessModes THEN AccessModes[pattern] ELSE "required"
-----------------------------------------------------------------------------
(* The use-cases: the statements they run, in order.                       *)

RevokeFirst == <<"getUser", "revokeUserSessions", "updatePassword">>   \* mutant
PasswordProgram == <<"getUser", "updatePassword", "revokeUserSessions">>
CountFirst == <<"countUsers", "listUsers">>                            \* mutant
ListProgram == <<"listUsers", "countUsers">>

SessionProgram ==
    [Login |-> <<"getUserByEmail", "createSession">>,
     RefreshToken |-> <<"findSession", "getUser", "rotate">>,
     Logout |-> <<"findSession", "revokeSession">>,
     LogoutAll |-> <<"bumpVersion", "revokeUserSessions">>]
AccountProgram ==
    [CreateUser |-> <<"insertUser", "recordEvent", "commit">>,
     GetMe |-> <<"getUser">>,
     GetUser |-> <<"getUser">>,
     ListUsers |-> ListProgram,
     UpdateUser |-> <<"updateUser">>,
     ChangeUserPassword |-> PasswordProgram,
     DeleteUser |-> <<"deleteUser">>]
HealthProgram == [GetHealthz |-> << >>, GetReadyz |-> <<"ping">>]
Program ==
    [op \in Operation |->
        IF op \in DOMAIN SessionProgram THEN SessionProgram[op]
        ELSE IF op \in DOMAIN AccountProgram THEN AccountProgram[op]
        ELSE HealthProgram[op]]

\* Statements that change the database, each committed by itself.  The row of
\* insertUser waits for the transaction's commit.
Writing ==
    {"createSession", "rotate", "revokeSession", "bumpVersion", "revokeUserSessions",
     "recordEvent", "commit", "deleteUser", "updateUser", "updatePassword",
     "revokeReused"}
Statement ==
    Writing \cup {"getUser", "getUserByEmail", "findSession", "listUsers", "countUsers",
                  "insertUser", "ping"}

\* Operations whose use-case checks what it is given before it begins.
Validated == {"CreateUser", "UpdateUser", "ChangeUserPassword"}
-----------------------------------------------------------------------------
(* Failures: apperr, db.HandleError and the services' mapping.             *)

\* The kinds of AppError and their status.
AppError ==
    {"NotFound", "Conflict", "Validation", "BadRequest", "Unauthorized", "Unavailable",
     "Internal", "TooLarge"}
Code(error) ==
    CASE error = "NotFound" -> 404
      [] error = "Conflict" -> 409
      [] error = "Validation" -> 422
      [] error = "BadRequest" -> 400
      [] error = "Unauthorized" -> 401
      [] error = "Unavailable" -> 503
      [] error = "TooLarge" -> 413
      [] OTHER -> 500

\* The sentinel of a driver error.
Sentinel(cause) ==
    CASE cause = "noRows" -> "ErrNotFound"
      [] cause = "unique" -> "ErrConflict"
      [] OTHER -> "other"

NoErrorsIs(sentinel) == "NotFound"                                     \* mutant
\* userError: a repo error for a single user.
UserError(sentinel) == IF sentinel = "ErrNotFound" THEN "NotFound" ELSE "Internal"

\* What a service makes of a failed statement.
SessionError(stmt, sentinel) ==
    IF sentinel = "ErrNotFound" /\ stmt \in {"getUserByEmail", "findSession", "getUser"}
    THEN "Unauthorized" ELSE "Internal"
RegisterError(sentinel) == IF sentinel = "ErrConflict" THEN "Conflict" ELSE "Internal"
Failure(op, stmt, cause) ==
    LET sentinel == Sentinel(cause) IN
    CASE op \in {"Login", "RefreshToken", "Logout"} -> SessionError(stmt, sentinel)
      [] op = "CreateUser" -> RegisterError(sentinel)
      [] op = "GetReadyz" -> "Unavailable"
      [] op = "ListUsers" \/ stmt = "revokeUserSessions" -> "Internal"
      [] OTHER -> UserError(sentinel)

\* The status of an operation that went well.
Success(op) ==
    CASE op = "CreateUser" -> 201
      [] op \in {"Logout", "LogoutAll", "DeleteUser", "ChangeUserPassword"} -> 204
      [] OTHER -> 200
-----------------------------------------------------------------------------
(* The client again: ParseXResponse.                                       *)

\* The statuses for which the generated client has a typed body or, with
\* 204, expects none.
SystemAnswers == {<<"GetHealthz", 200>>} \cup ({"GetReadyz"} \X {200, 503})
LoginAnswers ==
    ({"Login"} \X {200, 400, 401, 500}) \cup ({"Logout"} \X {204, 400, 500})
SessionAnswers ==
    ({"LogoutAll"} \X {204, 401, 500}) \cup ({"RefreshToken"} \X {200, 400, 401, 500})
ReadAnswers ==
    ({"GetMe"} \X {200, 401, 500}) \cup ({"ListUsers"} \X {200, 400, 401, 422, 500})
CreateAnswers ==
    ({"CreateUser"} \X {201, 400, 409, 422, 500})
        \cup ({"DeleteUser"} \X {204, 400, 401, 404, 500})
UserAnswers ==
    ({"GetUser"} \X {200, 400, 401, 404, 500})
        \cup ({"UpdateUser"} \X {200, 400, 401, 404, 422, 500})
PasswordAnswers == {"ChangeUserPassword"} \X {204, 400, 401, 404, 422, 500}
Documented ==
    SystemAnswers \cup LoginAnswers \cup SessionAnswers \cup ReadAnswers
        \cup CreateAnswers \cup UserAnswers \cup PasswordAnswers
=============================================================================
