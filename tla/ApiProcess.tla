----------------------------- MODULE ApiProcess -----------------------------
(***************************************************************************)
(* One process of apps/api/cmd/api in server mode, from the first attempt  *)
(* to reach the database to the end of the process: NewPoolWithRetries,    *)
(* NewCore, httpx.Server.Run with its shutdown, core.Close, and the        *)
(* requests in between with the connections they hold.  A registration     *)
(* (services.Register) takes a second connection inside its transaction;   *)
(* every other endpoint runs its statements one by one, each on a          *)
(* connection of its own; GET /readyz pings with a timeout.                *)
(*                                                                         *)
(* A request context ends when the client leaves, not when the process is  *)
(* told to stop.  Closing a pgxpool refuses whoever asks for a connection, *)
(* wakes nobody who waits for one while none comes back, and returns when  *)
(* all have come back.                                                     *)
(***************************************************************************)
EXTENDS Naturals

CONSTANTS
    Request,        \* the requests of a behaviour
    Registration,   \* those that are POST /v1/users
    Conn,           \* the connections of the pool, DB_MAX_CONNS of them
    Statements,     \* bound on the statements of a request
    Retries,        \* connectRetries
    MaxFaults       \* bound on failures of the running server
CONSTANT None       \* no connection

ASSUME ApiAssumption ==
    /\ Registration \subseteq Request
    /\ Conn # {} /\ None \notin Conn
    /\ Statements \in Nat \ {0} /\ Retries \in Nat \ {0} /\ MaxFaults \in Nat

VARIABLES
    proc,       \* what the main goroutine does
    attempt,    \* the loop variable of NewPoolWithRetries
    pools,      \* how many pools are open
    stopping,   \* SIGTERM or SIGINT has come
    accepting,  \* requests can still come in
    exit,       \* the error of run: "none" while unknown, "ok" for nil, "failed"
    req,        \* the requests
    idle,       \* the connections nobody holds
    faults      \* how often something failed

boot == <<attempt, pools>>
vars == <<proc, attempt, pools, stopping, accepting, exit, req, idle, faults>>

\* A request: where it is, what it is, the statements it may still run, its
\* transaction's connection, its statement's, and whether its client left.
NewRequest(at, kind, todo) ==
    [at |-> at, kind |-> kind, todo |-> todo, tx |-> None, q |-> None,
     gone |-> FALSE]
\* The database part is over; the response is still to be written.
Answering == NewRequest("answer", "plain", 0)

Init ==
    /\ proc = "connect" /\ attempt = 1 /\ pools = 0
    /\ stopping = FALSE /\ accepting = FALSE /\ exit = "none"
    /\ req = [r \in Request |-> NewRequest("none", "plain", 0)]
    /\ idle = Conn
    /\ faults = 0

Fault == faults < MaxFaults /\ faults' = faults + 1
-----------------------------------------------------------------------------
(* NewPoolWithRetries and NewPool.                                         *)

Requests == <<req, idle, faults>>
To(p) == proc' = p
Fails == exit' = "failed"

\* pgxpool.NewWithConfig.
OpenPool ==
    /\ proc = "connect"
    /\ To("ping") /\ pools' = pools + 1
    /\ UNCHANGED <<attempt, stopping, accepting, exit, Requests>>

\* pgxpool.NewWithConfig cannot connect: there is no pool to close.
OpenFail ==
    /\ proc = "connect"
    /\ To("backoff")
    /\ UNCHANGED <<boot, stopping, accepting, exit, Requests>>

\* Config errors end the loop at once; an unreachable database does not.
ConfigError ==
    /\ proc = "connect" /\ attempt = 1
    /\ To("exited") /\ Fails
    /\ UNCHANGED <<boot, stopping, accepting, Requests>>

\* Also when the context ends during the ping.
PingOk ==
    /\ proc = "ping"
    /\ To("build")
    /\ UNCHANGED <<boot, stopping, accepting, exit, Requests>>

PoolKept == pools                                                      \* mutant
\* A pool whose first ping fails is closed.
PoolDropped == pools - 1

PingFail ==
    /\ proc = "ping"
    /\ To("backoff") /\ pools' = PoolDropped
    /\ UNCHANGED <<attempt, stopping, accepting, exit, Requests>>

OneAttemptMore == attempt <= Retries                                   \* mutant
AttemptsLeft == attempt < Retries

\* The timer of the backoff, which also runs after the last attempt.
Backoff ==
    /\ proc = "backoff"
    /\ \/ AttemptsLeft /\ attempt' = attempt + 1 /\ To("connect") /\ UNCHANGED exit
       \/ ~AttemptsLeft /\ To("exited") /\ Fails /\ UNCHANGED attempt
    /\ UNCHANGED <<pools, stopping, accepting, Requests>>

BackoffAborted ==
    /\ proc = "backoff" /\ stopping
    /\ To("exited") /\ Fails
    /\ UNCHANGED <<boot, stopping, accepting, Requests>>
-----------------------------------------------------------------------------
(* The rest of NewCore, then Server.Run and core.Close.                    *)

\* A part of NewCore, the router or the listener fails: the pool is closed.
StartFail ==
    /\ proc = "build"
    /\ To("closing") /\ Fails
    /\ UNCHANGED <<boot, stopping, accepting, Requests>>

Serve ==
    /\ proc = "build"
    /\ To("serving") /\ accepting' = TRUE
    /\ UNCHANGED <<boot, stopping, exit, Requests>>

\* Serve returns an error by itself.  Run returns without Shutdown, and
\* connections that were accepted before go on carrying requests.
ServeFail ==
    /\ proc = "serving"
    /\ Fault
    /\ To("closing") /\ Fails
    /\ UNCHANGED <<boot, stopping, accepting, req, idle>>

\* The context is cancelled: Shutdown closes the listener and waits.  A
\* connection that has been accepted and has not sent its first request yet
\* may still do so.
StartShutdown ==
    /\ proc = "serving" /\ stopping
    /\ To("draining")
    /\ UNCHANGED <<boot, stopping, accepting, exit, Requests>>

InFlight(r) == req[r].at \notin {"none", "done"}

\* Shutdown returns nil once no request is in flight and it has closed every
\* connection ...
Drained ==
    /\ proc = "draining" /\ \A r \in Request : ~InFlight(r)
    /\ To("closing") /\ exit' = "ok" /\ accepting' = FALSE
    /\ UNCHANGED <<boot, stopping, Requests>>

TimeoutForgotten == "ok"                                               \* mutant
TimeoutReported == "failed"

\* ... or an error when ShutdownTimeout has passed.
ShutdownTimeout ==
    /\ proc = "draining"
    /\ To("closing") /\ exit' = TimeoutReported
    /\ UNCHANGED <<boot, stopping, accepting, Requests>>

\* core.Close: pgxpool waits until every connection has come back.
Closed ==
    /\ proc = "closing" /\ idle = Conn
    /\ To("exited") /\ pools' = pools - 1 /\ accepting' = FALSE
    /\ UNCHANGED <<attempt, stopping, exit, Requests>>

Stop ==
    /\ ~stopping /\ proc # "exited"
    /\ stopping' = TRUE
    /\ UNCHANGED <<proc, boot, accepting, exit, Requests>>

Exited == proc = "exited" /\ UNCHANGED vars
-----------------------------------------------------------------------------
(* The requests.                                                           *)

Process == <<proc, boot, stopping, accepting, exit>>
At(r, at) == proc # "exited" /\ req[r].at = at
PoolOpen == proc # "closing"

\* pgxpool hands out an idle connection; which one makes no difference.
AnyIdle == CHOOSE c \in idle : TRUE
TakeIdle == idle # {} /\ idle' = idle \ {AnyIdle}

\* A request comes in.  It may be answered without the database: /healthz, a
\* body that does not decode or fails validation, a token that does not parse.
Arrive(r) ==
    /\ accepting /\ At(r, "none")
    /\ \/ req' = [req EXCEPT ![r] = Answering]
       \/ \E kind \in IF r \in Registration THEN {"register"} ELSE {"plain", "probe"} :
            req' = [req EXCEPT ![r] = NewRequest("wait", kind, Statements)]
    /\ UNCHANGED <<Process, idle, faults>>

BeginQuery(r) ==
    /\ At(r, "wait") /\ req[r].kind # "register" /\ PoolOpen
    /\ TakeIdle
    /\ req' = [req EXCEPT ![r].at = "query", ![r].q = AnyIdle]
    /\ UNCHANGED <<Process, faults>>

\* The handler goes on to its next statement or to its answer.
EndQuery(r) ==
    /\ At(r, "query")
    /\ idle' = idle \cup {req[r].q}
    /\ \/ /\ req[r].kind = "plain" /\ req[r].todo > 1
          /\ req' = [req EXCEPT ![r].at = "wait", ![r].q = None, ![r].todo = @ - 1]
       \/ req' = [req EXCEPT ![r] = Answering]
    /\ UNCHANGED <<Process, faults>>

\* Register: BeginTx ...
BeginTx(r) ==
    /\ At(r, "wait") /\ req[r].kind = "register" /\ PoolOpen
    /\ TakeIdle
    /\ req' = [req EXCEPT ![r].at = "insert", ![r].tx = AnyIdle]
    /\ UNCHANGED <<Process, faults>>

\* ... CreateUser on the transaction ...
InsertUser(r) ==
    /\ At(r, "insert")
    /\ req' = [req EXCEPT ![r].at = "waitEvent"]
    /\ UNCHANGED <<Process, idle, faults>>

\* ... CreateOutboxEvent, which is not on the transaction ...
BeginEvent(r) ==
    /\ At(r, "waitEvent") /\ PoolOpen
    /\ TakeIdle
    /\ req' = [req EXCEPT ![r].at = "event", ![r].q = AnyIdle]
    /\ UNCHANGED <<Process, faults>>

EndEvent(r) ==
    /\ At(r, "event")
    /\ idle' = idle \cup {req[r].q}
    /\ req' = [req EXCEPT ![r].at = "commit", ![r].q = None]
    /\ UNCHANGED <<Process, faults>>

\* ... and the commit.
CommitTx(r) ==
    /\ At(r, "commit")
    /\ idle' = idle \cup {req[r].tx}
    /\ req' = [req EXCEPT ![r] = Answering]
    /\ UNCHANGED <<Process, faults>>

NoRollback(r) == {req[r].q} \ {None}                                   \* mutant
\* What a request that gives up lets go: pgx its statement's connection, the
\* deferred rollback of WithTxOptions its transaction's.
Held(r) == {req[r].tx, req[r].q} \ {None}

GiveUp(r) ==
    /\ idle' = idle \cup Held(r)
    /\ req' = [req EXCEPT ![r] = Answering]

Running == {"query", "insert", "event", "commit"}
Waiting == {"wait", "waitEvent"}

\* The e-mail address is taken.
Conflict(r) ==
    /\ At(r, "insert")
    /\ GiveUp(r)
    /\ UNCHANGED <<Process, faults>>

\* A statement fails, or the handler panics and Recover answers.
Fail(r) ==
    /\ proc # "exited" /\ req[r].at \in Running
    /\ Fault
    /\ GiveUp(r)
    /\ UNCHANGED Process

\* The request's client went away, or the pool was closed before a connection
\* came free.
Cancelled(r) ==
    \/ req[r].gone
    \/ ~PoolOpen /\ req[r].at \in Waiting /\ idle # {}

NoTimeout(r) == FALSE                                                  \* mutant
\* GetReadyz gives its ping two seconds.
PingExpires(r) == req[r].kind = "probe"

Abort(r) ==
    /\ proc # "exited" /\ req[r].at \in Running \cup Waiting
    /\ Cancelled(r) \/ PingExpires(r)
    /\ GiveUp(r)
    /\ UNCHANGED <<Process, faults>>

\* The client closes its connection, which cancels the request's context.
Leave(r) ==
    /\ proc # "exited" /\ req[r].at \in Running \cup Waiting /\ ~req[r].gone
    /\ req' = [req EXCEPT ![r].gone = TRUE]
    /\ UNCHANGED <<Process, idle, faults>>

Answer(r) ==
    /\ At(r, "answer")
    /\ req' = [req EXCEPT ![r] = NewRequest("done", "plain", 0)]
    /\ UNCHANGED <<Process, idle, faults>>
-----------------------------------------------------------------------------
ProcStep ==
    \/ OpenPool \/ OpenFail \/ ConfigError \/ PingOk \/ PingFail \/ Backoff
    \/ BackoffAborted
    \/ StartFail \/ Serve \/ StartShutdown \/ Drained \/ ShutdownTimeout \/ Closed

TakeConn(r) == BeginQuery(r) \/ BeginTx(r) \/ BeginEvent(r)

Handler(r) ==
    \/ EndQuery(r) \/ InsertUser(r) \/ Conflict(r) \/ EndEvent(r) \/ CommitTx(r)
    \/ Answer(r)

Next ==
    \/ ProcStep \/ ServeFail \/ Stop \/ Exited
    \/ \E r \in Request :
         Arrive(r) \/ TakeConn(r) \/ Handler(r) \/ Fail(r) \/ Abort(r) \/ Leave(r)

Spec == Init /\ [][Next]_vars

\* The goroutines run on, timers fire, an ended context ends a wait, and the
\* pool serves its waiters in turn.  Nothing is assumed of clients or signals.
LiveSpec ==
    /\ Spec
    /\ WF_vars(ProcStep)
    /\ \A r \in Request :
         WF_vars(Handler(r)) /\ WF_vars(Abort(r)) /\ SF_vars(TakeConn(r))
-----------------------------------------------------------------------------
(* Properties.                                                             *)

\* Every variable has its type; NewPool is tried Retries times at most.
TypeOK ==
    /\ proc \in {"connect", "ping", "backoff", "build", "serving", "draining",
                 "closing", "exited"}
    /\ attempt \in 1..Retries /\ pools \in Nat
    /\ stopping \in BOOLEAN /\ accepting \in BOOLEAN
    /\ exit \in {"none", "ok", "failed"}
    /\ req \in [Request ->
                  [at : {"none", "answer", "done"} \cup Running \cup Waiting,
                   kind : {"plain", "probe", "register"}, todo : 0..Statements,
                   tx : Conn \cup {None}, q : Conn \cup {None}, gone : BOOLEAN]]
    /\ idle \in SUBSET Conn
    /\ faults \in 0..MaxFaults

Holds(r, c) == c \in {req[r].tx, req[r].q}

\* A connection is idle or in the hands of one request, in one role: none is
\* lost on a path that fails, panics or is cancelled, and no statement runs on
\* another request's connection.
NoConnectionLeak ==
    \A c \in Conn :
        /\ c \in idle \/ \E r \in Request : Holds(r, c)
        /\ \A r \in Request : Holds(r, c) =>
              /\ c \notin idle /\ req[r].tx # req[r].q
              /\ \A s \in Request \ {r} : ~Holds(s, c)

\* No connection is free and nobody who holds one is doing anything with it.
Stuck == idle = {} /\ \A r \in Request : req[r].at \notin Running

\* Only registrations can block the pool, and only as many of them as it has
\* connections, each waiting inside its transaction for one more.
OnlyRegistrationsBlock ==
    Stuck => \A c \in Conn : \E r \in Registration :
                 req[r].at = "waitEvent" /\ req[r].tx = c

\* The process opens one pool at a time, ends with none, and does not cut off
\* a statement or a transaction: it ends when every connection has come back.
PoolClosed ==
    /\ pools <= 1
    /\ proc = "exited" => pools = 0 /\ \A r \in Request, c \in Conn : ~Holds(r, c)

\* run returns nil only when it was told to stop, and then no request that had
\* come in is left without an answer.
OkMeansDrained == exit = "ok" => stopping /\ \A r \in Request : ~InFlight(r)

\* All connections are held by registrations whose clients are waiting.
Blocked ==
    /\ Stuck
    /\ \A r \in Request : req[r].at = "waitEvent" => ~req[r].gone

\* Every request is answered unless registrations block the pool or the
\* process ends; a readiness probe even then.
Answered ==
    /\ \A r \in Request : InFlight(r) ~> (~InFlight(r) \/ Blocked \/ proc = "exited")
    /\ \A r \in Request \ Registration :
         (InFlight(r) /\ req[r].kind = "probe") ~> (~InFlight(r) \/ proc = "exited")

\* A signal ends the process, at whatever stage it comes, unless registrations
\* block the pool: then core.Close waits for their clients.
StopEnds == stopping ~> (proc = "exited" \/ Blocked)
=============================================================================
