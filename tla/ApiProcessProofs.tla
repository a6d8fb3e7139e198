-------------------------- MODULE ApiProcessProofs --------------------------
(***************************************************************************)
(* The connection pool of the API process, for every number of requests    *)
(* and connections: no path through a request loses a connection, only     *)
(* registrations can block the pool, and the process ends with its pool    *)
(* closed and nothing cut off.  The inductive invariant says which         *)
(* connections a request has at each of its steps.                         *)
(***************************************************************************)
EXTENDS ApiProcess, TLAPS

RequestType ==
    [at : {"none", "answer", "done"} \cup Running \cup Waiting,
     kind : {"plain", "probe", "register"}, todo : 0..Statements,
     tx : Conn \cup {None}, q : Conn \cup {None}, gone : BOOLEAN]

\* The connections of a request follow from where it is.
Shape(r, x) ==
    /\ x.tx # None <=> x.at \in {"insert", "waitEvent", "event", "commit"}
    /\ x.q # None <=> x.at \in {"query", "event"}
    /\ x.kind = "register" \/ x.tx # None => r \in Registration

Conns(x) == {x.tx, x.q} \ {None}

ReqInv == req \in [Request -> RequestType] /\ \A r \in Request : Shape(r, req[r])

\* Two roles never share a connection, and who holds one is not idle.
OwnInv ==
    /\ idle \in SUBSET Conn
    /\ \A c \in Conn : c \in idle \/ \E r \in Request : c \in Conns(req[r])
    /\ \A r \in Request : Conns(req[r]) \cap idle = {}
    /\ \A r \in Request : req[r].tx # None => req[r].tx # req[r].q
    /\ \A r \in Request : \A s \in Request \ {r} : Conns(req[r]) \cap Conns(req[s]) = {}

PoolInv == ReqInv /\ OwnInv

\* What a step of one request has to show: what it holds and what is idle
\* change places.
LEMMA OneRequest ==
    ASSUME PoolInv, NEW r \in Request, NEW x \in RequestType,
           req' = [req EXCEPT ![r] = x], Shape(r, x),
           x.tx # None => x.tx # x.q,
           idle' \cup Conns(x) = idle \cup Conns(req[r]),
           idle' \cap Conns(x) = {}, idle' \subseteq Conn
    PROVE  PoolInv'
<1>1. req' \in [Request -> RequestType] /\ req'[r] = x
      /\ \A s \in Request \ {r} : req'[s] = req[s]
  BY DEF PoolInv, ReqInv
<1>2. ReqInv'
  BY <1>1 DEF PoolInv, ReqInv
<1>3. idle' \in SUBSET Conn
      /\ \A c \in Conn : c \in idle' \/ \E s \in Request : c \in Conns(req'[s])
  <2> SUFFICES ASSUME NEW c \in Conn, c \notin idle'
               PROVE  \E s \in Request : c \in Conns(req'[s])
    OBVIOUS
  <2>1. CASE c \in Conns(x)
    BY <1>1, <2>1
  <2>2. CASE c \notin Conns(x)
    <3>1. c \notin idle \cup Conns(req[r])
      BY <2>2
    <3>2. PICK s \in Request : c \in Conns(req[s])
      BY <3>1 DEF PoolInv, OwnInv
    <3>. QED
      BY <1>1, <3>1, <3>2
  <2>. QED
    BY <2>1, <2>2
<1>4. \A s \in Request \ {r} :
         Conns(req[s]) \cap idle' = {} /\ Conns(req[s]) \cap Conns(x) = {}
  BY DEF PoolInv, OwnInv
<1>5. OwnInv'
  BY <1>1, <1>3, <1>4 DEF PoolInv, OwnInv
<1>. QED
  BY <1>2, <1>5 DEF PoolInv

LEMMA AnswerType == Answering \in RequestType /\ Conns(Answering) = {}
                    /\ \A r \in Request : Shape(r, Answering)
<1>1. Answering.tx = None /\ Answering.q = None /\ Answering.kind = "plain"
      /\ Answering.at = "answer"
  BY DEF Answering, NewRequest
<1>2. Answering \in RequestType
  BY ApiAssumption DEF Answering, NewRequest, RequestType
<1>. QED
  BY <1>1, <1>2 DEF Conns, Shape

LEMMA IdleType == idle # {} => AnyIdle \in idle
BY DEF AnyIdle

LEMMA ArriveKeeps ==
    ASSUME PoolInv, NEW r \in Request, Arrive(r)
    PROVE  PoolInv'
<1>0. req[r].at = "none" /\ idle' = idle /\ req[r] \in RequestType
  BY DEF Arrive, At, PoolInv, ReqInv
<1>1. req[r].tx = None /\ req[r].q = None
  BY <1>0 DEF PoolInv, ReqInv, Shape
<1>2. PICK x \in {Answering} \cup {NewRequest("wait", kind, Statements) : kind \in
             IF r \in Registration THEN {"register"} ELSE {"plain", "probe"}} :
         req' = [req EXCEPT ![r] = x]
  BY DEF Arrive
<1>3. x \in RequestType /\ x.tx = None /\ x.q = None /\ Shape(r, x)
  <2>1. CASE x = Answering
    BY <2>1, AnswerType DEF Answering, NewRequest
  <2>2. CASE x # Answering
    <3>1. PICK kind \in IF r \in Registration THEN {"register"} ELSE {"plain", "probe"} :
             x = NewRequest("wait", kind, Statements)
      BY <1>2, <2>2
    <3>2. x.at = "wait" /\ x.kind = kind /\ x.tx = None /\ x.q = None
      BY <3>1 DEF NewRequest
    <3>3. x \in RequestType
      BY <3>1, ApiAssumption DEF NewRequest, RequestType, Waiting
    <3>. QED
      BY <3>1, <3>2, <3>3 DEF Shape
  <2>. QED
    BY <2>1, <2>2
<1>4. Conns(x) = {} /\ Conns(req[r]) = {}
  BY <1>1, <1>3 DEF Conns
<1>5. idle' \subseteq Conn
  BY <1>0 DEF PoolInv, OwnInv
<1>. QED
  BY <1>0, <1>2, <1>3, <1>4, <1>5, OneRequest

\* A request takes a connection for a statement or for its transaction.
LEMMA TakeKeeps ==
    ASSUME PoolInv, NEW r \in Request, TakeConn(r)
    PROVE  PoolInv'
<1>0. req[r] \in RequestType /\ Shape(r, req[r]) /\ idle \subseteq Conn
      /\ Conns(req[r]) \cap idle = {} /\ None \notin Conn
  BY ApiAssumption DEF PoolInv, ReqInv, OwnInv
<1>1. AnyIdle \in idle /\ AnyIdle \in Conn /\ AnyIdle # None /\ idle' = idle \ {AnyIdle}
  BY <1>0, IdleType DEF TakeConn, BeginQuery, BeginTx, BeginEvent, TakeIdle
<1>2. CASE BeginQuery(r) \/ BeginEvent(r)
  <2> DEFINE at == IF req[r].at = "wait" THEN "query" ELSE "event"
             x == [req[r] EXCEPT !.at = at, !.q = AnyIdle]
  <2>1. req' = [req EXCEPT ![r] = x] /\ req[r].q = None
        /\ (req[r].at = "wait" \/ req[r].at = "waitEvent")
    BY <1>0, <1>2 DEF BeginQuery, BeginEvent, At, Shape
  <2>2. x \in RequestType /\ x.at = at /\ x.q = AnyIdle /\ x.tx = req[r].tx
        /\ x.kind = req[r].kind
    BY <1>0, <1>1 DEF RequestType, Running
  <2>3. Shape(r, x)
    BY <1>0, <1>1, <2>1, <2>2 DEF Shape
  <2>4. Conns(x) = Conns(req[r]) \cup {AnyIdle}
    BY <1>1, <2>1, <2>2 DEF Conns
  <2>5. x.tx # None => x.tx # x.q
    BY <1>0, <1>1, <2>2 DEF Conns
  <2> HIDE DEF x
  <2>6. idle' \cup Conns(x) = idle \cup Conns(req[r]) /\ idle' \cap Conns(x) = {}
        /\ idle' \subseteq Conn
    BY <1>0, <1>1, <2>4
  <2>. QED
    BY <2>1, <2>2, <2>3, <2>5, <2>6, OneRequest
<1>3. CASE BeginTx(r)
  <2> DEFINE x == [req[r] EXCEPT !.at = "insert", !.tx = AnyIdle]
  <2>1. req' = [req EXCEPT ![r] = x] /\ req[r].q = None /\ req[r].tx = None
        /\ req[r].kind = "register"
    BY <1>0, <1>3 DEF BeginTx, At, Shape
  <2>2. x \in RequestType /\ x.at = "insert" /\ x.q = None /\ x.tx = AnyIdle
        /\ x.kind = "register"
    BY <1>0, <1>1, <2>1 DEF RequestType, Running
  <2>3. Shape(r, x)
    BY <1>0, <1>1, <2>1, <2>2 DEF Shape
  <2>4. Conns(x) = {AnyIdle} /\ Conns(req[r]) = {}
    BY <1>1, <2>1, <2>2 DEF Conns
  <2> HIDE DEF x
  <2>6. idle' \cup Conns(x) = idle \cup Conns(req[r]) /\ idle' \cap Conns(x) = {}
        /\ idle' \subseteq Conn
    BY <1>0, <1>1, <2>4
  <2>. QED
    BY <1>1, <2>1, <2>2, <2>3, <2>6, OneRequest
<1>. QED
  BY <1>2, <1>3 DEF TakeConn

\* A request lets go of all it holds and has its answer.
LEMMA GiveUpKeeps ==
    ASSUME PoolInv, NEW r \in Request, GiveUp(r)
    PROVE  PoolInv'
<1>1. Answering.tx = None
  BY DEF Answering, NewRequest
<1>2. idle' = idle \cup Conns(req[r]) /\ req' = [req EXCEPT ![r] = Answering]
  BY DEF GiveUp, Held, Conns
<1>3. Conns(req[r]) \subseteq Conn /\ idle \subseteq Conn
  BY DEF PoolInv, ReqInv, OwnInv, RequestType, Conns
<1>. QED
  BY <1>1, <1>2, <1>3, AnswerType, OneRequest

\* The steps of a handler between its waits.
LEMMA HandlerKeeps ==
    ASSUME PoolInv, NEW r \in Request, Handler(r)
    PROVE  PoolInv'
<1>0. req[r] \in RequestType /\ Shape(r, req[r]) /\ idle \subseteq Conn
      /\ Conns(req[r]) \cap idle = {} /\ Conns(req[r]) \subseteq Conn
  BY DEF PoolInv, ReqInv, OwnInv, RequestType, Conns
<1>1. CASE EndQuery(r)
  <2>1. req[r].at = "query" /\ req[r].tx = None /\ req[r].q # None
        /\ Conns(req[r]) = {req[r].q} /\ idle' = idle \cup {req[r].q}
    BY <1>0, <1>1 DEF EndQuery, At, Shape, Conns
  <2>2. CASE req' = [req EXCEPT ![r] = Answering]
    BY <2>1, <2>2, GiveUpKeeps DEF GiveUp, Held, Conns
  <2>3. CASE req[r].todo > 1 /\ req' = [req EXCEPT ![r].at = "wait", ![r].q = None,
                                                  ![r].todo = @ - 1]
    <3> DEFINE x == [req[r] EXCEPT !.at = "wait", !.q = None, !.todo = @ - 1]
    <3>1. req' = [req EXCEPT ![r] = x]
      BY <2>3
    <3>. req[r].todo - 1 \in 0..Statements
      <4>1. req[r].todo \in 0..Statements
        BY <1>0 DEF RequestType
      <4>. QED
        BY <2>3, <4>1, ApiAssumption
    <3>2. x \in RequestType
      BY <1>0 DEF RequestType, Waiting
    <3>3. x.at = "wait" /\ x.q = None /\ x.tx = None /\ x.kind = req[r].kind
      BY <1>0, <2>1 DEF RequestType
    <3>4. Shape(r, x) /\ Conns(x) = {}
      BY <1>0, <3>3 DEF Shape, Conns
    <3> HIDE DEF x
    <3>5. idle' \cup Conns(x) = idle \cup Conns(req[r]) /\ idle' \cap Conns(x) = {}
          /\ idle' \subseteq Conn
      BY <1>0, <2>1, <3>4
    <3>. QED
      BY <3>1, <3>2, <3>3, <3>4, <3>5, OneRequest
  <2>. QED
    BY <1>1, <2>2, <2>3 DEF EndQuery
<1>2. CASE InsertUser(r)
  <2> DEFINE x == [req[r] EXCEPT !.at = "waitEvent"]
  <2>1. req' = [req EXCEPT ![r] = x] /\ idle' = idle /\ req[r].at = "insert"
    BY <1>2 DEF InsertUser, At
  <2>2. x \in RequestType
    BY <1>0 DEF RequestType, Waiting
  <2>3. x.at = "waitEvent" /\ x.q = req[r].q /\ x.tx = req[r].tx /\ x.kind = req[r].kind
    BY <1>0 DEF RequestType
  <2>4. Shape(r, x) /\ Conns(x) = Conns(req[r]) /\ x.q = None
    BY <1>0, <2>1, <2>3 DEF Shape, Conns
  <2> HIDE DEF x
  <2>5. idle' \cup Conns(x) = idle \cup Conns(req[r]) /\ idle' \cap Conns(x) = {}
        /\ idle' \subseteq Conn
    BY <1>0, <2>1, <2>4
  <2>. QED
    BY <2>1, <2>2, <2>4, <2>5, OneRequest
<1>3. CASE Conflict(r)
  BY <1>3, GiveUpKeeps DEF Conflict
<1>4. CASE EndEvent(r)
  <2> DEFINE x == [req[r] EXCEPT !.at = "commit", !.q = None]
  <2>1. req' = [req EXCEPT ![r] = x] /\ idle' = idle \cup {req[r].q} /\ req[r].at = "event"
    BY <1>4 DEF EndEvent, At
  <2>2. x \in RequestType
    BY <1>0 DEF RequestType, Running
  <2>3. x.at = "commit" /\ x.q = None /\ x.tx = req[r].tx /\ x.kind = req[r].kind
    BY <1>0 DEF RequestType
  <2>4. Shape(r, x) /\ req[r].tx # None /\ req[r].q # None /\ req[r].tx # req[r].q
    BY <1>0, <2>1, <2>3 DEF Shape, PoolInv, OwnInv
  <2>5. Conns(x) = {req[r].tx} /\ Conns(req[r]) = {req[r].tx, req[r].q}
    BY <2>3, <2>4 DEF Conns
  <2> HIDE DEF x
  <2>6. idle' \cup Conns(x) = idle \cup Conns(req[r]) /\ idle' \cap Conns(x) = {}
        /\ idle' \subseteq Conn
    BY <1>0, <2>1, <2>4, <2>5
  <2>. QED
    BY <2>1, <2>2, <2>3, <2>4, <2>6, OneRequest
<1>5. CASE CommitTx(r)
  <2>1. req[r].q = None /\ req[r].tx # None /\ idle' = idle \cup {req[r].tx}
        /\ req' = [req EXCEPT ![r] = Answering]
    BY <1>0, <1>5 DEF CommitTx, At, Shape
  <2>. QED
    BY <2>1, GiveUpKeeps DEF GiveUp, Held
<1>6. CASE Answer(r)
  <2> DEFINE x == NewRequest("done", "plain", 0)
  <2>1. req' = [req EXCEPT ![r] = x] /\ idle' = idle /\ req[r].at = "answer"
    BY <1>6 DEF Answer, At
  <2>2. x \in RequestType
    BY ApiAssumption DEF RequestType, NewRequest
  <2>3. x.at = "done" /\ x.q = None /\ x.tx = None /\ x.kind = "plain"
    BY DEF NewRequest
  <2>4. Shape(r, x) /\ Conns(x) = {} /\ Conns(req[r]) = {}
    BY <1>0, <2>1, <2>3 DEF Shape, Conns
  <2> HIDE DEF x
  <2>. QED
    BY <1>0, <2>1, <2>2, <2>3, <2>4, OneRequest
<1>. QED
  BY <1>1, <1>2, <1>3, <1>4, <1>5, <1>6 DEF Handler

LEMMA LeaveKeeps ==
    ASSUME PoolInv, NEW r \in Request, Leave(r)
    PROVE  PoolInv'
<1>0. req[r] \in RequestType /\ Shape(r, req[r]) /\ idle \subseteq Conn
      /\ Conns(req[r]) \cap idle = {} /\ (req[r].tx # None => req[r].tx # req[r].q)
  BY DEF PoolInv, ReqInv, OwnInv
<1> DEFINE x == [req[r] EXCEPT !.gone = TRUE]
<1>1. req' = [req EXCEPT ![r] = x] /\ idle' = idle
  BY DEF Leave
<1>2. x \in RequestType
  BY <1>0 DEF RequestType
<1>3. x.at = req[r].at /\ x.q = req[r].q /\ x.tx = req[r].tx /\ x.kind = req[r].kind
  BY <1>0 DEF RequestType
<1>4. Shape(r, x) /\ Conns(x) = Conns(req[r]) /\ (x.tx # None => x.tx # x.q)
  BY <1>0, <1>3 DEF Shape, Conns
<1> HIDE DEF x
<1>. QED
  BY <1>0, <1>1, <1>2, <1>4, OneRequest

RequestStep(r) ==
    Arrive(r) \/ TakeConn(r) \/ Handler(r) \/ Fail(r) \/ Abort(r) \/ Leave(r)

LEMMA RequestKeeps ==
    ASSUME PoolInv, NEW r \in Request, RequestStep(r)
    PROVE  PoolInv'
<1>1. CASE Fail(r) \/ Abort(r)
  BY <1>1, GiveUpKeeps DEF Fail, Abort
<1>. QED
  BY <1>1, ArriveKeeps, TakeKeeps, HandlerKeeps, LeaveKeeps DEF RequestStep

\* The main goroutine touches no request and no connection.
MainStep == ProcStep \/ ServeFail \/ Stop \/ UNCHANGED vars

LEMMA MainLeavesPool == MainStep => UNCHANGED <<req, idle>>
BY DEF MainStep, ProcStep, OpenPool, OpenFail, ConfigError, PingOk, PingFail, Backoff,
       BackoffAborted, StartFail, Serve, StartShutdown, Drained, ShutdownTimeout,
       Closed, ServeFail, Stop, Requests, vars

LEMMA StepSplit == [Next]_vars => MainStep \/ \E r \in Request : RequestStep(r)
BY DEF Next, MainStep, RequestStep, Exited

LEMMA PoolStep == PoolInv /\ [Next]_vars => PoolInv'
<1> SUFFICES ASSUME PoolInv, [Next]_vars PROVE PoolInv'
  OBVIOUS
<1>1. CASE MainStep
  <2>1. req' = req /\ idle' = idle
    BY <1>1, MainLeavesPool
  <2>. QED
    BY <2>1 DEF PoolInv, ReqInv, OwnInv
<1>2. CASE \E r \in Request : RequestStep(r)
  BY <1>2, RequestKeeps
<1>. QED
  BY <1>1, <1>2, StepSplit

LEMMA PoolInit == Init => PoolInv
<1> SUFFICES ASSUME Init PROVE PoolInv
  OBVIOUS
<1> DEFINE x == NewRequest("none", "plain", 0)
<1>1. x \in RequestType
  BY ApiAssumption DEF RequestType, NewRequest
<1>2. x.at = "none" /\ x.kind = "plain" /\ x.tx = None /\ x.q = None
  BY DEF NewRequest
<1>3. req = [r \in Request |-> x] /\ idle = Conn
  BY DEF Init
<1>4. Conns(x) = {} /\ \A r \in Request : Shape(r, x)
  BY <1>2 DEF Conns, Shape
<1> HIDE DEF x
<1>5. ReqInv
  BY <1>1, <1>3, <1>4 DEF ReqInv
<1>6. OwnInv
  BY <1>2, <1>3, <1>4 DEF OwnInv
<1>. QED
  BY <1>5, <1>6 DEF PoolInv

\* Every connection is idle or held by one request in one role, whatever fails,
\* panics or is cancelled: services.Register, db.WithTxOptions and the pool.
THEOREM NoLeak == Spec => []NoConnectionLeak
<1>1. PoolInv => NoConnectionLeak
  <2> SUFFICES ASSUME PoolInv, NEW c \in Conn
               PROVE  /\ c \in idle \/ \E r \in Request : Holds(r, c)
                      /\ \A r \in Request : Holds(r, c) =>
                            /\ c \notin idle /\ req[r].tx # req[r].q
                            /\ \A s \in Request \ {r} : ~Holds(s, c)
    BY DEF NoConnectionLeak
  <2>1. c # None
    BY ApiAssumption
  <2>2. \A r \in Request : Holds(r, c) <=> c \in Conns(req[r])
    BY <2>1 DEF Holds, Conns
  <2>3. \A r \in Request : Holds(r, c) => req[r].tx # req[r].q
    BY <2>1 DEF Holds, PoolInv, OwnInv
  <2>. QED
    BY <2>2, <2>3 DEF PoolInv, OwnInv
<1>. QED
  BY <1>1, PoolInit, PoolStep, PTL DEF Spec

\* If no holder of a connection does anything with it, every connection belongs
\* to a registration waiting for its second one (services/users.go:91).
THEOREM BlockedByRegistrations == Spec => []OnlyRegistrationsBlock
<1>1. PoolInv => OnlyRegistrationsBlock
  <2> SUFFICES ASSUME PoolInv, Stuck, NEW c \in Conn
               PROVE  \E r \in Registration : req[r].at = "waitEvent" /\ req[r].tx = c
    BY DEF OnlyRegistrationsBlock
  <2>1. PICK r \in Request : c \in Conns(req[r])
    BY DEF Stuck, PoolInv, OwnInv
  <2>2. Shape(r, req[r]) /\ req[r].at \notin Running
    BY DEF Stuck, PoolInv, ReqInv
  <2>3. req[r].q = None /\ req[r].tx = c /\ c # None
    BY <2>1, <2>2 DEF Shape, Running, Conns
  <2>. QED
    BY <2>2, <2>3 DEF Shape, Running
<1>. QED
  BY <1>1, PoolInit, PoolStep, PTL DEF Spec
-----------------------------------------------------------------------------
(* The main goroutine.                                                     *)

Booting == proc \in {"connect", "ping", "backoff", "build"}

\* Before the server runs there is no request; the pool is open from NewPool
\* to the end of core.Close.
LifeInv ==
    /\ Booting => ~accepting /\ \A r \in Request : req[r].at = "none"
    /\ pools = IF proc \in {"connect", "backoff", "exited"} THEN 0 ELSE 1
    /\ proc = "exited" => idle = Conn

\* Shutdown begins on a signal, and answers nil once the server is empty and
\* nothing can come in any more.
ShutdownInv ==
    /\ proc = "draining" => stopping
    /\ exit = "ok" => /\ stopping /\ ~accepting
                      /\ proc \in {"closing", "exited"}
                      /\ \A r \in Request : ~InFlight(r)

ApiInv == PoolInv /\ LifeInv /\ ShutdownInv

LEMMA ApiInit == Init => ApiInv
<1> SUFFICES ASSUME Init PROVE ApiInv
  OBVIOUS
<1>1. \A r \in Request : req[r].at = "none"
  BY DEF Init, NewRequest
<1>2. LifeInv /\ ShutdownInv
  BY <1>1 DEF Init, LifeInv, ShutdownInv
<1>. QED
  BY <1>2, PoolInit DEF ApiInv

LEMMA BootIsIdle == ApiInv /\ Booting => idle = Conn
<1> SUFFICES ASSUME ApiInv, Booting PROVE idle = Conn
  OBVIOUS
<1>1. \A r \in Request : Conns(req[r]) = {}
  BY DEF ApiInv, LifeInv, PoolInv, ReqInv, Shape, Conns
<1>. QED
  BY <1>1 DEF ApiInv, PoolInv, OwnInv

\* A request step needs a running process, and leaves the main goroutine alone.
LEMMA RequestStepLeavesMain ==
    ASSUME PoolInv, NEW r \in Request, RequestStep(r)
    PROVE  /\ proc # "exited" /\ UNCHANGED <<proc, attempt, pools, stopping, accepting, exit>>
           /\ InFlight(r) \/ accepting
           /\ \A s \in Request : s # r => req'[s] = req[s]
<1>0. req \in [Request -> RequestType]
  BY DEF PoolInv, ReqInv
<1>1. CASE Arrive(r)
  BY <1>0, <1>1 DEF Arrive, At, Process, boot
<1>2. CASE TakeConn(r)
  BY <1>0, <1>2 DEF TakeConn, BeginQuery, BeginTx, BeginEvent, At, Process, boot, InFlight
<1>3. CASE Handler(r)
  BY <1>0, <1>3 DEF Handler, EndQuery, InsertUser, Conflict, GiveUp, EndEvent, CommitTx,
                    Answer, At, Process, boot, InFlight
<1>4. CASE Fail(r) \/ Abort(r)
  BY <1>0, <1>4 DEF Fail, Abort, GiveUp, Process, boot, InFlight, Running, Waiting
<1>5. CASE Leave(r)
  BY <1>0, <1>5 DEF Leave, Process, boot, InFlight, Running, Waiting
<1>. QED
  BY <1>1, <1>2, <1>3, <1>4, <1>5 DEF RequestStep

LEMMA ApiStep == ApiInv /\ [Next]_vars => ApiInv'
<1> SUFFICES ASSUME ApiInv, [Next]_vars PROVE ApiInv'
  OBVIOUS
<1>1. PoolInv'
  BY PoolStep DEF ApiInv
<1>2. CASE MainStep
  <2>1. req' = req /\ idle' = idle
    BY <1>2, MainLeavesPool
  <2>2. Booting => idle = Conn
    BY BootIsIdle
  <2>3. LifeInv'
    BY <1>2, <2>1, <2>2
       DEF ApiInv, LifeInv, Booting, MainStep, ProcStep, OpenPool, OpenFail, ConfigError, PingOk,
           PingFail, PoolDropped, Backoff, BackoffAborted, StartFail, Serve, StartShutdown,
           Drained, ShutdownTimeout, Closed, ServeFail, Stop, boot, vars, To
  <2>4. ShutdownInv'
    BY <1>2, <2>1
       DEF ApiInv, ShutdownInv, InFlight, MainStep, ProcStep, OpenPool, OpenFail, ConfigError, PingOk,
           PingFail, Backoff, BackoffAborted, StartFail, Serve, StartShutdown, Drained,
           ShutdownTimeout, TimeoutReported, Closed, ServeFail, Stop, vars, To, Fails
  <2>. QED
    BY <1>1, <2>3, <2>4 DEF ApiInv
<1>3. CASE \E r \in Request : RequestStep(r)
  <2>1. PICK r \in Request : RequestStep(r)
    BY <1>3
  <2>2. /\ proc # "exited" /\ UNCHANGED <<proc, attempt, pools, stopping, accepting, exit>>
        /\ InFlight(r) \/ accepting
        /\ \A s \in Request : s # r => req'[s] = req[s]
    BY <2>1, RequestStepLeavesMain DEF ApiInv
  <2>3. ~Booting
    BY <2>2 DEF ApiInv, LifeInv, InFlight
  <2>4. exit # "ok"
    BY <2>2 DEF ApiInv, ShutdownInv
  <2>5. LifeInv' /\ ShutdownInv'
    BY <2>2, <2>3, <2>4 DEF ApiInv, LifeInv, ShutdownInv, Booting
  <2>. QED
    BY <1>1, <2>5 DEF ApiInv
<1>. QED
  BY <1>2, <1>3, StepSplit

\* main.serve and app.NewCore: one pool at a time, none at the end, and the end
\* comes after the last statement and the last transaction.
THEOREM PoolIsClosed == Spec => []PoolClosed
<1>1. ApiInv => PoolClosed
  <2> SUFFICES ASSUME ApiInv PROVE PoolClosed
    OBVIOUS
  <2>1. pools <= 1 /\ (proc = "exited" => pools = 0 /\ idle = Conn)
    BY DEF ApiInv, LifeInv
  <2>2. ASSUME idle = Conn, NEW r \in Request, NEW c \in Conn PROVE ~Holds(r, c)
    BY <2>2, ApiAssumption DEF ApiInv, PoolInv, OwnInv, Holds, Conns
  <2>. QED
    BY <2>1, <2>2 DEF PoolClosed
<1>. QED
  BY <1>1, ApiInit, ApiStep, PTL DEF Spec

\* httpx.Server.Run answers nil only on a signal and with every request that
\* came in answered.
THEOREM OkIsDrained == Spec => []OkMeansDrained
<1>1. ApiInv => OkMeansDrained
  BY DEF ApiInv, ShutdownInv, OkMeansDrained
<1>. QED
  BY <1>1, ApiInit, ApiStep, PTL DEF Spec

\* The main goroutine's own variables.
MainTypes ==
    /\ proc \in {"connect", "ping", "backoff", "build", "serving", "draining",
                 "closing", "exited"}
    /\ attempt \in 1..Retries /\ faults \in 0..MaxFaults
    /\ stopping \in BOOLEAN /\ accepting \in BOOLEAN
    /\ exit \in {"none", "ok", "failed"}

LEMMA MainTyped == MainTypes /\ PoolInv /\ [Next]_vars => MainTypes'
<1> SUFFICES ASSUME MainTypes, PoolInv, [Next]_vars PROVE MainTypes'
  OBVIOUS
<1>1. \/ faults' = faults \/ Fault
  BY DEF Next, ProcStep, OpenPool, OpenFail, ConfigError, PingOk, PingFail, Backoff,
         BackoffAborted, StartFail, Serve, StartShutdown, Drained, ShutdownTimeout,
         Closed, ServeFail, Stop, Requests, vars, Exited, Arrive, TakeConn, BeginQuery,
         BeginTx, BeginEvent, Handler, EndQuery, InsertUser, Conflict, EndEvent, CommitTx,
         Answer, Fail, Abort, Leave
<1>2. faults' \in 0..MaxFaults
  BY <1>1, ApiAssumption DEF MainTypes, Fault
<1>3. CASE \E r \in Request : RequestStep(r)
  <2>1. UNCHANGED <<proc, attempt, pools, stopping, accepting, exit>>
    BY <1>3, RequestStepLeavesMain
  <2>. QED
    BY <1>2, <2>1 DEF MainTypes
<1>4. CASE MainStep
  <2>1. attempt' \in 1..Retries
    BY <1>4, ApiAssumption
    DEF MainStep, MainTypes, ProcStep, OpenPool, OpenFail, ConfigError, PingOk, PingFail,
        Backoff, AttemptsLeft, BackoffAborted, StartFail, Serve, StartShutdown, Drained,
        ShutdownTimeout, Closed, ServeFail, Stop, boot, vars
  <2>2. /\ proc' \in {"connect", "ping", "backoff", "build", "serving", "draining",
                      "closing", "exited"}
        /\ exit' \in {"none", "ok", "failed"}
    BY <1>4
    DEF MainStep, MainTypes, ProcStep, OpenPool, OpenFail, ConfigError, PingOk, PingFail,
        Backoff, BackoffAborted, StartFail, Serve, StartShutdown, Drained, ShutdownTimeout,
        TimeoutReported, Closed, ServeFail, Stop, To, Fails, vars
  <2>3. stopping' \in BOOLEAN /\ accepting' \in BOOLEAN
    BY <1>4, Zenon
    DEF MainStep, MainTypes, ProcStep, OpenPool, OpenFail, ConfigError, PingOk, PingFail,
        Backoff, BackoffAborted, StartFail, Serve, StartShutdown, Drained, ShutdownTimeout,
        Closed, ServeFail, Stop, vars
  <2>. QED
    BY <1>2, <2>1, <2>2, <2>3 DEF MainTypes
<1>. QED
  BY <1>3, <1>4, StepSplit

\* Types of the process: NewPool is tried Retries times at most.
THEOREM Typed == Spec => []TypeOK
<1>1. Init => MainTypes
  <2> SUFFICES ASSUME Init PROVE MainTypes
    OBVIOUS
  <2>1. stopping \in BOOLEAN /\ accepting \in BOOLEAN
    BY Zenon DEF Init
  <2>2. attempt \in 1..Retries /\ faults \in 0..MaxFaults
    BY ApiAssumption DEF Init
  <2>. QED
    BY <2>1, <2>2 DEF Init, MainTypes
<1>2. ApiInv /\ MainTypes => TypeOK
  BY DEF ApiInv, PoolInv, ReqInv, OwnInv, LifeInv, MainTypes, RequestType, TypeOK
<1>3. ApiInv => PoolInv
  BY DEF ApiInv
<1>. QED
  BY <1>1, <1>2, <1>3, ApiInit, ApiStep, MainTyped, PTL DEF Spec
=============================================================================
