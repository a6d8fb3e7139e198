---------------------------- MODULE EventPipeline ----------------------------
(***************************************************************************)
(* A registration and what follows from it: services/users.go writes the   *)
(* user and the outbox event, the relay of the worker (services/events.go) *)
(* publishes committed events, SNS and SQS carry them, the subscriber      *)
(* (pkg/events/sqs) hands them to the welcome job (apps/api/jobs), and the *)
(* processed_events table keeps the job to one run per event.              *)
(*                                                                         *)
(* A registration is named r and so are its user, its event and the        *)
(* messages <<r, n>> published for it.  An uncommitted write is visible to *)
(* its own transaction only; a transaction of a process that dies is       *)
(* rolled back.  What can go wrong goes wrong at most MaxFaults times.     *)
(***************************************************************************)
EXTENDS Naturals, FiniteSets, Sequences, SequencesExt

CONSTANTS
    Reg,            \* registrations
    Email,          \* the addresses they use
    Worker,         \* worker processes: a relay and a consumer each
    BatchSize,      \* Config.Outbox.BatchSize
    ReceiveSize,    \* messages of one ReceiveMessage
    MaxReceive,     \* maxReceiveCount of the queue
    MaxFaults       \* bound on failures

ASSUME BoundAssumption ==
    /\ BatchSize \in Nat \ {0} /\ ReceiveSize \in Nat \ {0}
    /\ MaxReceive \in Nat \ {0} /\ MaxFaults \in Nat

\* An event is published again only after a failure.
Msg == Reg \X (1..(MaxFaults + 1))
EventOf(m) == m[1]
NoMsg == <<>>

VARIABLES
    regs,       \* where each Register is
    email,      \* the address it registers
    users,      \* the users row: "none", "pending" (uncommitted), "stored", "gone"
    outbox,     \* the outbox row: "none", "unpublished", "published", "cleaned"
    order,      \* the events in the order of their ids
    relay,      \* per worker: [at, batch]; the rows of batch are locked
    queue,      \* per message: [at, count] in SQS
    consumer,   \* per worker: [at, batch, msg]
    processed,  \* the committed rows of processed_events
    mails,      \* how often each welcome mail was accepted
    faults      \* how often something went wrong

regVars == <<regs, email, users>>
jobVars == <<consumer, processed, mails>>
vars == <<regVars, outbox, order, relay, queue, jobVars, faults>>
-----------------------------------------------------------------------------
Init ==
    /\ regs = [r \in Reg |-> "idle"]
    /\ email \in [Reg -> Email]
    /\ users = [r \in Reg |-> "none"]
    /\ outbox = [r \in Reg |-> "none"]
    /\ order = <<>>
    /\ relay = [w \in Worker |-> [at |-> "idle", batch |-> {}]]
    /\ queue = [m \in Msg |-> [at |-> "unsent", count |-> 0]]
    /\ consumer = [w \in Worker |-> [at |-> "idle", batch |-> {}, msg |-> NoMsg]]
    /\ processed = {}
    /\ mails = [r \in Reg |-> 0]
    /\ faults = 0

\* One more thing goes wrong.
Fault == faults < MaxFaults /\ faults' = faults + 1
-----------------------------------------------------------------------------
(* Register: a transaction inserts the user, CreateOutboxEvent inserts the *)
(* event.  The event insert is not bound to the transaction: it runs on    *)
(* the pool and is committed when it returns.                              *)

\* The unique email index: a committed row refuses a second one, an
\* uncommitted row makes it wait for the other transaction.
SameEmail(r, in) == {q \in Reg \ {r} : email[q] = email[r] /\ users[q] = in}

RegisterUser(r) ==
    /\ regs[r] = "idle"
    /\ SameEmail(r, "pending") = {}
    /\ \/ /\ SameEmail(r, "stored") # {}
          /\ regs' = [regs EXCEPT ![r] = "done"]
          /\ UNCHANGED users
       \/ /\ SameEmail(r, "stored") = {}
          /\ regs' = [regs EXCEPT ![r] = "outbox"]
          /\ users' = [users EXCEPT ![r] = "pending"]
    /\ UNCHANGED <<email, outbox, order, relay, queue, jobVars, faults>>

RecordEvent(r) ==
    /\ regs[r] = "outbox"
    /\ regs' = [regs EXCEPT ![r] = "commit"]
    /\ outbox' = [outbox EXCEPT ![r] = "unpublished"]
    /\ order' = Append(order, r)
    /\ UNCHANGED <<email, users, relay, queue, jobVars, faults>>

SkipEvent(r) ==                                                     \* mutant
    /\ regs[r] = "outbox"
    /\ regs' = [regs EXCEPT ![r] = "commit"]
    /\ UNCHANGED <<email, users, outbox, order, relay, queue, jobVars, faults>>
RegisterEvent(r) == RecordEvent(r)

\* The commit may succeed and its answer get lost: the client sees an error,
\* the rows are the same.
RegisterCommit(r) ==
    /\ regs[r] = "commit"
    /\ regs' = [regs EXCEPT ![r] = "done"]
    /\ users' = [users EXCEPT ![r] = "stored"]
    /\ UNCHANGED <<email, outbox, order, relay, queue, jobVars, faults>>

\* A statement fails, the client goes away or the API process dies.
RegisterFail(r) ==
    /\ regs[r] \in {"outbox", "commit"}
    /\ Fault
    /\ regs' = [regs EXCEPT ![r] = "done"]
    /\ users' = [users EXCEPT ![r] = "none"]
    /\ UNCHANGED <<email, outbox, order, relay, queue, jobVars>>

DeleteUser(r) ==
    /\ users[r] = "stored"
    /\ users' = [users EXCEPT ![r] = "gone"]
    /\ UNCHANGED <<regs, email, outbox, order, relay, queue, jobVars, faults>>
-----------------------------------------------------------------------------
(* The relay: publishBatch, one transaction per batch.                     *)

Locked == UNION {relay[w].batch : w \in Worker}

\* The rows, by their places in the order of the ids, that a claim may take.
NoSkipLocked == {i \in DOMAIN order : outbox[order[i]] = "unpublished"} \* mutant
Claimable ==
    {i \in DOMAIN order : outbox[order[i]] = "unpublished" /\ order[i] \notin Locked}
Batch ==
    {order[i] : i \in {i \in Claimable :
                         Cardinality({k \in Claimable : k < i}) < BatchSize}}

\* ClaimOutboxEvents: the first unpublished rows nobody holds.
Claim(w) ==
    /\ relay[w].at = "idle"
    /\ Claimable # {}
    /\ relay' = [relay EXCEPT ![w] = [at |-> "publish", batch |-> Batch]]
    /\ UNCHANGED <<regVars, outbox, order, queue, jobVars, faults>>

\* The message each event of S is sent as next.
NextCopies(S) ==
    {m \in Msg : /\ EventOf(m) \in S /\ queue[m].at = "unsent"
                 /\ \A k \in 1..(m[2] - 1) : queue[<<m[1], k>>].at # "unsent"}

Send(S) ==
    queue' = [m \in Msg |-> IF m \in NextCopies(S)
                              THEN [at |-> "ready", count |-> 0] ELSE queue[m]]

Publish(w) ==
    /\ relay[w].at = "publish"
    /\ Send(relay[w].batch)
    /\ relay' = [relay EXCEPT ![w].at = "mark"]
    /\ UNCHANGED <<regVars, outbox, order, jobVars, faults>>

Release(w) == relay' = [relay EXCEPT ![w] = [at |-> "idle", batch |-> {}]]

\* SNS takes some of the batch, or all of it without an answer; any error
\* rolls the claim back.
PublishFail(w) ==
    /\ relay[w].at = "publish"
    /\ Fault
    /\ \E S \in SUBSET relay[w].batch : Send(S)
    /\ Release(w)
    /\ UNCHANGED <<regVars, outbox, order, jobVars>>

\* MarkOutboxEventsPublished and the commit.
Mark(w) ==
    /\ relay[w].at = "mark"
    /\ outbox' = [e \in Reg |-> IF e \in relay[w].batch THEN "published"
                                                       ELSE outbox[e]]
    /\ Release(w)
    /\ UNCHANGED <<regVars, order, queue, jobVars, faults>>

MarkFail(w) ==
    /\ relay[w].at = "mark"
    /\ Fault
    /\ Release(w)
    /\ UNCHANGED <<regVars, outbox, order, queue, jobVars>>

CleanAny(e) == outbox[e] \in {"unpublished", "published"}               \* mutant
Cleanable(e) == outbox[e] = "published"

\* CleanOutbox, once the retention has passed.
Clean(e) ==
    /\ Cleanable(e)
    /\ outbox' = [outbox EXCEPT ![e] = "cleaned"]
    /\ UNCHANGED <<regVars, order, relay, queue, jobVars, faults>>
-----------------------------------------------------------------------------
(* SQS, as the subscriber uses it: unordered, at least once, a message     *)
(* received MaxReceive times without being deleted goes to the dead-letter *)
(* queue.                                                                  *)

\* The visibility timeout passes, whether or not a consumer still works on
\* the message.
VisibilityTimeout(m) ==
    /\ queue[m].at = "inflight"
    /\ queue' = [queue EXCEPT ![m].at = "ready"]
    /\ UNCHANGED <<regVars, outbox, order, relay, jobVars, faults>>

Redrive(m) ==
    /\ queue[m].at = "ready" /\ queue[m].count = MaxReceive
    /\ queue' = [queue EXCEPT ![m].at = "dead"]
    /\ UNCHANGED <<regVars, outbox, order, relay, jobVars, faults>>

Receive(w) ==
    /\ consumer[w].at = "idle" /\ consumer[w].batch = {}
    /\ \E B \in SUBSET {m \in Msg : queue[m].at = "ready"
                                    /\ queue[m].count < MaxReceive} :
         /\ B # {} /\ Cardinality(B) <= ReceiveSize
         /\ queue' = [m \in Msg |-> IF m \in B
                        THEN [at |-> "inflight", count |-> queue[m].count + 1]
                        ELSE queue[m]]
         /\ consumer' = [consumer EXCEPT ![w].batch = B]
    /\ UNCHANGED <<regVars, outbox, order, relay, processed, mails, faults>>
-----------------------------------------------------------------------------
(* The consumer: Run handles the messages of a batch one after the other.  *)
(* Handle runs ProcessOnce: a transaction inserts the processed_events row *)
(* and runs Welcome, which reads the user and sends the mail; then the     *)
(* message is deleted.  An error leaves it to be delivered again.          *)

HandleVars == <<regVars, outbox, order, relay>>

Working(w) == consumer[w].at \in {"get", "send", "commit"}
EventAt(w) == EventOf(consumer[w].msg)

StepTo(w, at) == consumer' = [consumer EXCEPT ![w].at = at]

KeepMessage(w) == StepTo(w, "idle")                                    \* mutant
RetryMessage(w) ==                                                     \* mutant
    consumer' = [consumer EXCEPT ![w] =
                    [at |-> "idle", batch |-> @.batch \cup {@.msg}, msg |-> NoMsg]]
LeaveMessage(w) ==
    consumer' = [consumer EXCEPT ![w].at = "idle", ![w].msg = NoMsg]

Take(w) ==
    /\ consumer[w].at = "idle"
    /\ \E m \in consumer[w].batch :
         consumer' = [consumer EXCEPT ![w] =
                        [at |-> "insert", batch |-> @.batch \ {m}, msg |-> m]]
    /\ UNCHANGED <<HandleVars, queue, processed, mails, faults>>

\* MarkEventProcessed.  The row another open transaction inserted makes it
\* wait, a committed one makes it insert nothing.
NoUniqueRow(w) == FALSE                                                \* mutant
InsertWaits(w) ==
    \E v \in Worker \ {w} : Working(v) /\ EventAt(v) = EventAt(w)

AlwaysFresh(w) == TRUE                                                 \* mutant
Fresh(w) == EventAt(w) \notin processed

Insert(w) ==
    /\ consumer[w].at = "insert"
    /\ ~InsertWaits(w)
    /\ StepTo(w, IF Fresh(w) THEN "get" ELSE "delete")
    /\ UNCHANGED <<HandleVars, queue, processed, mails, faults>>

\* GetUser, on the pool: it sees committed rows only.
DirtyRead(r) == users[r] \in {"pending", "stored"}                    \* mutant
Registered(r) == users[r] = "stored"

GetUser(w) ==
    /\ consumer[w].at = "get"
    /\ IF Registered(EventAt(w)) THEN StepTo(w, "send") ELSE LeaveMessage(w)
    /\ UNCHANGED <<HandleVars, queue, processed, mails, faults>>

Accept(e) == mails' = [mails EXCEPT ![e] = @ + 1]

SendMail(w) ==
    /\ consumer[w].at = "send"
    /\ Accept(EventAt(w))
    /\ StepTo(w, "commit")
    /\ UNCHANGED <<HandleVars, queue, processed, faults>>

\* The server may have accepted the mail all the same.
SendFail(w) ==
    /\ consumer[w].at = "send"
    /\ Fault
    /\ Accept(EventAt(w)) \/ UNCHANGED mails
    /\ LeaveMessage(w)
    /\ UNCHANGED <<HandleVars, queue, processed>>

Commit(w) ==
    /\ consumer[w].at = "commit"
    /\ processed' = processed \cup {EventAt(w)}
    /\ StepTo(w, "delete")
    /\ UNCHANGED <<HandleVars, queue, mails, faults>>

\* The commit fails, or succeeds and its answer is lost.
CommitFail(w) ==
    /\ consumer[w].at = "commit"
    /\ Fault
    /\ UNCHANGED processed \/ processed' = processed \cup {EventAt(w)}
    /\ LeaveMessage(w)
    /\ UNCHANGED <<HandleVars, queue, mails>>

\* A failed statement of the transaction before the mail.
HandleFail(w) ==
    /\ consumer[w].at \in {"insert", "get"}
    /\ Fault
    /\ LeaveMessage(w)
    /\ UNCHANGED <<HandleVars, queue, processed, mails>>

\* The receipt may be of an earlier delivery: the message goes away, unless
\* it has moved to the dead-letter queue.
Delete(w) ==
    /\ consumer[w].at = "delete"
    /\ LET m == consumer[w].msg
       IN queue' = [queue EXCEPT ![m].at = IF @ = "dead" THEN @ ELSE "deleted"]
    /\ LeaveMessage(w)
    /\ UNCHANGED <<HandleVars, processed, mails, faults>>

DeleteFail(w) ==
    /\ consumer[w].at = "delete"
    /\ Fault
    /\ LeaveMessage(w)
    /\ UNCHANGED <<HandleVars, queue, processed, mails>>

\* The process dies: its transactions roll back, its batch is redelivered.
Crash(w) ==
    /\ relay[w].at # "idle" \/ consumer[w].at # "idle" \/ consumer[w].batch # {}
    /\ Fault
    /\ Release(w)
    /\ consumer' = [consumer EXCEPT ![w] =
                      [at |-> "idle", batch |-> {}, msg |-> NoMsg]]
    /\ UNCHANGED <<regVars, outbox, order, queue, processed, mails>>
-----------------------------------------------------------------------------
\* Every registration has ended and the worker polls an empty outbox and an
\* empty queue.
Quiesce ==
    /\ \A r \in Reg : regs[r] = "done" /\ outbox[r] # "unpublished"
    /\ \A m \in Msg : queue[m].at \notin {"ready", "inflight"}
    /\ \A w \in Worker : consumer[w].at = "idle" /\ consumer[w].batch = {}
    /\ UNCHANGED vars

Registering(r) ==
    \/ RegisterUser(r) \/ RegisterEvent(r) \/ RegisterCommit(r)
Relaying(w) == Claim(w) \/ Publish(w) \/ Mark(w)
Consuming(w) ==
    \/ Receive(w) \/ Take(w) \/ Insert(w) \/ GetUser(w)
    \/ SendMail(w) \/ Commit(w) \/ Delete(w)
Failing(w) ==
    \/ PublishFail(w) \/ MarkFail(w) \/ SendFail(w) \/ CommitFail(w)
    \/ HandleFail(w) \/ DeleteFail(w) \/ Crash(w)

Next ==
    \/ \E r \in Reg : Registering(r) \/ RegisterFail(r) \/ DeleteUser(r) \/ Clean(r)
    \/ \E w \in Worker : Relaying(w) \/ Consuming(w) \/ Failing(w)
    \/ \E m \in Msg : VisibilityTimeout(m) \/ Redrive(m)
    \/ Quiesce

Spec == Init /\ [][Next]_vars

\* A request runs on, the relay and the subscriber loop until the process
\* ends and are restarted then, SQS times out and redelivers.  Nothing has
\* to fail, and no user has to be deleted.
LiveSpec ==
    /\ Spec
    /\ \A r \in Reg : WF_vars(Registering(r))
    /\ \A w \in Worker : WF_vars(Relaying(w)) /\ WF_vars(Consuming(w))
    /\ \A m \in Msg : WF_vars(VisibilityTimeout(m)) /\ WF_vars(Redrive(m))
-----------------------------------------------------------------------------
(* Properties.                                                             *)

Copies(e) == {m \in Msg : EventOf(m) = e /\ queue[m].at # "unsent"}

\* Every variable has its type; an idle relay holds no row.
TypeOK ==
    /\ regs \in [Reg -> {"idle", "outbox", "commit", "done"}]
    /\ email \in [Reg -> Email]
    /\ users \in [Reg -> {"none", "pending", "stored", "gone"}]
    /\ outbox \in [Reg -> {"none", "unpublished", "published", "cleaned"}]
    /\ order \in Seq(Reg) /\ IsInjective(order)
    /\ relay \in [Worker -> [at : {"idle", "publish", "mark"}, batch : SUBSET Reg]]
    /\ \A w \in Worker : relay[w].at = "idle" => relay[w].batch = {}
    /\ queue \in [Msg -> [at : {"unsent", "ready", "inflight", "deleted", "dead"},
                          count : 0..MaxReceive]]
    /\ consumer \in [Worker ->
          [at : {"idle", "insert", "get", "send", "commit", "delete"},
           batch : SUBSET Msg, msg : Msg \cup {NoMsg}]]
    /\ \A w \in Worker : consumer[w].at = "idle" <=> consumer[w].msg = NoMsg
    /\ processed \in SUBSET Reg
    /\ mails \in [Reg -> Nat]
    /\ faults \in 0..MaxFaults

\* Whatever fails between the two inserts, a user who exists has the event of
\* the registration (users.go:83-92).
UserHasEvent == \A r \in Reg : users[r] \in {"stored", "gone"} => outbox[r] # "none"

\* However many relays run and however their transactions interleave, an event
\* is published again only after a failure (ClaimOutboxEvents, SKIP LOCKED).
RepublishedOnlyByFailure ==
    \A e \in Reg : Cardinality(Copies(e)) <= 1 + faults

\* However often a message is redelivered, and to however many workers at a
\* time, a welcome mail is repeated only after a failure (ProcessOnce).
RemailedOnlyByFailure == \A e \in Reg : mails[e] <= 1 + faults

\* The receipts of e: each delivery of one of its messages.
Deliveries(e) ==
    {d \in Msg \X (1..MaxReceive) : EventOf(d[1]) = e /\ d[2] <= queue[d[1]].count}

\* Each mail took a delivery of its own, whatever fails: a consumer does not
\* try a message again by itself, so maxReceiveCount also bounds the mails of
\* a job that fails each time after its mail went out (Run, handle).
MailedOncePerDelivery ==
    \A e \in Reg : mails[e] <= Cardinality(Deliveries(e))

\* A mail only goes out for a registration that was committed, although its
\* event may be published before (Welcome reads the user).
MailOnlyToRegistered ==
    \A r \in Reg : mails[r] > 0 => users[r] \in {"stored", "gone"}

\* From the outbox row to the last delivery no event is lost before it is
\* handled, none is handled without its mail, and none mailed after.
Standing ==
    {e \in Reg : \/ outbox[e] = "unpublished"
                 \/ \E m \in Copies(e) : queue[m].at # "deleted"}
Stage(e) ==
    IF e \in processed THEN "handled"
    ELSE IF outbox[e] = "none" THEN "none" ELSE "recorded"

Lifecycle == INSTANCE EventLifecycle WITH
    Event <- Reg, stage <- [e \in Reg |-> Stage(e)], attempts <- mails,
    kept <- Standing
ImplementsLifecycle == Lifecycle!Spec

\* Every event in the outbox ends handled or in the dead-letter queue, through
\* every failure, restart and redelivery.
EventSettles ==
    \A e \in Reg :
        outbox[e] = "unpublished"
            ~> (e \in processed \/ \E m \in Copies(e) : queue[m].at = "dead")

\* README.md:13, "Events are written in the same transaction as the data that
\* caused them": when a registration has ended, its event has its user.
EventHasUser ==
    \A r \in Reg : regs[r] = "done" /\ outbox[r] # "none"
                    => users[r] \in {"stored", "gone"}

\* README.md:13, "the worker handles each event once".
HandledOnce == \A e \in Reg : mails[e] <= 1
=============================================================================
