------------------------ MODULE EventPipelineProofs ------------------------
(***************************************************************************)
(* The way of a domain event, for every number of registrations, relays,   *)
(* consumers, messages and failures: the invariants of EventPipeline, and  *)
(* that the pipeline implements the life-cycle of one event.               *)
(***************************************************************************)
EXTENDS EventPipeline, FiniteSetTheorems, TLAPS

Places == {"idle", "insert", "get", "send", "commit", "delete"}
ConsumerType == [at : Places, batch : SUBSET Msg, msg : Msg \cup {NoMsg}]
RelayType == [at : {"idle", "publish", "mark"}, batch : SUBSET Reg]
QueueType ==
    [at : {"unsent", "ready", "inflight", "deleted", "dead"}, count : 0..MaxReceive]

\* TypeOK but for the order of the rows: a row is in it from its insert on.
RegType ==
    /\ regs \in [Reg -> {"idle", "outbox", "commit", "done"}]
    /\ email \in [Reg -> Email]
    /\ users \in [Reg -> {"none", "pending", "stored", "gone"}]
    /\ outbox \in [Reg -> {"none", "unpublished", "published", "cleaned"}]
    /\ mails \in [Reg -> Nat]
    /\ processed \in SUBSET Reg
    /\ faults \in 0..MaxFaults
MoveType ==
    /\ relay \in [Worker -> RelayType]
    /\ \A w \in Worker : relay[w].at = "idle" => relay[w].batch = {}
    /\ queue \in [Msg -> QueueType]
    /\ consumer \in [Worker -> ConsumerType]
    /\ \A w \in Worker : consumer[w].at = "idle" <=> consumer[w].msg = NoMsg
Types == RegType /\ MoveType

\* A registration, its user and its event.
RegInv ==
    \A r \in Reg :
        /\ regs[r] \in {"idle", "outbox"} => outbox[r] = "none"
        /\ regs[r] = "commit" => outbox[r] # "none"
        /\ users[r] = "pending" <=> regs[r] \in {"outbox", "commit"}
        /\ users[r] \in {"stored", "gone"} => regs[r] = "done" /\ outbox[r] # "none"
OrderInv ==
    /\ order \in Seq(Reg) /\ IsInjective(order)
    /\ \A i \in DOMAIN order : outbox[order[i]] # "none"

\* A row is in the batch of one relay, and unpublished as long as it is.
BatchInv ==
    /\ \A w \in Worker : \A e \in relay[w].batch : outbox[e] = "unpublished"
    /\ \A v, w \in Worker : v # w => relay[v].batch \cap relay[w].batch = {}

\* The last message of e was sent without an error.
Answered(e) ==
    \/ outbox[e] \in {"published", "cleaned"}
    \/ \E w \in Worker : relay[w].at = "mark" /\ e \in relay[w].batch
Sent(m) == queue[m].at # "unsent"
SentInv ==
    /\ \A m \in Msg : Sent(m) => outbox[EventOf(m)] # "none"
    /\ \A e \in Reg : Answered(e) => Sent(<<e, 1>>)
    /\ \A m \in Msg : Sent(m) => m[2] <= faults + 1
    /\ \A m \in Msg : Sent(m) /\ ~Answered(EventOf(m)) => m[2] <= faults

\* A consumer has messages that were sent; only those of handled events are
\* deleted.
HeldInv ==
    /\ \A w \in Worker : \A m \in consumer[w].batch : Sent(m)
    /\ \A w \in Worker : consumer[w].at # "idle" => Sent(consumer[w].msg)
    /\ \A w \in Worker : consumer[w].at = "delete" => EventAt(w) \in processed
    /\ \A m \in Msg : queue[m].at = "deleted" => EventOf(m) \in processed
    /\ \A e \in processed : outbox[e] # "none"

\* The mail of e is out, and its transaction has not failed.
Settling(e) ==
    \/ e \in processed
    \/ \E w \in Worker : consumer[w].at = "commit" /\ EventAt(w) = e
OneHandler ==
    \A v, w \in Worker : v # w /\ Working(v) /\ Working(w) => EventAt(v) # EventAt(w)
WorkInv ==
    /\ OneHandler
    /\ \A w \in Worker : Working(w) => EventAt(w) \notin processed
MailInv ==
    /\ \A w \in Worker : consumer[w].at \in {"send", "commit"}
                            => users[EventAt(w)] \in {"stored", "gone"}
    /\ \A w \in Worker : consumer[w].at = "commit" => mails[EventAt(w)] > 0
    /\ MailOnlyToRegistered
    /\ \A e \in Reg : mails[e] <= faults + 1
    /\ \A e \in Reg : ~Settling(e) => mails[e] <= faults

Inv ==
    /\ Types /\ RegInv /\ OrderInv /\ BatchInv
    /\ SentInv /\ HeldInv /\ WorkInv /\ MailInv
-----------------------------------------------------------------------------
(* Lemmas about the helpers of the model.                                  *)

\* A message is a pair, and no message is none.
LEMMA MsgPair ==
    /\ NoMsg \notin Msg
    /\ \A m \in Msg : EventOf(m) \in Reg /\ m[2] \in 1..(MaxFaults + 1)
                      /\ m = <<EventOf(m), m[2]>>
    /\ \A e \in Reg : <<e, 1>> \in Msg /\ EventOf(<<e, 1>>) = e
<1> USE BoundAssumption DEF Msg, EventOf, NoMsg
<1>1. NoMsg \notin Msg
    OBVIOUS
<1>2. ASSUME NEW m \in Msg
      PROVE  EventOf(m) \in Reg /\ m[2] \in 1..(MaxFaults + 1) /\ m = <<EventOf(m), m[2]>>
    OBVIOUS
<1>3. ASSUME NEW e \in Reg
      PROVE  <<e, 1>> \in Msg /\ EventOf(<<e, 1>>) = e
    OBVIOUS
<1> QED
    BY <1>1, <1>2, <1>3

\* A step of a consumer that keeps its messages.
LEMMA StepOne ==
    ASSUME MoveType, NEW w \in Worker, NEW a \in Places, StepTo(w, a)
    PROVE  /\ consumer' \in [Worker -> ConsumerType]
           /\ consumer'[w].at = a
           /\ consumer'[w].batch = consumer[w].batch /\ consumer'[w].msg = consumer[w].msg
           /\ \A v \in Worker \ {w} : consumer'[v] = consumer[v]
BY DEF MoveType, ConsumerType, StepTo

\* A consumer lets go of its message.
LEMMA LeaveOne ==
    ASSUME MoveType, NEW w \in Worker, LeaveMessage(w)
    PROVE  /\ consumer' \in [Worker -> ConsumerType]
           /\ consumer'[w].at = "idle" /\ consumer'[w].msg = NoMsg
           /\ consumer'[w].batch = consumer[w].batch
           /\ \A v \in Worker \ {w} : consumer'[v] = consumer[v]
<1> DEFINE c == [consumer EXCEPT ![w].at = "idle"]
<1>1. c \in [Worker -> ConsumerType] /\ c[w].at = "idle" /\ c[w].batch = consumer[w].batch
      /\ \A v \in Worker \ {w} : c[v] = consumer[v]
    BY DEF MoveType, ConsumerType, Places
<1>2. consumer' = [c EXCEPT ![w].msg = NoMsg]
    BY DEF LeaveMessage
<1> HIDE DEF c
<1> QED
    BY <1>1, <1>2 DEF ConsumerType

\* A relay gives its rows back.
LEMMA ReleaseOne ==
    ASSUME MoveType, NEW w \in Worker, Release(w)
    PROVE  /\ relay' \in [Worker -> RelayType]
           /\ relay'[w] = [at |-> "idle", batch |-> {}]
           /\ \A v \in Worker \ {w} : relay'[v] = relay[v]
BY DEF MoveType, RelayType, Release

\* A claim takes unpublished rows no relay has.
LEMMA BatchFree ==
    ASSUME Types, OrderInv, NEW e \in Batch
    PROVE  /\ e \in Reg /\ outbox[e] = "unpublished"
           /\ \A w \in Worker : e \notin relay[w].batch
<1>1. PICK i \in Claimable : e = order[i]
    BY Zenon DEF Batch
<1>2. i \in DOMAIN order /\ outbox[order[i]] = "unpublished" /\ order[i] \notin Locked
    BY <1>1 DEF Claimable
<1>3. order[i] \in Reg
    BY <1>2 DEF OrderInv
<1> QED
    BY <1>1, <1>2, <1>3 DEF Locked

\* What sending does to the queue.
LEMMA SendAll ==
    ASSUME Types, NEW S \in SUBSET Reg, Send(S)
    PROVE  /\ queue' \in [Msg -> QueueType]
           /\ \A m \in Msg \ NextCopies(S) : queue'[m] = queue[m]
           /\ \A m \in NextCopies(S) : queue'[m].at = "ready"
           /\ \A e \in S : queue'[<<e, 1>>].at # "unsent"
<1> USE DEF Types, MoveType, QueueType
<1>1. 0 \in 0..MaxReceive
    BY BoundAssumption
<1>2. queue' \in [Msg -> QueueType]
    BY <1>1 DEF Send
<1>3. /\ \A m \in Msg \ NextCopies(S) : queue'[m] = queue[m]
      /\ \A m \in NextCopies(S) : queue'[m].at = "ready"
    BY DEF Send, NextCopies
<1>4. ASSUME NEW e \in S PROVE queue'[<<e, 1>>].at # "unsent"
  <2>1. <<e, 1>> \in Msg /\ EventOf(<<e, 1>>) = e
      BY MsgPair
  <2>2. CASE queue[<<e, 1>>].at = "unsent"
    <3>1. <<e, 1>> \in NextCopies(S)
        BY <2>1, <2>2 DEF NextCopies
    <3> QED
        BY <3>1, <1>3
  <2>3. CASE queue[<<e, 1>>].at # "unsent"
      BY <2>1, <2>3, <1>3
  <2> QED
      BY <2>2, <2>3
<1> QED
    BY <1>2, <1>3, <1>4

\* A consumer that works has a message.
LEMMA HasMessage ==
    ASSUME MoveType, NEW w \in Worker, consumer[w].at # "idle"
    PROVE  consumer[w].msg \in Msg /\ EventAt(w) \in Reg
<1>1. consumer[w].msg \in Msg
    BY DEF MoveType, ConsumerType
<1> QED
    BY <1>1, MsgPair DEF EventAt
-----------------------------------------------------------------------------
(* The steps by who takes them, and what each kind leaves alone.           *)

RegisterStep(r) == Registering(r) \/ RegisterFail(r) \/ DeleteUser(r) \/ Clean(r)
RelayStep(w) == Relaying(w) \/ PublishFail(w) \/ MarkFail(w)
ConsumerStep(w) ==
    Consuming(w) \/ SendFail(w) \/ CommitFail(w) \/ HandleFail(w) \/ DeleteFail(w)
QueueStep(m) == VisibilityTimeout(m) \/ Redrive(m)

\* Every step is of one of these kinds.
LEMMA Kinds ==
    ASSUME [Next]_vars
    PROVE  \/ \E r \in Reg : RegisterStep(r)
           \/ \E w \in Worker : RelayStep(w) \/ ConsumerStep(w) \/ Crash(w)
           \/ \E m \in Msg : QueueStep(m)
           \/ UNCHANGED vars
BY Zenon DEF Next, RegisterStep, RelayStep, ConsumerStep, QueueStep, Failing, Quiesce

LEMMA RegisterFrame ==
    ASSUME NEW r \in Reg, RegisterStep(r)
    PROVE  UNCHANGED <<email, relay, queue, jobVars>>
BY DEF RegisterStep, Registering, RegisterUser, RegisterEvent, RecordEvent, RegisterCommit,
       RegisterFail, DeleteUser, Clean, regVars, jobVars

LEMMA RelayFrame ==
    ASSUME NEW w \in Worker, RelayStep(w)
    PROVE  UNCHANGED <<regVars, order, jobVars>>
BY DEF RelayStep, Relaying, Claim, Publish, Mark, PublishFail, MarkFail, regVars, jobVars

LEMMA ConsumerFrame ==
    ASSUME NEW w \in Worker, ConsumerStep(w)
    PROVE  UNCHANGED <<regVars, outbox, order, relay>>
BY DEF ConsumerStep, Consuming, Receive, Take, Insert, GetUser, SendMail, Commit, Delete,
       SendFail, CommitFail, HandleFail, DeleteFail, HandleVars, regVars

LEMMA QueueFrame ==
    ASSUME NEW m \in Msg, QueueStep(m)
    PROVE  UNCHANGED <<regVars, outbox, order, relay, jobVars, faults>>
BY DEF QueueStep, VisibilityTimeout, Redrive, regVars, jobVars
-----------------------------------------------------------------------------
(* Types.                                                                  *)

LEMMA RegisterTypes ==
    ASSUME Types, NEW r \in Reg, RegisterStep(r)
    PROVE  RegType'
<1> USE DEF Types, RegType
<1>1. UNCHANGED <<email, relay, queue, jobVars>>
    BY RegisterFrame
<1>2. CASE RegisterUser(r)
    BY <1>1, <1>2 DEF RegisterUser, jobVars
<1>3. CASE RegisterEvent(r)
    BY <1>1, <1>3 DEF RegisterEvent, RecordEvent, jobVars
<1>4. CASE RegisterCommit(r)
    BY <1>1, <1>4 DEF RegisterCommit, jobVars
<1>5. CASE RegisterFail(r)
    BY <1>1, <1>5, BoundAssumption DEF RegisterFail, Fault, jobVars
<1>6. CASE DeleteUser(r)
    BY <1>1, <1>6 DEF DeleteUser, jobVars
<1>7. CASE Clean(r)
    BY <1>1, <1>7 DEF Clean, regVars, jobVars
<1> QED
    BY <1>2, <1>3, <1>4, <1>5, <1>6, <1>7 DEF RegisterStep, Registering

LEMMA RelayTypes ==
    ASSUME Types, OrderInv, NEW w \in Worker, RelayStep(w)
    PROVE  Types'
<1>1. UNCHANGED <<regVars, order, jobVars>>
    BY RelayFrame
<1>2. MoveType
    BY DEF Types
<1>3. ASSUME Release(w)
      PROVE  /\ relay' \in [Worker -> RelayType]
             /\ \A v \in Worker : relay'[v].at = "idle" => relay'[v].batch = {}
  <2>1. /\ relay' \in [Worker -> RelayType]
        /\ relay'[w] = [at |-> "idle", batch |-> {}]
        /\ \A v \in Worker \ {w} : relay'[v] = relay[v]
      BY <1>2, <1>3, ReleaseOne
  <2> QED
      BY <1>2, <2>1 DEF MoveType
<1>4. CASE Claim(w)
  <2>1. Batch \in SUBSET Reg
      BY BatchFree
  <2> QED
      BY <1>1, <1>4, <2>1 DEF Claim, Types, RegType, MoveType, RelayType, regVars, jobVars
<1>5. CASE Publish(w)
  <2>1. relay[w].batch \in SUBSET Reg
      BY <1>2 DEF MoveType, RelayType
  <2>2. queue' \in [Msg -> QueueType]
      BY <1>5, <2>1, SendAll DEF Publish
  <2> QED
      BY <1>1, <1>5, <2>2 DEF Publish, Types, RegType, MoveType, RelayType, regVars, jobVars
<1>6. CASE Mark(w)
    BY <1>1, <1>3, <1>6 DEF Mark, Types, RegType, MoveType, regVars, jobVars
<1>7. CASE PublishFail(w)
  <2>1. PICK S \in SUBSET relay[w].batch : Send(S)
      BY <1>7 DEF PublishFail
  <2>2. S \in SUBSET Reg
      BY <1>2 DEF MoveType, RelayType
  <2>3. queue' \in [Msg -> QueueType]
      BY <2>1, <2>2, SendAll
  <2> QED
      BY <1>1, <1>3, <1>7, <2>3, BoundAssumption
      DEF PublishFail, Fault, Types, RegType, MoveType, regVars, jobVars
<1>8. CASE MarkFail(w)
    BY <1>1, <1>3, <1>8, BoundAssumption
    DEF MarkFail, Fault, Types, RegType, MoveType, regVars, jobVars
<1> QED
    BY <1>4, <1>5, <1>6, <1>7, <1>8 DEF RelayStep, Relaying

\* A consumer's message is none exactly when it is idle, after a step of w.
LEMMA StepTyped ==
    ASSUME Types, NEW w \in Worker, NEW a \in Places \ {"idle"},
           consumer[w].at # "idle", StepTo(w, a)
    PROVE  /\ consumer' \in [Worker -> ConsumerType]
           /\ \A v \in Worker : consumer'[v].at = "idle" <=> consumer'[v].msg = NoMsg
<1>1. /\ consumer' \in [Worker -> ConsumerType]
      /\ consumer'[w].at = a /\ consumer'[w].msg = consumer[w].msg
      /\ \A v \in Worker \ {w} : consumer'[v] = consumer[v]
    BY StepOne DEF Types
<1>2. consumer[w].msg # NoMsg
    BY DEF Types, MoveType
<1> QED
    BY <1>1, <1>2 DEF Types, MoveType

LEMMA LeaveTyped ==
    ASSUME Types, NEW w \in Worker, LeaveMessage(w)
    PROVE  /\ consumer' \in [Worker -> ConsumerType]
           /\ \A v \in Worker : consumer'[v].at = "idle" <=> consumer'[v].msg = NoMsg
<1>1. /\ consumer' \in [Worker -> ConsumerType]
      /\ consumer'[w].at = "idle" /\ consumer'[w].msg = NoMsg
      /\ \A v \in Worker \ {w} : consumer'[v] = consumer[v]
    BY LeaveOne DEF Types
<1> QED
    BY <1>1 DEF Types, MoveType

LEMMA FaultTyped ==
    ASSUME Types, Fault
    PROVE  faults' \in 0..MaxFaults /\ faults' = faults + 1
BY BoundAssumption DEF Fault, Types, RegType

LEMMA ConsumerTypes ==
    ASSUME Types, NEW w \in Worker, ConsumerStep(w)
    PROVE  Types'
<1>1. UNCHANGED <<regVars, outbox, order, relay>>
    BY ConsumerFrame
<1>2. ASSUME consumer[w].at # "idle" PROVE EventAt(w) \in Reg
    BY <1>2, HasMessage DEF Types
<1>3. ASSUME consumer[w].at # "idle", Accept(EventAt(w)) PROVE mails' \in [Reg -> Nat]
    BY <1>2, <1>3 DEF Accept, Types, RegType
<1> DEFINE Typed == /\ consumer' \in [Worker -> ConsumerType]
                    /\ \A v \in Worker : consumer'[v].at = "idle" <=> consumer'[v].msg = NoMsg
<1>4. ASSUME Typed, queue' \in [Msg -> QueueType], mails' \in [Reg -> Nat],
             processed' \in SUBSET Reg, faults' \in 0..MaxFaults
      PROVE  Types'
    BY <1>1, <1>4 DEF Types, RegType, MoveType, regVars
<1>5. /\ queue \in [Msg -> QueueType] /\ mails \in [Reg -> Nat]
      /\ processed \in SUBSET Reg /\ faults \in 0..MaxFaults
    BY DEF Types, MoveType, RegType
<1>6. CASE Receive(w)
  <2>1. PICK B \in SUBSET {m \in Msg : queue[m].at = "ready" /\ queue[m].count < MaxReceive} :
             /\ queue' = [m \in Msg |-> IF m \in B
                            THEN [at |-> "inflight", count |-> queue[m].count + 1]
                            ELSE queue[m]]
             /\ consumer' = [consumer EXCEPT ![w].batch = B]
      BY <1>6 DEF Receive
  <2>2. queue' \in [Msg -> QueueType]
      BY <2>1, BoundAssumption DEF Types, MoveType, QueueType
  <2>3. Typed
      BY <2>1 DEF Types, MoveType, ConsumerType
  <2> QED
      BY <1>4, <1>5, <1>6, <2>2, <2>3 DEF Receive
<1>7. CASE Take(w)
  <2>1. PICK m \in consumer[w].batch :
           consumer' = [consumer EXCEPT ![w] =
               [at |-> "insert", batch |-> consumer[w].batch \ {m}, msg |-> m]]
      BY <1>7 DEF Take
  <2>2. m \in Msg /\ m # NoMsg
      BY MsgPair DEF Types, MoveType, ConsumerType
  <2>3. Typed
      BY <2>1, <2>2 DEF Types, MoveType, ConsumerType, Places
  <2> QED
      BY <1>4, <1>5, <1>7, <2>3 DEF Take
<1>8. CASE Insert(w)
  <2>1. Typed
    <3>1. CASE Fresh(w)
        BY <1>8, <3>1, StepTyped DEF Insert, Places
    <3>2. CASE ~Fresh(w)
        BY <1>8, <3>2, StepTyped DEF Insert, Places
    <3> QED
        BY <3>1, <3>2
  <2> QED
      BY <1>4, <1>5, <1>8, <2>1 DEF Insert
<1>9. CASE GetUser(w)
  <2>1. Typed
    <3>1. CASE Registered(EventAt(w))
        BY <1>9, <3>1, StepTyped DEF GetUser, Places
    <3>2. CASE ~Registered(EventAt(w))
        BY <1>9, <3>2, LeaveTyped DEF GetUser
    <3> QED
        BY <3>1, <3>2
  <2> QED
      BY <1>4, <1>5, <1>9, <2>1 DEF GetUser
<1>10. CASE SendMail(w)
  <2>1. Typed
      BY <1>10, StepTyped DEF SendMail, Places
  <2> QED
      BY <1>3, <1>4, <1>5, <1>10, <2>1 DEF SendMail
<1>11. CASE Commit(w)
  <2>1. Typed
      BY <1>11, StepTyped DEF Commit, Places
  <2> QED
      BY <1>2, <1>4, <1>5, <1>11, <2>1 DEF Commit
<1>12. CASE Delete(w)
  <2>1. consumer[w].msg \in Msg
      BY <1>12, HasMessage DEF Delete, Types
  <2>2. queue' \in [Msg -> QueueType]
      BY <1>5, <1>12, <2>1 DEF Delete, QueueType
  <2>3. Typed
      BY <1>12, LeaveTyped DEF Delete
  <2> QED
      BY <1>4, <1>5, <1>12, <2>2, <2>3 DEF Delete
<1>13. CASE SendFail(w)
    BY <1>3, <1>4, <1>5, <1>13, LeaveTyped, FaultTyped DEF SendFail
<1>14. CASE CommitFail(w)
    BY <1>2, <1>4, <1>5, <1>14, LeaveTyped, FaultTyped DEF CommitFail
<1>15. CASE HandleFail(w)
    BY <1>4, <1>5, <1>15, LeaveTyped, FaultTyped DEF HandleFail
<1>16. CASE DeleteFail(w)
    BY <1>4, <1>5, <1>16, LeaveTyped, FaultTyped DEF DeleteFail
<1> QED
    BY <1>6, <1>7, <1>8, <1>9, <1>10, <1>11, <1>12, <1>13, <1>14, <1>15, <1>16
    DEF ConsumerStep, Consuming

LEMMA QueueTypes ==
    ASSUME Types, NEW m \in Msg, QueueStep(m)
    PROVE  Types'
<1>1. UNCHANGED <<regVars, outbox, order, relay, jobVars, faults>>
    BY QueueFrame
<1>2. queue' \in [Msg -> QueueType]
    BY DEF QueueStep, VisibilityTimeout, Redrive, Types, MoveType, QueueType
<1> QED
    BY <1>1, <1>2 DEF Types, RegType, MoveType, regVars, jobVars

LEMMA CrashTypes ==
    ASSUME Types, NEW w \in Worker, Crash(w)
    PROVE  Types'
<1>1. /\ relay' \in [Worker -> RelayType]
      /\ relay'[w] = [at |-> "idle", batch |-> {}]
      /\ \A v \in Worker \ {w} : relay'[v] = relay[v]
    BY ReleaseOne DEF Types, Crash
<1>2. faults' \in 0..MaxFaults
    BY FaultTyped DEF Crash
<1>3. /\ consumer' \in [Worker -> ConsumerType]
      /\ \A v \in Worker : consumer'[v].at = "idle" <=> consumer'[v].msg = NoMsg
    BY DEF Crash, Types, MoveType, ConsumerType, Places
<1> QED
    BY <1>1, <1>2, <1>3 DEF Crash, Types, RegType, MoveType, regVars

LEMMA TypesStep ==
    ASSUME Types, OrderInv, [Next]_vars
    PROVE  Types'
<1>1. CASE \E r \in Reg : RegisterStep(r)
  <2>1. PICK r \in Reg : RegisterStep(r)
      BY <1>1
  <2>2. UNCHANGED <<email, relay, queue, jobVars>>
      BY <2>1, RegisterFrame
  <2> QED
      BY <2>1, <2>2, RegisterTypes DEF Types, MoveType, jobVars
<1>2. CASE UNCHANGED vars
    BY <1>2 DEF Types, RegType, MoveType, vars, regVars, jobVars
<1> QED
    BY <1>1, <1>2, RelayTypes, ConsumerTypes, CrashTypes, QueueTypes, Kinds
-----------------------------------------------------------------------------
(* The registration and the rows of the outbox.                            *)

\* Once it is written, an outbox row never goes back to none.
LEMMA RowsStay ==
    ASSUME Types, RegInv, [Next]_vars
    PROVE  \A e \in Reg : outbox[e] # "none" => outbox'[e] # "none"
<1> USE DEF Types, RegType
<1>1. CASE \E r \in Reg : RegisterStep(r)
  <2>1. PICK r \in Reg : RegisterStep(r)
      BY <1>1
  <2>2. outbox' = outbox \/ outbox' = [outbox EXCEPT ![r] = "unpublished"]
        \/ outbox' = [outbox EXCEPT ![r] = "cleaned"]
      BY <2>1 DEF RegisterStep, Registering, RegisterUser, RegisterEvent, RecordEvent,
                  RegisterCommit, RegisterFail, DeleteUser, Clean
  <2> QED
      BY <2>2
<1>2. CASE \E w \in Worker : RelayStep(w)
  <2>1. PICK w \in Worker : RelayStep(w)
      BY <1>2
  <2>2. outbox' = outbox \/ Mark(w)
      BY <2>1 DEF RelayStep, Relaying, Claim, Publish, PublishFail, MarkFail
  <2> QED
      BY <2>2 DEF Mark
<1>3. CASE UNCHANGED outbox
    BY <1>3
<1> QED
    BY <1>1, <1>2, <1>3, Kinds, ConsumerFrame, QueueFrame DEF Crash, vars

LEMMA RegStep ==
    ASSUME Types, RegInv, BatchInv, [Next]_vars
    PROVE  RegInv'
<1> USE DEF Types, RegType, RegInv
<1>1. CASE \E r \in Reg : RegisterStep(r)
  <2>1. PICK r \in Reg : RegisterStep(r)
      BY <1>1
  <2>2. CASE RegisterUser(r)
      BY <2>2 DEF RegisterUser
  <2>3. CASE RegisterEvent(r)
      BY <2>3 DEF RegisterEvent, RecordEvent
  <2>4. CASE RegisterCommit(r)
      BY <2>4 DEF RegisterCommit
  <2>5. CASE RegisterFail(r)
      BY <2>5 DEF RegisterFail
  <2>6. CASE DeleteUser(r)
      BY <2>6 DEF DeleteUser
  <2>7. CASE Clean(r)
      BY <2>7 DEF Clean, Cleanable, regVars
  <2> QED
      BY <2>1, <2>2, <2>3, <2>4, <2>5, <2>6, <2>7 DEF RegisterStep, Registering
<1>2. CASE \E w \in Worker : RelayStep(w)
  <2>1. PICK w \in Worker : RelayStep(w)
      BY <1>2
  <2>2. UNCHANGED <<regs, users>>
      BY <2>1, RelayFrame DEF regVars
  <2>3. outbox' = outbox \/ Mark(w)
      BY <2>1 DEF RelayStep, Relaying, Claim, Publish, PublishFail, MarkFail
  <2>4. CASE outbox' = outbox
      BY <2>2, <2>4
  <2>5. CASE Mark(w)
      BY <2>2, <2>5 DEF Mark, BatchInv
  <2> QED
      BY <2>3, <2>4, <2>5
<1>3. CASE UNCHANGED <<regs, users, outbox>>
    BY <1>3
<1> QED
    BY <1>1, <1>2, <1>3, Kinds, ConsumerFrame, QueueFrame DEF Crash, regVars, vars

LEMMA OrderStep ==
    ASSUME Types, RegInv, OrderInv, [Next]_vars
    PROVE  OrderInv'
<1> USE DEF OrderInv
<1>1. \A e \in Reg : outbox[e] # "none" => outbox'[e] # "none"
    BY RowsStay
<1>2. CASE UNCHANGED order
    BY <1>1, <1>2
<1>3. CASE \E r \in Reg : RegisterEvent(r)
  <2>1. PICK r \in Reg : RegisterEvent(r)
      BY <1>3
  <2>2. order' = Append(order, r) /\ outbox[r] = "none" /\ outbox'[r] = "unpublished"
      BY <2>1 DEF RegisterEvent, RecordEvent, RegInv, Types, RegType
  <2>3. order' \in Seq(Reg) /\ Len(order') = Len(order) + 1 /\ order'[Len(order) + 1] = r
        /\ \A i \in 1..Len(order) : order'[i] = order[i]
      BY <2>2
  <2>4. \A i \in DOMAIN order' : outbox'[order'[i]] # "none"
      BY <1>1, <2>2, <2>3
  <2>5. \A i \in 1..Len(order) : order[i] # r
      BY <2>2
  <2>6. IsInjective(order')
      BY <2>3, <2>5 DEF IsInjective
  <2> QED
      BY <2>3, <2>4, <2>6
<1>4. ASSUME NEW r \in Reg, RegisterStep(r), ~RegisterEvent(r) PROVE UNCHANGED order
    BY <1>4 DEF RegisterStep, Registering, RegisterUser, RegisterCommit, RegisterFail,
                DeleteUser, Clean
<1> QED
    BY <1>2, <1>3, <1>4, Kinds, RelayFrame, ConsumerFrame, QueueFrame DEF Crash, vars

\* The batches are of unpublished rows, one relay each.
LEMMA BatchStep ==
    ASSUME Types, RegInv, OrderInv, BatchInv, [Next]_vars
    PROVE  BatchInv'
<1> USE DEF Types, RegType, BatchInv
<1>1. \A w \in Worker : relay[w].batch \in SUBSET Reg
    BY DEF MoveType, RelayType
<1>2. ASSUME NEW w \in Worker, Release(w),
             \A e \in Reg : e \notin relay[w].batch => outbox'[e] = outbox[e]
      PROVE  BatchInv'
  <2>1. relay'[w].batch = {} /\ \A v \in Worker \ {w} : relay'[v] = relay[v]
      BY <1>2, ReleaseOne
  <2> QED
      BY <1>1, <1>2, <2>1
<1>3. ASSUME NEW r \in Reg, RegisterStep(r) PROVE BatchInv'
  <2>1. UNCHANGED relay
      BY <1>3, RegisterFrame
  <2>2. \/ outbox' = outbox
        \/ outbox[r] # "unpublished" /\ \A e \in Reg \ {r} : outbox'[e] = outbox[e]
    <3>1. CASE RegisterEvent(r)
        BY <3>1 DEF RegisterEvent, RecordEvent, RegInv
    <3>2. CASE Clean(r)
        BY <3>2 DEF Clean, Cleanable
    <3> QED
        BY <1>3, <3>1, <3>2
        DEF RegisterStep, Registering, RegisterUser, RegisterCommit, RegisterFail, DeleteUser
  <2> QED
      BY <1>1, <2>1, <2>2
<1>4. ASSUME NEW w \in Worker, RelayStep(w) PROVE BatchInv'
  <2>1. CASE Claim(w)
    <3>1. \A e \in Batch : /\ outbox[e] = "unpublished"
                           /\ \A v \in Worker : e \notin relay[v].batch
        BY BatchFree
    <3>2. relay'[w].batch = Batch /\ (\A v \in Worker \ {w} : relay'[v] = relay[v])
          /\ outbox' = outbox
        BY <2>1 DEF Claim, MoveType
    <3> QED
        BY <3>1, <3>2
  <2>2. CASE Publish(w)
    <3>1. outbox' = outbox /\ \A v \in Worker : relay'[v].batch = relay[v].batch
        BY <2>2 DEF Publish, MoveType, RelayType
    <3> QED
        BY <3>1
  <2>3. CASE Mark(w)
      BY <1>2, <2>3 DEF Mark
  <2>4. CASE PublishFail(w) \/ MarkFail(w)
      BY <1>2, <2>4 DEF PublishFail, MarkFail
  <2> QED
      BY <1>4, <2>1, <2>2, <2>3, <2>4 DEF RelayStep, Relaying
<1>5. ASSUME NEW w \in Worker, Crash(w) PROVE BatchInv'
    BY <1>2, <1>5 DEF Crash
<1>6. CASE UNCHANGED <<relay, outbox>>
    BY <1>6
<1> QED
    BY <1>3, <1>4, <1>5, <1>6, Kinds, ConsumerFrame, QueueFrame DEF vars
-----------------------------------------------------------------------------
(* The messages that were sent.                                            *)

\* No fault is forgotten.
LEMMA FaultsGrow ==
    ASSUME Types, [Next]_vars
    PROVE  faults' \in Nat /\ (faults' = faults \/ faults' = faults + 1)
<1>1. faults \in Nat
    BY DEF Types, RegType
<1>2. ASSUME NEW r \in Reg, RegisterStep(r) PROVE faults' = faults \/ Fault
    BY <1>2 DEF RegisterStep, Registering, RegisterUser, RegisterEvent, RecordEvent,
                RegisterCommit, RegisterFail, DeleteUser, Clean
<1>3. ASSUME NEW w \in Worker, RelayStep(w) PROVE faults' = faults \/ Fault
    BY <1>3 DEF RelayStep, Relaying, Claim, Publish, Mark, PublishFail, MarkFail
<1>4. ASSUME NEW w \in Worker, ConsumerStep(w) PROVE faults' = faults \/ Fault
    BY <1>4 DEF ConsumerStep, Consuming, Receive, Take, Insert, GetUser, SendMail, Commit,
                Delete, SendFail, CommitFail, HandleFail, DeleteFail
<1>5. faults' = faults \/ Fault
    BY <1>2, <1>3, <1>4, Kinds, QueueFrame DEF Crash, vars
<1> QED
    BY <1>1, <1>5 DEF Fault

\* Only a relay sends.
LEMMA SentFrame ==
    ASSUME Types, HeldInv, [Next]_vars, \A w \in Worker : ~RelayStep(w)
    PROVE  \A m \in Msg : Sent(m)' <=> Sent(m)
<1> USE DEF Sent
<1>1. ASSUME NEW w \in Worker, ConsumerStep(w), NEW m \in Msg PROVE Sent(m)' <=> Sent(m)
  <2>1. CASE Receive(w)
    <3>1. PICK B \in SUBSET {n \in Msg : queue[n].at = "ready" /\ queue[n].count < MaxReceive} :
             queue' = [n \in Msg |-> IF n \in B
                            THEN [at |-> "inflight", count |-> queue[n].count + 1]
                            ELSE queue[n]]
        BY <2>1 DEF Receive
    <3> QED
        BY <3>1
  <2>2. CASE Delete(w)
    <3>1. consumer[w].msg \in Msg /\ Sent(consumer[w].msg)
        BY <2>2, HasMessage DEF Delete, Types, HeldInv
    <3>2. /\ \A n \in Msg \ {consumer[w].msg} : queue'[n] = queue[n]
          /\ queue'[consumer[w].msg].at # "unsent"
        BY <2>2, <3>1 DEF Delete, Types, MoveType, QueueType
    <3> QED
        BY <3>1, <3>2
  <2>3. CASE queue' = queue
      BY <2>3
  <2> QED
      BY <1>1, <2>1, <2>2, <2>3
      DEF ConsumerStep, Consuming, Take, Insert, GetUser, SendMail, Commit, SendFail,
          CommitFail, HandleFail, DeleteFail
<1>2. ASSUME NEW n \in Msg, QueueStep(n), NEW m \in Msg PROVE Sent(m)' <=> Sent(m)
    BY <1>2 DEF QueueStep, VisibilityTimeout, Redrive, Types, MoveType, QueueType
<1>3. ASSUME queue' = queue, NEW m \in Msg PROVE Sent(m)' <=> Sent(m)
    BY <1>3
<1> QED
    BY <1>1, <1>2, <1>3, Kinds, RegisterFrame DEF Crash, vars

\* What a relay about to publish sends next is one more than the faults allow
\* for at the most.
LEMMA NextCopy ==
    ASSUME Types, SentInv, BatchInv, NEW w \in Worker, relay[w].at = "publish",
           NEW S \in SUBSET relay[w].batch, NEW m \in NextCopies(S)
    PROVE  /\ m \in Msg /\ EventOf(m) \in S
           /\ ~Answered(EventOf(m)) /\ outbox[EventOf(m)] = "unpublished"
           /\ m[2] <= faults + 1
<1>1. m \in Msg /\ EventOf(m) \in S
    BY DEF NextCopies
<1>2. outbox[EventOf(m)] = "unpublished"
    BY <1>1 DEF BatchInv
<1>3. ~Answered(EventOf(m))
    BY <1>1, <1>2 DEF BatchInv, Answered
<1>4. EventOf(m) \in Reg /\ m[2] \in 1..(MaxFaults + 1) /\ m = <<EventOf(m), m[2]>>
    BY <1>1, MsgPair
<1>5. faults \in Nat
    BY DEF Types, RegType
<1>6. CASE m[2] = 1
    BY <1>1, <1>2, <1>3, <1>5, <1>6
<1>7. CASE m[2] # 1
  <2> DEFINE k == m[2] - 1
  <2>1. k \in 1..(m[2] - 1) /\ k \in 1..(MaxFaults + 1) /\ m[2] = k + 1
      BY <1>4, <1>7, BoundAssumption
  <2>2. <<EventOf(m), k>> \in Msg
      BY <1>4, <2>1 DEF Msg
  <2>3. Sent(<<EventOf(m), k>>)
      BY <2>1 DEF NextCopies, Sent, EventOf
  <2>4. EventOf(<<EventOf(m), k>>) = EventOf(m) /\ <<EventOf(m), k>>[2] = k
      BY DEF EventOf
  <2>5. k <= faults
      BY <1>3, <2>2, <2>3, <2>4 DEF SentInv
  <2> QED
      BY <1>1, <1>2, <1>3, <1>4, <1>5, <2>1, <2>5
<1> QED
    BY <1>6, <1>7

LEMMA SentStep ==
    ASSUME Types, RegInv, OrderInv, BatchInv, SentInv, HeldInv, [Next]_vars
    PROVE  SentInv'
<1>1. \A e \in Reg : outbox[e] # "none" => outbox'[e] # "none"
    BY RowsStay
<1>2. /\ faults \in Nat /\ faults' \in Nat
      /\ faults' = faults \/ faults' = faults + 1
    BY FaultsGrow DEF Types, RegType
<1>3. \A m \in Msg : EventOf(m) \in Reg /\ m[2] \in Nat
    BY MsgPair, BoundAssumption
<1>4. \A e \in Reg : <<e, 1>> \in Msg
    BY MsgPair
<1>5. ASSUME \A m \in Msg : Sent(m)' <=> Sent(m),
             \A e \in Reg : Answered(e)' <=> Answered(e)
      PROVE  SentInv'
    BY <1>1, <1>2, <1>3, <1>4, <1>5 DEF SentInv
<1>6. ASSUME \A m \in Msg : Sent(m)' => Sent(m) \/ (/\ outbox[EventOf(m)] # "none"
                                                  /\ m[2] <= faults'),
             \A m \in Msg : Sent(m) => Sent(m)',
             \A e \in Reg : Answered(e)' => Answered(e), faults' = faults + 1
      PROVE  SentInv'
    BY <1>1, <1>2, <1>3, <1>4, <1>6 DEF SentInv
<1>7. ASSUME NEW w \in Worker, Release(w)
      PROVE  /\ relay'[w].at # "mark" /\ relay'[w].batch = {}
             /\ \A v \in Worker \ {w} : relay'[v] = relay[v]
    BY <1>7, ReleaseOne DEF Types
<1>8. \A w \in Worker : relay[w].batch \in SUBSET Reg
    BY DEF Types, MoveType, RelayType
<1>9. ASSUME NEW r \in Reg, RegisterStep(r), \A w \in Worker : ~RelayStep(w)
      PROVE  SentInv'
  <2>1. UNCHANGED relay
      BY <1>9, RegisterFrame
  <2>2. \/ outbox' = outbox
        \/ /\ \A e \in Reg \ {r} : outbox'[e] = outbox[e]
           /\ \/ outbox[r] = "none" /\ outbox'[r] = "unpublished"
              \/ outbox[r] = "published" /\ outbox'[r] = "cleaned"
    <3>1. CASE RegisterEvent(r)
        BY <3>1 DEF RegisterEvent, RecordEvent, RegInv, Types, RegType
    <3>2. CASE Clean(r)
        BY <3>2 DEF Clean, Cleanable, Types, RegType
    <3> QED
        BY <1>9, <3>1, <3>2
        DEF RegisterStep, Registering, RegisterUser, RegisterCommit, RegisterFail, DeleteUser
  <2>3. \A e \in Reg : Answered(e)' <=> Answered(e)
      BY <1>8, <2>1, <2>2 DEF Answered, BatchInv
  <2> QED
      BY <1>5, <1>9, <2>3, SentFrame
<1>10. ASSUME NEW w \in Worker, RelayStep(w) PROVE SentInv'
  <2>1. CASE Claim(w)
    <3>1. relay[w].at = "idle" /\ relay'[w].at = "publish" /\ outbox' = outbox
          /\ queue' = queue /\ \A v \in Worker \ {w} : relay'[v] = relay[v]
        BY <2>1 DEF Claim, Types, MoveType
    <3>2. \A e \in Reg : Answered(e)' <=> Answered(e)
        BY <3>1 DEF Answered
    <3> QED
        BY <1>5, <3>1, <3>2 DEF Sent
  <2>2. CASE Publish(w)
    <3>1. /\ relay[w].at = "publish" /\ Send(relay[w].batch) /\ outbox' = outbox
          /\ relay'[w].at = "mark" /\ relay'[w].batch = relay[w].batch
          /\ \A v \in Worker \ {w} : relay'[v] = relay[v]
          /\ faults' = faults
        BY <2>2 DEF Publish, Types, MoveType, RelayType
    <3>2. /\ \A m \in Msg \ NextCopies(relay[w].batch) : queue'[m] = queue[m]
          /\ \A m \in NextCopies(relay[w].batch) : queue'[m].at = "ready"
          /\ \A e \in relay[w].batch : queue'[<<e, 1>>].at # "unsent"
        BY <1>8, <3>1, SendAll
    <3>3. \A e \in Reg : Answered(e)' <=> (Answered(e) \/ e \in relay[w].batch)
        BY <3>1 DEF Answered
    <3>4. \A m \in Msg : Sent(m)' <=> (Sent(m) \/ m \in NextCopies(relay[w].batch))
        BY <3>2 DEF Sent, NextCopies
    <3>5. \A e \in relay[w].batch : Sent(<<e, 1>>)'
        BY <3>2 DEF Sent
    <3>6. \A m \in NextCopies(relay[w].batch) :
             /\ EventOf(m) \in relay[w].batch /\ outbox[EventOf(m)] = "unpublished"
             /\ m[2] <= faults + 1
        BY <3>1, NextCopy
    <3> QED
        BY <1>3, <1>4, <3>1, <3>3, <3>4, <3>5, <3>6 DEF SentInv
  <2>3. CASE Mark(w)
    <3>1. \A e \in Reg : Answered(e)' <=> Answered(e)
      <4>1. relay[w].at = "mark"
            /\ outbox' = [e \in Reg |-> IF e \in relay[w].batch THEN "published" ELSE outbox[e]]
          BY <2>3 DEF Mark
      <4> QED
          BY <1>7, <2>3, <4>1 DEF Answered, Mark
    <3> QED
        BY <1>5, <2>3, <3>1 DEF Sent, Mark
  <2>4. CASE PublishFail(w)
    <3>1. PICK S \in SUBSET relay[w].batch : Send(S)
        BY <2>4 DEF PublishFail
    <3>2. relay[w].at = "publish" /\ outbox' = outbox /\ faults' = faults + 1
        BY <2>4, FaultTyped DEF PublishFail
    <3>3. S \in SUBSET Reg
        BY <1>8
    <3>4. /\ \A m \in Msg \ NextCopies(S) : queue'[m] = queue[m]
          /\ \A m \in NextCopies(S) : queue'[m].at = "ready"
        BY <3>1, <3>3, SendAll
    <3>5. \A m \in Msg : Sent(m)' <=> (Sent(m) \/ m \in NextCopies(S))
        BY <3>4 DEF Sent, NextCopies
    <3>6. \A m \in NextCopies(S) : outbox[EventOf(m)] = "unpublished" /\ m[2] <= faults + 1
        BY <3>2, NextCopy
    <3>7. \A e \in Reg : Answered(e)' => Answered(e)
        BY <1>7, <2>4, <3>2 DEF Answered, PublishFail
    <3> QED
        BY <1>6, <3>2, <3>5, <3>6, <3>7
  <2>5. CASE MarkFail(w)
    <3>1. \A e \in Reg : Answered(e)' => Answered(e)
        BY <1>7, <2>5 DEF Answered, MarkFail
    <3> QED
        BY <1>6, <2>5, <3>1, FaultTyped DEF Sent, MarkFail
  <2> QED
      BY <1>10, <2>1, <2>2, <2>3, <2>4, <2>5 DEF RelayStep, Relaying
<1>11. ASSUME NEW w \in Worker, Crash(w) PROVE SentInv'
  <2>1. \A e \in Reg : Answered(e)' => Answered(e)
      BY <1>7, <1>11 DEF Answered, Crash
  <2> QED
      BY <1>6, <1>11, <2>1, FaultTyped DEF Sent, Crash
<1>12. CASE UNCHANGED <<outbox, relay>> /\ \A w \in Worker : ~RelayStep(w)
  <2>1. \A e \in Reg : Answered(e)' <=> Answered(e)
      BY <1>12 DEF Answered
  <2> QED
      BY <1>5, <1>12, <2>1, SentFrame
<1> QED
  <2>1. CASE \E w \in Worker : RelayStep(w)
      BY <1>10, <2>1
  <2>2. CASE \A w \in Worker : ~RelayStep(w)
      BY <1>9, <1>11, <1>12, <2>2, Kinds, ConsumerFrame, QueueFrame DEF vars
  <2> QED
      BY <2>1, <2>2
-----------------------------------------------------------------------------
(* The messages a consumer has.                                            *)

\* Where a step takes the consumer of w, and what becomes of the events it has
\* handled.
LEMMA Moves ==
    ASSUME Types, NEW w \in Worker, ConsumerStep(w)
    PROVE  /\ \A v \in Worker \ {w} : consumer'[v] = consumer[v]
           /\ \/ /\ Receive(w)
                 /\ consumer'[w].at = "idle" /\ consumer'[w].msg = NoMsg
                 /\ \A m \in consumer'[w].batch : m \in Msg /\ Sent(m)
              \/ /\ Take(w)
                 /\ consumer'[w].at = "insert" /\ consumer'[w].msg \in consumer[w].batch
                 /\ consumer'[w].batch \subseteq consumer[w].batch
              \/ /\ consumer[w].at # "idle" /\ consumer'[w].msg = consumer[w].msg
                 /\ consumer'[w].batch = consumer[w].batch
                 /\ \/ /\ Insert(w) /\ ~Fresh(w) /\ consumer'[w].at = "delete"
                       /\ UNCHANGED <<processed, mails>>
                    \/ /\ Insert(w) /\ ~InsertWaits(w) /\ Fresh(w)
                       /\ consumer'[w].at = "get" /\ UNCHANGED <<processed, mails>>
                    \/ /\ GetUser(w) /\ Registered(EventAt(w)) /\ consumer[w].at = "get"
                       /\ consumer'[w].at = "send" /\ UNCHANGED <<processed, mails>>
                    \/ /\ SendMail(w) /\ Accept(EventAt(w)) /\ consumer[w].at = "send"
                       /\ consumer'[w].at = "commit" /\ UNCHANGED processed
                    \/ /\ Commit(w) /\ consumer[w].at = "commit"
                       /\ consumer'[w].at = "delete"
                       /\ processed' = processed \cup {EventAt(w)} /\ UNCHANGED mails
              \/ /\ consumer[w].at # "idle"
                 /\ consumer'[w].at = "idle" /\ consumer'[w].msg = NoMsg
                 /\ consumer'[w].batch = consumer[w].batch
                 /\ \/ /\ GetUser(w) \/ HandleFail(w) \/ Delete(w) \/ DeleteFail(w)
                       /\ consumer[w].at # "commit" /\ UNCHANGED <<processed, mails>>
                    \/ /\ SendFail(w) /\ Fault /\ UNCHANGED processed
                       /\ consumer[w].at = "send"
                       /\ Accept(EventAt(w)) \/ UNCHANGED mails
                    \/ /\ CommitFail(w) /\ Fault /\ UNCHANGED mails
                       /\ consumer[w].at = "commit"
                       /\ processed' = processed \/ processed' = processed \cup {EventAt(w)}
<1>1. MoveType
    BY DEF Types
<1>2. CASE Receive(w)
  <2>1. PICK B \in SUBSET {n \in Msg : queue[n].at = "ready" /\ queue[n].count < MaxReceive} :
           consumer' = [consumer EXCEPT ![w].batch = B]
      BY <1>2 DEF Receive
  <2>2. consumer[w].at = "idle" /\ consumer[w].msg = NoMsg
      BY <1>1, <1>2 DEF Receive, MoveType
  <2>3. /\ consumer'[w].at = "idle" /\ consumer'[w].msg = NoMsg /\ consumer'[w].batch = B
        /\ \A v \in Worker \ {w} : consumer'[v] = consumer[v]
      BY <1>1, <2>1, <2>2 DEF MoveType, ConsumerType
  <2> QED
      BY <1>2, <2>3 DEF Sent
<1>3. CASE Take(w)
  <2>1. PICK m \in consumer[w].batch :
           consumer' = [consumer EXCEPT ![w] =
               [at |-> "insert", batch |-> consumer[w].batch \ {m}, msg |-> m]]
      BY <1>3 DEF Take
  <2> QED
      BY <1>1, <1>3, <2>1 DEF MoveType
<1>4. CASE Insert(w)
  <2>1. CASE Fresh(w)
      BY <1>1, <1>4, <2>1, StepOne DEF Insert, Places
  <2>2. CASE ~Fresh(w)
      BY <1>1, <1>4, <2>2, StepOne DEF Insert, Places
  <2> QED
      BY <2>1, <2>2
<1>5. CASE GetUser(w)
  <2>1. CASE Registered(EventAt(w))
      BY <1>1, <1>5, <2>1, StepOne DEF GetUser, Places
  <2>2. CASE ~Registered(EventAt(w))
      BY <1>1, <1>5, <2>2, LeaveOne DEF GetUser
  <2> QED
      BY <2>1, <2>2
<1>6. CASE SendMail(w)
    BY <1>1, <1>6, StepOne DEF SendMail, Places
<1>7. CASE Commit(w)
    BY <1>1, <1>7, StepOne DEF Commit, Places
<1>8. CASE Delete(w)
    BY <1>1, <1>8, LeaveOne DEF Delete
<1>9. CASE SendFail(w)
    BY <1>1, <1>9, LeaveOne DEF SendFail
<1>10. CASE CommitFail(w)
    BY <1>1, <1>10, LeaveOne DEF CommitFail
<1>11. CASE HandleFail(w)
    BY <1>1, <1>11, LeaveOne DEF HandleFail
<1>12. CASE DeleteFail(w)
    BY <1>1, <1>12, LeaveOne DEF DeleteFail
<1> QED
    BY <1>2, <1>3, <1>4, <1>5, <1>6, <1>7, <1>8, <1>9, <1>10, <1>11, <1>12
    DEF ConsumerStep, Consuming

\* What was sent stays sent.
LEMMA SentGrows ==
    ASSUME Types, HeldInv, [Next]_vars
    PROVE  \A m \in Msg : Sent(m) => Sent(m)'
<1>1. ASSUME NEW w \in Worker, RelayStep(w) PROVE \A m \in Msg : Sent(m) => Sent(m)'
  <2>1. CASE queue' = queue
      BY <2>1 DEF Sent
  <2>2. ASSUME NEW S \in SUBSET relay[w].batch, Send(S)
        PROVE  \A m \in Msg : Sent(m) => Sent(m)'
    <3>1. S \in SUBSET Reg
        BY DEF Types, MoveType, RelayType
    <3>2. /\ \A m \in Msg \ NextCopies(S) : queue'[m] = queue[m]
          /\ \A m \in NextCopies(S) : queue'[m].at = "ready"
        BY <2>2, <3>1, SendAll
    <3> QED
        BY <3>2 DEF Sent
  <2> QED
      BY <1>1, <2>1, <2>2
      DEF RelayStep, Relaying, Claim, Publish, Mark, PublishFail, MarkFail
<1> QED
    BY <1>1, SentFrame

\* A message becomes deleted only when its event was handled.
LEMMA OnlyHandledDeleted ==
    ASSUME Types, HeldInv, [Next]_vars
    PROVE  \A m \in Msg : queue'[m].at = "deleted" => EventOf(m) \in processed
<1>1. CASE queue' = queue
    BY <1>1 DEF HeldInv
<1>2. ASSUME NEW w \in Worker, RelayStep(w), NEW S \in SUBSET relay[w].batch, Send(S)
      PROVE  \A m \in Msg : queue'[m].at = "deleted" => EventOf(m) \in processed
  <2>1. S \in SUBSET Reg
      BY DEF Types, MoveType, RelayType
  <2>2. /\ \A m \in Msg \ NextCopies(S) : queue'[m] = queue[m]
        /\ \A m \in NextCopies(S) : queue'[m].at = "ready"
      BY <1>2, <2>1, SendAll
  <2> QED
      BY <2>2 DEF HeldInv
<1>3. ASSUME NEW w \in Worker, RelayStep(w)
      PROVE  \A m \in Msg : queue'[m].at = "deleted" => EventOf(m) \in processed
    BY <1>1, <1>2, <1>3 DEF RelayStep, Relaying, Claim, Publish, Mark, PublishFail, MarkFail
<1>4. ASSUME NEW w \in Worker, ConsumerStep(w)
      PROVE  \A m \in Msg : queue'[m].at = "deleted" => EventOf(m) \in processed
  <2>1. CASE Receive(w)
    <3>1. PICK B \in SUBSET {n \in Msg : queue[n].at = "ready" /\ queue[n].count < MaxReceive} :
             queue' = [n \in Msg |-> IF n \in B
                            THEN [at |-> "inflight", count |-> queue[n].count + 1]
                            ELSE queue[n]]
        BY <2>1 DEF Receive
    <3> QED
        BY <3>1 DEF HeldInv
  <2>2. CASE Delete(w)
    <3>1. consumer[w].msg \in Msg /\ EventOf(consumer[w].msg) \in processed
        BY <2>2, HasMessage DEF Delete, Types, HeldInv, EventAt
    <3>2. \A n \in Msg \ {consumer[w].msg} : queue'[n] = queue[n]
        BY <2>2, <3>1 DEF Delete, Types, MoveType, QueueType
    <3> QED
        BY <3>1, <3>2 DEF HeldInv
  <2> QED
      BY <1>1, <1>4, <2>1, <2>2
      DEF ConsumerStep, Consuming, Take, Insert, GetUser, SendMail, Commit, SendFail,
          CommitFail, HandleFail, DeleteFail
<1>5. ASSUME NEW n \in Msg, QueueStep(n)
      PROVE  \A m \in Msg : queue'[m].at = "deleted" => EventOf(m) \in processed
    BY <1>5 DEF QueueStep, VisibilityTimeout, Redrive, Types, MoveType, QueueType, HeldInv
<1> QED
    BY <1>1, <1>3, <1>4, <1>5, Kinds, RegisterFrame DEF Crash, vars

LEMMA HeldStep ==
    ASSUME Types, RegInv, SentInv, HeldInv, [Next]_vars
    PROVE  HeldInv'
<1>1. \A m \in Msg : Sent(m) => Sent(m)'
    BY SentGrows
<1>2. \A e \in Reg : outbox[e] # "none" => outbox'[e] # "none"
    BY RowsStay
<1>3. \A m \in Msg : queue'[m].at = "deleted" => EventOf(m) \in processed
    BY OnlyHandledDeleted
<1>4. \A w \in Worker : /\ consumer[w].batch \subseteq Msg
                        /\ consumer[w].at # "idle" => consumer[w].msg \in Msg
    BY HasMessage DEF Types, MoveType, ConsumerType
<1>5. \A w \in Worker : consumer[w].at # "idle" => outbox[EventAt(w)] # "none"
    BY <1>4 DEF HeldInv, SentInv, EventAt
<1>6. processed \subseteq Reg
    BY DEF Types, RegType
<1>7. ASSUME NEW w \in Worker, ConsumerStep(w) PROVE HeldInv'
  <2>1. \A v \in Worker \ {w} : consumer'[v] = consumer[v]
      BY <1>7, Moves
  <2>2. /\ processed \subseteq processed'
        /\ \A e \in processed' : outbox'[e] # "none"
    <3>1. CASE processed' = processed
        BY <1>2, <1>6, <3>1 DEF HeldInv
    <3>2. CASE consumer[w].at # "idle" /\ processed' = processed \cup {EventAt(w)}
      <4>1. EventAt(w) \in Reg /\ outbox[EventAt(w)] # "none"
          BY <1>5, <3>2, HasMessage DEF Types
      <4> QED
          BY <1>2, <1>6, <3>2, <4>1 DEF HeldInv
    <3> QED
        BY <1>7, <3>1, <3>2
        DEF ConsumerStep, Consuming, Receive, Take, Insert, GetUser, SendMail, Commit,
            Delete, SendFail, CommitFail, HandleFail, DeleteFail
  <2>3. /\ \A m \in consumer'[w].batch : m \in Msg /\ Sent(m)
        /\ consumer'[w].at # "idle" => consumer'[w].msg \in Msg /\ Sent(consumer'[w].msg)
      BY <1>4, <1>7, Moves DEF HeldInv
  <2>4. consumer'[w].at = "delete" => EventOf(consumer'[w].msg) \in processed'
      BY <1>7, Moves DEF Fresh, EventAt
  <2> QED
      BY <1>1, <1>3, <1>4, <2>1, <2>2, <2>3, <2>4 DEF HeldInv, EventAt
<1>8. ASSUME UNCHANGED <<consumer, processed>> PROVE HeldInv'
    BY <1>1, <1>2, <1>3, <1>4, <1>6, <1>8 DEF HeldInv, EventAt
<1>9. ASSUME NEW w \in Worker, Crash(w) PROVE HeldInv'
  <2>1. /\ consumer'[w].batch = {} /\ consumer'[w].at = "idle"
        /\ \A v \in Worker \ {w} : consumer'[v] = consumer[v]
        /\ processed' = processed
      BY <1>9 DEF Crash, Types, MoveType
  <2> QED
      BY <1>1, <1>2, <1>3, <1>4, <1>6, <2>1 DEF HeldInv, EventAt
<1> QED
    BY <1>7, <1>8, <1>9, Kinds, RegisterFrame, RelayFrame, QueueFrame DEF jobVars, vars
-----------------------------------------------------------------------------
(* The work on an event and its mails.                                     *)

LEMMA WorkStep ==
    ASSUME Types, WorkInv, [Next]_vars
    PROVE  WorkInv'
<1> USE DEF WorkInv, OneHandler
<1>1. ASSUME NEW w \in Worker, ConsumerStep(w) PROVE WorkInv'
  <2>1. \A v \in Worker \ {w} : /\ Working(v)' <=> Working(v)
                                /\ EventAt(v)' = EventAt(v)
      BY <1>1, Moves DEF Working, EventAt
  <2>2. \/ processed' = processed
        \/ Working(w) /\ ~Working(w)' /\ processed' = processed \cup {EventAt(w)}
      BY <1>1, Moves
      DEF Working, ConsumerStep, Consuming, Receive, Take, Delete, HandleFail, DeleteFail
  <2>3. ASSUME Working(w)'
        PROVE  /\ EventAt(w)' = EventAt(w)
               /\ Working(w) \/ (~InsertWaits(w) /\ Fresh(w))
               /\ processed' = processed
      BY <1>1, <2>3, Moves DEF Working, EventAt
  <2> QED
      BY <2>1, <2>2, <2>3 DEF InsertWaits, Fresh
<1>2. ASSUME NEW w \in Worker, Crash(w) PROVE WorkInv'
  <2>1. /\ consumer'[w].at = "idle" /\ processed' = processed
        /\ \A v \in Worker \ {w} : consumer'[v] = consumer[v]
      BY <1>2 DEF Crash, Types, MoveType
  <2> QED
      BY <2>1 DEF Working, EventAt
<1>3. ASSUME UNCHANGED <<consumer, processed>> PROVE WorkInv'
    BY <1>3 DEF Working, EventAt
<1> QED
    BY <1>1, <1>2, <1>3, Kinds, RegisterFrame, RelayFrame, QueueFrame DEF jobVars, vars

\* A user who was stored stays, or was deleted later.
LEMMA UsersStay ==
    ASSUME Types, RegInv, [Next]_vars
    PROVE  \A e \in Reg : users[e] \in {"stored", "gone"} => users'[e] \in {"stored", "gone"}
<1>1. ASSUME NEW r \in Reg, RegisterStep(r)
      PROVE  \A e \in Reg : users[e] \in {"stored", "gone"} => users'[e] \in {"stored", "gone"}
    BY <1>1
    DEF RegisterStep, Registering, RegisterUser, RegisterEvent, RecordEvent, RegisterCommit,
        RegisterFail, DeleteUser, Clean, RegInv, Types, RegType, regVars
<1>2. CASE UNCHANGED users
    BY <1>2
<1> QED
    BY <1>1, <1>2, Kinds, RelayFrame, ConsumerFrame, QueueFrame DEF Crash, regVars, vars

\* Who goes on to send or to commit has found the user.
LEMMA UserFound ==
    ASSUME Types, MailInv, NEW w \in Worker, ConsumerStep(w),
           consumer'[w].at \in {"send", "commit"}
    PROVE  /\ consumer[w].at # "idle" /\ EventAt(w)' = EventAt(w)
           /\ users[EventAt(w)] \in {"stored", "gone"}
           /\ consumer'[w].at = "commit" => Accept(EventAt(w))
BY Moves DEF MailInv, Registered, EventAt

\* Only the work of a consumer sends mails, and for the event at hand.
LEMMA MailsOf ==
    ASSUME Types, NEW w \in Worker, ConsumerStep(w)
    PROVE  \/ UNCHANGED mails
           \/ /\ consumer[w].at = "send" /\ EventAt(w) \in Reg
              /\ Accept(EventAt(w))
              /\ mails'[EventAt(w)] = mails[EventAt(w)] + 1
              /\ \A e \in Reg \ {EventAt(w)} : mails'[e] = mails[e]
              /\ SendMail(w) \/ (SendFail(w) /\ Fault)
<1>1. \/ UNCHANGED mails
      \/ /\ consumer[w].at = "send" /\ Accept(EventAt(w))
         /\ SendMail(w) \/ (SendFail(w) /\ Fault)
    BY DEF ConsumerStep, Consuming, Receive, Take, Insert, GetUser, SendMail, Commit,
           Delete, SendFail, CommitFail, HandleFail, DeleteFail
<1>2. consumer[w].at = "send" => EventAt(w) \in Reg
    BY HasMessage DEF Types
<1> QED
    BY <1>1, <1>2 DEF Accept, Types, RegType

LEMMA MailStep ==
    ASSUME Types, RegInv, WorkInv, MailInv, [Next]_vars
    PROVE  MailInv'
<1>1. \A e \in Reg : users[e] \in {"stored", "gone"} => users'[e] \in {"stored", "gone"}
    BY UsersStay
<1>2. /\ faults \in Nat /\ faults' \in Nat
      /\ faults' = faults \/ faults' = faults + 1
    BY FaultsGrow DEF Types, RegType
<1>3. mails \in [Reg -> Nat]
    BY DEF Types, RegType
<1>4. \A w \in Worker : consumer[w].at # "idle" => EventAt(w) \in Reg
    BY HasMessage DEF Types
<1>5. ASSUME UNCHANGED <<consumer, processed, mails>> PROVE MailInv'
  <2>1. \A w \in Worker : EventAt(w)' = EventAt(w)
      BY <1>5 DEF EventAt
  <2>2. \A e \in Reg : Settling(e)' <=> Settling(e)
      BY <1>5, <2>1 DEF Settling
  <2> QED
      BY <1>1, <1>2, <1>3, <1>4, <1>5, <2>1, <2>2 DEF MailInv, MailOnlyToRegistered
<1>6. ASSUME NEW w \in Worker, Crash(w) PROVE MailInv'
  <2>1. /\ consumer'[w].at = "idle" /\ mails' = mails /\ faults' = faults + 1
        /\ \A v \in Worker \ {w} : consumer'[v] = consumer[v]
      BY <1>6, FaultTyped DEF Crash, Types, MoveType
  <2>2. \A v \in Worker \ {w} : EventAt(v)' = EventAt(v)
      BY <2>1 DEF EventAt
  <2> QED
      BY <1>1, <1>2, <1>3, <1>4, <2>1, <2>2 DEF MailInv, MailOnlyToRegistered
<1>7. ASSUME NEW w \in Worker, ConsumerStep(w) PROVE MailInv'
  <2>1. /\ \A v \in Worker \ {w} : consumer'[v] = consumer[v]
        /\ \A v \in Worker \ {w} : EventAt(v)' = EventAt(v)
      BY <1>7, Moves DEF EventAt
  <2>2. \A e \in Reg : mails[e] <= mails'[e] /\ mails'[e] \in Nat
      BY <1>3, <1>7, MailsOf
  <2>3. \A v \in Worker : consumer'[v].at \in {"send", "commit"}
                             => users'[EventAt(v)'] \in {"stored", "gone"}
      BY <1>1, <1>4, <1>7, <2>1, UserFound DEF MailInv
  <2>4. consumer'[w].at = "commit" => mails'[EventAt(w)'] > 0
    <3>1. ASSUME consumer'[w].at = "commit"
          PROVE  EventAt(w)' = EventAt(w) /\ EventAt(w) \in Reg /\ Accept(EventAt(w))
        BY <1>4, <1>7, <3>1, UserFound
    <3> QED
        BY <1>3, <3>1 DEF Accept
  <2>5. \A v \in Worker : consumer'[v].at = "commit" => mails'[EventAt(v)'] > 0
      BY <1>3, <1>4, <2>1, <2>2, <2>4 DEF MailInv
  <2>6. MailOnlyToRegistered'
    <3>1. consumer[w].at = "send" => users[EventAt(w)] \in {"stored", "gone"}
        BY DEF MailInv
    <3>2. \A e \in Reg : mails'[e] > 0 => users[e] \in {"stored", "gone"}
        BY <1>3, <1>7, <3>1, MailsOf DEF MailInv, MailOnlyToRegistered
    <3> QED
        BY <1>1, <3>2 DEF MailOnlyToRegistered
  <2>7. consumer[w].at = "send" => ~Settling(EventAt(w))
      BY DEF WorkInv, OneHandler, Working, Settling
  <2>8. CASE UNCHANGED mails
    <3>1. CASE faults' = faults + 1
        BY <1>2, <1>3, <2>3, <2>5, <2>6, <2>8, <3>1 DEF MailInv
    <3>2. CASE faults' = faults
      <4>1. ~CommitFail(w) /\ ~SendFail(w) /\ ~SendMail(w)
        <5>1. ~Fault
            BY <1>2, <3>2 DEF Fault
        <5>2. ASSUME SendMail(w) PROVE FALSE
            BY <1>3, <1>4, <2>8, <5>2 DEF SendMail, Accept
        <5> QED
            BY <5>1, <5>2 DEF CommitFail, SendFail
      <4>2. processed \subseteq processed'
          BY <1>7, Moves DEF Receive, Take
      <4>3. consumer[w].at = "commit" => EventAt(w) \in processed'
          BY <1>7, <4>1, Moves DEF Receive, Take, Insert
      <4>4. ASSUME NEW e \in Reg, Settling(e) PROVE Settling(e)'
          BY <2>1, <4>2, <4>3, <4>4 DEF Settling
      <4> QED
          BY <1>2, <1>3, <2>3, <2>5, <2>6, <2>8, <3>2, <4>4 DEF MailInv
    <3> QED
        BY <1>2, <3>1, <3>2
  <2>9. CASE /\ consumer[w].at = "send" /\ EventAt(w) \in Reg
             /\ mails'[EventAt(w)] = mails[EventAt(w)] + 1
             /\ \A e \in Reg \ {EventAt(w)} : mails'[e] = mails[e]
    <3>1. \A e \in Reg : mails'[e] <= faults + 1
        BY <1>2, <1>3, <2>7, <2>9 DEF MailInv
    <3>2. CASE faults' = faults + 1
        BY <1>2, <2>2, <2>3, <2>5, <2>6, <3>1, <3>2 DEF MailInv
    <3>3. CASE faults' = faults
      <4>1. SendMail(w)
        <5>1. ~Fault
            BY <1>2, <3>3 DEF Fault
        <5>2. mails' # mails
            BY <1>3, <2>9
        <5> QED
            BY <1>7, <5>1, <5>2, MailsOf
      <4>2. consumer'[w].at = "commit" /\ EventAt(w)' = EventAt(w) /\ processed' = processed
          BY <4>1, StepOne DEF SendMail, Types, EventAt, Places
      <4>3. \A e \in Reg : Settling(e) => Settling(e)'
          BY <2>1, <2>9, <4>2 DEF Settling
      <4>4. ASSUME NEW e \in Reg, e = EventAt(w) PROVE Settling(e)'
          BY <4>2, <4>4 DEF Settling
      <4>5. ASSUME NEW e \in Reg, ~Settling(e)' PROVE mails'[e] <= faults'
        <5>1. e # EventAt(w) /\ ~Settling(e)
            BY <4>3, <4>4, <4>5
        <5>2. mails[e] <= faults
            BY <5>1 DEF MailInv
        <5> QED
            BY <2>9, <3>3, <5>1, <5>2
      <4> QED
          BY <2>3, <2>5, <2>6, <3>1, <3>3, <4>5 DEF MailInv
    <3> QED
        BY <1>2, <3>2, <3>3
  <2> QED
      BY <1>7, <2>8, <2>9, MailsOf
<1> QED
    BY <1>5, <1>6, <1>7, Kinds, RegisterFrame, RelayFrame, QueueFrame DEF jobVars, vars
-----------------------------------------------------------------------------
(* The invariants.                                                         *)

LEMMA InvInit == Init => Inv
<1> SUFFICES ASSUME Init PROVE Inv
    OBVIOUS
<1> USE DEF Init
<1>1. Types
    BY BoundAssumption DEF Types, RegType, MoveType, RelayType, QueueType, ConsumerType, Places
<1>2. RegInv /\ OrderInv /\ BatchInv
    BY DEF RegInv, OrderInv, BatchInv, IsInjective
<1>3. SentInv
    BY DEF SentInv, Answered, Sent
<1>4. HeldInv /\ WorkInv
    BY DEF HeldInv, WorkInv, OneHandler, Working
<1>5. MailInv
    BY DEF MailInv, MailOnlyToRegistered
<1> QED
    BY <1>1, <1>2, <1>3, <1>4, <1>5 DEF Inv

LEMMA InvStep == Inv /\ [Next]_vars => Inv'
BY TypesStep, RegStep, OrderStep, BatchStep, SentStep, HeldStep, WorkStep, MailStep DEF Inv

\* The inductive invariant of the pipeline: where every registration, row,
\* message, event and mail can be.
THEOREM Invariant == Spec => []Inv
<1> QED
    BY InvInit, InvStep, PTL DEF Spec

\* Types of the pipeline's state: an idle relay holds no row and only an idle
\* consumer has no message.
THEOREM Typed == Spec => []TypeOK
<1>1. Inv => TypeOK
    BY DEF Inv, Types, RegType, MoveType, OrderInv, RelayType, QueueType, ConsumerType,
           Places, TypeOK
<1> QED
    BY <1>1, Invariant, PTL

\* Every user has the event of the registration, however it ended.
THEOREM EventOfUser == Spec => []UserHasEvent
<1>1. Inv => UserHasEvent
    BY DEF Inv, RegInv, UserHasEvent
<1> QED
    BY <1>1, Invariant, PTL

\* An event is published again only after a failure.
THEOREM Republished == Spec => []RepublishedOnlyByFailure
<1>1. ASSUME Inv, NEW e \in Reg PROVE Cardinality(Copies(e)) <= 1 + faults
  <2>1. faults \in Nat
      BY <1>1 DEF Inv, Types, RegType
  <2>2. ASSUME NEW m \in Copies(e) PROVE m \in {e} \X (1..(faults + 1))
    <3>1. m \in Msg /\ EventOf(m) = e /\ Sent(m)
        BY DEF Copies, Sent
    <3>2. m[2] \in 1..(MaxFaults + 1) /\ m = <<e, m[2]>>
        BY <3>1, MsgPair
    <3>3. m[2] <= faults + 1
        BY <1>1, <3>1 DEF Inv, SentInv
    <3> QED
        BY <2>1, <3>2, <3>3, BoundAssumption
  <2> DEFINE I == 1..(faults + 1)
  <2>3. IsFiniteSet(I) /\ Cardinality(I) = faults + 1
    <3>1. 1 \in Int /\ faults + 1 \in Int
        BY <2>1
    <3> QED
        BY <2>1, <3>1, FS_Interval
  <2>4. IsFiniteSet({e}) /\ Cardinality({e}) = 1
      BY FS_Singleton
  <2> HIDE DEF I
  <2>5. /\ IsFiniteSet({e} \X I)
        /\ Cardinality({e} \X I) = Cardinality({e}) * Cardinality(I)
      BY <2>3, <2>4, FS_Product
  <2>6. Copies(e) \in SUBSET ({e} \X I)
      BY <2>2 DEF I
  <2>7. IsFiniteSet(Copies(e)) /\ Cardinality(Copies(e)) <= Cardinality({e} \X I)
      BY <2>5, <2>6, FS_Subset
  <2> QED
      BY <2>1, <2>3, <2>4, <2>5, <2>7
<1>2. Inv => RepublishedOnlyByFailure
    BY <1>1 DEF RepublishedOnlyByFailure
<1> QED
    BY <1>2, Invariant, PTL

\* A welcome mail is repeated only after a failure.
THEOREM Remailed == Spec => []RemailedOnlyByFailure
<1>1. Inv => RemailedOnlyByFailure
    BY DEF Inv, Types, RegType, MailInv, RemailedOnlyByFailure
<1> QED
    BY <1>1, Invariant, PTL

\* A mail goes out only for a registration that was committed.
THEOREM MailToRegistered == Spec => []MailOnlyToRegistered
<1>1. Inv => MailOnlyToRegistered
    BY DEF Inv, MailInv
<1> QED
    BY <1>1, Invariant, PTL
-----------------------------------------------------------------------------
(* The mails and the deliveries.                                           *)

\* A delivery to w that may still mail.
Pending(w, m) ==
    \/ m \in consumer[w].batch
    \/ consumer[w].msg = m /\ consumer[w].at \in {"insert", "get", "send"}
Chances(e) == {h \in Worker \X Msg : EventOf(h[2]) = e /\ Pending(h[1], h[2])}

\* Each mail of e, and each consumer that may still mail e, has a delivery.
CountInv == \A m \in Msg : ~Sent(m) => queue[m].count = 0
TakenInv == \A w \in Worker : consumer[w].msg \notin consumer[w].batch
ChanceInv ==
    \A e \in Reg : /\ IsFiniteSet(Chances(e))
                   /\ mails[e] + Cardinality(Chances(e)) <= Cardinality(Deliveries(e))
DeliveryInv == CountInv /\ TakenInv /\ ChanceInv

\* The deliveries of e can be counted, before and after a step.
LEMMA DeliveriesFinite ==
    ASSUME NEW e \in Reg
    PROVE  /\ IsFiniteSet(Deliveries(e)) /\ Cardinality(Deliveries(e)) \in Nat
           /\ IsFiniteSet(Deliveries(e)')
<1> DEFINE I == 1..(MaxFaults + 1)
           J == 1..MaxReceive
<1>1. IsFiniteSet(I) /\ IsFiniteSet(J)
    BY BoundAssumption, FS_Interval
<1>2. IsFiniteSet({e})
    BY FS_Singleton
<1>3. ASSUME NEW d \in Msg \X J, EventOf(d[1]) = e PROVE d \in ({e} \X I) \X J
    BY <1>3, MsgPair
<1>4. /\ \A d \in Deliveries(e) : d \in Msg \X J /\ EventOf(d[1]) = e
      /\ \A d \in Deliveries(e)' : d \in Msg \X J /\ EventOf(d[1]) = e
    BY DEF Deliveries
<1> HIDE DEF I, J
<1>5. IsFiniteSet({e} \X I)
    BY <1>1, <1>2, FS_Product
<1>6. IsFiniteSet(({e} \X I) \X J)
    BY <1>1, <1>5, FS_Product
<1>7. /\ Deliveries(e) \in SUBSET (({e} \X I) \X J)
      /\ Deliveries(e)' \in SUBSET (({e} \X I) \X J)
    BY <1>3, <1>4
<1> QED
    BY <1>6, <1>7, FS_Subset, FS_CardinalityType

\* A step that receives nothing and after which no more consumers may mail.
LEMMA FewerChances ==
    ASSUME NEW e \in Reg, mails[e] \in Nat, ChanceInv, mails'[e] = mails[e],
           \A m \in Msg : queue'[m].count = queue[m].count,
           \A w \in Worker, m \in Msg : Pending(w, m)' => Pending(w, m)
    PROVE  /\ IsFiniteSet(Chances(e)')
           /\ mails'[e] + Cardinality(Chances(e)') <= Cardinality(Deliveries(e)')
<1>1. Chances(e)' \in SUBSET Chances(e)
    BY DEF Chances
<1>2. Deliveries(e)' = Deliveries(e)
    BY DEF Deliveries
<1>3. IsFiniteSet(Chances(e))
    BY DEF ChanceInv
<1>4. /\ IsFiniteSet(Chances(e)') /\ Cardinality(Chances(e)') \in Nat
      /\ Cardinality(Chances(e)') <= Cardinality(Chances(e)) /\ Cardinality(Chances(e)) \in Nat
    BY <1>1, <1>3, FS_Subset, FS_CardinalityType
<1>5. mails[e] + Cardinality(Chances(e)) <= Cardinality(Deliveries(e))
    BY DEF ChanceInv
<1>6. Cardinality(Deliveries(e)) \in Nat
    BY DeliveriesFinite
<1> QED
    BY <1>2, <1>4, <1>5, <1>6

\* Only a receive counts, and it counts what was sent.
LEMMA Counts ==
    ASSUME Types, HeldInv, CountInv, [Next]_vars, \A w \in Worker : ~Receive(w)
    PROVE  \A m \in Msg : queue'[m].count = queue[m].count
<1>1. CASE queue' = queue
    BY <1>1
<1>2. ASSUME NEW w \in Worker, NEW S \in SUBSET relay[w].batch, Send(S), NEW m \in Msg
      PROVE  queue'[m].count = queue[m].count
    BY <1>2 DEF Send, NextCopies, CountInv, Sent
<1>3. ASSUME NEW w \in Worker, RelayStep(w), NEW m \in Msg
      PROVE  queue'[m].count = queue[m].count
    BY <1>1, <1>2, <1>3 DEF RelayStep, Relaying, Claim, Publish, Mark, PublishFail, MarkFail
<1>4. ASSUME NEW w \in Worker, ConsumerStep(w), NEW m \in Msg
      PROVE  queue'[m].count = queue[m].count
  <2>1. CASE Delete(w)
      BY <2>1, HasMessage DEF Delete, Types, MoveType, QueueType
  <2> QED
      BY <1>1, <1>4, <2>1
      DEF ConsumerStep, Consuming, Take, Insert, GetUser, SendMail, Commit, SendFail,
          CommitFail, HandleFail, DeleteFail
<1>5. ASSUME NEW n \in Msg, QueueStep(n), NEW m \in Msg
      PROVE  queue'[m].count = queue[m].count
    BY <1>5 DEF QueueStep, VisibilityTimeout, Redrive, Types, MoveType, QueueType
<1> QED
    BY <1>1, <1>3, <1>4, <1>5, Kinds, RegisterFrame DEF Crash, vars

\* A mail uses up the delivery its consumer is at.
LEMMA MailedChance ==
    ASSUME Types, TakenInv, ChanceInv, NEW w \in Worker, NEW e \in Reg,
           consumer[w].at = "send", EventAt(w) = e, mails'[e] = mails[e] + 1,
           consumer'[w].at \in {"commit", "idle"},
           consumer'[w].batch = consumer[w].batch,
           \A v \in Worker \ {w} : consumer'[v] = consumer[v],
           \A m \in Msg : queue'[m].count = queue[m].count
    PROVE  /\ IsFiniteSet(Chances(e)')
           /\ mails'[e] + Cardinality(Chances(e)') <= Cardinality(Deliveries(e)')
<1> DEFINE h == <<w, consumer[w].msg>>
<1>1. consumer[w].msg \in Msg /\ EventOf(consumer[w].msg) = e
    BY HasMessage DEF Types, EventAt
<1>2. h \in Chances(e)
    BY <1>1 DEF Chances, Pending
<1>3. ASSUME NEW g \in Chances(e)' PROVE g \in Chances(e) \ {h}
  <2>1. g \in Worker \X Msg /\ EventOf(g[2]) = e /\ Pending(g[1], g[2])'
      BY <1>3 DEF Chances
  <2>2. CASE g[1] = w
    <3>1. g[2] \in consumer[w].batch
        BY <2>1, <2>2 DEF Pending
    <3> QED
        BY <2>1, <2>2, <3>1 DEF TakenInv, Chances, Pending
  <2>3. CASE g[1] # w
      BY <2>1, <2>3 DEF Chances, Pending
  <2> QED
      BY <2>2, <2>3
<1>4. Deliveries(e)' = Deliveries(e)
    BY DEF Deliveries
<1> HIDE DEF h
<1>5. /\ IsFiniteSet(Chances(e)) /\ Cardinality(Chances(e)) \in Nat
      /\ mails[e] + Cardinality(Chances(e)) <= Cardinality(Deliveries(e))
    BY FS_CardinalityType DEF ChanceInv
<1>6. /\ IsFiniteSet(Chances(e) \ {h})
      /\ Cardinality(Chances(e) \ {h}) = Cardinality(Chances(e)) - 1
    BY <1>2, <1>5, FS_RemoveElement
<1>7. Chances(e)' \in SUBSET (Chances(e) \ {h})
    BY <1>3
<1>8. /\ IsFiniteSet(Chances(e)') /\ Cardinality(Chances(e)') \in Nat
      /\ Cardinality(Chances(e)') <= Cardinality(Chances(e) \ {h})
    BY <1>6, <1>7, FS_Subset, FS_CardinalityType
<1>9. mails[e] \in Nat /\ Cardinality(Deliveries(e)) \in Nat
    BY DeliveriesFinite DEF Types, RegType
<1> QED
    BY <1>4, <1>5, <1>6, <1>8, <1>9

\* A receive gives the consumer as many chances as it counts deliveries.
LEMMA ReceivedChance ==
    ASSUME Types, ChanceInv, NEW w \in Worker, NEW e \in Reg, Receive(w)
    PROVE  /\ IsFiniteSet(Chances(e)')
           /\ mails'[e] + Cardinality(Chances(e)') <= Cardinality(Deliveries(e)')
<1>1. PICK B \in SUBSET {m \in Msg : queue[m].at = "ready" /\ queue[m].count < MaxReceive} :
         /\ queue' = [m \in Msg |-> IF m \in B
                        THEN [at |-> "inflight", count |-> queue[m].count + 1]
                        ELSE queue[m]]
         /\ consumer' = [consumer EXCEPT ![w].batch = B]
    BY DEF Receive
<1> DEFINE N == {w} \X {m \in B : EventOf(m) = e}
           D == Deliveries(e)' \ Deliveries(e)
           f == [h \in N |-> <<h[2], queue[h[2]].count + 1>>]
<1>2. \A m \in Msg : queue[m].count \in Nat
    BY DEF Types, MoveType, QueueType
<1>3. \A m \in Msg : queue'[m].count = queue[m].count + (IF m \in B THEN 1 ELSE 0)
    BY <1>1, <1>2
<1>4. ASSUME NEW m \in B, EventOf(m) = e
      PROVE  <<m, queue[m].count + 1>> \in D
  <2>1. m \in Msg /\ queue[m].count + 1 \in 1..MaxReceive
      BY <1>1, <1>2, BoundAssumption
  <2> QED
      BY <1>2, <1>3, <1>4, <2>1 DEF Deliveries
<1>5. f \in [N -> D] /\ \A g, h \in N : f[g] = f[h] => g = h
    BY <1>4
<1>6. Deliveries(e) \subseteq Deliveries(e)'
    BY <1>2, <1>3 DEF Deliveries
<1>7. Chances(e)' \subseteq Chances(e) \cup N
  <2>1. consumer'[w].batch = B /\ consumer'[w].at = "idle" /\ consumer[w].at = "idle"
        /\ \A v \in Worker \ {w} : consumer'[v] = consumer[v]
      BY <1>1 DEF Receive, Types, MoveType, ConsumerType
  <2> QED
      BY <2>1 DEF Chances, Pending
<1>8. mails'[e] = mails[e] /\ mails[e] \in Nat
    BY DEF Receive, Types, RegType
<1> HIDE DEF f, N
<1>9. IsFiniteSet(Deliveries(e)) /\ IsFiniteSet(Deliveries(e)')
    BY DeliveriesFinite
<1>10. IsFiniteSet(D) /\ Cardinality(D) = Cardinality(Deliveries(e)') - Cardinality(Deliveries(e))
  <2>1. Deliveries(e)' \cap Deliveries(e) = Deliveries(e)
      BY <1>6
  <2> QED
      BY <1>9, <2>1, FS_Difference
<1> HIDE DEF D
<1>11. IsFiniteSet(N) /\ Cardinality(N) <= Cardinality(D)
  <2>1. f \in Injection(N, D)
      BY <1>5 DEF Injection, IsInjective
  <2> QED
      BY <1>10, <2>1, FS_Injection
<1>12. IsFiniteSet(Chances(e)) /\ mails[e] + Cardinality(Chances(e)) <= Cardinality(Deliveries(e))
    BY DEF ChanceInv
<1>13. /\ IsFiniteSet(Chances(e) \cup N) /\ IsFiniteSet(Chances(e) \cap N)
       /\ Cardinality(Chances(e) \cup N)
            = Cardinality(Chances(e)) + Cardinality(N) - Cardinality(Chances(e) \cap N)
    BY <1>11, <1>12, FS_Union, FS_Intersection
<1>14. IsFiniteSet(Chances(e)') /\ Cardinality(Chances(e)') <= Cardinality(Chances(e) \cup N)
  <2>1. Chances(e)' \in SUBSET (Chances(e) \cup N)
      BY <1>7
  <2> QED
      BY <1>13, <2>1, FS_Subset
<1>15. /\ Cardinality(Chances(e)) \in Nat /\ Cardinality(Chances(e)') \in Nat
       /\ Cardinality(N) \in Nat /\ Cardinality(D) \in Nat
       /\ Cardinality(Chances(e) \cap N) \in Nat /\ Cardinality(Chances(e) \cup N) \in Nat
       /\ Cardinality(Deliveries(e)) \in Nat /\ Cardinality(Deliveries(e)') \in Nat
    BY <1>9, <1>10, <1>11, <1>12, <1>13, <1>14, FS_CardinalityType
<1> QED
    BY <1>8, <1>10, <1>11, <1>12, <1>13, <1>14, <1>15

LEMMA DeliveryStep ==
    ASSUME Types, HeldInv, DeliveryInv, [Next]_vars
    PROVE  DeliveryInv'
<1> USE DEF DeliveryInv
<1>1. mails \in [Reg -> Nat]
    BY DEF Types, RegType
<1>2. CASE \A w \in Worker : ~ConsumerStep(w)
  <2>1. \A m \in Msg : queue'[m].count = queue[m].count
      BY <1>2, Counts DEF ConsumerStep, Consuming
  <2>2. \A m \in Msg : ~Sent(m)' => ~Sent(m)
      BY SentGrows
  <2>3. CountInv'
      BY <2>1, <2>2 DEF CountInv
  <2>4. /\ mails' = mails
        /\ \A w \in Worker : \/ consumer'[w] = consumer[w]
                             \/ consumer'[w] = [at |-> "idle", batch |-> {}, msg |-> NoMsg]
    <3>1. ASSUME NEW v \in Worker, Crash(v), NEW w \in Worker
          PROVE  \/ consumer'[w] = consumer[w]
                 \/ consumer'[w] = [at |-> "idle", batch |-> {}, msg |-> NoMsg]
        BY <3>1 DEF Crash, Types, MoveType
    <3>2. mails' = mails /\ (consumer' = consumer \/ \E v \in Worker : Crash(v))
        BY <1>2, Kinds, RegisterFrame, RelayFrame, QueueFrame DEF Crash, jobVars, vars
    <3> QED
        BY <3>1, <3>2
  <2>5. TakenInv'
      BY <2>4 DEF TakenInv
  <2>6. \A w \in Worker, m \in Msg : Pending(w, m)' => Pending(w, m)
      BY <2>4 DEF Pending
  <2> QED
      BY <1>1, <2>1, <2>3, <2>4, <2>5, <2>6, FewerChances DEF ChanceInv
<1>3. ASSUME NEW w \in Worker, Receive(w) PROVE DeliveryInv'
  <2>1. PICK B \in SUBSET {m \in Msg : queue[m].at = "ready" /\ queue[m].count < MaxReceive} :
           /\ queue' = [m \in Msg |-> IF m \in B
                          THEN [at |-> "inflight", count |-> queue[m].count + 1]
                          ELSE queue[m]]
           /\ consumer' = [consumer EXCEPT ![w].batch = B]
      BY <1>3 DEF Receive
  <2>2. CountInv'
      BY <2>1 DEF CountInv, Sent
  <2>3. consumer[w].msg = NoMsg
      BY <1>3 DEF Receive, Types, MoveType
  <2>4. TakenInv'
      BY <2>1, <2>3, MsgPair DEF TakenInv, Types, MoveType, ConsumerType
  <2> QED
      BY <1>3, <2>2, <2>4, ReceivedChance DEF ChanceInv
<1>4. ASSUME NEW w \in Worker, ConsumerStep(w), ~Receive(w) PROVE DeliveryInv'
  <2>1. \A v \in Worker \ {w} : consumer'[v] = consumer[v]
      BY <1>4, Moves
  <2>2. \A m \in Msg : queue'[m].count = queue[m].count
    <3>1. CASE Delete(w)
        BY <3>1, HasMessage DEF Delete, Types, MoveType, QueueType
    <3> QED
        BY <1>4, <3>1
        DEF ConsumerStep, Consuming, Take, Insert, GetUser, SendMail, Commit, SendFail,
            CommitFail, HandleFail, DeleteFail
  <2>3. CountInv'
    <3>1. \A m \in Msg : ~Sent(m)' => ~Sent(m)
        BY SentGrows
    <3> QED
        BY <2>2, <3>1 DEF CountInv
  <2>4. /\ consumer'[w].msg \notin consumer'[w].batch
        /\ \A m \in Msg : Pending(w, m)' => Pending(w, m)
    <3>1. CASE Take(w)
      <4>1. PICK m \in consumer[w].batch :
               consumer' = [consumer EXCEPT ![w] =
                   [at |-> "insert", batch |-> consumer[w].batch \ {m}, msg |-> m]]
          BY <3>1 DEF Take
      <4> QED
          BY <4>1 DEF Pending, Types, MoveType
    <3>2. CASE /\ consumer[w].at # "idle" /\ consumer'[w].batch = consumer[w].batch
               /\ consumer'[w].msg = NoMsg /\ consumer'[w].at = "idle"
      <4>1. NoMsg \notin consumer[w].batch
          BY MsgPair DEF Types, MoveType, ConsumerType
      <4> QED
          BY <3>2, <4>1 DEF Pending
    <3>3. CASE /\ consumer[w].at # "idle" /\ consumer'[w].batch = consumer[w].batch
               /\ consumer'[w].msg = consumer[w].msg
               /\ consumer'[w].at \in {"get", "send"} =>
                     consumer[w].at \in {"insert", "get", "send"}
               /\ consumer'[w].at # "insert"
        BY <3>3 DEF Pending, TakenInv
    <3> QED
        BY <1>4, <3>1, <3>2, <3>3, Moves DEF Insert
  <2>5. TakenInv'
      BY <2>1, <2>4 DEF TakenInv
  <2>6. \A v \in Worker, m \in Msg : Pending(v, m)' => Pending(v, m)
      BY <2>1, <2>4 DEF Pending
  <2>7. ASSUME NEW e \in Reg
        PROVE  /\ IsFiniteSet(Chances(e)')
               /\ mails'[e] + Cardinality(Chances(e)') <= Cardinality(Deliveries(e)')
    <3>1. CASE mails'[e] = mails[e]
        BY <1>1, <2>2, <2>6, <3>1, FewerChances
    <3>2. CASE mails'[e] # mails[e]
      <4>1. /\ consumer[w].at = "send" /\ EventAt(w) = e /\ mails'[e] = mails[e] + 1
            /\ SendMail(w) \/ SendFail(w)
          BY <1>4, <3>2, MailsOf
      <4>2. consumer'[w].at \in {"commit", "idle"} /\ consumer'[w].batch = consumer[w].batch
          BY <4>1, StepOne, LeaveOne DEF SendMail, SendFail, Types, Places
      <4> QED
          BY <2>1, <2>2, <4>1, <4>2, MailedChance
    <3> QED
        BY <3>1, <3>2
  <2> QED
      BY <2>3, <2>5, <2>7 DEF ChanceInv
<1> QED
    BY <1>2, <1>3, <1>4

LEMMA DeliveryInit == Init => DeliveryInv
<1> SUFFICES ASSUME Init PROVE DeliveryInv
    OBVIOUS
<1>1. CountInv /\ TakenInv
    BY DEF Init, CountInv, TakenInv
<1>2. ASSUME NEW e \in Reg
      PROVE  /\ IsFiniteSet(Chances(e))
             /\ mails[e] + Cardinality(Chances(e)) <= Cardinality(Deliveries(e))
  <2>1. Chances(e) = {} /\ mails[e] = 0
      BY DEF Init, Chances, Pending
  <2> QED
      BY <2>1, FS_EmptySet, DeliveriesFinite
<1> QED
    BY <1>1, <1>2 DEF DeliveryInv, ChanceInv

\* However the work on an event fails, it is mailed no more often than it was
\* delivered.
THEOREM MailedPerDelivery == Spec => []MailedOncePerDelivery
<1>1. Inv /\ DeliveryInv /\ [Next]_vars => DeliveryInv'
    BY DeliveryStep DEF Inv
<1>2. ASSUME Inv, DeliveryInv, NEW e \in Reg PROVE mails[e] <= Cardinality(Deliveries(e))
  <2>1. Cardinality(Chances(e)) \in Nat
      BY <1>2, FS_CardinalityType DEF DeliveryInv, ChanceInv
  <2>2. mails[e] + Cardinality(Chances(e)) <= Cardinality(Deliveries(e))
      BY <1>2 DEF DeliveryInv, ChanceInv
  <2>3. mails[e] \in Nat /\ Cardinality(Deliveries(e)) \in Nat
      BY <1>2, DeliveriesFinite DEF Inv, Types, RegType
  <2> QED
      BY <2>1, <2>2, <2>3
<1>3. Inv /\ DeliveryInv => MailedOncePerDelivery
    BY <1>2 DEF MailedOncePerDelivery
<1> QED
    BY <1>1, <1>3, DeliveryInit, Invariant, PTL DEF Spec
-----------------------------------------------------------------------------
(* The refinement: the pipeline implements the life-cycle of an event.     *)

StageOf == [e \in Reg |-> Stage(e)]

LEMMA RefineInit == Init => Lifecycle!Init
<1> SUFFICES ASSUME Init PROVE Lifecycle!Init
    OBVIOUS
<1>1. \A e \in Reg : Stage(e) = "none"
    BY DEF Init, Stage
<1>2. Standing = {}
    BY DEF Init, Standing, Copies
<1> QED
    BY <1>1, <1>2 DEF Lifecycle!Init, Init

\* An event of the outbox is kept as long as it is not handled.
LEMMA KeptUntilHandled ==
    Inv => \A e \in Reg : e \notin processed /\ outbox[e] # "none" => e \in Standing
<1> SUFFICES ASSUME Inv, NEW e \in Reg, e \notin processed, outbox[e] # "none"
             PROVE  e \in Standing
    OBVIOUS
<1>1. CASE outbox[e] = "unpublished"
    BY <1>1 DEF Standing
<1>2. CASE outbox[e] \in {"published", "cleaned"}
  <2>1. <<e, 1>> \in Msg /\ EventOf(<<e, 1>>) = e
      BY MsgPair
  <2>2. Sent(<<e, 1>>)
      BY <1>2 DEF Inv, SentInv, Answered
  <2>3. queue[<<e, 1>>].at # "deleted"
      BY <2>1 DEF Inv, HeldInv
  <2> QED
      BY <2>1, <2>2, <2>3 DEF Standing, Copies, Sent
<1> QED
    BY <1>1, <1>2 DEF Inv, Types, RegType

LEMMA StandingRows ==
    ASSUME Inv, NEW e \in Standing
    PROVE  e \in Reg /\ outbox[e] # "none"
<1>1. e \in Reg /\ (outbox[e] = "unpublished" \/ \E m \in Copies(e) : queue[m].at # "deleted")
    BY DEF Standing
<1>2. ASSUME NEW m \in Copies(e) PROVE outbox[e] # "none"
  <2>1. m \in Msg /\ EventOf(m) = e /\ Sent(m)
      BY DEF Copies, Sent
  <2> QED
      BY <2>1 DEF Inv, SentInv
<1> QED
    BY <1>1, <1>2

\* Nothing in the life of an event moves, but what stands for handled events
\* may go.
LEMMA Forgets ==
    ASSUME Inv, Inv', [Next]_vars, processed' = processed, mails' = mails,
           \A e \in Reg : outbox[e] = "none" <=> outbox'[e] = "none",
           \A e \in Reg : e \in Standing' => e \in Standing
    PROVE  Lifecycle!Next
<1>1. StageOf' = StageOf
    BY DEF StageOf, Stage
<1> DEFINE E == Standing \ Standing'
<1>0. (Inv => \A e \in Reg : e \notin processed /\ outbox[e] # "none" => e \in Standing)'
    BY KeptUntilHandled, PTL
<1>2. ASSUME NEW e \in E PROVE e \in Standing /\ StageOf[e] = "handled"
  <2>1. e \in Reg /\ outbox[e] # "none"
      BY StandingRows
  <2>2. outbox'[e] # "none" /\ e \notin Standing'
      BY <2>1
  <2>3. e \in processed'
      BY <1>0, <2>1, <2>2
  <2> QED
      BY <2>1, <2>3 DEF StageOf, Stage
<1>3. E \in SUBSET {e \in Standing : StageOf[e] = "handled"}
    BY <1>2
<1>4. Standing' = Standing \ E
    BY DEF Standing
<1> QED
    BY <1>1, <1>3, <1>4, Zenon DEF Lifecycle!Next, Lifecycle!Forget, StageOf

\* A message stands for its event.
Stands(m) == Sent(m) /\ queue[m].at # "deleted"

\* Nothing new stands for an event.
LEMMA StandingShrinks ==
    ASSUME Inv,
           \A e \in Reg : outbox'[e] = "unpublished" => outbox[e] = "unpublished",
           \A m \in Msg : Stands(m)' => Stands(m) \/ outbox[EventOf(m)] = "unpublished"
    PROVE  \A e \in Reg : e \in Standing' => e \in Standing
<1>1. ASSUME NEW e \in Reg, e \in Standing' PROVE e \in Standing
  <2>1. CASE outbox'[e] = "unpublished"
      BY <2>1 DEF Standing
  <2>2. CASE outbox'[e] # "unpublished"
    <3>1. PICK m \in Msg : EventOf(m) = e /\ Stands(m)'
        BY <1>1, <2>2 DEF Standing, Copies, Stands, Sent
    <3>2. CASE Stands(m)
        BY <3>1, <3>2 DEF Standing, Copies, Stands, Sent
    <3>3. CASE outbox[e] = "unpublished"
        BY <3>3 DEF Standing
    <3> QED
        BY <3>1, <3>2, <3>3
  <2> QED
      BY <2>1, <2>2
<1> QED
    BY <1>1

\* The steps of a registration: its event is recorded, or nothing moves.
LEMMA RefineRegister ==
    ASSUME Inv, Inv', [Next]_vars, NEW r \in Reg, RegisterStep(r)
    PROVE  Lifecycle!Next
<1>1. UNCHANGED <<queue, processed, mails>>
    BY RegisterFrame DEF jobVars
<1>2. CASE RegisterEvent(r)
  <2>1. /\ outbox[r] = "none" /\ outbox' = [outbox EXCEPT ![r] = "unpublished"]
        /\ outbox \in [Reg -> {"none", "unpublished", "published", "cleaned"}]
      BY <1>2 DEF RegisterEvent, RecordEvent, Inv, RegInv, Types, RegType
  <2>2. r \notin processed
      BY <2>1 DEF Inv, HeldInv
  <2>3. StageOf[r] = "none"
      BY <2>1, <2>2 DEF StageOf, Stage
  <2>4. StageOf' = [StageOf EXCEPT ![r] = "recorded"]
      BY <1>1, <2>1, <2>2 DEF StageOf, Stage
  <2>5. ASSUME NEW e PROVE e \in Standing' <=> (e \in Standing \/ e = r)
      BY <1>1, <2>1 DEF Standing, Copies
  <2>6. Standing' = Standing \cup {r}
      BY <2>5
  <2> QED
      BY <1>1, <2>3, <2>4, <2>6 DEF Lifecycle!Next, Lifecycle!Record, StageOf
<1>3. CASE ~RegisterEvent(r)
  <2>1. outbox' = outbox \/ (outbox[r] = "published" /\ outbox' = [outbox EXCEPT ![r] = "cleaned"])
      BY <1>3 DEF RegisterStep, Registering, RegisterUser, RegisterCommit, RegisterFail,
                  DeleteUser, Clean, Cleanable
  <2>2. /\ \A e \in Reg : outbox[e] = "none" <=> outbox'[e] = "none"
        /\ \A e \in Reg : outbox'[e] = "unpublished" => outbox[e] = "unpublished"
      BY <2>1 DEF Inv, Types, RegType
  <2>3. \A m \in Msg : Stands(m)' => Stands(m)
      BY <1>1 DEF Stands, Sent
  <2>4. \A e \in Reg : e \in Standing' => e \in Standing
      BY <2>2, <2>3, StandingShrinks
  <2> QED
      BY <1>1, <2>2, <2>4, Forgets
<1> QED
    BY <1>2, <1>3

\* The steps of a relay: what it sends stands for rows that are unpublished.
LEMMA RefineRelay ==
    ASSUME Inv, Inv', [Next]_vars, NEW w \in Worker, RelayStep(w)
    PROVE  Lifecycle!Next
<1>1. UNCHANGED <<processed, mails>>
    BY RelayFrame DEF jobVars
<1>2. /\ \A e \in Reg : outbox[e] = "none" <=> outbox'[e] = "none"
      /\ \A e \in Reg : outbox'[e] = "unpublished" => outbox[e] = "unpublished"
  <2>1. CASE outbox' = outbox
      BY <2>1
  <2>2. CASE Mark(w)
    <3>1. outbox' = [e \in Reg |-> IF e \in relay[w].batch THEN "published" ELSE outbox[e]]
        BY <2>2 DEF Mark
    <3>2. \A e \in relay[w].batch : outbox[e] = "unpublished"
        BY DEF Inv, BatchInv
    <3> QED
        BY <3>1, <3>2
  <2> QED
      BY <2>1, <2>2 DEF RelayStep, Relaying, Claim, Publish, PublishFail, MarkFail
<1>3. \A m \in Msg : Stands(m)' => Stands(m) \/ outbox[EventOf(m)] = "unpublished"
  <2>1. CASE queue' = queue
      BY <2>1 DEF Stands, Sent
  <2>2. ASSUME relay[w].at = "publish", NEW S \in SUBSET relay[w].batch, Send(S)
        PROVE  \A m \in Msg : Stands(m)' => Stands(m) \/ outbox[EventOf(m)] = "unpublished"
    <3>1. S \in SUBSET Reg
        BY DEF Inv, Types, MoveType, RelayType
    <3>2. \A m \in Msg \ NextCopies(S) : queue'[m] = queue[m]
        BY <2>2, <3>1, SendAll DEF Inv
    <3>3. \A m \in NextCopies(S) : outbox[EventOf(m)] = "unpublished"
        BY <2>2, NextCopy DEF Inv
    <3> QED
        BY <3>2, <3>3 DEF Stands, Sent
  <2> QED
      BY <2>1, <2>2
      DEF RelayStep, Relaying, Claim, Publish, Mark, PublishFail, MarkFail
<1> QED
    BY <1>1, <1>2, <1>3, StandingShrinks, Forgets

\* The steps of a consumer: the mail is attempted, the event is handled, or a
\* message of a handled event goes.
LEMMA RefineConsumer ==
    ASSUME Inv, Inv', [Next]_vars, NEW w \in Worker, ConsumerStep(w)
    PROVE  Lifecycle!Next \/ UNCHANGED Lifecycle!lifecycleVars
<1>1. outbox' = outbox
    BY ConsumerFrame
<1>2. \A m \in Msg : Stands(m)' => Stands(m)
  <2>1. CASE Receive(w)
    <3>1. PICK B \in SUBSET {n \in Msg : queue[n].at = "ready" /\ queue[n].count < MaxReceive} :
             queue' = [n \in Msg |-> IF n \in B
                            THEN [at |-> "inflight", count |-> queue[n].count + 1]
                            ELSE queue[n]]
        BY <2>1 DEF Receive
    <3> QED
        BY <3>1 DEF Stands, Sent
  <2>2. CASE Delete(w)
    <3>1. consumer[w].msg \in Msg
        BY <2>2, HasMessage DEF Delete, Inv, Types
    <3>2. /\ \A n \in Msg \ {consumer[w].msg} : queue'[n] = queue[n]
          /\ queue'[consumer[w].msg].at =
                IF queue[consumer[w].msg].at = "dead" THEN "dead" ELSE "deleted"
        BY <2>2, <3>1 DEF Delete, Inv, Types, MoveType, QueueType
    <3> QED
        BY <3>1, <3>2 DEF Stands, Sent
  <2>3. CASE queue' = queue
      BY <2>3 DEF Stands, Sent
  <2> QED
      BY <2>1, <2>2, <2>3
      DEF ConsumerStep, Consuming, Take, Insert, GetUser, SendMail, Commit, SendFail,
          CommitFail, HandleFail, DeleteFail
<1>3. Types
    BY DEF Inv
<1>4. CASE UNCHANGED <<processed, mails>>
  <2>1. \A e \in Reg : e \in Standing' => e \in Standing
      BY <1>1, <1>2, StandingShrinks
  <2> QED
      BY <1>1, <1>4, <2>1, Forgets
<1> DEFINE e == EventAt(w)
<1>5. ASSUME consumer[w].at \in {"send", "commit"}
      PROVE  e \in Reg /\ e \notin processed /\ StageOf[e] = "recorded"
  <2>1. e \in Reg /\ consumer[w].msg \in Msg
      BY <1>3, <1>5, HasMessage DEF Types
  <2>2. e \notin processed
      BY <1>5 DEF Inv, WorkInv, Working
  <2>3. outbox[e] # "none"
      BY <1>5, <2>1 DEF Inv, HeldInv, SentInv, EventAt
  <2> QED
      BY <2>1, <2>2, <2>3 DEF StageOf, Stage
<1>6. ASSUME queue' = queue PROVE Standing' = Standing
    BY <1>1, <1>6 DEF Standing, Copies
<1>7. CASE mails' # mails
  <2>1. /\ consumer[w].at = "send" /\ Accept(e)
        /\ SendMail(w) \/ SendFail(w)
      BY <1>3, <1>7, MailsOf
  <2>2. processed' = processed /\ queue' = queue
      BY <2>1 DEF SendMail, SendFail
  <2>3. StageOf' = StageOf
      BY <1>1, <2>2 DEF StageOf, Stage
  <2>4. e \in Reg /\ StageOf[e] = "recorded"
      BY <1>5, <2>1
  <2>5. Standing' = Standing
      BY <1>6, <2>2
  <2>6. mails' = [mails EXCEPT ![e] = @ + 1]
      BY <2>1 DEF Accept
  <2> QED
      BY <2>3, <2>4, <2>5, <2>6 DEF Lifecycle!Next, Lifecycle!Attempt, StageOf
<1>8. CASE mails' = mails /\ processed' # processed
  <2>1. /\ consumer[w].at = "commit" /\ processed' = processed \cup {e} /\ queue' = queue
      BY <1>8
      DEF ConsumerStep, Consuming, Receive, Take, Insert, GetUser, SendMail, Commit, Delete,
          SendFail, CommitFail, HandleFail, DeleteFail
  <2>2. e \in Reg /\ e \notin processed /\ StageOf[e] = "recorded"
      BY <1>5, <2>1
  <2>3. mails[e] > 0
      BY <2>1 DEF Inv, MailInv
  <2>4. Standing' = Standing
      BY <1>6, <2>1
  <2>5. ASSUME NEW d \in Reg
        PROVE  Stage(d)' = IF d = e THEN "handled" ELSE Stage(d)
      BY <1>1, <2>1 DEF Stage
  <2>6. StageOf' = [StageOf EXCEPT ![e] = "handled"]
      BY <2>2, <2>5 DEF StageOf
  <2> QED
      BY <1>8, <2>2, <2>3, <2>4, <2>6 DEF Lifecycle!Next, Lifecycle!Handle, StageOf
<1> QED
    BY <1>4, <1>7, <1>8

\* SQS moves a message on, and a crash forgets none.
LEMMA RefineOther ==
    ASSUME Inv, Inv', [Next]_vars,
           \/ \E w \in Worker : Crash(w)
           \/ \E m \in Msg : QueueStep(m)
           \/ UNCHANGED vars
    PROVE  Lifecycle!Next
<1>1. UNCHANGED <<outbox, processed, mails>>
    BY QueueFrame DEF Crash, jobVars, vars
<1>2. \A m \in Msg : Stands(m)' => Stands(m)
  <2>1. CASE queue' = queue
      BY <2>1 DEF Stands, Sent
  <2>2. ASSUME NEW n \in Msg, QueueStep(n)
        PROVE  \A m \in Msg : Stands(m)' => Stands(m)
      BY <2>2 DEF QueueStep, VisibilityTimeout, Redrive, Stands, Sent, Inv, Types, MoveType,
                  QueueType
  <2> QED
      BY <2>1, <2>2 DEF Crash, vars
<1>3. \A e \in Reg : e \in Standing' => e \in Standing
    BY <1>1, <1>2, StandingShrinks
<1> QED
    BY <1>1, <1>3, Forgets

\* From the outbox row to the last delivery no event is lost before it is
\* handled, none is handled without its mail, and none mailed after.
THEOREM ImplementsEventLifecycle == Spec => ImplementsLifecycle
<1>1. Inv /\ Inv' /\ [Next]_vars => [Lifecycle!Next]_(Lifecycle!lifecycleVars)
    BY Kinds, RefineRegister, RefineRelay, RefineConsumer, RefineOther
<1> QED
    BY <1>1, RefineInit, Invariant, PTL DEF Spec, ImplementsLifecycle, Lifecycle!Spec
=============================================================================
