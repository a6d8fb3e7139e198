------------------------- MODULE WorkerProcessProofs -------------------------
(***************************************************************************)
(* What no size of the pool, the bus or the batch changes in the worker    *)
(* process: no path through a transaction leaks a connection, with three   *)
(* connections or more the relay and the consumer never wait for each      *)
(* other in a circle, and an event is lost only after two failed           *)
(* deliveries.  One inductive invariant says who holds which connection,   *)
(* the other where every event is that a batch has let go.                 *)
(***************************************************************************)
EXTENDS WorkerProcess, FiniteSetTheorems, TLAPS

RelayShape == relay = [at |-> relay.at, batch |-> relay.batch, rest |-> relay.rest]
ConsumerShape ==
    consumer = [at |-> consumer.at, event |-> consumer.event, try |-> consumer.try]

PoolInv ==
    /\ RelayShape /\ ConsumerShape
    /\ free \in Nat
    /\ NoConnectionLeak

\* What a step of one goroutine has to show: its own share and the pool's move
\* together, the other two keep theirs.
LEMMA ShareOfRelay ==
    ASSUME PoolInv, UNCHANGED <<cleaner, consumer>>, RelayShape', free' \in Nat,
           free' + RelayConns' = free + RelayConns
    PROVE  PoolInv'
BY SMT DEF PoolInv, ConsumerShape, NoConnectionLeak, CleanConns, HandleConns, RelayConns

LEMMA ShareOfCleaner ==
    ASSUME PoolInv, UNCHANGED <<relay, consumer>>, free' \in Nat,
           free' + CleanConns' = free + CleanConns
    PROVE  PoolInv'
BY SMT DEF PoolInv, RelayShape, ConsumerShape, NoConnectionLeak, CleanConns,
           HandleConns, RelayConns

LEMMA ShareOfConsumer ==
    ASSUME PoolInv, UNCHANGED <<relay, cleaner>>, ConsumerShape', free' \in Nat,
           free' + HandleConns' = free + HandleConns
    PROVE  PoolInv'
BY SMT DEF PoolInv, RelayShape, NoConnectionLeak, CleanConns, HandleConns, RelayConns

\* A step of the relay takes or gives back exactly the connection of its
\* transaction.
LEMMA RelayKeepsCount ==
    ASSUME PoolInv, RelayBegin \/ RelayStep
    PROVE  PoolInv'
<1>1. free \in Nat /\ RelayShape
  BY DEF PoolInv
<1>2. UNCHANGED <<cleaner, consumer>>
  BY DEF RelayBegin, RelayStep, RelayClaim, RelayPut, RelayMark, RelayFail,
         RelayStop, RelayVars
<1>3. CASE RelayBegin
  <2>1. RelayShape' /\ relay'.at = "claim" /\ relay.at = "idle"
    BY <1>1, <1>3 DEF RelayBegin, RelayShape
  <2>2. free' \in Nat /\ free = free' + 1
    BY <1>1, <1>3, SMT DEF RelayBegin, Acquire
  <2>. QED
    BY <1>2, <2>1, <2>2, ShareOfRelay DEF RelayConns
<1>4. CASE RelayClaim
  <2>1. CASE relay' = relayIdle /\ GiveBack(1)
    <3>1. RelayShape' /\ relay'.at = "idle" /\ relay.at = "claim"
      BY <1>4, <2>1 DEF RelayClaim, RelayShape, relayIdle
    <3>. QED
      BY <1>1, <1>2, <2>1, <3>1, ShareOfRelay DEF RelayConns, GiveBack
  <2>2. CASE /\ RelayShape' /\ relay'.at = "put"
             /\ UNCHANGED free
    <3>1. relay.at = "claim"
      BY <1>4 DEF RelayClaim
    <3>. QED
      BY <1>1, <1>2, <2>2, <3>1, ShareOfRelay DEF RelayConns
  <2>. QED
    BY <1>4, <2>1, <2>2 DEF RelayClaim, RelayShape
<1>5. CASE RelayPut
  <2>1. /\ RelayShape' /\ relay'.at \in {"mark", "put"} /\ relay.at = "put"
        /\ UNCHANGED free
    BY <1>1, <1>5 DEF RelayPut, RelayShape
  <2>. QED
    BY <1>1, <1>2, <2>1, ShareOfRelay DEF RelayConns
<1>6. CASE RelayMark
  <2>1. RelayShape' /\ relay'.at = "idle" /\ relay.at = "mark" /\ free' = free + 1
    BY <1>6 DEF RelayMark, RelayShape, relayIdle, GiveBack
  <2>. QED
    BY <1>1, <1>2, <2>1, ShareOfRelay DEF RelayConns
<1>7. CASE RelayFail
  <2>1. /\ RelayShape' /\ relay'.at = "idle" /\ relay.at \in {"claim", "put", "mark"}
        /\ free' = free + 1
    BY <1>7 DEF RelayFail, RelayCanFail, RelayShape, relayIdle, GiveBack
  <2>. QED
    BY <1>1, <1>2, <2>1, ShareOfRelay DEF RelayConns
<1>8. CASE RelayStop
  <2>1. RelayShape' /\ relay'.at = "ended" /\ relay.at = "idle" /\ UNCHANGED free
    BY <1>1, <1>8 DEF RelayStop, RelayShape
  <2>. QED
    BY <1>1, <1>2, <2>1, ShareOfRelay DEF RelayConns
<1>. QED
  BY <1>3, <1>4, <1>5, <1>6, <1>7, <1>8 DEF RelayStep

\* The cleaner holds a connection for its one statement.
LEMMA CleanerKeepsCount ==
    ASSUME PoolInv, CleanBegin \/ CleanStep
    PROVE  PoolInv'
<1>1. free \in Nat
  BY DEF PoolInv
<1>2. UNCHANGED <<relay, consumer>>
  BY DEF CleanBegin, CleanStep, CleanDelete, CleanFail, CleanStop, CleanerVars
<1>3. free' \in Nat /\ free' + CleanConns' = free + CleanConns
  BY <1>1, SMT DEF CleanBegin, CleanStep, CleanDelete, CleanFail, CleanStop,
                   Acquire, GiveBack, CleanConns
<1>. QED
  BY <1>2, <1>3, ShareOfCleaner

\* HandleFail gives back what the handler holds where it stands.
LEMMA ConnsAtIsHeld == ConnsAt(consumer.at) = HandleConns
BY DEF ConnsAt, HandleConns

\* Each step of the consumer moves as many connections as it says.
LEMMA ConsumerKeepsCount ==
    ASSUME PoolInv, HandleBegin \/ GetUserBegin \/ ConsumerStep
    PROVE  PoolInv'
<1>1. free \in Nat /\ ConsumerShape
  BY DEF PoolInv
<1>2. UNCHANGED <<relay, cleaner>>
  BY DEF HandleBegin, GetUserBegin, ConsumerStep, Receive, HandleInsert,
         GetUserEnd, SendMail, HandleCommit, HandleFail, ConsumerStop,
         ConsumerVars
<1>3. CASE HandleBegin
  <2>1. ConsumerShape' /\ consumer'.at = "insert" /\ consumer.at = "begin"
    BY <1>1, <1>3 DEF HandleBegin, ConsumerTo, ConsumerShape
  <2>2. free' \in Nat /\ free = free' + 1
    BY <1>1, <1>3, SMT DEF HandleBegin, Acquire
  <2>. QED
    BY <1>2, <2>1, <2>2, ShareOfConsumer DEF HandleConns
<1>4. CASE GetUserBegin
  <2>1. ConsumerShape' /\ consumer'.at = "get" /\ consumer.at = "wait"
    BY <1>1, <1>4 DEF GetUserBegin, ConsumerTo, ConsumerShape
  <2>2. free' \in Nat /\ free = free' + 1
    BY <1>1, <1>4, SMT DEF GetUserBegin, Acquire
  <2>3. HandleConns' = 2 /\ HandleConns = 1
    BY <2>1 DEF HandleConns
  <2>4. free' + HandleConns' = free + HandleConns
    BY <2>2, <2>3, SMT
  <2>. QED
    BY <1>2, <2>1, <2>2, <2>4, ShareOfConsumer
<1>5. CASE Receive
  <2>1. ConsumerShape' /\ consumer'.at = "begin" /\ consumer.at = "idle" /\ UNCHANGED free
    BY <1>5 DEF Receive, ConsumerShape
  <2>. QED
    BY <1>1, <1>2, <2>1, ShareOfConsumer DEF HandleConns
<1>6. CASE HandleInsert
  <2>1. CASE consumer' = consumerIdle /\ GiveBack(1)
    <3>1. ConsumerShape' /\ consumer'.at = "idle" /\ consumer.at = "insert"
      BY <1>6, <2>1 DEF HandleInsert, ConsumerShape, consumerIdle
    <3>. QED
      BY <1>1, <1>2, <2>1, <3>1, ShareOfConsumer DEF HandleConns, GiveBack
  <2>2. CASE ConsumerTo("wait") /\ UNCHANGED free
    <3>1. ConsumerShape' /\ consumer'.at = "wait" /\ consumer.at = "insert"
      BY <1>1, <1>6, <2>2 DEF HandleInsert, ConsumerShape, ConsumerTo
    <3>. QED
      BY <1>1, <1>2, <2>2, <3>1, ShareOfConsumer DEF HandleConns
  <2>. QED
    BY <1>6, <2>1, <2>2 DEF HandleInsert
<1>7. CASE GetUserEnd
  <2>1. ConsumerShape' /\ consumer'.at = "send" /\ consumer.at = "get" /\ free' = free + 1
    BY <1>1, <1>7 DEF GetUserEnd, ConsumerTo, ConsumerShape, GiveBack
  <2>2. HandleConns' = 1 /\ HandleConns = 2
    BY <2>1 DEF HandleConns
  <2>3. free' + HandleConns' = free + HandleConns /\ free' \in Nat
    BY <1>1, <2>1, <2>2, SMT
  <2>. QED
    BY <1>2, <2>1, <2>3, ShareOfConsumer
<1>8. CASE SendMail
  <2>1. ConsumerShape' /\ consumer'.at = "commit" /\ consumer.at = "send" /\ UNCHANGED free
    BY <1>1, <1>8 DEF SendMail, ConsumerTo, ConsumerShape
  <2>. QED
    BY <1>1, <1>2, <2>1, ShareOfConsumer DEF HandleConns
<1>9. CASE HandleCommit
  <2>1. ConsumerShape' /\ consumer'.at = "idle" /\ consumer.at = "commit" /\ free' = free + 1
    BY <1>9 DEF HandleCommit, ConsumerShape, consumerIdle, GiveBack
  <2>. QED
    BY <1>1, <1>2, <2>1, ShareOfConsumer DEF HandleConns
<1>10. CASE HandleFail
  <2>1. ConsumerShape' /\ consumer'.at \in {"idle", "begin"}
    <3>1. \/ consumer' = consumerIdle
          \/ consumer' = [consumer EXCEPT !.at = "begin", !.try = @ + 1]
      BY <1>10 DEF HandleFail
    <3>2. CASE consumer' = consumerIdle
      BY <3>2 DEF ConsumerShape, consumerIdle
    <3>3. CASE consumer' = [consumer EXCEPT !.at = "begin", !.try = @ + 1]
      <4> DEFINE n == consumer.try + 1
      <4>1. consumer' = [consumer EXCEPT !.at = "begin", !.try = n]
        BY <3>3
      <4> HIDE DEF n
      <4>. QED
        BY <1>1, <4>1 DEF ConsumerShape
    <3>. QED
      BY <3>1, <3>2, <3>3
  <2>2. free' = free + HandleConns /\ HandleConns \in Nat
    BY <1>10, ConnsAtIsHeld DEF HandleFail, GiveBack, HandleConns
  <2>3. HandleConns' = 0
    BY <2>1 DEF HandleConns
  <2>4. free' + HandleConns' = free + HandleConns /\ free' \in Nat
    BY <1>1, <2>2, <2>3, SMT
  <2>. QED
    BY <1>2, <2>1, <2>4, ShareOfConsumer
<1>11. CASE ConsumerStop
  <2>1. ConsumerShape' /\ consumer'.at = "ended" /\ consumer.at = "idle" /\ UNCHANGED free
    BY <1>1, <1>11 DEF ConsumerStop, ConsumerTo, ConsumerShape
  <2>. QED
    BY <1>1, <1>2, <2>1, ShareOfConsumer DEF HandleConns
<1>. QED
  BY <1>3, <1>4, <1>5, <1>6, <1>7, <1>8, <1>9, <1>10, <1>11 DEF ConsumerStep

\* The invariant is inductive.
LEMMA PoolInvInductive == Spec => []PoolInv
<1>1. Init => PoolInv
  BY SizeAssumption, SMT DEF Init, PoolInv, RelayShape, ConsumerShape, NoConnectionLeak,
         relayIdle, consumerIdle, RelayConns, CleanConns, HandleConns
<1>2. PoolInv /\ [Next]_vars => PoolInv'
  <2>. SUFFICES ASSUME PoolInv, [Next]_vars
                PROVE  PoolInv'
    OBVIOUS
  <2>1. CASE UNCHANGED <<relay, cleaner, consumer, free>>
    BY <2>1 DEF PoolInv, RelayShape, ConsumerShape, NoConnectionLeak,
                RelayConns, CleanConns, HandleConns
  <2>2. CASE RelayBegin \/ RelayStep
    BY <2>2, RelayKeepsCount
  <2>3. CASE CleanBegin \/ CleanStep
    BY <2>3, CleanerKeepsCount
  <2>4. CASE HandleBegin \/ GetUserBegin \/ ConsumerStep
    BY <2>4, ConsumerKeepsCount
  <2>. QED
    BY <2>1, <2>2, <2>3, <2>4 DEF Next, Record, Stop, Exit, vars
<1>. QED
  BY <1>1, <1>2, PTL DEF Spec

\* Every connection is free or belongs to a call that runs, on every path of
\* WithTxOptions and for every size of the pool.
THEOREM NoLeak == Spec => []NoConnectionLeak
<1>1. PoolInv => NoConnectionLeak
  BY DEF PoolInv
<1>. QED
  BY <1>1, PoolInvInductive, PTL

\* With three connections or more the relay, waiting for room on the bus, and
\* the consumer, waiting for a connection, never block each other.
THEOREM WorkerNeverBlocksItself == Spec => []NoCircularWait
<1>1. PoolInv => NoCircularWait
  <2>. SUFFICES ASSUME PoolInv, MaxConns >= 3, CircularWait
                PROVE  FALSE
    BY DEF NoCircularWait
  <2>1. RelayConns = 1 /\ CleanConns = 0 /\ free = 0
    BY DEF CircularWait, RelayConns, CleanConns
  <2>2. HandleConns \in {0, 1}
    BY DEF CircularWait, HandleConns
  <2>3. free + RelayConns + CleanConns + HandleConns = MaxConns
    BY DEF PoolInv, NoConnectionLeak
  <2>. QED
    BY <2>1, <2>2, <2>3, SMT
<1>. QED
  BY <1>1, PoolInvInductive, PTL
-----------------------------------------------------------------------------
(* The events on their way.                                                *)

RelayTypes ==
    /\ relay.at \in {"idle", "claim", "put", "mark", "ended"}
    /\ relay.batch \in SUBSET Event /\ relay.rest \in SUBSET relay.batch
ConsumerTypes ==
    /\ consumer.at \in {"idle", "begin", "insert", "wait", "get", "send", "commit", "ended"}
    /\ consumer.event \in Event \cup {0} /\ consumer.try \in 0..Deliveries
    /\ consumer.at \in {"idle", "ended"} <=> consumer.event = 0
TableTypes ==
    /\ outbox \in [Event -> {"absent", "unpublished", "published", "deleted"}]
    /\ cleaner \in {"idle", "delete", "ended"}
    /\ bus \in Seq(Event) /\ Len(bus) <= BusSize
    /\ processed \in SUBSET Event /\ lost \in SUBSET Event
    /\ stopping \in BOOLEAN /\ faults \in 0..MaxFaults

\* What the relay has put is accounted for, and what it marks it has put.
PutInv ==
    /\ relay.at \in {"put", "mark"} => relay.batch \ relay.rest \subseteq Accounted
    /\ relay.at = "mark" => relay.rest = {}
    /\ \A e \in Event : outbox[e] \in {"published", "deleted"} => e \in Accounted

\* A loss takes two failures, the first of which a second delivery remembers.
LossInv ==
    ~stopping => 2 * Cardinality(lost) + (IF consumer.try = 2 THEN 1 ELSE 0) <= faults

EventInv ==
    PoolInv /\ RelayTypes /\ ConsumerTypes /\ TableTypes /\ PutInv /\ LossInv

\* A failure is counted unless the process is being stopped.
LEMMA FaultCounts ==
    ASSUME TableTypes, Fault
    PROVE  faults' \in 0..MaxFaults /\ (~stopping => faults' = faults + 1)
BY SizeAssumption DEF Fault, TableTypes

\* The relay's steps keep the types of its batch.
LEMMA RelayTyped ==
    ASSUME RelayShape, RelayTypes, RelayBegin \/ RelayStep
    PROVE  RelayTypes'
<1>1. Batch \in SUBSET Event
  BY DEF Batch, Unpublished
<1>2. CASE RelayBegin
  BY <1>2 DEF RelayBegin, RelayShape, RelayTypes
<1>3. CASE RelayClaim
  BY <1>1, <1>3 DEF RelayClaim, RelayTypes, relayIdle
<1>4. CASE RelayPut
  BY <1>4 DEF RelayPut, RelayShape, RelayTypes
<1>5. CASE RelayMark \/ RelayFail
  BY <1>5 DEF RelayMark, RelayFail, RelayTypes, relayIdle
<1>6. CASE RelayStop
  BY <1>6 DEF RelayStop, RelayShape, RelayTypes
<1>. QED
  BY <1>2, <1>3, <1>4, <1>5, <1>6 DEF RelayStep

\* A step of the relay: what it puts is on the bus, what it marks was put.
LEMMA RelayKeepsEvents ==
    ASSUME EventInv, RelayBegin \/ RelayStep
    PROVE  EventInv'
<1>1. PoolInv'
  BY RelayKeepsCount DEF EventInv
<1>2. RelayShape /\ RelayTypes /\ TableTypes
  BY DEF EventInv, PoolInv
<1>3. RelayTypes'
  BY <1>2, RelayTyped
<1>4. UNCHANGED <<cleaner, consumer, processed, lost, stopping>>
  BY DEF RelayBegin, RelayStep, RelayClaim, RelayPut, RelayMark, RelayFail, RelayStop,
         RelayVars
<1>5. ConsumerTypes'
  BY <1>4 DEF EventInv, ConsumerTypes
<1>6. CASE RelayPut
  <2>1. PICK e \in relay.rest :
           /\ bus' = Append(bus, e)
           /\ relay' = [relay EXCEPT !.rest = @ \ {e},
                                     !.at = IF relay.rest = {e} THEN "mark" ELSE "put"]
    BY <1>6 DEF RelayPut
  <2>2. e \in Event /\ UNCHANGED <<outbox, faults>>
    BY <1>2, <1>6 DEF RelayPut, RelayTypes
  <2>3. bus' \in Seq(Event) /\ Len(bus') = Len(bus) + 1 /\ bus'[Len(bus) + 1] = e
        /\ \A i \in 1..Len(bus) : bus'[i] = bus[i]
    BY <1>2, <2>1, <2>2 DEF TableTypes
  <2>4. ToSet(bus') = ToSet(bus) \cup {e}
    BY <1>2, <2>3 DEF ToSet, TableTypes
  <2>5. Accounted' = Accounted \cup {e}
    BY <1>4, <2>4 DEF Accounted
  <2>6. relay.at = "put" /\ relay'.batch = relay.batch /\ relay'.rest = relay.rest \ {e}
        /\ (relay'.at = "mark" => relay.rest = {e})
    BY <1>2, <1>6, <2>1 DEF RelayShape, RelayPut
  <2>7. PutInv'
    BY <2>2, <2>5, <2>6 DEF EventInv, PutInv
  <2>8. TableTypes'
    BY <1>2, <1>4, <1>6, <2>2, <2>3, SizeAssumption DEF RelayPut, HasRoom, TableTypes
  <2>9. LossInv'
    BY <1>4, <2>2 DEF EventInv, LossInv
  <2>. QED
    BY <1>1, <1>3, <1>5, <2>7, <2>8, <2>9 DEF EventInv
<1>7. CASE RelayMark
  <2>1. /\ relay.at = "mark" /\ relay' = relayIdle /\ UNCHANGED <<bus, faults>>
        /\ outbox' = [e \in Event |-> IF e \in relay.batch THEN "published" ELSE outbox[e]]
    BY <1>7 DEF RelayMark
  <2>2. relay.batch \subseteq Accounted
    BY <2>1 DEF EventInv, PutInv
  <2>3. Accounted' = Accounted
    BY <1>4, <2>1 DEF Accounted
  <2>4. PutInv'
    BY <2>1, <2>2, <2>3 DEF EventInv, PutInv, relayIdle
  <2>5. TableTypes' /\ LossInv'
    BY <1>2, <1>4, <2>1 DEF EventInv, TableTypes, LossInv
  <2>. QED
    BY <1>1, <1>3, <1>5, <2>4, <2>5 DEF EventInv
<1>8. CASE RelayFail
  <2>1. relay' = relayIdle /\ UNCHANGED <<bus, outbox>>
    BY <1>8 DEF RelayFail
  <2>2. faults' \in 0..MaxFaults /\ (~stopping => faults' = faults + 1)
    BY <1>2, <1>8, FaultCounts DEF RelayFail
  <2>3. PutInv'
    BY <1>4, <2>1 DEF EventInv, PutInv, Accounted, relayIdle
  <2>4. TableTypes'
    BY <1>2, <1>4, <2>1, <2>2 DEF TableTypes
  <2>5. lost \subseteq Event /\ IsFiniteSet(Event)
    BY <1>2, FS_Interval, SizeAssumption DEF Event, TableTypes
  <2>6. Cardinality(lost) \in Nat
    BY <2>5, FS_Subset, FS_CardinalityType
  <2>7. LossInv'
    BY <1>2, <1>4, <2>2, <2>6, SizeAssumption DEF EventInv, LossInv, TableTypes
  <2>. QED
    BY <1>1, <1>3, <1>5, <2>3, <2>4, <2>7 DEF EventInv
<1>9. CASE RelayBegin \/ RelayClaim \/ RelayStop
  <2>1. UNCHANGED <<outbox, bus, faults>>
    BY <1>9 DEF RelayBegin, RelayClaim, RelayStop
  <2>2. relay'.at \notin {"put", "mark"} \/ (relay'.at = "put" /\ relay'.batch = relay'.rest)
    BY <1>2, <1>9 DEF RelayBegin, RelayClaim, RelayStop, RelayShape, relayIdle
  <2>3. PutInv'
    BY <1>4, <2>1, <2>2 DEF EventInv, PutInv, Accounted
  <2>4. TableTypes' /\ LossInv'
    BY <1>2, <1>4, <2>1 DEF EventInv, TableTypes, LossInv
  <2>. QED
    BY <1>1, <1>3, <1>5, <2>3, <2>4 DEF EventInv
<1>. QED
  BY <1>6, <1>7, <1>8, <1>9 DEF RelayStep

\* Losses are counted with a natural number.
LEMMA LostCount ==
    ASSUME TableTypes
    PROVE  /\ IsFiniteSet(lost) /\ Cardinality(lost) \in Nat
           /\ \A e : Cardinality(lost \cup {e}) \in Nat
                     /\ Cardinality(lost \cup {e}) <= Cardinality(lost) + 1
<1>1. lost \subseteq Event /\ IsFiniteSet(Event)
  BY FS_Interval, SizeAssumption DEF Event, TableTypes
<1>2. IsFiniteSet(lost) /\ Cardinality(lost) \in Nat
  BY <1>1, FS_Subset, FS_CardinalityType
<1>3. ASSUME NEW e
      PROVE  Cardinality(lost \cup {e}) \in Nat
             /\ Cardinality(lost \cup {e}) <= Cardinality(lost) + 1
  <2>1. /\ IsFiniteSet(lost \cup {e})
        /\ Cardinality(lost \cup {e}) =
             IF e \in lost THEN Cardinality(lost) ELSE Cardinality(lost) + 1
    BY <1>2, FS_AddElement
  <2>2. Cardinality(lost \cup {e}) \in Nat
    BY <2>1, FS_CardinalityType
  <2>3. Cardinality(lost \cup {e}) \in {Cardinality(lost), Cardinality(lost) + 1}
    BY <2>1
  <2>. QED
    BY <1>2, <2>2, <2>3
<1>. QED
  BY <1>2, <1>3

\* The cleaner deletes published rows only.
LEMMA CleanerKeepsEvents ==
    ASSUME EventInv, CleanBegin \/ CleanStep
    PROVE  EventInv'
<1>1. PoolInv'
  BY CleanerKeepsCount DEF EventInv
<1>2. TableTypes
  BY DEF EventInv
<1>3. UNCHANGED <<relay, consumer, bus, processed, lost, stopping>>
  BY DEF CleanBegin, CleanStep, CleanDelete, CleanFail, CleanStop, CleanerVars
<1>4. RelayTypes' /\ ConsumerTypes' /\ Accounted' = Accounted
  BY <1>3 DEF EventInv, RelayTypes, ConsumerTypes, Accounted
<1>5. cleaner' \in {"idle", "delete", "ended"}
  BY DEF CleanBegin, CleanStep, CleanDelete, CleanFail, CleanStop
<1>6. /\ outbox' \in [Event -> {"absent", "unpublished", "published", "deleted"}]
      /\ \A e \in Event : outbox'[e] \in {"published", "deleted"}
                              => outbox[e] \in {"published", "deleted"}
  <2>1. CASE CleanDelete
    <3>1. PICK E \in SUBSET {e \in Event : outbox[e] = "published"} :
             outbox' = [e \in Event |-> IF e \in E THEN "deleted" ELSE outbox[e]]
      BY <2>1 DEF CleanDelete
    <3>. QED
      BY <1>2, <3>1 DEF TableTypes
  <2>2. CASE outbox' = outbox
    BY <1>2, <2>2 DEF TableTypes
  <2>. QED
    BY <2>1, <2>2 DEF CleanBegin, CleanStep, CleanFail, CleanStop
<1>7. PutInv'
  BY <1>3, <1>4, <1>6 DEF EventInv, PutInv
<1>8. faults' = faults \/ (faults' \in 0..MaxFaults /\ (~stopping => faults' = faults + 1))
  BY <1>2, FaultCounts DEF CleanBegin, CleanStep, CleanDelete, CleanFail, CleanStop
<1>9. TableTypes'
  BY <1>2, <1>3, <1>5, <1>6, <1>8 DEF TableTypes
<1>10. Cardinality(lost) \in Nat /\ faults \in Nat
  BY <1>2, LostCount, SizeAssumption DEF TableTypes
<1>11. LossInv'
  BY <1>3, <1>8, <1>10 DEF EventInv, LossInv
<1>. QED
  BY <1>1, <1>4, <1>7, <1>9, <1>11 DEF EventInv

\* A step of the consumer: an event it lets go is processed or lost.
LEMMA ConsumerKeepsEvents ==
    ASSUME EventInv, HandleBegin \/ GetUserBegin \/ ConsumerStep
    PROVE  EventInv'
<1>1. PoolInv'
  BY ConsumerKeepsCount DEF EventInv
<1>2. ConsumerShape /\ ConsumerTypes /\ TableTypes
  BY DEF EventInv, PoolInv
<1>3. UNCHANGED <<outbox, relay, cleaner, stopping>>
  BY DEF HandleBegin, GetUserBegin, ConsumerStep, Receive, HandleInsert, GetUserEnd,
         SendMail, HandleCommit, HandleFail, ConsumerStop, ConsumerVars
<1>4. RelayTypes'
  BY <1>3 DEF EventInv, RelayTypes
<1>5. Cardinality(lost) \in Nat /\ faults \in Nat
      /\ \A e : Cardinality(lost \cup {e}) \in Nat
                /\ Cardinality(lost \cup {e}) <= Cardinality(lost) + 1
  <2>1. faults \in Nat
    BY <1>2, SizeAssumption DEF TableTypes
  <2>2. /\ Cardinality(lost) \in Nat
        /\ \A e : Cardinality(lost \cup {e}) \in Nat
                  /\ Cardinality(lost \cup {e}) <= Cardinality(lost) + 1
    BY <1>2, LostCount, Zenon
  <2>. QED
    BY <2>1, <2>2, Zenon
<1>6. ASSUME ConsumerTypes', TableTypes', LossInv', Accounted \ {0} \subseteq Accounted'
      PROVE  EventInv'
  <2>1. PutInv'
    BY <1>3, <1>6 DEF EventInv, PutInv, RelayTypes, Event
  <2>. QED
    BY <1>1, <1>4, <1>6, <2>1 DEF EventInv
<1>7. CASE Receive
  <2>1. /\ consumer.at = "idle" /\ bus # <<>> /\ bus' = Tail(bus)
        /\ consumer' = [at |-> "begin", event |-> Head(bus), try |-> 1]
        /\ UNCHANGED <<processed, lost, faults>>
    BY <1>7 DEF Receive
  <2>2. /\ Head(bus) \in Event /\ bus' \in Seq(Event) /\ Len(bus') = Len(bus) - 1
        /\ Len(bus) \in Nat
    BY <1>2, <2>1 DEF TableTypes
  <2>3. ConsumerTypes'
    BY <2>1, <2>2 DEF ConsumerTypes, Event, Deliveries
  <2>4. TableTypes'
    BY <1>2, <1>3, <2>1, <2>2, SizeAssumption DEF TableTypes
  <2>5. LossInv'
    BY <1>3, <1>5, <2>1 DEF EventInv, LossInv
  <2>6. ASSUME NEW i \in DOMAIN bus PROVE bus[i] \in Accounted'
    <3>1. CASE i = 1
      BY <1>2, <2>1, <3>1 DEF Accounted, TableTypes
    <3>2. CASE i # 1
      <4>1. i - 1 \in DOMAIN bus' /\ bus'[i - 1] = bus[i]
        BY <1>2, <2>1, <2>2, <3>2 DEF TableTypes
      <4>. QED
        BY <4>1 DEF Accounted, ToSet
    <3>. QED
      BY <3>1, <3>2
  <2>7. consumer.event = 0
    BY <1>2, <2>1 DEF ConsumerTypes
  <2>8. Accounted \ {0} \subseteq Accounted'
    BY <2>1, <2>6, <2>7 DEF Accounted, ToSet
  <2>. QED
    BY <1>6, <2>3, <2>4, <2>5, <2>8
<1>8. CASE HandleBegin \/ GetUserBegin \/ GetUserEnd \/ SendMail \/ ConsumerStop
           \/ (HandleInsert /\ ConsumerTo("wait"))
  <2>1. UNCHANGED <<bus, processed, lost, faults>>
    BY <1>8 DEF HandleBegin, GetUserBegin, GetUserEnd, SendMail, ConsumerStop, HandleInsert
  <2>2. consumer'.event = consumer.event /\ consumer'.try = consumer.try
        /\ ConsumerTypes'
    BY <1>2, <1>8
    DEF HandleBegin, GetUserBegin, GetUserEnd, SendMail, ConsumerStop, HandleInsert,
        ConsumerTo, ConsumerTypes, ConsumerShape
  <2>3. TableTypes'
    BY <1>2, <1>3, <2>1 DEF TableTypes
  <2>4. LossInv'
    BY <1>3, <2>1, <2>2 DEF EventInv, LossInv
  <2>5. Accounted' = Accounted
    BY <2>1, <2>2 DEF Accounted
  <2>. QED
    BY <1>6, <2>2, <2>3, <2>4, <2>5
<1>9. CASE (HandleInsert /\ consumer' = consumerIdle) \/ HandleCommit
  <2>1. /\ UNCHANGED <<bus, lost, faults>> /\ consumer' = consumerIdle
        /\ consumer.event \in Event
        /\ processed' \subseteq processed \cup {consumer.event}
        /\ processed \cup {consumer.event} \subseteq processed'
    <3>1. consumer.event # 0 /\ consumer.event \in Event
      BY <1>2, <1>9 DEF HandleInsert, HandleCommit, ConsumerTypes
    <3>2. CASE HandleCommit
      BY <3>1, <3>2 DEF HandleCommit
    <3>3. CASE HandleInsert /\ consumer' = consumerIdle
      <4>1. consumerIdle.event = 0 /\ consumerIdle.at = "idle"
        BY DEF consumerIdle
      <4>2. consumer.event \in processed
        <5>1. ConsumerTo("wait") => consumer'.event = consumer.event
          BY <1>2 DEF ConsumerTo, ConsumerShape
        <5>. QED
          BY <3>1, <3>3, <4>1, <5>1 DEF HandleInsert
      <4>. QED
        BY <3>1, <3>3, <4>2 DEF HandleInsert
    <3>. QED
      BY <1>9, <3>2, <3>3
  <2>2. ConsumerTypes'
    BY <2>1 DEF ConsumerTypes, consumerIdle, Deliveries
  <2>3. TableTypes'
    BY <1>2, <1>3, <2>1 DEF TableTypes
  <2>4. LossInv'
    BY <1>3, <1>5, <2>1 DEF EventInv, LossInv, consumerIdle
  <2>5. Accounted \ {0} \subseteq Accounted'
    BY <2>1 DEF Accounted, consumerIdle
  <2>. QED
    BY <1>6, <2>2, <2>3, <2>4, <2>5
<1>10. CASE HandleFail
  <2>1. /\ consumer.event \in Event /\ bus' = bus
        /\ processed' = processed \/ processed' = processed \cup {consumer.event}
    BY <1>2, <1>10 DEF HandleFail, ConsumerTypes
  <2>2. faults' \in 0..MaxFaults /\ (~stopping => faults' = faults + 1)
    BY <1>2, <1>10, FaultCounts DEF HandleFail
  <2>3. CASE consumer.try < Deliveries
    <3>1. consumer' = [consumer EXCEPT !.at = "begin", !.try = consumer.try + 1]
          /\ lost' = lost
      BY <1>10, <2>3 DEF HandleFail
    <3>2. /\ consumer'.at = "begin" /\ consumer'.event = consumer.event
          /\ consumer'.try = consumer.try + 1
      <4> DEFINE n == consumer.try + 1
      <4>1. consumer' = [consumer EXCEPT !.at = "begin", !.try = n]
        BY <3>1
      <4> HIDE DEF n
      <4>2. consumer'.at = "begin" /\ consumer'.event = consumer.event /\ consumer'.try = n
        BY <1>2, <4>1 DEF ConsumerShape
      <4>. QED
        BY <4>2 DEF n
    <3>3. ConsumerTypes'
      BY <1>2, <2>1, <2>3, <3>2 DEF ConsumerTypes, Deliveries, Event
    <3>4. TableTypes'
      BY <1>2, <1>3, <2>1, <2>2, <3>1 DEF TableTypes
    <3>5. LossInv'
      BY <1>2, <1>3, <1>5, <2>2, <2>3, <3>1, <3>2
      DEF EventInv, LossInv, ConsumerTypes, Deliveries
    <3>6. Accounted \subseteq Accounted'
      BY <2>1, <3>1, <3>2 DEF Accounted
    <3>. QED
      BY <1>6, <3>3, <3>4, <3>5, <3>6
  <2>4. CASE ~(consumer.try < Deliveries)
    <3>1. consumer' = consumerIdle /\ lost' = lost \cup {consumer.event}
      BY <1>10, <2>4 DEF HandleFail
    <3>2. consumer.try = 2 /\ consumer'.try = 0
      BY <1>2, <2>4, <3>1 DEF ConsumerTypes, Deliveries, consumerIdle
    <3>3. ConsumerTypes'
      BY <3>1 DEF ConsumerTypes, Deliveries, consumerIdle
    <3>4. TableTypes'
      BY <1>2, <1>3, <2>1, <2>2, <3>1 DEF TableTypes
    <3>5. LossInv'
      <4> DEFINE n == Cardinality(lost)
                 m == Cardinality(lost')
      <4>1. n \in Nat /\ m \in Nat /\ m <= n + 1
        BY <1>5, <3>1
      <4>2. ~stopping => 2 * n + 1 <= faults
        BY <3>2 DEF EventInv, LossInv
      <4>3. LossInv' <=> (~stopping => 2 * m + 0 <= faults')
        BY <1>3, <3>2 DEF LossInv
      <4> HIDE DEF n, m
      <4>. QED
        BY <1>5, <2>2, <4>1, <4>2, <4>3
    <3>6. Accounted \subseteq Accounted' \cup {0}
      BY <2>1, <3>1 DEF Accounted
    <3>. QED
      BY <1>6, <3>3, <3>4, <3>5, <3>6
  <2>. QED
    BY <2>3, <2>4
<1>. QED
  BY <1>7, <1>8, <1>9, <1>10 DEF ConsumerStep, HandleInsert

\* The invariant is inductive.
LEMMA EventInvInductive == Spec => []EventInv
<1>1. Init => EventInv
  <2>. SUFFICES ASSUME Init PROVE EventInv
    OBVIOUS
  <2>1. PoolInv
    BY SizeAssumption, SMT DEF Init, PoolInv, RelayShape, ConsumerShape, NoConnectionLeak,
           relayIdle, consumerIdle, RelayConns, CleanConns, HandleConns
  <2>2. RelayTypes /\ ConsumerTypes
    BY DEF Init, RelayTypes, ConsumerTypes, relayIdle, consumerIdle, Deliveries
  <2>3. bus \in Seq(Event) /\ Len(bus) = 0
    BY DEF Init
  <2>4. TableTypes
    <3>1. stopping \in BOOLEAN
      BY Zenon DEF Init
    <3>2. outbox \in [Event -> {"absent", "unpublished", "published", "deleted"}]
      BY DEF Init
    <3>3. faults \in 0..MaxFaults /\ Len(bus) <= BusSize
      BY <2>3, SizeAssumption DEF Init
    <3>4. cleaner = "idle" /\ processed = {} /\ lost = {}
      BY DEF Init
    <3>. QED
      BY <2>3, <3>1, <3>2, <3>3, <3>4 DEF TableTypes
  <2>5. PutInv /\ LossInv
    BY FS_EmptySet DEF Init, PutInv, LossInv, relayIdle, consumerIdle
  <2>. QED
    BY <2>1, <2>2, <2>4, <2>5 DEF EventInv
<1>2. EventInv /\ [Next]_vars => EventInv'
  <2>. SUFFICES ASSUME EventInv, [Next]_vars
                PROVE  EventInv'
    OBVIOUS
  <2>1. ASSUME NEW e \in Event, Record(e) PROVE EventInv'
    <3>1. /\ outbox' = [outbox EXCEPT ![e] = "unpublished"]
          /\ UNCHANGED <<relay, cleaner, consumer, bus, processed, lost, free, stopping, faults>>
      BY <2>1 DEF Record
    <3>2. PoolInv' /\ RelayTypes' /\ ConsumerTypes' /\ LossInv'
      BY <3>1 DEF EventInv, PoolInv, RelayShape, ConsumerShape, NoConnectionLeak, RelayConns,
                  CleanConns, HandleConns, RelayTypes, ConsumerTypes, LossInv
    <3>3. TableTypes' /\ PutInv'
      BY <3>1 DEF EventInv, TableTypes, PutInv, Accounted
    <3>. QED
      BY <3>2, <3>3 DEF EventInv
  <2>2. CASE Stop \/ UNCHANGED vars
    <3>1. /\ UNCHANGED <<outbox, relay, cleaner, consumer, bus, processed, lost, free, faults>>
          /\ stopping' \in BOOLEAN /\ (~stopping' => ~stopping)
      BY <2>2 DEF Stop, vars, EventInv, TableTypes
    <3>2. PoolInv' /\ RelayTypes' /\ ConsumerTypes' /\ PutInv'
      BY <3>1 DEF EventInv, PoolInv, RelayShape, ConsumerShape, NoConnectionLeak, RelayConns,
                  CleanConns, HandleConns, RelayTypes, ConsumerTypes, PutInv, Accounted
    <3>3. TableTypes' /\ LossInv'
      BY <3>1 DEF EventInv, TableTypes, LossInv
    <3>. QED
      BY <3>2, <3>3 DEF EventInv
  <2>. QED
    BY <2>1, <2>2, RelayKeepsEvents, CleanerKeepsEvents, ConsumerKeepsEvents DEF Next, Exit
<1>. QED
  BY <1>1, <1>2, PTL DEF Spec

\* Types of the worker's state: the bus never holds more than its buffer, and
\* the pool never more than its connections.
THEOREM Typed == Spec => []TypeOK
<1>1. EventInv => TypeOK
  <2>. SUFFICES ASSUME EventInv PROVE TypeOK
    OBVIOUS
  <2>1. free \in 0..MaxConns
    <3>1. free \in Nat /\ free + RelayConns + CleanConns + HandleConns = MaxConns
      BY DEF EventInv, PoolInv, NoConnectionLeak
    <3>2. RelayConns \in {0, 1} /\ CleanConns \in {0, 1} /\ HandleConns \in {0, 1, 2}
      BY DEF RelayConns, CleanConns, HandleConns
    <3>. QED
      BY <3>1, <3>2, SizeAssumption
  <2>. QED
    BY <2>1 DEF EventInv, RelayTypes, ConsumerTypes, TableTypes, TypeOK
<1>. QED
  BY <1>1, EventInvInductive, PTL

\* The bus drops an event only after two failed deliveries, and nothing else
\* loses an event that was marked published.
THEOREM LostAfterTwo == Spec => []LostOnlyAfterTwoFailures
<1>1. EventInv => LostOnlyAfterTwoFailures
  <2>. SUFFICES ASSUME EventInv, ~stopping
                PROVE  2 * Cardinality(lost) <= faults
    BY DEF EventInv, PutInv, LostOnlyAfterTwoFailures
  <2>1. Cardinality(lost) \in Nat /\ faults \in Nat
    BY LostCount, SizeAssumption DEF EventInv, TableTypes
  <2>. QED
    BY <2>1 DEF EventInv, LossInv
<1>. QED
  BY <1>1, EventInvInductive, PTL
=============================================================================
