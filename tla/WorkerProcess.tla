---------------------------- MODULE WorkerProcess ----------------------------
(***************************************************************************)
(* One worker process with the in-process event bus: the three goroutines  *)
(* of apps/api/cmd/worker (relay, cleaner, consumer), the bounded channel  *)
(* of pkg/events/memory between the first and the last, and the connection *)
(* pool of pkg/db all three draw from.  A transaction keeps a connection   *)
(* from BeginTx to its end; the handler's GetUser runs on the pool inside  *)
(* the transaction of ProcessOnce and so needs a second one.               *)
(*                                                                         *)
(* One action is one wait or one statement.  A call that completes after   *)
(* the context was cancelled may still succeed or may fail.                *)
(***************************************************************************)
EXTENDS Naturals, FiniteSets, Sequences, SequencesExt

CONSTANTS
    MaxEvent,       \* the events of a behaviour are 1..MaxEvent, by id
    BatchSize,      \* Config.Outbox.BatchSize
    BusSize,        \* capacity of the channel
    MaxConns,       \* DB_MAX_CONNS
    MaxFaults       \* bound on failures

ASSUME SizeAssumption ==
    /\ MaxEvent \in Nat /\ MaxFaults \in Nat
    /\ BatchSize \in Nat \ {0} /\ BusSize \in Nat \ {0}
    /\ MaxConns \in Nat \ {0}

Event == 1..MaxEvent

VARIABLES
    outbox,     \* per event: "absent", "unpublished", "published", "deleted"
    relay,      \* [at, batch, rest]: the claimed events, those still to put
    cleaner,    \* where the cleaner is
    consumer,   \* [at, event, try]
    bus,        \* the channel
    processed,  \* the rows of processed_events
    lost,       \* the events the bus gave up
    free,       \* the idle connections of the pool
    stopping,   \* the context is cancelled
    faults      \* how often something failed

vars == <<outbox, relay, cleaner, consumer, bus, processed, lost, free,
          stopping, faults>>

relayIdle == [at |-> "idle", batch |-> {}, rest |-> {}]
consumerIdle == [at |-> "idle", event |-> 0, try |-> 0]

Init ==
    /\ outbox = [e \in Event |-> "absent"]
    /\ relay = relayIdle
    /\ cleaner = "idle"
    /\ consumer = consumerIdle
    /\ bus = <<>>
    /\ processed = {}
    /\ lost = {}
    /\ free = MaxConns
    /\ stopping = FALSE
    /\ faults = 0
-----------------------------------------------------------------------------
\* pgxpool: a connection is taken when one is free and given back.
Acquire == free > 0 /\ free' = free - 1
GiveBack(n) == free' = free + n

\* A call fails: once the context is cancelled of itself, before that as one
\* of the failures of the behaviour.
Fault ==
    \/ stopping /\ UNCHANGED faults
    \/ ~stopping /\ faults < MaxFaults /\ faults' = faults + 1
-----------------------------------------------------------------------------
\* The API stores an event, ids in order.
Record(e) ==
    /\ outbox[e] = "absent" /\ \A d \in 1..(e - 1) : outbox[d] # "absent"
    /\ outbox' = [outbox EXCEPT ![e] = "unpublished"]
    /\ UNCHANGED <<relay, cleaner, consumer, bus, processed, lost, free,
                   stopping, faults>>
-----------------------------------------------------------------------------
(* The relay: publishEvents, Publish and publishBatch.                     *)

RelayVars == <<cleaner, consumer, processed, lost, stopping>>

\* BeginTx, when the ticker fires or the batch before was full.
RelayBegin ==
    /\ relay.at = "idle" /\ ~stopping
    /\ Acquire
    /\ relay' = [relay EXCEPT !.at = "claim"]
    /\ UNCHANGED <<RelayVars, outbox, bus, faults>>

Unpublished == {e \in Event : outbox[e] = "unpublished"}
Batch == {e \in Unpublished : Cardinality({d \in Unpublished : d < e}) < BatchSize}

\* ClaimOutboxEvents; an empty batch commits at once.
RelayClaim ==
    /\ relay.at = "claim"
    /\ IF Unpublished = {}
         THEN relay' = relayIdle /\ GiveBack(1)
         ELSE /\ relay' = [at |-> "put", batch |-> Batch, rest |-> Batch]
              /\ UNCHANGED free
    /\ UNCHANGED <<RelayVars, outbox, bus, faults>>

Unbounded == TRUE                                                      \* mutant
HasRoom == Len(bus) < BusSize

\* Bus.Publish: one send on the channel per event, in the order of the ids,
\* which waits while it is full.
RelayPut ==
    /\ relay.at = "put"
    /\ HasRoom
    /\ \E e \in relay.rest :
         /\ \A d \in relay.rest : e <= d
         /\ bus' = Append(bus, e)
         /\ relay' = [relay EXCEPT !.rest = @ \ {e},
                                   !.at = IF relay.rest = {e} THEN "mark" ELSE "put"]
    /\ UNCHANGED <<RelayVars, outbox, free, faults>>

\* MarkOutboxEventsPublished and the commit.
RelayMark ==
    /\ relay.at = "mark"
    /\ outbox' = [e \in Event |-> IF e \in relay.batch THEN "published"
                                                      ELSE outbox[e]]
    /\ relay' = relayIdle
    /\ GiveBack(1)
    /\ UNCHANGED <<RelayVars, bus, faults>>

PutIgnoresStop == relay.at \in {"claim", "mark"}                       \* mutant
\* The calls of the relay that return an error when the context ends: the
\* statements, and the send, whose select has a ctx.Done case.
RelayCanFail == relay.at \in {"claim", "mark"} \/ (relay.at = "put" /\ stopping)

\* The transaction rolls back; what is on the bus stays there.
RelayFail ==
    /\ RelayCanFail
    /\ Fault
    /\ relay' = relayIdle
    /\ GiveBack(1)
    /\ UNCHANGED <<RelayVars, outbox, bus>>

RelayStop ==
    /\ relay.at = "idle" /\ stopping
    /\ relay' = [relay EXCEPT !.at = "ended"]
    /\ UNCHANGED <<RelayVars, outbox, bus, free, faults>>
-----------------------------------------------------------------------------
(* The cleaner: cleanOutbox, one DELETE per batch.                         *)

CleanerVars == <<relay, consumer, bus, processed, lost, stopping>>

CleanBegin ==
    /\ cleaner = "idle" /\ ~stopping
    /\ Acquire
    /\ cleaner' = "delete"
    /\ UNCHANGED <<CleanerVars, outbox, faults>>

\* Rows published before the retention, up to a batch of them.
CleanDelete ==
    /\ cleaner = "delete"
    /\ \E E \in SUBSET {e \in Event : outbox[e] = "published"} :
         /\ Cardinality(E) <= BatchSize
         /\ outbox' = [e \in Event |-> IF e \in E THEN "deleted" ELSE outbox[e]]
    /\ cleaner' = "idle"
    /\ GiveBack(1)
    /\ UNCHANGED <<CleanerVars, faults>>

CleanFail ==
    /\ cleaner = "delete"
    /\ Fault
    /\ cleaner' = "idle"
    /\ GiveBack(1)
    /\ UNCHANGED <<CleanerVars, outbox>>

CleanStop ==
    /\ cleaner = "idle" /\ stopping
    /\ cleaner' = "ended"
    /\ UNCHANGED <<CleanerVars, outbox, free, faults>>
-----------------------------------------------------------------------------
(* The consumer: Bus.Run, Jobs.Handle, ProcessOnce and Welcome.            *)

ConsumerVars == <<outbox, relay, cleaner, stopping>>
ConsumerTo(at) == consumer' = [consumer EXCEPT !.at = at]

Receive ==
    /\ consumer.at = "idle" /\ bus # <<>>
    /\ bus' = Tail(bus)
    /\ consumer' = [at |-> "begin", event |-> Head(bus), try |-> 1]
    /\ UNCHANGED <<ConsumerVars, processed, lost, free, faults>>

HandleBegin ==
    /\ consumer.at = "begin" /\ ~stopping
    /\ Acquire
    /\ ConsumerTo("insert")
    /\ UNCHANGED <<ConsumerVars, bus, processed, lost, faults>>

\* MarkEventProcessed; nothing to do for an event that was processed before.
HandleInsert ==
    /\ consumer.at = "insert"
    /\ IF consumer.event \in processed
         THEN consumer' = consumerIdle /\ GiveBack(1)
         ELSE ConsumerTo("wait") /\ UNCHANGED free
    /\ UNCHANGED <<ConsumerVars, bus, processed, lost, faults>>

\* GetUser takes a connection of its own ...
GetUserBegin ==
    /\ consumer.at = "wait" /\ ~stopping
    /\ Acquire
    /\ ConsumerTo("get")
    /\ UNCHANGED <<ConsumerVars, bus, processed, lost, faults>>

\* ... and gives it back with the row.
GetUserEnd ==
    /\ consumer.at = "get"
    /\ ConsumerTo("send")
    /\ GiveBack(1)
    /\ UNCHANGED <<ConsumerVars, bus, processed, lost, faults>>

SendMail ==
    /\ consumer.at = "send"
    /\ ConsumerTo("commit")
    /\ UNCHANGED <<ConsumerVars, bus, processed, lost, free, faults>>

HandleCommit ==
    /\ consumer.at = "commit"
    /\ processed' = processed \cup {consumer.event}
    /\ consumer' = consumerIdle
    /\ GiveBack(1)
    /\ UNCHANGED <<ConsumerVars, bus, lost, faults>>

\* The connections the handler has at each of its steps.
ConnsOfTx(at) == IF at \in {"idle", "begin", "ended"} THEN 0 ELSE 1    \* mutant
ConnsAt(at) == CASE at \in {"idle", "begin", "ended"} -> 0
                 [] at = "get" -> 2
                 [] OTHER -> 1

DeliverOnce == 1                                                       \* mutant
Deliveries == 2

\* The handler fails and the transaction rolls back, or its commit succeeds
\* and the answer is lost; the bus hands it the event a second time, and drops
\* it after that.
HandleFail ==
    /\ consumer.at \notin {"idle", "ended"}
    /\ Fault
    /\ GiveBack(ConnsAt(consumer.at))
    /\ IF consumer.try < Deliveries
         THEN /\ consumer' = [consumer EXCEPT !.at = "begin", !.try = @ + 1]
              /\ UNCHANGED lost
         ELSE /\ consumer' = consumerIdle
              /\ lost' = lost \cup {consumer.event}
    /\ \/ UNCHANGED processed
       \/ consumer.at = "commit" /\ processed' = processed \cup {consumer.event}
    /\ UNCHANGED <<ConsumerVars, bus>>

ConsumerStop ==
    /\ consumer.at = "idle" /\ stopping
    /\ ConsumerTo("ended")
    /\ UNCHANGED <<ConsumerVars, bus, processed, lost, free, faults>>
-----------------------------------------------------------------------------
\* SIGTERM or SIGINT cancels the context of all three.
Stop ==
    /\ ~stopping
    /\ stopping' = TRUE
    /\ UNCHANGED <<outbox, relay, cleaner, consumer, bus, processed, lost,
                   free, faults>>

Ended == relay.at = "ended" /\ cleaner = "ended" /\ consumer.at = "ended"

\* g.Wait has returned.
Exit == Ended /\ UNCHANGED vars

RelayStep == RelayClaim \/ RelayPut \/ RelayMark \/ RelayFail \/ RelayStop
CleanStep == CleanDelete \/ CleanFail \/ CleanStop
ConsumerStep ==
    \/ Receive \/ HandleInsert \/ GetUserEnd \/ SendMail \/ HandleCommit
    \/ HandleFail \/ ConsumerStop

Next ==
    \/ \E e \in Event : Record(e)
    \/ RelayBegin \/ RelayStep
    \/ CleanBegin \/ CleanStep
    \/ HandleBegin \/ GetUserBegin \/ ConsumerStep
    \/ Stop \/ Exit

Spec == Init /\ [][Next]_vars

\* The goroutines run on.  A wait for a connection is served in turn (the
\* pool's semaphore is first come, first served), so it is not overtaken
\* forever.
LiveSpec ==
    /\ Spec
    /\ WF_vars(RelayStep) /\ WF_vars(CleanStep) /\ WF_vars(ConsumerStep)
    /\ SF_vars(RelayBegin) /\ SF_vars(HandleBegin) /\ SF_vars(GetUserBegin)
-----------------------------------------------------------------------------
(* Properties.                                                             *)

\* Every variable has its type.
TypeOK ==
    /\ outbox \in [Event -> {"absent", "unpublished", "published", "deleted"}]
    /\ relay.at \in {"idle", "claim", "put", "mark", "ended"}
    /\ relay.batch \in SUBSET Event /\ relay.rest \in SUBSET relay.batch
    /\ cleaner \in {"idle", "delete", "ended"}
    /\ consumer.at \in {"idle", "begin", "insert", "wait", "get", "send",
                        "commit", "ended"}
    /\ consumer.event \in Event \cup {0} /\ consumer.try \in 0..Deliveries
    /\ bus \in Seq(Event) /\ Len(bus) <= BusSize
    /\ processed \in SUBSET Event /\ lost \in SUBSET Event
    /\ free \in 0..MaxConns
    /\ stopping \in BOOLEAN /\ faults \in 0..MaxFaults

RelayConns == IF relay.at \in {"claim", "put", "mark"} THEN 1 ELSE 0
CleanConns == IF cleaner = "delete" THEN 1 ELSE 0
\* What the handler holds, from the code's calls rather than from ConnsAt.
HandleConns == CASE consumer.at \in {"idle", "begin", "ended"} -> 0
                 [] consumer.at = "get" -> 2
                 [] OTHER -> 1

\* Whatever fails and wherever the context is cancelled, every connection is
\* free or belongs to a call that runs (WithTxOptions ends every transaction).
NoConnectionLeak == free + RelayConns + CleanConns + HandleConns = MaxConns

\* The relay waits for room on the bus with a connection in its hand, the
\* consumer for the connection it needs to make room.
CircularWait ==
    /\ relay.at = "put" /\ Len(bus) = BusSize
    /\ consumer.at \in {"begin", "wait"} /\ free = 0 /\ cleaner # "delete"

\* From three connections on the worker cannot block itself, whatever the
\* sizes of the batch and of the bus.
NoCircularWait == MaxConns >= 3 => ~CircularWait

\* The bus drops an event only after two failed deliveries of it, and while
\* the process runs nothing else loses an event that was marked published.
Accounted == processed \cup lost \cup ToSet(bus) \cup {consumer.event}
LostOnlyAfterTwoFailures ==
    ~stopping =>
        /\ \A e \in Event : outbox[e] \in {"published", "deleted"} => e \in Accounted
        /\ 2 * Cardinality(lost) <= faults

\* Every event of the outbox is processed, unless its handler fails twice or
\* the process is stopped: no wait for the bus or the pool lasts forever.
Delivered ==
    \A e \in Event : outbox[e] = "unpublished"
                        ~> (e \in processed \cup lost \/ stopping)

\* A cancelled context ends all three goroutines, wherever they wait.
StopEnds == stopping ~> Ended
=============================================================================
