# A TLA+ model of scaffold

This directory holds specifications of the backend in `../src`: TLA+ modules
translated from its Go code and SQL, TLC configurations that check them on small
instances, and theorems the TLA+ proof system checks for every instance.
`PROJECT.json` lists the runs, the mutants of the code each property must catch,
the source lines behind each definition, the hazards of the code and the findings.

## The system

| Component | State | Operations | What makes it hard |
|---|---|---|---|
| Authentication (`apps/api/services/auth.go`, `repos/sessions.go`, `handlers/authn.go`) | `users.token_version`, the `sessions` table (current and previous token hash, expiry, revocation) | Login, Refresh, Logout, LogoutAll, Authenticate | every method is several SQL statements without a transaction; requests race; an answer can get lost |
| Users (`services/users.go`, `repos/users.go`) | the `users` table | Register, ChangePassword, DeleteUser, UpdateUser, GetUser, ListUsers | Register writes two tables; ChangePassword and DeleteUser must end sessions; sign-outs of one user overlap; a client pages while others write |
| Outbox and relay (`services/events.go`, `repos/outbox.go`) | the `outbox` table, row locks | CreateOutboxEvent, Publish, CleanOutbox | several workers claim at once; a publish cannot be undone by a rollback |
| Delivery (`pkg/events/sns`, `pkg/events/sqs`, `deploy/localstack`) | SQS queue, receive counts, dead-letter queue | PublishBatch, Run, delete | at least once, unordered, redelivered while still being handled |
| Jobs (`apps/api/jobs`, `repos/processed_events.go`) | `processed_events` | Handle, ProcessOnce, Welcome | the mail is sent inside the transaction that records it |
| Worker process (`cmd/worker`, `pkg/events/memory`, `pkg/db`) | three goroutines, a channel, the connection pool | publishEvents, cleanOutbox, Run, WithTx | goroutines hold one resource while they wait for another; SIGTERM |
| API process (`cmd/api`, `app/core.go`, `pkg/httpx/server.go`, `pkg/db`) | the server, requests in flight, the connection pool | NewPoolWithRetries, NewCore, Server.Run, Close | SIGTERM at any stage, requests that outlive the shutdown timeout, a pool that requests can exhaust |
| HTTP interface (`gen/openapi`, `handlers`, `pkg/httpx`, `pkg/apperr`, `pkg/sorting`) | the requests in flight, the log | the thirteen operations, routing, binding, access modes, error mapping, listing, the middleware chain | generated and written code must agree; a statement can fail after it took effect; a handler can panic |
| Mailers, crypto, migrations, configuration | none | see `PROJECT.json` | |

They interact through Postgres (the API and the worker never call each other), and
through SNS and SQS. A registration is the long path: API, `users` and `outbox`, relay,
SNS, SQS, subscriber, `processed_events`, mail.

What each component owes: sessions are chains of single-use refresh tokens that end
once and for good, and a sign-out ends what it says; an event exists exactly when its
user does, is never lost before it is handled and is mailed again only after a failure;
an answer tells what was done, a success everything and a refusal nothing, and each
request leaves one log line that says the same; overlapping sign-outs all count; a client
that pages through the users misses nobody who stays; neither process leaks a connection;
only registrations can block the API, nothing the worker (given three connections), and
apart from that block a stop ends both.

## Modules

| Module | What it is |
|---|---|
| `RefreshChain` | what a session promises: a chain of tokens, each exchanged once, until it ends |
| `Sessions` | the auth and sign-out code, one action per SQL statement with the Go code up to the next |
| `MCSessions` | symmetry for TLC |
| `SessionsProofs` | type correctness; single use; `Sessions` implements `RefreshChain` |
| `SessionsEndProofs` | how sessions end: revocation, expiry, reuse, sign-out, deletion |
| `EventLifecycle` | what the pipeline promises about an event: recorded, attempted, handled, never lost before, never attempted after |
| `EventPipeline` | Register, relay, SNS/SQS, subscriber, ProcessOnce and Welcome, with failures and crashes |
| `MCEventPipeline` | symmetry for TLC |
| `EventPipelineProofs` | type correctness; every safety property the passing runs check; `EventPipeline` implements `EventLifecycle` |
| `WorkerProcess` | one worker process with the in-process bus and its connection pool |
| `WorkerProcessProofs` | type correctness; no leaked connection; no circular wait from three connections on; an event is dropped only after two failures |
| `ApiProcess` | one API process from its first connection attempt to its end, with requests, connections and shutdown |
| `ApiProcessProofs` | type correctness; no leaked connection; only registrations block the pool; the pool is closed last; a nil error means drained |
| `HttpContract` | the tables both ends of the HTTP interface agree on: requests, routes, bindings, security, statements, statuses |
| `Api` | every operation of the interface from the request line to the log line, over the `users` table |
| `MCApi` | the instance for TLC: which connections are in use together, symmetry |
| `ApiProofs` | type correctness; authority; status and effect; the log line |
| `ApiUserProofs` | sign-outs add up; a changed password was known |
| `ApiClientProofs` | what the generated client sees: nobody missed and nobody twice while it pages; only documented answers |

### Sessions

A request is a process with a program counter (`pc`), its arguments (`call`) and its
local variables (`loc`). Between two actions of a request any other request may run,
which is where two goroutines, or two instances of the API, interleave: the code takes no
lock and opens no transaction there. So `RefreshFind` is `FindSessionByToken` with the
checks of `Refresh` on the row, `RefreshUser` the user lookup, `RefreshRotate` the single
`UPDATE` of `RotateRefreshToken`, whose `WHERE` clause is `Rotatable`, and `Issue` the
answer. `Abort` ends a request anywhere: a failed statement, a client that left, a killed
process; at `Issue` it is the lost answer. `held` and `access` are what clients have, so
clients present any token they ever got.

Abstractions: a token, a password, a session id is an atom; the hash of a token is the
token. An access token is its claims plus, for the properties, the session that issued
it. Its expiry is abstracted: `Authenticate` may refuse any token. `born`, `at`,
`before`, `holding` and `spent` are history, read by properties only. An e-mail address
names its user. `HasPassword` is always true, as no code path creates a user without one.

### EventPipeline

A registration `r` names its user, its event and the messages `<<r, n>>` sent for it.
Register is three actions: the user row, uncommitted (`pending`); the event, which is
committed at once because `CreateOutboxEvent` is called on the pool and not on the
transaction (`services/users.go:91`); the commit. The relay is one transaction per batch
(`Claim`, `Publish`, `Mark`), with the claimed rows locked and skipped by other relays. A
consumer works its batch off one message after the other (`Take`, `Insert`, `GetUser`,
`SendMail`, `Commit`, `Delete`). A claimed batch is a set: its first `BatchSize`
unlocked rows by id, as the `ORDER BY id LIMIT` says. `InsertWaits` is the unique index: an uncommitted row of
another transaction makes `INSERT ... ON CONFLICT DO NOTHING` wait for it.

What can fail: Register at either statement or at its commit; PublishBatch for any part
of the batch, or with its answer lost; the marking; a statement of ProcessOnce; the mail,
refused or accepted all the same; the commit, undone or with its answer lost; the
deletion; and the worker process as a whole. `faults` counts these up to `MaxFaults`. A
visibility timeout is no fault: it may pass at any time, also under a busy consumer. A
lookup of a user who is not committed or was deleted fails of itself.

Not in the model: time (retention and poll interval: any published row may be cleaned at
any time), undecodable messages and unknown types (only Register writes events), the
sequence in which a message becomes visible within SNS.

### WorkerProcess

The relay, the cleaner and the consumer share `MaxConns` connections; a transaction keeps
one from `BeginTx` to its end, and `GetUser` inside ProcessOnce takes a second. The bus is
a channel of `BusSize`; `Publish` waits while it is full, `Run` hands a failed event over
once more and then drops it. `Stop` cancels the context: from then on every call may
fail, waits end, and each goroutine returns when it next looks at `ctx.Done`. With the
`aws` backend the relay never waits for the bus and the rest is the same; `EventPipeline`
has that backend.

### ApiProcess

`proc` follows the main goroutine: `connect`, `ping` and `backoff` are the loop of
`NewPoolWithRetries`, `build` the rest of `NewCore`, the router and the listener,
`serving` and `draining` are `Server.Run` before and after the signal, `closing` is
`core.Close`. A connection that was accepted just before the signal may still bring its
request while the server drains, so `accepting` only ends when `Shutdown` finds none in
flight (`Drained`). A request holds at most two named connections: `tx`, its transaction's,
and `q`, that of the statement it runs on the pool. A registration takes the first at
`BeginTx` and waits for the second at `waitEvent`, because the outbox insert is not on
the transaction. Every other endpoint is up to `Statements` statements one after the
other, and `/readyz` a ping that expires. What happens to the rows is in `Sessions` and
`EventPipeline`; here a statement only takes and returns a connection.

A request's context ends when its client leaves (`Leave`), not on a signal, and no server
timeout ends it: `WriteTimeout` bounds the connection, not the handler. A closed pool
refuses new takers, wakes a waiter only when a connection comes back, and `Close` returns
when all are back (`Closed`), as pgxpool does. When `Serve` fails by itself, `Run`
returns without `Shutdown`, so `accepting` stays true for connections already open.
Which idle connection the pool hands out is fixed by `CHOOSE`; they are alike.

### HttpContract and Api

`HttpContract` has no state. `Calls` are the requests the generated client builds and
`ApiRoutes` the patterns the generated server registers; they are transcribed from their
own functions, so that `Reached` is a real question and not a lookup. `ById` and `ByQuery`
are the wrappers that bind parameters, which they do before `authenticate` runs.
`Security` is the embedded document; `AccessModes` is the map that `accessModes` builds
from it, under method and path, and `Access` the lookup by the pattern of the route, with
the zero value of a key the map does not have. `Program`
lists the statements of each use-case; `Sentinel`, `UserError`, `Failure` and `Code` are
the way of an error from the driver to the status, and `Documented` the statuses for
which the generated client has a type.

In `Api` a request is a record. `at` says where it is, `op` what it reached, `todo` which
statements are left and `wrote` which of them took effect. Its stages are `Arrive` (mux
and wrapper), `Authenticate`, `Handle` (decoding, validation, choice of arguments), one
step for each statement, and `Respond` (the log line). Between two of them any other
request may run. `Fail` is a statement that reports an error, with or without its effect,
`Panic` a panic anywhere inside the chain, which `Recover` turns into a 500. Whether a
panic still leaves a log line follows from the order in `Default`.

A row of `users` has the id and the name the listing sorts by, the password and the
token version. A name or a password is an atom; a request body that is too long, no JSON,
or invalid is a choice in `Handle`. Sessions are abstracted to the outcomes their
statements can have (found, not found, replaced), because `Sessions` has them in full; so
`Conflict` may refuse any registration while somebody is registered. Keys of the listing
are `id` and `name`: an e-mail address is unique like an id, and creation times order and
repeat like names. The `Walker` is a client that pages through `GET /v1/users` with one
order and one search until it has asked for as many users as the last total said; it
asks again for a page it did not get. `entitled`, `known` and `walk` are history.

`AnswersDocumented` has three exceptions, which are how the code answers: 413 for a body
over the limit, 500 for a panic where an operation documents none, and 404 when the
caller was deleted between `Authenticate` and the handler of `/v1/me` or `logout-all`.

## Runs

| Run | Instance | Shows |
|---|---|---|
| `sessions_refresh` | 3 requests, 1 session, 4 tokens, 2 passwords, clock to 2 | `SingleUse`, `DoublePresentationEndsSession`, `RevokedForever`, `ExpiredNeverExchanged`, `ImplementsChain` |
| `sessions_signout` | 2 users, 3 requests, 2 sessions, 3 tokens | `SignOutIsFinal`, `StaleTokenRefused`, `DeletedUserHasNoSession` |
| `event_workers` | 1 event, 2 workers, 1 fault, 2 receives per message | `RepublishedOnlyByFailure`, `RemailedOnlyByFailure`, `MailedOncePerDelivery`, `ImplementsLifecycle`, liveness: `EventSettles` |
| `event_batches` | 2 registrations, 2 addresses, 1 worker, batches of 2, 1 fault | `UserHasEvent`, `MailOnlyToRegistered` |
| `worker_process` | 3 events, batch 2, bus 1, 3 connections, 2 faults | `NoConnectionLeak`, `NoCircularWait`, `LostOnlyAfterTwoFailures`, liveness: `Delivered`, `StopEnds` |
| `api_process` | 2 registrations and 1 other request, 2 connections, 2 attempts, 1 fault | `NoConnectionLeak`, `OnlyRegistrationsBlock`, `PoolClosed`, `OkMeansDrained`, liveness: `Answered`, `StopEnds` |
| `api` | 2 requests with any operation, or 1 beside the walker; 2 users, ids to 4, 2 names, 2 passwords, pages of 1, 1 fault | `NeedsAuthority`, `StatusTellsEffect`, `LogTellsTruth`, `AnswersDocumented`, `PasswordKnown`, `SignOutsCount`, `WalkMissesNobody`, `WalkRepeatsNobody` |

Each module's `TypeOK` is checked in one of its runs. Deadlock is checked in every run;
the only states without another step are those in which everything asked for has been
done (`Quiesce`, `Exit`, `Exited`).

**Why the bounds are enough to be interesting.** Three requests are two that race and one
that ends the session under them, or a token exchanged twice and then replayed. Four
tokens are the first one and one drawn by each request. The clock passes `RefreshTTL` and
goes on, so sessions expire and rotated ones outlive their first expiry. Two users make
the `WHERE user_id` of a sign-out matter. For the pipeline, two workers are needed for a
double claim and a double delivery, one fault for a lost answer or a crash and the
recovery from it, two receives for the redelivery and the dead-letter queue, two events
for a partly published batch. A message of an event exists per publication, and each
publication but the first follows a failure, so `MaxFaults + 1` messages are all there can
be. A failure during the recovery from another is beyond `event_workers`: its safety
properties and the refinement are proved for any number of faults. For the worker a bus
smaller than the batch makes the relay wait, and three connections are the least for which
the claim holds. For the API, as many registrations as connections are what it takes to
block the pool, and the third request is the bystander; two attempts are one that is
followed by another and one that is the last.
For `Api`, two requests are two sign-outs or two password changes that overlap, or a write
between authentication and handler; pages of one user are walked in several steps, with
two names two users may tie, and a user may come, go or be renamed between two pages.

**Fairness.** `Sessions` and `Api` are checked for safety only. `LiveSpec` of `EventPipeline` assumes
that a registration, a relay and a consumer take the steps they can (weak fairness: the
Go scheduler runs them, the polls are loops in `cmd/worker` and `Subscriber.Run`, and a
dead worker is restarted) and that SQS times out and redrives. It assumes nothing of
users being deleted, and failures are finitely many. `LiveSpec` of `WorkerProcess` adds
strong fairness for taking a connection: the pool's semaphore serves waiters in turn, so a
waiter is not overtaken forever although the pool is momentarily empty again and again.
`LiveSpec` of `ApiProcess` is the same for handlers and the main goroutine, with timers
that fire. It assumes nothing of clients: that is why `Answered` and `StopEnds` name the
one state, `Blocked`, from which only a client that gives up leads out. A readiness probe
is answered even there, by its own timeout.

### What the code does and its documents deny

Five runs check a sentence of the documents and find it violated.

| Run | Sentence | What happens |
|---|---|---|
| `sessions_token_reuse` | auth.yaml:32 "Reusing one ends its session." | only one previous hash is kept; a token two exchanges old is unknown and its session lives on |
| `sessions_login_race` | users.yaml:167 "Signs the user out of every session." | a login that verified the old password inserts its session after ChangePassword answered |
| `sessions_logout_race` | auth.yaml:79 "Also invalidates every access token issued so far." | a refresh between the version bump and the revocation gets an access token of the new version |
| `event_before_user` | README.md:13 "Events are written in the same transaction as the data that caused them" | the outbox insert runs on the pool; a rolled back registration leaves its event |
| `event_handled_twice` | README.md:13 "the worker handles each event once" | a failure after the mail was accepted rolls the record back, and the redelivery mails again |

One more thing the runs show, which no document denies: as many concurrent registrations
as the pool has connections block it, and with it every endpoint, until one of their
clients disconnects; a process told to stop in that state does not end after
`ShutdownTimeout` but waits in `core.Close`. Putting the outbox insert on the transaction
removes this together with the finding of `event_before_user`.

## Proofs

| Theorem | For every | Argument |
|---|---|---|
| `TypeCorrect` : `Spec => []TypeOK` | set of users, requests, sessions, tokens | `TypeInv` is inductive. It adds to the types what each step relies on: a request past its lookup has a session, one about to rotate or create has a token, a handed out session belongs to a user |
| `SingleUseHolds` : `Spec => []SingleUse` | the same | `TokenInv`: tokens are drawn once and held by one request or one session at a time (`DrawnInv`), no current token is one that was spent (`SpentInv`), two sessions never share a current token (`CurrentInv`). A rotation compares with the current token, so what it spends was not spent before |
| `ChainRefinement` : `Spec => ImplementsChain` | the same | under the refinement mapping of `Sessions`, each statement opens, exchanges, ends or stutters; the invariant above gives the guards of the abstract actions |
| `RevokedStays`, `ExpiryHolds`, `StaleRefused` : `RevokedForever`, `ExpiredNeverExchanged`, `StaleTokenRefused` | the same | `PlaceInv` ties a request to its operation and session, `VersionInv` keeps the versions requests and clients hold behind the row's, `ExpiryInv` says that while the presented token is current its session has not expired before the request came |
| `SignOutFinal`, `DeletedEndsSessions` : `[]SignOutIsFinal`, `[]DeletedUserHasNoSession` | the same | `SignOutInv`: what a sign-out found on arrival and what is left of it after each statement. The deletion removes the sessions with the row, and a session is only ever opened for a row that is there |
| `DoublePresentation` : `[]DoublePresentationEndsSession` | the same | `PresentedInv`: a client presents what it was given; `LineInv`: a token that was handed out for a session is its current one or was spent by one exchange, and the previous token was spent |
| `EventOfUser`, `Republished`, `Remailed`, `MailToRegistered` and `Typed` (pipeline) | registrations, addresses, workers, batches, receives, faults | `Inv` is inductive: `RegInv` and `OrderInv` relate user, event and row, `BatchInv` the relays' batches and row locks, `SentInv` the messages and the failures that explain them, `HeldInv` and `WorkInv` what a consumer may hold and handle (an event is handled by one consumer at a time), `MailInv` the mails and the failures that explain them |
| `MailedPerDelivery` : `Spec => []MailedOncePerDelivery` | the same | `DeliveryInv`: the mails of an event and the consumers that may still mail it (`Chances`) are together no more than its deliveries. A receive adds a delivery for each chance (`ReceivedChance`, an injection from the one to the other), a mail uses its chance up (`MailedChance`), nothing else adds to either (`FewerChances`, `Counts`) |
| `ImplementsEventLifecycle` : `Spec => ImplementsLifecycle` | the same | the stage of an event is a function of the state; handling a message forgets nothing (`Forgets`), what stands for an event only shrinks after it is handled (`StandingShrinks`) and not before (`KeptUntilHandled`) |
| `NoLeak` : `Spec => []NoConnectionLeak` | size of pool, bus, batch, number of events and faults | each goroutine's share of the pool moves with `free`; one lemma per goroutine, one case per action |
| `WorkerNeverBlocksItself` : `Spec => []NoCircularWait` | the same | in a circular wait the relay holds one connection and the consumer at most one, so the pool has two at most |
| `LostAfterTwo` : `Spec => []LostOnlyAfterTwoFailures`, `Typed` (worker) | the same | `PutInv`: what the relay has handed over or marked is accounted for; `LossInv`: each loss takes two failures, the first of which the second delivery remembers |
| `NoLeak` : `Spec => []NoConnectionLeak` (API) | requests, connections, statements, attempts, faults | `PoolInv`: where a request is decides which connections it has (`Shape`); the idle ones and those of each request partition the pool (`OwnInv`). `OneRequest` reduces every step to one exchange between a request and the idle set |
| `BlockedByRegistrations` : `Spec => []OnlyRegistrationsBlock` | the same | from `PoolInv`: who holds a connection and is not running is a registration at `waitEvent` |
| `PoolIsClosed` : `Spec => []PoolClosed`, `OkIsDrained` : `Spec => []OkMeansDrained` | the same | `LifeInv` ties the open pool to the stage of the process and says that nothing runs before the server does, `ShutdownInv` that a server which has shut down without an error is empty and nothing can come in any more; `MainTypes` adds the types, for `Typed` |
| `Authority` : `Spec => []NeedsAuthority` | requests, users, names, passwords, page sizes, faults | a token that is out of date stays so (`Outdated`), therefore one that `Authenticate` accepts was in force on arrival |
| `StatusAndEffect`, `LogAndAnswer`, `Typed` : `[]StatusTellsEffect`, `[]LogTellsTruth`, `[]TypeOK` | the same | a request is at a `Stage` of its use-case's program; what it wrote and what is left are together what it owes (`RunInv`), and an answer keeps the account (`AnswerInv`) |
| `SignOutsCounted`, `PasswordsKnown` : `[]SignOutsCount`, `[]PasswordKnown` | the same | `UserInv`: the version of every living row is the number of sign-outs that took effect, and every password it had since a change began is known to that change |
| `MissesNobody`, `RepeatsNobody` : `[]WalkMissesNobody`, `[]WalkRepeatsNobody` | the same | `WalkInv`, in terms of a user's rank, the number of listed users ahead of it. The order is total (`OrderTotal`: the id breaks the ties of a name), so a page shows the ranks from its offset up to the next one (`PageRanks`). While nobody leaves, ranks only rise (`RanksRise`) and whom the walk has not met stays at or behind its offset; the total is at least what the page was cut from, so the walk does not stop before that user (`MissInv`). While nobody comes, ranks only fall (`RanksFall`) and whom it has met stays before the offset (`RepeatInv`) |
| `AllDocumented` : `[]AnswersDocumented` | the same | `Foreseen`: a request reached the operation its call was built for (`Reaches`: no two routes match one request) and is at a stage of that use-case; one lemma lists the errors each statement can report (`FailureFits`) and one the statuses the document has for them (`DocumentedErrors`). For `/v1/me` and `logout-all` it also needs that the caller was stored once, so a missing row is a deleted one |

Assumptions: those named in the modules (`OpAssumption`, `TimeAssumption`,
`AtomAssumption`, `InhabitedAssumption`, `BoundAssumption`, `SizeAssumption`, and an
`ApiAssumption` in each of `ApiProcess` and `Api`), all evaluated by TLC in the runs. The
inductive invariants were checked with TLC on the instances of the runs as well.

`SingleUse` is not inductive by itself: it says nothing of the tokens requests have drawn
and not stored yet, nor of where spent tokens may still be. That is what `TokenInv` adds.

Neither of the walk's two properties is inductive: both speak of whom the client has met,
and nothing in them says where those it has not met are. `WalkInv` says it, also for the
page that is read and not yet taken, and for the total, which is read after the page and
may be larger. `AnswersDocumented` speaks of the last stage only; `Foreseen` says at each
earlier stage what the answer can become.

Only model-checked: `EventSettles`, `Delivered`, `Answered` and both `StopEnds`, which
are all the properties of the passing runs that no theorem states. Liveness under
fairness and `ENABLED` are beyond the proof system and stay so, as does induction over
data. The five runs that end in a violation are counterexamples and have nothing to prove.

## Not modelled

- The width of `token_version`: a 32-bit column takes two thousand million sign-outs of
  one user to fill; the versions of the models are numbers.
- Mailers: the SMTP dialogue and the message format. What a mailer reports, and what it
  may have done when it reports an error, is in `EventPipeline`.
- The cryptography behind the atoms: argon2id, the token hash, the signature of a JWT and
  its expiry, which `Sessions` abstracts to a refusal that is always possible.
- Migrations: running them is a linear script; the constraints they create are in the
  actions they guard.
- Configuration, log formatting and the static pages, which keep no state.
- Of the generated code, encoding and decoding; its requests, routes, bindings, security
  and typed answers are in `HttpContract`. Mocks and test helpers are not part of the
  program.

What could be added next: the composition of `Api` with the session table of `Sessions`
in place of outcomes.
