# Mano-Reck: TLA+ specifications, model checking and proofs

This directory specifies the parts of Mano-Reck in which several processes, a
database, a message broker and the clock act on shared state: the transactional
outbox and its relay, the event consumer, the pipeline the two form, the life of
an API process, its configuration, and the Redis and object-storage adapters. TLC
checks the modules on small instances; TLAPS proves their safety properties for
every value of the constants.
`PROJECT.json` lists the runs, the mutants of the model that each property
detects, the source lines behind each definition, the findings, the hazards and
the theorems.

To repeat a run: `tlc -config MCOutboxSafety.cfg MCOutbox`. To repeat the proofs:
`tlapm OutboxProofs.tla`, and the same for the other seven `...Proofs` modules.

Paths below are relative to `src/backend/internal/platform/` unless they start
with another directory.

## 1. Inventory

| Component | State | Operations | Talks to |
|---|---|---|---|
| outbox repository (`outbox/repository.go`, migration 000002) | rows of `platform.outbox_events`: status, attempt_count, next_attempt_at, lease_owner, lease_expires_at | Insert (in the caller's transaction), Claim, MarkPublished, MarkFailed | PostgreSQL |
| outbox relay (`outbox/relay.go`) | worker ID, the batch in hand, lastError, cancel/done | Start, run/processBatch, Check, Close | repository, NATS client |
| NATS client (`natsclient/client.go`) | connection, stream with its duplicate window | Start, Publish, Check, Close | JetStream |
| proof consumer (`eventconsumer/consumer.go`, migration 000002) | the durable consumer on the server, rows of `platform.event_consumptions`, the fetched batch, lastError | ensureConsumer, run, process, deadLetter, Check, Close | JetStream, PostgreSQL |
| runtime (`appruntime/run.go`, `cmd/api/main.go`) | where Run stands, the shutdown context | start, listen, serve, shut down | dependency set, HTTP server |
| dependency set (`dependency/set.go`) | active, started, one lock | Start, Close, Readiness | every component |
| database (`database/*.go`) | a pool of bounded size and its acquired connections | Start, Check, Close, Pool, InTransaction | PostgreSQL |
| HTTP server (`httpserver/server.go`) | requests in flight | health and readiness endpoints, identifier middleware, panic recovery | dependency set |
| Redis client (`redisclient/client.go`) | expiring keys under a prefix | Put, Get, Delete | Redis |
| object storage (`objectstorage/store.go`) | one bucket of objects | NewKey, Put, Get, Delete | an S3 server |
| configuration (`config/config.go`, the constructors in `cmd/api/main.go`) | the environment, how far the reading has come | Load variable by variable, then each component's New | every component |
| envelope, identifiers, logging | none | validation, UUIDv7 | - |
| frontend (`src/frontend/lib/`) | none | one backend request with timeout and response validation | the API |

An event travels like this. A caller inserts it in the transaction of its
business change. A relay leases a batch of due rows in a short transaction,
publishes each row with its ID as deduplication identity, outside any
transaction, and then marks it. The consumer fetches it, commits a receipt and
acknowledges; what it cannot handle it copies to a dead-letter subject. Each of
these steps is a separate call to a separate server, any of them can fail, be
carried out without an answer, or be overtaken by another process, and nothing
but leases, deadlines and identities ties them together. That is where the hard
behaviour is, and `PROJECT.json` lists it under "hazards", line by line:

- outbox: two relays claiming at once; a slow relay marking a row it has lost; a
  crash between claim, publication and mark; a commit or an acknowledgement
  whose answer is lost; a publication that arrives after its relay gave up; a
  Publish that never returns; attempts counted at one place and limited at
  another;
- consumer: AckWait running for a whole batch; a lost acknowledgement; a receipt
  that committed although its transaction reported an error; a dead letter that
  cannot be published, or is published and then not terminated; cancellation in
  the middle of a batch;
- process: a start that fails half way; closing components that loops and
  requests still use; readiness checks that run without the lock; the shutdown
  deadline passing at any point;
- pipeline: copies that outlive the duplicate window; an event the outbox has
  finished with and the consumer has not seen; faults on both sides at once;
- configuration: bounds that are other variables, defaults checked against
  configured bounds, the same limits written in Load and in the constructors;
- the connection pool: loops and readiness requests sharing as few as one
  connection;
- adapters: two prefixes meeting in one Redis key; expiries that mean "none";
  two processes creating one bucket; an object replaced between the request for
  its metadata and the reading of its body.

What makes the components correct, in one sentence each: a committed event is
published at least once or becomes a dead letter, a published mark is true and
final, and a lease is exclusive until it expires; the broker forgets a message
only once its receipt or its dead letter is stored, and gives none up before its
last delivery went wrong; components are up in dependency order, whatever fails is closed, and Run
returns, with nil only after a complete shutdown, and every readiness request is
answered; an event is processed once, after its transaction; what Load accepts
the constructors accept, and a refusal is the environment's fault; a Redis client sees its own
values and they all expire once they are no longer written; a body is never older than its metadata.

## 2. Modules

| Module | Models | Kind |
|---|---|---|
| `EventDelivery` | what the outbox promises: commit, deliver, publish, give up | abstract specification |
| `Outbox` | rows, inserting transactions, relays, JetStream's deduplication, time, faults | component composition |
| `OutboxProofs` | leases, outcomes, the refinement of `EventDelivery` | proofs |
| `OutboxCountingProofs` | attempts and copies in `Outbox` | proofs |
| `EventProcessing` | what outbox, stream and consumer promise together | abstract specification |
| `EventPipeline` | `Outbox` and an instance of `EventConsumer` joined at the stream | composition |
| `EventConsumer` | the durable consumer, its processes, receipts and dead letters | component |
| `EventConsumerProofs`, `EventPipelineProofs` | the consumer; the pipeline, from both sides' proofs | proofs |
| `Lifecycle` | Run, the dependency set, background loops, the connection pool, readiness requests | component composition |
| `Configuration` | Load, and the constructors main calls with its result | component |
| `EphemeralStore` | Redis clients with different prefixes | component |
| `ObjectStore` | processes sharing a bucket | component |
| `LifecycleProofs`, `ConfigurationProofs`, `EphemeralStoreProofs`, `ObjectStoreProofs` | the four components above | proofs |
| `MC...` | constants, model values and symmetry for TLC | model checking |

### Outbox

A row is five functions of the event (`status`, `attempts`, `wait`, `owner`,
`lease`). Events are numbered in the order of `created_at, id`, so the `ORDER BY`
of Claim is `Oldest`. Time is relative: a timestamp column is the number of ticks
until it is reached, and `Tick` brings all of them closer by one, which keeps the
state space finite without bounding the clock.

| Definition | Code |
|---|---|
| `BeginInsert`, `CommitInsert`, `CommitInsertUnknown`, `RollbackInsert` | InTransaction around Insert, with COMMIT's three outcomes |
| `Claimable`, `Candidates`, `ClaimBegin` | the claiming statement, which locks its rows (`FOR UPDATE SKIP LOCKED`) |
| `ClaimCommit`, `ClaimRollback`, `ClaimCommitUnknown` | its COMMIT; the records scanned from `RETURNING`, in no particular order |
| `PollEmpty` | a poll that finds nothing |
| `PublishAcked`, `PublishFailed`, `PublishHangs`, `EncodeFailed` | processBatch up to the outcome of Publish |
| `Backoff` | backoff, computed from the record's attempt |
| `MarkDone`, `MarkNotOwned`, `MarkError` | MarkPublished and MarkFailed: the guarded UPDATE hits its row, or not, or fails with or without effect; then the next record |
| `Stop` | a crash, or Close cancelling the context in mid-batch |
| `Store`, `UnknownFate`, `LateStore` | the stream: deduplication inside the window, messages in transit (external) |

Claim takes two steps, because another relay can select between the lock and the
commit. A mark is one step, because it is one statement; it waits while a Claim
has its row locked. A relay that has stopped does not come back: the process that
replaces it has a new worker ID and is another member of `Workers`.

Everything that goes wrong draws on one budget, `MaxFaults`, and so does a tick
that takes a lease away from a relay that is still at work (`Overrun`): the
properties hold for slow relays as well as for crashed ones.

### EventConsumer

The server's part (`Sendable`, `Send`, `Settle`, `Postpone`, `Exhaust`) is
external and follows from the ConsumerConfig of ensureConsumer: explicit
acknowledgement, MaxDeliver, AckWait, MaxAckPending. A process fetches a set of
messages and handles them in any order; each Ack, Nak and Term is
written without confirmation, so it may be lost with or without an error.
`Cancel` is Close in the middle of a batch: the loop goes on with what it has
fetched, and each call that takes the context fails. Whether an envelope is valid
is a parameter; several messages may carry the same event, because the outbox
stores copies (`EventPipeline` supplies them). A call that fails is a fault of its
own, so an outage of the database that lasts through several deliveries is as many
faults as it fails calls. The fallback to a delivery count of one, for a message
without metadata, is left out: every message comes from JetStream.

### EventPipeline

`EventPipeline` extends `Outbox` and instantiates `EventConsumer` with its own
variables for the consumer's side. The consumer's messages are the copies
`<<event, n>>` with `n` up to `MaxFaults + 1`, which is all there can be (lemma
`CopiesFitAlways`); `DeliversStored` is the joint: the first delivery of a copy
happens when it is in the stream. Every step is a step of one side that leaves
the other alone (`RelayDoes`, `ConsumerDoes`), both sides draw on the same
`faults`, and their clocks move independently, since leases and AckWait are
unrelated durations. Insert validates each envelope, so in the pipeline every
message is valid; invalid ones are the subject of `EventConsumer`'s own run.
The refinement mapping to `EventProcessing` keeps the committed events, the
receipts, and the events dead-lettered by either side.

### Lifecycle

`main` is the position of Run: start, listen, serve, drain (Shutdown), close and
wait (one component's Close), exit. Set.mu is held through start, close and wait,
so `Look`, the locked part of Readiness, waits for those; its checks do not.
`Ping` holds a pool connection; a loop's query and a ping both wait while
`PoolFull`, a ping at most until the readiness timeout (`TimedOut`). A request
for which no identifier can be made is turned away before the handler
(`TurnAway`). `CloseBlocked` states what each Close waits
for: a worker for its loop or the deadline, the pool for its connections without
regard to the deadline. After exit nothing moves.

### Configuration

`step` walks through the variables in Load's order and then through the
components in main's order; `blamed` is what the startup error names. A value is
what is left after TrimSpace: empty, malformed, or the parts that the checks look
at (a URL's scheme, host and path, a port, a bucket name's numbers). `Accepts` is
Load's verdict on a variable, with the bounds that depend on other variables;
`Agrees` is the constructor's own check, translated separately from Load's, and
`DriverAgrees` what the constructor leaves to pgx, go-redis and minio-go
(external). `Begin` leaves the environment open; `Init` adds the environments that
TLC enumerates.

### EphemeralStore and ObjectStore

The Redis adapter keeps prefixes and keys as sequences of characters, because its
isolation rests on their concatenation; `own` is a history variable with the map
that each client's own calls amount to. `Characters` is what both are made of; TLC is
given the few that occur.

The object store has two requests in Start and two in Get, with other processes
between them. A version is the number of the call of Put that stored an object; it
stands for its bytes, size, content type and ETag. Put takes any key: NewKey makes
fresh ones, but nothing obliges a caller to use a fresh one, and a second Put
replaces the object. A body may therefore be another object than its metadata
describes. What Get's order of requests ensures is that it is a later one, and the
two are the same when callers put each key once; the code leaves that to them. The
server's requests are assumed to take effect one after the other.

## 3. Runs

Each run answers one question. All pass within the bounds given except the four
that exhibit a disagreement between the code and the documentation.

| Run | Instance | Distinct states | Shows |
|---|---|---|---|
| `outbox_safety` | 2 relays, 2 events, batches of 2, 2 faults, lease 2, backoff 1..2, window 2 | 735,390 | leases exclusive, outcomes final, a published row is in the stream, no event without a commit, copies and attempts paid for, the two inductive invariants |
| `outbox_live` | 3 relays, 1 event, 2 faults | 77,712 | every committed event is settled; lastError does not stick; the outbox implements `EventDelivery` with its liveness |
| `outbox_attempts` | 3 relays, 1 event, 2 faults | | finding 1 |
| `consumer` | 2 processes, an event and a broken message, 3 deliveries, 3 faults, AckWait 1, delays 2 and 3 | 305,698 | nothing forgotten unhandled, dead letters and giving up only after the last delivery went wrong, the inductive invariant; a delivered message ends handled; lastError does not stick |
| `consumer_exhausted` | 1 broken message, 2 deliveries, 2 faults | | finding 2 |
| `lifecycle` | 4 components, 2 loops, 2 connections, 1 readiness request | 18,980 | order of start and close, meaning of Run's result, readiness during shutdown, the inductive invariant; shutdown completes, requests are answered |
| `lifecycle_deadline` | 4 components, 1 request | | finding 3 |
| `ephemeral` | 5 prefixes and 4 keys, some unacceptable, expiries -1..2 | 2,000 | isolation and its inductive invariant; everything expires |
| `objects` | 2 processes, 2 keys, 3 puts, 2 faults | 27,839 | a body is never older than its metadata, the inductive invariant; all processes come up |
| `pipeline` | 2 relays, 2 consumer processes, 1 event in up to 3 copies, 2 faults, 2 deliveries, all durations 1 | 236,197 | one receipt, only after the commit; nothing falls between outbox and consumer; both sides' invariants hold together; a committed event is processed or given up |
| `configuration` | the empty environment and every one with one or two variables set, each to both sides of its bounds and to every way of being wrong | 98,726 | Load and the constructors agree; no refusal without cause |
| `configuration_named` | the same | | finding 4 |

**Bounds.** Two relays are enough for every conflict over a row, since a row has
one owner and one challenger; two events make a batch of more than one record, so
that a relay holds one row while it works on another. With two faults a relay can
crash or overrun after another failed, which takes the attempt count to
MaxAttempts and beyond, and a retry can come before or after the duplicate window
ends. Three deliveries and three faults let a message reach its last delivery and
fail there; the second redelivery delay, 2 doubled, is over the longest of 3, so
both the loop and the cap of redeliveryBackoff are at work. In the pipeline, two faults let
one publication be repeated after the window and a receipt's answer be lost on
top of it, or both copies be delivered to two processes at once; that its relays
may then all be gone is an alternative of `EventuallyProcessed`, since three
relays exceed what TLC can check for liveness here. Two loops and two connections
let the loops hold the whole pool. Three calls of Put let an object be replaced
while it is open, and once more or under the other key. No check in the code looks at more than two
variables, which is why two set variables are enough in `configuration`. Four components put one
connection between the pool and the loops, as `cmd/api/main.go` does with more of
them. `MaxFaults` and `MaxPuts` are the only bounds that are not parameters of the
program; both are in the guards. Symmetry is used in `outbox_safety` only, which checks no
liveness, over the relays, which no definition tells apart.

**Fairness.** A relay's next step (`RelayStep`) is weakly fair: its ticker fires,
and PostgreSQL answers or the call fails. Failures themselves are never fair, and
a Publish that waits for a lost answer is never assumed to return: the relay's
context has no deadline and the client waits for as long as the context lives.
`outbox_live` therefore has one relay more than there are faults, which stands
for the replacement of stopped containers (`restart: unless-stopped`,
`src/deploy/compose.yaml`). The consumer's loop, the server's exhaustion of
deliveries and time are weakly fair for the same reasons; a timed-out Fetch is
fair, since Fetch is called with a maximal wait. `EventuallyHandled` excuses a
message only when its deliveries are used up and at least as many things went
wrong, or when every process hangs in a call without deadline. The pipeline takes
over the fairness of both components for the steps they take in it: relays,
consumer processes and the two clocks. In `Lifecycle`, Run, the
deadline and readiness requests are fair (the readiness timeout bounds the
latter); a loop's batch is required to end only once its context is cancelled.
Inserting transactions, signals and requests are never required to happen.

## 4. Findings

1. **Attempts are limited only where a failure is marked** (`outbox_attempts`).
   Claim counts an attempt each time it takes an abandoned row over;
   only MarkFailed compares the count with the maximum. A row whose relay
   crashes, overruns its lease or loses the answer of its mark is attempted
   without limit, although `src/docs/handoffs/p01-04-outbox-jetstream.md` speaks
   of exhausted records that become dead letters.
2. **A dead letter that cannot be published at the last delivery is lost**
   (`consumer_exhausted`). deadLetter hands the message back with a delay, but
   the server has used up MaxDeliver and does not send it again: neither receipt
   nor dead letter remains.
3. **The shutdown deadline does not bound the pool's Close**
   (`lifecycle_deadline`). It waits for acquired connections, for example one held
   by a readiness query, with no regard to its context. (`ShutdownCompletes`
   shows that it returns in the end.)

4. **Some startup errors name no variable** (`configuration_named`). Values that
   Load accepts can still be refused by a driver's parser in a constructor: a
   database URL with an unknown `sslmode`, a Redis URL whose path is no database number,
   a bucket name of four numbers that is not an IP address. The error then names
   the component; `src/docs/configuration.md` says that an invalid configuration
   names the affected variable.

One smaller remark, without a run: `src/docs/contracts.md` has the dead-letter
subject depend on the original subject, the consumer publishes to one constant
subject.

## 5. Proofs

Every safety property that a passing run checks is also proved, for every value
of the constants that the named assumptions allow. Each component has one
inductive invariant, a conjunction of named parts of which `TypeOK` is the first; TLC
checks it as an invariant of the component's run (that of `Configuration`, `AcceptedSoFar`, is stated beside
its proof), and each property follows from it. A `...Proofs` module has
one lemma per group of actions and part they can disturb, then the invariant's
theorem, then the properties.

| Module | Invariant | Theorems, besides the invariant and `TypeCorrect` | Assumptions |
|---|---|---|---|
| `OutboxProofs` | `LeaseProtocol` | see 5.1 | `RelayConfigAssumption` (what NewRelay accepts), `EnvironmentAssumption` |
| `OutboxCountingProofs` | `AttemptAccounting` | `AttemptsPaidAlways`, `CopiesBoundedAlways` | the same |
| `EventConsumerProofs` | `DeliveryProtocol` | `ForgottenIsHandledAlways`, `DeliveriesPaidAlways`, `DeadLetterIsLastResortAlways`, `GivenUpIsPaidAlways` | `ConsumerAssumption` |
| `EventPipelineProofs` | `PipelineProtocol` | `NothingBetweenAlways`, `ImplementsProcessingAlways` | those of both sides; `PipelineAssumption` |
| `LifecycleProofs` | `OrderlyLifecycle` | `PrefixUpAlways`, `CleanExitAlways`, `DependenciesOutliveUsersAlways`, `NilMeansGracefulAlways`, `NotReadyWhileClosingAlways` | `LifecycleAssumption`: the loops are declared after the database, as in main |
| `ConfigurationProofs` | `AcceptedSoFar` | `OnlyDriversRefuseAlways`, `RefusalDeservedAlways` | `MarksAssumption`: the marks for "empty", "malformed", "nobody", "unnamed" differ from values, names and each other |
| `EphemeralStoreProofs` | `Mirrored` | `QualifiedKeyInjective`, `PrivateViewAlways` | `EphemeralAssumption` |
| `ObjectStoreProofs` | `ObjectProtocol` | `BodyNotOlderAlways` | `ObjectStoreAssumption` |

### 5.1 Outbox

`OutboxProofs` proves, for any number of events and relays, any configuration
that NewRelay accepts (`RelayConfigAssumption`), any duplicate window of at least
one tick and any number of faults (`EnvironmentAssumption`):

| Theorem | States |
|---|---|
| `LeaseProtocolInvariant` | `SafetySpec => []LeaseProtocol` |
| `TypeCorrect` | types; scheduled waits within MaxBackoff, leases within LeaseDuration |
| `PublishedIsStoredAlways` | a row marked published is in the stream |
| `TransactionalOutboxAlways` | commits told to callers are real, and nothing else is published |
| `FreshRecordAlways` | an owner's record has the row's attempt count |
| `SettledForeverAlways` | outcomes are final, rows and attempts are never lost |
| `LeaseRespectedAlways` | a lease that has not expired ends by its owner's mark only |
| `ImplementsDeliverySafety` | `SafetySpec => Delivery!SafetySpec` under the refinement mapping |

The argument is one inductive invariant, `LeaseProtocol`. The stated properties
alone are not inductive, for these reasons:

- `PublishedIsStored` needs to know, when a relay marks, that its acknowledgement
  was for an event the stream holds: the second part of `WorkInHand`. When
  the stream deduplicates, `Store` adds nothing, so the acknowledgement proves a
  copy only because a remembered ID implies one: `WindowIsStored`.
- `TransactionalOutbox` needs that what a relay publishes is a committed row (the
  third part of `WorkInHand`), and that an open insert is of an absent one
  (`OpenIsAbsent`), so that a commit does not reset a row.
- `FreshRecord` and exclusivity need that a Claim's rows are still claimable when
  it commits, and its alone: `LocksHeld`. It survives the steps of the other
  relays because marks wait for row locks and `Candidates` leaves locked rows
  out; it survives a tick because a deadline that has passed stays passed.
  `LeaseState` (the table's `outbox_lease_state` constraint) excludes
  a lease on a row that is not being published.
- the bounds of `TypeOK` need `TimersBounded`, the lease and the backoff that
  a relay has computed and not yet written; `Backoff` is within its limits by the
  cap the code applies after its loop, so no induction over the loop is needed.

The proof has one lemma per group of actions and conjunct it can disturb; two
action properties and the refinement follow from the invariant and the same case
split. For the refinement, a relay's acknowledged, failed, hung or late publication is
`Deliver` or a stutter, a mark is `Publish` (where the invariant supplies that the
event is delivered), `GiveUp` or a stutter, the commit of an insert is `Commit`,
and everything else stutters.

### 5.2 Attempts and copies

`AttemptAccounting` adds to the lease protocol what ties attempts to faults. The
idea is an attempt that nothing has gone wrong with: its number is greater than
`faults`. Such an attempt has settled the row or is still in the hand of the relay
that made it (`UnpaidInHand`), and that relay still owns the whole batch
(`UnpaidOwned`), so nobody else can claim the row, and the next attempt comes only
after another fault. A relay that gives a record up does so because of a
fault later than its claim (`TroublePaid`), and a Claim that commits with its lease
already over has overrun it (`StaleClaimPaid`). `CopiesBounded` needs a count over
relays: copies stored, copies in transit and the relays that may still publish
(`Holders`) never outnumber the claims (`CopiesAccounted`). No sum is
needed, only that a step adds or removes one holder; the cardinality
facts come from `FiniteSetTheorems`.

### 5.3 Consumer

`DeliveryProtocol` uses the same idea for deliveries. A delivery nothing has gone
wrong with is in the hand of a process and its AckWait is running
(`UnpaidInHand`); a process that hands a message back, hangs or is being stopped
does so after a fault later than the fetch (`TroublePaid`); what a process was told
is at most what the server counts (`CountsTrue`). From these come `DeliveriesPaid`
and, as a count of `MaxDeliver` then implies as many faults,
`DeadLetterIsLastResort`. `ForgottenIsHandled` needs that an answer is sent only with
its evidence stored (`EvidenceStored`), and that the message in hand is one of the
batch (`BatchInHand`). `GivenUpIsPaid` is inductive beside the protocol: the server
gives up only a message whose AckWait is over, and by `UnpaidInHand` something has
then gone wrong with its last delivery too.

### 5.4 Pipeline

The pipeline's proof reuses both sides'. To either side, a step of the other is
one that changes nothing but `faults`, and only upwards; the lemmas
`FaultsElsewhere` show that both invariants survive that, which is
not obvious, since the counting parts compare with `faults`: they do so from
below. `ConsumerConfigured` derives the consumer's assumptions for the pipeline's
copies from `PipelineAssumption`. `CopiesBounded` and `AttemptsPaid` give
`CopiesFitAlways`: the set `Copies`, bounded by `MaxFaults + 1`, cuts nothing off.
With `StoredFirst` (what has been delivered is in the stream), `NothingBetween` joins
`PublishedIsStored` of one side to `ForgottenIsHandled` and `CountsTrue` of the other.
For `ImplementsProcessing`, the commit of an insert is the abstract commit, the first
receipt of an event is `Record`, a dead letter on either side is `GiveUp`, and
everything else stutters; the invariants supply that a copy belongs to a committed
event, and the conflict clause of `Record` that a second copy adds nothing.

### 5.5 Process, configuration, adapters

- `OrderlyLifecycle`: the components that are up are a prefix whose length is a
  function of where Run stands (`Standing`, `RunProgress`), a loop that Close is
  done with has ended unless the deadline passed (`LoopsInOrder`), and requests are
  in flight only from Serve to the end of Shutdown unless it passed
  (`RequestsInOrder`). `NotReadyWhileClosing` is an action property from the same.
- `AcceptedSoFar`: what Load has read it has accepted. The theorems are about
  `AnySpec`, in which any number of variables are set to anything; the run's
  environments are some of these (`SpecIsAny`). `OnlyDriversRefuse` is then one lemma
  per constructor, from Load's checks to its own; `RefusalDeserved` is one case per
  variable, from its default to its check (`LoadDeserves`), and one per driver
  (`DriversDeserve`). With no variable set neither part of it allows a refusal.
- `Mirrored`: Redis holds under a client's keys what the client put there.
  The step that needs an argument is that a Put of one client leaves another's keys
  alone: `QualifiedKeyInjective`. The first colon of a qualified key is the one
  after the prefix, since no prefix that New accepts has one, and so the
  key has only one reading.
- `OpenedIsCurrent`: Put stores versions newer than any before and Delete leaves
  none, so what is stored under a key that a process has opened is as new as Get
  saw it, or gone. Reading it then gives `BodyNotOlder`.

### 5.6 Only model-checked

Liveness (`EventuallySettled`, `RelayRecovers`, `EventuallyHandled`,
`ConsumerRecovers`, `ShutdownCompletes`, `EveryRequestAnswered`,
`EverythingExpires`, `EventuallyUp`, `EventuallyProcessed`) and the fairness part of
`ImplementsDelivery`: the prover has no rules for `ENABLED`. The four
findings are counterexamples, which need no proof.

## 6. Not modelled

- The envelope's field rules, logging and the health check: stateless. Whether
  an envelope is valid enters as a parameter.
- UUIDv7: worker and event IDs are distinct model values, object keys any of a set. The contents of
  request and correlation identifiers, which are only passed on.
- Panic recovery of the HTTP server, and its fixed read and write timeouts.
- The frontend's client: one request with a timeout and a check of the response,
  sequential and without state.
- NATS reconnection and draining: their effects (lost deliveries, lost
  acknowledgements, failed calls) are faults of the models. The stream's limit of
  30 days.
- Clock skew between a relay and the database, and different versions of the
  validation rules running side by side: the code states no bound on either.
- Deployment files and scripts.

## 7. Plan

1. Done: outbox with abstract specification; consumer; pipeline; life of a process
   with its pool; configuration; Redis and object storage. Proofs of every safety
   property of these.
2. Next: step-by-step facts that liveness rests on and that are within the prover's
   reach, such as that a claimable row stays claimable until a relay takes it;
   shorter proofs where a lemma can serve two modules.
