# TLA+ models and proofs of url-threat-scanner

url-threat-scanner accepts URLs over HTTP, hands each to a worker through a
transactional outbox and RabbitMQ, runs security checks on it, scores the
findings and stores a verdict that the client polls for. Three kinds of process
share one PostgreSQL database and one broker: the **API**, the **relay** and the
**worker**. This directory specifies what they do between themselves, checks it
with TLC on small instances, and proves the safety part with TLAPS for any
number of scans, requests, processes, messages and checks.

Paths below are relative to the repository. Definitions keep the names of the
code where they can; each is translated from the lines that `PROJECT.json`
names for it. Operators commented `Mutant:` are deliberate bugs; they are used
by no specification and exist so that each property can be seen to fail.

## 1. The system

| Component | State it keeps | Operations | What makes it correct |
|---|---|---|---|
| Submit: `POST /v1/scans` (`src/api/handlers/submit-scan.handler.ts`, `submit` in `src/repositories/scan.repository.ts`) | an open transaction and a pool connection per request | insert scan and outbox row in one transaction; on a unique violation read the winner; answer created, replayed or conflict | one scan per client and key; a scan never without its event; answers that agree; no request stuck on a small pool |
| Outbox and relay (`src/outbox/`, `src/main.relay.ts`) | rows locked and not yet confirmed | poll, drain with `FOR UPDATE SKIP LOCKED`, publish and await the confirm, commit, roll back | no event lost; no row drained by two relays; duplicates only after failures; every event published in the end; older events first; an event nobody routes holds up only what sorts after it |
| Messaging (`src/messaging/`) | the queue, unacknowledged deliveries | publish, confirm, deliver up to the prefetch, ack, nack, requeue on a closed channel | every message acknowledged, dropped on purpose or redelivered; a message that cannot be read costs little |
| Worker (`src/worker/process-scan.ts`, `src/main.worker.ts`, `claimForProcessing` and `completeScan`) | what each running handler has claimed and found | claim, look up a refused claim, run checks, complete; crash, stop, restart | one handler per scan; result and status together; bounded damage of a fault |
| Check runner (`src/checks/run-checks.ts`, `create-simulated-checks.ts`) | a race, a timeout timer and an abort signal per check | launch, answer, reject, throw, time out | each check recorded once; returns always; nothing left running |
| Scoring (`src/checks/scoring.utils.ts`) | none | weighted mean, rounding, verdict | verdict of the exact mean; outages neutral; monotone |
| Read: `GET /v1/scans/:id` (`src/api/handlers/get-scan.handler.ts`, `findById`, `src/domain/scan/translator.ts`) | the row read first | two SELECTs, ownership, answer | no completed view without its checks; a poll never goes back |
| Id generation (`src/utils/id.utils.ts`) | none | fixed-width base-62 time, random tail | ids sort by time |
| URL validation (`src/utils/url.utils.ts`) | none | parse hosts, look up reserved ranges, normalise | refused exactly when reserved, however spelled, but for two forms left wrapped; one hash per target |
| Middleware, error handler, health (`src/api/create-app.ts`, `src/api/middleware/`, `src/config.ts`) | the map of keys | read the body, authenticate, route, validate, answer errors | only admitted requests reach the handler, for the right client |
| Migrations, logging, clocks, randomness | none that the above share | | |

How they interact: the API and the workers share the `scan` table, the API and
the relays the `outbox_event` table, relays and workers only the broker. No
process calls another. What is hard is between them: a claim that two deliveries
race for, a confirm that times out although the message arrives, a process that
dies between two of its statements, a COMMIT whose answer is lost, a graceful
stop that requeues messages of handlers that go on running, two SELECTs with a
completion in between, a row whose id is older than its commit, a message that
kills whoever reads it. `PROJECT.json` lists these hazards at their lines with
the properties that guard them.

## 2. The modules

| Module | Models | Relation |
|---|---|---|
| `ScanLifecycle` | the promise about one scan: accepted, started, finished once; result with the last step | abstract |
| `ScanPipeline` | outbox, relays, broker, workers, database, and their faults | implements `ScanLifecycle`; drives the rows of `ReadScan` |
| `OutboxOrder` | ids, clocks, late commits and unroutable events against the drains of several relays | refines the order inside `ScanPipeline`'s drain |
| `ScanConsumer` | the worker against messages of any content | the part of `ScanPipeline`'s worker that depends on the content |
| `ScanTarget` | hosts, reserved ranges, normalised URLs, as operators | used by `ApiRequest` |
| `ApiRequest` | requests through middleware and handler up to `repository.submit` | implements `IdempotentSubmit`, with `submit` as one step |
| `IdempotentSubmit` | the promise to a client that retries (ADR-0003) | abstract |
| `SubmitScan` | concurrent submit requests over several API processes | implements `IdempotentSubmit` |
| `Scoring` | recorded results and `scoreScan` | abstract for the runner |
| `CheckRunner` | `runChecks` at the granularity of event-loop turns | implements `Scoring`'s recording |
| `ReadScan` | concurrent reads against the life of a scan | its writer's three steps are those of `ScanLifecycle`, and all that `ScanPipeline` does to the rows (`DrivesReadScan`) |
| `MC*` | instances for TLC | extend the module |
| `*Proofs` | theorems and proofs | extend the module and `TLAPS` |

`ScanPipeline` starts from committed submissions (its `Submit(s)` is
`SubmitScan`'s `Commit`), its `RunChecks` chooses any result, which `CheckRunner` and
`Scoring` refine, and `ReadScan` reads what it stores: `DrivesReadScan` says that the
pipeline's steps are, for those rows, steps of `ReadScan`'s writer. `IdempotentSubmit` is
kept twice: by `SubmitScan`, about keys and hashes that are given, and by `ApiRequest`, about
the client an API key stands for and the hash that a typed URL comes to. `OutboxOrder` and
`ScanConsumer` each take one thing that `ScanPipeline` leaves out, because their
failures together with all of `ScanPipeline`'s would be beyond TLC.

### ScanPipeline

One action is one atomic effect: a committed transaction or a statement outside
one, one message handed over, one message acknowledged. `relayPc`, `batch` and
`left` are what a relay knows between two awaits of `drainAndPublish`;
`handlerPc`, `handling` and `found` the same for one run of `onMessage`. A
handler is one of the `Prefetch` deliveries a worker holds.

- *Relay.* `Drain` locks the first `BatchSize` unpublished rows nobody has
  locked; `Publish`, `Land` and `Confirm` go through them in order; `Commit` marks
  them. `PublishFails` is a nack or the confirm timeout, `DrainDbFails` a failed
  statement, `RelayCrash` any exit, a graceful stop included (the code's `stop`
  lets a drain finish, which is a crash after `Commit`). A copy given up on may
  land later (`wire`, `LandLate`) or be lost.
- *Broker.* The queue counts copies per scan: no order between scans is assumed.
  A copy is delivered to any free handler. A closed channel returns its
  unacknowledged copies (`Requeue`). No queue is bound to the dead-letter
  exchange, so a nacked message is gone (`dropped`). A broker restart is a crash
  of each connected process; persistent messages survive it.
- *Worker.* `Claim` and `ClaimNothing` are the conditional UPDATE, `LookUp` the
  SELECT after a refusal (its missing-row branch never happens: rows are not
  deleted), `CompleteScan` the transaction; the unique index on
  `(scan_id, check_id)` is its guard, since the simulated checks always return rows. `HandlerDbFails`
  covers a call that failed with and without effect. `WorkerStop` is the code's
  `shutdown`: the channel closes first, and running handlers go on without being
  able to acknowledge.

### OutboxOrder

An id is the digits of the writer's clock followed by one digit for the random
tail (`UniqueId`); `Before` is the comparison of text in byte order, which is the
collation of the `postgres:16-alpine` image that `docker-compose.yml` runs. `InsertEvent` and
`CommitEvent` are the two ends of `submit`'s transaction: the id is made when the
first happens, the row is visible when the second does. A relay's `Drain` is the
SELECT, `PublishRow` one confirmed publish, `MarkPublished` the UPDATE and COMMIT;
`RefuseUnroutable` is the exception for a type without a routing key, which rolls
the batch back. `born`, `committedAt` and `skipped` are history, for the property only.

"Roughly the order events happened" (`outbox.repository.ts`) is made exact by
`NoOvertaking`: an event is published before another that was visible earlier only
if the earlier one's commit and the later one's id are within the clocks' skew, or
another relay held the earlier one's row at the time.

### ScanConsumer

The queue holds any messages: not JSON, not an envelope, not a payload, of a scan
without a row, or repeated events. `Parsed` is the synchronous part of `onMessage`.
A body that is not JSON throws outside its `try` and nobody awaits the promise, so
the process exits (`Die`) with every delivery it holds; other handlers of the
worker may have gone on until then. The consumer looks at neither `eventType` nor
`eventVersion`, so any envelope whose payload fits is a request. The database does
not fail here; that is `ScanPipeline`.

### ScanTarget and ApiRequest

Texts are split into parts already, whatever their radix, and a 32-bit number is a
pair of 16-bit halves, so that TLC's integers suffice. What `URL.parse` does is
written by the URL standard and without the code's functions: `Packed` fills the
bytes of an IPv4 address, `Expanded` places the groups of an IPv6 one, `Serialised`
compresses its longest run of zeros, and `Canonical` is the host that comes out. Only
then does the code read it, with `parseIpv4` and `parseIpv6`, which follow its case
analysis, and look up the range. The yardstick, `Reserved`, goes from the text as typed: an
IPv4 address is reserved when it lies between the ends of a range of the table
(instead of under a mask), an IPv6 address when it lies in `fc00::/7` or `fe80::/10` or
carries a reserved IPv4 address behind `::ffff:0:0/96`, `64:ff9b::/96` or `::/96`. Of these
carriers the code unwraps the first only; `LeftWrapped` names what it misses so, which section 6
returns to. Ranges that neither the code nor the plan names (IPv6 multicast, documentation
prefixes) are no part of the yardstick, nor are names, which denote no address before
they are resolved. The rows of the table are taken as they are: the yardstick shares the
range and the prefix length of each, so a wrong row would not show, a wrong mask does.

A request is read (`RejectBody` is body-parser's own failure), then everything up
to `repository.submit` is one event-loop turn. The scans router authenticates
before it looks for a route, hence 401 before 404 there. `Submit` is one step, with
the rows of one client and key; `SubmitFails` may have stored the scan all the
same.

### SubmitScan

A request waits for a connection (`Begin`), inserts, waits while a rival with the
same key has an open transaction, and either commits with its outbox row or meets
the unique violation and reads the winner on a connection taken anew. `DbFails`
at `committed` is the COMMIT whose answer is lost. A client's retry is another
request with the same key. Generated ids are distinct.

### CheckRunner and Scoring

A step is what Node runs without returning to its timers. All checks are launched
before any timer can fire; a check may throw at once, answer, reject, answer after
its timeout or never settle, and those in `heeds` stop at the signal. `Scoring`
works in integers with `Math.round` as `(2n + d) \div 2d`. The three check ids are those of
the `CheckId` enum; the sums are written out as three terms so that they can be
proved about. A check that reports the outcome `error` itself and one that threw
are both `Errored`.

### ReadScan

`ReadRow` and `ReadChecks` are `findById`'s SELECTs; the second step also does
what follows without an await: `fromRows`, the ownership check, the answer. A
view may be torn one way: `in_progress` with all its check rows, when the
completion commits between the two. The property says that this is the only tear
and that a client polling on never notices it as a step back.

## 3. What is checked

| Run | Instance | Question |
|---|---|---|
| `pipeline_safety` | 2 scans, 2 relays, 2 workers, batch 2, prefetch 1, one fault of each kind | is any event lost, drained twice at once, processed twice, half stored; is a scan ever with nobody who can go on; is every step one of `ScanLifecycle`, and of `ReadScan`'s writer; how much can a fault cost? |
| `pipeline_settles` | one fault of each kind, 2 handlers | is every event published, and does every scan complete or end in one of the two known ways? |
| `worker_killed_mid_scan` | 1 scan, 2 workers, a worker fault | violated: see section 6 |
| `dropped_not_failed` | 1 scan, 1 database fault | violated: see section 6 |
| `submit_safety` | 3 requests, 2 clients, 2 API processes, pool 1, 2 faults | one scan per key, event with scan, agreeing answers, no failed lookup of the winner, nobody stuck on a connection or a rival |
| `submit_promise` | 3 requests of 1 client, pool 2, 1 fault | does submit implement `IdempotentSubmit`, and is every request answered? |
| `check_runner` | 3 checks of any behaviour, 2 severities | recorded once, nothing left, no unhandled rejection, always returns, and for that waits on no check |
| `scoring` | all results of 3 checks with 9 severities | mean, monotony, exact verdict, neutral outages |
| `read_scan` | 1 scan, 2 results, 3 polls of the owner, 1 other client | whole and monotone views |
| `outbox_order` | 2 routable events, 1 unroutable, 2 relays, 2 API processes one tick apart, batch 2, 1 failed publish | what overtakes what, and what an unroutable event holds up, in one drain and for good |
| `scan_consumer` | any 3 messages, 2 scans with a row, 1 without, 2 workers with 2 deliveries each | settled rightly; no delivery left lying; what a poisonous message costs and holds up |
| `api_request` | 2 requests over the ends of the 14 ranges in several spellings and carriers, 11 variants of one page with two keys, and what is refused otherwise | only what is admitted is stored; refusals exact but for two named carriers; retries known |

### Bounds

- Two scans give a batch with an order, a head and a tail, and two messages in
  one queue. Two relays and two workers, or two handlers of one worker, are all
  that any pairwise property can involve.
- One fault of each kind (`MaxFaults`) allows every pair of a relay, a worker and
  a database fault in any order, so a duplicate can meet a crash and a failed
  claim. The safety theorems hold for any bound.
- Three submit requests: a winner, a loser and a third that arrives when the
  winner has crashed. Pool size 1 forces waiting for connections, 2 lets a rival
  wait inside a transaction.
- Severities -50, 0, 29, 31, 50, 69, 71, 100, 1000: both sides of each threshold
  and of the scale, with means on both sides of 29.5 and 69.5 (the weights 4, 3, 2 let no mean be either).
- Four reads: an answer, a read that overlaps it, a read sent after it, and one of
  a stranger.
- Two digits to the base 2 and three ticks: a carry into the leading digit
  happens, which is where an encoding without leading zeros sorts wrongly. Three
  events in batches of two leave one behind.
- Three messages: one that kills a worker, one it holds meanwhile, and one behind
  them. Prefetch 2 is the least at which a death can cost a scan.
- For each reserved range its first and last address and their neighbours, as a dotted
  quad and IPv4-mapped, those of two ranges in four more spellings (which are all one to
  the code, after `URL.parse`), hosts that overflow in each part, both ends of the IPv6 ranges, and
  IPv6 addresses that carry a reserved or an ordinary IPv4 address behind each prefix: a mask or a
  width that is off by one shows at one of them. Two requests are all that a key can relate.
- Symmetry is used for relays, workers, requests or clients only, and in no run
  with a liveness property.

### Fairness

`ScanPipeline`: weak fairness of each relay's next step, each running handler's
next step, the broker's delivery, a stopping worker's exit, and each restart. The
code awaits bounded operations only, the relay loops until stopped, and
`docker-compose.yml` (51, 62, 72) restarts what exits. Nothing makes `Submit`, a
fault or a stray message (`LandLate`) happen. `SubmitScan`: weak fairness of each
request's own step; a request waiting for a connection or for a rival is disabled
until that is free, as the pool's and the lock manager's queues make it. `CheckRunner`: synchronous code finishes and
due timers fire; no check is assumed ever to settle. `OutboxOrder`: each relay's
step, and neither ticks nor inserts nor commits nor failures. `ScanConsumer`: delivery,
handlers, the exit after an unhandled rejection and the restart.

Deadlock checking is off where the system really stops: the checks of a scan
(`CheckRunner`, `Scoring`), a finite set of reads or requests (`ReadScan`,
`ApiRequest`), and where relays or workers are idle (`OutboxOrder`,
`ScanConsumer`).

The types of `ScanPipeline`, `SubmitScan`, `CheckRunner`, `Scoring`, `OutboxOrder` and
`ScanConsumer` are not repeated in the runs: they are proved for all constants
(section 4), as a part of the inductive invariants.

## 4. What is proved

Every theorem holds for every value of the constants under the `ASSUME`s of the
module, which state types and distinctness of the special values (a missing
idempotency key is no request and no client), finiteness of the sets of workers,
messages and events, positive batch, prefetch and pool sizes, that a relay and a
worker are deployed, and that checks come to some result.

- `ScanPipelineProofs`: `TypeOK`, `SingleProcessor`, `ResultsWithStatus`,
  `LocksDisjoint`, `NoLostEvent`, `DuplicatesNeedFaults`, `BlastRadius`, and
  `Spec => Lifecycle!Spec`. `TypeOK` is not inductive alone: `Nack` adds
  `handling[h]` to `dropped`, so `Typing` adds that a busy handler has a scan.
  `RelayInv` says that the rows of open drains are unpublished and each in one
  batch, that every scan has an event, and that no message exists before its scan.
  `WorkerInv` ties the handlers to the rows: a handler that processes a scan finds
  it `in_progress` and is alone, one whose claim was refused finds it no longer
  `pending`, and results appear with the status. `Delivered` strengthens `NoLostEvent` to events
  that are confirmed but not committed yet: between `Land` and `Commit` the
  event is unpublished while its message may already be consumed.
  `CopiesBounded` counts the copy a drain is about to pay for. `BlastRadius` needs
  the damage counted when it is caused, not when it shows: a handler of a closing
  worker may still claim, and a message is dropped after its call has failed.
  `ScansPaid` and `DropsPaid` therefore count with the lost scans the handlers
  that may still lose one (`Doomed` and `Dooming`, `dropped` and `Refusing`); each
  step then moves a scan from one set to the other or pays for it with a fault.
  `NeverStranded` follows from `AlwaysDelivered`, which says that the event of a pending
  scan is in the outbox, or its message in the queue or with a handler, or dropped, and
  from what a process in each position can do next. `Spec => Rows!Spec` (`DrivesReadScan`)
  is the refinement of `ReadScan`'s writer; `Spec => Lifecycle!Spec` follows from it.
- `SubmitScanProofs`: `TypeOK`, `OneScanPerKey`, `EventWithScan`, `AnswersAgree`,
  `WinnerIsThere`, and `Spec => Promise!Spec`. The invariant joins what a request's
  position says of its rows (`RowsByPc`) and its answer (`AnswerByPc`), and
  strengthens the uniqueness of committed rows to rows of open transactions
  (`OneRowPerKey`): that is what makes Commit safe. `NobodyStuck` is the absence of deadlock
  between the pool and the unique index: a request that has met a violation holds no
  connection, a request that inserts holds one and waits at most for a rival's
  transaction, and that rival has inserted already and waits for nobody.
  `NoRequestSetBack` bounds the steps: nothing inside `submit` is retried.
- `CheckRunnerProofs`: `TypeOK`, `NothingLeftBehind`, `NoUnhandledRejection`, and
  that the runner implements `Scoring`'s recording. The invariant is per check: a
  timeout is armed, from the launch, exactly while its race is open. That is also why `NeverWaitsOnACheck`
  holds: whatever the checks do, each open race has a timer. `EveryStepProgresses` bounds
  the steps.
- `ScoringProofs`: `TypeOK`, `ScoreIsMean`, `VerdictIsExact`, `WorseIsNotSafer`,
  `OutageIsNeutral`, for every set of integer severities. The key lemma,
  `ScoreAtLeast`, turns "the rounded score reaches k" into an inequality between
  the two sums.
- `ReadScanProofs`: `TypeOK`, `CompletedIsWhole`, `ViewsNeverGoBack`. The invariant
  says that what was read is never ahead of the scan (`Behind`) and that a read
  sent after an answer is not behind it (`Ordered`).
- `OutboxOrderProofs`: `TypeOK`, `MarkedReachedBroker`, `NoOvertaking`, for any base,
  width, clocks and batch size. `EncodingSorts` shows that the digits of a smaller time
  are lexicographically smaller: the encodings agree in the leading digits until the
  quotients first differ. `NoOvertaking` then rests on an invariant about open
  batches: what a batch left behind when it was selected sorts after it, was
  skipped as locked, or was not visible yet, and a row that becomes visible later
  has a commit time that is no older. `OnlyBehindUnroutable` needs that ids are sorted totally
  (`BeforeTotal`) and unique (`UniqueIds`), and `NoRowForgotten` that of any rows one comes first
  (`FirstExists`, by the number of rows ahead of it).
- `ScanConsumerProofs`: `TypeOK`, `SettledRightly`, `DeathCost`, `WorkersGoOn`,
  `OnlyPoisonSetsBack`. A held message's
  progress fixes what its body is and how far its scan has come; two messages
  are never checking the same scan, so what a death orphans is at most the rest
  of one worker's deliveries. Without a body that is not JSON no worker dies
  (`AliveWithoutPoison`), and what a worker holds has a handler that goes on.
- `ApiRequestProofs`: about every host, that the masks keep exactly the intervals
  (`GuardIsExact`), that short forms are read as inet_aton reads them
  (`ParsesLikeInetAton`), and that the canonical form of any text gets a label exactly when
  the address is reserved and not left wrapped (`HostGuardIsExact`): the serialiser's longest run of
  zeros exists, its text denotes the same eight groups (`SerialisedDenotes`), and `parseIpv6`
  reads from it what the standard does (`ParsesLikeUrlStandard`). The same parsers come to the
  same on the text as typed (`GuardReadsRawText`), which is the code's
  "belt and braces" (`src/utils/url.utils.ts:65-67`). About every behaviour, `TypeOK`,
  `StoredIsAdmitted`, `RefusedExactly`, `RetriesRecognised`. The invariant adds
  that a client has at most one scan per key (`OnePerKey`) and that every answer of
  submit is justified by a row that is still there (`AnswersByStored`); `HashIsTarget`
  turns equality of hashes into equality of targets. `Spec => Promise!Spec`
  (`ApiKeepsPromise`) maps a request that nothing refused to what it asks for, that is
  one client, one key, one hash, and the stored rows to the accepted requests. TLC has
  compared the two on a handful of inputs only, since evaluating the abstract action in each
  of the run's states takes too long; no run lists it.

Only model-checked: liveness (`EveryEventPublished`, `EveryScanSettles`,
`EveryRequestAnswered`, `AlwaysReturns`, `RoutableReachesBroker`, `QueueDrains`, and the two
that fail), since the prover cannot reason about `ENABLED`, on which fairness rests. What each of them
rests on is safety, and proved: somebody can always go on, and steps lead one way.

| Liveness, checked by TLC | Somebody can go on | Steps lead one way |
|---|---|---|
| `EveryScanSettles`, `EveryEventPublished` | `NeverStranded` | `ImplementsLifecycle`; between its steps duplicates are bounded by `DuplicatesNeedFaults` |
| `EveryRequestAnswered` | `NobodyStuck` | `NoRequestSetBack` |
| `AlwaysReturns` | `NeverWaitsOnACheck` | `EveryStepProgresses` |
| `RoutableReachesBroker` | `NoRowForgotten` | `OnlyBehindUnroutable` (a failed publish may repeat a drain, up to `MaxFailures`) |
| `QueueDrains` | `WorkersGoOn` | `OnlyPoisonSetsBack` |

The predicates of the second column are written out, without `ENABLED`.

## 5. What is not modelled

- `isBlockedIpAddress` (no caller, `docs/plan.md:427`), `failScan` (no caller), `dlq_event` (never written), `MAX_REDELIVERIES` (never
  read), the dead-letter queue (nothing is bound to the exchange).
- `redactUrl` and everything that is formatted for the log: correlation ids, reasons
  of refusals, the bodies of answers.
- Splitting texts into parts: digits and radix of a numeric part, hexadecimal
  groups, percent-encoding and the other work of `URL.parse` on characters.
- body-parser's answer to an unsupported encoding (415), and express's own routing of
  `HEAD` and `OPTIONS`: no property depends on them.
- Configuration other than `API_KEYS`, migrations, the HTTP listener and its shutdown.
- Foreign messages together with database failures, and unroutable events together
  with relay crashes: each is modelled, in modules of their own.
- Time: a timeout may fire at any moment, which includes the moments real clocks
  allow.
- Severities that are not integers, and collisions of generated ids.

## 6. Where the code and its documents disagree

- **A worker killed mid-scan** (`worker_killed_mid_scan`, `EveryScanCompletes`).
  `docs/plan.md:304-306` expects the scan to complete after redelivery. The
  claim is committed before the checks run, so the redelivery finds the scan
  `in_progress`, is acknowledged as already handled
  (`src/worker/process-scan.ts:54`), and the scan stays `in_progress`.
  `BlastRadius` bounds the damage: at most `Prefetch` scans per dead worker.
- **A dropped message does not fail its scan** (`dropped_not_failed`,
  `DroppedScanFails`). `docs/plan.md:252-253` promises bounded redelivery, a
  dead-letter record and the status `failed`; the code nacks without requeue on
  the first failure, nothing is bound to the dead-letter exchange, and the scan
  stays `pending` or `in_progress`.

The repository records both gaps itself (`docs/plan.md:477`, `479-481`).

Three more were met while modelling and have no run of their own:

- `README.md:104` and `docs/adr/adr-0004-security-posture.md:10` say that private and loopback
  targets are refused. Two forms of IPv6 address that carry one of IPv4 are not unwrapped:
  `[64:ff9b::7f00:1]` (NAT64; the branch at `src/utils/url.utils.ts:168` returns what the next line
  returns) and `[::127.0.0.1]`, which `URL.parse` gives as `[::7f00:1]`. `docs/plan.md:429-430` and
  `483` (9.3, 9.4, 10.9) record it. `Reserved` counts such addresses as reserved and
  `RefusedExactly` excepts them by name (`LeftWrapped`): without the exception TLC finds it violated,
  and `HostGuardIsExact` shows that no other address is missed. Names
  such as `localhost` (9.2) are accepted as well, since the check that would follow their resolution is not
  called (9.1).
- `docs/plan.md:378` sends malformed events and unknown versions to the dead-letter
  exchange. A body that is not JSON ends the worker instead and is requeued
  (`src/messaging/consumer.ts:49`), which `ScanConsumer` models as the code does it, and
  `eventVersion` is not compared with anything.
- `express.json` is mounted before `requestContext` (`src/api/create-app.ts:29-30`), so a
  body that does not parse is logged without a correlation id; nothing in the models
  depends on it.

## 7. Plan

In this order, the most important behaviour first:

1. Done: `ScanPipeline` with `ScanLifecycle`, `SubmitScan` with
   `IdempotentSubmit`, `Scoring` and `CheckRunner`, `ReadScan`, and their proofs.
2. Done: foreign messages (`ScanConsumer`), ids and unroutable events (`OutboxOrder`),
   URL validation and the middleware (`ScanTarget`, `ApiRequest`), and their proofs.
3. Done: `ApiRequest` and `SubmitScan` implement one and the same promise, `ScanPipeline`
   drives `ReadScan`, and the safety that each liveness property rests on.
4. Composition of `SubmitScan`, `ScanPipeline` and `ReadScan` in one module: a
   client that submits, loses the answer, retries and polls.

## 8. Running

    tlc -workers 2 -config ScanPipelineSafety.cfg MCScanPipeline.tla
    tlapm ScanPipelineProofs.tla

The pairs of module and configuration are listed under `runs` in `PROJECT.json`.
`pipeline_safety` is the largest, 1.4 million states in two minutes; `api_request`
and `outbox_order` take about a minute, the others seconds.
