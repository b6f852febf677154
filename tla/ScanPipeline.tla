----------------------------- MODULE ScanPipeline -----------------------------
(***************************************************************************)
(* The asynchronous path of a scan, from the committed submission to the   *)
(* stored result: the scan and outbox tables, the relays that drain the    *)
(* outbox into the broker, the broker's queue, and the workers that claim, *)
(* check and complete scans.  Processes crash, are stopped and restart,    *)
(* confirms time out and their messages land late, deliveries are          *)
(* repeated, and a database call may fail with or without having taken     *)
(* effect.                                                                 *)
(*                                                                         *)
(* Each action is one atomic effect on the shared state: one committed     *)
(* transaction or statement, one message handed over, one message          *)
(* acknowledged.  What one process keeps in memory between two of its own  *)
(* awaits is in relayPc, batch, left, handlerPc, handling and found.       *)
(***************************************************************************)
EXTENDS Integers, FiniteSets

CONSTANTS
    Scan,       \* scan ids; their order is the order of the outbox ids
    Relay,      \* relay processes
    Worker,     \* worker processes
    Result,     \* what runChecks and scoreScan may come to for a scan
    NoResult,   \* no check row, null score and verdict
    BatchSize,  \* OUTBOX_BATCH_SIZE
    Prefetch,   \* WORKER_PREFETCH: unacknowledged deliveries per worker
    MaxFaults   \* bound: how many faults of each kind a behaviour has

FaultKind == {"relay", "worker", "database"}

ASSUME ScanAssumption == Scan \subseteq Nat
ASSUME NoResultAssumption == NoResult \notin Result
ASSUME BatchSizeAssumption == BatchSize \in Nat \ {0}
ASSUME PrefetchAssumption == Prefetch \in Nat \ {0}
ASSUME WorkerAssumption == IsFiniteSet(Worker)
ASSUME DeployedAssumption == Relay # {} /\ Worker # {}  \* one of each at least
ASSUME ResultAssumption == Result # {}                  \* runChecks always returns
ASSUME MaxFaultsAssumption == MaxFaults \in [FaultKind -> Nat]

NoScan == -1

\* A handler is one of the Prefetch deliveries a worker may hold at a time:
\* one concurrent run of onMessage.
Handler == Worker \X (1 .. Prefetch)

HandlersOf(w) == {w} \X (1 .. Prefetch)

-----------------------------------------------------------------------------
VARIABLES
    \* PostgreSQL
    status,      \* scan.status, "absent" while the row does not exist
    checkRows,   \* the rows of scan_check for a scan, as one value
    verdict,     \* scan.threat_score and scan.verdict, as one value
    outbox,      \* the scan's outbox_event row, by published_at
    \* relays
    relayPc,     \* where the relay's drain stands
    batch,       \* rows its open transaction has locked
    left,        \* rows of the batch not confirmed yet
    \* broker
    wire,        \* copies whose publisher gave up waiting but may still land
    queue,       \* ready messages in scan.requested
    accepted,    \* history: copies the broker has ever put in the queue
    dropped,     \* scans of which a message was nacked without requeue
    \* workers
    workerMode,  \* up; closing: channel closed, process still alive; down
    handlerPc,
    handling,    \* the scan named by the handler's message
    found,       \* what runChecks returned to the handler
    faults       \* how many faults of each kind have happened

dbVars == <<status, checkRows, verdict, outbox>>
relayVars == <<relayPc, batch, left>>
brokerVars == <<wire, queue, accepted, dropped>>
workerVars == <<workerMode, handlerPc, handling, found>>
vars == <<status, checkRows, verdict, outbox, relayPc, batch, left, wire,
          queue, accepted, dropped, workerMode, handlerPc, handling, found,
          faults>>

TypeOK ==
    /\ status \in [Scan -> {"absent", "pending", "in_progress", "completed"}]
    /\ checkRows \in [Scan -> Result \cup {NoResult}]
    /\ verdict \in [Scan -> Result \cup {NoResult}]
    /\ outbox \in [Scan -> {"absent", "unpublished", "published"}]
    /\ relayPc \in [Relay -> {"down", "idle", "draining", "awaiting", "confirmed"}]
    /\ batch \in [Relay -> SUBSET Scan]
    /\ left \in [Relay -> SUBSET Scan]
    /\ wire \in [Scan -> Nat]
    /\ queue \in [Scan -> Nat]
    /\ accepted \in [Scan -> Nat]
    /\ dropped \in SUBSET Scan
    /\ workerMode \in [Worker -> {"up", "closing", "down"}]
    /\ handlerPc \in [Handler -> {"idle", "received", "unclaimed", "claimed",
                                  "checked", "acking", "nacking"}]
    /\ handling \in [Handler -> Scan \cup {NoScan}]
    /\ found \in [Handler -> Result \cup {NoResult}]
    /\ faults \in [FaultKind -> Nat]

Init ==
    /\ status = [s \in Scan |-> "absent"]
    /\ checkRows = [s \in Scan |-> NoResult]
    /\ verdict = [s \in Scan |-> NoResult]
    /\ outbox = [s \in Scan |-> "absent"]
    /\ relayPc = [r \in Relay |-> "idle"]
    /\ batch = [r \in Relay |-> {}]
    /\ left = [r \in Relay |-> {}]
    /\ wire = [s \in Scan |-> 0]
    /\ queue = [s \in Scan |-> 0]
    /\ accepted = [s \in Scan |-> 0]
    /\ dropped = {}
    /\ workerMode = [w \in Worker |-> "up"]
    /\ handlerPc = [h \in Handler |-> "idle"]
    /\ handling = [h \in Handler |-> NoScan]
    /\ found = [h \in Handler |-> NoResult]
    /\ faults = [k \in FaultKind |-> 0]

\* A fault happens, within the bound of its kind.
Fault(kind) ==
    /\ faults[kind] < MaxFaults[kind]
    /\ faults' = [faults EXCEPT ![kind] = @ + 1]

-----------------------------------------------------------------------------
(* The API's transaction: the scan row and its outbox row commit together. *)
(* Submissions commit in any order of their ids.                           *)

Submit(s) ==
    /\ status[s] = "absent"
    /\ status' = [status EXCEPT ![s] = "pending"]
    /\ outbox' = [outbox EXCEPT ![s] = "unpublished"]
    /\ UNCHANGED <<checkRows, verdict, relayVars, brokerVars, workerVars, faults>>

-----------------------------------------------------------------------------
(* The relay.                                                              *)

Locked == UNION {batch[r] : r \in Relay}

\* Mutant: a plain SELECT, that neither locks nor skips.
DrainableWithoutLocks == {s \in Scan : outbox[s] = "unpublished"}

\* SELECT ... WHERE published_at IS NULL ... FOR UPDATE SKIP LOCKED
Drainable == {s \in Scan : outbox[s] = "unpublished"} \ Locked

\* ORDER BY id LIMIT batchSize
FirstBatch == {s \in Drainable : Cardinality({t \in Drainable : t < s}) < BatchSize}

\* The row whose turn it is to be published.
IsNext(s, S) == s \in S /\ \A t \in S : s <= t

\* A poll that finds nothing: drainAndPublish returns 0, the relay sleeps.
PollEmpty(r) ==
    /\ relayPc[r] = "idle"
    /\ Drainable = {}
    /\ UNCHANGED vars

Drain(r) ==
    /\ relayPc[r] = "idle"
    /\ Drainable # {}
    /\ relayPc' = [relayPc EXCEPT ![r] = "draining"]
    /\ batch' = [batch EXCEPT ![r] = FirstBatch]
    /\ left' = [left EXCEPT ![r] = FirstBatch]
    /\ UNCHANGED <<dbVars, brokerVars, workerVars, faults>>

\* Mutant: fire and forget, "channel.publish returned true" taken for a confirm.
PublishUnconfirmed(r) ==
    /\ relayPc[r] = "draining"
    /\ \E s \in Scan : /\ IsNext(s, left[r])
                       /\ wire' = [wire EXCEPT ![s] = @ + 1]
                       /\ left' = [left EXCEPT ![r] = @ \ {s}]
    /\ UNCHANGED <<dbVars, relayPc, batch, queue, accepted, dropped, workerVars, faults>>

\* publishConfirmed hands the next row's message to the channel.
Publish(r) ==
    /\ relayPc[r] = "draining"
    /\ left[r] # {}
    /\ relayPc' = [relayPc EXCEPT ![r] = "awaiting"]
    /\ UNCHANGED <<dbVars, batch, left, brokerVars, workerVars, faults>>

\* The broker enqueues the message and sends the confirm.
Land(r, s) ==
    /\ relayPc[r] = "awaiting"
    /\ IsNext(s, left[r])
    /\ queue' = [queue EXCEPT ![s] = @ + 1]
    /\ accepted' = [accepted EXCEPT ![s] = @ + 1]
    /\ relayPc' = [relayPc EXCEPT ![r] = "confirmed"]
    /\ UNCHANGED <<dbVars, batch, left, wire, dropped, workerVars, faults>>

\* The confirm arrives before the timeout; the loop goes to the next row.
Confirm(r) ==
    /\ relayPc[r] = "confirmed"
    /\ relayPc' = [relayPc EXCEPT ![r] = "draining"]
    /\ left' = [left EXCEPT ![r] = {s \in @ : ~ IsNext(s, @)}]
    /\ UNCHANGED <<dbVars, batch, brokerVars, workerVars, faults>>

\* Every row is confirmed: the batch is marked published and committed.
Commit(r) ==
    /\ relayPc[r] = "draining"
    /\ left[r] = {}
    /\ outbox' = [s \in Scan |-> IF s \in batch[r] THEN "published" ELSE outbox[s]]
    /\ relayPc' = [relayPc EXCEPT ![r] = "idle"]
    /\ batch' = [batch EXCEPT ![r] = {}]
    /\ UNCHANGED <<status, checkRows, verdict, left, brokerVars, workerVars, faults>>

\* Mutant: the failed transaction is left open, with its locks.
RollbackKeepingLocks(r, next) ==
    /\ relayPc' = [relayPc EXCEPT ![r] = next]
    /\ left' = [left EXCEPT ![r] = {}]
    /\ UNCHANGED batch

\* The transaction rolls back: its locks are gone and no row is marked.
Rollback(r, next) ==
    /\ relayPc' = [relayPc EXCEPT ![r] = next]
    /\ batch' = [batch EXCEPT ![r] = {}]
    /\ left' = [left EXCEPT ![r] = {}]

\* The outstanding copy may outlive the attempt that sent it.
MayStrayOnto(r) ==
    \/ UNCHANGED wire
    \/ /\ relayPc[r] = "awaiting"
       /\ \E s \in Scan : /\ IsNext(s, left[r])
                          /\ wire' = [wire EXCEPT ![s] = @ + 1]

\* publish rejects: the broker refused the message, or did not confirm in
\* time, whether the message is still on its way or already in the queue.
\* tick logs the error and the relay will retry the batch.
PublishFails(r) ==
    /\ relayPc[r] \in {"awaiting", "confirmed"}
    /\ Fault("relay")
    /\ MayStrayOnto(r)
    /\ Rollback(r, "idle")
    /\ UNCHANGED <<dbVars, queue, accepted, dropped, workerVars>>

\* The process exits: a crash, SIGTERM, or a lost broker connection.
RelayCrash(r) ==
    /\ relayPc[r] # "down"
    /\ Fault("relay")
    /\ MayStrayOnto(r)
    /\ Rollback(r, "down")
    /\ UNCHANGED <<dbVars, queue, accepted, dropped, workerVars>>

\* A statement of the drain, or its COMMIT, fails.  A COMMIT that took effect
\* without an answer leaves what Commit leaves, as the relay only polls again.
DrainDbFails(r) ==
    /\ relayPc[r] = "draining"
    /\ Fault("database")
    /\ Rollback(r, "idle")
    /\ UNCHANGED <<dbVars, brokerVars, workerVars>>

RelayRestart(r) ==
    /\ relayPc[r] = "down"
    /\ relayPc' = [relayPc EXCEPT ![r] = "idle"]
    /\ UNCHANGED <<dbVars, batch, left, brokerVars, workerVars, faults>>

\* A copy given up on reaches the broker after all.
LandLate(s) ==
    /\ wire[s] > 0
    /\ wire' = [wire EXCEPT ![s] = @ - 1]
    /\ queue' = [queue EXCEPT ![s] = @ + 1]
    /\ accepted' = [accepted EXCEPT ![s] = @ + 1]
    /\ UNCHANGED <<dbVars, relayVars, dropped, workerVars, faults>>

-----------------------------------------------------------------------------
(* The worker.  A handler's message stays unacknowledged at the broker     *)
(* from Deliver to Ack or Nack, or until the worker's channel closes.      *)

Attached(h) == workerMode[h[1]] = "up" /\ handlerPc[h] # "idle"

\* A handler runs while its process is alive, its channel open or not.
Running(h) == workerMode[h[1]] # "down"

Deliver(h, s) ==
    /\ workerMode[h[1]] = "up"
    /\ handlerPc[h] = "idle"
    /\ queue[s] > 0
    /\ queue' = [queue EXCEPT ![s] = @ - 1]
    /\ handlerPc' = [handlerPc EXCEPT ![h] = "received"]
    /\ handling' = [handling EXCEPT ![h] = s]
    /\ UNCHANGED <<dbVars, relayVars, wire, accepted, dropped, workerMode,
                   found, faults>>

\* Mutant: a redelivery takes over a scan that is in progress.
ClaimableInProgress(s) == status[s] \in {"pending", "in_progress"}

\* Mutant: the WHERE names the id only.
ClaimableAlways(s) == status[s] # "absent"

\* WHERE id = scanId AND status = 'pending'
Claimable(s) == status[s] = "pending"

ClaimRow(s) == status' = [status EXCEPT ![s] = "in_progress"]

\* Mutant: the UPDATE's RETURNING row is ignored, as if it had changed none.
ClaimUnreturned(h) ==
    /\ Running(h)
    /\ handlerPc[h] = "received"
    /\ Claimable(handling[h])
    /\ ClaimRow(handling[h])
    /\ handlerPc' = [handlerPc EXCEPT ![h] = "unclaimed"]
    /\ UNCHANGED <<checkRows, verdict, outbox, relayVars, brokerVars,
                   workerMode, handling, found, faults>>

\* The conditional UPDATE of claimForProcessing changes a row ...
Claim(h) ==
    /\ Running(h)
    /\ handlerPc[h] = "received"
    /\ Claimable(handling[h])
    /\ ClaimRow(handling[h])
    /\ handlerPc' = [handlerPc EXCEPT ![h] = "claimed"]
    /\ UNCHANGED <<checkRows, verdict, outbox, relayVars, brokerVars,
                   workerMode, handling, found, faults>>

\* ... or none.
ClaimNothing(h) ==
    /\ Running(h)
    /\ handlerPc[h] = "received"
    /\ ~ Claimable(handling[h])
    /\ handlerPc' = [handlerPc EXCEPT ![h] = "unclaimed"]
    /\ UNCHANGED <<dbVars, relayVars, brokerVars, workerMode, handling, found,
                   faults>>

\* The second statement: a missing scan is unprocessable, any other status
\* means the scan is in hand already and the message is acknowledged.
LookUp(h) ==
    /\ Running(h)
    /\ handlerPc[h] = "unclaimed"
    /\ handlerPc' = [handlerPc EXCEPT ![h] =
                        IF status[handling[h]] = "absent" THEN "nacking" ELSE "acking"]
    /\ UNCHANGED <<dbVars, relayVars, brokerVars, workerMode, handling, found,
                   faults>>

RunChecks(h) ==
    /\ Running(h)
    /\ handlerPc[h] = "claimed"
    /\ \E v \in Result : found' = [found EXCEPT ![h] = v]
    /\ handlerPc' = [handlerPc EXCEPT ![h] = "checked"]
    /\ UNCHANGED <<dbVars, relayVars, brokerVars, workerMode, handling, faults>>

\* Mutant: the check rows are left out of the transaction.
StoreVerdictOnly(s, v) ==
    /\ verdict' = [verdict EXCEPT ![s] = v]
    /\ status' = [status EXCEPT ![s] = "completed"]
    /\ UNCHANGED checkRows

\* What completeScan commits: the check rows, and the scan row, whose WHERE
\* names the id and no status.
StoreResult(s, v) ==
    /\ checkRows' = [checkRows EXCEPT ![s] = v]
    /\ verdict' = [verdict EXCEPT ![s] = v]
    /\ status' = [status EXCEPT ![s] = "completed"]

\* The guard on checkRows is the unique index on (scan_id, check_id).
CompleteScan(h) ==
    /\ Running(h)
    /\ handlerPc[h] = "checked"
    /\ checkRows[handling[h]] = NoResult
    /\ StoreResult(handling[h], found[h])
    /\ handlerPc' = [handlerPc EXCEPT ![h] = "acking"]
    /\ UNCHANGED <<outbox, relayVars, brokerVars, workerMode, handling, found,
                   faults>>

\* A database call of the handler fails, with or without having taken
\* effect; the exception reaches onMessage, which nacks without requeue.
HandlerDbFails(h) ==
    /\ Running(h)
    /\ Fault("database")
    /\ \/ /\ handlerPc[h] \in {"received", "unclaimed", "checked"}
          /\ UNCHANGED <<status, checkRows, verdict>>
       \/ /\ handlerPc[h] = "received"
          /\ Claimable(handling[h])
          /\ ClaimRow(handling[h])
          /\ UNCHANGED <<checkRows, verdict>>
       \/ /\ handlerPc[h] = "checked"
          /\ checkRows[handling[h]] = NoResult
          /\ StoreResult(handling[h], found[h])
    /\ handlerPc' = [handlerPc EXCEPT ![h] = "nacking"]
    /\ UNCHANGED <<outbox, relayVars, brokerVars, workerMode, handling, found>>

Release(h) ==
    /\ handlerPc' = [handlerPc EXCEPT ![h] = "idle"]
    /\ handling' = [handling EXCEPT ![h] = NoScan]
    /\ found' = [found EXCEPT ![h] = NoResult]

Ack(h) ==
    /\ workerMode[h[1]] = "up"
    /\ handlerPc[h] = "acking"
    /\ Release(h)
    /\ UNCHANGED <<dbVars, relayVars, brokerVars, workerMode, faults>>

\* The dead-letter exchange has no queue bound to it: the message is gone.
Nack(h) ==
    /\ workerMode[h[1]] = "up"
    /\ handlerPc[h] = "nacking"
    /\ dropped' = dropped \cup {handling[h]}
    /\ Release(h)
    /\ UNCHANGED <<dbVars, relayVars, wire, queue, accepted, workerMode, faults>>

\* Mutant: the consumer asked for noAck, so nothing is unacknowledged.
RequeueNothing(w) == UNCHANGED queue

\* The broker puts the unacknowledged messages of a closed channel back.
Requeue(w) ==
    queue' = [s \in Scan |->
                queue[s] + Cardinality({h \in HandlersOf(w) : Attached(h) /\ handling[h] = s})]

ForgetHandlers(w) ==
    /\ handlerPc' = [h \in Handler |-> IF h \in HandlersOf(w) THEN "idle" ELSE handlerPc[h]]
    /\ handling' = [h \in Handler |-> IF h \in HandlersOf(w) THEN NoScan ELSE handling[h]]
    /\ found' = [h \in Handler |-> IF h \in HandlersOf(w) THEN NoResult ELSE found[h]]

\* The process dies, its connection with it.
WorkerCrash(w) ==
    /\ workerMode[w] = "up"
    /\ Fault("worker")
    /\ workerMode' = [workerMode EXCEPT ![w] = "down"]
    /\ Requeue(w)
    /\ ForgetHandlers(w)
    /\ UNCHANGED <<dbVars, relayVars, wire, accepted, dropped>>

\* SIGTERM: shutdown closes the channel first; handlers already running go
\* on until the process exits, but can no longer acknowledge.
WorkerStop(w) ==
    /\ workerMode[w] = "up"
    /\ Fault("worker")
    /\ workerMode' = [workerMode EXCEPT ![w] = "closing"]
    /\ Requeue(w)
    /\ UNCHANGED <<dbVars, relayVars, wire, accepted, dropped, handlerPc,
                   handling, found>>

WorkerExit(w) ==
    /\ workerMode[w] = "closing"
    /\ workerMode' = [workerMode EXCEPT ![w] = "down"]
    /\ ForgetHandlers(w)
    /\ UNCHANGED <<dbVars, relayVars, brokerVars, faults>>

WorkerRestart(w) ==
    /\ workerMode[w] = "down"
    /\ workerMode' = [workerMode EXCEPT ![w] = "up"]
    /\ UNCHANGED <<dbVars, relayVars, brokerVars, handlerPc, handling, found,
                   faults>>

-----------------------------------------------------------------------------
RelayStep(r) ==
    \/ Drain(r)
    \/ Publish(r)
    \/ \E s \in Scan : Land(r, s)
    \/ Confirm(r)
    \/ Commit(r)
    \/ RelayRestart(r)

HandlerStep(h) ==
    \/ Claim(h)
    \/ ClaimNothing(h)
    \/ LookUp(h)
    \/ RunChecks(h)
    \/ CompleteScan(h)
    \/ Ack(h)
    \/ Nack(h)

WorkerStep(w) ==
    \/ WorkerExit(w)
    \/ WorkerRestart(w)

SomeDelivery == \E h \in Handler, s \in Scan : Deliver(h, s)

Next ==
    \/ \E s \in Scan : Submit(s)
    \/ \E r \in Relay : RelayStep(r)
    \/ \E r \in Relay : PollEmpty(r)
    \/ \E r \in Relay : PublishFails(r)
    \/ \E r \in Relay : RelayCrash(r)
    \/ \E r \in Relay : DrainDbFails(r)
    \/ \E s \in Scan : LandLate(s)
    \/ SomeDelivery
    \/ \E h \in Handler : HandlerStep(h)
    \/ \E h \in Handler : HandlerDbFails(h)
    \/ \E w \in Worker : WorkerStep(w)
    \/ \E w \in Worker : WorkerCrash(w)
    \/ \E w \in Worker : WorkerStop(w)

Spec == Init /\ [][Next]_vars

\* Running processes take their next step, the broker handles what reached
\* it, and the supervisor restarts what exits (restart: unless-stopped).
Fairness ==
    /\ \A r \in Relay : WF_vars(RelayStep(r))
    /\ WF_vars(SomeDelivery)
    /\ \A h \in Handler : WF_vars(HandlerStep(h))
    /\ \A w \in Worker : WF_vars(WorkerStep(w))

FairSpec == Spec /\ Fairness

-----------------------------------------------------------------------------
(* Safety.                                                                 *)

\* ADR-0001, "there is no moment where the scan exists and its event does
\* not, in either direction" (scan.repository.ts), carried on to delivery: a
\* scan still pending whose event a relay has seen confirmed has a message in
\* the queue, or at a handler that will ack or nack it, or it was nacked.
HasMessage(s) ==
    \/ queue[s] > 0
    \/ \E h \in Handler : Attached(h) /\ handling[h] = s /\ handlerPc[h] # "acking"
    \/ s \in dropped

NoLostEvent ==
    \A s \in Scan :
        status[s] = "pending" /\ outbox[s] = "published" => HasMessage(s)

\* FOR UPDATE SKIP LOCKED: no row is in the batches of two relays.
LocksDisjoint ==
    \A r1, r2 \in Relay : r1 # r2 => batch[r1] \cap batch[r2] = {}

\* The claim admits one handler per scan, over all workers and however often
\* the message is repeated: nobody else runs its checks or stores a result.
Processing(h) == handlerPc[h] \in {"claimed", "checked"}

SingleProcessor ==
    \A h1, h2 \in Handler :
        Processing(h1) /\ Processing(h2) /\ handling[h1] = handling[h2] => h1 = h2

\* ADR-0002, a scan is atomically complete or not: check rows, verdict and
\* status appear together, and the two tables hold the same result.
ResultsWithStatus ==
    \A s \in Scan :
        /\ checkRows[s] = verdict[s]
        /\ status[s] = "completed" <=> verdict[s] # NoResult

\* OutboxRepositoryPort: "no event is ever published twice by concurrent
\* relays".  Beyond the first, every copy of a message that reaches the
\* broker is paid for by a drain that was rolled back.
DuplicatesNeedFaults ==
    \A s \in Scan :
        accepted[s] + wire[s] <= 1 + faults["relay"] + faults["database"]

\* How much a fault can cost.  A scan in progress that no handler works on
\* stays so; a worker that dies leaves at most its Prefetch scans behind, a
\* failed database call at most the one it served, relay faults none.  A
\* message is dropped only after a database call failed on it.
Ownerless(s) ==
    /\ status[s] = "in_progress"
    /\ ~ \E h \in Handler : Processing(h) /\ handling[h] = s

BlastRadius ==
    /\ Cardinality({s \in Scan : Ownerless(s)})
            <= Prefetch * faults["worker"] + faults["database"]
    /\ Cardinality(dropped) <= faults["database"]

\* What can go on by itself, whatever else stands still: a process that takes
\* its next step, is restarted, or exits.
RelayCanStep(r) ==
    \/ relayPc[r] \in {"down", "draining", "confirmed"}
    \/ relayPc[r] = "idle" /\ Drainable # {}
    \/ relayPc[r] = "awaiting" /\ \E s \in Scan : IsNext(s, left[r])

HandlerCanStep(h) ==
    \/ /\ Running(h)
       /\ \/ handlerPc[h] \in {"received", "unclaimed", "claimed"}
          \/ handlerPc[h] = "checked" /\ checkRows[handling[h]] = NoResult
    \/ workerMode[h[1]] = "up" /\ handlerPc[h] \in {"acking", "nacking"}

WorkerTakesMore(w) ==
    \/ workerMode[w] # "up"
    \/ \E h \in HandlersOf(w) : handlerPc[h] = "idle" \/ HandlerCanStep(h)

\* The scan's row, message or handler is with somebody who can go on.
WithRelay(s) ==
    /\ outbox[s] = "unpublished"
    /\ \E r \in Relay : RelayCanStep(r) /\ (s \in batch[r] \/ s \notin Locked)

WithQueue(s) == queue[s] > 0 /\ \E w \in Worker : WorkerTakesMore(w)

WithHandler(s) == \E h \in Handler : handling[h] = s /\ HandlerCanStep(h)

\* The two ways in which faults, of a worker or of a database, cost a scan.
Lost(s) ==
    \/ Ownerless(s) /\ faults["worker"] + faults["database"] > 0
    \/ s \in dropped /\ faults["database"] > 0

\* No scan is ever between two stools: until it is completed or lost, a relay,
\* the broker or a handler has it and can go on.
NeverStranded ==
    \A s \in Scan :
        status[s] \in {"pending", "in_progress"} =>
            WithRelay(s) \/ WithQueue(s) \/ WithHandler(s) \/ Lost(s)

\* The status union of ADR-0008 as a promise about every step: accepted,
\* started and finished once each, the result with the last step and final.
Lifecycle == INSTANCE ScanLifecycle WITH state <- status, outcome <- verdict

ImplementsLifecycle == Lifecycle!Spec

\* The rows that GET reads (ReadScan), whoever owns them and before anybody
\* reads them: all that the pipeline does to them is what ReadScan lets happen
\* between two SELECTs.
NoRequests == [r \in {} |-> r]

Rows == INSTANCE ReadScan
          WITH Request <- {}, ScanOf <- NoRequests, ClientOf <- NoRequests,
               Client <- Scan, OwnerOf <- [s \in Scan |-> s],
               pc <- NoRequests, view <- NoRequests, before <- NoRequests

DrivesReadScan == Rows!Spec

-----------------------------------------------------------------------------
(* Liveness, under FairSpec.                                               *)

\* A committed event is published in the end, whatever fails on the way: the
\* relay's retry of a rolled back batch, against crashes and timeouts.
EveryEventPublished ==
    \A s \in Scan : outbox[s] = "unpublished" ~> outbox[s] = "published"

\* Every accepted scan completes (docs/plan.md, acceptance: "kill the worker
\* mid-scan and confirm the unacked message is redelivered and the scan still
\* completes").
EveryScanCompletes ==
    \A s \in Scan : status[s] = "pending" ~> status[s] = "completed"

\* Whatever fails, a scan completes or ends in one of the two known ways: the
\* handler that claimed it is gone, or its message was dropped; and those only
\* if a worker or a database failed: relay faults alone are always overcome.
EveryScanSettles ==
    \A s \in Scan :
        status[s] = "pending" ~>
            status[s] = "completed" \/ Lost(s)

\* docs/plan.md, error semantics: when the pipeline fails, "the message
\* dead-letters, the DLQ consumer persists it to dlq_event, and the scan goes
\* failed".
DroppedScanFails ==
    \A s \in Scan : s \in dropped ~> status[s] \in {"failed", "completed"}
=============================================================================
