-------------------------- MODULE ScanPipelineProofs --------------------------
(***************************************************************************)
(* Proofs about ScanPipeline, for any sets of scans, relays and workers,   *)
(* any batch size and prefetch and any bound on faults.                    *)
(***************************************************************************)
EXTENDS ScanPipeline, FiniteSetTheorems, WellFoundedInduction, TLAPS

-----------------------------------------------------------------------------
(* Handlers and their workers.                                             *)

\* A handler belongs to one worker, which owns exactly its own handlers.
LEMMA HandlerFacts ==
    /\ \A h \in Handler : h[1] \in Worker
    /\ \A w \in Worker, h \in Handler : h \in HandlersOf(w) <=> h[1] = w
    /\ \A w \in Worker : HandlersOf(w) \subseteq Handler
BY DEF Handler, HandlersOf

\* A worker has finitely many handlers, so what a requeue counts is a number.
LEMMA HandlersOfFinite ==
    ASSUME NEW w \in Worker, NEW S \in SUBSET HandlersOf(w)
    PROVE  IsFiniteSet(S) /\ Cardinality(S) \in Nat
<1>1. IsFiniteSet({w})
  BY FS_Singleton
<1>2. IsFiniteSet(1 .. Prefetch)
  BY FS_Interval, PrefetchAssumption
<1>3. IsFiniteSet(HandlersOf(w))
  BY <1>1, <1>2, FS_Product DEF HandlersOf
<1> QED
  BY <1>3, FS_Subset, FS_CardinalityType

-----------------------------------------------------------------------------
(* Type correctness.                                                       *)

\* TypeOK alone is not inductive: that dropped names scans only rests on a
\* busy handler having a message.
HandlerHasScan ==
    \A h \in Handler : handlerPc[h] # "idle" <=> handling[h] \in Scan

Typing == TypeOK /\ HandlerHasScan

\* The initial state is well typed, with every handler idle.
LEMMA TypeInit == Init => Typing
BY HandlerFacts, ScanAssumption DEF Init, Typing, TypeOK, HandlerHasScan, FaultKind, NoScan

\* Every step preserves the types and keeps a message at each busy handler.
LEMMA TypeStep == Typing /\ [Next]_vars => Typing'
<1> SUFFICES ASSUME Typing, [Next]_vars PROVE Typing'
  OBVIOUS
<1> USE HandlerFacts, ScanAssumption DEF Typing, TypeOK, HandlerHasScan, NoScan
<1>1. ASSUME NEW s \in Scan, Submit(s) PROVE Typing'
  BY <1>1 DEF Submit, relayVars, brokerVars, workerVars
<1>2. ASSUME NEW r \in Relay, RelayStep(r) PROVE Typing'
  <2>1. CASE Drain(r)
    BY <2>1 DEF Drain, FirstBatch, Drainable, dbVars, brokerVars, workerVars
  <2>2. CASE Publish(r)
    BY <2>2 DEF Publish, dbVars, brokerVars, workerVars
  <2>3. ASSUME NEW s \in Scan, Land(r, s) PROVE Typing'
    BY <2>3 DEF Land, dbVars, workerVars
  <2>4. CASE Confirm(r)
    BY <2>4 DEF Confirm, dbVars, brokerVars, workerVars
  <2>5. CASE Commit(r)
    BY <2>5 DEF Commit, brokerVars, workerVars
  <2>6. CASE RelayRestart(r)
    BY <2>6 DEF RelayRestart, dbVars, brokerVars, workerVars
  <2> QED
    BY <1>2, <2>1, <2>2, <2>3, <2>4, <2>5, <2>6 DEF RelayStep
<1>3. ASSUME NEW r \in Relay, PollEmpty(r) PROVE Typing'
  BY <1>3 DEF PollEmpty, vars
<1>4. ASSUME NEW r \in Relay, PublishFails(r) PROVE Typing'
  BY <1>4 DEF PublishFails, Fault, FaultKind, MayStrayOnto, Rollback, dbVars, workerVars
<1>5. ASSUME NEW r \in Relay, RelayCrash(r) PROVE Typing'
  BY <1>5 DEF RelayCrash, Fault, FaultKind, MayStrayOnto, Rollback, dbVars, workerVars
<1>6. ASSUME NEW r \in Relay, DrainDbFails(r) PROVE Typing'
  BY <1>6 DEF DrainDbFails, Fault, FaultKind, Rollback, dbVars, brokerVars, workerVars
<1>7. ASSUME NEW s \in Scan, LandLate(s) PROVE Typing'
  BY <1>7 DEF LandLate, dbVars, relayVars, workerVars
<1>8. ASSUME NEW h \in Handler, NEW s \in Scan, Deliver(h, s) PROVE Typing'
  BY <1>8 DEF Deliver, dbVars, relayVars
<1>9. ASSUME NEW h \in Handler, HandlerStep(h) PROVE Typing'
  <2>1. CASE Claim(h)
    BY <2>1 DEF Claim, ClaimRow, relayVars, brokerVars
  <2>2. CASE ClaimNothing(h)
    BY <2>2 DEF ClaimNothing, dbVars, relayVars, brokerVars
  <2>3. CASE LookUp(h)
    BY <2>3 DEF LookUp, dbVars, relayVars, brokerVars
  <2>4. CASE RunChecks(h)
    BY <2>4 DEF RunChecks, dbVars, relayVars, brokerVars
  <2>5. CASE CompleteScan(h)
    BY <2>5 DEF CompleteScan, StoreResult, relayVars, brokerVars
  <2>6. CASE Ack(h)
    BY <2>6 DEF Ack, Release, dbVars, relayVars, brokerVars
  <2>7. CASE Nack(h)
    <3>1. handling[h] \in Scan
      BY <2>7 DEF Nack
    <3>2. dropped' \in SUBSET Scan
      <4> SUFFICES ASSUME NEW s \in dropped' PROVE s \in Scan
        OBVIOUS
      <4> QED
        BY <3>1, <2>7 DEF Nack
    <3> QED
      BY <2>7, <3>2 DEF Nack, Release, dbVars, relayVars
  <2> QED
    BY <1>9, <2>1, <2>2, <2>3, <2>4, <2>5, <2>6, <2>7 DEF HandlerStep
<1>10. ASSUME NEW h \in Handler, HandlerDbFails(h) PROVE Typing'
  <2>1. CASE UNCHANGED <<status, checkRows, verdict>>
    BY <1>10, <2>1 DEF HandlerDbFails, Fault, FaultKind, relayVars, brokerVars
  <2>2. CASE ClaimRow(handling[h]) /\ UNCHANGED <<checkRows, verdict>>
    BY <1>10, <2>2 DEF HandlerDbFails, Fault, FaultKind, ClaimRow, relayVars, brokerVars
  <2>3. CASE StoreResult(handling[h], found[h])
    BY <1>10, <2>3 DEF HandlerDbFails, Fault, FaultKind, StoreResult, relayVars, brokerVars
  <2> QED
    BY <1>10, <2>1, <2>2, <2>3 DEF HandlerDbFails
<1>11. ASSUME NEW w \in Worker, WorkerStep(w) PROVE Typing'
  <2>1. CASE WorkerExit(w)
    BY <2>1 DEF WorkerExit, ForgetHandlers, dbVars, relayVars, brokerVars
  <2>2. CASE WorkerRestart(w)
    BY <2>2 DEF WorkerRestart, dbVars, relayVars, brokerVars
  <2> QED
    BY <1>11, <2>1, <2>2 DEF WorkerStep
<1>12. ASSUME NEW w \in Worker, Requeue(w) PROVE queue' \in [Scan -> Nat]
  BY <1>12, HandlersOfFinite DEF Requeue
<1>13. ASSUME NEW w \in Worker, WorkerCrash(w) PROVE Typing'
  BY <1>13, <1>12 DEF WorkerCrash, Fault, FaultKind, ForgetHandlers, dbVars, relayVars
<1>14. ASSUME NEW w \in Worker, WorkerStop(w) PROVE Typing'
  BY <1>14, <1>12 DEF WorkerStop, Fault, FaultKind, dbVars, relayVars
<1>15. CASE UNCHANGED vars
  BY <1>15 DEF vars
<1> QED
  BY <1>1, <1>2, <1>3, <1>4, <1>5, <1>6, <1>7, <1>8, <1>9, <1>10, <1>11, <1>13, <1>14, <1>15
     DEF Next, SomeDelivery

\* Every reachable state of ScanPipeline has the type TypeOK states.
THEOREM TypeCorrect == Spec => []TypeOK
<1>1. Spec => []Typing
  BY TypeInit, TypeStep, PTL DEF Spec
<1>2. Typing => TypeOK
  BY DEF Typing
<1> QED
  BY <1>1, <1>2, PTL

-----------------------------------------------------------------------------
(* The outbox and the relays' transactions.                                *)

\* A row some relay has locked is unpublished, what is left to publish is
\* part of the batch, and a relay without a transaction has locked nothing.
BatchesUnpublished ==
    \A r \in Relay :
        /\ left[r] \subseteq batch[r]
        /\ \A s \in batch[r] : outbox[s] = "unpublished"
        /\ relayPc[r] \in {"down", "idle"} => batch[r] = {}

OutboxWithScan == \A s \in Scan : status[s] = "absent" <=> outbox[s] = "absent"

\* ADR-0001's other direction, "an event for a scan that doesn't exist": there
\* is no message of a scan before its row.
MessagesHaveScan ==
    /\ \A s \in Scan : queue[s] > 0 \/ wire[s] > 0 => status[s] # "absent"
    /\ \A h \in Handler : handlerPc[h] # "idle" => status[handling[h]] # "absent"

RelayInv == BatchesUnpublished /\ LocksDisjoint /\ OutboxWithScan /\ MessagesHaveScan

\* The relays' invariant holds initially: no row, no lock, no message.
LEMMA RelayInit == Init => RelayInv
BY HandlerFacts
   DEF Init, RelayInv, BatchesUnpublished, OutboxWithScan, LocksDisjoint, MessagesHaveScan

\* Only an idle relay locks rows, and only rows nobody has locked; only the
\* relay that holds a row's lock marks it.
LEMMA RelayLocks ==
    ASSUME Typing, BatchesUnpublished, LocksDisjoint, NEW r \in Relay, RelayStep(r)
    PROVE  BatchesUnpublished' /\ LocksDisjoint'
<1> USE DEF BatchesUnpublished, LocksDisjoint, Typing, TypeOK
<1>1. CASE Drain(r)
  <2>1. FirstBatch \subseteq Drainable
    BY DEF FirstBatch
  <2>2. /\ \A s \in FirstBatch : outbox[s] = "unpublished"
        /\ \A q \in Relay : FirstBatch \cap batch[q] = {}
    BY <2>1 DEF Drainable, Locked
  <2> QED
    BY <1>1, <2>2 DEF Drain, dbVars
<1>2. CASE Publish(r)
  BY <1>2 DEF Publish, dbVars
<1>3. ASSUME NEW s \in Scan, Land(r, s) PROVE BatchesUnpublished' /\ LocksDisjoint'
  BY <1>3 DEF Land, dbVars
<1>4. CASE Confirm(r)
  BY <1>4 DEF Confirm, dbVars
<1>5. CASE Commit(r)
  BY <1>5 DEF Commit
<1>6. CASE RelayRestart(r)
  BY <1>6 DEF RelayRestart, dbVars
<1> QED
  BY <1>1, <1>2, <1>3, <1>4, <1>5, <1>6 DEF RelayStep

\* A handler's step changes the status of no scan to or from "absent".
LEMMA HandlerKeepsRow ==
    ASSUME Typing, MessagesHaveScan, NEW h \in Handler,
           HandlerStep(h) \/ HandlerDbFails(h)
    PROVE  /\ UNCHANGED <<outbox, relayVars, wire, queue, accepted, workerMode>>
           /\ \A s \in Scan : status[s] = "absent" <=> status'[s] = "absent"
           /\ \A g \in Handler : handlerPc'[g] # "idle" =>
                 handlerPc[g] # "idle" /\ handling'[g] = handling[g]
<1> USE DEF MessagesHaveScan, Typing, TypeOK, relayVars, brokerVars, dbVars
<1>1. CASE Claim(h)
  BY <1>1 DEF Claim, Claimable, ClaimRow
<1>2. CASE ClaimNothing(h) \/ LookUp(h) \/ RunChecks(h)
  BY <1>2 DEF ClaimNothing, LookUp, RunChecks
<1>3. CASE CompleteScan(h)
  BY <1>3 DEF CompleteScan, StoreResult
<1>4. CASE Ack(h) \/ Nack(h)
  BY <1>4 DEF Ack, Nack, Release
<1>5. CASE HandlerDbFails(h)
  BY <1>5 DEF HandlerDbFails, Claimable, ClaimRow, StoreResult
<1> QED
  BY <1>1, <1>2, <1>3, <1>4, <1>5 DEF HandlerStep

\* What a worker's requeue puts back in the queue are messages it held.
LEMMA RequeueFacts ==
    ASSUME Typing, NEW w \in Worker, Requeue(w), NEW s \in Scan
    PROVE  /\ queue'[s] \in Nat
           /\ queue'[s] >= queue[s]
           /\ queue'[s] > queue[s] <=>
                 \E h \in HandlersOf(w) : Attached(h) /\ handling[h] = s
<1> DEFINE Back == {h \in HandlersOf(w) : Attached(h) /\ handling[h] = s}
<1>1. queue'[s] = queue[s] + Cardinality(Back)
  BY DEF Requeue
<1>2. IsFiniteSet(Back) /\ Cardinality(Back) \in Nat
  BY HandlersOfFinite
<1>3. Cardinality(Back) = 0 <=> Back = {}
  BY <1>2, FS_EmptySet
<1>4. queue[s] \in Nat
  BY DEF Typing, TypeOK
<1> HIDE DEF Back
<1>5. /\ queue'[s] \in Nat
      /\ queue'[s] >= queue[s]
      /\ queue'[s] > queue[s] <=> Back # {}
  BY <1>1, <1>2, <1>3, <1>4
<1> QED
  BY <1>5 DEF Back

\* Every step keeps locked rows unpublished and in one batch, and outbox rows
\* and messages with their scans.
LEMMA RelayPreserved == Typing /\ RelayInv /\ [Next]_vars => RelayInv'
<1> SUFFICES ASSUME Typing, RelayInv, [Next]_vars PROVE RelayInv'
  OBVIOUS
<1> USE HandlerFacts DEF RelayInv
<1>1. ASSUME NEW s \in Scan, Submit(s) PROVE RelayInv'
  BY <1>1 DEF Submit, relayVars, brokerVars, workerVars, BatchesUnpublished, LocksDisjoint,
              OutboxWithScan, MessagesHaveScan, Typing, TypeOK
<1>2. ASSUME NEW r \in Relay, RelayStep(r) PROVE RelayInv'
  <2>1. BatchesUnpublished' /\ LocksDisjoint'
    BY <1>2, RelayLocks
  <2> USE DEF OutboxWithScan, MessagesHaveScan, Typing, TypeOK
  <2>2. CASE Drain(r) \/ Publish(r) \/ Confirm(r) \/ RelayRestart(r)
    BY <2>1, <2>2 DEF Drain, Publish, Confirm, RelayRestart, dbVars, brokerVars, workerVars
  <2>3. ASSUME NEW s \in Scan, Land(r, s) PROVE RelayInv'
    <3>1. status[s] # "absent"
      BY <2>3 DEF Land, IsNext, BatchesUnpublished
    <3> QED
      BY <2>1, <2>3, <3>1 DEF Land, dbVars, workerVars
  <2>4. CASE Commit(r)
    BY <2>1, <2>4 DEF Commit, brokerVars, workerVars, BatchesUnpublished
  <2> QED
    BY <1>2, <2>2, <2>3, <2>4 DEF RelayStep
<1>3. ASSUME NEW r \in Relay, NEW p \in {"idle", "down"},
             Rollback(r, p), UNCHANGED <<dbVars, queue, workerVars>>,
             UNCHANGED wire \/ (relayPc[r] = "awaiting" /\ MayStrayOnto(r))
      PROVE  RelayInv'
  <2>1. BatchesUnpublished' /\ LocksDisjoint' /\ OutboxWithScan'
    BY <1>3 DEF Rollback, dbVars, BatchesUnpublished, LocksDisjoint, OutboxWithScan, Typing, TypeOK
  <2>2. \A s \in Scan : wire'[s] > 0 => wire[s] > 0 \/ \E q \in Relay : s \in batch[q]
    BY <1>3 DEF MayStrayOnto, IsNext, BatchesUnpublished, Typing, TypeOK
  <2>3. MessagesHaveScan'
    BY <1>3, <2>2 DEF dbVars, workerVars, BatchesUnpublished, OutboxWithScan, MessagesHaveScan
  <2> QED
    BY <2>1, <2>3
<1>4. ASSUME NEW r \in Relay, PollEmpty(r) \/ UNCHANGED vars PROVE RelayInv'
  BY <1>4 DEF PollEmpty, vars, BatchesUnpublished, LocksDisjoint, OutboxWithScan, MessagesHaveScan
<1>5. ASSUME NEW r \in Relay, PublishFails(r) PROVE RelayInv'
  BY <1>5, <1>3 DEF PublishFails, MayStrayOnto
<1>6. ASSUME NEW r \in Relay, RelayCrash(r) PROVE RelayInv'
  BY <1>6, <1>3 DEF RelayCrash, MayStrayOnto
<1>7. ASSUME NEW r \in Relay, DrainDbFails(r) PROVE RelayInv'
  BY <1>7, <1>3 DEF DrainDbFails, brokerVars
<1>8. ASSUME UNCHANGED <<outbox, relayVars>>, MessagesHaveScan',
             \A s \in Scan : status[s] = "absent" <=> status'[s] = "absent"
      PROVE  RelayInv'
  BY <1>8 DEF relayVars, BatchesUnpublished, LocksDisjoint, OutboxWithScan
<1>9. ASSUME NEW s \in Scan, LandLate(s) PROVE RelayInv'
  BY <1>8, <1>9 DEF LandLate, dbVars, workerVars, MessagesHaveScan, Typing, TypeOK
<1>10. ASSUME NEW h \in Handler, NEW s \in Scan, Deliver(h, s) PROVE RelayInv'
  BY <1>8, <1>10 DEF Deliver, dbVars, MessagesHaveScan, Typing, TypeOK
<1>11. ASSUME NEW h \in Handler, HandlerStep(h) \/ HandlerDbFails(h) PROVE RelayInv'
  <2>1. MessagesHaveScan'
    BY <1>11, HandlerKeepsRow DEF MessagesHaveScan, Typing, HandlerHasScan
  <2> QED
    BY <1>8, <1>11, <2>1, HandlerKeepsRow
<1>12. ASSUME NEW w \in Worker, WorkerStep(w) PROVE RelayInv'
  <2> USE DEF MessagesHaveScan, Typing, TypeOK, dbVars, brokerVars
  <2>1. CASE WorkerExit(w)
    BY <1>8, <2>1 DEF WorkerExit, ForgetHandlers
  <2>2. CASE WorkerRestart(w)
    BY <1>8, <2>2 DEF WorkerRestart
  <2> QED
    BY <1>12, <2>1, <2>2 DEF WorkerStep
<1>13. ASSUME NEW w \in Worker, Requeue(w), UNCHANGED <<status, wire>>,
              \A g \in Handler : handlerPc'[g] # "idle" =>
                 handlerPc[g] # "idle" /\ handling'[g] = handling[g]
       PROVE  MessagesHaveScan'
  <2>1. \A s \in Scan : queue'[s] > 0 => status[s] # "absent"
    <3> SUFFICES ASSUME NEW s \in Scan, queue'[s] > 0 PROVE status[s] # "absent"
      OBVIOUS
    <3>1. queue[s] > 0 \/ \E h \in HandlersOf(w) : Attached(h) /\ handling[h] = s
      BY <1>13, RequeueFacts DEF Typing, TypeOK
    <3> QED
      BY <3>1 DEF MessagesHaveScan, Attached
  <2> QED
    BY <1>13, <2>1 DEF MessagesHaveScan
<1>14. ASSUME NEW w \in Worker, WorkerCrash(w) PROVE RelayInv'
  <2>1. \A g \in Handler : handlerPc'[g] # "idle" =>
                 handlerPc[g] # "idle" /\ handling'[g] = handling[g]
    BY <1>14 DEF WorkerCrash, ForgetHandlers
  <2> QED
    BY <1>8, <1>13, <1>14, <2>1 DEF WorkerCrash, dbVars
<1>15. ASSUME NEW w \in Worker, WorkerStop(w) PROVE RelayInv'
  BY <1>8, <1>13, <1>15 DEF WorkerStop, dbVars
<1>16. CASE UNCHANGED vars
  BY <1>8, <1>16 DEF vars, relayVars, MessagesHaveScan
<1> QED
  BY <1>1, <1>2, <1>4, <1>5, <1>6, <1>7, <1>9, <1>10, <1>11, <1>12, <1>14, <1>15, <1>16
     DEF Next, SomeDelivery

-----------------------------------------------------------------------------
(* The workers' claims.                                                    *)

\* While a handler works on a scan the scan is in progress, so the claim of
\* any other handler finds nothing; a handler on its way to an ack has seen
\* the scan leave "pending", and no step returns it there.
ClaimsHold ==
    \A h \in Handler :
        /\ Processing(h) => status[handling[h]] = "in_progress"
        /\ handlerPc[h] = "checked" => found[h] \in Result
        /\ handlerPc[h] \in {"unclaimed", "acking"} => status[handling[h]] # "pending"

WorkerInv == ClaimsHold /\ SingleProcessor /\ ResultsWithStatus

\* The workers' invariant holds initially: no handler has a scan.
LEMMA WorkerInit == Init => WorkerInv
BY HandlerFacts DEF Init, WorkerInv, ClaimsHold, SingleProcessor, ResultsWithStatus, Processing

\* Steps that store no result and leave the handlers as they are or forget
\* some of them.
LEMMA WorkerUndisturbed ==
    ASSUME Typing, WorkerInv, UNCHANGED <<status, checkRows, verdict>>,
           \A h \in Handler :
              \/ handlerPc'[h] = "idle"
              \/ /\ handlerPc'[h] = handlerPc[h]
                 /\ handling'[h] = handling[h]
                 /\ found'[h] = found[h]
    PROVE  WorkerInv'
BY DEF WorkerInv, ClaimsHold, SingleProcessor, ResultsWithStatus, Processing

\* Every step keeps one processor per scan in progress and results with their
\* status: a claim finds the scan pending, so nobody else had claimed it.
LEMMA WorkerPreserved == Typing /\ RelayInv /\ WorkerInv /\ [Next]_vars => WorkerInv'
<1> SUFFICES ASSUME Typing, RelayInv, WorkerInv, [Next]_vars PROVE WorkerInv'
  OBVIOUS
<1> USE HandlerFacts
<1>1. ASSUME NEW s \in Scan, Submit(s) PROVE WorkerInv'
  <2>1. \A h \in Handler : handlerPc[h] # "idle" => handling[h] # s
    BY <1>1 DEF Submit, RelayInv, MessagesHaveScan
  <2>2. \A t \in Scan : status'[t] = status[t] \/ (t = s /\ status[t] = "absent" /\ status'[t] = "pending")
    BY <1>1 DEF Submit, Typing, TypeOK
  <2>3. SingleProcessor' /\ ResultsWithStatus'
    BY <1>1, <2>2 DEF Submit, workerVars, WorkerInv, SingleProcessor, ResultsWithStatus, Processing
  <2>4. ClaimsHold'
    BY <1>1, <2>1, <2>2 DEF Submit, workerVars, WorkerInv, ClaimsHold, Processing, Typing, HandlerHasScan
  <2> QED
    BY <2>3, <2>4 DEF WorkerInv
<1>2. ASSUME NEW r \in Relay, RelayStep(r) PROVE WorkerInv'
  BY <1>2, WorkerUndisturbed
     DEF RelayStep, Drain, Publish, Land, Confirm, Commit, RelayRestart, dbVars, workerVars
<1>3. ASSUME NEW r \in Relay, PublishFails(r) \/ RelayCrash(r) \/ DrainDbFails(r) \/ PollEmpty(r)
      PROVE  WorkerInv'
  BY <1>3, WorkerUndisturbed
     DEF PublishFails, RelayCrash, DrainDbFails, PollEmpty, dbVars, workerVars, vars
<1>4. ASSUME NEW s \in Scan, LandLate(s) PROVE WorkerInv'
  BY <1>4, WorkerUndisturbed DEF LandLate, dbVars, workerVars
<1>5. ASSUME NEW h \in Handler, NEW s \in Scan, Deliver(h, s) PROVE WorkerInv'
  BY <1>5 DEF Deliver, dbVars, WorkerInv, ClaimsHold, SingleProcessor, ResultsWithStatus,
              Processing, Typing, TypeOK
<1>6. ASSUME NEW h \in Handler, handlerPc[h] = "received", Claimable(handling[h]),
             ClaimRow(handling[h]), UNCHANGED <<checkRows, verdict, handling, found>>,
             NEW pc \in {"claimed", "nacking"}, handlerPc' = [handlerPc EXCEPT ![h] = pc]
      PROVE  WorkerInv'
  <2>1. \A g \in Handler : Processing(g) => handling[g] # handling[h]
    BY <1>6 DEF Claimable, WorkerInv, ClaimsHold
  <2>2. \A t \in Scan : status'[t] = IF t = handling[h] THEN "in_progress" ELSE status[t]
    BY <1>6 DEF ClaimRow, Typing, TypeOK
  <2>3. \A g \in Handler \ {h} : handlerPc'[g] = handlerPc[g]
    BY <1>6 DEF Typing, TypeOK
  <2>4. handlerPc'[h] = pc
    BY <1>6 DEF Typing, TypeOK
  <2>5. ClaimsHold'
    BY <1>6, <2>2, <2>3, <2>4 DEF WorkerInv, ClaimsHold, Processing, Typing, HandlerHasScan
  <2>6. SingleProcessor'
    BY <1>6, <2>1, <2>3, <2>4 DEF WorkerInv, SingleProcessor, Processing
  <2>7. ResultsWithStatus'
    BY <1>6, <2>2 DEF WorkerInv, ResultsWithStatus, Claimable
  <2> QED
    BY <2>5, <2>6, <2>7 DEF WorkerInv
<1>7. ASSUME NEW h \in Handler, handlerPc[h] = "checked", StoreResult(handling[h], found[h]),
             UNCHANGED <<handling, found>>,
             NEW pc \in {"acking", "nacking"}, handlerPc' = [handlerPc EXCEPT ![h] = pc]
      PROVE  WorkerInv'
  <2> DEFINE s == handling[h]
  <2>1. s \in Scan /\ found[h] \in Result
    BY <1>7 DEF WorkerInv, ClaimsHold, Typing, HandlerHasScan
  <2>2. \A t \in Scan : /\ status'[t] = IF t = s THEN "completed" ELSE status[t]
                        /\ verdict'[t] = IF t = s THEN found[h] ELSE verdict[t]
                        /\ checkRows'[t] = IF t = s THEN found[h] ELSE checkRows[t]
    BY <1>7 DEF StoreResult, Typing, TypeOK
  <2>3. \A g \in Handler \ {h} : handlerPc'[g] = handlerPc[g] /\ (Processing(g) => handling[g] # s)
    BY <1>7 DEF WorkerInv, SingleProcessor, Processing, Typing, TypeOK
  <2>4. handlerPc'[h] = pc
    BY <1>7 DEF Typing, TypeOK
  <2>5. ClaimsHold'
    BY <1>7, <2>2, <2>3, <2>4 DEF WorkerInv, ClaimsHold, Processing, Typing, HandlerHasScan
  <2>6. SingleProcessor'
    BY <1>7, <2>3, <2>4 DEF WorkerInv, SingleProcessor, Processing
  <2>7. ResultsWithStatus'
    BY <2>1, <2>2, NoResultAssumption DEF WorkerInv, ResultsWithStatus
  <2> QED
    BY <2>5, <2>6, <2>7 DEF WorkerInv
<1>8. ASSUME NEW h \in Handler, HandlerStep(h) PROVE WorkerInv'
  <2>1. CASE Claim(h)
    BY <2>1, <1>6 DEF Claim
  <2>2. CASE ClaimNothing(h)
    BY <2>2 DEF ClaimNothing, Claimable, dbVars, WorkerInv, ClaimsHold, SingleProcessor,
                ResultsWithStatus, Processing, Typing, TypeOK
  <2>3. CASE LookUp(h)
    BY <2>3 DEF LookUp, dbVars, WorkerInv, ClaimsHold, SingleProcessor,
                ResultsWithStatus, Processing, Typing, TypeOK
  <2>4. CASE RunChecks(h)
    BY <2>4 DEF RunChecks, dbVars, WorkerInv, ClaimsHold, SingleProcessor,
                ResultsWithStatus, Processing, Typing, TypeOK
  <2>5. CASE CompleteScan(h)
    BY <2>5, <1>7 DEF CompleteScan
  <2>6. CASE Ack(h) \/ Nack(h)
    BY <2>6, WorkerUndisturbed DEF Ack, Nack, Release, dbVars, Typing, TypeOK
  <2> QED
    BY <1>8, <2>1, <2>2, <2>3, <2>4, <2>5, <2>6 DEF HandlerStep
<1>9. ASSUME NEW h \in Handler, HandlerDbFails(h) PROVE WorkerInv'
  <2>1. CASE UNCHANGED <<status, checkRows, verdict>>
    BY <1>9, <2>1 DEF HandlerDbFails, WorkerInv, ClaimsHold, SingleProcessor,
                      ResultsWithStatus, Processing, Typing, TypeOK
  <2>2. CASE handlerPc[h] = "received" /\ Claimable(handling[h]) /\ ClaimRow(handling[h])
             /\ UNCHANGED <<checkRows, verdict>>
    BY <1>9, <2>2, <1>6 DEF HandlerDbFails
  <2>3. CASE handlerPc[h] = "checked" /\ StoreResult(handling[h], found[h])
    BY <1>9, <2>3, <1>7 DEF HandlerDbFails
  <2> QED
    BY <1>9, <2>1, <2>2, <2>3 DEF HandlerDbFails
<1>10. ASSUME NEW w \in Worker, WorkerStep(w) \/ WorkerCrash(w) \/ WorkerStop(w)
       PROVE  WorkerInv'
  BY <1>10, WorkerUndisturbed
     DEF WorkerStep, WorkerExit, WorkerRestart, WorkerCrash, WorkerStop, ForgetHandlers, dbVars
<1>11. CASE UNCHANGED vars
  BY <1>11, WorkerUndisturbed DEF vars
<1> QED
  BY <1>1, <1>2, <1>3, <1>4, <1>5, <1>8, <1>9, <1>10, <1>11 DEF Next, SomeDelivery

-----------------------------------------------------------------------------
(* The theorems on the claim.                                              *)

Inv == Typing /\ RelayInv /\ WorkerInv

\* The three parts together are inductive.
LEMMA InvInvariant == Spec => []Inv
<1>1. Init => Inv
  BY TypeInit, RelayInit, WorkerInit DEF Inv
<1>2. Inv /\ [Next]_vars => Inv'
  BY TypeStep, RelayPreserved, WorkerPreserved DEF Inv
<1> QED
  BY <1>1, <1>2, PTL DEF Spec

\* At any time at most one handler, over all workers, runs the checks of a
\* scan or is about to store their result.
THEOREM OneProcessorPerScan == Spec => []SingleProcessor
<1>1. Inv => SingleProcessor
  BY DEF Inv, WorkerInv
<1> QED
  BY <1>1, InvInvariant, PTL

\* Check rows, verdict and the status "completed" always appear together.
THEOREM CompleteOrNot == Spec => []ResultsWithStatus
<1>1. Inv => ResultsWithStatus
  BY DEF Inv, WorkerInv
<1> QED
  BY <1>1, InvInvariant, PTL

\* No outbox row is ever in the transactions of two relays.
THEOREM OneRelayPerRow == Spec => []LocksDisjoint
<1>1. Inv => LocksDisjoint
  BY DEF Inv, RelayInv
<1> QED
  BY <1>1, InvInvariant, PTL

-----------------------------------------------------------------------------
(* No event is lost.                                                       *)

\* The broker has enqueued the scan's message in the drain that is open, or
\* in the one that marked the row.
Confirmed(s) ==
    \/ outbox[s] = "published"
    \/ \E r \in Relay : s \in batch[r] /\ s \notin left[r]
    \/ \E r \in Relay : relayPc[r] = "confirmed" /\ IsNext(s, left[r])

\* NoLostEvent, from the moment the broker has the message on.
Delivered ==
    \A s \in Scan : status[s] = "pending" /\ Confirmed(s) => HasMessage(s)

\* A step that leaves the workers alone and takes nothing from the queue.
LEMMA MessageUndisturbed ==
    ASSUME Inv, NEW s \in Scan, HasMessage(s), UNCHANGED <<dropped, workerVars>>,
           queue'[s] >= queue[s], queue'[s] \in Nat
    PROVE  HasMessage(s)'
BY DEF HasMessage, Attached, workerVars, Inv, Typing, TypeOK

\* Only a claim takes the last message of a scan, and the scan is no longer
\* pending then: a message is handed on, put back, or dropped.
LEMMA MessageKept ==
    ASSUME Inv, [Next]_vars, NEW s \in Scan, HasMessage(s), status'[s] = "pending"
    PROVE  HasMessage(s)'
<1> USE HandlerFacts DEF Inv
<1> DEFINE Carries(h) == Attached(h) /\ handling[h] = s /\ handlerPc[h] # "acking"
<1>0. queue[s] \in Nat
  BY DEF Typing, TypeOK
<1>1. ASSUME NEW t \in Scan, Submit(t) PROVE HasMessage(s)'
  BY <1>0, <1>1, MessageUndisturbed DEF Submit, brokerVars
<1>2. ASSUME NEW r \in Relay, RelayStep(r) PROVE HasMessage(s)'
  <2>1. CASE Drain(r) \/ Publish(r) \/ Confirm(r) \/ Commit(r) \/ RelayRestart(r)
    BY <1>0, <2>1, MessageUndisturbed
       DEF Drain, Publish, Confirm, Commit, RelayRestart, brokerVars
  <2>2. ASSUME NEW t \in Scan, Land(r, t) PROVE HasMessage(s)'
    <3>1. queue'[s] >= queue[s] /\ queue'[s] \in Nat
      BY <1>0, <2>2 DEF Land, Typing, TypeOK
    <3> QED
      BY <2>2, <3>1, MessageUndisturbed DEF Land
  <2> QED
    BY <1>2, <2>1, <2>2 DEF RelayStep
<1>3. ASSUME NEW r \in Relay, PublishFails(r) \/ RelayCrash(r) \/ DrainDbFails(r) \/ PollEmpty(r)
      PROVE  HasMessage(s)'
  BY <1>0, <1>3, MessageUndisturbed
     DEF PublishFails, RelayCrash, DrainDbFails, PollEmpty, brokerVars, workerVars, vars
<1>4. ASSUME NEW t \in Scan, LandLate(t) PROVE HasMessage(s)'
  <2>1. queue'[s] >= queue[s] /\ queue'[s] \in Nat
    BY <1>0, <1>4 DEF LandLate, Typing, TypeOK
  <2> QED
    BY <1>4, <2>1, MessageUndisturbed DEF LandLate
<1>5. ASSUME NEW h \in Handler, NEW t \in Scan, Deliver(h, t) PROVE HasMessage(s)'
  <2>1. CASE t = s
    <3>1. Carries(h)'
      BY <1>5, <2>1 DEF Deliver, Attached, Typing, TypeOK
    <3> QED
      BY <3>1 DEF HasMessage
  <2>2. CASE t # s
    <3>1. queue'[s] = queue[s] /\ dropped' = dropped
      BY <1>5, <2>2 DEF Deliver, Typing, TypeOK
    <3>2. ASSUME NEW g \in Handler, Carries(g) PROVE Carries(g)'
      BY <1>5, <3>2 DEF Deliver, Attached, Typing, TypeOK
    <3> QED
      BY <3>1, <3>2 DEF HasMessage
  <2> QED
    BY <2>1, <2>2
<1>6. ASSUME NEW h \in Handler, HandlerStep(h) \/ HandlerDbFails(h) PROVE HasMessage(s)'
  <2>1. /\ queue' = queue
        /\ workerMode' = workerMode
        /\ \A g \in Handler \ {h} : handlerPc'[g] = handlerPc[g] /\ handling'[g] = handling[g]
    BY <1>6 DEF HandlerStep, Claim, ClaimNothing, LookUp, RunChecks, CompleteScan, Ack, Nack,
                HandlerDbFails, Release, brokerVars, Typing, TypeOK
  <2>2. dropped \subseteq dropped'
    BY <1>6 DEF HandlerStep, Claim, ClaimNothing, LookUp, RunChecks, CompleteScan, Ack, Nack,
                HandlerDbFails, brokerVars
  <2>3. ASSUME Carries(h) PROVE Carries(h)' \/ s \in dropped'
    <3>1. CASE Claim(h)
      BY <2>3, <3>1 DEF Claim, ClaimRow, Typing, TypeOK
    <3>2. CASE ClaimNothing(h) \/ RunChecks(h)
      BY <2>3, <3>2 DEF ClaimNothing, RunChecks, Attached, Typing, TypeOK
    <3>3. CASE LookUp(h)
      BY <2>3, <3>3 DEF LookUp, dbVars, WorkerInv, ClaimsHold, Attached
    <3>4. CASE CompleteScan(h)
      BY <2>3, <3>4 DEF CompleteScan, StoreResult, Typing, TypeOK
    <3>5. CASE Ack(h)
      BY <2>3, <3>5 DEF Ack
    <3>6. CASE Nack(h)
      BY <2>3, <3>6 DEF Nack
    <3>7. CASE HandlerDbFails(h)
      BY <2>3, <3>7 DEF HandlerDbFails, Attached, Typing, TypeOK
    <3> QED
      BY <1>6, <3>1, <3>2, <3>3, <3>4, <3>5, <3>6, <3>7 DEF HandlerStep
  <2>4. ASSUME NEW g \in Handler \ {h}, Carries(g) PROVE Carries(g)'
    BY <2>1, <2>4 DEF Attached
  <2> QED
    BY <2>1, <2>2, <2>3, <2>4 DEF HasMessage
<1>7. ASSUME NEW w \in Worker, WorkerExit(w) \/ WorkerRestart(w) PROVE HasMessage(s)'
  <2>1. queue' = queue /\ dropped' = dropped
    BY <1>7 DEF WorkerExit, WorkerRestart, brokerVars
  <2>2. ASSUME NEW g \in Handler, Carries(g) PROVE Carries(g)'
    BY <1>7, <2>2 DEF WorkerExit, WorkerRestart, ForgetHandlers, Attached, Typing, TypeOK
  <2> QED
    BY <2>1, <2>2 DEF HasMessage
<1>8. ASSUME NEW w \in Worker, WorkerCrash(w) \/ WorkerStop(w) PROVE HasMessage(s)'
  <2>1. Requeue(w) /\ dropped' = dropped
    BY <1>8 DEF WorkerCrash, WorkerStop
  <2>2. queue'[s] \in Nat /\ queue'[s] >= queue[s]
    BY <2>1, RequeueFacts
  <2>3. ASSUME NEW g \in Handler, Carries(g) PROVE Carries(g)' \/ queue'[s] > queue[s]
    <3>1. CASE g \in HandlersOf(w)
      BY <2>1, <2>3, <3>1, RequeueFacts
    <3>2. CASE g \notin HandlersOf(w)
      BY <1>8, <2>3, <3>2 DEF WorkerCrash, WorkerStop, ForgetHandlers, Attached, Typing, TypeOK
    <3> QED
      BY <3>1, <3>2
  <2> QED
    BY <1>0, <2>1, <2>2, <2>3 DEF HasMessage
<1>9. CASE UNCHANGED vars
  BY <1>0, <1>9, MessageUndisturbed DEF vars, workerVars
<1> QED
  BY <1>1, <1>2, <1>3, <1>4, <1>5, <1>6, <1>7, <1>8, <1>9 DEF Next, SomeDelivery, WorkerStep

\* Nothing but the broker's acceptance makes an event confirmed.
LEMMA OnlyLandConfirms ==
    ASSUME Inv, [Next]_vars, NEW s \in Scan, Confirmed(s)', status[s] # "absent"
    PROVE  Confirmed(s) \/ queue'[s] > 0
<1> USE DEF Inv
<1>1. ASSUME UNCHANGED <<relayVars>>, outbox'[s] = outbox[s] PROVE Confirmed(s)
  BY <1>1 DEF Confirmed, relayVars
<1>2. ASSUME NEW t \in Scan, Submit(t) PROVE Confirmed(s)
  BY <1>1, <1>2 DEF Submit, Typing, TypeOK
<1>3. ASSUME NEW r \in Relay, RelayStep(r) PROVE Confirmed(s) \/ queue'[s] > 0
  <2> USE DEF Typing, TypeOK
  <2>1. CASE Drain(r)
    BY <2>1 DEF Drain, Confirmed, dbVars
  <2>2. CASE Publish(r) \/ RelayRestart(r)
    BY <2>2 DEF Publish, RelayRestart, Confirmed, dbVars
  <2>3. ASSUME NEW t \in Scan, Land(r, t) PROVE Confirmed(s) \/ queue'[s] > 0
    <3>1. CASE t = s
      BY <2>3, <3>1 DEF Land
    <3>2. CASE t # s
      <4>1. ~ IsNext(s, left[r])
        BY <2>3, <3>2, ScanAssumption DEF Land, IsNext
      <4> QED
        BY <2>3, <4>1 DEF Land, Confirmed, dbVars
    <3> QED
      BY <3>1, <3>2
  <2>4. CASE Confirm(r)
    BY <2>4 DEF Confirm, Confirmed, dbVars
  <2>5. CASE Commit(r)
    BY <2>5 DEF Commit, Confirmed
  <2> QED
    BY <1>3, <2>1, <2>2, <2>3, <2>4, <2>5 DEF RelayStep
<1>4. ASSUME NEW r \in Relay, PublishFails(r) \/ RelayCrash(r) \/ DrainDbFails(r)
      PROVE  Confirmed(s)
  <2>1. /\ UNCHANGED outbox
        /\ relayPc'[r] # "confirmed"
        /\ batch'[r] = {}
        /\ \A q \in Relay \ {r} : /\ relayPc'[q] = relayPc[q]
                                  /\ batch'[q] = batch[q]
                                  /\ left'[q] = left[q]
    BY <1>4 DEF PublishFails, RelayCrash, DrainDbFails, Rollback, dbVars, Typing, TypeOK
  <2> QED
    BY <2>1 DEF Confirmed
<1>5. ASSUME NEW h \in Handler, HandlerStep(h) \/ HandlerDbFails(h) PROVE Confirmed(s)
  BY <1>1, <1>5, HandlerKeepsRow DEF RelayInv
<1>6. CASE \/ \E r \in Relay : PollEmpty(r)
           \/ \E t \in Scan : LandLate(t)
           \/ \E h \in Handler, t \in Scan : Deliver(h, t)
           \/ \E w \in Worker : WorkerStep(w) \/ WorkerCrash(w) \/ WorkerStop(w)
           \/ UNCHANGED vars
  BY <1>1, <1>6 DEF PollEmpty, LandLate, Deliver, WorkerStep, WorkerExit, WorkerRestart,
                    WorkerCrash, WorkerStop, dbVars, relayVars, vars
<1> QED
  BY <1>2, <1>3, <1>4, <1>5, <1>6 DEF Next, SomeDelivery

\* No step makes an existing scan pending, and no message exists before the row.
LEMMA PendingBefore ==
    ASSUME Inv, [Next]_vars, NEW s \in Scan, status'[s] = "pending"
    PROVE  status[s] \in {"pending", "absent"}
<1> USE DEF Inv, Typing, TypeOK
<1>1. ASSUME NEW h \in Handler, HandlerStep(h) \/ HandlerDbFails(h)
      PROVE  status[s] \in {"pending", "absent"}
  BY <1>1 DEF HandlerStep, Claim, ClaimNothing, LookUp, RunChecks, CompleteScan, Ack, Nack,
              HandlerDbFails, ClaimRow, StoreResult, dbVars
<1>2. CASE UNCHANGED status \/ \E t \in Scan : Submit(t)
  BY <1>2 DEF Submit
<1>3. CASE \E r \in Relay : RelayStep(r) \/ PollEmpty(r) \/ PublishFails(r) \/ RelayCrash(r)
                            \/ DrainDbFails(r)
  BY <1>2, <1>3 DEF RelayStep, Drain, Publish, Land, Confirm, Commit, RelayRestart, PollEmpty,
                    PublishFails, RelayCrash, DrainDbFails, dbVars, vars
<1>4. CASE \/ \E t \in Scan : LandLate(t)
           \/ \E h \in Handler, t \in Scan : Deliver(h, t)
           \/ \E w \in Worker : WorkerStep(w) \/ WorkerCrash(w) \/ WorkerStop(w)
           \/ UNCHANGED vars
  BY <1>2, <1>4 DEF LandLate, Deliver, WorkerStep, WorkerExit, WorkerRestart,
                    WorkerCrash, WorkerStop, dbVars, vars
<1> QED
  BY <1>1, <1>2, <1>3, <1>4 DEF Next, SomeDelivery

\* A confirmed event of a pending scan keeps a message, in every reachable state.
LEMMA AlwaysDelivered == Spec => []Delivered
<1>1. Init => Delivered
  BY DEF Init, Delivered
<1>2. Inv /\ Delivered /\ [Next]_vars => Delivered'
  <2> SUFFICES ASSUME Inv, Delivered, [Next]_vars,
                      NEW s \in Scan, status'[s] = "pending", Confirmed(s)'
               PROVE  HasMessage(s)'
    BY DEF Delivered
  <2>1. CASE status[s] = "pending"
    <3>1. Confirmed(s) \/ queue'[s] > 0
      BY <2>1, OnlyLandConfirms
    <3> QED
      BY <2>1, <3>1, MessageKept DEF Delivered, HasMessage
  <2>2. CASE status[s] = "absent"
    <3>1. status'[s] # status[s]
      BY <2>2
    <3>2. ASSUME NEW t \in Scan, Submit(t) PROVE FALSE
      <4>1. /\ UNCHANGED relayVars
            /\ outbox'[s] # "published"
        BY <2>2, <3>2 DEF Submit, Inv, RelayInv, OutboxWithScan, Typing, TypeOK
      <4>2. \A r \in Relay : s \notin batch[r] /\ s \notin left[r]
        BY <2>2 DEF Inv, RelayInv, OutboxWithScan, BatchesUnpublished
      <4> QED
        BY <4>1, <4>2 DEF Confirmed, relayVars, IsNext
    <3>3. ASSUME NEW h \in Handler, HandlerStep(h) \/ HandlerDbFails(h) PROVE FALSE
      BY <2>2, <3>3, HandlerKeepsRow DEF Inv, RelayInv
    <3>4. CASE UNCHANGED status
      BY <3>1, <3>4
    <3>5. CASE \E r \in Relay : RelayStep(r) \/ PollEmpty(r) \/ PublishFails(r) \/ RelayCrash(r)
                                \/ DrainDbFails(r)
      BY <3>4, <3>5 DEF RelayStep, Drain, Publish, Land, Confirm, Commit, RelayRestart, PollEmpty,
                        PublishFails, RelayCrash, DrainDbFails, dbVars, vars
    <3>6. CASE \/ \E t \in Scan : LandLate(t)
               \/ \E h \in Handler, t \in Scan : Deliver(h, t)
               \/ \E w \in Worker : WorkerStep(w) \/ WorkerCrash(w) \/ WorkerStop(w)
               \/ UNCHANGED vars
      BY <3>4, <3>6 DEF LandLate, Deliver, WorkerStep, WorkerExit, WorkerRestart,
                        WorkerCrash, WorkerStop, dbVars, vars
    <3> QED
      BY <3>2, <3>3, <3>5, <3>6 DEF Next, SomeDelivery
  <2> QED
    BY <2>1, <2>2, PendingBefore
<1> QED
  BY <1>1, <1>2, InvInvariant, PTL DEF Spec

\* A confirmed event of a pending scan keeps a message that some worker will
\* still get, unless a worker nacked it: whatever crashes, times out or lands
\* late, for any number of scans, relays, workers and faults.
THEOREM NoEventLost == Spec => []NoLostEvent
<1>1. Delivered => NoLostEvent
  BY DEF Delivered, NoLostEvent, Confirmed
<1> QED
  BY <1>1, AlwaysDelivered, PTL

-----------------------------------------------------------------------------
(* Duplicates.                                                             *)

\* The copies of a message that have left a relay for good.
Copies(s) == accepted[s] + wire[s]

DrainFaults == faults["relay"] + faults["database"]

\* The current drain has sent the row's message, or an earlier one has marked it.
Sent(s) ==
    \/ outbox[s] = "published"
    \/ \E r \in Relay : s \in batch[r] /\ s \notin left[r]
    \/ \E r \in Relay : relayPc[r] \in {"awaiting", "confirmed"} /\ IsNext(s, left[r])

\* The row's message is on its way to the broker.
OnItsWay(s) == \E r \in Relay : relayPc[r] = "awaiting" /\ IsNext(s, left[r])

\* DuplicatesNeedFaults with what the drain in progress adds to it: while the
\* row is unsent, or its copy is not counted yet, one copy is still to come.
CopiesBounded ==
    \A s \in Scan :
        /\ Copies(s) <= 1 + DrainFaults
        /\ ~ Sent(s) \/ OnItsWay(s) => Copies(s) <= DrainFaults

\* A step that leaves the outbox, the relays' drains and the copies alone.
LEMMA CopiesUndisturbed ==
    ASSUME Inv, CopiesBounded, UNCHANGED <<outbox, relayVars>>,
           DrainFaults' \in Nat, DrainFaults' >= DrainFaults,
           \A s \in Scan : Copies(s)' = Copies(s)
    PROVE  CopiesBounded'
<1>1. /\ DrainFaults \in Nat
      /\ \A s \in Scan : Copies(s) \in Nat
  BY DEF Inv, Typing, TypeOK, DrainFaults, Copies, FaultKind
<1>2. \A s \in Scan : (Sent(s)' <=> Sent(s)) /\ (OnItsWay(s)' <=> OnItsWay(s))
  BY DEF Sent, OnItsWay, relayVars
<1> QED
  BY <1>1, <1>2 DEF CopiesBounded

\* A rolled back drain pays with its fault for the copies it leaves behind.
LEMMA CopiesRollback ==
    ASSUME Inv, CopiesBounded, NEW r \in Relay, NEW p \in {"idle", "down"},
           Rollback(r, p), MayStrayOnto(r) \/ UNCHANGED wire,
           UNCHANGED <<outbox, accepted>>, DrainFaults' = DrainFaults + 1
    PROVE  CopiesBounded'
<1> USE DEF Inv, Typing, TypeOK
<1>1. /\ DrainFaults \in Nat
      /\ \A s \in Scan : accepted[s] \in Nat /\ wire[s] \in Nat
  BY DEF DrainFaults, FaultKind
<1>2. ASSUME NEW s \in Scan PROVE Copies(s)' <= DrainFaults'
  <2>1. CASE wire'[s] = wire[s]
    BY <1>1, <1>2, <2>1 DEF Copies, CopiesBounded
  <2>2. CASE wire'[s] = wire[s] + 1 /\ OnItsWay(s)
    BY <1>1, <1>2, <2>2 DEF Copies, CopiesBounded
  <2> QED
    BY <2>1, <2>2 DEF MayStrayOnto, OnItsWay
<1>3. DrainFaults' \in Nat /\ \A s \in Scan : Copies(s)' \in Int
  BY <1>1 DEF Copies, MayStrayOnto
<1> QED
  BY <1>2, <1>3 DEF CopiesBounded

\* Every step keeps the copies of a message within the drains that failed, with
\* one to spare while the relay of the row has nothing confirmed.
LEMMA CopiesPreserved == Inv /\ CopiesBounded /\ [Next]_vars => CopiesBounded'
<1> SUFFICES ASSUME Inv, CopiesBounded, [Next]_vars PROVE CopiesBounded'
  OBVIOUS
<1>0. /\ faults["relay"] \in Nat
      /\ faults["database"] \in Nat
      /\ faults["worker"] \in Nat
      /\ \A s \in Scan : accepted[s] \in Nat /\ wire[s] \in Nat
  BY DEF Inv, Typing, TypeOK, FaultKind
<1>1. ASSUME NEW kind \in FaultKind, Fault(kind)
      PROVE  /\ DrainFaults' \in Nat
             /\ DrainFaults' = IF kind = "worker" THEN DrainFaults ELSE DrainFaults + 1
  BY <1>0, <1>1 DEF Fault, DrainFaults, FaultKind, Inv, Typing, TypeOK
<1>2. DrainFaults \in Nat
  BY <1>0 DEF DrainFaults
<1>3. ASSUME NEW s \in Scan, Submit(s) PROVE CopiesBounded'
  <2>1. \A t \in Scan : (outbox'[t] = "published" <=> outbox[t] = "published")
    BY <1>3 DEF Submit, Inv, RelayInv, OutboxWithScan, Typing, TypeOK
  <2>2. UNCHANGED <<relayVars, accepted, wire, faults>>
    BY <1>3 DEF Submit, brokerVars
  <2> QED
    BY <2>1, <2>2 DEF CopiesBounded, Copies, DrainFaults, Sent, OnItsWay, relayVars
<1>4. ASSUME NEW r \in Relay, RelayStep(r) PROVE CopiesBounded'
  <2> USE DEF Inv, Typing, TypeOK, RelayInv, BatchesUnpublished, LocksDisjoint
  <2>1. ASSUME UNCHANGED <<accepted, wire, faults>>,
               \A s \in Scan : /\ Sent(s) => Sent(s)'
                               /\ ~ Sent(s)' \/ OnItsWay(s)' => ~ Sent(s) \/ OnItsWay(s)
        PROVE  CopiesBounded'
    BY <2>1 DEF CopiesBounded, Copies, DrainFaults
  <2>2. CASE Drain(r)
    <3>1. \A s \in Scan : (Sent(s)' <=> Sent(s)) /\ (OnItsWay(s)' <=> OnItsWay(s))
      BY <2>2 DEF Drain, Sent, OnItsWay, dbVars
    <3> QED
      BY <2>1, <2>2, <3>1 DEF Drain, brokerVars
  <2>3. CASE Publish(r)
    <3>1. \A s \in Scan : Sent(s) => Sent(s)'
      BY <2>3 DEF Publish, Sent, dbVars
    <3>2. ASSUME NEW s \in Scan, IsNext(s, left[r]) PROVE ~ Sent(s)
      BY <2>3, <3>2 DEF Publish, Sent, IsNext
    <3>3. ASSUME NEW s \in Scan, OnItsWay(s)' PROVE ~ Sent(s) \/ OnItsWay(s)
      BY <2>3, <3>2, <3>3 DEF Publish, OnItsWay
    <3> QED
      BY <2>1, <2>3, <3>1, <3>3 DEF Publish, brokerVars
  <2>4. ASSUME NEW t \in Scan, Land(r, t) PROVE CopiesBounded'
    <3>1. OnItsWay(t)
      BY <2>4 DEF Land, OnItsWay
    <3>2. ~ OnItsWay(t)' /\ Sent(t)'
      BY <2>4 DEF Land, OnItsWay, Sent, IsNext, dbVars
    <3>3. Copies(t)' = Copies(t) + 1
      BY <1>0, <2>4 DEF Land, Copies
    <3>4. ASSUME NEW s \in Scan, s # t
          PROVE  /\ Copies(s)' = Copies(s)
                 /\ Sent(s)' <=> Sent(s)
                 /\ OnItsWay(s)' <=> OnItsWay(s)
      <4>1. ~ IsNext(s, left[r])
        BY <2>4, <3>4, ScanAssumption DEF Land, IsNext
      <4> QED
        BY <2>4, <3>4, <4>1 DEF Land, Copies, Sent, OnItsWay, dbVars
    <3>5. UNCHANGED DrainFaults
      BY <2>4 DEF Land, DrainFaults
    <3>6. Copies(t) \in Nat
      BY <1>0 DEF Copies
    <3> QED
      BY <1>2, <3>1, <3>2, <3>3, <3>4, <3>5, <3>6 DEF CopiesBounded
  <2>5. CASE Confirm(r)
    <3>1. \A s \in Scan : Sent(s) => Sent(s)'
      BY <2>5 DEF Confirm, Sent, IsNext, dbVars
    <3>2. \A s \in Scan : Sent(s)' => Sent(s)
      BY <2>5 DEF Confirm, Sent, IsNext, dbVars
    <3>3. \A s \in Scan : OnItsWay(s)' => OnItsWay(s)
      BY <2>5 DEF Confirm, OnItsWay
    <3> QED
      BY <2>1, <2>5, <3>1, <3>2, <3>3 DEF Confirm, brokerVars
  <2>6. CASE Commit(r)
    <3>1. \A s \in Scan : Sent(s) => Sent(s)'
      BY <2>6 DEF Commit, Sent
    <3>2. \A s \in Scan : Sent(s)' => Sent(s)
      BY <2>6 DEF Commit, Sent
    <3>3. \A s \in Scan : OnItsWay(s)' <=> OnItsWay(s)
      BY <2>6 DEF Commit, OnItsWay
    <3> QED
      BY <2>1, <2>6, <3>1, <3>2, <3>3 DEF Commit, brokerVars
  <2>7. CASE RelayRestart(r)
    <3>1. \A s \in Scan : (Sent(s)' <=> Sent(s)) /\ (OnItsWay(s)' <=> OnItsWay(s))
      BY <2>7 DEF RelayRestart, Sent, OnItsWay, dbVars
    <3> QED
      BY <2>1, <2>7, <3>1 DEF RelayRestart, brokerVars
  <2> QED
    BY <1>4, <2>2, <2>3, <2>4, <2>5, <2>6, <2>7 DEF RelayStep
<1>5. ASSUME NEW r \in Relay, PublishFails(r) \/ RelayCrash(r) \/ DrainDbFails(r)
      PROVE  CopiesBounded'
  <2>1. /\ Rollback(r, "idle") \/ Rollback(r, "down")
        /\ MayStrayOnto(r) \/ UNCHANGED wire
        /\ UNCHANGED <<outbox, accepted>>
        /\ Fault("relay") \/ Fault("database")
    BY <1>5 DEF PublishFails, RelayCrash, DrainDbFails, dbVars, brokerVars
  <2>2. DrainFaults' = DrainFaults + 1
    BY <1>1, <2>1 DEF FaultKind
  <2> QED
    BY <2>1, <2>2, CopiesRollback
<1>6. ASSUME NEW t \in Scan, LandLate(t) PROVE CopiesBounded'
  <2>1. \A s \in Scan : Copies(s)' = Copies(s)
    BY <1>0, <1>6 DEF LandLate, Copies, Inv, Typing, TypeOK
  <2> QED
    BY <1>2, <1>6, <2>1, CopiesUndisturbed DEF LandLate, dbVars, DrainFaults
<1>7. ASSUME NEW h \in Handler, NEW t \in Scan, Deliver(h, t) PROVE CopiesBounded'
  BY <1>2, <1>7, CopiesUndisturbed DEF Deliver, dbVars, DrainFaults, Copies
<1>8. ASSUME NEW h \in Handler, HandlerStep(h) PROVE CopiesBounded'
  <2>1. UNCHANGED faults
    BY <1>8 DEF HandlerStep, Claim, ClaimNothing, LookUp, RunChecks, CompleteScan, Ack, Nack
  <2> QED
    BY <1>2, <1>8, <2>1, HandlerKeepsRow, CopiesUndisturbed DEF Inv, RelayInv, DrainFaults, Copies
<1>9. ASSUME NEW h \in Handler, HandlerDbFails(h) PROVE CopiesBounded'
  <2>1. DrainFaults' \in Nat /\ DrainFaults' >= DrainFaults
    BY <1>1, <1>2, <1>9 DEF HandlerDbFails, FaultKind
  <2> QED
    BY <1>9, <2>1, HandlerKeepsRow, CopiesUndisturbed DEF Inv, RelayInv, Copies
<1>10. ASSUME NEW w \in Worker, WorkerStep(w) \/ WorkerCrash(w) \/ WorkerStop(w)
       PROVE  CopiesBounded'
  <2>1. UNCHANGED faults \/ Fault("worker")
    BY <1>10 DEF WorkerStep, WorkerExit, WorkerRestart, WorkerCrash, WorkerStop
  <2>2. DrainFaults' \in Nat /\ DrainFaults' >= DrainFaults
    BY <1>1, <1>2, <2>1 DEF FaultKind, DrainFaults
  <2> QED
    BY <1>10, <2>2, CopiesUndisturbed
       DEF WorkerStep, WorkerExit, WorkerRestart, WorkerCrash, WorkerStop, dbVars, brokerVars, Copies
<1>11. CASE UNCHANGED vars \/ \E r \in Relay : PollEmpty(r)
  BY <1>2, <1>11, CopiesUndisturbed DEF vars, PollEmpty, relayVars, DrainFaults, Copies
<1> QED
  BY <1>3, <1>4, <1>5, <1>6, <1>7, <1>8, <1>9, <1>10, <1>11 DEF Next, SomeDelivery

\* However many relays drain concurrently, a message reaches the broker a
\* second time only after a drain was rolled back, and once per rollback.
THEOREM DuplicatesBounded == Spec => []DuplicatesNeedFaults
<1>1. Init => CopiesBounded
  BY DEF Init, CopiesBounded, Copies, DrainFaults, Sent, OnItsWay, FaultKind
<1>2. Inv /\ CopiesBounded => DuplicatesNeedFaults
  BY DEF Inv, Typing, TypeOK, CopiesBounded, Copies, DrainFaults, DuplicatesNeedFaults, FaultKind
<1> QED
  BY <1>1, <1>2, CopiesPreserved, InvInvariant, PTL DEF Spec

-----------------------------------------------------------------------------
(* What faults cost.                                                       *)

\* A scan in progress that no handler of a worker that is up works on.
Doomed ==
    {s \in Scan :
        /\ status[s] = "in_progress"
        /\ ~ \E h \in Handler : workerMode[h[1]] = "up" /\ Processing(h) /\ handling[h] = s}

\* A handler of a closing worker that may still claim its scan.
Dooming == {h \in Handler : workerMode[h[1]] = "closing" /\ handlerPc[h] = "received"}

Refusing == {h \in Handler : handlerPc[h] = "nacking"}

\* Every scan that is lost, or will be, is paid for by a fault when its worker
\* stops or its database call fails.
ScansPaid ==
    /\ IsFiniteSet(Doomed)
    /\ Cardinality(Doomed) + Cardinality(Dooming)
           <= Prefetch * faults["worker"] + faults["database"]

DropsPaid ==
    /\ IsFiniteSet(dropped)
    /\ Cardinality(dropped) + Cardinality(Refusing) <= faults["database"]

\* A set of handlers is finite.
LEMMA HandlersFinite ==
    ASSUME NEW S \in SUBSET Handler
    PROVE  IsFiniteSet(S) /\ Cardinality(S) \in Nat
<1>1. IsFiniteSet(1 .. Prefetch)
  BY FS_Interval, PrefetchAssumption
<1>2. IsFiniteSet(Handler)
  BY <1>1, WorkerAssumption, FS_Product DEF Handler
<1> QED
  BY <1>2, FS_Subset, FS_CardinalityType

\* A subset has no more elements, and one more element counts for one.
LEMMA SmallerSet ==
    ASSUME NEW S, IsFiniteSet(S), NEW T \in SUBSET S
    PROVE  /\ IsFiniteSet(T) /\ Cardinality(T) \in Nat /\ Cardinality(S) \in Nat
           /\ Cardinality(T) <= Cardinality(S)
BY FS_Subset, FS_CardinalityType

LEMMA OneMore ==
    ASSUME NEW S, IsFiniteSet(S), NEW x, NEW T \in SUBSET (S \cup {x})
    PROVE  /\ IsFiniteSet(T) /\ Cardinality(T) \in Nat /\ Cardinality(S) \in Nat
           /\ Cardinality(T) <= Cardinality(S) + 1
<1>1. IsFiniteSet(S \cup {x}) /\ Cardinality(S \cup {x}) \in {Cardinality(S), Cardinality(S) + 1}
  BY FS_AddElement
<1>2. Cardinality(S) \in Nat
  BY FS_CardinalityType
<1> QED
  BY <1>1, <1>2, SmallerSet

\* The scans that some handlers of one worker are busy with, and other handlers
\* of it, are together no more than the prefetch.
LEMMA OneWorker ==
    ASSUME NEW w \in Worker, NEW P \in SUBSET HandlersOf(w), NEW R \in SUBSET HandlersOf(w),
           P \cap R = {}
    PROVE  LET named == {handling[h] : h \in P}
           IN  /\ IsFiniteSet(named) /\ Cardinality(named) \in Nat /\ Cardinality(R) \in Nat
               /\ Cardinality(named) + Cardinality(R) <= Prefetch
<1> DEFINE named == {handling[h] : h \in P}
           f == [h \in P |-> handling[h]]
<1>1. IsFiniteSet({w}) /\ Cardinality({w}) = 1
  BY FS_Singleton
<1>2. IsFiniteSet(1 .. Prefetch) /\ Cardinality(1 .. Prefetch) = Prefetch
  BY FS_Interval, PrefetchAssumption
<1>3. IsFiniteSet(HandlersOf(w)) /\ Cardinality(HandlersOf(w)) = Prefetch
  <2>1. /\ IsFiniteSet({w} \X (1 .. Prefetch))
        /\ Cardinality({w} \X (1 .. Prefetch)) = Cardinality({w}) * Cardinality(1 .. Prefetch)
    BY <1>1, <1>2, FS_Product
  <2>2. Cardinality({w}) * Cardinality(1 .. Prefetch) = Prefetch
    BY <1>1, <1>2, PrefetchAssumption
  <2> QED
    BY <2>1, <2>2 DEF HandlersOf
<1>4. /\ IsFiniteSet(P) /\ Cardinality(P) \in Nat
      /\ IsFiniteSet(R) /\ Cardinality(R) \in Nat
  BY HandlersOfFinite, FS_CardinalityType
<1>5. Cardinality(P \cup R) = Cardinality(P) + Cardinality(R)
  <2>1. Cardinality(P \cup R) = Cardinality(P) + Cardinality(R) - Cardinality(P \cap R)
    BY <1>4, FS_Union
  <2>2. Cardinality(P \cap R) = 0
    BY FS_EmptySet
  <2> QED
    BY <1>4, <2>1, <2>2
<1>6. Cardinality(P \cup R) <= Prefetch
  <2>1. P \cup R \in SUBSET HandlersOf(w)
    OBVIOUS
  <2> QED
    BY ONLY <1>3, <2>1, FS_Subset
<1>7. f \in Surjection(P, named)
  BY DEF Surjection
<1>8. IsFiniteSet(named) /\ Cardinality(named) <= Cardinality(P)
  BY <1>4, <1>7, FS_Surjection
<1>9. Cardinality(named) \in Nat
  BY <1>8, FS_CardinalityType
<1> HIDE DEF named
<1>10. /\ IsFiniteSet(named) /\ Cardinality(named) \in Nat /\ Cardinality(R) \in Nat
       /\ Cardinality(named) + Cardinality(R) <= Prefetch
  BY <1>4, <1>5, <1>6, <1>8, <1>9, PrefetchAssumption
<1> QED
  BY <1>10 DEF named

LEMMA PaidInit == Init => ScansPaid /\ DropsPaid
<1> SUFFICES ASSUME Init PROVE ScansPaid /\ DropsPaid
  OBVIOUS
<1>1. Doomed = {} /\ Dooming = {} /\ Refusing = {} /\ dropped = {}
  BY DEF Init, Doomed, Dooming, Refusing
<1>2. faults["worker"] = 0 /\ faults["database"] = 0
  BY DEF Init, FaultKind
<1>3. Prefetch * 0 = 0
  BY PrefetchAssumption
<1> QED
  BY <1>1, <1>2, <1>3, FS_EmptySet DEF ScansPaid, DropsPaid

\* What a bound on faults is, whatever fails.
FaultsGrow ==
    /\ faults'["worker"] \in Nat /\ faults'["worker"] >= faults["worker"]
    /\ faults'["database"] \in Nat /\ faults'["database"] >= faults["database"]

LEMMA FaultsCount ==
    ASSUME Typing, NEW kind \in FaultKind, Fault(kind)
    PROVE  /\ FaultsGrow
           /\ faults'[kind] = faults[kind] + 1
           /\ \A k \in FaultKind \ {kind} : faults'[k] = faults[k]
BY DEF Typing, TypeOK, Fault, FaultKind, FaultsGrow

LEMMA FaultsStay == Typing /\ UNCHANGED faults => FaultsGrow
BY DEF Typing, TypeOK, FaultsGrow, FaultKind

\* Nothing to pay for.
LEMMA NothingLost ==
    ASSUME Typing, ScansPaid, FaultsGrow, Doomed' \subseteq Doomed, Dooming' \subseteq Dooming
    PROVE  ScansPaid'
<1>1. /\ IsFiniteSet(Doomed') /\ Cardinality(Doomed') \in Nat /\ Cardinality(Doomed) \in Nat
      /\ Cardinality(Doomed') <= Cardinality(Doomed)
  BY SmallerSet DEF ScansPaid
<1>2. IsFiniteSet(Dooming)
  BY HandlersFinite DEF Dooming
<1>3. /\ Cardinality(Dooming') \in Nat /\ Cardinality(Dooming) \in Nat
      /\ Cardinality(Dooming') <= Cardinality(Dooming)
  BY <1>2, SmallerSet
<1>4. faults["worker"] \in Nat /\ faults["database"] \in Nat
  BY DEF Typing, TypeOK, FaultKind
<1>5. Prefetch * faults'["worker"] >= Prefetch * faults["worker"]
      /\ Prefetch * faults["worker"] \in Nat /\ Prefetch * faults'["worker"] \in Nat
  BY <1>4, PrefetchAssumption DEF FaultsGrow
<1>6. Cardinality(Doomed) + Cardinality(Dooming)
          <= Prefetch * faults["worker"] + faults["database"]
  BY DEF ScansPaid
<1>7. Cardinality(Doomed') + Cardinality(Dooming')
          <= Prefetch * faults'["worker"] + faults'["database"]
  BY <1>1, <1>3, <1>4, <1>5, <1>6 DEF FaultsGrow
<1> QED
  BY <1>1, <1>7 DEF ScansPaid

LEMMA NothingDropped ==
    ASSUME Typing, DropsPaid, FaultsGrow, UNCHANGED dropped, Refusing' \subseteq Refusing
    PROVE  DropsPaid'
<1>1. IsFiniteSet(Refusing)
  BY HandlersFinite DEF Refusing
<1>2. /\ Cardinality(Refusing') \in Nat /\ Cardinality(Refusing) \in Nat
      /\ Cardinality(Refusing') <= Cardinality(Refusing)
  BY <1>1, SmallerSet
<1>3. Cardinality(dropped) \in Nat /\ IsFiniteSet(dropped)
  BY FS_CardinalityType DEF DropsPaid
<1>4. faults["database"] \in Nat
  BY DEF Typing, TypeOK, FaultKind
<1>5. Cardinality(dropped) + Cardinality(Refusing) <= faults["database"]
  BY DEF DropsPaid
<1>6. Cardinality(dropped') + Cardinality(Refusing') <= faults'["database"]
  BY <1>2, <1>3, <1>4, <1>5 DEF FaultsGrow
<1> QED
  BY <1>3, <1>6 DEF DropsPaid

\* A worker stops: what its handlers had claimed is lost, and what they have
\* received may be.
LEMMA WorkerPaid ==
    ASSUME Typing, ScansPaid, NEW w \in Worker, Fault("worker"),
           NEW P \in SUBSET HandlersOf(w), NEW R \in SUBSET HandlersOf(w), P \cap R = {},
           Doomed' \subseteq Doomed \cup {handling[h] : h \in P},
           Dooming' \subseteq Dooming \cup R
    PROVE  ScansPaid'
<1> DEFINE named == {handling[h] : h \in P}
<1>1. /\ IsFiniteSet(named) /\ Cardinality(named) \in Nat /\ Cardinality(R) \in Nat
      /\ Cardinality(named) + Cardinality(R) <= Prefetch
  BY OneWorker
<1> HIDE DEF named
<1>2. Doomed' \in SUBSET (Doomed \cup named)
  BY DEF named
<1>3. IsFiniteSet(Doomed) /\ Cardinality(Doomed) \in Nat
  BY FS_CardinalityType DEF ScansPaid
<1>4. IsFiniteSet(Dooming) /\ Cardinality(Dooming) \in Nat
  BY HandlersFinite DEF Dooming
<1>5. IsFiniteSet(R)
  BY HandlersOfFinite
<1>6. ASSUME NEW S, NEW T, IsFiniteSet(S), IsFiniteSet(T), NEW U \in SUBSET (S \cup T)
      PROVE  /\ IsFiniteSet(U) /\ Cardinality(U) \in Nat
             /\ Cardinality(U) <= Cardinality(S) + Cardinality(T)
  <2>1. /\ IsFiniteSet(S \cup T)
        /\ Cardinality(S \cup T) = Cardinality(S) + Cardinality(T) - Cardinality(S \cap T)
    BY <1>6, FS_Union
  <2>2. S \cap T \in SUBSET S
    OBVIOUS
  <2>3. Cardinality(S \cap T) \in Nat /\ Cardinality(S) \in Nat
    BY <1>6, <2>2, SmallerSet
  <2>4. Cardinality(T) \in Nat
    BY <1>6, FS_CardinalityType
  <2>5. /\ IsFiniteSet(U) /\ Cardinality(U) \in Nat
        /\ Cardinality(U) <= Cardinality(S \cup T)
    BY <1>6, <2>1, SmallerSet
  <2> QED
    BY ONLY <2>1, <2>3, <2>4, <2>5, SMT
<1>7. /\ IsFiniteSet(Doomed') /\ Cardinality(Doomed') \in Nat
      /\ Cardinality(Doomed') <= Cardinality(Doomed) + Cardinality(named)
  BY <1>1, <1>2, <1>3, <1>6
<1>8. /\ Cardinality(Dooming') \in Nat
      /\ Cardinality(Dooming') <= Cardinality(Dooming) + Cardinality(R)
  BY <1>4, <1>5, <1>6
<1>9. /\ faults["worker"] \in Nat /\ faults["database"] \in Nat
      /\ faults'["worker"] = faults["worker"] + 1 /\ faults'["database"] = faults["database"]
  BY FaultsCount DEF Typing, TypeOK, FaultKind
<1>10. Prefetch * faults'["worker"] = Prefetch * faults["worker"] + Prefetch
       /\ Prefetch * faults["worker"] \in Nat
  BY <1>9, PrefetchAssumption
<1>11. Cardinality(Doomed) + Cardinality(Dooming)
           <= Prefetch * faults["worker"] + faults["database"]
  BY DEF ScansPaid
<1>12. Cardinality(Doomed') + Cardinality(Dooming')
           <= Prefetch * faults'["worker"] + faults'["database"]
  <2> DEFINE cost == Prefetch * faults["worker"]
  <2>1. /\ cost \in Nat /\ Prefetch * faults'["worker"] = cost + Prefetch
        /\ Cardinality(Doomed) + Cardinality(Dooming) <= cost + faults["database"]
    BY <1>10, <1>11
  <2> HIDE DEF cost
  <2> QED
    BY <1>1, <1>3, <1>4, <1>7, <1>8, <1>9, <2>1, PrefetchAssumption
<1> QED
  BY <1>7, <1>12 DEF ScansPaid

\* No step of a relay or of the API touches a worker or a scan in progress.
LEMMA PaidUndisturbed ==
    ASSUME Typing, ScansPaid, DropsPaid, FaultsGrow, UNCHANGED <<workerVars, dropped>>,
           \A s \in Scan : status'[s] = "in_progress" => status[s] = "in_progress"
    PROVE  ScansPaid' /\ DropsPaid'
<1>1. Doomed' \subseteq Doomed
  BY DEF Doomed, Processing, workerVars
<1>2. Dooming' \subseteq Dooming /\ Refusing' \subseteq Refusing
  BY DEF Dooming, Refusing, workerVars
<1> QED
  BY <1>1, <1>2, NothingLost, NothingDropped

\* A handler's step pays nothing: what it may lose has been paid for when its
\* worker was stopped or its call failed.
LEMMA HandlerPaid ==
    ASSUME Inv, ScansPaid, DropsPaid, NEW h \in Handler, HandlerStep(h)
    PROVE  ScansPaid' /\ DropsPaid'
<1> USE DEF Inv, Typing, TypeOK, HandlerHasScan
<1>0. Typing
  OBVIOUS
<1>1. UNCHANGED faults
  BY DEF HandlerStep, Claim, ClaimNothing, LookUp, RunChecks, CompleteScan, Ack, Nack
<1>2. FaultsGrow
  BY <1>0, <1>1, FaultsStay
<1>3. CASE Claim(h)
  <2>1. /\ handling[h] \in Scan /\ status' = [status EXCEPT ![handling[h]] = "in_progress"]
        /\ handlerPc[h] = "received" /\ handlerPc' = [handlerPc EXCEPT ![h] = "claimed"]
        /\ UNCHANGED <<handling, workerMode, dropped>>
    BY <1>3 DEF Claim, ClaimRow, brokerVars
  <2>2. Refusing' \subseteq Refusing
    BY <2>1 DEF Refusing
  <2>3. DropsPaid'
    BY <1>0, <1>2, <2>1, <2>2, NothingDropped
  <2>4. Dooming' \subseteq Dooming \ {h}
    BY <2>1 DEF Dooming
  <2>5. Doomed' \subseteq Doomed \cup {handling[h]}
    BY <2>1 DEF Doomed, Processing
  <2>6. CASE workerMode[h[1]] = "up"
    <3>1. Doomed' \subseteq Doomed
      BY <2>1, <2>5, <2>6 DEF Doomed, Processing
    <3> QED
      BY <1>0, <1>2, <2>3, <2>4, <3>1, NothingLost
  <2>7. CASE workerMode[h[1]] = "closing"
    <3>1. h \in Dooming
      BY <2>1, <2>7 DEF Dooming
    <3>2. /\ IsFiniteSet(Doomed') /\ Cardinality(Doomed') \in Nat /\ Cardinality(Doomed) \in Nat
          /\ Cardinality(Doomed') <= Cardinality(Doomed) + 1
      BY <2>5, OneMore DEF ScansPaid
    <3>3. IsFiniteSet(Dooming) /\ Cardinality(Dooming) \in Nat
      BY HandlersFinite DEF Dooming
    <3>4. IsFiniteSet(Dooming \ {h}) /\ Cardinality(Dooming \ {h}) = Cardinality(Dooming) - 1
      BY <3>1, <3>3, FS_RemoveElement
    <3>5. Cardinality(Dooming') \in Nat /\ Cardinality(Dooming') <= Cardinality(Dooming) - 1
      BY <2>4, <3>4, SmallerSet
    <3>6. Cardinality(Doomed') + Cardinality(Dooming') <= Cardinality(Doomed) + Cardinality(Dooming)
      BY <3>2, <3>3, <3>5
    <3>7. /\ faults["worker"] \in Nat /\ faults["database"] \in Nat
          /\ Prefetch * faults["worker"] \in Nat
      BY PrefetchAssumption DEF FaultKind
    <3>8. Cardinality(Doomed) + Cardinality(Dooming)
              <= Prefetch * faults["worker"] + faults["database"]
      BY DEF ScansPaid
    <3>9. Cardinality(Doomed') + Cardinality(Dooming')
              <= Prefetch * faults'["worker"] + faults'["database"]
      <4> DEFINE paid == Prefetch * faults["worker"] + faults["database"]
      <4>1. paid \in Nat
        BY <3>7
      <4> HIDE DEF paid
      <4>2. Cardinality(Doomed) + Cardinality(Dooming) <= paid
        BY <3>8 DEF paid
      <4>3. Cardinality(Doomed') + Cardinality(Dooming') <= paid
        BY ONLY <3>2, <3>3, <3>5, <3>6, <4>1, <4>2, SMT
      <4> QED
        BY <1>1, <4>3 DEF paid
    <3> QED
      BY <2>3, <3>2, <3>9 DEF ScansPaid
  <2> QED
    BY <1>3, <2>6, <2>7, HandlerFacts DEF Claim, Running
<1>4. CASE ClaimNothing(h) \/ LookUp(h) \/ RunChecks(h)
  <2>1. /\ UNCHANGED <<status, handling, workerMode, dropped>>
        /\ \E pc \in {"unclaimed", "acking", "nacking", "checked"} :
              handlerPc' = [handlerPc EXCEPT ![h] = pc]
        /\ Processing(h) => handlerPc'[h] = "checked"
        /\ handlerPc[h] # "idle"
    BY <1>4 DEF ClaimNothing, LookUp, RunChecks, dbVars, brokerVars, Processing
  <2>2. handlerPc'[h] # "nacking"
    <3>1. status[handling[h]] # "absent"
      BY <2>1 DEF RelayInv, MessagesHaveScan
    <3> QED
      BY <1>4, <3>1 DEF ClaimNothing, LookUp, RunChecks
  <2>3. Doomed' \subseteq Doomed
    <3>1. \A g \in Handler : Processing(g) => Processing(g)'
      BY <2>1 DEF Processing
    <3> QED
      BY <2>1, <3>1 DEF Doomed
  <2>4. Dooming' \subseteq Dooming /\ Refusing' \subseteq Refusing
    BY <2>1, <2>2 DEF Dooming, Refusing
  <2> QED
    BY <1>0, <1>2, <2>1, <2>3, <2>4, NothingLost, NothingDropped
<1>5. CASE CompleteScan(h)
  <2>1. /\ handling[h] \in Scan /\ status' = [status EXCEPT ![handling[h]] = "completed"]
        /\ handlerPc' = [handlerPc EXCEPT ![h] = "acking"]
        /\ UNCHANGED <<handling, workerMode, dropped>>
    BY <1>5 DEF CompleteScan, StoreResult, brokerVars
  <2>2. Doomed' \subseteq Doomed
    BY <2>1 DEF Doomed, Processing
  <2>3. Dooming' \subseteq Dooming /\ Refusing' \subseteq Refusing
    BY <2>1 DEF Dooming, Refusing
  <2> QED
    BY <1>0, <1>2, <2>1, <2>2, <2>3, NothingLost, NothingDropped
<1>6. CASE Ack(h) \/ Nack(h)
  <2>1. /\ UNCHANGED <<status, workerMode>>
        /\ handlerPc[h] \in {"acking", "nacking"}
        /\ handlerPc' = [handlerPc EXCEPT ![h] = "idle"]
        /\ handling' = [handling EXCEPT ![h] = NoScan]
    BY <1>6 DEF Ack, Nack, Release, dbVars
  <2>2. Doomed' \subseteq Doomed
    BY <2>1 DEF Doomed, Processing
  <2>3. Dooming' \subseteq Dooming
    BY <2>1 DEF Dooming
  <2>4. ScansPaid'
    BY <1>0, <1>2, <2>2, <2>3, NothingLost
  <2>5. CASE Ack(h)
    <3>1. Refusing' \subseteq Refusing /\ UNCHANGED dropped
      BY <2>1, <2>5 DEF Refusing, Ack, brokerVars
    <3> QED
      BY <1>0, <1>2, <2>4, <3>1, NothingDropped
  <2>6. CASE Nack(h)
    <3>1. /\ h \in Refusing /\ Refusing' \subseteq Refusing \ {h}
          /\ dropped' = dropped \cup {handling[h]}
      BY <2>1, <2>6 DEF Refusing, Nack
    <3>2. /\ IsFiniteSet(dropped') /\ Cardinality(dropped') \in Nat /\ Cardinality(dropped) \in Nat
          /\ Cardinality(dropped') <= Cardinality(dropped) + 1
      <4>1. IsFiniteSet(dropped)
        BY DEF DropsPaid
      <4>2. dropped' \in SUBSET (dropped \cup {handling[h]})
        BY <3>1
      <4> QED
        BY ONLY <4>1, <4>2, OneMore
    <3>3. IsFiniteSet(Refusing) /\ Cardinality(Refusing) \in Nat
      BY HandlersFinite DEF Refusing
    <3>4. IsFiniteSet(Refusing \ {h}) /\ Cardinality(Refusing \ {h}) = Cardinality(Refusing) - 1
      BY <3>1, <3>3, FS_RemoveElement
    <3>5. Cardinality(Refusing') \in Nat /\ Cardinality(Refusing') <= Cardinality(Refusing) - 1
      BY <3>1, <3>4, SmallerSet
    <3>6. faults["database"] \in Nat /\ Cardinality(dropped) + Cardinality(Refusing) <= faults["database"]
      BY DEF DropsPaid, FaultKind
    <3>7. Cardinality(dropped') + Cardinality(Refusing') <= faults["database"]
      BY ONLY <3>2, <3>3, <3>5, <3>6, SMT
    <3> QED
      BY <1>1, <2>4, <3>2, <3>7 DEF DropsPaid
  <2> QED
    BY <1>6, <2>5, <2>6
<1> QED
  BY <1>3, <1>4, <1>5, <1>6 DEF HandlerStep

\* A failed database call pays for the scan its handler served, in progress or
\* about to be dropped.
LEMMA FailedCallPaid ==
    ASSUME Inv, ScansPaid, DropsPaid, NEW h \in Handler, HandlerDbFails(h)
    PROVE  ScansPaid' /\ DropsPaid'
<1> USE DEF Inv, Typing, TypeOK, HandlerHasScan
<1>1. /\ handlerPc[h] \in {"received", "unclaimed", "checked"}
      /\ handling[h] \in Scan
      /\ handlerPc' = [handlerPc EXCEPT ![h] = "nacking"]
      /\ UNCHANGED <<handling, workerMode, dropped>>
      /\ \A s \in Scan : status'[s] = "in_progress" => status[s] = "in_progress" \/ s = handling[h]
  BY DEF HandlerDbFails, ClaimRow, StoreResult, brokerVars
<1>2. /\ faults["worker"] \in Nat /\ faults["database"] \in Nat
      /\ faults'["worker"] = faults["worker"]
      /\ faults'["database"] = faults["database"] + 1
  <2>1. Typing /\ Fault("database") /\ "database" \in FaultKind /\ "worker" \in FaultKind \ {"database"}
    BY DEF HandlerDbFails, FaultKind
  <2>2. faults'["database"] = faults["database"] + 1 /\ faults'["worker"] = faults["worker"]
    BY <2>1, FaultsCount
  <2> QED
    BY <2>1, <2>2
<1>3. Doomed' \in SUBSET (Doomed \cup {handling[h]})
  BY <1>1 DEF Doomed, Processing
<1>4. Dooming' \in SUBSET Dooming
  BY <1>1 DEF Dooming
<1>5. Refusing' \in SUBSET (Refusing \cup {h})
  BY <1>1 DEF Refusing
<1>6. /\ IsFiniteSet(Dooming) /\ IsFiniteSet(Refusing)
      /\ Cardinality(Dooming) \in Nat /\ Cardinality(Refusing) \in Nat
  BY HandlersFinite DEF Dooming, Refusing
<1>7. ScansPaid'
  <2>1. IsFiniteSet(Doomed)
    BY DEF ScansPaid
  <2>2. /\ IsFiniteSet(Doomed') /\ Cardinality(Doomed') \in Nat /\ Cardinality(Doomed) \in Nat
        /\ Cardinality(Doomed') <= Cardinality(Doomed) + 1
    BY ONLY <1>3, <2>1, OneMore
  <2>3. Cardinality(Dooming') \in Nat /\ Cardinality(Dooming') <= Cardinality(Dooming)
    BY ONLY <1>4, <1>6, SmallerSet
  <2> DEFINE crashes == Prefetch * faults["worker"]
  <2>4. crashes \in Nat
    BY <1>2, PrefetchAssumption
  <2>5. Prefetch * faults'["worker"] = crashes
    BY <1>2
  <2>6. Cardinality(Doomed) + Cardinality(Dooming) <= crashes + faults["database"]
    BY DEF ScansPaid
  <2> HIDE DEF crashes
  <2>7. Cardinality(Doomed') + Cardinality(Dooming') <= crashes + (faults["database"] + 1)
    BY ONLY <1>2, <1>6, <2>2, <2>3, <2>4, <2>6, SMT
  <2> QED
    BY <1>2, <2>2, <2>5, <2>7 DEF ScansPaid
<1>8. DropsPaid'
  <2>1. /\ IsFiniteSet(dropped) /\ Cardinality(dropped) \in Nat
        /\ Cardinality(dropped) + Cardinality(Refusing) <= faults["database"]
    BY FS_CardinalityType DEF DropsPaid
  <2>2. /\ Cardinality(Refusing') \in Nat
        /\ Cardinality(Refusing') <= Cardinality(Refusing) + 1
    BY ONLY <1>5, <1>6, OneMore
  <2>3. Cardinality(dropped) + Cardinality(Refusing') <= faults["database"] + 1
    BY ONLY <1>2, <1>6, <2>1, <2>2, SMT
  <2> QED
    BY <1>1, <1>2, <2>1, <2>3 DEF DropsPaid
<1> QED
  BY <1>7, <1>8

\* Every step of the pipeline keeps the accounts.
LEMMA PaidPreserved == Inv /\ ScansPaid /\ DropsPaid /\ [Next]_vars => (ScansPaid /\ DropsPaid)'
<1> SUFFICES ASSUME Inv, ScansPaid, DropsPaid, [Next]_vars PROVE ScansPaid' /\ DropsPaid'
  BY DEF ScansPaid, DropsPaid
<1> USE DEF Inv, Typing, TypeOK
<1>0. Typing
  OBVIOUS
<1>1. ASSUME NEW kind \in FaultKind, UNCHANGED faults \/ Fault(kind) PROVE FaultsGrow
  BY <1>0, <1>1, FaultsCount, FaultsStay
<1>2. ASSUME UNCHANGED <<status, workerVars, dropped, faults>> PROVE ScansPaid' /\ DropsPaid'
  BY <1>0, <1>2, FaultsStay, PaidUndisturbed
<1>3. ASSUME NEW s \in Scan, Submit(s) PROVE ScansPaid' /\ DropsPaid'
  <2>1. /\ UNCHANGED <<workerVars, dropped, faults>>
        /\ \A t \in Scan : status'[t] = "in_progress" => status[t] = "in_progress"
    BY <1>3 DEF Submit, brokerVars
  <2> QED
    BY <1>0, <2>1, FaultsStay, PaidUndisturbed
<1>4. ASSUME NEW r \in Relay, RelayStep(r) PROVE ScansPaid' /\ DropsPaid'
  BY <1>2, <1>4 DEF RelayStep, Drain, Publish, Land, Confirm, Commit, RelayRestart, dbVars, brokerVars
<1>5. ASSUME NEW r \in Relay, PublishFails(r) \/ RelayCrash(r) \/ DrainDbFails(r)
      PROVE  ScansPaid' /\ DropsPaid'
  <2>1. UNCHANGED <<status, workerVars, dropped>>
    BY <1>5 DEF PublishFails, RelayCrash, DrainDbFails, dbVars, brokerVars
  <2>2. FaultsGrow
    BY <1>1, <1>5 DEF PublishFails, RelayCrash, DrainDbFails, FaultKind
  <2> QED
    BY <1>0, <2>1, <2>2, PaidUndisturbed
<1>6. ASSUME NEW s \in Scan, LandLate(s) PROVE ScansPaid' /\ DropsPaid'
  BY <1>2, <1>6 DEF LandLate, dbVars
<1>7. ASSUME NEW h \in Handler, NEW s \in Scan, Deliver(h, s) PROVE ScansPaid' /\ DropsPaid'
  <2>1. /\ workerMode[h[1]] = "up" /\ handlerPc[h] = "idle"
        /\ handlerPc' = [handlerPc EXCEPT ![h] = "received"]
        /\ handling' = [handling EXCEPT ![h] = s]
        /\ UNCHANGED <<status, workerMode, dropped, faults>>
    BY <1>7 DEF Deliver, dbVars
  <2>2. Doomed' \subseteq Doomed
    BY <2>1 DEF Doomed, Processing
  <2>3. Dooming' \subseteq Dooming /\ Refusing' \subseteq Refusing
    BY <2>1 DEF Dooming, Refusing
  <2> QED
    BY <1>0, <2>1, <2>2, <2>3, FaultsStay, NothingLost, NothingDropped
<1>8. ASSUME NEW h \in Handler, HandlerStep(h) \/ HandlerDbFails(h) PROVE ScansPaid' /\ DropsPaid'
  BY <1>8, HandlerPaid, FailedCallPaid
<1>9. ASSUME NEW w \in Worker, WorkerExit(w) PROVE ScansPaid' /\ DropsPaid'
  <2>1. /\ workerMode[w] = "closing" /\ workerMode' = [workerMode EXCEPT ![w] = "down"]
        /\ \A h \in Handler : /\ h[1] = w => handlerPc'[h] = "idle"
                              /\ h[1] # w => /\ handlerPc'[h] = handlerPc[h]
                                             /\ handling'[h] = handling[h]
        /\ UNCHANGED <<status, dropped, faults>>
    BY <1>9, HandlerFacts DEF WorkerExit, ForgetHandlers, dbVars, brokerVars
  <2>2. Doomed' \subseteq Doomed
    BY <2>1, HandlerFacts DEF Doomed, Processing
  <2>3. Dooming' \subseteq Dooming /\ Refusing' \subseteq Refusing
    BY <2>1, HandlerFacts DEF Dooming, Refusing
  <2> QED
    BY <1>0, <2>1, <2>2, <2>3, FaultsStay, NothingLost, NothingDropped
<1>10. ASSUME NEW w \in Worker, WorkerRestart(w) PROVE ScansPaid' /\ DropsPaid'
  <2>1. /\ workerMode[w] = "down" /\ workerMode' = [workerMode EXCEPT ![w] = "up"]
        /\ UNCHANGED <<status, dropped, handlerPc, handling, faults>>
    BY <1>10 DEF WorkerRestart, dbVars, brokerVars
  <2>2. Doomed' \subseteq Doomed
    BY <2>1, HandlerFacts DEF Doomed, Processing
  <2>3. Dooming' \subseteq Dooming /\ Refusing' \subseteq Refusing
    BY <2>1, HandlerFacts DEF Dooming, Refusing
  <2> QED
    BY <1>0, <2>1, <2>2, <2>3, FaultsStay, NothingLost, NothingDropped
<1>11. ASSUME NEW w \in Worker, WorkerCrash(w) \/ WorkerStop(w) PROVE ScansPaid' /\ DropsPaid'
  <2> DEFINE claimed == {h \in HandlersOf(w) : Processing(h)}
             received == {h \in HandlersOf(w) : handlerPc[h] = "received"}
  <2>1. /\ workerMode' \in [Worker -> {"up", "closing", "down"}]
        /\ \A v \in Worker : v # w => workerMode'[v] = workerMode[v]
        /\ workerMode[w] = "up" /\ Fault("worker")
        /\ \A h \in Handler :
              /\ handlerPc'[h] \in {handlerPc[h], "idle"}
              /\ h[1] # w => handlerPc'[h] = handlerPc[h] /\ handling'[h] = handling[h]
        /\ UNCHANGED <<status, dropped>>
    BY <1>11, HandlerFacts DEF WorkerCrash, WorkerStop, ForgetHandlers, dbVars
  <2>2. FaultsGrow
    BY <1>1, <2>1 DEF FaultKind
  <2>3. Refusing' \subseteq Refusing
    BY <2>1 DEF Refusing
  <2>4. DropsPaid'
    BY <1>0, <2>1, <2>2, <2>3, NothingDropped
  <2>5. Doomed' \subseteq Doomed \cup {handling[h] : h \in claimed}
    <3>1. SUFFICES ASSUME NEW s \in Doomed', s \notin Doomed
                   PROVE  \E h \in claimed : handling[h] = s
      OBVIOUS
    <3>2. s \in Scan /\ status[s] = "in_progress"
      BY <2>1, <3>1 DEF Doomed
    <3>3. PICK h \in Handler : workerMode[h[1]] = "up" /\ Processing(h) /\ handling[h] = s
      BY <3>1, <3>2 DEF Doomed
    <3>4. h[1] = w
      BY <2>1, <3>1, <3>3, HandlerFacts DEF Doomed, Processing
    <3> QED
      BY <3>3, <3>4, HandlerFacts
  <2>6. Dooming' \subseteq Dooming \cup received
    BY <2>1, HandlerFacts DEF Dooming
  <2>7. claimed \cap received = {}
    BY DEF Processing
  <2>8. claimed \in SUBSET HandlersOf(w) /\ received \in SUBSET HandlersOf(w)
    OBVIOUS
  <2> HIDE DEF claimed, received
  <2>9. ScansPaid'
    BY <1>0, <2>1, <2>5, <2>6, <2>7, <2>8, WorkerPaid
  <2> QED
    BY <2>4, <2>9
<1>12. CASE UNCHANGED vars \/ \E r \in Relay : PollEmpty(r)
  BY <1>2, <1>12 DEF vars, PollEmpty, workerVars
<1> QED
  BY <1>3, <1>4, <1>5, <1>6, <1>7, <1>8, <1>9, <1>10, <1>11, <1>12 DEF Next, SomeDelivery, WorkerStep

\* A worker that dies leaves at most its Prefetch scans behind, a failed
\* database call at most the one it served, and relay faults none; a message is
\* dropped only after a database call failed on it.
THEOREM DamageBounded == Spec => []BlastRadius
<1>1. Inv /\ ScansPaid /\ DropsPaid => BlastRadius
  <2> SUFFICES ASSUME Inv, ScansPaid, DropsPaid PROVE BlastRadius
    OBVIOUS
  <2> DEFINE ownerless == {s \in Scan : Ownerless(s)}
             cost == Prefetch * faults["worker"] + faults["database"]
  <2>1. ownerless \in SUBSET Doomed
    BY DEF Ownerless, Doomed
  <2>2. Cardinality(ownerless) \in Nat /\ Cardinality(Doomed) \in Nat
        /\ Cardinality(ownerless) <= Cardinality(Doomed)
    <3>1. IsFiniteSet(Doomed)
      BY DEF ScansPaid
    <3> HIDE DEF ownerless
    <3> QED
      BY ONLY <2>1, <3>1, SmallerSet
  <2>3. Cardinality(Dooming) \in Nat /\ Cardinality(Refusing) \in Nat
    BY HandlersFinite DEF Dooming, Refusing
  <2>4. faults["worker"] \in Nat /\ faults["database"] \in Nat
    BY DEF Inv, Typing, TypeOK, FaultKind
  <2>5. cost \in Nat /\ Cardinality(Doomed) + Cardinality(Dooming) <= cost
    BY <2>4, PrefetchAssumption DEF ScansPaid
  <2>6. Cardinality(dropped) \in Nat /\ Cardinality(dropped) + Cardinality(Refusing) <= faults["database"]
    BY FS_CardinalityType DEF DropsPaid
  <2>7. Cardinality(dropped) <= faults["database"]
    BY ONLY <2>3, <2>4, <2>6, SMT
  <2> HIDE DEF ownerless, cost
  <2>8. Cardinality(ownerless) <= cost
    BY ONLY <2>2, <2>3, <2>5, SMT
  <2> QED
    BY <2>7, <2>8 DEF BlastRadius, ownerless, cost
<1> QED
  BY <1>1, PaidInit, PaidPreserved, InvInvariant, PTL DEF Spec

-----------------------------------------------------------------------------
(* The safety half of EveryScanSettles: somebody always has the scan.      *)

\* A relay that waits for a confirm has a row it waits for, and a dead process
\* runs no handler.
Poised ==
    /\ \A r \in Relay : relayPc[r] = "awaiting" => left[r] # {}
    /\ \A h \in Handler : ~ Running(h) => handlerPc[h] = "idle"

\* A batch is published in the order of the outbox ids: it has a first row.
LEMMA FirstRow ==
    ASSUME NEW S \in SUBSET Scan, S # {}
    PROVE  \E s \in S : IsNext(s, S)
<1>1. S \subseteq Nat
  BY ScanAssumption
<1>2. IsWellFoundedOn({pair \in Nat \X Nat : pair[1] < pair[2]}, Nat)
  BY NatLessThanWellFounded DEF OpToRel
<1> DEFINE Less == {pair \in Nat \X Nat : pair[1] < pair[2]}
<1>3. PICK s \in S : \A t \in S : ~ (<<t, s>> \in Less)
  <2> HIDE DEF Less
  <2> QED
    BY ONLY <1>1, <1>2, S # {}, WFMin DEF Less
<1>4. ASSUME NEW t \in S PROVE s <= t
  <2>1. s \in Nat /\ t \in Nat
    BY <1>1
  <2>2. t < s => <<t, s>> \in Less
    BY ONLY <2>1, SMT
  <2>3. ~ (t < s)
    BY <1>3, <2>2
  <2> QED
    BY <2>1, <2>3
<1> QED
  BY <1>4 DEF IsNext

\* Initially nobody waits and nobody is dead.
LEMMA PoisedInit == Init => Poised
BY HandlerFacts DEF Init, Poised, Running

\* A step of a relay or of its faults keeps its waiting for a row.
LEMMA PoisedStep == Typing /\ Poised /\ [Next]_vars => Poised'
<1> SUFFICES ASSUME Typing, Poised, [Next]_vars PROVE Poised'
  OBVIOUS
<1> USE HandlerFacts DEF Poised, Running, Typing, TypeOK
<1>1. CASE UNCHANGED <<relayPc, left, workerMode, handlerPc>>
  BY <1>1
<1>2. ASSUME NEW r \in Relay, RelayStep(r) PROVE Poised'
  BY <1>2 DEF RelayStep, Drain, Publish, Land, Confirm, Commit, RelayRestart, workerVars
<1>3. ASSUME NEW r \in Relay, PublishFails(r) \/ RelayCrash(r) \/ DrainDbFails(r) PROVE Poised'
  BY <1>3 DEF PublishFails, RelayCrash, DrainDbFails, Rollback, workerVars
<1>4. ASSUME NEW h \in Handler, NEW s \in Scan, Deliver(h, s) PROVE Poised'
  BY <1>4 DEF Deliver, relayVars
<1>5. ASSUME NEW h \in Handler, HandlerStep(h) PROVE Poised'
  BY <1>5 DEF HandlerStep, Claim, ClaimNothing, LookUp, RunChecks, CompleteScan, Ack, Nack,
              Release, relayVars
<1>6. ASSUME NEW h \in Handler, HandlerDbFails(h) PROVE Poised'
  BY <1>6 DEF HandlerDbFails, relayVars
<1>7. ASSUME NEW w \in Worker, WorkerStep(w) \/ WorkerCrash(w) \/ WorkerStop(w) PROVE Poised'
  BY <1>7 DEF WorkerStep, WorkerExit, WorkerRestart, WorkerCrash, WorkerStop, ForgetHandlers,
              relayVars
<1>8. CASE \/ \E s \in Scan : Submit(s) \/ LandLate(s)
           \/ \E r \in Relay : PollEmpty(r)
           \/ UNCHANGED vars
  BY <1>1, <1>8 DEF Submit, LandLate, PollEmpty, relayVars, workerVars, vars
<1> QED
  BY <1>2, <1>3, <1>4, <1>5, <1>6, <1>7, <1>8 DEF Next, SomeDelivery

\* A relay goes on, unless it is idle and has nothing to publish.
LEMMA RelaysGoOn ==
    ASSUME Inv, Poised, NEW r \in Relay, relayPc[r] = "idle" => Drainable # {}
    PROVE  RelayCanStep(r)
<1>1. ASSUME relayPc[r] = "awaiting" PROVE \E s \in Scan : IsNext(s, left[r])
  BY <1>1, FirstRow DEF Poised, Inv, Typing, TypeOK
<1> QED
  BY <1>1 DEF RelayCanStep, Inv, Typing, TypeOK

\* A busy handler goes on, unless its process is exiting and it has only to
\* settle a message that is no longer its own.
LEMMA HandlersGoOn ==
    ASSUME Inv, Poised, NEW h \in Handler, handlerPc[h] # "idle",
           workerMode[h[1]] = "up" \/ handlerPc[h] \notin {"acking", "nacking"}
    PROVE  HandlerCanStep(h)
<1>1. Running(h)
  BY DEF Poised
<1>2. ASSUME handlerPc[h] = "checked" PROVE checkRows[handling[h]] = NoResult
  BY <1>2 DEF Inv, Typing, HandlerHasScan, WorkerInv, ClaimsHold, ResultsWithStatus, Processing
<1> QED
  BY <1>1, <1>2 DEF HandlerCanStep, Inv, Typing, TypeOK

\* Every worker takes another message, now or when the handlers it has are done.
LEMMA WorkersTakeMore ==
    ASSUME Inv, Poised, NEW w \in Worker
    PROVE  WorkerTakesMore(w)
<1> DEFINE h == <<w, 1>>
<1>1. h \in HandlersOf(w) /\ h \in Handler /\ h[1] = w
  BY PrefetchAssumption DEF HandlersOf, Handler
<1> HIDE DEF h
<1> QED
  BY <1>1, HandlersGoOn DEF WorkerTakesMore

\* What was dropped or left without an owner is paid for by a fault.
LEMMA LossesPaid ==
    ASSUME Inv, ScansPaid, DropsPaid, NEW s \in Scan
    PROVE  /\ Ownerless(s) => faults["worker"] + faults["database"] > 0
           /\ s \in dropped => faults["database"] > 0
<1>1. faults["worker"] \in Nat /\ faults["database"] \in Nat
  BY DEF Inv, Typing, TypeOK, FaultKind
<1>2. Cardinality(Dooming) \in Nat /\ Cardinality(Refusing) \in Nat
  BY HandlersFinite DEF Dooming, Refusing
<1>3. ASSUME Ownerless(s) PROVE faults["worker"] + faults["database"] > 0
  <2>1. s \in Doomed
    BY <1>3 DEF Ownerless, Doomed
  <2>2. Cardinality(Doomed) \in Nat /\ Cardinality(Doomed) # 0
    BY <2>1, FS_CardinalityType, FS_EmptySet DEF ScansPaid
  <2>3. Prefetch * 0 = 0
    BY PrefetchAssumption
  <2>4. ~ (faults["worker"] = 0 /\ faults["database"] = 0)
    BY <1>2, <2>2, <2>3 DEF ScansPaid
  <2> QED
    BY <1>1, <2>4
<1>4. ASSUME s \in dropped PROVE faults["database"] > 0
  <2>1. Cardinality(dropped) \in Nat /\ Cardinality(dropped) # 0
    BY <1>4, FS_CardinalityType, FS_EmptySet DEF DropsPaid
  <2> QED
    BY <1>1, <1>2, <2>1 DEF DropsPaid
<1> QED
  BY <1>3, <1>4

\* However many scans, processes and faults there are: a scan that is accepted
\* and neither completed nor lost is in the hands of somebody who can go on.
THEOREM SomebodyHasIt == Spec => []NeverStranded
<1>1. ASSUME Inv, Poised, Delivered, ScansPaid, DropsPaid PROVE NeverStranded
  <2> SUFFICES ASSUME NEW s \in Scan, status[s] \in {"pending", "in_progress"}, ~ Lost(s)
               PROVE  WithRelay(s) \/ WithQueue(s) \/ WithHandler(s)
    BY DEF NeverStranded
  <2>1. ~ Ownerless(s) /\ s \notin dropped
    BY <1>1, LossesPaid DEF Lost
  <2>2. CASE status[s] = "in_progress"
    <3>1. PICK h \in Handler : Processing(h) /\ handling[h] = s
      BY <2>1, <2>2 DEF Ownerless
    <3>2. HandlerCanStep(h)
      BY <1>1, <3>1, HandlersGoOn DEF Processing
    <3> QED
      BY <3>1, <3>2 DEF WithHandler
  <2>3. CASE outbox[s] = "unpublished"
    <3>1. CASE s \in Locked
      <4>1. PICK r \in Relay : s \in batch[r]
        BY <3>1 DEF Locked
      <4>2. RelayCanStep(r)
        BY <1>1, <4>1, RelaysGoOn DEF Inv, RelayInv, BatchesUnpublished
      <4> QED
        BY <2>3, <4>1, <4>2 DEF WithRelay
    <3>2. CASE s \notin Locked
      <4>1. PICK r \in Relay : TRUE
        BY DeployedAssumption
      <4>2. RelayCanStep(r)
        BY <1>1, <2>3, <3>2, RelaysGoOn DEF Drainable
      <4> QED
        BY <2>3, <3>2, <4>2 DEF WithRelay
    <3> QED
      BY <3>1, <3>2
  <2>4. CASE status[s] = "pending" /\ outbox[s] = "published"
    <3>1. HasMessage(s)
      BY <1>1, <2>4 DEF Delivered, Confirmed
    <3>2. CASE queue[s] > 0
      <4>1. PICK w \in Worker : TRUE
        BY DeployedAssumption
      <4> QED
        BY <1>1, <3>2, <4>1, WorkersTakeMore DEF WithQueue
    <3>3. ASSUME NEW h \in Handler, Attached(h), handling[h] = s PROVE WithHandler(s)
      <4>1. HandlerCanStep(h)
        BY <1>1, <3>3, HandlersGoOn DEF Attached
      <4> QED
        BY <3>3, <4>1 DEF WithHandler
    <3> QED
      BY <2>1, <3>1, <3>2, <3>3 DEF HasMessage
  <2> QED
    BY <1>1, <2>2, <2>3, <2>4 DEF Inv, Typing, TypeOK, RelayInv, OutboxWithScan
<1>2. Spec => []Poised
  BY PoisedInit, PoisedStep, TypeInit, TypeStep, PTL DEF Spec
<1>3. Spec => [](ScansPaid /\ DropsPaid)
  BY PaidInit, PaidPreserved, InvInvariant, PTL DEF Spec
<1> QED
  BY <1>1, <1>2, <1>3, AlwaysDelivered, InvInvariant, PTL

-----------------------------------------------------------------------------
(* Refinement.                                                             *)

\* What ReadScan lets happen to its rows is what the pipeline does to them: its
\* submissions, claims and completions, in one transaction each, and no more.
THEOREM PipelineDrivesReadScan == Spec => DrivesReadScan
<1>1. Init => Rows!Init
  BY DEF Init, Rows!Init, NoRequests
<1>2. Inv /\ [Next]_vars => [Rows!Next]_(Rows!vars)
  <2> SUFFICES ASSUME Inv, [Next]_vars PROVE Rows!Next \/ UNCHANGED <<status, verdict, checkRows>>
    BY DEF Rows!vars, NoRequests
  <2> USE DEF Inv, Typing, TypeOK
  <2>1. ASSUME NEW s \in Scan, Submit(s) PROVE Rows!Next
    BY <2>1 DEF Submit, Rows!Next, Rows!Accept, NoRequests
  <2>2. ASSUME NEW s \in Scan, Claimable(s), ClaimRow(s), UNCHANGED <<verdict, checkRows>>
        PROVE  Rows!Next
    BY <2>2 DEF Claimable, ClaimRow, Rows!Next, Rows!Start, NoRequests
  <2>3. ASSUME NEW h \in Handler, handlerPc[h] = "checked", StoreResult(handling[h], found[h])
        PROVE  Rows!Next
    <3>1. /\ handling[h] \in Scan
          /\ found[h] \in Result
          /\ status[handling[h]] = "in_progress"
      BY <2>3 DEF HandlerHasScan, WorkerInv, ClaimsHold, Processing
    <3> QED
      BY <2>3, <3>1 DEF StoreResult, Rows!Next, Rows!Finish, NoRequests
  <2>4. ASSUME NEW h \in Handler, HandlerStep(h) \/ HandlerDbFails(h)
        PROVE  Rows!Next \/ UNCHANGED <<status, verdict, checkRows>>
    <3>1. handlerPc[h] # "idle" => handling[h] \in Scan
      BY DEF HandlerHasScan
    <3>2. CASE Claim(h)
      BY <2>2, <3>1, <3>2 DEF Claim
    <3>3. CASE CompleteScan(h)
      BY <2>3, <3>3 DEF CompleteScan
    <3>4. CASE ClaimNothing(h) \/ LookUp(h) \/ RunChecks(h) \/ Ack(h) \/ Nack(h)
      BY <3>4 DEF ClaimNothing, LookUp, RunChecks, Ack, Nack, dbVars
    <3>5. CASE HandlerDbFails(h)
      BY <2>2, <2>3, <3>1, <3>5 DEF HandlerDbFails
    <3> QED
      BY <2>4, <3>2, <3>3, <3>4, <3>5 DEF HandlerStep
  <2>5. CASE \E r \in Relay : RelayStep(r) \/ PollEmpty(r) \/ PublishFails(r) \/ RelayCrash(r)
                              \/ DrainDbFails(r)
    BY <2>5 DEF RelayStep, Drain, Publish, Land, Confirm, Commit, RelayRestart, PollEmpty,
                PublishFails, RelayCrash, DrainDbFails, dbVars, vars
  <2>6. CASE \/ \E t \in Scan : LandLate(t)
             \/ \E h \in Handler, t \in Scan : Deliver(h, t)
             \/ \E w \in Worker : WorkerStep(w) \/ WorkerCrash(w) \/ WorkerStop(w)
             \/ UNCHANGED vars
    BY <2>6 DEF LandLate, Deliver, WorkerStep, WorkerExit, WorkerRestart,
                WorkerCrash, WorkerStop, dbVars, vars
  <2> QED
    BY <2>1, <2>4, <2>5, <2>6 DEF Next, SomeDelivery
<1> QED
  BY <1>1, <1>2, InvInvariant, PTL DEF Spec, DrivesReadScan, Rows!Spec

\* Every step of the pipeline is a step of ScanLifecycle, or changes neither
\* the status nor the result of any scan.
THEOREM PipelineImplementsLifecycle == Spec => ImplementsLifecycle
<1>1. Rows!Init => Lifecycle!Init
  BY DEF Rows!Init, Lifecycle!Init
<1>2. ASSUME [Rows!Next]_(Rows!vars) PROVE [Lifecycle!Next]_(Lifecycle!vars)
  <2>1. CASE UNCHANGED Rows!vars
    BY <2>1 DEF Rows!vars, Lifecycle!vars
  <2>2. ASSUME NEW s \in Scan, Rows!Accept(s) \/ Rows!Start(s) \/ \E v \in Result : Rows!Finish(s, v)
        PROVE  Lifecycle!Next
    BY <2>2 DEF Rows!Accept, Rows!Start, Rows!Finish,
                Lifecycle!Next, Lifecycle!Accept, Lifecycle!Start, Lifecycle!Finish
  <2> QED
    BY <1>2, <2>1, <2>2 DEF Rows!Next
<1> QED
  BY <1>1, <1>2, PipelineDrivesReadScan, PTL
     DEF DrivesReadScan, Rows!Spec, ImplementsLifecycle, Lifecycle!Spec
=============================================================================
