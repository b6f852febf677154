----------------------------- MODULE ScanConsumer -----------------------------
(***************************************************************************)
(* What the worker does with a message by its content. The queue may hold  *)
(* anything: bodies that are not JSON, not an envelope, not a              *)
(* ScanRequested payload, or that name a scan nobody knows, besides        *)
(* repeated events of real scans. A body that is not JSON throws outside   *)
(* the try of onMessage; nobody awaits the promise, and the worker exits   *)
(* with all the deliveries it holds.                                       *)
(*                                                                         *)
(* Here the database never fails and workers die of their messages only;   *)
(* ScanPipeline has those failures, for messages the relay has published.  *)
(***************************************************************************)
EXTENDS Integers, FiniteSets

CONSTANTS
    Message,     \* messages, numbered in the order the queue got them
    Scan,        \* scan ids a payload may name
    Known,       \* those that have a row in the scan table
    Worker,
    Prefetch     \* WORKER_PREFETCH

ASSUME MessageAssumption == Message \subseteq Nat /\ IsFiniteSet(Message)
ASSUME KnownAssumption == Known \subseteq Scan
ASSUME PrefetchAssumption == Prefetch \in Nat \ {0}

Malformed == {"not_json", "not_envelope", "not_payload"}

ASSUME ScanAssumption == Scan \cap Malformed = {}

NoWorker == "none"

ASSUME WorkerAssumption == NoWorker \notin Worker

-----------------------------------------------------------------------------
VARIABLES
    body,     \* what the message turns out to be; never changes
    where,    \* of a message: unsent, ready, held, acked, discarded
    holder,   \* the worker whose channel holds it unacknowledged
    pc,       \* how far that worker's onMessage is with it
    alive,    \* workers whose process runs
    status    \* scan.status

vars == <<body, where, holder, pc, alive, status>>

TypeOK ==
    /\ body \in [Message -> Malformed \cup Scan]
    /\ where \in [Message -> {"unsent", "ready", "held", "acked", "discarded"}]
    /\ holder \in [Message -> Worker \cup {NoWorker}]
    /\ pc \in [Message -> {"none", "thrown", "claiming", "checking", "acking", "nacking"}]
    /\ alive \in SUBSET Worker
    /\ status \in [Known -> {"pending", "in_progress", "completed"}]

Init ==
    /\ body \in [Message -> Malformed \cup Scan]
    /\ where = [m \in Message |-> "unsent"]
    /\ holder = [m \in Message |-> NoWorker]
    /\ pc = [m \in Message |-> "none"]
    /\ alive = Worker
    /\ status = [s \in Known |-> "pending"]

-----------------------------------------------------------------------------
HeldBy(w) == {m \in Message : holder[m] = w}

Publish(m) ==
    /\ where[m] = "unsent"
    /\ \A n \in Message : n < m => where[n] # "unsent"
    /\ where' = [where EXCEPT ![m] = "ready"]
    /\ UNCHANGED <<body, holder, pc, alive, status>>

\* JSON.parse, then the two schemas, in the turn of the delivery.
Parsed(m) ==
    IF body[m] = "not_json" THEN "thrown"
    ELSE IF body[m] \in Malformed THEN "nacking" ELSE "claiming"

\* Mutant: one more than was asked for.
HasMoreRoom(w) == Cardinality(HeldBy(w)) <= Prefetch

\* channel.prefetch
HasRoom(w) == Cardinality(HeldBy(w)) < Prefetch

\* A message that returns to the queue returns to its place.
Deliver(w, m) ==
    /\ w \in alive
    /\ HasRoom(w)
    /\ where[m] = "ready"
    /\ \A n \in Message : where[n] = "ready" => m <= n
    /\ where' = [where EXCEPT ![m] = "held"]
    /\ holder' = [holder EXCEPT ![m] = w]
    /\ pc' = [pc EXCEPT ![m] = Parsed(m)]
    /\ UNCHANGED <<body, alive, status>>

\* Mutant: "present but not pending" and "absent" are not told apart.
ClaimCollapsed(m) ==
    /\ pc[m] = "claiming"
    /\ \/ /\ body[m] \in Known /\ status[body[m]] = "pending"
          /\ status' = [status EXCEPT ![body[m]] = "in_progress"]
          /\ pc' = [pc EXCEPT ![m] = "checking"]
       \/ /\ ~ (body[m] \in Known /\ status[body[m]] = "pending")
          /\ pc' = [pc EXCEPT ![m] = "acking"]
          /\ UNCHANGED status
    /\ UNCHANGED <<body, where, holder, alive>>

\* claimForProcessing, and what createProcessScan makes of its three answers.
\* One step suffices: a scan that is missing or not pending stays so.
Claim(m) ==
    /\ pc[m] = "claiming"
    /\ \/ /\ body[m] \in Known /\ status[body[m]] = "pending"
          /\ status' = [status EXCEPT ![body[m]] = "in_progress"]
          /\ pc' = [pc EXCEPT ![m] = "checking"]
       \/ /\ body[m] \in Known /\ status[body[m]] # "pending"
          /\ pc' = [pc EXCEPT ![m] = "acking"]
          /\ UNCHANGED status
       \/ /\ body[m] \notin Known
          /\ pc' = [pc EXCEPT ![m] = "nacking"]
          /\ UNCHANGED status
    /\ UNCHANGED <<body, where, holder, alive>>

\* The checks have run: completeScan.
Complete(m) ==
    /\ pc[m] = "checking"
    /\ status' = [status EXCEPT ![body[m]] = "completed"]
    /\ pc' = [pc EXCEPT ![m] = "acking"]
    /\ UNCHANGED <<body, where, holder, alive>>

\* The broker is told, and forgets the message.
Settle(m, when, outcome) ==
    /\ pc[m] = when
    /\ where' = [where EXCEPT ![m] = outcome]
    /\ holder' = [holder EXCEPT ![m] = NoWorker]
    /\ pc' = [pc EXCEPT ![m] = "none"]
    /\ UNCHANGED <<body, alive, status>>

Ack(m) == Settle(m, "acking", "acked")

\* Mutant: a bare return, which leaves the delivery unacknowledged.
ReturnUnsettled(m) ==
    /\ pc[m] = "nacking"
    /\ pc' = [pc EXCEPT ![m] = "none"]
    /\ UNCHANGED <<body, where, holder, alive, status>>

\* To the dead-letter exchange, to which no queue is bound.
Nack(m) == Settle(m, "nacking", "discarded")

\* The unhandled rejection ends the process, and the broker requeues what its
\* channel held.  Other handlers may have gone on until here.
Die(w) ==
    /\ w \in alive
    /\ \E m \in HeldBy(w) : pc[m] = "thrown"
    /\ alive' = alive \ {w}
    /\ where' = [m \in Message |-> IF m \in HeldBy(w) THEN "ready" ELSE where[m]]
    /\ holder' = [m \in Message |-> IF m \in HeldBy(w) THEN NoWorker ELSE holder[m]]
    /\ pc' = [m \in Message |-> IF m \in HeldBy(w) THEN "none" ELSE pc[m]]
    /\ UNCHANGED <<body, status>>

\* restart: unless-stopped
Restart(w) ==
    /\ w \notin alive
    /\ alive' = alive \cup {w}
    /\ UNCHANGED <<body, where, holder, pc, status>>

-----------------------------------------------------------------------------
HandlerStep(m) == Claim(m) \/ Complete(m) \/ Ack(m) \/ Nack(m)

SomeDelivery == \E w \in Worker, m \in Message : Deliver(w, m)

Next ==
    \/ \E m \in Message : Publish(m)
    \/ SomeDelivery
    \/ \E m \in Message : HandlerStep(m)
    \/ \E w \in Worker : Die(w)
    \/ \E w \in Worker : Restart(w)

Spec == Init /\ [][Next]_vars

\* The broker delivers, handlers run on, a rejection ends its process and the
\* supervisor restarts it.
FairSpec ==
    /\ Spec
    /\ WF_vars(SomeDelivery)
    /\ \A m \in Message : WF_vars(HandlerStep(m))
    /\ \A w \in Worker : WF_vars(Die(w)) /\ WF_vars(Restart(w))

-----------------------------------------------------------------------------
Poison == {m \in Message : body[m] = "not_json" /\ where[m] # "unsent"}

\* docs/plan.md, consumer idempotency, "present but not pending -> already
\* handled, ack and drop; absent -> genuine fault, dead-letter": a message is
\* acknowledged only when a worker has taken on the scan it names, and
\* discarded only when no worker ever could.
SettledRightly ==
    \A m \in Message :
        /\ where[m] = "acked" => body[m] \in Known /\ status[body[m]] # "pending"
        /\ where[m] = "discarded" => body[m] \notin Known \cup {"not_json"}

\* A scan that was claimed and that no handler works on.
Ownerless ==
    {s \in Known : /\ status[s] = "in_progress"
                   /\ ~ \E m \in Message : pc[m] = "checking" /\ body[m] = s}

\* What one death costs: of the deliveries a worker holds, the one that kills
\* it is no scan's, so it leaves at most Prefetch - 1 scans behind; and a
\* queue of JSON leaves none, however its messages are repeated or malformed.
DeathCost ==
    [][Ownerless' # Ownerless =>
          /\ Cardinality(Ownerless' \ Ownerless) < Prefetch
          /\ Poison # {}]_vars

\* Nobody awaits anything but a handler that goes on: until a body that is not
\* JSON comes, every worker is up and takes the message at the head now, or
\* when one of the handlers that use up its prefetch is done.
CanStep(m) == pc[m] \in {"claiming", "checking", "acking", "nacking"}

WorkersGoOn ==
    Poison = {} => \A w \in Worker :
        w \in alive /\ (HasRoom(w) \/ \E m \in Message : holder[m] = w /\ CanStep(m))

\* How far a message is from being settled.
StepsLeft(m) ==
    CASE where[m] = "unsent"  -> 5
      [] where[m] = "ready"   -> 4
      [] where[m] = "held"    -> (CASE pc[m] = "claiming" -> 3
                                    [] pc[m] = "checking" -> 2
                                    [] OTHER              -> 1)
      [] OTHER                -> 0

\* No message is delivered twice unless a body that is not JSON is on the
\* queue: without one, every step brings a message nearer its end.
OnlyPoisonSetsBack ==
    [][Poison = {} => /\ \A m \in Message : StepsLeft(m)' <= StepsLeft(m)
                      /\ \E m \in Message : StepsLeft(m)' < StepsLeft(m)]_vars

\* A message is settled, or a body that is not JSON is on the queue: such a
\* body is the only one that can hold up the others, and it does for good.
QueueDrains ==
    \A m \in Message :
        where[m] = "ready" ~> where[m] \in {"acked", "discarded"} \/ Poison # {}
=============================================================================
