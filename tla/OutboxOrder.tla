----------------------------- MODULE OutboxOrder -----------------------------
(***************************************************************************)
(* The order in which events leave the outbox.  A row's id is a fixed-     *)
(* width encoding of the clock of the API process that wrote it, followed  *)
(* by a random tail; the row becomes visible when its transaction commits, *)
(* later and in any order; relays drain by id, skip what another relay has *)
(* locked, and stop at an event type that no routing key is known for.     *)
(*                                                                         *)
(* ScanPipeline has the failures of a single drain in more detail; here a  *)
(* publish and its confirm are one step, and what matters is which event   *)
(* reaches the broker before which.                                        *)
(***************************************************************************)
EXTENDS Integers, FiniteSets

CONSTANTS
    Event,        \* outbox events
    Routable,     \* those whose type has an entry in routingKeyByEventType
    Relay,        \* relay processes
    BatchSize,    \* OUTBOX_BATCH_SIZE
    Base, Width,  \* ALPHABET.length and TIMESTAMP_WIDTH of the ids
    Weight,       \* BASE ** k, the value of a digit by its place
    Tails,        \* what randomBase62 may return, as numbers that sort alike
    Api,          \* API processes
    Offset,       \* how far the clock of a process is ahead of the slowest
    MaxSkew,      \* what the clocks of two of them differ by, at most
    MaxTime,      \* bound: when real time stops advancing
    MaxFailures   \* bound: how many publishes fail

ASSUME EventAssumption == IsFiniteSet(Event) /\ Routable \subseteq Event
ASSUME BatchSizeAssumption == BatchSize \in Nat \ {0}
ASSUME RelayAssumption == Relay # {}
ASSUME TailAssumption == Tails \subseteq Nat
ASSUME EncodingAssumption ==
    /\ Base \in Nat \ {0} /\ Width \in Nat \ {0}
    /\ Weight \in [0 .. Width -> Nat \ {0}]
    /\ Weight[0] = 1
    /\ \A k \in 1 .. Width : Weight[k] = Base * Weight[k - 1]
ASSUME BoundAssumption == MaxTime \in Nat /\ MaxFailures \in Nat
ASSUME ClockAssumption ==
    /\ Offset \in [Api -> Nat] /\ MaxSkew \in Nat
    /\ \A a, b \in Api : Offset[a] - Offset[b] <= MaxSkew
    /\ \A a \in Api : MaxTime + Offset[a] < Weight[Width]

-----------------------------------------------------------------------------
(* Ids: generateUniqueId.                                                  *)

\* The digit at a place, counted from the left.
Digit(value, place) == (value \div Weight[Width - place]) % Base

\* Mutant: the timestamp is written without leading zeros.  Symbols count from
\* 1, so that 0 stands for the end of the string, which sorts first.
UniqueIdVariableWidth(time, tail) ==
    LET zeros == Cardinality({i \in 1 .. Width : time < Weight[Width - i]})
        full == [i \in 1 .. Width + 1 |-> IF i <= Width THEN Digit(time, i) ELSE tail]
    IN  [i \in 1 .. Width + 1 |-> IF i + zeros <= Width + 1 THEN full[i + zeros] + 1 ELSE 0]

UniqueId(time, tail) ==
    [i \in 1 .. Width + 1 |-> IF i <= Width THEN Digit(time, i) ELSE tail]

\* How PostgreSQL compares two ids: lexicographically.
Before(a, b) ==
    \E i \in 1 .. Width + 1 : a[i] < b[i] /\ \A j \in 1 .. i - 1 : a[j] = b[j]

-----------------------------------------------------------------------------
VARIABLES
    now,          \* real time
    stage,        \* of an event's row: absent, inserted, committed
    id,           \* outbox_event.id
    born,         \* history: when the id was generated
    committedAt,  \* history: when the row became visible
    published,    \* rows whose published_at is set
    batch,        \* rows a relay's open transaction has locked
    left,         \* those it has still to publish
    skipped,      \* history: rows its SELECT skipped as locked
    arrived,      \* events of which the broker has taken a message
    failures      \* how many publishes have failed

apiVars == <<stage, id, born, committedAt>>
vars == <<now, stage, id, born, committedAt, published, batch, left, skipped,
          arrived, failures>>

TypeOK ==
    /\ now \in 0 .. MaxTime
    /\ stage \in [Event -> {"absent", "inserted", "committed"}]
    /\ id \in [Event -> [1 .. Width + 1 -> Nat]]
    /\ born \in [Event -> 0 .. MaxTime]
    /\ committedAt \in [Event -> 0 .. MaxTime]
    /\ published \in SUBSET Event
    /\ batch \in [Relay -> SUBSET Event]
    /\ left \in [Relay -> SUBSET Event]
    /\ skipped \in [Relay -> SUBSET Event]
    /\ arrived \in SUBSET Event
    /\ failures \in 0 .. MaxFailures

Init ==
    /\ now = 0
    /\ stage = [e \in Event |-> "absent"]
    /\ id = [e \in Event |-> [i \in 1 .. Width + 1 |-> 0]]
    /\ born = [e \in Event |-> 0]
    /\ committedAt = [e \in Event |-> 0]
    /\ published = {}
    /\ batch = [r \in Relay |-> {}]
    /\ left = [r \in Relay |-> {}]
    /\ skipped = [r \in Relay |-> {}]
    /\ arrived = {}
    /\ failures = 0

Tick ==
    /\ now < MaxTime
    /\ now' = now + 1
    /\ UNCHANGED <<apiVars, published, batch, left, skipped, arrived, failures>>

-----------------------------------------------------------------------------
(* The API: submit's transaction.                                          *)

Reading(a) == now + Offset[a]

\* id is the primary key: no two rows have the same.
InsertEvent(a, e) ==
    /\ stage[e] = "absent"
    /\ \E tail \in Tails :
          /\ \A f \in Event : stage[f] # "absent" => id[f] # UniqueId(Reading(a), tail)
          /\ id' = [id EXCEPT ![e] = UniqueId(Reading(a), tail)]
    /\ stage' = [stage EXCEPT ![e] = "inserted"]
    /\ born' = [born EXCEPT ![e] = now]
    /\ UNCHANGED <<now, committedAt, published, batch, left, skipped, arrived, failures>>

CommitEvent(e) ==
    /\ stage[e] = "inserted"
    /\ stage' = [stage EXCEPT ![e] = "committed"]
    /\ committedAt' = [committedAt EXCEPT ![e] = now]
    /\ UNCHANGED <<now, id, born, published, batch, left, skipped, arrived, failures>>

-----------------------------------------------------------------------------
(* The relay: drainAndPublish.                                             *)

\* WHERE published_at IS NULL, as far as commits have made rows visible.
Unpublished == {e \in Event : stage[e] = "committed"} \ published

Locked == UNION {batch[r] : r \in Relay}

Drainable == Unpublished \ Locked

\* Mutant: ORDER BY id DESC.
LastBatch == {e \in Drainable : Cardinality({f \in Drainable : Before(id[e], id[f])}) < BatchSize}

\* ORDER BY id LIMIT batchSize
FirstBatch ==
    {e \in Drainable :
        Cardinality({f \in Drainable : Before(id[f], id[e])}) < BatchSize}

Drain(r) ==
    /\ batch[r] = {}
    /\ Drainable # {}
    /\ batch' = [batch EXCEPT ![r] = FirstBatch]
    /\ left' = [left EXCEPT ![r] = FirstBatch]
    /\ skipped' = [skipped EXCEPT ![r] = Unpublished \cap Locked]
    /\ UNCHANGED <<now, apiVars, published, arrived, failures>>

\* for (const row of rows) await publish(...)
IsNext(e, S) == e \in S /\ \A f \in S \ {e} : ~ Before(id[f], id[e])

PublishRow(r) ==
    /\ \E e \in Routable : /\ IsNext(e, left[r])
                           /\ arrived' = arrived \cup {e}
                           /\ left' = [left EXCEPT ![r] = @ \ {e}]
    /\ UNCHANGED <<now, apiVars, published, batch, skipped, failures>>

\* The transaction ends, and with it its locks.
EndDrain(r) ==
    /\ batch' = [batch EXCEPT ![r] = {}]
    /\ left' = [left EXCEPT ![r] = {}]
    /\ skipped' = [skipped EXCEPT ![r] = {}]

\* Mutant: an event nobody routes is passed over in silence.
PassOver(r) ==
    /\ \E e \in Event \ Routable : /\ IsNext(e, left[r])
                                   /\ left' = [left EXCEPT ![r] = @ \ {e}]
    /\ UNCHANGED <<now, apiVars, published, batch, skipped, arrived, failures>>

\* Mutant: the routing keys are looked up before anything is published.
RefuseBatch(r) ==
    /\ \E e \in Event \ Routable : e \in left[r]
    /\ EndDrain(r)
    /\ UNCHANGED <<now, apiVars, published, arrived, failures>>

\* "no routing key configured for event type": the drain throws, the batch
\* rolls back, and tick polls again.
RefuseUnroutable(r) ==
    /\ \E e \in Event \ Routable : IsNext(e, left[r])
    /\ EndDrain(r)
    /\ UNCHANGED <<now, apiVars, published, arrived, failures>>

\* A publish is nacked or times out, its message taken by the broker or not.
PublishFails(r) ==
    /\ failures < MaxFailures
    /\ failures' = failures + 1
    /\ \E e \in Routable : /\ IsNext(e, left[r])
                           /\ arrived' \in {arrived, arrived \cup {e}}
    /\ EndDrain(r)
    /\ UNCHANGED <<now, apiVars, published>>

MarkPublished(r) ==
    /\ batch[r] # {}
    /\ left[r] = {}
    /\ published' = published \cup batch[r]
    /\ EndDrain(r)
    /\ UNCHANGED <<now, apiVars, arrived, failures>>

-----------------------------------------------------------------------------
RelayStep(r) ==
    \/ Drain(r)
    \/ PublishRow(r)
    \/ RefuseUnroutable(r)
    \/ MarkPublished(r)

Next ==
    \/ Tick
    \/ \E a \in Api, e \in Event : InsertEvent(a, e)
    \/ \E e \in Event : CommitEvent(e)
    \/ \E r \in Relay : RelayStep(r)
    \/ \E r \in Relay : PublishFails(r)

Spec == Init /\ [][Next]_vars

\* The relay loops until it is stopped, and restarts when it exits.
FairSpec == Spec /\ \A r \in Relay : WF_vars(RelayStep(r))

-----------------------------------------------------------------------------
\* OutboxRepositoryPort: nothing is "silently lost", and relay.ts, "an unknown
\* event type is a loud failure rather than a silent drop": a row is marked
\* only when the broker has taken its message, its whole batch's routable.
MarkedReachedBroker == published \subseteq arrived /\ arrived \subseteq Routable

\* f was visible before e's id was generated, by more than two clocks differ.
Older(f, e) ==
    /\ stage[f] = "committed" /\ stage[e] # "absent"
    /\ committedAt[f] + MaxSkew < born[e]

\* "Ids are time-sortable, so this publishes in roughly the order events
\* happened" (outbox.repository.ts), made exact: when a relay sends e, every
\* older event is there already, or another relay had it locked when e's batch
\* was selected.  An older event that cannot be routed stops e.
NoOvertaking ==
    [][\A e \in arrived' \ arrived, f \in Event :
          Older(f, e) => \/ f \in arrived
                         \/ \E r \in Relay : e \in batch[r] /\ f \in skipped[r]]_vars

\* A relay has something to do that nobody else needs to do first.
CanStep(r) ==
    \/ batch[r] = {} /\ FirstBatch # {}
    \/ batch[r] # {} /\ left[r] = {}
    \/ \E e \in left[r] : IsNext(e, left[r])

\* No row is forgotten in the outbox: until it is marked, a relay that can go on
\* has it in its batch, or is free to find it.
NoRowForgotten ==
    \A e \in Unpublished :
        \E r \in Relay : CanStep(r) /\ (e \in batch[r] \/ e \notin Locked)

\* A drain in which no publish fails gives up on nothing but what sorts after an
\* event that cannot be routed: the rest of its batch has reached the broker
\* when it ends, although the rows of it are not marked.
OnlyBehindUnroutable ==
    [][\A r \in Relay : batch[r] # {} /\ batch'[r] = {} /\ failures' = failures =>
          \A e \in batch[r] \cap Routable :
              \/ e \in arrived
              \/ \E u \in batch[r] \ Routable : Before(id[u], id[e])]_vars

\* An event that cannot be routed holds up the events behind it, and nothing
\* else: every other routable event reaches the broker, although an unroutable
\* one in its batch rolls the mark back again and again.
RoutableReachesBroker ==
    \A e \in Routable :
        stage[e] = "committed" ~>
            \/ e \in arrived
            \/ \E u \in Event \ Routable : stage[u] = "committed" /\ Before(id[u], id[e])
=============================================================================
