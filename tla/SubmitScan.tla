------------------------------ MODULE SubmitScan ------------------------------
(***************************************************************************)
(* POST /v1/scans: the submit handler and the submit function of the scan  *)
(* repository, run by concurrent requests over one database.  The          *)
(* transaction inserts the scan row and the outbox row; the partial unique *)
(* index on (client_id, idempotency_key) arbitrates between requests with  *)
(* the same key, the loser reading the winner's row afterwards in a        *)
(* statement of its own.  Each API process has a pool of PoolSize          *)
(* connections, and may crash at any point.                                *)
(***************************************************************************)
EXTENDS Integers, FiniteSets

CONSTANTS
    Request,    \* requests; each generates a scan id of its own
    Api,        \* API processes
    Client,
    Key,        \* values of the Idempotency-Key header
    NoKey,      \* the header is missing: idempotency_key is NULL
    Hash,       \* request hashes, one per normalized URL
    NoRequest,
    PoolSize,   \* connections in the pool of an API process
    MaxFaults   \* bound: failed database calls and crashes

ASSUME NoKeyAssumption == NoKey \notin Client
ASSUME NoRequestAssumption == NoRequest \notin Request
ASSUME PoolSizeAssumption == PoolSize \in Nat \ {0}
ASSUME MaxFaultsAssumption == MaxFaults \in Nat

-----------------------------------------------------------------------------
VARIABLES
    asked,    \* client, key and hash of the request, once received
    api,      \* the process that received it
    pc,       \* how far the request's handler is
    scanRow,  \* the scan row with the request's id: none, uncommitted, committed
    event,    \* the outbox row for that scan
    answer,   \* the kind of response sent
    named,    \* the scan id in the response
    faults

vars == <<asked, api, pc, scanRow, event, answer, named, faults>>

Ask == [client : Client, key : Key \cup {NoKey}, hash : Hash]

NoAsk == [client |-> NoKey, key |-> NoKey, hash |-> NoKey]

InFlight == {"waiting", "insert", "outbox", "commit", "committed", "violated"}

TypeOK ==
    /\ asked \in [Request -> Ask \cup {NoAsk}]
    /\ api \in [Request -> Api]
    /\ pc \in [Request -> InFlight \cup {"new", "answered"}]
    /\ scanRow \in [Request -> {"none", "uncommitted", "committed"}]
    /\ event \in [Request -> {"none", "uncommitted", "committed"}]
    /\ answer \in [Request -> {"none", "created", "replayed", "conflict", "error", "lost"}]
    /\ named \in [Request -> Request \cup {NoRequest}]
    /\ faults \in Nat

Init ==
    /\ asked = [r \in Request |-> NoAsk]
    /\ api \in [Request -> Api]
    /\ pc = [r \in Request |-> "new"]
    /\ scanRow = [r \in Request |-> "none"]
    /\ event = [r \in Request |-> "none"]
    /\ answer = [r \in Request |-> "none"]
    /\ named = [r \in Request |-> NoRequest]
    /\ faults = 0

Fault == faults < MaxFaults /\ faults' = faults + 1

-----------------------------------------------------------------------------
\* The unique index: same client, same key, the key not NULL.
SameKey(r1, r2) ==
    /\ asked[r1].key # NoKey
    /\ asked[r1].key = asked[r2].key
    /\ asked[r1].client = asked[r2].client

SameBody(r1, r2) == asked[r1].hash = asked[r2].hash

\* The requests whose scan row collides with r's and is in the given state.
Rivals(r, state) == {e \in Request \ {r} : SameKey(e, r) /\ scanRow[e] = state}

\* Mutant: the loser reads the winner's row before it ends its transaction.
HoldsConnectionWhileReading(r) == pc[r] \in {"insert", "outbox", "commit", "violated"}

HoldsConnection(r) == pc[r] \in {"insert", "outbox", "commit"}

ConnectionFree(a) == Cardinality({r \in Request : api[r] = a /\ HoldsConnection(r)}) < PoolSize

\* The handler sends its response.
Respond(r, kind, e) ==
    /\ pc' = [pc EXCEPT ![r] = "answered"]
    /\ answer' = [answer EXCEPT ![r] = kind]
    /\ named' = [named EXCEPT ![r] = e]

-----------------------------------------------------------------------------
\* The handler has validated the target and calls repository.submit.
Receive(r) ==
    /\ pc[r] = "new"
    /\ \E a \in Ask : asked' = [asked EXCEPT ![r] = a]
    /\ pc' = [pc EXCEPT ![r] = "waiting"]
    /\ UNCHANGED <<api, scanRow, event, answer, named, faults>>

\* db.transaction takes a connection and begins.
Begin(r) ==
    /\ pc[r] = "waiting"
    /\ ConnectionFree(api[r])
    /\ pc' = [pc EXCEPT ![r] = "insert"]
    /\ UNCHANGED <<asked, api, scanRow, event, answer, named, faults>>

\* Mutant: check then insert, blind to a rival that has not committed.
InsertScanUnarbitrated(r) ==
    /\ pc[r] = "insert"
    /\ Rivals(r, "committed") = {}
    /\ scanRow' = [scanRow EXCEPT ![r] = "uncommitted"]
    /\ pc' = [pc EXCEPT ![r] = "outbox"]
    /\ UNCHANGED <<asked, api, event, answer, named, faults>>

\* The INSERT succeeds when no other row has its key; while a rival's
\* transaction is open it waits for that transaction to end.
InsertScan(r) ==
    /\ pc[r] = "insert"
    /\ Rivals(r, "uncommitted") = {}
    /\ Rivals(r, "committed") = {}
    /\ scanRow' = [scanRow EXCEPT ![r] = "uncommitted"]
    /\ pc' = [pc EXCEPT ![r] = "outbox"]
    /\ UNCHANGED <<asked, api, event, answer, named, faults>>

\* Mutant: a rival's open transaction already counts as a violation.
InsertViolatesEarly(r) ==
    /\ pc[r] = "insert"
    /\ Rivals(r, "committed") \cup Rivals(r, "uncommitted") # {}
    /\ pc' = [pc EXCEPT ![r] = "violated"]
    /\ UNCHANGED <<asked, api, scanRow, event, answer, named, faults>>

\* A committed rival: unique_violation, the transaction rolls back and its
\* connection returns to the pool.
InsertViolates(r) ==
    /\ pc[r] = "insert"
    /\ Rivals(r, "committed") # {}
    /\ pc' = [pc EXCEPT ![r] = "violated"]
    /\ UNCHANGED <<asked, api, scanRow, event, answer, named, faults>>

\* Mutant: inserted with db instead of tx, so committed at once.
InsertOutboxOutsideTx(r) ==
    /\ pc[r] = "outbox"
    /\ event' = [event EXCEPT ![r] = "committed"]
    /\ pc' = [pc EXCEPT ![r] = "commit"]
    /\ UNCHANGED <<asked, api, scanRow, answer, named, faults>>

InsertOutbox(r) ==
    /\ pc[r] = "outbox"
    /\ event' = [event EXCEPT ![r] = "uncommitted"]
    /\ pc' = [pc EXCEPT ![r] = "commit"]
    /\ UNCHANGED <<asked, api, scanRow, answer, named, faults>>

Commit(r) ==
    /\ pc[r] = "commit"
    /\ scanRow' = [scanRow EXCEPT ![r] = "committed"]
    /\ event' = [event EXCEPT ![r] = "committed"]
    /\ pc' = [pc EXCEPT ![r] = "committed"]
    /\ UNCHANGED <<asked, api, answer, named, faults>>

\* 201 with the id of the new scan.
RespondCreated(r) ==
    /\ pc[r] = "committed"
    /\ Respond(r, "created", r)
    /\ UNCHANGED <<asked, api, scanRow, event, faults>>

\* findExistingByKey, outside the transaction, in a statement of its own.
Existing(r) == Rivals(r, "committed")

\* Mutant: the request hash is not compared.
ReplayAnyBody(r) ==
    /\ pc[r] = "violated"
    /\ ConnectionFree(api[r])
    /\ \E e \in Existing(r) : Respond(r, "replayed", e)
    /\ UNCHANGED <<asked, api, scanRow, event, faults>>

\* Same key, same request: 200 with the id of the first scan.
Replay(r) ==
    /\ pc[r] = "violated"
    /\ ConnectionFree(api[r])
    /\ \E e \in Existing(r) : SameBody(e, r) /\ Respond(r, "replayed", e)
    /\ UNCHANGED <<asked, api, scanRow, event, faults>>

\* Same key, different request: 409.
RespondConflict(r) ==
    /\ pc[r] = "violated"
    /\ ConnectionFree(api[r])
    /\ \E e \in Existing(r) : ~ SameBody(e, r) /\ Respond(r, "conflict", NoRequest)
    /\ UNCHANGED <<asked, api, scanRow, event, faults>>

\* The transactions of the requests in R end without having committed.
Undone(R) ==
    /\ scanRow' = [r \in Request |->
                     IF r \in R /\ scanRow[r] = "uncommitted" THEN "none" ELSE scanRow[r]]
    /\ event' = [r \in Request |->
                   IF r \in R /\ event[r] = "uncommitted" THEN "none" ELSE event[r]]

\* A database call fails: the error handler answers 500.  At "committed" the
\* COMMIT took effect but its answer was lost on the way.
DbFails(r) ==
    /\ pc[r] \in InFlight
    /\ Fault
    /\ Undone({r})
    /\ Respond(r, "error", NoRequest)
    /\ UNCHANGED <<asked, api>>

\* The process dies with all its requests; PostgreSQL aborts what they left.
ApiCrash(a) ==
    /\ Fault
    /\ LET R == {r \in Request : api[r] = a /\ pc[r] \in InFlight}
       IN  /\ R # {}
           /\ Undone(R)
           /\ pc' = [r \in Request |-> IF r \in R THEN "answered" ELSE pc[r]]
           /\ answer' = [r \in Request |-> IF r \in R THEN "lost" ELSE answer[r]]
    /\ UNCHANGED <<asked, api, named>>

-----------------------------------------------------------------------------
Step(r) ==
    \/ Begin(r)
    \/ InsertScan(r)
    \/ InsertViolates(r)
    \/ InsertOutbox(r)
    \/ Commit(r)
    \/ RespondCreated(r)
    \/ Replay(r)
    \/ RespondConflict(r)

AllAnswered == \A r \in Request : pc[r] = "answered"

\* No request is left: the behaviour ends here.
Done == AllAnswered /\ UNCHANGED vars

Next ==
    \/ \E r \in Request : Receive(r)
    \/ \E r \in Request : Step(r)
    \/ \E r \in Request : DbFails(r)
    \/ \E a \in Api : ApiCrash(a)
    \/ Done

Spec == Init /\ [][Next]_vars

FairSpec == Spec /\ \A r \in Request : WF_vars(Step(r))

-----------------------------------------------------------------------------
(* Properties.                                                             *)

\* The database arbitrates concurrent double submissions: one scan per client
\* and key.
OneScanPerKey ==
    \A r1, r2 \in Request :
        /\ scanRow[r1] = "committed" /\ scanRow[r2] = "committed"
        /\ SameKey(r1, r2)
        => r1 = r2

\* ADR-0001: outside a transaction there is no scan without its event and no
\* event without its scan, whatever failed or crashed on the way.
EventWithScan ==
    \A r \in Request : scanRow[r] = "committed" <=> event[r] = "committed"

\* What a client may conclude from its answers.  Two requests of one client
\* with one key that are both told a scan id are told the same, which is the
\* id of an existing scan for the body they sent; a conflict is told only
\* while a scan for another body exists.
AnswersAgree ==
    \A r \in Request :
        /\ answer[r] \in {"created", "replayed"} =>
              /\ scanRow[named[r]] = "committed"
              /\ SameBody(named[r], r)
              /\ \A q \in Request :
                    SameKey(q, r) /\ answer[q] \in {"created", "replayed"} => named[q] = named[r]
        /\ answer[r] = "conflict" =>
              \E e \in Request : scanRow[e] = "committed" /\ SameKey(e, r) /\ ~ SameBody(e, r)

\* The rethrow after findExistingByKey ("existing === undefined") never
\* happens: a request that met a unique violation finds the winner's row.
WinnerIsThere ==
    \A r \in Request : pc[r] = "violated" => Existing(r) # {}

\* submit implements the promise to retrying clients.
Promise == INSTANCE IdempotentSubmit
             WITH accepted <- {r \in Request : scanRow[r] = "committed"}

ImplementsPromise == Promise!Spec

\* The request's next database call goes through, or its response is sent.
CanStep(r) ==
    \/ pc[r] \in {"outbox", "commit", "committed"}
    \/ pc[r] = "waiting" /\ ConnectionFree(api[r])
    \/ pc[r] = "violated" /\ ConnectionFree(api[r]) /\ Existing(r) # {}
    \/ /\ pc[r] = "insert"
       /\ Rivals(r, "uncommitted") = {} \/ Rivals(r, "committed") # {}

\* r is held up by q: by its connection, or by its open transaction.
WaitsFor(r, q) ==
    \/ /\ pc[r] \in {"waiting", "violated"}
       /\ ~ ConnectionFree(api[r])
       /\ api[q] = api[r] /\ HoldsConnection(q)
    \/ pc[r] = "insert" /\ q \in Rivals(r, "uncommitted")

\* Pool and index together never block for good: whoever waits for a connection
\* or for a rival's transaction waits, at one remove at most, for a request that
\* goes on by itself.
NobodyStuck ==
    \A r \in Request : pc[r] \in InFlight =>
        \/ CanStep(r)
        \/ \E q \in Request :
              /\ WaitsFor(r, q)
              /\ CanStep(q) \/ \E e \in Request : WaitsFor(q, e) /\ CanStep(e)

\* How many steps of its own are left to a request at most.
StepsLeft(r) ==
    CASE pc[r] = "new"      -> 6
      [] pc[r] = "waiting"  -> 5
      [] pc[r] = "insert"   -> 4
      [] pc[r] = "outbox"   -> 3
      [] pc[r] = "commit"   -> 2
      [] pc[r] = "answered" -> 0
      [] OTHER              -> 1

\* No request is ever set back, by its rivals, by a failure or by a crash, and
\* every step brings one nearer its answer: nothing is retried inside submit.
NoRequestSetBack ==
    [][/\ \A r \in Request : StepsLeft(r)' <= StepsLeft(r)
       /\ \E r \in Request : StepsLeft(r)' < StepsLeft(r)]_vars

\* Requests waiting for a connection and requests waiting for a rival's
\* transaction never wait for each other forever, however small the pool.
EveryRequestAnswered ==
    \A r \in Request : pc[r] = "waiting" ~> pc[r] = "answered"
=============================================================================
