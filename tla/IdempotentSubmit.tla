--------------------------- MODULE IdempotentSubmit ---------------------------
(***************************************************************************)
(* What POST /v1/scans promises a client that retries (ADR-0003): of the   *)
(* requests with one idempotency key of one client at most one is ever     *)
(* accepted, and every answer is justified by what is accepted: "created"  *)
(* by the request itself, "replayed" by the accepted request with the same *)
(* key and body, "conflict" by one with the same key and another body.     *)
(* "error" and "lost" tell the client nothing.                             *)
(*                                                                         *)
(* This is the abstract specification that SubmitScan and ApiRequest        *)
(* implement.                                                              *)
(***************************************************************************)
CONSTANTS
    Request,   \* attempts to submit; each has the scan id it generated
    Client,
    Key,       \* values of the Idempotency-Key header
    NoKey,     \* the header is missing
    Hash,      \* request hashes: what the key is a key for
    NoRequest

VARIABLES
    asked,     \* what each request asked for, once received
    accepted,  \* the requests whose scan exists
    answer,    \* the kind of answer each request got
    named      \* the scan an answer names

vars == <<asked, accepted, answer, named>>

Ask == [client : Client, key : Key \cup {NoKey}, hash : Hash]

NoAsk == [client |-> NoKey, key |-> NoKey, hash |-> NoKey]

\* Requests the unique index on (client_id, idempotency_key) tells apart
\* from all others but not from each other.
SameKey(r1, r2) ==
    /\ asked[r1].key # NoKey
    /\ asked[r1].key = asked[r2].key
    /\ asked[r1].client = asked[r2].client

SameBody(r1, r2) == asked[r1].hash = asked[r2].hash

Init ==
    /\ asked = [r \in Request |-> NoAsk]
    /\ accepted = {}
    /\ answer = [r \in Request |-> "none"]
    /\ named = [r \in Request |-> NoRequest]

Receive(r, a) ==
    /\ asked[r] = NoAsk
    /\ asked' = [asked EXCEPT ![r] = a]
    /\ UNCHANGED <<accepted, answer, named>>

Acceptable(r) ==
    /\ asked[r] # NoAsk
    /\ answer[r] = "none"
    /\ ~ \E e \in accepted : SameKey(e, r)

Accept(r) ==
    /\ Acceptable(r)
    /\ accepted' = accepted \cup {r}
    /\ UNCHANGED <<asked, answer, named>>

\* Nobody else takes a step between the acceptance of r and its answer, which
\* tells of it or of a failure.
AcceptAnswering(r, kind, e) ==
    /\ Acceptable(r)
    /\ (kind = "created" /\ e = r) \/ (kind = "error" /\ e = NoRequest)
    /\ accepted' = accepted \cup {r}
    /\ answer' = [answer EXCEPT ![r] = kind]
    /\ named' = [named EXCEPT ![r] = e]
    /\ UNCHANGED asked

Justified(r, kind, e) ==
    \/ kind = "created" /\ e = r /\ r \in accepted
    \/ kind = "replayed" /\ e \in accepted /\ SameKey(e, r) /\ SameBody(e, r)
    \/ /\ kind = "conflict" /\ e = NoRequest
       /\ \E f \in accepted : SameKey(f, r) /\ ~ SameBody(f, r)
    \/ kind = "error" /\ e = NoRequest

Answer(r, kind, e) ==
    /\ asked[r] # NoAsk
    /\ answer[r] = "none"
    /\ Justified(r, kind, e)
    /\ answer' = [answer EXCEPT ![r] = kind]
    /\ named' = [named EXCEPT ![r] = e]
    /\ UNCHANGED <<asked, accepted>>

\* The connections of some requests break before they are answered.
Lose(R) ==
    /\ \A r \in R : asked[r] # NoAsk /\ answer[r] = "none"
    /\ answer' = [r \in Request |-> IF r \in R THEN "lost" ELSE answer[r]]
    /\ UNCHANGED <<asked, accepted, named>>

Next ==
    \/ \E r \in Request, a \in Ask : Receive(r, a)
    \/ \E r \in Request : Accept(r)
    \/ \E r \in Request, kind \in {"created", "replayed", "conflict", "error"},
          e \in Request \cup {NoRequest} : Answer(r, kind, e) \/ AcceptAnswering(r, kind, e)
    \/ \E R \in SUBSET Request : Lose(R)

Spec == Init /\ [][Next]_vars
=============================================================================
