------------------------------ MODULE ApiRequest ------------------------------
(***************************************************************************)
(* A request's way through the API: the body is read, then the middleware  *)
(* and the handler decide in one turn whether it reaches repository.submit *)
(* and for which client.  submit itself, which SubmitScan has in detail,   *)
(* is one step here.                                                       *)
(***************************************************************************)
EXTENDS ScanTarget, FiniteSets

CONSTANTS
    Request,
    Input,      \* what a request may be: method, path, apiKey, body, idempotencyKey, url
    Client,
    API_KEYS,   \* the configured entries: <<client, hash of its key>>, in order
    NoKey       \* no x-api-key, no Idempotency-Key

ASSUME KeysAssumption == API_KEYS \in Seq(Client \X STRING)
ASSUME NoKeyAssumption == NoKey \notin Request \cup Client
ASSUME InputAssumption == \A q \in Input : q.url \in Url

VARIABLES
    input,    \* of a request; never changes
    pc,       \* reading, submitting, answered
    code,     \* the status of the answer, 0 before
    named,    \* the scan the answer names
    stored    \* scans: the request that made it, for which client

vars == <<input, pc, code, named, stored>>

Init ==
    /\ input \in [Request -> Input]
    /\ pc = [r \in Request |-> "reading"]
    /\ code = [r \in Request |-> 0]
    /\ named = [r \in Request |-> NoKey]
    /\ stored = {}

-----------------------------------------------------------------------------
(* Configuration: new Map(entries), where a later entry replaces an earlier. *)

\* Mutant: the first entry stays.
FirstEntry(hash) ==
    {i \in DOMAIN API_KEYS : /\ API_KEYS[i][2] = hash
                             /\ \A j \in DOMAIN API_KEYS : API_KEYS[j][2] = hash => i <= j}

EntryFor(hash) ==
    {i \in DOMAIN API_KEYS : /\ API_KEYS[i][2] = hash
                             /\ \A j \in DOMAIN API_KEYS : API_KEYS[j][2] = hash => j <= i}

\* res.locals.clientId, as a set of at most one.
clientIds(r) == {API_KEYS[i][1] : i \in EntryFor(input[r].apiKey)}

-----------------------------------------------------------------------------
Answer(r, status) ==
    /\ pc' = [pc EXCEPT ![r] = "answered"]
    /\ code' = [code EXCEPT ![r] = status]
    /\ UNCHANGED <<input, named, stored>>

Reading(r) == pc[r] = "reading"

\* express.json comes before everything else; what it throws has a status of
\* its own, with which createErrorHandler answers.
RejectBody(r) ==
    /\ Reading(r)
    /\ \/ input[r].body = "malformed" /\ Answer(r, 400)
       \/ input[r].body = "too_large" /\ Answer(r, 413)

Readable(r) == Reading(r) /\ input[r].body \in {"ok", "invalid"}

AnswerHealth(r) ==
    /\ Readable(r)
    /\ input[r].method = "GET"
    /\ \/ input[r].path = "health" /\ Answer(r, 200)
       \/ input[r].path = "ready" /\ \E status \in {200, 503} : Answer(r, status)

\* The scans router authenticates before it looks for a route.
AtScans(r) == Readable(r) /\ input[r].path = "scans"

IsAuthenticated(r) == AtScans(r) /\ clientIds(r) # {}

AnswerNotFound(r) ==
    /\ Readable(r)
    /\ \/ input[r].path \notin {"health", "ready", "scans"}
       \/ input[r].path \in {"health", "ready"} /\ input[r].method # "GET"
       \/ IsAuthenticated(r) /\ input[r].method # "POST"
    /\ Answer(r, 404)

RejectKey(r) ==
    /\ AtScans(r)
    /\ clientIds(r) = {}
    /\ Answer(r, 401)

\* validateBody, then validateSubmittedUrl.
RejectTarget(r) ==
    /\ IsAuthenticated(r)
    /\ input[r].method = "POST"
    /\ input[r].body = "invalid" \/ validateSubmittedUrl(input[r].url) # "valid"
    /\ Answer(r, 400)

CallSubmit(r) ==
    /\ IsAuthenticated(r)
    /\ input[r].method = "POST"
    /\ input[r].body = "ok"
    /\ validateSubmittedUrl(input[r].url) = "valid"
    /\ pc' = [pc EXCEPT ![r] = "submitting"]
    /\ UNCHANGED <<input, code, named, stored>>

\* What the idempotency key is compared by.
requestHash(r) == normalize(parseUrl(input[r].url))

\* The scans that have the client and the idempotency key of r.
Earlier(r) ==
    {s \in stored : /\ input[r].idempotencyKey # NoKey
                    /\ input[s[1]].idempotencyKey = input[r].idempotencyKey
                    /\ s[2] \in clientIds(r)}

Store(r) ==
    /\ Earlier(r) = {}
    /\ \E c \in clientIds(r) : stored' = stored \cup {<<r, c>>}

\* repository.submit, and submitStatusCodeMap of what it returns.
Submit(r) ==
    /\ pc[r] = "submitting"
    /\ pc' = [pc EXCEPT ![r] = "answered"]
    /\ \/ /\ Store(r)
          /\ code' = [code EXCEPT ![r] = 201]
          /\ named' = [named EXCEPT ![r] = r]
       \/ \E s \in Earlier(r) :
             /\ code' = [code EXCEPT ![r] = IF requestHash(s[1]) = requestHash(r) THEN 200 ELSE 409]
             /\ named' = [named EXCEPT ![r] = IF requestHash(s[1]) = requestHash(r) THEN s[1] ELSE NoKey]
             /\ UNCHANGED stored
    /\ UNCHANGED input

\* submit rejects, perhaps after its COMMIT took effect; without a status of
\* its own the error is createErrorHandler's 500.
SubmitFails(r) ==
    /\ pc[r] = "submitting"
    /\ pc' = [pc EXCEPT ![r] = "answered"]
    /\ code' = [code EXCEPT ![r] = 500]
    /\ Store(r) \/ UNCHANGED stored
    /\ UNCHANGED <<input, named>>

Next ==
    \E r \in Request :
        \/ RejectBody(r) \/ AnswerHealth(r) \/ AnswerNotFound(r) \/ RejectKey(r)
        \/ RejectTarget(r) \/ CallSubmit(r) \/ Submit(r) \/ SubmitFails(r)

Spec == Init /\ [][Next]_vars

-----------------------------------------------------------------------------
TypeOK ==
    /\ input \in [Request -> Input]
    /\ pc \in [Request -> {"reading", "submitting", "answered"}]
    /\ code \in [Request -> {0, 200, 201, 400, 401, 404, 409, 413, 500, 503}]
    /\ named \in [Request -> Request \cup {NoKey}]
    /\ stored \in SUBSET (Request \X Client)

\* "Every downstream log line and scan row is attributed to" the client of the
\* key (authenticate), and "invalid input cannot reach business logic at all"
\* (validateBody): a scan is stored for the client the last entry gives the
\* key, once, and for a request that nothing before the handler refused.
StoredIsAdmitted ==
    \A s \in stored :
        LET q == input[s[1]]
        IN  /\ \E i \in DOMAIN API_KEYS :
                  /\ API_KEYS[i] = <<s[2], q.apiKey>>
                  /\ \A j \in i + 1 .. Len(API_KEYS) : API_KEYS[j][2] # q.apiKey
            /\ q.path = "scans" /\ q.method = "POST" /\ q.body = "ok"
            /\ (code[s[1]] = 201 /\ named[s[1]] = s[1]) \/ code[s[1]] = 500

\* "reject private / loopback / link-local" targets, "including obfuscated
\* encodings" and "IPv4-mapped IPv6" (validateSubmittedUrl): a submission whose
\* host denotes a reserved address, however it is spelled, does not reach
\* submit, but for the IPv6 addresses that findBlockedIpv6Label leaves wrapped;
\* and no other http URL without credentials is refused.
RefusedExactly ==
    \A r \in Request :
        LET url == input[r].url
        IN  /\ pc[r] = "answered" /\ input[r].path = "scans" /\ input[r].method = "POST"
            /\ input[r].body = "ok" /\ CanParse(url)
            =>
              /\ code[r] \in {200, 201, 409, 500} =>
                    ~ Reserved(url.host) \/ IsLeftWrapped(url.host)
              /\ code[r] = 400 /\ url.protocol \in {"http", "https"} /\ ~ url.credentials
                    => Reserved(url.host)

\* buildRequestHash: "a retry that differs only in fragment or host casing is
\* correctly recognised as the same request"; any other is a conflict.
RetriesRecognised ==
    \A s \in stored, r \in Request :
        /\ input[r].idempotencyKey # NoKey
        /\ input[r].idempotencyKey = input[s[1]].idempotencyKey
        /\ input[r].path = "scans" /\ code[r] \in {200, 201, 409}
        /\ input[r].apiKey = input[s[1]].apiKey
        => IF SameTarget(input[r].url, input[s[1]].url)
           THEN named[r] = s[1] /\ code[r] = IF r = s[1] THEN 201 ELSE 200
           ELSE code[r] = 409

\* What nothing before repository.submit refuses.
Admitted(r) ==
    /\ input[r].path = "scans" /\ input[r].method = "POST" /\ input[r].body = "ok"
    /\ clientIds(r) # {}
    /\ validateSubmittedUrl(input[r].url) = "valid"

\* The request as the retrying client means it: for the client the key is of,
\* for the page the normalized URL is of.
Ask(r) ==
    [client |-> CHOOSE c \in clientIds(r) : TRUE,
     key    |-> input[r].idempotencyKey,
     hash   |-> requestHash(r)]

NoAsk == [client |-> NoKey, key |-> NoKey, hash |-> NoKey]

Asks(r) == pc[r] # "reading" /\ Admitted(r)

Meaning(status) ==
    CASE status = 201 -> "created"
      [] status = 200 -> "replayed"
      [] status = 409 -> "conflict"
      [] status = 500 -> "error"
      [] OTHER        -> "none"

AskedKeys == {q.idempotencyKey : q \in Input}

AskedHashes ==
    {normalize(parseUrl(q.url)) : q \in {i \in Input : validateSubmittedUrl(i.url) = "valid"}}

\* The API as a whole keeps submit's promise to the clients of its keys and the
\* URLs they type: what is in front of submit neither mixes up two clients nor
\* calls two spellings of one page different requests.
Promise == INSTANCE IdempotentSubmit
             WITH NoRequest <- NoKey,
                  Key <- AskedKeys,
                  Hash <- AskedHashes,
                  asked <- [r \in Request |-> IF Asks(r) THEN Ask(r) ELSE NoAsk],
                  accepted <- {s[1] : s \in stored},
                  answer <- [r \in Request |-> IF Asks(r) THEN Meaning(code[r]) ELSE "none"]

ImplementsPromise == Promise!Spec
=============================================================================
