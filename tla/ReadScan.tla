------------------------------- MODULE ReadScan -------------------------------
(***************************************************************************)
(* GET /v1/scans/:id (src/api/handlers/get-scan.handler.ts): a scan is     *)
(* read with two SELECTs outside any transaction, its row first and its    *)
(* check rows second, while a worker claims and completes it.              *)
(*                                                                         *)
(* The three steps of a scan are those of ScanLifecycle, which ScanPipeline *)
(* implements; here they act on the columns that findById reads.           *)
(***************************************************************************)
CONSTANTS
    Scan,      \* scan ids
    Result,    \* what a finished scan records
    NoResult,  \* empty score and verdict columns, or no check rows
    Client,    \* authenticated clients
    Request,   \* GET requests
    OwnerOf,   \* the client_id of each scan
    ScanOf,    \* the id in the path of each request
    ClientOf   \* the client that sends each request

ASSUME NoResultAssumption == NoResult \notin Result
ASSUME OwnerAssumption == OwnerOf \in [Scan -> Client]
ASSUME RequestAssumption == ScanOf \in [Request -> Scan] /\ ClientOf \in [Request -> Client]

VARIABLES
    status,     \* scan.status; "absent" while there is no row
    verdict,    \* scan.threat_score and scan.verdict
    checkRows,  \* the rows of scan_check
    pc,         \* where each request is
    view,       \* the ScanModel each request has put together
    before      \* the views that its client had when it sent a request

rows == <<status, verdict, checkRows>>
vars == <<status, verdict, checkRows, pc, view, before>>

Nothing == [status |-> "absent", verdict |-> NoResult, checks |-> NoResult]

Init ==
    /\ status = [s \in Scan |-> "absent"]
    /\ verdict = [s \in Scan |-> NoResult]
    /\ checkRows = [s \in Scan |-> NoResult]
    /\ pc = [r \in Request |-> "unsent"]
    /\ view = [r \in Request |-> Nothing]
    /\ before = [r \in Request |-> {}]

-----------------------------------------------------------------------------
(* The scan's own steps, each one transaction.                             *)

Accept(s) ==
    /\ status[s] = "absent"
    /\ status' = [status EXCEPT ![s] = "pending"]
    /\ UNCHANGED <<verdict, checkRows, pc, view, before>>

\* Mutant: the claim takes a scan in any status.
StartAgain(s) ==
    /\ status[s] # "absent"
    /\ status' = [status EXCEPT ![s] = "in_progress"]
    /\ UNCHANGED <<verdict, checkRows, pc, view, before>>

Start(s) ==
    /\ status[s] = "pending"
    /\ status' = [status EXCEPT ![s] = "in_progress"]
    /\ UNCHANGED <<verdict, checkRows, pc, view, before>>

\* Mutant: the check rows are not in the transaction that sets the status.
FinishWithoutChecks(s, v) ==
    /\ status[s] = "in_progress"
    /\ status' = [status EXCEPT ![s] = "completed"]
    /\ verdict' = [verdict EXCEPT ![s] = v]
    /\ UNCHANGED <<checkRows, pc, view, before>>

Finish(s, v) ==
    /\ status[s] = "in_progress"
    /\ status' = [status EXCEPT ![s] = "completed"]
    /\ verdict' = [verdict EXCEPT ![s] = v]
    /\ checkRows' = [checkRows EXCEPT ![s] = v]
    /\ UNCHANGED <<pc, view, before>>

-----------------------------------------------------------------------------
(* A request.                                                              *)

SameReader(q, r) == ScanOf[q] = ScanOf[r] /\ ClientOf[q] = ClientOf[r]

Send(r) ==
    /\ pc[r] = "unsent"
    /\ pc' = [pc EXCEPT ![r] = "sent"]
    /\ before' = [before EXCEPT ![r] = {q \in Request : pc[q] = "answered" /\ SameReader(q, r)}]
    /\ UNCHANGED <<status, verdict, checkRows, view>>

\* Mutant: no early return for a missing row.
ReadRowUnchecked(r) ==
    /\ pc[r] = "sent"
    /\ pc' = [pc EXCEPT ![r] = "row"]
    /\ view' = [view EXCEPT ![r] = [status |-> status[ScanOf[r]],
                                    verdict |-> verdict[ScanOf[r]],
                                    checks |-> NoResult]]
    /\ UNCHANGED <<status, verdict, checkRows, before>>

\* The first SELECT finds the scan.
ReadRow(r) ==
    /\ pc[r] = "sent"
    /\ status[ScanOf[r]] # "absent"
    /\ pc' = [pc EXCEPT ![r] = "row"]
    /\ view' = [view EXCEPT ![r] = [status |-> status[ScanOf[r]],
                                    verdict |-> verdict[ScanOf[r]],
                                    checks |-> NoResult]]
    /\ UNCHANGED <<status, verdict, checkRows, before>>

\* The first SELECT finds nothing: 404.
ReadNoRow(r) ==
    /\ pc[r] = "sent"
    /\ status[ScanOf[r]] = "absent"
    /\ pc' = [pc EXCEPT ![r] = "notFound"]
    /\ UNCHANGED <<status, verdict, checkRows, view, before>>

\* fromRows throws on a status without the columns it requires.
Corrupt(v) == v.status = "completed" /\ v.verdict = NoResult

\* The second SELECT; the rows become a ScanModel, which is answered to the
\* client that owns the scan and 404 to any other.
ReadChecks(r) ==
    /\ pc[r] = "row"
    /\ view' = [view EXCEPT ![r].checks = checkRows[ScanOf[r]]]
    /\ pc' = [pc EXCEPT ![r] =
                 IF Corrupt(view[r]) THEN "corrupt"
                 ELSE IF OwnerOf[ScanOf[r]] # ClientOf[r] THEN "notFound"
                 ELSE "answered"]
    /\ UNCHANGED <<status, verdict, checkRows, before>>

\* A SELECT fails: 500.
ReadFails(r) ==
    /\ pc[r] \in {"sent", "row"}
    /\ pc' = [pc EXCEPT ![r] = "failed"]
    /\ UNCHANGED <<status, verdict, checkRows, view, before>>

Next ==
    \/ \E s \in Scan : Accept(s) \/ Start(s) \/ \E v \in Result : Finish(s, v)
    \/ \E r \in Request :
          Send(r) \/ ReadRow(r) \/ ReadNoRow(r) \/ ReadChecks(r) \/ ReadFails(r)

Spec == Init /\ [][Next]_vars

-----------------------------------------------------------------------------
(* Properties.                                                             *)

Status == {"pending", "in_progress", "completed"}

Outcome == Result \cup {NoResult}

TypeOK ==
    /\ status \in [Scan -> Status \cup {"absent"}]
    /\ verdict \in [Scan -> Outcome]
    /\ checkRows \in [Scan -> Outcome]
    /\ pc \in [Request -> {"unsent", "sent", "row", "answered", "notFound", "corrupt", "failed"}]
    /\ view \in [Request -> [status : Status \cup {"absent"}, verdict : Outcome, checks : Outcome]]
    /\ before \in [Request -> SUBSET Request]
    /\ \A r \in Request : pc[r] \in {"row", "answered", "corrupt"} => view[r].status \in Status

\* However a completion falls between the two SELECTs, a client that reads
\* "completed" reads the check rows its score was made of, and no completed row
\* is found corrupt.  (The other tear is possible: "in_progress" with all its
\* check rows.)
CompletedIsWhole ==
    \A r \in Request :
        /\ pc[r] # "corrupt"
        /\ pc[r] = "answered" /\ view[r].status = "completed" =>
              view[r].verdict # NoResult /\ view[r].checks = view[r].verdict

\* The steps of a scan's life that a status stands for.
Passed(st) ==
    CASE st = "completed" -> {"accept", "start", "finish"}
      [] st = "in_progress" -> {"accept", "start"}
      [] OTHER -> {"accept"}

\* "poll: pending -> in_progress -> completed": a client that polls never sees a
\* scan go back, disappear, lose check rows or change its result, even when a
\* read is torn between two states.
ViewsNeverGoBack ==
    \A r \in Request : \A q \in before[r] :
        /\ pc[r] # "notFound"
        /\ pc[r] = "answered" =>
              /\ Passed(view[q].status) \subseteq Passed(view[r].status)
              /\ view[q].status = "completed" => view[r] = view[q]
              /\ view[q].checks # NoResult => view[r].checks = view[q].checks
=============================================================================
