---------------------------- MODULE ScanLifecycle ----------------------------
(***************************************************************************)
(* What the service promises about one scan, whatever happens to its       *)
(* messages and processes: it is accepted once, started once, and          *)
(* finished once, and its result appears in the same instant as the status *)
(* "completed" and never changes afterwards.                               *)
(*                                                                         *)
(* This is the abstract specification that ScanPipeline implements.  Its   *)
(* states are the ones of ScanStatus (src/domain/scan/model.ts) that code  *)
(* writes; "failed" is declared there, but nothing calls failScan.         *)
(***************************************************************************)
CONSTANTS
    Scan,      \* scan ids
    Result,    \* what a finished scan records: its check rows, score, verdict
    NoResult   \* a scan that has recorded nothing

VARIABLES
    state,     \* the status column of each scan; "absent" while there is no row
    outcome    \* the result a client reads for each scan

vars == <<state, outcome>>

TypeOK ==
    /\ state \in [Scan -> {"absent", "pending", "in_progress", "completed"}]
    /\ outcome \in [Scan -> Result \cup {NoResult}]

Init ==
    /\ state = [s \in Scan |-> "absent"]
    /\ outcome = [s \in Scan |-> NoResult]

Accept(s) ==
    /\ state[s] = "absent"
    /\ state' = [state EXCEPT ![s] = "pending"]
    /\ UNCHANGED outcome

Start(s) ==
    /\ state[s] = "pending"
    /\ state' = [state EXCEPT ![s] = "in_progress"]
    /\ UNCHANGED outcome

Finish(s, v) ==
    /\ state[s] = "in_progress"
    /\ state' = [state EXCEPT ![s] = "completed"]
    /\ outcome' = [outcome EXCEPT ![s] = v]

Next ==
    \E s \in Scan :
        \/ Accept(s)
        \/ Start(s)
        \/ \E v \in Result : Finish(s, v)

Spec == Init /\ [][Next]_vars
=============================================================================
