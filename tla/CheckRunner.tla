------------------------------ MODULE CheckRunner ------------------------------
(***************************************************************************)
(* runChecks (src/checks/run-checks.ts): the checks of one scan run side   *)
(* by side, each raced against a timeout of its own, and every ending is   *)
(* recorded.  A step is what Node runs without returning to its timers: a  *)
(* callback and the promise reactions it causes.                           *)
(*                                                                         *)
(* A check is any implementation of the SecurityCheck port: it may throw   *)
(* before it returns a promise, answer, reject, answer after its timeout,  *)
(* or never settle.  Those in "heeds" stop when the signal fires, as the   *)
(* simulated ones do (src/checks/create-simulated-checks.ts).              *)
(***************************************************************************)
EXTENDS Integers

CONSTANTS
    Checks,    \* the ids of the checks to run
    Severity,  \* what CheckResult.score may be
    NotRun,    \* nothing recorded yet
    Errored    \* the check could not run

VARIABLES
    heeds,     \* the checks that stop when their signal fires
    toLaunch,  \* the checks that Promise.all's map has not come to
    work,      \* the promise that check.run returned
    timer,     \* whether the timeout's setTimeout is armed
    recorded,  \* what runOneCheck resolved to
    unhandled  \* a promise was rejected with nobody listening

vars == <<heeds, toLaunch, work, timer, recorded, unhandled>>

Recording == INSTANCE Scoring WITH checks <- recorded

Finding == Recording!Finding

ASSUME ChecksAssumption == Checks \subseteq Recording!CheckId
ASSUME NotRunAssumption == NotRun \notin Severity
ASSUME ErroredAssumption == Errored \notin Severity /\ Errored # NotRun

Init ==
    /\ heeds \in SUBSET Checks
    /\ toLaunch = Checks
    /\ work = [c \in Checks |-> "none"]
    /\ timer = [c \in Checks |-> FALSE]
    /\ recorded = [c \in Recording!CheckId |-> NotRun]
    /\ unhandled = FALSE

-----------------------------------------------------------------------------
(* Launching: the map runs every check up to its first await, before any   *)
(* timer can fire.                                                         *)

Launched == toLaunch = {}

\* The runner arms the timeout, the check returns a promise, both are raced.
Launch(c) ==
    /\ c \in toLaunch
    /\ toLaunch' = toLaunch \ {c}
    /\ work' = [work EXCEPT ![c] = "pending"]
    /\ timer' = [timer EXCEPT ![c] = TRUE]
    /\ UNCHANGED <<heeds, recorded, unhandled>>

\* Mutant: no finally, the timeout of a check that threw stays armed.
ThrowKeepingTimer(c) ==
    /\ c \in toLaunch
    /\ toLaunch' = toLaunch \ {c}
    /\ work' = [work EXCEPT ![c] = "threw"]
    /\ timer' = [timer EXCEPT ![c] = TRUE]
    /\ recorded' = [recorded EXCEPT ![c] = Errored]
    /\ UNCHANGED <<heeds, unhandled>>

\* check.run throws: the race is never entered, so nobody listens to the
\* timeout's promise.  The error is recorded and finally clears the timer.
Throw(c) ==
    /\ c \in toLaunch
    /\ toLaunch' = toLaunch \ {c}
    /\ work' = [work EXCEPT ![c] = "threw"]
    /\ recorded' = [recorded EXCEPT ![c] = Errored]
    /\ UNCHANGED <<heeds, timer, unhandled>>

-----------------------------------------------------------------------------
(* Settling: the race takes whichever promise settles first.               *)

\* Mutant: the check's own callback records its answer, whenever it comes.
AnswerAnyTime(c, f) ==
    /\ Launched
    /\ work[c] = "pending"
    /\ work' = [work EXCEPT ![c] = "settled"]
    /\ recorded' = [recorded EXCEPT ![c] = f]
    /\ timer' = [timer EXCEPT ![c] = FALSE]
    /\ UNCHANGED <<heeds, toLaunch, unhandled>>

\* The check fulfils with a severity, or rejects or fulfils with an error.
Answer(c, f) ==
    /\ Launched
    /\ work[c] = "pending"
    /\ recorded[c] = NotRun
    /\ work' = [work EXCEPT ![c] = "settled"]
    /\ recorded' = [recorded EXCEPT ![c] = f]
    /\ timer' = [timer EXCEPT ![c] = FALSE]
    /\ UNCHANGED <<heeds, toLaunch, unhandled>>

\* A check that ignored the signal settles when the race is decided.
AnswerLate(c) ==
    /\ Launched
    /\ work[c] = "pending"
    /\ recorded[c] # NotRun
    /\ work' = [work EXCEPT ![c] = "settled"]
    /\ UNCHANGED <<heeds, toLaunch, timer, recorded, unhandled>>

\* The abort reaches the check: one that heeds it clears its own timer and
\* rejects.
Aborted(c) ==
    IF c \in heeds /\ work[c] = "pending" THEN [work EXCEPT ![c] = "settled"] ELSE work

\* Mutant: Promise.race alone, the signal never fires.
ExpireWithoutAbort(c) ==
    /\ Launched
    /\ timer[c]
    /\ timer' = [timer EXCEPT ![c] = FALSE]
    /\ recorded' = [recorded EXCEPT ![c] = IF @ = NotRun THEN Errored ELSE @]
    /\ unhandled' = (unhandled \/ work[c] = "threw")
    /\ UNCHANGED <<heeds, toLaunch, work>>

\* Mutant: the timeout aborts the check and leaves the rejecting to it.
ExpireWithoutReject(c) ==
    /\ Launched
    /\ timer[c]
    /\ timer' = [timer EXCEPT ![c] = FALSE]
    /\ work' = Aborted(c)
    /\ recorded' = [recorded EXCEPT ![c] = IF @ = NotRun /\ c \in heeds THEN Errored ELSE @]
    /\ UNCHANGED <<heeds, toLaunch, unhandled>>

\* The timeout fires: it aborts the check and rejects its promise.
Expire(c) ==
    /\ Launched
    /\ timer[c]
    /\ timer' = [timer EXCEPT ![c] = FALSE]
    /\ work' = Aborted(c)
    /\ recorded' = [recorded EXCEPT ![c] = IF @ = NotRun THEN Errored ELSE @]
    /\ unhandled' = (unhandled \/ work[c] = "threw")
    /\ UNCHANGED <<heeds, toLaunch>>

Next ==
    \E c \in Checks :
        \/ Launch(c)
        \/ Throw(c)
        \/ \E f \in Severity \cup {Errored} : Answer(c, f)
        \/ AnswerLate(c)
        \/ Expire(c)

Spec == Init /\ [][Next]_vars

\* Synchronous code finishes and the event loop fires a timer that is due.  No
\* check is assumed ever to settle.
Fairness ==
    \A c \in Checks : WF_vars(Launch(c) \/ Throw(c)) /\ WF_vars(Expire(c))

FairSpec == Spec /\ Fairness

-----------------------------------------------------------------------------
(* Properties.                                                             *)

TypeOK ==
    /\ heeds \subseteq Checks
    /\ toLaunch \subseteq Checks
    /\ work \in [Checks -> {"none", "pending", "settled", "threw"}]
    /\ timer \in [Checks -> BOOLEAN]
    /\ recorded \in [Recording!CheckId -> Finding]
    /\ unhandled \in BOOLEAN

\* "Promise.all resolved"
Returned == Launched /\ \A c \in Checks : recorded[c] # NotRun

\* "a check that answered in time leaves nothing behind": when runChecks has
\* returned no timeout keeps the event loop alive, and the only work that goes
\* on is of checks that ignore their signal.
NothingLeftBehind ==
    Returned => \A c \in Checks : ~timer[c] /\ (work[c] = "pending" => c \notin heeds)

\* An unhandled rejection ends the worker and every scan it holds.  None
\* happens, though a check that throws at once leaves the timeout's promise
\* without a listener.
NoUnhandledRejection == ~unhandled

\* The recorded results are Scoring's: each check recorded once, and a late
\* answer of a timed-out check changes nothing.
ImplementsRecording == Recording!Spec

\* runChecks never waits for a check that may not settle: while it has not
\* returned there is a check to launch, or an armed timeout that will end the
\* race of every check still out.
NeverWaitsOnACheck ==
    ~ Returned =>
        \/ ~ Launched
        \/ /\ \E c \in Checks : timer[c]
           /\ \A c \in Checks : recorded[c] = NotRun => timer[c]

\* How much of check c is left: the stages before its end, and its timeout.
Left(c) ==
    (CASE work[c] = "none" -> 2 [] work[c] = "pending" -> 1 [] OTHER -> 0)
    + (IF timer[c] \/ work[c] = "none" THEN 1 ELSE 0)

\* Nothing is done twice and no check holds up another: every step brings one
\* check nearer its end and leaves the others where they are.
EveryStepProgresses ==
    [][\E c \in Checks : /\ Left(c)' < Left(c)
                         /\ \A d \in Checks \ {c} : Left(d)' = Left(d)]_vars

\* "It never throws and never short-circuits": runChecks returns, with every
\* check recorded, even when no check ever settles.
AlwaysReturns == <>Returned
=============================================================================
