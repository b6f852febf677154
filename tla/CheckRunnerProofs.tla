--------------------------- MODULE CheckRunnerProofs ---------------------------
(***************************************************************************)
(* Proofs about CheckRunner for any checks, any severities and any         *)
(* behaviour of the checks.                                                *)
(***************************************************************************)
EXTENDS CheckRunner, TLAPS

\* What the runner's variables say of one check: nothing before its launch; a
\* timeout is armed only while the race is open; a check that heeds its signal
\* does not outlive the race.
CheckInv(c) ==
    /\ c \in toLaunch => work[c] = "none" /\ recorded[c] = NotRun
    /\ timer[c] => work[c] = "pending" /\ recorded[c] = NotRun
    /\ c \notin toLaunch /\ recorded[c] = NotRun => timer[c]
    /\ c \in heeds /\ recorded[c] # NotRun => work[c] # "pending"

Inv ==
    /\ TypeOK
    /\ \A c \in Checks : CheckInv(c)
    /\ ~unhandled

\* The invariant holds when runChecks is called.
LEMMA InvInit == Init => Inv
BY ChecksAssumption DEF Init, Inv, TypeOK, CheckInv, Finding, Recording!Finding

\* Every step of the runner, of a check or of a timer keeps the invariant.
LEMMA InvNext == Inv /\ [Next]_vars => Inv'
<1> SUFFICES ASSUME Inv, [Next]_vars PROVE Inv'
  OBVIOUS
<1> USE ChecksAssumption, ErroredAssumption DEF Inv, TypeOK, CheckInv
<1>1. CASE UNCHANGED vars
  BY <1>1 DEF vars
<1>2. ASSUME NEW c \in Checks, Launch(c) PROVE Inv'
  BY <1>2 DEF Launch
<1>3. ASSUME NEW c \in Checks, Throw(c) PROVE Inv'
  BY <1>3 DEF Throw, Finding, Recording!Finding
<1>4. ASSUME NEW c \in Checks, NEW f \in Severity \cup {Errored}, Answer(c, f) PROVE Inv'
  BY <1>4, NotRunAssumption DEF Answer, Finding, Recording!Finding
<1>5. ASSUME NEW c \in Checks, AnswerLate(c) PROVE Inv'
  BY <1>5 DEF AnswerLate
<1>6. ASSUME NEW c \in Checks, Expire(c) PROVE Inv'
  BY <1>6 DEF Expire, Aborted, Finding, Recording!Finding
<1> QED
  BY <1>1, <1>2, <1>3, <1>4, <1>5, <1>6 DEF Next

\* The inductive invariant holds in every reachable state.
LEMMA InvHolds == Spec => []Inv
BY InvInit, InvNext, PTL DEF Spec

\* Type correctness of the runner: a check is recorded with a severity it
\* reported or as errored, whichever way it ended.
THEOREM TypeCorrect == Spec => []TypeOK
<1>1. Inv => TypeOK
  BY DEF Inv
<1> QED
  BY <1>1, InvHolds, PTL

\* Once runChecks has returned no timeout is armed and no check that heeds its
\* signal is at work.
THEOREM NothingLeft == Spec => []NothingLeftBehind
<1>1. Inv => NothingLeftBehind
  BY DEF Inv, TypeOK, CheckInv, NothingLeftBehind, Returned
<1> QED
  BY <1>1, InvHolds, PTL

\* No check, however it fails, leaves a rejection without a listener.
THEOREM NothingUnhandled == Spec => []NoUnhandledRejection
<1>1. Inv => NoUnhandledRejection
  BY DEF Inv, NoUnhandledRejection
<1> QED
  BY <1>1, InvHolds, PTL

\* The runner implements Scoring's recording: each check once, late answers
\* ignored.
THEOREM RunnerImplementsRecording == Spec => ImplementsRecording
<1>1. Init => Recording!Init
  BY DEF Init, Recording!Init
<1>2. Inv /\ [Next]_vars => [Recording!Next]_recorded
  <2> SUFFICES ASSUME Inv, [Next]_vars PROVE [Recording!Next]_recorded
    OBVIOUS
  <2> USE ChecksAssumption, ErroredAssumption, NotRunAssumption
  <2>0. \A c \in Checks, f \in Severity \cup {Errored} : Recording!Record(c, f) => Recording!Next
    BY DEF Recording!Next, Recording!Finding
  <2>1. CASE UNCHANGED vars
    BY <2>1 DEF vars
  <2>2. ASSUME NEW c \in Checks, Launch(c) \/ AnswerLate(c) PROVE UNCHANGED recorded
    BY <2>2 DEF Launch, AnswerLate
  <2>3. ASSUME NEW c \in Checks, Throw(c) PROVE Recording!Record(c, Errored)
    BY <2>3 DEF Throw, Inv, CheckInv, Recording!Record
  <2>4. ASSUME NEW c \in Checks, NEW f \in Severity \cup {Errored}, Answer(c, f)
        PROVE Recording!Record(c, f)
    BY <2>4 DEF Answer, Recording!Record
  <2>5. ASSUME NEW c \in Checks, Expire(c) PROVE Recording!Record(c, Errored)
    BY <2>5 DEF Expire, Inv, TypeOK, CheckInv, Recording!Record
  <2> QED
    BY <2>0, <2>1, <2>2, <2>3, <2>4, <2>5 DEF Next
<1> QED
  BY <1>1, <1>2, InvHolds, PTL DEF Spec, ImplementsRecording, Recording!Spec

-----------------------------------------------------------------------------
(* The safety half of AlwaysReturns: something can always move runChecks   *)
(* on, and only finitely many steps can be taken before it has returned.   *)

\* The runner has a check to launch or a timeout to wait for until it returns.
THEOREM NeverHangs == Spec => []NeverWaitsOnACheck
<1>1. Inv => NeverWaitsOnACheck
  BY DEF Inv, CheckInv, NeverWaitsOnACheck, Returned, Launched
<1> QED
  BY <1>1, InvHolds, PTL

\* Each check takes at most three steps: its launch, its end and its timeout.
THEOREM Terminates == Spec => EveryStepProgresses
<1> DEFINE Nearer(c) == /\ Left(c)' < Left(c)
                        /\ \A d \in Checks \ {c} : Left(d)' = Left(d)
<1>1. ASSUME Inv, [Next]_vars PROVE [\E c \in Checks : Nearer(c)]_vars
  <2> USE <1>1 DEF Inv, TypeOK, CheckInv, Left
  <2>1. CASE UNCHANGED vars
    BY <2>1
  <2>2. ASSUME NEW c \in Checks, Launch(c) PROVE Nearer(c)
    BY <2>2 DEF Launch
  <2>3. ASSUME NEW c \in Checks, Throw(c) PROVE Nearer(c)
    BY <2>3 DEF Throw
  <2>4. ASSUME NEW c \in Checks, NEW f \in Severity \cup {Errored}, Answer(c, f) PROVE Nearer(c)
    BY <2>4 DEF Answer
  <2>5. ASSUME NEW c \in Checks, AnswerLate(c) PROVE Nearer(c)
    BY <2>5 DEF AnswerLate
  <2>6. ASSUME NEW c \in Checks, Expire(c) PROVE Nearer(c)
    BY <2>6 DEF Expire, Aborted
  <2> HIDE DEF Nearer
  <2> QED
    BY <2>1, <2>2, <2>3, <2>4, <2>5, <2>6 DEF Next
<1> QED
  BY <1>1, InvHolds, PTL DEF Spec, EveryStepProgresses
=============================================================================
