-------------------------------- MODULE Scoring --------------------------------
(***************************************************************************)
(* The results of a scan's checks and what scoreScan makes of them.  The   *)
(* checks of a scan are recorded one by one, each once, as a severity or   *)
(* as an error; score and verdict are functions of what is recorded.       *)
(*                                                                         *)
(* CheckRunner implements the recording.                                   *)
(***************************************************************************)
EXTENDS Integers

CONSTANTS
    Severity,  \* what CheckResult.score may be
    NotRun,    \* no result is recorded for the check
    Errored    \* the check could not run: outcome "error"

ASSUME SeverityAssumption == Severity \subseteq Int
ASSUME NotRunAssumption == NotRun \notin Severity
ASSUME ErroredAssumption == Errored \notin Severity /\ Errored # NotRun

CheckId == {"domain_age", "ssl_certificate", "redirect_chain"}

Finding == Severity \cup {NotRun, Errored}

VARIABLE checks    \* the result recorded for each check

-----------------------------------------------------------------------------
(* scoreScan, in the integers it works with.                               *)

checkWeightMap == [domain_age |-> 4, ssl_certificate |-> 3, redirect_chain |-> 2]

verdictThresholds == [suspicious |-> 30, malicious |-> 70]

NO_SCORE == 0

scoreOf(f) == IF f = Errored THEN NO_SCORE ELSE f

\* Mutant: an errored check counts as a pass.
hasResult(f) == f # NotRun

hasSignal(f) == f \notin {NotRun, Errored}

\* Mutant: a severity off the scale is ignored.
zeroOffScale(n) == IF n \in 0 .. 100 THEN n ELSE 0

clampToScale(n) == IF n < 0 THEN 0 ELSE IF n > 100 THEN 100 ELSE n

\* Mutant: checks that reported nothing stay in the denominator.
weightOfRun(cs, c) == IF cs[c] # NotRun THEN checkWeightMap[c] ELSE 0

\* What a check adds to either side of the fraction, nothing when filtered out.
weightOf(cs, c) == IF hasSignal(cs[c]) THEN checkWeightMap[c] ELSE 0

weightedOf(cs, c) ==
    IF hasSignal(cs[c]) THEN checkWeightMap[c] * clampToScale(scoreOf(cs[c])) ELSE 0

totalWeightOf(cs) ==
    weightOf(cs, "domain_age") + weightOf(cs, "ssl_certificate") + weightOf(cs, "redirect_chain")

weightedTotalOf(cs) ==
    weightedOf(cs, "domain_age") + weightedOf(cs, "ssl_certificate")
        + weightedOf(cs, "redirect_chain")

\* Mutant: Math.floor.
FlooredQuotient(n, d) == n \div d

\* Math.round(n / d), for n >= 0.
RoundedQuotient(n, d) == (2 * n + d) \div (2 * d)

threatScoreOf(cs) ==
    IF totalWeightOf(cs) = 0 THEN 0
    ELSE clampToScale(RoundedQuotient(weightedTotalOf(cs), totalWeightOf(cs)))

toVerdict(score) ==
    IF score >= verdictThresholds.malicious THEN "malicious"
    ELSE IF score >= verdictThresholds.suspicious THEN "suspicious"
    ELSE "clean"

verdictOf(cs) ==
    IF totalWeightOf(cs) = 0 THEN "unknown" ELSE toVerdict(threatScoreOf(cs))

-----------------------------------------------------------------------------
(* Recording.                                                              *)

Init == checks = [c \in CheckId |-> NotRun]

\* toScanCheck and toErroredScanCheck
Record(c, f) ==
    /\ checks[c] = NotRun
    /\ f # NotRun
    /\ checks' = [checks EXCEPT ![c] = f]

Next == \E c \in CheckId, f \in Finding : Record(c, f)

Spec == Init /\ [][Next]_checks

-----------------------------------------------------------------------------
(* Properties.                                                             *)

TypeOK == checks \in [CheckId -> Finding]

\* The score is a mean: between the least and the greatest severity, put on
\* the scale, that a check reported.  It is a number on the integer column's
\* scale for every input, never a NaN.
Severities == {clampToScale(checks[c]) : c \in {d \in CheckId : hasSignal(checks[d])}}

ScoreIsMean ==
    /\ threatScoreOf(checks) \in 0 .. 100
    /\ Severities # {} =>
          /\ \E v \in Severities : v <= threatScoreOf(checks)
          /\ \E v \in Severities : threatScoreOf(checks) <= v

\* "Counting it as a pass would let a WHOIS outage dilute a real failure":
\* recording an error changes neither the score nor the verdict.
OutageIsNeutral ==
    [][\A c \in CheckId :
          Record(c, Errored) =>
             /\ threatScoreOf(checks') = threatScoreOf(checks)
             /\ verdictOf(checks') = verdictOf(checks)]_checks

\* A worse finding never makes a scan look safer, whatever the other checks
\* reported and however the mean is rounded.
WorseIsNotSafer ==
    \A c \in CheckId, v \in Severity :
        hasSignal(checks[c]) /\ checks[c] <= v =>
            threatScoreOf(checks) <= threatScoreOf([checks EXCEPT ![c] = v])

\* The verdict by another way, with exact fractions: "unknown" if and only if
\* no check reported anything, else the weighted mean against the thresholds,
\* half a point below which rounding reaches them.
Mean(n, d) == n * weightedTotalOf(checks) >= d * totalWeightOf(checks)

VerdictIsExact ==
    verdictOf(checks) =
        IF \A c \in CheckId : checks[c] \in {NotRun, Errored} THEN "unknown"
        ELSE IF Mean(2, 139) THEN "malicious"
        ELSE IF Mean(2, 59) THEN "suspicious"
        ELSE "clean"
=============================================================================
