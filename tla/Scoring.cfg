\* All results of up to three checks with severities at the boundaries.
SPECIFICATION Spec
CONSTANTS
    Severity <- Severities9
    NotRun = NotRun
    Errored = Errored
INVARIANTS
    ScoreIsMean
    WorseIsNotSafer
    VerdictIsExact
PROPERTIES
    OutageIsNeutral
\* The checks end: a scan with all its results recorded stops.
CHECK_DEADLOCK FALSE
