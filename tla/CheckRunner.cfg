\* Three checks of any behaviour, every order of answers and timeouts.
SPECIFICATION FairSpec
CONSTANTS
    Checks <- AllChecks
    Severity <- TwoSeverities
    NotRun = NotRun
    Errored = Errored
INVARIANTS
    NeverWaitsOnACheck
    NothingLeftBehind
    NoUnhandledRejection
PROPERTIES
    ImplementsRecording
    AlwaysReturns
\* The checks end and runChecks returns.
CHECK_DEADLOCK FALSE
