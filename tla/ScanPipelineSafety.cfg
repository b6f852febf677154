\* Two relays and two workers, one fault of each kind, two results a scan may
\* come to: the safety properties and the refinement.
SPECIFICATION Spec
CONSTANTS
    r1 = r1
    r2 = r2
    w1 = w1
    w2 = w2
    done = done
    unknown = unknown
    NoResult = NoResult
    Scan <- TwoScans
    Relay <- TwoRelays
    Worker <- TwoWorkers
    Result <- TwoResults
    BatchSize = 2
    Prefetch = 1
    MaxFaults <- OneOfEach
SYMMETRY Symmetry
INVARIANTS
    NeverStranded
    NoLostEvent
    SingleProcessor
    ResultsWithStatus
    DuplicatesNeedFaults
    BlastRadius
PROPERTIES
    ImplementsLifecycle
    DrivesReadScan
