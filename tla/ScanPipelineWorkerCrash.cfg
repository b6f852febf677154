\* One worker is killed or stopped once: does the redelivery complete the scan?
SPECIFICATION FairSpec
CONSTANTS
    r1 = r1
    r2 = r2
    w1 = w1
    w2 = w2
    done = done
    unknown = unknown
    NoResult = NoResult
    Scan <- OneScan
    Relay <- OneRelay
    Worker <- TwoWorkers
    Result <- OneResult
    BatchSize = 1
    Prefetch = 1
    MaxFaults <- WorkerFaultsOnly
PROPERTY EveryScanCompletes
