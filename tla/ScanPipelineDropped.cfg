\* One database call of a worker fails: does the scan go failed?
SPECIFICATION FairSpec
CONSTANTS
    r1 = r1
    r2 = r2
    w1 = w1
    w2 = w2
    done = done
    unknown = unknown
    NoResult = NoResult
    Scan <- OneScan
    Relay <- OneRelay
    Worker <- OneWorker
    Result <- OneResult
    BatchSize = 1
    Prefetch = 1
    MaxFaults <- DatabaseFaultsOnly
PROPERTY DroppedScanFails
