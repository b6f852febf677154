\* Everything fails once: every event is published and every scan settles.
SPECIFICATION FairSpec
CONSTANTS
    r1 = r1
    r2 = r2
    w1 = w1
    w2 = w2
    done = done
    unknown = unknown
    NoResult = NoResult
    Scan <- TwoScans
    Relay <- OneRelay
    Worker <- OneWorker
    Result <- OneResult
    BatchSize = 1
    Prefetch = 2
    MaxFaults <- OneOfEach
PROPERTIES
    EveryEventPublished
    EveryScanSettles
