--------------------------- MODULE MCScanPipeline ---------------------------
(* Instances of ScanPipeline for TLC. *)
EXTENDS ScanPipeline, TLC

CONSTANTS r1, r2, w1, w2, done, unknown

FaultBound(relay, worker, database) ==
    [k \in FaultKind |-> CASE k = "relay" -> relay
                           [] k = "worker" -> worker
                           [] k = "database" -> database]

OneScan == {1}
TwoScans == {1, 2}
TwoRelays == {r1, r2}
OneRelay == {r1}
TwoWorkers == {w1, w2}
OneWorker == {w1}
OneResult == {done}
TwoResults == {done, unknown}

OneOfEach == FaultBound(1, 1, 1)
WorkerFaultsOnly == FaultBound(0, 1, 0)
DatabaseFaultsOnly == FaultBound(0, 0, 1)

\* Relays are interchangeable, and so are workers and results.
Symmetry == Permutations(TwoRelays) \cup Permutations(TwoWorkers) \cup Permutations(TwoResults)
=============================================================================
