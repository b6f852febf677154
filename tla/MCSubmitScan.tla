---------------------------- MODULE MCSubmitScan ----------------------------
(* Instances of SubmitScan for TLC. *)
EXTENDS SubmitScan, TLC

CONSTANTS q1, q2, q3, a1, a2, c1, c2, k1, h1, h2

ThreeRequests == {q1, q2, q3}
TwoApis == {a1, a2}
OneApi == {a1}
TwoClients == {c1, c2}
OneClient == {c1}
OneKey == {k1}
TwoHashes == {h1, h2}

\* Requests, processes, clients and bodies are interchangeable.
Symmetry == Permutations(ThreeRequests) \cup Permutations(TwoApis)
            \cup Permutations(TwoClients) \cup Permutations(TwoHashes)
=============================================================================
