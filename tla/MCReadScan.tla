------------------------------ MODULE MCReadScan ------------------------------
(* Instance of ReadScan for TLC: one scan with two possible results, three  *)
(* requests of its owner and one of another client.                         *)
EXTENDS ReadScan, TLC

CONSTANTS s1, v1, v2, alice, bob, q1, q2, q3, q4

Owner == [s \in {s1} |-> alice]
Path == [r \in {q1, q2, q3, q4} |-> s1]
Sender == [r \in {q1, q2, q3, q4} |-> IF r = q4 THEN bob ELSE alice]
Polls == Permutations({q1, q2, q3})
=============================================================================
