------------------------------ MODULE MCScoring ------------------------------
(* Instance of Scoring for TLC: severities at and around the thresholds and *)
(* on both sides of the scale.                                              *)
EXTENDS Scoring

Severities9 == {-50, 0, 29, 31, 50, 69, 71, 100, 1000}
=============================================================================
