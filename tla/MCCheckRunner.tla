---------------------------- MODULE MCCheckRunner ----------------------------
(* Instance of CheckRunner for TLC: all three checks of the CheckId enum,   *)
(* each answering with one of two severities.                               *)
EXTENDS CheckRunner

AllChecks == Recording!CheckId
TwoSeverities == {0, 100}
=============================================================================
