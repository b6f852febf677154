---------------------------- MODULE MCScanConsumer ----------------------------
(* An instance of ScanConsumer for TLC. *)
EXTENDS ScanConsumer

CONSTANTS s1, s2, gone, w1, w2
=============================================================================
