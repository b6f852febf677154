---------------------------- MODULE MCOutboxOrder ----------------------------
(* An instance of OutboxOrder for TLC. *)
EXTENDS OutboxOrder

CONSTANTS e1, e2, u, r1, r2, a1, a2

PowersOfBase == [k \in 0 .. Width |-> Base ^ k]
OneTickApart == [a \in Api |-> IF a = a1 THEN 0 ELSE 1]
=============================================================================
