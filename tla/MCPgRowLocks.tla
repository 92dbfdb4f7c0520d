---------------------------- MODULE MCPgRowLocks ----------------------------
(* A small instance of PgRowLocks for TLC. *)
EXTENDS PgRowLocks, TLC

CONSTANTS j1, j2, w1, w2

OwnIds == [w \in Workers |-> w]

(* j2 is urgent. *)
MCPriority == [j \in Jobs |-> IF j = j2 THEN 1 ELSE 0]
=============================================================================
