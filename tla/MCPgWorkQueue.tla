--------------------------- MODULE MCPgWorkQueue ---------------------------
(* Small instances of PgWorkQueue for TLC. *)
EXTENDS PgWorkQueue, TLC

CONSTANTS j1, j2, w1, w2

(* Every process has an id of its own, as the Helm chart's pod names give it. *)
OwnIds == [w \in Workers |-> w]
=============================================================================
