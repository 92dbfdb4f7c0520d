----------------------------- MODULE MCPgSubmit -----------------------------
(* Small instances of PgSubmit for TLC: three requests, two of them for the *)
(* same document and so for the same job id.                                *)
EXTENDS PgSubmit, TLC

CONSTANTS j1, j2, r1, r2, r3, c1, c2, c3

MCJobOf == r1 :> j1 @@ r2 :> j1 @@ r3 :> j2

(* Three API replicas, each with one request in flight. *)
OwnConn == r1 :> c1 @@ r2 :> c2 @@ r3 :> c3

(* One replica serves all three. *)
OneConn == [r \in Requests |-> c1]
=============================================================================
