--------------------------- MODULE MCTokenStores ---------------------------
(* Small instances of TokenStores for TLC. *)
EXTENDS TokenStores, TLC

CONSTANTS r1, r2, adm1, adm2, p1, t1, t2

(* Two requests of one process, one of them with the token that is being   *)
(* revoked, while another token is issued.                                 *)
Placement == (r1 :> p1) @@ (r2 :> p1)
Ask(c, h, b) == [credential |-> c, header |-> h, body |-> b]
Questions == (r1 :> Ask(t1, "own", "own")) @@ (r2 :> Ask("jwt", "none", "other"))
Chores == (adm1 :> <<"revoke", t1>>) @@ (adm2 :> <<"issue", t2>>)
=============================================================================
