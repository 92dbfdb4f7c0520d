------------------------ MODULE MCReleaseReadiness ------------------------
(* A small instance of ReleaseReadiness for TLC. *)
EXTENDS ReleaseReadiness

CONSTANTS m1, mock

Env(gate, url, local, keys) ==
    [gate |-> gate, url |-> url, local |-> local, keys |-> keys,
     ids |-> [c \in Clouds |-> IF c = "google_gemini" THEN <<m1>> ELSE <<>>]]
MCEnvironments ==
    { Env(TRUE, "mock", <<m1>>, {}), Env(TRUE, "unnamed", <<m1, mock>>, {}),
      Env(TRUE, "unnamed", <<m1>>, {}), Env(TRUE, "real", <<>>, Clouds),
      Env(FALSE, "real", <<m1>>, Clouds), Env(TRUE, "none", <<>>, {}) }
MCOffers == { <<>>, <<mock>>, <<m1, mock>> }
MCRequirements == <<"kubeconfig", "auth-provider">>

All(form) == [item \in Items |-> form]
MCInitialFiles ==
    { All("valid"), [All("valid") EXCEPT !["live"] = "rejected"],
      [All("valid") EXCEPT !["auth-provider"] = "unset"] }
MCRewrites == {"absent", "undecodable", "broken", "misshapen", "rejected", "valid"}

(* Live checks and readiness commands share the recorded artifact alone,   *)
(* so that one kind or the other is explored; live checks up to the first  *)
(* record of a result.                                                     *)
LiveChecks == run.at = "idle" /\ ~report.done /\ \A item \in Items \ {"live"} : files[item] = "valid"
Reports == op.at = "idle" /\ results = <<>> /\ ~probe.done /\ env.url = "none" /\ switches = 0
OneKind == LiveChecks \/ Reports
UpToRecord == rewrites = 0 \/ Reports
=============================================================================
