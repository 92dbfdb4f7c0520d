----------------------------- MODULE JobLedger -----------------------------
(***************************************************************************)
(* What a translation backend promises to the client that submitted a job, *)
(* whatever queue, workers and tables stand behind it: an accepted job is  *)
(* queued, it is settled once, a success is published together with its    *)
(* TranslationBundle, a settled job never changes again, and every         *)
(* accepted job is settled in the end.                                     *)
(*                                                                         *)
(* "Settled" is TERMINAL_JOB_STATUSES of edc_translation/jobs.py.          *)
(***************************************************************************)
CONSTANT Jobs       \* the job ids clients may use

VARIABLES status,   \* status[j]: what a status request for j reports
          bundles   \* the jobs whose TranslationBundle is stored

vars == <<status, bundles>>

Statuses == {"absent", "queued", "succeeded", "failed"}
Settled == {"succeeded", "failed"}

Init == /\ status = [j \in Jobs |-> "absent"]
        /\ bundles = {}

Accept(j) == /\ status[j] = "absent"
             /\ status' = [status EXCEPT ![j] = "queued"]
             /\ UNCHANGED bundles

Succeed(j) == /\ status[j] = "queued"
              /\ status' = [status EXCEPT ![j] = "succeeded"]
              /\ bundles' = bundles \cup {j}

Fail(j) == /\ status[j] = "queued"
           /\ status' = [status EXCEPT ![j] = "failed"]
           /\ UNCHANGED bundles

Settle(j) == Succeed(j) \/ Fail(j)

Next == \E j \in Jobs : Accept(j) \/ Settle(j)

(* Clients need not submit anything; what they submit is settled. *)
Fairness == \A j \in Jobs : WF_vars(Settle(j))

SafetySpec == Init /\ [][Next]_vars
Spec == SafetySpec /\ Fairness
=============================================================================
