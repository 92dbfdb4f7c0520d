---------------------------- MODULE PgWorkQueue ----------------------------
(***************************************************************************)
(* The durable Postgres backend: API processes that submit jobs, worker    *)
(* daemons that claim, translate and acknowledge them, and the tables they *)
(* share (edc_translation/postgres_backend.py, worker.py, jobs.py).        *)
(*                                                                         *)
(* Every database transaction (submit, poll, ack, nack) is one step here;  *)
(* PgRowLocks takes the same transactions apart into statements and row    *)
(* locks.  Between a worker's transactions anything may happen: other      *)
(* workers run, the process is killed, the claim outlives its visibility   *)
(* timeout.                                                                *)
(*                                                                         *)
(* Time is not a number.  What the SQL tells apart is whether available_at *)
(* has been reached and whether locked_at is older than the visibility     *)
(* timeout, so each row carries these two facts (delayed, stale) and time  *)
(* passing is the step that changes them.                                  *)
(***************************************************************************)
EXTENDS Integers

CONSTANTS
  Jobs,         \* the job ids; a job has one work item, "<job_id>:document"
  Workers,      \* worker processes
  WorkerIds,    \* the values the processes pass as --worker-id
  WorkerId,     \* WorkerId[w]: the --worker-id of process w
  SlowWorkers,  \* processes whose translation may outlast the visibility timeout
  MaxAttempts,  \* PostgresQueueSettings.max_attempts
  MaxCrashes,   \* bound: how often a process dies instead of leaving its loop
  MaxOverruns,  \* bound: how often a translation outlasts the visibility timeout
  NoJob,        \* "holds no work item"
  NoId          \* SQL NULL in locked_by

ASSUME ConstantsAssumption ==
  /\ MaxAttempts \in Nat \ {0}
  /\ MaxCrashes \in Nat
  /\ MaxOverruns \in Nat
  /\ SlowWorkers \subseteq Workers
  /\ WorkerId \in [Workers -> WorkerIds]
  /\ NoJob \notin Jobs
  /\ NoId \notin WorkerIds

VARIABLES
  jobStatus,    \* translation_jobs.status, "absent" for no row
  results,      \* the jobs with a row in translation_results
  workStatus,   \* translation_work_queue.status, "absent" for no row
  lockedBy,     \* translation_work_queue.locked_by
  attempts,     \* translation_work_queue.attempts
  delayed,      \* available_at is still in the future
  stale,        \* locked_at is older than the visibility timeout
  deadLetters,  \* deadLetters[j]: the rows of translation_dead_letters for j
  pc,           \* where a worker process is in run_forever / run_once
  holds,        \* the work item it is working on
  outcome,      \* TranslationWorkerResult.status of that item
  stop,         \* its stop flag is set (SIGTERM or SIGINT)
  claimNo,      \* history: value of attempts when the process claimed its item
  crashes,      \* history: processes that died so far
  overruns      \* history: claims that outlived the visibility timeout so far

jobVars == <<jobStatus, results, deadLetters>>
workVars == <<workStatus, lockedBy, attempts, delayed, stale>>
workerVars == <<pc, holds, outcome, stop, claimNo>>
faultVars == <<crashes, overruns>>
vars == <<jobVars, workVars, workerVars, faultVars>>

JobStatuses == {"absent", "queued", "succeeded", "failed"}
WorkStatuses == {"absent", "queued", "running", "succeeded", "failed"}
TerminalJobStatuses == {"succeeded", "failed"}

-----------------------------------------------------------------------------
(* Workers that hold a claimed item, and the state of claims.               *)

Holding == {w \in Workers : pc[w] \in {"busy", "done"}}

(* The processes still working on the claim that row j records. *)
Holders(j) == {w \in Holding : holds[w] = j /\ WorkerId[w] = lockedBy[j]}

(* Mutants: the claim that never takes over an expired row, and the one     *)
(* that takes over any running row.                                         *)
ClaimableOnlyQueued(j) == workStatus[j] = "queued" /\ ~delayed[j]
ClaimableUnexpired(j) == \/ workStatus[j] = "queued" /\ ~delayed[j]
                         \/ workStatus[j] = "running"

(* The WHERE clause of CLAIM_WORK_SQL. *)
Claimable(j) == \/ workStatus[j] = "queued" /\ ~delayed[j]
                \/ workStatus[j] = "running" /\ stale[j]

-----------------------------------------------------------------------------
Init ==
  /\ jobStatus = [j \in Jobs |-> "absent"]
  /\ results = {}
  /\ workStatus = [j \in Jobs |-> "absent"]
  /\ lockedBy = [j \in Jobs |-> NoId]
  /\ attempts = [j \in Jobs |-> 0]
  /\ delayed = [j \in Jobs |-> FALSE]
  /\ stale = [j \in Jobs |-> FALSE]
  /\ deadLetters = [j \in Jobs |-> 0]
  /\ pc = [w \in Workers |-> "idle"]
  /\ holds = [w \in Workers |-> NoJob]
  /\ outcome = [w \in Workers |-> "none"]
  /\ stop = [w \in Workers |-> FALSE]
  /\ claimNo = [w \in Workers |-> 0]
  /\ crashes = 0
  /\ overruns = 0

(* The API inserts the job and its work item in one transaction.  A second  *)
(* submission under the same job id breaks the primary key and is rolled    *)
(* back whole, so it changes nothing.                                       *)
Submit(j) ==
  /\ jobStatus[j] = "absent"
  /\ jobStatus' = [jobStatus EXCEPT ![j] = "queued"]
  /\ workStatus' = [workStatus EXCEPT ![j] = "queued"]
  /\ UNCHANGED <<results, deadLetters, lockedBy, attempts, delayed, stale>>
  /\ UNCHANGED <<workerVars, faultVars>>

-----------------------------------------------------------------------------
(* run_forever: test the stop flag, then poll.  The two are separate steps, *)
(* so the signal may arrive between them.                                   *)

EnterPoll(w) ==
  /\ pc[w] = "idle" /\ ~stop[w]
  /\ pc' = [pc EXCEPT ![w] = "polling"]
  /\ UNCHANGED <<holds, outcome, stop, claimNo, jobVars, workVars, faultVars>>

LeaveLoop(w) ==
  /\ pc[w] = "idle" /\ stop[w]
  /\ pc' = [pc EXCEPT ![w] = "down"]
  /\ UNCHANGED <<holds, outcome, stop, claimNo, jobVars, workVars, faultVars>>

(* No row was claimable when the statement looked, or other transactions    *)
(* had the claimable ones locked.                                           *)
PollEmpty(w) ==
  /\ pc[w] = "polling"
  /\ pc' = [pc EXCEPT ![w] = "idle"]
  /\ UNCHANGED <<holds, outcome, stop, claimNo, jobVars, workVars, faultVars>>

(* Mutant: locked_by is only filled when it is NULL. *)
TakeKeepingLock(w, j) ==
  /\ workStatus' = [workStatus EXCEPT ![j] = "running"]
  /\ lockedBy' = [lockedBy EXCEPT ![j] = IF @ = NoId THEN WorkerId[w] ELSE @]
  /\ attempts' = [attempts EXCEPT ![j] = @ + 1]
  /\ stale' = [stale EXCEPT ![j] = FALSE]
  /\ UNCHANGED delayed

(* The UPDATE of CLAIM_WORK_SQL: row j goes to worker w. *)
Take(w, j) ==
  /\ workStatus' = [workStatus EXCEPT ![j] = "running"]
  /\ lockedBy' = [lockedBy EXCEPT ![j] = WorkerId[w]]
  /\ attempts' = [attempts EXCEPT ![j] = @ + 1]
  /\ stale' = [stale EXCEPT ![j] = FALSE]
  /\ UNCHANGED delayed

(* poll.  Which claimable row it gets depends on ORDER BY and SKIP LOCKED   *)
(* at the moment the statement runs, not at the commit: here it is any, and *)
(* PgRowLocks has the choice.                                               *)
Claim(w, j) ==
  /\ pc[w] = "polling"
  /\ Claimable(j)
  /\ Take(w, j)
  /\ pc' = [pc EXCEPT ![w] = "busy"]
  /\ holds' = [holds EXCEPT ![w] = j]
  /\ claimNo' = [claimNo EXCEPT ![w] = attempts[j] + 1]
  /\ UNCHANGED <<outcome, stop, jobVars, faultVars>>

(* process: any exception of the translation becomes a failed result. *)
Translate(w, o) ==
  /\ pc[w] = "busy"
  /\ pc' = [pc EXCEPT ![w] = "done"]
  /\ outcome' = [outcome EXCEPT ![w] = o]
  /\ UNCHANGED <<holds, stop, claimNo, jobVars, workVars, faultVars>>

(* The process has finished its transaction and goes back to the loop. *)
Release(w) ==
  /\ pc' = [pc EXCEPT ![w] = "idle"]
  /\ holds' = [holds EXCEPT ![w] = NoJob]
  /\ outcome' = [outcome EXCEPT ![w] = "none"]
  /\ claimNo' = [claimNo EXCEPT ![w] = 0]
  /\ UNCHANGED stop

(* Mutant: the update matches the work row whoever holds it. *)
OwnsAnyRow(w, j) == TRUE

(* WHERE work_id = ... AND locked_by = %(worker_id)s. *)
OwnsRow(w, j) == lockedBy[j] = WorkerId[w]

(* The work row leaves "running" for status s and loses its lock. *)
Unlock(j, s) ==
  /\ workStatus' = [workStatus EXCEPT ![j] = s]
  /\ lockedBy' = [lockedBy EXCEPT ![j] = NoId]
  /\ stale' = [stale EXCEPT ![j] = FALSE]
  /\ UNCHANGED attempts

MarkWorkSucceeded(w, j) ==
  \/ OwnsRow(w, j) /\ Unlock(j, "succeeded") /\ UNCHANGED delayed
  \/ ~OwnsRow(w, j) /\ UNCHANGED workVars

(* ack: the result and the job are written whoever owns the work row now;   *)
(* only the update of the work row looks at locked_by.                      *)
Ack(w) ==
  LET j == holds[w] IN
  /\ pc[w] = "done" /\ outcome[w] = "succeeded"
  /\ results' = results \cup {j}
  /\ jobStatus' = [jobStatus EXCEPT ![j] = "succeeded"]
  /\ MarkWorkSucceeded(w, j)
  /\ Release(w)
  /\ UNCHANGED <<deadLetters, faultVars>>

(* Mutant: one attempt too many. *)
ExhaustedLate(j) == attempts[j] > MaxAttempts

(* attempts >= %(max_attempts)s in MARK_WORK_FAILED_SQL. *)
Exhausted(j) == attempts[j] >= MaxAttempts

(* Mutant: the job is reported as failed although it will be retried. *)
RequeueFailing(j) ==
  /\ Unlock(j, "queued")
  /\ delayed' = [delayed EXCEPT ![j] = TRUE]
  /\ jobStatus' = [jobStatus EXCEPT ![j] = "failed"]
  /\ UNCHANGED <<results, deadLetters>>

(* Another attempt, after the retry delay. *)
Requeue(j) ==
  /\ Unlock(j, "queued")
  /\ delayed' = [delayed EXCEPT ![j] = TRUE]
  /\ UNCHANGED jobVars

(* Mutants: the job is forgotten, or gets the name of the dead-letter table *)
(* as its status.                                                           *)
GiveUpSilently(j) ==
  /\ Unlock(j, "failed")
  /\ deadLetters' = [deadLetters EXCEPT ![j] = @ + 1]
  /\ UNCHANGED <<delayed, jobStatus, results>>
GiveUpAsDeadLetter(j) ==
  /\ Unlock(j, "failed")
  /\ deadLetters' = [deadLetters EXCEPT ![j] = @ + 1]
  /\ jobStatus' = [jobStatus EXCEPT ![j] = "dead_letter"]
  /\ UNCHANGED <<delayed, results>>

(* No attempt is left: the dead letter and the job go with the work row. *)
GiveUp(j) ==
  /\ Unlock(j, "failed")
  /\ deadLetters' = [deadLetters EXCEPT ![j] = @ + 1]
  /\ jobStatus' = [jobStatus EXCEPT ![j] = "failed"]
  /\ UNCHANGED <<delayed, results>>

(* nack: a worker that does not own the work row any more changes nothing. *)
Nack(w) ==
  LET j == holds[w] IN
  /\ pc[w] = "done" /\ outcome[w] = "failed"
  /\ \/ ~OwnsRow(w, j) /\ UNCHANGED <<jobVars, workVars>>
     \/ OwnsRow(w, j) /\ ~Exhausted(j) /\ Requeue(j)
     \/ OwnsRow(w, j) /\ Exhausted(j) /\ GiveUp(j)
  /\ Release(w)
  /\ UNCHANGED faultVars

-----------------------------------------------------------------------------
(* The environment: signals, process deaths and restarts, and the clock.    *)

Signal(w) ==
  /\ pc[w] # "down" /\ ~stop[w]
  /\ stop' = [stop EXCEPT ![w] = TRUE]
  /\ UNCHANGED <<pc, holds, outcome, claimNo, jobVars, workVars, faultVars>>

(* The process dies: killed, out of memory, or by an exception that         *)
(* run_once lets through (a failed ack or nack, for one).  Nothing it had   *)
(* not committed is kept, and a row it had claimed stays "running".         *)
Crash(w) ==
  /\ pc[w] \in {"polling", "busy", "done"}
  /\ crashes < MaxCrashes
  /\ crashes' = crashes + 1
  /\ pc' = [pc EXCEPT ![w] = "down"]
  /\ holds' = [holds EXCEPT ![w] = NoJob]
  /\ outcome' = [outcome EXCEPT ![w] = "none"]
  /\ claimNo' = [claimNo EXCEPT ![w] = 0]
  /\ UNCHANGED <<stop, jobVars, workVars, overruns>>

Restart(w) ==
  /\ pc[w] = "down"
  /\ pc' = [pc EXCEPT ![w] = "idle"]
  /\ stop' = [stop EXCEPT ![w] = FALSE]
  /\ UNCHANGED <<holds, outcome, claimNo, jobVars, workVars, faultVars>>

(* The retry delay of a failed attempt is over. *)
RetryDelayEnds(j) ==
  /\ delayed[j]
  /\ delayed' = [delayed EXCEPT ![j] = FALSE]
  /\ UNCHANGED <<workStatus, lockedBy, attempts, stale>>
  /\ UNCHANGED <<jobVars, workerVars, faultVars>>

GoStale(j) ==
  /\ workStatus[j] = "running" /\ ~stale[j]
  /\ stale' = [stale EXCEPT ![j] = TRUE]
  /\ UNCHANGED <<workStatus, lockedBy, attempts, delayed>>
  /\ UNCHANGED <<jobVars, workerVars>>

(* The visibility timeout passes on a claim whose process is gone ...       *)
AbandonedClaimExpires(j) ==
  /\ Holders(j) = {}
  /\ GoStale(j)
  /\ UNCHANGED faultVars

(* ... or on one whose process is only slow. *)
LiveClaimExpires(j) ==
  /\ Holders(j) # {} /\ Holders(j) \subseteq SlowWorkers
  /\ overruns < MaxOverruns
  /\ overruns' = overruns + 1
  /\ GoStale(j)
  /\ UNCHANGED crashes

-----------------------------------------------------------------------------
WorkerStep(w) ==
  \/ EnterPoll(w)
  \/ LeaveLoop(w)
  \/ PollEmpty(w)
  \/ \E j \in Jobs : Claim(w, j)
  \/ \E o \in {"succeeded", "failed"} : Translate(w, o)
  \/ Ack(w)
  \/ Nack(w)

Next ==
  \/ \E j \in Jobs : Submit(j)
  \/ \E w \in Workers : WorkerStep(w)
  \/ \E w \in Workers : Signal(w) \/ Crash(w) \/ Restart(w)
  \/ \E j \in Jobs : \/ RetryDelayEnds(j)
                     \/ AbandonedClaimExpires(j)
                     \/ LiveClaimExpires(j)

(* A live process keeps running; the deployment restarts processes that     *)
(* ended, and does not stop each of them before its first poll (strong      *)
(* fairness of EnterPoll); a poll keeps coming back empty only while other  *)
(* transactions hold the rows (strong fairness of Claim); time passes.      *)
(* Nothing forces clients to submit, nor faults to happen.                  *)
Fairness ==
  /\ \A w \in Workers :
       /\ SF_vars(EnterPoll(w))
       /\ WF_vars(LeaveLoop(w))
       /\ WF_vars(PollEmpty(w))
       /\ SF_vars(\E j \in Jobs : Claim(w, j))
       /\ WF_vars(\E o \in {"succeeded", "failed"} : Translate(w, o))
       /\ WF_vars(Ack(w) \/ Nack(w))
       /\ WF_vars(Restart(w))
  /\ \A j \in Jobs :
       /\ WF_vars(RetryDelayEnds(j))
       /\ WF_vars(AbandonedClaimExpires(j))

SafetySpec == Init /\ [][Next]_vars
Spec == SafetySpec /\ Fairness

-----------------------------------------------------------------------------
(* Every variable keeps its type; the tables only hold values their columns *)
(* are given by the code.                                                   *)
TypeOK ==
  /\ jobStatus \in [Jobs -> JobStatuses]
  /\ results \in SUBSET Jobs
  /\ workStatus \in [Jobs -> WorkStatuses]
  /\ lockedBy \in [Jobs -> WorkerIds \cup {NoId}]
  /\ attempts \in [Jobs -> Nat]
  /\ delayed \in [Jobs -> BOOLEAN]
  /\ stale \in [Jobs -> BOOLEAN]
  /\ deadLetters \in [Jobs -> Nat]
  /\ pc \in [Workers -> {"idle", "polling", "busy", "done", "down"}]
  /\ holds \in [Workers -> Jobs \cup {NoJob}]
  /\ outcome \in [Workers -> {"none", "succeeded", "failed"}]
  /\ stop \in [Workers -> BOOLEAN]
  /\ claimNo \in [Workers -> Nat]
  /\ crashes \in Nat
  /\ overruns \in Nat

(* The four tables tell one story about every job, in every interleaving of *)
(* acks, late acks, nacks and crashes: no work row is finished while the    *)
(* job still reads queued, a succeeded job has its result row, a finished   *)
(* work row agrees with the job, and a job reads failed only when its work  *)
(* row went to the dead letters, once.                                      *)
TablesAgree ==
  \A j \in Jobs :
    /\ jobStatus[j] = "absent" <=> workStatus[j] = "absent"
    /\ jobStatus[j] = "queued" => workStatus[j] \in {"queued", "running"}
    /\ jobStatus[j] = "succeeded" => j \in results
    /\ j \in results => jobStatus[j] \in {"succeeded", "failed"}
    /\ jobStatus[j] = "failed" => workStatus[j] = "failed"
    /\ workStatus[j] = "succeeded" => jobStatus[j] = "succeeded"
    /\ deadLetters[j] = (IF workStatus[j] = "failed" THEN 1 ELSE 0)

(* max_attempts bounds the failures a worker reports, and only those: every *)
(* claim beyond it was paid for by a process that died with the item or by  *)
(* a translation that outlasted the visibility timeout.                     *)
AttemptsWithinBudget ==
  \A j \in Jobs : attempts[j] <= MaxAttempts + crashes + overruns

(* A job is only given up after max_attempts claims. *)
GivenUpOnlyWhenExhausted ==
  \A j \in Jobs : workStatus[j] = "failed" => attempts[j] >= MaxAttempts

(* Retrying stops neither too late nor too early.                           *)
AttemptsSound == AttemptsWithinBudget /\ GivenUpOnlyWhenExhausted

(* locked_by identifies the latest claim: a process that passes the         *)
(* locked_by test of ack or nack is the one whose claim is recorded in the  *)
(* row, although the test compares process names and not claims.            *)
LockNamesLatestClaim ==
  \A w \in Holding : OwnsRow(w, holds[w]) => claimNo[w] = attempts[holds[w]]

(* When no translation outlasts the visibility timeout, no two processes    *)
(* ever work on the same item, in spite of crashes, restarts and retries.   *)
OneTranslationAtATime ==
  \A v, w \in Holding : holds[v] = holds[w] => v = w

(* Every submitted job is settled in the end: its row leaves the queue for  *)
(* "succeeded" or "failed", and the job reads the same or better.           *)
EventuallySettled ==
  \A j \in Jobs :
    jobStatus[j] = "queued" ~> /\ workStatus[j] \in {"succeeded", "failed"}
                               /\ jobStatus[j] \in TerminalJobStatuses

(* A status that jobs.py calls terminal changes to the other one only after *)
(* a translation has outlasted the visibility timeout and the item was      *)
(* claimed again: never through crashes, retries or late statements alone.  *)
RevisedOnlyAfterOverrun ==
  [][\A j \in Jobs :
       jobStatus[j] \in TerminalJobStatuses /\ jobStatus'[j] # jobStatus[j] =>
         /\ jobStatus'[j] \in TerminalJobStatuses
         /\ overruns > 0 /\ attempts[j] > 1]_vars

(* The promise of JobLedger, with the two tables clients read as its state. *)
Ledger == INSTANCE JobLedger WITH status <- jobStatus, bundles <- results
LedgerSpec == Ledger!Spec
=============================================================================
