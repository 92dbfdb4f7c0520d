----------------------------- MODULE PgRowLocks -----------------------------
(***************************************************************************)
(* The transactions of PgWorkQueue taken apart into the statements they    *)
(* execute and the row locks these take, at PostgreSQL's default isolation *)
(* (READ COMMITTED): a statement sees what is committed when it runs, an   *)
(* UPDATE locks the rows it matches until the transaction ends and waits   *)
(* for a row somebody else has locked, SELECT ... FOR UPDATE SKIP LOCKED   *)
(* passes over such rows.                                                  *)
(*                                                                         *)
(* An update changes a row the transaction has locked, so nobody can see   *)
(* or overwrite it before the commit: each action below decides what its   *)
(* statement decides and the commit writes it.                             *)
(***************************************************************************)
EXTENDS PgWorkQueue, FiniteSets

CONSTANT Priority   \* Priority[j]: metadata["priority"] of the work item of j

ASSUME PriorityAssumption == Priority \in [Jobs -> Int]

VARIABLES
  createdAt,  \* translation_work_queue.created_at: the submissions before this one
  stmt,       \* the last statement executed by the open transaction of w, if any
  picked,     \* the row the open claim of w has locked
  verdict,    \* what w's update of its work row decided
  locks       \* the row locks: triples <<table, job, process>>

rowVars == <<createdAt, stmt, picked, verdict, locks>>
allVars == <<vars, rowVars>>

Tables == {"result", "job", "work"}

LockedByOther(t, j, w) == \E v \in Workers \ {w} : <<t, j, v>> \in locks

Lock(t, j, w) == /\ ~LockedByOther(t, j, w)
                 /\ locks' = locks \cup {<<t, j, w>>}

UnlockAll(w) == locks' = {l \in locks : l[3] # w}

RowInit ==
  /\ Init
  /\ createdAt = [j \in Jobs |-> 0]
  /\ stmt = [w \in Workers |-> "none"]
  /\ picked = [w \in Workers |-> NoJob]
  /\ verdict = [w \in Workers |-> "none"]
  /\ locks = {}

RowSubmit(j) ==
  /\ Submit(j)
  /\ createdAt' = [createdAt EXCEPT ![j] =
                     Cardinality({i \in Jobs : workStatus[i] # "absent"})]
  /\ UNCHANGED <<stmt, picked, verdict, locks>>

(* The transaction of w ends, by commit or rollback. *)
EndTransaction(w) ==
  /\ stmt' = [stmt EXCEPT ![w] = "none"]
  /\ picked' = [picked EXCEPT ![w] = NoJob]
  /\ verdict' = [verdict EXCEPT ![w] = "none"]
  /\ UnlockAll(w)
  /\ UNCHANGED createdAt

-----------------------------------------------------------------------------
(* poll: one statement that picks and locks, then the commit.               *)

(* ORDER BY priority DESC, created_at. *)
Precedes(i, j) == \/ Priority[i] > Priority[j]
                  \/ Priority[i] = Priority[j] /\ createdAt[i] < createdAt[j]

(* Mutant: SKIP LOCKED without the lock of another claim. *)
CandidatesLocked(w) == {j \in Jobs : Claimable(j)}

(* The rows CLAIM_WORK_SQL may choose from: FOR UPDATE SKIP LOCKED. *)
Candidates(w) == {j \in Jobs : Claimable(j) /\ ~LockedByOther("work", j, w)}

ClaimSelect(w, j) ==
  /\ pc[w] = "polling" /\ stmt[w] = "none"
  /\ j \in Candidates(w)
  /\ \A i \in Candidates(w) : ~Precedes(i, j)
  /\ locks' = locks \cup {<<"work", j, w>>}
  /\ stmt' = [stmt EXCEPT ![w] = "claimed"]
  /\ picked' = [picked EXCEPT ![w] = j]
  /\ UNCHANGED <<vars, createdAt, verdict>>

ClaimCommit(w) ==
  /\ stmt[w] = "claimed"
  /\ Take(w, picked[w])
  /\ pc' = [pc EXCEPT ![w] = "busy"]
  /\ holds' = [holds EXCEPT ![w] = picked[w]]
  /\ claimNo' = [claimNo EXCEPT ![w] = attempts[picked[w]] + 1]
  /\ UNCHANGED <<outcome, stop, jobVars, faultVars>>
  /\ EndTransaction(w)

ClaimNothing(w) ==
  /\ stmt[w] = "none"
  /\ Candidates(w) = {}
  /\ PollEmpty(w)
  /\ UNCHANGED rowVars

-----------------------------------------------------------------------------
(* ack: SAVE_RESULT_SQL, MARK_JOB_SUCCEEDED_SQL, MARK_WORK_SUCCEEDED_SQL.   *)

AckSaveResult(w) ==
  /\ pc[w] = "done" /\ outcome[w] = "succeeded" /\ stmt[w] = "none"
  /\ Lock("result", holds[w], w)
  /\ stmt' = [stmt EXCEPT ![w] = "saved"]
  /\ UNCHANGED <<vars, createdAt, picked, verdict>>

AckMarkJob(w) ==
  /\ stmt[w] = "saved"
  /\ Lock("job", holds[w], w)
  /\ stmt' = [stmt EXCEPT ![w] = "marked"]
  /\ UNCHANGED <<vars, createdAt, picked, verdict>>

(* Mutant: locked_by is read by a SELECT that takes no lock. *)
AckReadWork(w) ==
  /\ stmt[w] = "marked"
  /\ verdict' = [verdict EXCEPT ![w] =
                   IF OwnsRow(w, holds[w]) THEN "mine" ELSE "not_mine"]
  /\ stmt' = [stmt EXCEPT ![w] = "acked"]
  /\ UNCHANGED <<vars, createdAt, picked, locks>>

(* The WHERE clause is tested on the committed row: without a match the     *)
(* statement neither waits nor locks.                                       *)
AckMarkWork(w) ==
  /\ stmt[w] = "marked"
  /\ \/ /\ OwnsRow(w, holds[w])
        /\ Lock("work", holds[w], w)
        /\ verdict' = [verdict EXCEPT ![w] = "mine"]
     \/ /\ ~OwnsRow(w, holds[w])
        /\ verdict' = [verdict EXCEPT ![w] = "not_mine"]
        /\ UNCHANGED locks
  /\ stmt' = [stmt EXCEPT ![w] = "acked"]
  /\ UNCHANGED <<vars, createdAt, picked>>

AckCommit(w) ==
  LET j == holds[w] IN
  /\ stmt[w] = "acked"
  /\ results' = results \cup {j}
  /\ jobStatus' = [jobStatus EXCEPT ![j] = "succeeded"]
  /\ \/ verdict[w] = "mine" /\ Unlock(j, "succeeded") /\ UNCHANGED delayed
     \/ verdict[w] = "not_mine" /\ UNCHANGED workVars
  /\ Release(w)
  /\ UNCHANGED <<deadLetters, faultVars>>
  /\ EndTransaction(w)

-----------------------------------------------------------------------------
(* nack: MARK_WORK_FAILED_SQL and, when that answers "failed", the dead     *)
(* letter and MARK_JOB_FAILED_SQL.                                          *)

NackMarkWork(w) ==
  /\ pc[w] = "done" /\ outcome[w] = "failed" /\ stmt[w] = "none"
  /\ \/ /\ OwnsRow(w, holds[w])
        /\ Lock("work", holds[w], w)
        /\ verdict' = [verdict EXCEPT ![w] =
                         IF Exhausted(holds[w]) THEN "failed" ELSE "queued"]
     \/ /\ ~OwnsRow(w, holds[w])
        /\ verdict' = [verdict EXCEPT ![w] = "not_mine"]
        /\ UNCHANGED locks
  /\ stmt' = [stmt EXCEPT ![w] = "nacked"]
  /\ UNCHANGED <<vars, createdAt, picked>>

NackMarkJob(w) ==
  /\ stmt[w] = "nacked" /\ verdict[w] = "failed"
  /\ Lock("job", holds[w], w)
  /\ stmt' = [stmt EXCEPT ![w] = "dead"]
  /\ UNCHANGED <<vars, createdAt, picked, verdict>>

NackCommit(w) ==
  LET j == holds[w] IN
  /\ \/ stmt[w] = "nacked" /\ verdict[w] = "not_mine" /\ UNCHANGED <<jobVars, workVars>>
     \/ stmt[w] = "nacked" /\ verdict[w] = "queued" /\ Requeue(j)
     \/ stmt[w] = "dead" /\ GiveUp(j)
  /\ Release(w)
  /\ UNCHANGED faultVars
  /\ EndTransaction(w)

-----------------------------------------------------------------------------
(* Steps outside the database, and the death of a process: the server rolls *)
(* its transaction back and frees its locks.                                *)

Outside(w) == \/ EnterPoll(w)
              \/ LeaveLoop(w)
              \/ \E o \in {"succeeded", "failed"} : Translate(w, o)
              \/ Signal(w)
              \/ Restart(w)

RowCrash(w) == Crash(w) /\ EndTransaction(w)

TimePasses(j) == RetryDelayEnds(j) \/ AbandonedClaimExpires(j) \/ LiveClaimExpires(j)

RowNext ==
  \/ \E j \in Jobs : RowSubmit(j)
  \/ \E w \in Workers :
       \/ \E j \in Jobs : ClaimSelect(w, j)
       \/ ClaimCommit(w) \/ ClaimNothing(w)
       \/ AckSaveResult(w) \/ AckMarkJob(w) \/ AckMarkWork(w) \/ AckCommit(w)
       \/ NackMarkWork(w) \/ NackMarkJob(w) \/ NackCommit(w)
       \/ RowCrash(w)
       \/ Outside(w) /\ UNCHANGED rowVars
  \/ \E j \in Jobs : TimePasses(j) /\ UNCHANGED rowVars

RowSpec == RowInit /\ [][RowNext]_allVars

-----------------------------------------------------------------------------
(* Every transaction of the code is equivalent to one atomic step: whatever *)
(* the interleaving of statements, what is committed is a behaviour of      *)
(* PgWorkQueue.                                                             *)
Atomic == SafetySpec

(* SKIP LOCKED keeps two open claims off the same row, and off a row that   *)
(* an ack or nack is about to change.                                       *)
ClaimsNeverCollide ==
  \A v, w \in Workers :
    stmt[w] = "claimed" /\ v # w => <<"work", picked[w], v>> \notin locks

(* The row lock process w needs for its next statement. *)
Needs(w) ==
  CASE stmt[w] = "saved" -> {<<"job", holds[w]>>}
    [] stmt[w] = "marked" /\ OwnsRow(w, holds[w]) -> {<<"work", holds[w]>>}
    [] stmt[w] = "nacked" /\ verdict[w] = "failed" -> {<<"job", holds[w]>>}
    [] OTHER -> {}

WaitsFor(w) ==
  {v \in Workers \ {w} : \E r \in Needs(w) : <<r[1], r[2], v>> \in locks}

(* ack locks result, job, work and nack locks work, job: opposite orders.   *)
(* Processes with an id of their own still never wait on each other in a    *)
(* circle, because a late ack does not match the work row any more.         *)
NoWaitCycle ==
  ~ \E S \in SUBSET Workers : S # {} /\ \A w \in S : WaitsFor(w) \cap S # {}
=============================================================================
