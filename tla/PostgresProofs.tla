--------------------------- MODULE PostgresProofs ---------------------------
(***************************************************************************)
(* Proofs about the Postgres backend: PgWorkQueue, then PgRowLocks, which  *)
(* executes it statement by statement, then PgSubmit, which takes its      *)
(* submission apart.  They hold for any sets of jobs, workers and          *)
(* requests, any assignment of worker ids, any priorities, any             *)
(* max_attempts and any number of crashes and overruns.  The results that  *)
(* need distinct worker ids, workers that never overrun or connections     *)
(* that are not shared say so in their ASSUME.                             *)
(***************************************************************************)
EXTENDS PgRowLocks, PgSubmit, TLAPS

(* A process holds a submitted job exactly while it is busy or done, and a  *)
(* work row carries a lock exactly while it is running.                     *)
Bookkeeping ==
  /\ \A w \in Workers :
       IF w \in Holding
       THEN holds[w] \in Jobs /\ workStatus[holds[w]] # "absent"
       ELSE holds[w] = NoJob
  /\ \A j \in Jobs :
       /\ workStatus[j] = "running" <=> lockedBy[j] # NoId
       /\ stale[j] => workStatus[j] = "running"

(* What the attempts column may read in each status of the row.  A row      *)
(* whose claim has no live process, or has expired, has already been paid   *)
(* for by a crash or an overrun, so that one more claim stays in budget.    *)
AttemptsInv ==
  \A j \in Jobs :
    /\ workStatus[j] \in {"absent", "queued"} => attempts[j] < MaxAttempts
    /\ workStatus[j] = "running" /\ (stale[j] \/ Holders(j) = {})
         => attempts[j] < MaxAttempts + crashes + overruns
    /\ attempts[j] <= MaxAttempts + crashes + overruns

Inv == TypeOK /\ Bookkeeping /\ TablesAgree

-----------------------------------------------------------------------------
(* The type invariant: one step per action.                                 *)

(* The empty tables and idle workers satisfy the invariant. *)
LEMMA InitInv == Init => Inv
BY ConstantsAssumption
   DEF Init, Inv, TypeOK, Bookkeeping, TablesAgree, Holding, JobStatuses, WorkStatuses

(* Every action keeps every variable in its type. *)
LEMMA TypeStep == Inv /\ [Next]_vars => TypeOK'
<1> SUFFICES ASSUME Inv, [Next]_vars PROVE TypeOK'
  OBVIOUS
<1> USE ConstantsAssumption DEF Inv, TypeOK, JobStatuses, WorkStatuses
<1>1. CASE UNCHANGED vars
  BY <1>1 DEF vars, jobVars, workVars, workerVars, faultVars
<1>2. ASSUME NEW j \in Jobs, Submit(j) PROVE TypeOK'
  BY <1>2 DEF Submit, workerVars, faultVars
<1>3. ASSUME NEW w \in Workers, EnterPoll(w) \/ LeaveLoop(w) \/ PollEmpty(w)
      PROVE  TypeOK'
  BY <1>3 DEF EnterPoll, LeaveLoop, PollEmpty, jobVars, workVars, faultVars
<1>4. ASSUME NEW w \in Workers, NEW j \in Jobs, Claim(w, j) PROVE TypeOK'
  BY <1>4 DEF Claim, Take, jobVars, faultVars
<1>5. ASSUME NEW w \in Workers, NEW o \in {"succeeded", "failed"}, Translate(w, o)
      PROVE  TypeOK'
  BY <1>5 DEF Translate, jobVars, workVars, faultVars
<1>6. ASSUME NEW w \in Workers, Ack(w) PROVE TypeOK'
  <2>1. holds[w] \in Jobs
    BY <1>6 DEF Ack, Bookkeeping, Holding
  <2>2. workVars' = workVars \/ (Unlock(holds[w], "succeeded") /\ delayed' = delayed)
    BY <1>6 DEF Ack, MarkWorkSucceeded
  <2> QED
    BY <1>6, <2>1, <2>2 DEF Ack, Unlock, Release, workVars, faultVars
<1>7. ASSUME NEW w \in Workers, Nack(w) PROVE TypeOK'
  <2>1. holds[w] \in Jobs
    BY <1>7 DEF Nack, Bookkeeping, Holding
  <2>2. Release(w) /\ faultVars' = faultVars
    BY <1>7 DEF Nack
  <2>3. \/ jobVars' = jobVars /\ workVars' = workVars
        \/ Requeue(holds[w])
        \/ GiveUp(holds[w])
    BY <1>7 DEF Nack
  <2>4. CASE jobVars' = jobVars /\ workVars' = workVars
    BY <2>2, <2>4 DEF Release, jobVars, workVars, faultVars
  <2>5. CASE Requeue(holds[w])
    BY <2>1, <2>2, <2>5 DEF Requeue, Unlock, Release, jobVars, faultVars
  <2>6. CASE GiveUp(holds[w])
    BY <2>1, <2>2, <2>6 DEF GiveUp, Unlock, Release, faultVars
  <2> QED
    BY <2>3, <2>4, <2>5, <2>6
<1>8. ASSUME NEW w \in Workers, Signal(w) \/ Restart(w) PROVE TypeOK'
  BY <1>8 DEF Signal, Restart, jobVars, workVars, faultVars
<1>9. ASSUME NEW w \in Workers, Crash(w) PROVE TypeOK'
  BY <1>9 DEF Crash, jobVars, workVars
<1>10. ASSUME NEW j \in Jobs, RetryDelayEnds(j) PROVE TypeOK'
  BY <1>10 DEF RetryDelayEnds, jobVars, workerVars, faultVars
<1>11. ASSUME NEW j \in Jobs, AbandonedClaimExpires(j) PROVE TypeOK'
  BY <1>11 DEF AbandonedClaimExpires, GoStale, jobVars, workerVars, faultVars
<1>12. ASSUME NEW j \in Jobs, LiveClaimExpires(j) PROVE TypeOK'
  BY <1>12 DEF LiveClaimExpires, GoStale, jobVars, workerVars
<1> QED
  BY <1>1, <1>2, <1>3, <1>4, <1>5, <1>6, <1>7, <1>8, <1>9, <1>10, <1>11, <1>12
     DEF Next, WorkerStep

-----------------------------------------------------------------------------
(* The bookkeeping of claims. *)

(* Every action keeps a worker's place in its loop and its item together, and *)
(* a row's lock and its status.                                             *)
LEMMA BookkeepingStep == Inv /\ [Next]_vars => Bookkeeping'
<1> SUFFICES ASSUME Inv, [Next]_vars PROVE Bookkeeping'
  OBVIOUS
<1> USE ConstantsAssumption DEF Inv, TypeOK, WorkStatuses, Bookkeeping, Holding
<1>1. CASE UNCHANGED vars
  BY <1>1 DEF vars, jobVars, workVars, workerVars, faultVars
<1>2. ASSUME NEW j \in Jobs, Submit(j) PROVE Bookkeeping'
  BY <1>2 DEF Submit, workerVars, faultVars, TablesAgree
<1>3. ASSUME NEW w \in Workers, EnterPoll(w) \/ LeaveLoop(w) \/ PollEmpty(w)
      PROVE  Bookkeeping'
  BY <1>3 DEF EnterPoll, LeaveLoop, PollEmpty, workVars
<1>4. ASSUME NEW w \in Workers, NEW j \in Jobs, Claim(w, j) PROVE Bookkeeping'
  BY <1>4 DEF Claim, Take
<1>5. ASSUME NEW w \in Workers, NEW o \in {"succeeded", "failed"}, Translate(w, o)
      PROVE  Bookkeeping'
  BY <1>5 DEF Translate, workVars
<1>6. ASSUME NEW w \in Workers, Ack(w) PROVE Bookkeeping'
  <2>1. Release(w) /\ pc[w] = "done" /\ holds[w] \in Jobs
    BY <1>6 DEF Ack
  <2>2. workVars' = workVars \/ Unlock(holds[w], "succeeded")
    BY <1>6 DEF Ack, MarkWorkSucceeded
  <2> QED
    BY <2>1, <2>2 DEF Release, Unlock, workVars
<1>7. ASSUME NEW w \in Workers, Nack(w) PROVE Bookkeeping'
  <2>1. Release(w) /\ pc[w] = "done" /\ holds[w] \in Jobs
    BY <1>7 DEF Nack
  <2>2. \/ workVars' = workVars
        \/ Unlock(holds[w], "queued")
        \/ Unlock(holds[w], "failed")
    BY <1>7 DEF Nack, Requeue, GiveUp
  <2> QED
    BY <2>1, <2>2 DEF Release, Unlock, workVars
<1>8. ASSUME NEW w \in Workers, Signal(w) \/ Crash(w) \/ Restart(w)
      PROVE  Bookkeeping'
  BY <1>8 DEF Signal, Crash, Restart, workVars
<1>9. ASSUME NEW j \in Jobs, RetryDelayEnds(j) PROVE Bookkeeping'
  BY <1>9 DEF RetryDelayEnds, workerVars
<1>10. ASSUME NEW j \in Jobs, AbandonedClaimExpires(j) \/ LiveClaimExpires(j)
       PROVE  Bookkeeping'
  BY <1>10 DEF AbandonedClaimExpires, LiveClaimExpires, GoStale, workerVars
<1> QED
  BY <1>1, <1>2, <1>3, <1>4, <1>5, <1>6, <1>7, <1>8, <1>9, <1>10
     DEF Next, WorkerStep

-----------------------------------------------------------------------------
(* The tables agree. *)

(* Every transaction leaves the job, result, work and dead-letter rows of a *)
(* job in agreement, the late acks included.                                *)
LEMMA TablesStep == Inv /\ [Next]_vars => TablesAgree'
<1> SUFFICES ASSUME Inv, [Next]_vars PROVE TablesAgree'
  OBVIOUS
<1> USE DEF Inv, TypeOK, JobStatuses, WorkStatuses, TablesAgree
<1>1. CASE jobVars' = jobVars /\ workStatus' = workStatus
  BY <1>1 DEF jobVars
<1>2. ASSUME NEW j \in Jobs, Submit(j) PROVE TablesAgree'
  BY <1>2 DEF Submit
<1>3. ASSUME NEW w \in Workers, NEW j \in Jobs, Claim(w, j) PROVE TablesAgree'
  BY <1>3 DEF Claim, Claimable, Take, jobVars
<1>4. ASSUME NEW w \in Workers, Ack(w) PROVE TablesAgree'
  <2> DEFINE j == holds[w]
  <2>1. j \in Jobs /\ workStatus[j] # "absent"
    BY <1>4 DEF Ack, Bookkeeping, Holding
  <2>2. /\ results' = results \cup {j}
        /\ jobStatus' = [jobStatus EXCEPT ![j] = "succeeded"]
        /\ deadLetters' = deadLetters
    BY <1>4 DEF Ack
  <2>3. \/ workStatus' = workStatus
        \/ workStatus[j] = "running" /\ workStatus' = [workStatus EXCEPT ![j] = "succeeded"]
    <3>1. lockedBy[j] = WorkerId[w] => lockedBy[j] # NoId
      BY ConstantsAssumption
    <3> QED
      BY <1>4, <2>1, <3>1 DEF Ack, MarkWorkSucceeded, OwnsRow, Unlock, workVars, Bookkeeping
  <2> QED
    BY <2>1, <2>2, <2>3
<1>5. ASSUME NEW w \in Workers, Nack(w) PROVE TablesAgree'
  <2> DEFINE j == holds[w]
  <2>1. j \in Jobs
    BY <1>5 DEF Nack, Bookkeeping, Holding
  <2>2. OwnsRow(w, j) => workStatus[j] = "running"
    BY <2>1, ConstantsAssumption DEF OwnsRow, Bookkeeping
  <2>3. \/ jobVars' = jobVars /\ workVars' = workVars
        \/ workStatus[j] = "running" /\ Requeue(j)
        \/ workStatus[j] = "running" /\ GiveUp(j)
    BY <1>5, <2>2 DEF Nack
  <2>4. CASE jobVars' = jobVars /\ workVars' = workVars
    BY <2>4, <1>1 DEF workVars
  <2>5. CASE workStatus[j] = "running" /\ Requeue(j)
    BY <2>1, <2>5 DEF Requeue, Unlock, jobVars
  <2>6. CASE workStatus[j] = "running" /\ GiveUp(j)
    BY <2>1, <2>6 DEF GiveUp, Unlock
  <2> QED
    BY <2>3, <2>4, <2>5, <2>6
<1>6. ASSUME NEW w \in Workers,
             \/ EnterPoll(w) \/ LeaveLoop(w) \/ PollEmpty(w)
             \/ \E o \in {"succeeded", "failed"} : Translate(w, o)
             \/ Signal(w) \/ Crash(w) \/ Restart(w)
      PROVE  TablesAgree'
  BY <1>1, <1>6 DEF EnterPoll, LeaveLoop, PollEmpty, Translate, Signal, Crash,
                    Restart, workVars
<1>7. ASSUME NEW j \in Jobs,
             RetryDelayEnds(j) \/ AbandonedClaimExpires(j) \/ LiveClaimExpires(j)
      PROVE  TablesAgree'
  BY <1>1, <1>7 DEF RetryDelayEnds, AbandonedClaimExpires, LiveClaimExpires, GoStale
<1>8. CASE UNCHANGED vars
  BY <1>1, <1>8 DEF vars, workVars
<1> QED
  BY <1>2, <1>3, <1>4, <1>5, <1>6, <1>7, <1>8 DEF Next, WorkerStep

(* The type invariant and TablesAgree hold in every reachable state, for    *)
(* any assignment of worker ids and however long translations take.         *)
THEOREM Invariant == SafetySpec => []Inv
<1>1. Inv /\ [Next]_vars => Inv'
  BY TypeStep, BookkeepingStep, TablesStep DEF Inv
<1> QED
  BY InitInv, <1>1, PTL DEF SafetySpec

(* The columns only ever hold values the code gives them, and the workers    *)
(* only are in places run_forever has.                                      *)
THEOREM TypeCorrect == SafetySpec => []TypeOK
BY Invariant, PTL DEF Inv

(* The four tables agree on every job in every reachable state. *)
THEOREM Consistent == SafetySpec => []TablesAgree
BY Invariant, PTL DEF Inv

-----------------------------------------------------------------------------
(* The attempts column. *)

(* No attempts have been made at the start. *)
LEMMA InitAttempts == Init => AttemptsInv
<1> SUFFICES ASSUME Init PROVE AttemptsInv
  OBVIOUS
<1>1. \A j \in Jobs : workStatus[j] = "absent" /\ attempts[j] = 0
  BY DEF Init
<1>2. crashes = 0 /\ overruns = 0
  BY DEF Init
<1>3. 0 < MaxAttempts /\ 0 <= MaxAttempts + 0 + 0
  BY ConstantsAssumption
<1>4. "absent" # "running"
  OBVIOUS
<1> QED
  BY <1>1, <1>2, <1>3, <1>4, Zenon DEF AttemptsInv

(* Every claim that attempts counts beyond the reported failures was paid  *)
(* for by a crash or an overrun.                                            *)
LEMMA AttemptsStep == Inv /\ AttemptsInv /\ [Next]_vars => AttemptsInv'
<1> SUFFICES ASSUME Inv, AttemptsInv, [Next]_vars PROVE AttemptsInv'
  OBVIOUS
<1> USE ConstantsAssumption DEF Inv, TypeOK, WorkStatuses, AttemptsInv
<1>1. CASE UNCHANGED vars
  BY <1>1 DEF vars, workVars, workerVars, faultVars, Holders, Holding
<1>2. ASSUME NEW j \in Jobs, Submit(j) PROVE AttemptsInv'
  BY <1>2 DEF Submit, workerVars, faultVars, Holders, Holding, TablesAgree
<1>3. ASSUME NEW w \in Workers,
             \/ EnterPoll(w) \/ LeaveLoop(w) \/ PollEmpty(w)
             \/ \E o \in {"succeeded", "failed"} : Translate(w, o)
             \/ Signal(w) \/ Restart(w)
      PROVE  AttemptsInv'
  <2>1. \A j \in Jobs : Holders(j)' = Holders(j)
    BY <1>3 DEF EnterPoll, LeaveLoop, PollEmpty, Translate, Signal, Restart,
                workVars, Holders, Holding
  <2>2. workVars' = workVars /\ faultVars' = faultVars
    BY <1>3 DEF EnterPoll, LeaveLoop, PollEmpty, Translate, Signal, Restart
  <2> QED
    BY <2>1, <2>2 DEF workVars, faultVars
<1>4. ASSUME NEW w \in Workers, NEW j \in Jobs, Claim(w, j) PROVE AttemptsInv'
  <2>1. w \in Holders(j)'
    BY <1>4 DEF Claim, Take, Holders, Holding
  <2>2. \A i \in Jobs \ {j} : Holders(i)' = Holders(i)
    BY <1>4 DEF Claim, Take, Holders, Holding
  <2>3. attempts[j] < MaxAttempts + crashes + overruns
    BY <1>4 DEF Claim, Claimable
  <2> QED
    BY <1>4, <2>1, <2>2, <2>3 DEF Claim, Take, faultVars
<1>5. ASSUME NEW w \in Workers, Ack(w) PROVE AttemptsInv'
  <2> DEFINE j == holds[w]
  <2>1. j \in Jobs /\ Release(w) /\ pc[w] = "done" /\ faultVars' = faultVars
    BY <1>5 DEF Ack, Bookkeeping, Holding
  <2>2. CASE OwnsRow(w, j) /\ Unlock(j, "succeeded")
    <3>1. \A i \in Jobs \ {j} : Holders(i)' = Holders(i)
      BY <2>1, <2>2 DEF Release, Unlock, Holders, Holding
    <3> QED
      BY <2>1, <2>2, <3>1 DEF Unlock, faultVars
  <2>3. CASE ~OwnsRow(w, j) /\ workVars' = workVars
    <3>1. \A i \in Jobs : Holders(i)' = Holders(i)
      BY <2>1, <2>3 DEF Release, OwnsRow, workVars, Holders, Holding
    <3> QED
      BY <2>1, <2>3, <3>1 DEF workVars, faultVars
  <2> QED
    BY <1>5, <2>2, <2>3 DEF Ack, MarkWorkSucceeded
<1>6. ASSUME NEW w \in Workers, Nack(w) PROVE AttemptsInv'
  <2> DEFINE j == holds[w]
  <2>1. j \in Jobs /\ Release(w) /\ pc[w] = "done" /\ faultVars' = faultVars
    BY <1>6 DEF Nack, Bookkeeping, Holding
  <2>2. CASE ~OwnsRow(w, j) /\ workVars' = workVars
    <3>1. \A i \in Jobs : Holders(i)' = Holders(i)
      BY <2>1, <2>2 DEF Release, OwnsRow, workVars, Holders, Holding
    <3> QED
      BY <2>1, <2>2, <3>1 DEF workVars, faultVars
  <2>3. CASE \/ attempts[j] < MaxAttempts /\ Unlock(j, "queued")
             \/ Unlock(j, "failed")
    <3>1. \A i \in Jobs \ {j} : Holders(i)' = Holders(i)
      BY <2>1, <2>3 DEF Release, Unlock, Holders, Holding
    <3> QED
      BY <2>1, <2>3, <3>1 DEF Unlock, faultVars
  <2> QED
    BY <1>6, <2>1, <2>2, <2>3 DEF Nack, Exhausted, Requeue, GiveUp
<1>7. ASSUME NEW w \in Workers, Crash(w) PROVE AttemptsInv'
  BY <1>7 DEF Crash, workVars
<1>8. ASSUME NEW j \in Jobs, RetryDelayEnds(j) PROVE AttemptsInv'
  BY <1>8 DEF RetryDelayEnds, workerVars, faultVars, Holders, Holding
<1>9. ASSUME NEW j \in Jobs, AbandonedClaimExpires(j) PROVE AttemptsInv'
  <2>1. \A i \in Jobs : Holders(i)' = Holders(i)
    BY <1>9 DEF AbandonedClaimExpires, GoStale, workerVars, Holders, Holding
  <2> QED
    BY <1>9, <2>1 DEF AbandonedClaimExpires, GoStale, faultVars
<1>10. ASSUME NEW j \in Jobs, LiveClaimExpires(j) PROVE AttemptsInv'
  BY <1>10 DEF LiveClaimExpires, GoStale
<1> QED
  BY <1>1, <1>2, <1>3, <1>4, <1>5, <1>6, <1>7, <1>8, <1>9, <1>10
     DEF Next, WorkerStep

(* Beyond max_attempts, every claim was paid for by a process that died or  *)
(* by a translation that outlasted the visibility timeout.                  *)
THEOREM AttemptsBounded == SafetySpec => []AttemptsWithinBudget
<1>1. AttemptsInv => AttemptsWithinBudget
  BY DEF AttemptsInv, AttemptsWithinBudget
<1> QED
  BY <1>1, Invariant, InitAttempts, AttemptsStep, PTL DEF SafetySpec

-----------------------------------------------------------------------------
(* Dead letters. *)

(* A job is only given up after max_attempts claims: once its work row is   *)
(* "failed" no claim, ack or nack touches the row again.                    *)
THEOREM GivenUpAfterMaxAttempts == SafetySpec => []GivenUpOnlyWhenExhausted
<1> USE DEF GivenUpOnlyWhenExhausted
<1>1. Init => GivenUpOnlyWhenExhausted
  BY DEF Init
<1>2. Inv /\ GivenUpOnlyWhenExhausted /\ [Next]_vars => GivenUpOnlyWhenExhausted'
  <2> SUFFICES ASSUME Inv, GivenUpOnlyWhenExhausted, [Next]_vars,
                      NEW j \in Jobs, workStatus'[j] = "failed"
               PROVE  attempts'[j] >= MaxAttempts
    OBVIOUS
  <2> USE DEF Inv, TypeOK
  <2>1. CASE workVars' = workVars
    BY <2>1 DEF workVars
  <2>2. ASSUME NEW i \in Jobs, Submit(i) PROVE attempts'[j] >= MaxAttempts
    BY <2>2 DEF Submit
  <2>3. ASSUME NEW w \in Workers, NEW i \in Jobs, Claim(w, i)
        PROVE  attempts'[j] >= MaxAttempts
    BY <2>3 DEF Claim, Take
  <2>4. ASSUME NEW w \in Workers, Ack(w) PROVE attempts'[j] >= MaxAttempts
    BY <2>1, <2>4 DEF Ack, MarkWorkSucceeded, Unlock
  <2>5. ASSUME NEW w \in Workers, Nack(w) PROVE attempts'[j] >= MaxAttempts
    BY <2>1, <2>5 DEF Nack, Requeue, GiveUp, Unlock, Exhausted
  <2>6. ASSUME NEW w \in Workers,
               \/ EnterPoll(w) \/ LeaveLoop(w) \/ PollEmpty(w)
               \/ \E o \in {"succeeded", "failed"} : Translate(w, o)
               \/ Signal(w) \/ Crash(w) \/ Restart(w)
        PROVE  attempts'[j] >= MaxAttempts
    BY <2>1, <2>6 DEF EnterPoll, LeaveLoop, PollEmpty, Translate, Signal, Crash,
                      Restart
  <2>7. ASSUME NEW i \in Jobs,
               RetryDelayEnds(i) \/ AbandonedClaimExpires(i) \/ LiveClaimExpires(i)
        PROVE  attempts'[j] >= MaxAttempts
    BY <2>7 DEF RetryDelayEnds, AbandonedClaimExpires, LiveClaimExpires, GoStale
  <2>8. CASE UNCHANGED vars
    BY <2>1, <2>8 DEF vars
  <2> QED
    BY <2>2, <2>3, <2>4, <2>5, <2>6, <2>7, <2>8 DEF Next, WorkerStep
<1> QED
  BY <1>1, <1>2, Invariant, PTL DEF SafetySpec

(* Both bounds of max_attempts. *)
THEOREM AttemptsAreSound == SafetySpec => []AttemptsSound
BY AttemptsBounded, GivenUpAfterMaxAttempts, PTL DEF AttemptsSound

-----------------------------------------------------------------------------
(* The fence: locked_by.  Every process needs a worker id of its own.       *)

DistinctIds == \A v, w \in Workers : WorkerId[v] = WorkerId[w] => v = w

(* With distinct worker ids a process passes the locked_by test of ack and  *)
(* nack only while the row still records its own claim, although the row    *)
(* has no claim number.                                                     *)
THEOREM Fence == DistinctIds /\ SafetySpec => []LockNamesLatestClaim
<1> SUFFICES ASSUME DistinctIds PROVE SafetySpec => []LockNamesLatestClaim
  OBVIOUS
<1> USE DEF LockNamesLatestClaim, Holding, OwnsRow
<1>1. Init => LockNamesLatestClaim
  BY DEF Init
<1>2. Inv /\ LockNamesLatestClaim /\ [Next]_vars => LockNamesLatestClaim'
  <2> SUFFICES ASSUME Inv, LockNamesLatestClaim, [Next]_vars
               PROVE  LockNamesLatestClaim'
    OBVIOUS
  <2> USE ConstantsAssumption DEF Inv, TypeOK, Bookkeeping
  <2>1. CASE UNCHANGED vars
    BY <2>1 DEF vars, workVars, workerVars
  <2>2. ASSUME NEW j \in Jobs, Submit(j) PROVE LockNamesLatestClaim'
    BY <2>2 DEF Submit, workerVars
  <2>3. ASSUME NEW w \in Workers, NEW j \in Jobs, Claim(w, j)
        PROVE  LockNamesLatestClaim'
    BY <2>3 DEF Claim, Take, DistinctIds
  <2>4. ASSUME NEW w \in Workers, Ack(w) PROVE LockNamesLatestClaim'
    <3>1. Release(w) /\ (workVars' = workVars \/ Unlock(holds[w], "succeeded"))
      BY <2>4 DEF Ack, MarkWorkSucceeded
    <3> QED
      BY <3>1 DEF Release, Unlock, workVars
  <2>5. ASSUME NEW w \in Workers, Nack(w) PROVE LockNamesLatestClaim'
    <3>1. /\ Release(w)
          /\ \/ workVars' = workVars
             \/ Unlock(holds[w], "queued")
             \/ Unlock(holds[w], "failed")
      BY <2>5 DEF Nack, Requeue, GiveUp
    <3> QED
      BY <3>1 DEF Release, Unlock, workVars
  <2>6. ASSUME NEW w \in Workers,
               \/ EnterPoll(w) \/ LeaveLoop(w) \/ PollEmpty(w)
               \/ \E o \in {"succeeded", "failed"} : Translate(w, o)
               \/ Signal(w) \/ Crash(w) \/ Restart(w)
        PROVE  LockNamesLatestClaim'
    BY <2>6 DEF EnterPoll, LeaveLoop, PollEmpty, Translate, Signal, Crash, Restart,
                workVars
  <2>7. ASSUME NEW j \in Jobs,
               RetryDelayEnds(j) \/ AbandonedClaimExpires(j) \/ LiveClaimExpires(j)
        PROVE  LockNamesLatestClaim'
    BY <2>7 DEF RetryDelayEnds, AbandonedClaimExpires, LiveClaimExpires, GoStale,
                workerVars
  <2> QED
    BY <2>1, <2>2, <2>3, <2>4, <2>5, <2>6, <2>7 DEF Next, WorkerStep
<1> QED
  BY <1>1, <1>2, Invariant, PTL DEF SafetySpec

-----------------------------------------------------------------------------
(* No overruns.  When no translation outlasts the visibility timeout, a     *)
(* claim belongs to its process until that process settles it or dies.      *)

Exclusive ==
  /\ \A w \in Holding : /\ workStatus[holds[w]] = "running"
                        /\ lockedBy[holds[w]] = WorkerId[w]
                        /\ ~stale[holds[w]]
  /\ OneTranslationAtATime
  /\ \A j \in Jobs : workStatus[j] \in {"queued", "running"} => jobStatus[j] = "queued"

(* Nobody holds anything at the start. *)
LEMMA InitExclusive == Init => Exclusive
BY DEF Init, Exclusive, OneTranslationAtATime, Holding

(* Until a claim expires under its holder, a claimed row is not claimable   *)
(* before its holder is gone.                                               *)
LEMMA ExclusiveStep ==
  Inv /\ Exclusive /\ [Next]_vars /\ overruns' = overruns => Exclusive'
<1> SUFFICES ASSUME Inv, Exclusive, [Next]_vars, overruns' = overruns PROVE Exclusive'
  OBVIOUS
<1> USE ConstantsAssumption
    DEF Inv, TypeOK, Bookkeeping, Exclusive, OneTranslationAtATime, Holding
<1>1. CASE UNCHANGED vars
  BY <1>1 DEF vars, jobVars, workVars, workerVars
<1>2. ASSUME NEW j \in Jobs, Submit(j) PROVE Exclusive'
  BY <1>2 DEF Submit, workerVars, TablesAgree
<1>3. ASSUME NEW w \in Workers, NEW j \in Jobs, Claim(w, j) PROVE Exclusive'
  BY <1>3 DEF Claim, Claimable, Take, jobVars
<1>4. ASSUME NEW w \in Workers, Ack(w) PROVE Exclusive'
  BY <1>4 DEF Ack, MarkWorkSucceeded, OwnsRow, Unlock, Release
<1>5. ASSUME NEW w \in Workers, Nack(w) PROVE Exclusive'
  <2>1. OwnsRow(w, holds[w]) /\ pc[w] = "done" /\ holds[w] \in Jobs /\ Release(w)
    BY <1>5 DEF Nack, OwnsRow
  <2>2. CASE Requeue(holds[w])
    BY <2>1, <2>2 DEF Requeue, Unlock, Release, jobVars
  <2>3. CASE GiveUp(holds[w])
    BY <2>1, <2>3 DEF GiveUp, Unlock, Release
  <2> QED
    BY <1>5, <2>1, <2>2, <2>3 DEF Nack
<1>6. ASSUME NEW w \in Workers,
             \/ EnterPoll(w) \/ LeaveLoop(w) \/ PollEmpty(w)
             \/ \E o \in {"succeeded", "failed"} : Translate(w, o)
             \/ Signal(w) \/ Crash(w) \/ Restart(w)
      PROVE  Exclusive'
  BY <1>6 DEF EnterPoll, LeaveLoop, PollEmpty, Translate, Signal, Crash, Restart,
              jobVars, workVars
<1>7. ASSUME NEW j \in Jobs, RetryDelayEnds(j) PROVE Exclusive'
  BY <1>7 DEF RetryDelayEnds, jobVars, workerVars
<1>8. ASSUME NEW j \in Jobs, AbandonedClaimExpires(j) PROVE Exclusive'
  <2>1. \A w \in Holding : holds[w] # j
    BY <1>8 DEF AbandonedClaimExpires, Holders
  <2> QED
    BY <1>8, <2>1 DEF AbandonedClaimExpires, GoStale, jobVars, workerVars
<1>9. ASSUME NEW j \in Jobs, LiveClaimExpires(j) PROVE Exclusive'
  BY <1>9 DEF LiveClaimExpires
<1> QED
  BY <1>1, <1>2, <1>3, <1>4, <1>5, <1>6, <1>7, <1>8, <1>9 DEF Next, WorkerStep

(* Only a slow worker's expired claim counts as an overrun. *)
LEMMA OverrunsStep ==
  ASSUME Inv, [Next]_vars
  PROVE  /\ overruns' >= overruns
         /\ SlowWorkers = {} => overruns' = overruns
<1> USE DEF Inv, TypeOK
<1>1. ASSUME NEW j \in Jobs, LiveClaimExpires(j)
      PROVE  overruns' = overruns + 1 /\ SlowWorkers # {}
  BY <1>1 DEF LiveClaimExpires
<1>2. ASSUME NEW j \in Jobs, Submit(j) \/ RetryDelayEnds(j) \/ AbandonedClaimExpires(j)
      PROVE  overruns' = overruns
  BY <1>2 DEF Submit, RetryDelayEnds, AbandonedClaimExpires, faultVars
<1>3. ASSUME NEW w \in Workers,
             WorkerStep(w) \/ Signal(w) \/ Crash(w) \/ Restart(w)
      PROVE  overruns' = overruns
  BY <1>3 DEF WorkerStep, EnterPoll, LeaveLoop, PollEmpty, Claim, Translate, Ack, Nack,
              Signal, Crash, Restart, faultVars
<1>4. CASE UNCHANGED vars
  BY <1>4 DEF vars, faultVars
<1> QED
  BY <1>1, <1>2, <1>3, <1>4 DEF Next

(* Without overruns every held item is a running row whose lock its holder  *)
(* owns, and held once.                                                     *)
THEOREM NoOverrunExclusive ==
  ASSUME SlowWorkers = {}
  PROVE  SafetySpec => []Exclusive
<1>1. Inv /\ Exclusive /\ [Next]_vars => Exclusive'
  BY ExclusiveStep, OverrunsStep
<1> QED
  BY <1>1, InitExclusive, Invariant, PTL DEF SafetySpec

(* Then no two processes ever work on the same item, in spite of crashes,   *)
(* restarts and retries; distinct worker ids are not even needed.           *)
THEOREM OneAtATime ==
  ASSUME SlowWorkers = {}
  PROVE  SafetySpec => []OneTranslationAtATime
<1>1. Exclusive => OneTranslationAtATime
  BY DEF Exclusive
<1> QED
  BY <1>1, NoOverrunExclusive, PTL

-----------------------------------------------------------------------------
(* Terminal statuses.  Two processes can only meet on an item that was      *)
(* claimed twice.                                                           *)

FirstClaim ==
  /\ \A w \in Holding :
       /\ attempts[holds[w]] >= 1
       /\ attempts[holds[w]] = 1 =>
            /\ workStatus[holds[w]] = "running"
            /\ lockedBy[holds[w]] = WorkerId[w]
            /\ \A v \in Holding : holds[v] = holds[w] => v = w
  /\ \A j \in Jobs : attempts[j] <= 1 /\ workStatus[j] \in {"queued", "running"}
                       => jobStatus[j] = "queued"

(* The holder of a first claim stays alone with its row until it answers or *)
(* the row is claimed again.                                                *)
LEMMA FirstClaimStep == Inv /\ FirstClaim /\ [Next]_vars => FirstClaim'
<1> SUFFICES ASSUME Inv, FirstClaim, [Next]_vars PROVE FirstClaim'
  OBVIOUS
<1> USE ConstantsAssumption DEF Inv, TypeOK, Bookkeeping, FirstClaim, Holding
<1>1. CASE UNCHANGED vars
  BY <1>1 DEF vars, jobVars, workVars, workerVars
<1>2. ASSUME NEW j \in Jobs, Submit(j) PROVE FirstClaim'
  BY <1>2 DEF Submit, workerVars, TablesAgree
<1>3. ASSUME NEW w \in Workers, NEW j \in Jobs, Claim(w, j) PROVE FirstClaim'
  BY <1>3 DEF Claim, Claimable, Take, jobVars
<1>4. ASSUME NEW w \in Workers, Ack(w) PROVE FirstClaim'
  <2>1. CASE OwnsRow(w, holds[w]) /\ Unlock(holds[w], "succeeded")
    BY <1>4, <2>1 DEF Ack, OwnsRow, Unlock, Release
  <2>2. CASE ~OwnsRow(w, holds[w]) /\ UNCHANGED workVars
    BY <1>4, <2>2 DEF Ack, OwnsRow, Release, workVars
  <2> QED
    BY <1>4, <2>1, <2>2 DEF Ack, MarkWorkSucceeded
<1>5. ASSUME NEW w \in Workers, Nack(w) PROVE FirstClaim'
  <2>1. pc[w] = "done" /\ holds[w] \in Jobs /\ Release(w)
    BY <1>5 DEF Nack
  <2>2. CASE UNCHANGED <<jobVars, workVars>>
    BY <2>1, <2>2 DEF Release, jobVars, workVars
  <2>3. CASE OwnsRow(w, holds[w]) /\ Requeue(holds[w])
    BY <2>1, <2>3 DEF Requeue, OwnsRow, Unlock, Release, jobVars
  <2>4. CASE OwnsRow(w, holds[w]) /\ GiveUp(holds[w])
    BY <2>1, <2>4 DEF GiveUp, OwnsRow, Unlock, Release
  <2> QED
    BY <1>5, <2>1, <2>2, <2>3, <2>4 DEF Nack
<1>6. ASSUME NEW w \in Workers,
             \/ EnterPoll(w) \/ LeaveLoop(w) \/ PollEmpty(w)
             \/ \E o \in {"succeeded", "failed"} : Translate(w, o)
             \/ Signal(w) \/ Crash(w) \/ Restart(w)
      PROVE  FirstClaim'
  BY <1>6 DEF EnterPoll, LeaveLoop, PollEmpty, Translate, Signal, Crash, Restart,
              jobVars, workVars
<1>7. ASSUME NEW j \in Jobs,
             RetryDelayEnds(j) \/ AbandonedClaimExpires(j) \/ LiveClaimExpires(j)
      PROVE  FirstClaim'
  BY <1>7 DEF RetryDelayEnds, AbandonedClaimExpires, LiveClaimExpires, GoStale,
              jobVars, workerVars
<1> QED
  BY <1>1, <1>2, <1>3, <1>4, <1>5, <1>6, <1>7 DEF Next, WorkerStep

(* A terminal status is only revised after an overrun and a second claim:   *)
(* before the first overrun every holder is alone with a running row, and   *)
(* so is the holder of a first claim for ever; a running row of either kind *)
(* has a job that still reads queued.                                       *)
THEOREM TerminalRevisedLate == SafetySpec => RevisedOnlyAfterOverrun
<1> DEFINE Before == overruns = 0 => Exclusive
           Revision == \A j \in Jobs :
             jobStatus[j] \in TerminalJobStatuses /\ jobStatus'[j] # jobStatus[j] =>
               /\ jobStatus'[j] \in TerminalJobStatuses
               /\ overruns > 0 /\ attempts[j] > 1
<1>1. Init => Before /\ FirstClaim
  BY InitExclusive DEF Init, FirstClaim, Holding
<1>2. Inv /\ Before /\ [Next]_vars => Before'
  <2> SUFFICES ASSUME Inv, Before, [Next]_vars, overruns' = 0 PROVE Exclusive'
    OBVIOUS
  <2>1. overruns' >= overruns /\ overruns \in Nat
    BY OverrunsStep DEF Inv, TypeOK
  <2> QED
    BY <2>1, ExclusiveStep
<1>3. Inv /\ Before /\ FirstClaim /\ [Next]_vars => [Revision]_vars
  <2> SUFFICES ASSUME Inv, Before, FirstClaim, [Next]_vars, NEW j \in Jobs,
                      jobStatus[j] \in TerminalJobStatuses, jobStatus'[j] # jobStatus[j]
               PROVE  /\ jobStatus'[j] \in TerminalJobStatuses
                      /\ overruns > 0 /\ attempts[j] > 1
    OBVIOUS
  <2> USE DEF Inv, TypeOK, TerminalJobStatuses
  <2>1. \/ \E w \in Workers : Ack(w) /\ holds[w] = j
        \/ \E w \in Workers : Nack(w) /\ holds[w] = j /\ OwnsRow(w, j) /\ GiveUp(j)
    <3>1. ASSUME NEW i \in Jobs, Submit(i) PROVE FALSE
      BY <3>1 DEF Submit
    <3>2. ASSUME NEW i \in Jobs,
                 RetryDelayEnds(i) \/ AbandonedClaimExpires(i) \/ LiveClaimExpires(i)
          PROVE  FALSE
      BY <3>2 DEF RetryDelayEnds, AbandonedClaimExpires, LiveClaimExpires, GoStale, jobVars
    <3>3. ASSUME NEW w \in Workers,
                 \/ EnterPoll(w) \/ LeaveLoop(w) \/ PollEmpty(w)
                 \/ \E i \in Jobs : Claim(w, i)
                 \/ \E o \in {"succeeded", "failed"} : Translate(w, o)
                 \/ Signal(w) \/ Crash(w) \/ Restart(w)
          PROVE  FALSE
      BY <3>3 DEF EnterPoll, LeaveLoop, PollEmpty, Claim, Translate, Signal, Crash,
                  Restart, jobVars
    <3>4. ASSUME NEW w \in Workers, Ack(w) PROVE holds[w] = j
      BY <3>4 DEF Ack
    <3>5. ASSUME NEW w \in Workers, Nack(w)
          PROVE  holds[w] = j /\ OwnsRow(w, j) /\ GiveUp(j)
      BY <3>5 DEF Nack, Requeue, GiveUp, jobVars
    <3>6. CASE UNCHANGED vars
      BY <3>6 DEF vars, jobVars
    <3> QED
      BY <3>1, <3>2, <3>3, <3>4, <3>5, <3>6 DEF Next, WorkerStep
  <2>2. PICK w \in Workers : /\ pc[w] = "done" /\ holds[w] = j
                             /\ jobStatus'[j] \in {"succeeded", "failed"}
    BY <2>1 DEF Ack, Nack, GiveUp
  <2>3. w \in Holding
    BY <2>2 DEF Holding
  <2>4. jobStatus[j] # "queued"
    OBVIOUS
  <2>5. overruns # 0
    BY <2>2, <2>3, <2>4 DEF Exclusive
  <2>6. attempts[j] > 1
    BY <2>2, <2>3, <2>4 DEF FirstClaim
  <2> QED
    BY <2>2, <2>5, <2>6
<1> QED
  BY <1>1, <1>2, <1>3, Invariant, FirstClaimStep, PTL
     DEF SafetySpec, RevisedOnlyAfterOverrun

-----------------------------------------------------------------------------
(* What clients are promised. *)

(* Without overruns every step of the queue is a step of JobLedger or none. *)
LEMMA StepRefinesLedger ==
  ASSUME SlowWorkers = {}
  PROVE  Inv /\ Exclusive /\ [Next]_vars => [Ledger!Next]_(Ledger!vars)
<1> SUFFICES ASSUME Inv, Exclusive, [Next]_vars PROVE [Ledger!Next]_(Ledger!vars)
  OBVIOUS
<1> USE DEF Ledger!vars
<1>1. CASE jobVars' = jobVars
  BY <1>1 DEF jobVars
<1>2. ASSUME NEW j \in Jobs, Submit(j) PROVE Ledger!Next
  BY <1>2 DEF Submit, Ledger!Next, Ledger!Accept
<1>3. ASSUME NEW w \in Workers, Ack(w) PROVE Ledger!Next
  <2> DEFINE j == holds[w]
  <2>1. j \in Jobs /\ jobStatus[j] = "queued"
    BY <1>3 DEF Ack, Inv, Bookkeeping, Exclusive, Holding
  <2>2. Ledger!Succeed(j)
    BY <1>3, <2>1 DEF Ack, Ledger!Succeed
  <2> QED
    BY <2>1, <2>2 DEF Ledger!Next, Ledger!Settle
<1>4. ASSUME NEW w \in Workers, Nack(w) PROVE Ledger!Next \/ jobVars' = jobVars
  <2> DEFINE j == holds[w]
  <2>1. j \in Jobs /\ jobStatus[j] = "queued"
    BY <1>4 DEF Nack, Inv, Bookkeeping, Exclusive, Holding
  <2>2. GiveUp(j) => Ledger!Fail(j)
    BY <2>1 DEF GiveUp, Ledger!Fail
  <2>3. GiveUp(j) \/ jobVars' = jobVars
    BY <1>4 DEF Nack, Requeue
  <2> QED
    BY <2>1, <2>2, <2>3 DEF Ledger!Next, Ledger!Settle
<1>5. ASSUME NEW w \in Workers,
             \/ EnterPoll(w) \/ LeaveLoop(w) \/ PollEmpty(w)
             \/ \E j \in Jobs : Claim(w, j)
             \/ \E o \in {"succeeded", "failed"} : Translate(w, o)
             \/ Signal(w) \/ Crash(w) \/ Restart(w)
      PROVE  jobVars' = jobVars
  BY <1>5 DEF EnterPoll, LeaveLoop, PollEmpty, Claim, Translate, Signal, Crash,
              Restart
<1>6. ASSUME NEW j \in Jobs,
             RetryDelayEnds(j) \/ AbandonedClaimExpires(j) \/ LiveClaimExpires(j)
      PROVE  jobVars' = jobVars
  BY <1>6 DEF RetryDelayEnds, AbandonedClaimExpires, LiveClaimExpires, GoStale
<1>7. CASE UNCHANGED vars
  BY <1>1, <1>7 DEF vars
<1> QED
  BY <1>1, <1>2, <1>3, <1>4, <1>5, <1>6, <1>7 DEF Next, WorkerStep

(* Without overruns the queue keeps the ledger's safety promise: a job is   *)
(* settled once, a success comes with its bundle, and what is settled never *)
(* changes again.                                                           *)
THEOREM ImplementsLedger ==
  ASSUME SlowWorkers = {}
  PROVE  SafetySpec => Ledger!SafetySpec
<1>1. Init => Ledger!Init
  BY DEF Init, Ledger!Init
<1>2. Inv /\ Exclusive /\ [Next]_vars => [Ledger!Next]_(Ledger!vars)
  BY StepRefinesLedger
<1> QED
  BY <1>1, <1>2, Invariant, NoOverrunExclusive, PTL DEF SafetySpec, Ledger!SafetySpec

-----------------------------------------------------------------------------
(* Statement by statement: PgRowLocks.  What the single statements commit   *)
(* is a behaviour of PgWorkQueue, claims never meet, and nobody waits in a  *)
(* circle.  Where a process that lost its claim must not find its own id in *)
(* the row again, the worker ids have to be distinct.                       *)

HasWork(w, j) == <<"work", j, w>> \in locks

(* A row has one lock at most. *)
LocksExclude ==
  /\ locks \subseteq Tables \X Jobs \X Workers
  /\ \A t \in Tables, j \in Jobs, v, w \in Workers :
       <<t, j, v>> \in locks /\ <<t, j, w>> \in locks => v = w

(* An open claim: its row stays claimable until the commit. *)
OpenClaim(w) ==
  /\ pc[w] = "polling"
  /\ picked[w] \in Jobs
  /\ HasWork(w, picked[w])
  /\ Claimable(picked[w])

(* An open ack: what its last statement found stays so until the commit. *)
OpenAck(w) ==
  /\ pc[w] = "done" /\ outcome[w] = "succeeded"
  /\ stmt[w] = "acked" =>
       /\ verdict[w] \in {"mine", "not_mine"}
       /\ verdict[w] = "mine" => HasWork(w, holds[w]) /\ OwnsRow(w, holds[w])
       /\ verdict[w] = "not_mine" => ~OwnsRow(w, holds[w])

(* An open nack, likewise. *)
OpenNack(w) ==
  /\ pc[w] = "done" /\ outcome[w] = "failed"
  /\ verdict[w] \in {"queued", "failed", "not_mine"}
  /\ verdict[w] # "not_mine" => HasWork(w, holds[w]) /\ OwnsRow(w, holds[w])
  /\ verdict[w] = "not_mine" => ~OwnsRow(w, holds[w])
  /\ verdict[w] = "queued" => ~Exhausted(holds[w])
  /\ verdict[w] = "failed" => Exhausted(holds[w])
  /\ stmt[w] = "dead" => verdict[w] = "failed"

RowTypeOK ==
  /\ stmt \in [Workers -> {"none", "claimed", "saved", "marked", "acked", "nacked", "dead"}]
  /\ picked \in [Workers -> Jobs \cup {NoJob}]
  /\ verdict \in [Workers -> {"none", "mine", "not_mine", "queued", "failed"}]

Transactions ==
  \A w \in Workers :
    /\ stmt[w] = "claimed" => OpenClaim(w)
    /\ stmt[w] \in {"saved", "marked", "acked"} => OpenAck(w)
    /\ stmt[w] \in {"nacked", "dead"} => OpenNack(w)

RowInv == RowTypeOK /\ LocksExclude /\ Transactions

-----------------------------------------------------------------------------
(* Every step of the statements is a step of PgWorkQueue or changes none of *)
(* its tables.                                                              *)
LEMMA StepRefinesQueue ==
  ASSUME Inv, RowInv, RowNext
  PROVE  [Next]_vars
<1> USE DEF RowInv, Transactions
<1>1. ASSUME NEW j \in Jobs, RowSubmit(j) PROVE Next
  BY <1>1 DEF RowSubmit, Next
<1>2. ASSUME NEW w \in Workers, NEW j \in Jobs, ClaimSelect(w, j) PROVE UNCHANGED vars
  BY <1>2 DEF ClaimSelect
<1>3. ASSUME NEW w \in Workers, ClaimCommit(w) PROVE Next
  <2>1. picked[w] \in Jobs /\ Claim(w, picked[w])
    BY <1>3 DEF ClaimCommit, OpenClaim, Claim
  <2> QED
    BY <2>1 DEF Next, WorkerStep
<1>4. ASSUME NEW w \in Workers, ClaimNothing(w) PROVE Next
  BY <1>4 DEF ClaimNothing, Next, WorkerStep
<1>5. ASSUME NEW w \in Workers,
             \/ AckSaveResult(w) \/ AckMarkJob(w) \/ AckMarkWork(w)
             \/ NackMarkWork(w) \/ NackMarkJob(w)
      PROVE  UNCHANGED vars
  BY <1>5 DEF AckSaveResult, AckMarkJob, AckMarkWork, NackMarkWork, NackMarkJob
<1>6. ASSUME NEW w \in Workers, AckCommit(w) PROVE Next
  <2>1. OpenAck(w) /\ stmt[w] = "acked"
    BY <1>6 DEF AckCommit
  <2>2. MarkWorkSucceeded(w, holds[w])
    BY <1>6, <2>1 DEF AckCommit, OpenAck, MarkWorkSucceeded
  <2>3. Ack(w)
    BY <1>6, <2>1, <2>2 DEF AckCommit, OpenAck, Ack
  <2> QED
    BY <2>3 DEF Next, WorkerStep
<1>7. ASSUME NEW w \in Workers, NackCommit(w) PROVE Next
  <2>1. OpenNack(w)
    BY <1>7 DEF NackCommit
  <2>2. \/ ~OwnsRow(w, holds[w]) /\ UNCHANGED <<jobVars, workVars>>
        \/ OwnsRow(w, holds[w]) /\ ~Exhausted(holds[w]) /\ Requeue(holds[w])
        \/ OwnsRow(w, holds[w]) /\ Exhausted(holds[w]) /\ GiveUp(holds[w])
    BY <1>7, <2>1 DEF NackCommit, OpenNack
  <2>3. Nack(w)
    BY <1>7, <2>1, <2>2 DEF NackCommit, OpenNack, Nack
  <2> QED
    BY <2>3 DEF Next, WorkerStep
<1>8. ASSUME NEW w \in Workers, RowCrash(w) \/ Outside(w) PROVE Next
  BY <1>8 DEF RowCrash, Outside, Next, WorkerStep
<1>9. ASSUME NEW j \in Jobs, TimePasses(j) PROVE Next
  BY <1>9 DEF TimePasses, Next
<1> QED
  BY <1>1, <1>2, <1>3, <1>4, <1>5, <1>6, <1>7, <1>8, <1>9 DEF RowNext

-----------------------------------------------------------------------------
(* The invariant of the open transactions.                                  *)

(* A transaction that ends leaves the others and their locks alone. *)
LEMMA EndKeepsLocks ==
  ASSUME RowTypeOK, LocksExclude, NEW w \in Workers, EndTransaction(w)
  PROVE  /\ RowTypeOK' /\ LocksExclude'
         /\ stmt'[w] = "none"
         /\ \A v \in Workers \ {w} :
              /\ stmt'[v] = stmt[v] /\ picked'[v] = picked[v] /\ verdict'[v] = verdict[v]
              /\ \A j \in Jobs : HasWork(v, j) => HasWork(v, j)'
BY DEF EndTransaction, UnlockAll, RowTypeOK, LocksExclude, HasWork

(* A statement that takes a lock takes a free one. *)
LEMMA LockExcludes ==
  ASSUME LocksExclude, NEW t \in Tables, NEW j \in Jobs, NEW w \in Workers, Lock(t, j, w)
  PROVE  LocksExclude' /\ locks \subseteq locks' /\ <<t, j, w>> \in locks'
BY DEF LocksExclude, Lock, LockedByOther

(* Without a change of the queue's tables, the transactions of others stay  *)
(* as they are, whatever locks are added.                                   *)
LEMMA OthersKept ==
  ASSUME Transactions, NEW w \in Workers, UNCHANGED vars, locks \subseteq locks',
         \A v \in Workers \ {w} :
           stmt'[v] = stmt[v] /\ picked'[v] = picked[v] /\ verdict'[v] = verdict[v]
  PROVE  \A v \in Workers \ {w} :
           /\ stmt'[v] = "claimed" => OpenClaim(v)'
           /\ stmt'[v] \in {"saved", "marked", "acked"} => OpenAck(v)'
           /\ stmt'[v] \in {"nacked", "dead"} => OpenNack(v)'
BY DEF Transactions, OpenClaim, OpenAck, OpenNack, HasWork, Claimable, OwnsRow, Exhausted,
       vars, workVars, workerVars

(* The statements of a transaction establish what it relies on, ...         *)
LEMMA StatementStep ==
  ASSUME Inv, RowInv, NEW w \in Workers,
         \/ \E j \in Jobs : ClaimSelect(w, j)
         \/ AckSaveResult(w) \/ AckMarkJob(w) \/ AckMarkWork(w)
         \/ NackMarkWork(w) \/ NackMarkJob(w)
  PROVE  RowInv'
<1> USE DEF RowInv, RowTypeOK
<1>h. pc[w] = "done" => holds[w] \in Jobs
  BY DEF Inv, Bookkeeping, Holding
<1>t. {"result", "job", "work"} \subseteq Tables
  BY DEF Tables
<1>1. ASSUME NEW j \in Jobs, ClaimSelect(w, j) PROVE RowInv'
  <2>0. Lock("work", j, w)
    BY <1>1 DEF ClaimSelect, Candidates, Lock
  <2>1. LocksExclude'
    BY <2>0, <1>t, LockExcludes
  <2>2. OpenClaim(w)'
    BY <1>1 DEF ClaimSelect, Candidates, OpenClaim, HasWork, Claimable, vars, workVars, workerVars
  <2>3. /\ UNCHANGED vars /\ locks \subseteq locks' /\ stmt'[w] = "claimed"
        /\ \A v \in Workers \ {w} :
             stmt'[v] = stmt[v] /\ picked'[v] = picked[v] /\ verdict'[v] = verdict[v]
    BY <1>1 DEF ClaimSelect
  <2>4. RowTypeOK'
    BY <1>1 DEF ClaimSelect
  <2> QED
    BY <2>1, <2>2, <2>3, <2>4, OthersKept DEF Transactions
<1>2. ASSUME AckSaveResult(w) \/ AckMarkJob(w) PROVE RowInv'
  <2>1. /\ pc[w] = "done" /\ outcome[w] = "succeeded"
        /\ UNCHANGED vars /\ stmt'[w] \in {"saved", "marked"}
        /\ Lock("result", holds[w], w) \/ Lock("job", holds[w], w)
        /\ \A v \in Workers \ {w} :
             stmt'[v] = stmt[v] /\ picked'[v] = picked[v] /\ verdict'[v] = verdict[v]
    BY <1>2 DEF AckSaveResult, AckMarkJob, Transactions, OpenAck
  <2>2. LocksExclude' /\ locks \subseteq locks'
    BY <2>1, <1>h, <1>t, LockExcludes
  <2>3. OpenAck(w)'
    BY <2>1 DEF OpenAck, vars, workerVars
  <2>4. RowTypeOK'
    BY <1>2 DEF AckSaveResult, AckMarkJob
  <2> QED
    BY <2>1, <2>2, <2>3, <2>4, OthersKept DEF Transactions
<1>3. ASSUME AckMarkWork(w) PROVE RowInv'
  <2>1. /\ pc[w] = "done" /\ outcome[w] = "succeeded"
        /\ UNCHANGED vars /\ stmt'[w] = "acked"
        /\ \A v \in Workers \ {w} :
             stmt'[v] = stmt[v] /\ picked'[v] = picked[v] /\ verdict'[v] = verdict[v]
    BY <1>3 DEF AckMarkWork, Transactions, OpenAck
  <2>2. LocksExclude' /\ locks \subseteq locks'
    BY <1>3, <2>1, <1>h, <1>t, LockExcludes DEF AckMarkWork, LocksExclude
  <2>3. OpenAck(w)'
    BY <1>3, <2>1 DEF AckMarkWork, OpenAck, HasWork, Lock, OwnsRow, vars, workerVars, workVars
  <2>4. RowTypeOK'
    BY <1>3 DEF AckMarkWork
  <2> QED
    BY <2>1, <2>2, <2>3, <2>4, OthersKept DEF Transactions
<1>4. ASSUME NackMarkWork(w) PROVE RowInv'
  <2>1. /\ pc[w] = "done" /\ outcome[w] = "failed"
        /\ UNCHANGED vars /\ stmt'[w] = "nacked"
        /\ \A v \in Workers \ {w} :
             stmt'[v] = stmt[v] /\ picked'[v] = picked[v] /\ verdict'[v] = verdict[v]
    BY <1>4 DEF NackMarkWork
  <2>2. LocksExclude' /\ locks \subseteq locks'
    BY <1>4, <2>1, <1>h, <1>t, LockExcludes DEF NackMarkWork, LocksExclude
  <2>3. OpenNack(w)'
    BY <1>4, <2>1 DEF NackMarkWork, OpenNack, HasWork, Lock, OwnsRow, Exhausted,
                      vars, workerVars, workVars
  <2>4. RowTypeOK'
    BY <1>4 DEF NackMarkWork
  <2> QED
    BY <2>1, <2>2, <2>3, <2>4, OthersKept DEF Transactions
<1>5. ASSUME NackMarkJob(w) PROVE RowInv'
  <2>1. /\ pc[w] = "done" /\ OpenNack(w) /\ verdict[w] = "failed"
        /\ UNCHANGED <<vars, verdict>> /\ stmt'[w] = "dead" /\ Lock("job", holds[w], w)
        /\ \A v \in Workers \ {w} :
             stmt'[v] = stmt[v] /\ picked'[v] = picked[v] /\ verdict'[v] = verdict[v]
    BY <1>5 DEF NackMarkJob, Transactions, OpenNack
  <2>2. LocksExclude' /\ locks \subseteq locks'
    BY <2>1, <1>h, <1>t, LockExcludes
  <2>3. OpenNack(w)'
    BY <2>1, <2>2 DEF OpenNack, HasWork, OwnsRow, Exhausted, vars, workerVars, workVars
  <2>4. RowTypeOK'
    BY <1>5 DEF NackMarkJob
  <2> QED
    BY <2>1, <2>2, <2>3, <2>4, OthersKept DEF Transactions
<1> QED
  BY <1>1, <1>2, <1>3, <1>4, <1>5

(* ... and a step that changes the tables spares the rows that others have  *)
(* locked, and never puts back the worker id of one who lost its claim.     *)
LEMMA CommitStep ==
  ASSUME DistinctIds, Inv, RowInv, NEW w \in Workers,
         ClaimCommit(w) \/ AckCommit(w) \/ NackCommit(w) \/ RowCrash(w)
  PROVE  RowInv'
<1> USE ConstantsAssumption DEF RowInv
<1>h. pc[w] = "done" => holds[w] \in Jobs
  BY DEF Inv, Bookkeeping, Holding
<1>e. /\ EndTransaction(w) /\ RowTypeOK' /\ LocksExclude' /\ stmt'[w] = "none"
      /\ \A v \in Workers \ {w} :
           /\ stmt'[v] = stmt[v] /\ picked'[v] = picked[v] /\ verdict'[v] = verdict[v]
           /\ \A j \in Jobs : HasWork(v, j) => HasWork(v, j)'
  BY EndKeepsLocks DEF ClaimCommit, AckCommit, NackCommit, RowCrash
<1>x. ASSUME NEW j \in Jobs, HasWork(w, j), NEW v \in Workers \ {w}
      PROVE  ~HasWork(v, j)
  BY <1>x DEF LocksExclude, HasWork, Tables
<1>d. \A v \in Workers \ {w} : WorkerId[v] # WorkerId[w] /\ WorkerId[v] # NoId
  BY DEF DistinctIds
<1>r. \A v \in Workers \ {w} : pc'[v] = pc[v] /\ holds'[v] = holds[v] /\ outcome'[v] = outcome[v]
  BY DEF ClaimCommit, AckCommit, NackCommit, RowCrash, Crash, Release, Inv, TypeOK
(* Which row changes, and how.                                              *)
<1>c. \/ UNCHANGED workVars
      \/ \E j \in Jobs :
           /\ HasWork(w, j)
           /\ lockedBy'[j] \in {WorkerId[w], NoId}
           /\ \A i \in Jobs \ {j} :
                /\ workStatus'[i] = workStatus[i] /\ lockedBy'[i] = lockedBy[i]
                /\ attempts'[i] = attempts[i]
                /\ delayed'[i] = delayed[i] /\ stale'[i] = stale[i]
  <2> USE DEF Inv, TypeOK
  <2>1. CASE ClaimCommit(w)
    BY <2>1 DEF ClaimCommit, Take, Transactions, OpenClaim
  <2>2. CASE AckCommit(w)
    <3>1. OpenAck(w) /\ stmt[w] = "acked"
      BY <2>2 DEF AckCommit, Transactions
    <3> QED
      BY <2>2, <3>1, <1>h DEF AckCommit, OpenAck, Unlock
  <2>3. CASE NackCommit(w)
    <3>1. OpenNack(w)
      BY <2>3 DEF NackCommit, Transactions
    <3>2. \/ UNCHANGED workVars
          \/ HasWork(w, holds[w]) /\ (Requeue(holds[w]) \/ GiveUp(holds[w]))
      BY <2>3, <3>1 DEF NackCommit, OpenNack
    <3> QED
      BY <3>1, <3>2, <1>h DEF OpenNack, Requeue, GiveUp, Unlock
  <2>4. CASE RowCrash(w)
    BY <2>4 DEF RowCrash, Crash
  <2> QED
    BY <2>1, <2>2, <2>3, <2>4
<1>k. ASSUME NEW v \in Workers \ {w}, NEW j \in Jobs
      PROVE  /\ HasWork(v, j) /\ Claimable(j) => Claimable(j)'
             /\ HasWork(v, j) => OwnsRow(v, j)' = OwnsRow(v, j) /\ Exhausted(j)' = Exhausted(j)
             /\ ~OwnsRow(v, j) => ~OwnsRow(v, j)'
  BY <1>c, <1>x, <1>d DEF Claimable, OwnsRow, Exhausted, workVars
<1>v. ASSUME NEW v \in Workers \ {w}
      PROVE  /\ stmt'[v] = "claimed" => OpenClaim(v)'
             /\ stmt'[v] \in {"saved", "marked", "acked"} => OpenAck(v)'
             /\ stmt'[v] \in {"nacked", "dead"} => OpenNack(v)'
  <2>1. pc[v] = "done" => holds[v] \in Jobs
    BY DEF Inv, Bookkeeping, Holding
  <2>2. stmt[v] = "claimed" => OpenClaim(v)'
    BY <1>e, <1>r, <1>k DEF Transactions, OpenClaim
  <2>3. stmt[v] \in {"saved", "marked", "acked"} => OpenAck(v)'
    BY <1>e, <1>r, <1>k, <2>1 DEF Transactions, OpenAck, OwnsRow, HasWork
  <2>4. stmt[v] \in {"nacked", "dead"} => OpenNack(v)'
    BY <1>e, <1>r, <1>k, <2>1 DEF Transactions, OpenNack, OwnsRow, Exhausted, HasWork
  <2> QED
    BY <1>e, <2>2, <2>3, <2>4
<1> QED
  BY <1>e, <1>v DEF Transactions

(* The steps outside the transactions: submissions, work, signals, restarts *)
(* and the passing of time leave the open ones as they are.                 *)
LEMMA OutsideStep ==
  ASSUME Inv, RowInv,
         \/ \E j \in Jobs : RowSubmit(j)
         \/ \E w \in Workers : ClaimNothing(w) \/ (Outside(w) /\ UNCHANGED rowVars)
         \/ \E j \in Jobs : TimePasses(j) /\ UNCHANGED rowVars
         \/ UNCHANGED allVars
  PROVE  RowInv'
<1> USE ConstantsAssumption DEF RowInv
<1>1. UNCHANGED <<stmt, picked, verdict, locks>>
  BY DEF RowSubmit, ClaimNothing, rowVars, allVars
<1>2. RowTypeOK' /\ LocksExclude'
  BY <1>1 DEF RowTypeOK, LocksExclude
<1>h. \A w \in Workers : pc[w] = "done" => holds[w] \in Jobs
  BY DEF Inv, Bookkeeping, Holding
(* Who has a transaction open takes no such step.                           *)
<1>3. \A w \in Workers :
        stmt[w] # "none" =>
          pc'[w] = pc[w] /\ holds'[w] = holds[w] /\ outcome'[w] = outcome[w]
  <2>1. \A w \in Workers : stmt[w] # "none" => pc[w] \in {"polling", "done"}
    BY DEF RowTypeOK, Transactions, OpenClaim, OpenAck, OpenNack
  <2>2. ASSUME NEW j \in Jobs, RowSubmit(j) \/ TimePasses(j)
        PROVE  UNCHANGED <<pc, holds, outcome>>
    BY <2>2 DEF RowSubmit, Submit, TimePasses, RetryDelayEnds, AbandonedClaimExpires,
                LiveClaimExpires, GoStale, workerVars
  <2>3. ASSUME NEW v \in Workers, ClaimNothing(v) \/ Outside(v)
        PROVE  \A w \in Workers : stmt[w] # "none" =>
                 pc'[w] = pc[w] /\ holds'[w] = holds[w] /\ outcome'[w] = outcome[w]
    BY <2>1, <2>3 DEF ClaimNothing, PollEmpty, Outside, EnterPoll, LeaveLoop, Translate, Signal,
                      Restart, Inv, TypeOK
  <2>4. CASE UNCHANGED allVars
    BY <2>4 DEF allVars, vars, workerVars
  <2> QED
    BY <2>2, <2>3, <2>4
(* Time and submissions only make rows claimable.                           *)
<1>4. /\ UNCHANGED <<lockedBy, attempts>>
      /\ \A j \in Jobs : Claimable(j) => Claimable(j)'
  <2> USE DEF Claimable, Inv, TypeOK
  <2>1. ASSUME NEW i \in Jobs, RowSubmit(i) PROVE <1>4!:
    BY <2>1 DEF RowSubmit, Submit, TablesAgree
  <2>2. ASSUME NEW i \in Jobs, TimePasses(i) PROVE <1>4!:
    BY <2>2 DEF TimePasses, RetryDelayEnds, AbandonedClaimExpires, LiveClaimExpires, GoStale
  <2>3. ASSUME NEW v \in Workers, ClaimNothing(v) \/ Outside(v) PROVE UNCHANGED workVars
    BY <2>3 DEF ClaimNothing, PollEmpty, Outside, EnterPoll, LeaveLoop, Translate, Signal, Restart
  <2>4. CASE UNCHANGED workVars
    BY <2>4 DEF workVars
  <2> QED
    BY <2>1, <2>2, <2>3, <2>4 DEF allVars, vars
<1>5. ASSUME NEW w \in Workers
      PROVE  /\ stmt'[w] = "claimed" => OpenClaim(w)'
             /\ stmt'[w] \in {"saved", "marked", "acked"} => OpenAck(w)'
             /\ stmt'[w] \in {"nacked", "dead"} => OpenNack(w)'
  <2> USE <1>1, <1>3
  <2>1. stmt[w] = "claimed" => OpenClaim(w)'
    BY <1>4 DEF Transactions, OpenClaim, HasWork
  <2>2. stmt[w] \in {"saved", "marked", "acked"} => OpenAck(w)'
    BY <1>4 DEF Transactions, OpenAck, HasWork, OwnsRow
  <2>3. stmt[w] \in {"nacked", "dead"} => OpenNack(w)'
    BY <1>4 DEF Transactions, OpenNack, HasWork, OwnsRow, Exhausted
  <2> QED
    BY <2>1, <2>2, <2>3
<1> QED
  BY <1>2, <1>5 DEF Transactions

(* Every step of the statements preserves both invariants.                  *)
LEMMA RowInvStep ==
  ASSUME DistinctIds, Inv, RowInv, [RowNext]_allVars
  PROVE  Inv' /\ RowInv'
<1>1. [Next]_vars
  BY StepRefinesQueue DEF allVars
<1>2. Inv'
  BY <1>1, TypeStep, BookkeepingStep, TablesStep DEF Inv
<1>3. RowInv'
  BY StatementStep, CommitStep, OutsideStep DEF RowNext
<1> QED
  BY <1>2, <1>3

(* Before the first statement there is no transaction and no lock.          *)
LEMMA RowInitInv == RowInit => Inv /\ RowInv
BY InitInv, ConstantsAssumption
   DEF RowInit, RowInv, RowTypeOK, LocksExclude, Transactions

-----------------------------------------------------------------------------
(* The invariant in every reachable state.                                  *)
THEOREM RowInvariant == DistinctIds /\ RowSpec => [](Inv /\ RowInv)
<1> SUFFICES ASSUME DistinctIds PROVE RowSpec => [](Inv /\ RowInv)
  OBVIOUS
<1>1. Inv /\ RowInv /\ [RowNext]_allVars => (Inv /\ RowInv)'
  BY RowInvStep
<1> QED
  BY RowInitInv, <1>1, PTL DEF RowSpec

(* Whatever the interleaving of the statements of poll, ack and nack, what  *)
(* they commit is a behaviour of the atomic steps of PgWorkQueue, so every  *)
(* theorem about it holds of the statements too.                            *)
THEOREM TransactionsAreAtomic == DistinctIds /\ RowSpec => Atomic
<1> SUFFICES ASSUME DistinctIds PROVE RowSpec => Atomic
  OBVIOUS
<1>1. RowInit => Init
  BY DEF RowInit
<1>2. Inv /\ RowInv /\ [RowNext]_allVars => [Next]_vars
  BY StepRefinesQueue DEF allVars
<1> QED
  BY <1>1, <1>2, RowInvariant, PTL DEF RowSpec, Atomic, SafetySpec

(* FOR UPDATE SKIP LOCKED keeps an open claim off every row that somebody   *)
(* else has locked.                                                         *)
THEOREM ClaimsApart == DistinctIds /\ RowSpec => []ClaimsNeverCollide
<1>1. RowInv => ClaimsNeverCollide
  BY DEF RowInv, Transactions, OpenClaim, HasWork, LocksExclude, Tables, ClaimsNeverCollide
<1> QED
  BY <1>1, RowInvariant, PTL

-----------------------------------------------------------------------------
(* Waiting.                                                                 *)

(* The statement that took a lock is known from the table it is on.         *)
LocksByStatement ==
  \A t \in Tables, j \in Jobs, w \in Workers :
    <<t, j, w>> \in locks =>
      /\ stmt[w] # "none"
      /\ t = "job" => stmt[w] \in {"marked", "acked", "dead"}
      /\ t = "work" => /\ stmt[w] \in {"claimed", "acked", "nacked", "dead"}
                       /\ stmt[w] # "claimed" => j = holds[w]

(* Locks are taken in the order of the statements and freed together.       *)
LEMMA LocksStep ==
  ASSUME Inv, RowInv, LocksByStatement, [RowNext]_allVars
  PROVE  LocksByStatement'
<1> USE DEF RowInv, RowTypeOK
<1>1. ASSUME NEW w \in Workers,
             \/ \E j \in Jobs : ClaimSelect(w, j)
             \/ AckSaveResult(w) \/ AckMarkJob(w) \/ AckMarkWork(w)
             \/ NackMarkWork(w) \/ NackMarkJob(w)
      PROVE  LocksByStatement'
  <2>1. holds' = holds
    BY <1>1 DEF ClaimSelect, AckSaveResult, AckMarkJob, AckMarkWork, NackMarkWork, NackMarkJob,
                vars, workerVars
  <2> QED
    BY <1>1, <2>1 DEF ClaimSelect, AckSaveResult, AckMarkJob, AckMarkWork, NackMarkWork,
                      NackMarkJob, Lock, LocksByStatement
<1>2. ASSUME NEW w \in Workers,
             ClaimCommit(w) \/ AckCommit(w) \/ NackCommit(w) \/ RowCrash(w)
      PROVE  LocksByStatement'
  <2>1. EndTransaction(w)
    BY <1>2 DEF ClaimCommit, AckCommit, NackCommit, RowCrash
  <2>2. \A v \in Workers \ {w} : holds'[v] = holds[v]
    BY <1>2 DEF ClaimCommit, AckCommit, NackCommit, RowCrash, Crash, Release, Inv, TypeOK
  <2> QED
    BY <2>1, <2>2 DEF EndTransaction, UnlockAll, LocksByStatement
<1>3. CASE \/ \E j \in Jobs : RowSubmit(j)
           \/ \E w \in Workers : ClaimNothing(w) \/ (Outside(w) /\ UNCHANGED rowVars)
           \/ \E j \in Jobs : TimePasses(j) /\ UNCHANGED rowVars
           \/ UNCHANGED allVars
  <2>1. UNCHANGED <<stmt, locks>>
    BY <1>3 DEF RowSubmit, ClaimNothing, rowVars, allVars
  <2>2. UNCHANGED holds
    BY <1>3 DEF RowSubmit, Submit, ClaimNothing, PollEmpty, Outside, EnterPoll, LeaveLoop,
                Translate, Signal, Restart, TimePasses, RetryDelayEnds, AbandonedClaimExpires,
                LiveClaimExpires, GoStale, allVars, vars, workerVars
  <2> QED
    BY <2>1, <2>2 DEF LocksByStatement
<1> QED
  BY <1>1, <1>2, <1>3 DEF RowNext

(* A process that waits for another one inside a set where everybody waits  *)
(* would wait for the holder of a work row it owns itself.                  *)
LEMMA NobodyWaitsInACircle ==
  ASSUME DistinctIds, Inv, RowInv, LocksByStatement
  PROVE  NoWaitCycle
<1> USE DEF RowInv, RowTypeOK
<1>h. \A w \in Workers : pc[w] = "done" => holds[w] \in Jobs
  BY DEF Inv, Bookkeeping, Holding
<1>1. ASSUME NEW w \in Workers, NEW v \in WaitsFor(w), WaitsFor(v) # {}
      PROVE  stmt[w] # "marked" /\ stmt[v] = "marked"
  <2>1. PICK r \in Needs(w) : <<r[1], r[2], v>> \in locks
    BY <1>1 DEF WaitsFor
  <2>2. v \in Workers /\ v # w /\ Needs(v) # {}
    BY <1>1 DEF WaitsFor
  <2>3. stmt[v] \in {"saved", "marked", "nacked"}
    BY <2>2 DEF Needs
  <2>4. CASE stmt[w] = "marked"
    <3>1. OwnsRow(w, holds[w]) /\ r = <<"work", holds[w]>>
      BY <2>1, <2>4 DEF Needs
    <3>2. holds[w] \in Jobs /\ <<"work", holds[w], v>> \in locks
      BY <1>h, <2>1, <2>4, <3>1 DEF Transactions, OpenAck
    <3>3. stmt[v] = "nacked" /\ holds[v] = holds[w]
      BY <2>2, <2>3, <3>2 DEF LocksByStatement, Tables
    <3>4. verdict[v] = "failed"
      BY <2>2, <3>3 DEF Needs
    <3>5. OwnsRow(v, holds[w])
      BY <2>2, <3>3, <3>4 DEF Transactions, OpenNack
    <3> QED
      BY <2>2, <3>1, <3>5 DEF OwnsRow, DistinctIds
  <2>5. CASE stmt[w] # "marked"
    <3>1. r = <<"job", holds[w]>> /\ stmt[w] \in {"saved", "nacked"}
      BY <2>1, <2>5 DEF Needs
    <3>2. holds[w] \in Jobs
      BY <1>h, <3>1 DEF Transactions, OpenAck, OpenNack
    <3> QED
      BY <2>1, <2>2, <2>3, <2>5, <3>1, <3>2 DEF LocksByStatement, Tables
  <2> QED
    BY <2>4, <2>5
<1> SUFFICES ASSUME NEW S \in SUBSET Workers, S # {}, \A w \in S : WaitsFor(w) \cap S # {}
             PROVE  FALSE
  BY DEF NoWaitCycle
<1>2. PICK w \in S : TRUE
  OBVIOUS
<1>3. PICK v \in WaitsFor(w) : v \in S
  BY <1>2
<1>4. PICK u \in WaitsFor(v) : u \in S
  BY <1>3
<1> QED
  BY <1>1, <1>2, <1>3, <1>4

(* ack and nack lock the rows of a job in opposite orders, and still no set *)
(* of processes ever waits on itself.                                       *)
THEOREM NoDeadlock == DistinctIds /\ RowSpec => []NoWaitCycle
<1> SUFFICES ASSUME DistinctIds PROVE RowSpec => []NoWaitCycle
  OBVIOUS
<1>1. RowInit => LocksByStatement
  BY DEF RowInit, LocksByStatement
<1>2. Inv /\ RowInv /\ LocksByStatement /\ [RowNext]_allVars => LocksByStatement'
  BY LocksStep
<1>3. Inv /\ RowInv /\ LocksByStatement => NoWaitCycle
  BY NobodyWaitsInACircle
<1> QED
  BY <1>1, <1>2, <1>3, RowInvariant, PTL DEF RowSpec

-----------------------------------------------------------------------------
(* PgSubmit: no two requests use one connection at the same time. *)
OwnConnections == \A q, r \in Requests : ConnOf[q] = ConnOf[r] => q = r

(* What the connection of a request holds at each point of submit. *)
RowsOfRequest ==
  \A r \in Requests :
    LET j == JobOf[r]  c == ConnOf[r] IN
    /\ place[r] \in {"start"} \cup Answered
         => newJobs[c] = {} /\ newWork[c] = {} /\ tx[c] = "idle"
    /\ place[r] = "inserted" => newJobs[c] = {j} /\ newWork[c] = {} /\ tx[c] = "open"
    /\ place[r] = "enqueued" => newJobs[c] = {j} /\ newWork[c] = {j} /\ tx[c] = "open"

(* Uncommitted keys are nobody else's. *)
KeysUnique ==
  /\ \A c \in Connections : newJobs[c] \cap jobRows = {}
  /\ \A c, d \in Connections : c # d => newJobs[c] \cap newJobs[d] = {}

SubmitInv == SubmitTypeOK /\ RowsOfRequest /\ KeysUnique /\ jobRows = workRows

(* No submission has begun: the invariant holds at the start. *)
LEMMA InitSubmit == SubmitInit => SubmitInv
BY SubmitAssumption
   DEF SubmitInit, SubmitInv, SubmitTypeOK, RowsOfRequest, KeysUnique, Answered

(* Every statement, rollback, commit and process death keeps the invariant,  *)
(* as long as no other request can end or extend the transaction.            *)
LEMMA SubmitStep ==
  ASSUME OwnConnections
  PROVE  SubmitInv /\ [SubmitNext]_submitVars => SubmitInv'
<1> SUFFICES ASSUME SubmitInv, [SubmitNext]_submitVars PROVE SubmitInv'
  OBVIOUS
<1> USE SubmitAssumption
    DEF OwnConnections, SubmitInv, SubmitTypeOK, RowsOfRequest, KeysUnique, Answered, tables
<1>1. CASE UNCHANGED submitVars
  BY <1>1 DEF submitVars, connVars
<1>2. ASSUME NEW r \in Requests, InsertJob(r) PROVE SubmitInv'
  BY <1>2 DEF InsertJob, NewKey, GoTo
<1>3. ASSUME NEW r \in Requests, EnqueueWork(r) PROVE SubmitInv'
  BY <1>3 DEF EnqueueWork, GoTo
<1>4. ASSUME NEW r \in Requests, StatementFails(r) PROVE SubmitInv'
  BY <1>4 DEF StatementFails, GoTo
<1>5. ASSUME NEW r \in Requests, Rollback(r) PROVE SubmitInv'
  BY <1>5 DEF Rollback, EndTx, GoTo
<1>6. ASSUME NEW r \in Requests, Commit(r) PROVE SubmitInv'
  BY <1>6 DEF Commit, Kept, EndTx, GoTo
<1>7. ASSUME NEW c \in Connections, ProcessDies(c) PROVE SubmitInv'
  BY <1>7 DEF ProcessDies, EndTx
<1> QED
  BY <1>1, <1>2, <1>3, <1>4, <1>5, <1>6, <1>7 DEF SubmitNext, RequestStep

(* No step takes away the rows of a submission that was accepted. *)
LEMMA AcceptedStep ==
  ASSUME OwnConnections
  PROVE  SubmitInv /\ AcceptedIsStored /\ [SubmitNext]_submitVars => AcceptedIsStored'
<1> SUFFICES ASSUME SubmitInv, AcceptedIsStored, [SubmitNext]_submitVars PROVE AcceptedIsStored'
  OBVIOUS
<1> USE SubmitAssumption DEF SubmitInv, SubmitTypeOK, AcceptedIsStored, Answered, tables
<1>1. CASE UNCHANGED submitVars
  BY <1>1 DEF submitVars
<1>2. ASSUME NEW r \in Requests, Commit(r) PROVE AcceptedIsStored'
  BY <1>2 DEF Commit, Kept, GoTo, RowsOfRequest
<1>3. ASSUME NEW r \in Requests,
             InsertJob(r) \/ EnqueueWork(r) \/ StatementFails(r) \/ Rollback(r)
      PROVE  AcceptedIsStored'
  BY <1>3 DEF InsertJob, EnqueueWork, StatementFails, Rollback, GoTo
<1>4. ASSUME NEW c \in Connections, ProcessDies(c) PROVE AcceptedIsStored'
  BY <1>4 DEF ProcessDies
<1> QED
  BY <1>1, <1>2, <1>3, <1>4 DEF SubmitNext, RequestStep

(* With a connection of its own every accepted submission is stored whole,  *)
(* however many others fail, collide or die.                                *)
THEOREM AcceptedStored ==
  ASSUME OwnConnections
  PROVE  SubmitSpec => []AcceptedIsStored
<1>1. SubmitInit => AcceptedIsStored
  BY DEF SubmitInit, AcceptedIsStored
<1>2. SubmitInv /\ [SubmitNext]_submitVars => SubmitInv'
  BY SubmitStep
<1>3. SubmitInv /\ AcceptedIsStored /\ [SubmitNext]_submitVars => AcceptedIsStored'
  BY AcceptedStep
<1> QED
  BY <1>1, <1>2, <1>3, InitSubmit, PTL DEF SubmitSpec

(* Whatever a step adds to the jobs it adds to the work items too. *)
LEMMA AtomicStep ==
  ASSUME OwnConnections
  PROVE  SubmitInv /\ [SubmitNext]_submitVars
           => [\E j \in JobIds \ jobRows : /\ jobRows' = jobRows \cup {j}
                                           /\ workRows' = workRows \cup {j}]_tables
<1> DEFINE Whole == \E j \in JobIds \ jobRows : /\ jobRows' = jobRows \cup {j}
                                                /\ workRows' = workRows \cup {j}
<1> SUFFICES ASSUME SubmitInv, [SubmitNext]_submitVars PROVE Whole \/ UNCHANGED tables
  OBVIOUS
<1>1. ASSUME NEW r \in Requests, Commit(r) PROVE Whole
  <2> DEFINE j == JobOf[r]
             c == ConnOf[r]
  <2>1. c \in Connections /\ j \in JobIds /\ tx[c] = "open"
        /\ newJobs[c] = {j} /\ newWork[c] = {j}
    BY <1>1, SubmitAssumption DEF Commit, SubmitInv, RowsOfRequest
  <2>2. j \notin jobRows
    BY <2>1 DEF SubmitInv, KeysUnique
  <2>3. jobRows' = jobRows \cup {j} /\ workRows' = workRows \cup {j}
    BY <1>1, <2>1 DEF Commit, Kept
  <2> QED
    BY <2>1, <2>2, <2>3
<1>2. ASSUME NEW r \in Requests,
             InsertJob(r) \/ EnqueueWork(r) \/ StatementFails(r) \/ Rollback(r)
      PROVE  UNCHANGED tables
  BY <1>2 DEF InsertJob, EnqueueWork, StatementFails, Rollback
<1>3. ASSUME NEW c \in Connections, ProcessDies(c) PROVE UNCHANGED tables
  BY <1>3 DEF ProcessDies
<1>4. CASE UNCHANGED submitVars
  BY <1>4 DEF submitVars
<1> QED
  BY <1>1, <1>2, <1>3, <1>4 DEF SubmitNext, RequestStep

(* And a submission is one step for everybody else: the job and its work    *)
(* item appear together or not at all.                                      *)
THEOREM SubmitAtomic ==
  ASSUME OwnConnections
  PROVE  SubmitSpec => SubmitIsAtomic
<1>1. SubmitInv /\ [SubmitNext]_submitVars => SubmitInv'
  BY SubmitStep
<1>2. SubmitInv /\ [SubmitNext]_submitVars
        => [\E j \in JobIds \ jobRows : /\ jobRows' = jobRows \cup {j}
                                        /\ workRows' = workRows \cup {j}]_tables
  BY AtomicStep
<1> QED
  BY <1>1, <1>2, InitSubmit, PTL DEF SubmitSpec, SubmitIsAtomic

(* A key that is committed or pending in another transaction refuses the    *)
(* second submission of a job id.                                           *)
LEMMA OnceStep ==
  ASSUME OwnConnections
  PROVE  SubmitInv /\ AcceptedIsStored /\ AcceptedOnce /\ [SubmitNext]_submitVars => AcceptedOnce'
<1> SUFFICES ASSUME SubmitInv, AcceptedIsStored, AcceptedOnce, [SubmitNext]_submitVars
             PROVE  AcceptedOnce'
  OBVIOUS
<1> USE SubmitAssumption DEF SubmitInv, SubmitTypeOK, AcceptedIsStored, AcceptedOnce, Answered
<1>1. CASE UNCHANGED submitVars
  BY <1>1 DEF submitVars
<1>2. ASSUME NEW r \in Requests, Commit(r) PROVE AcceptedOnce'
  <2>1. JobOf[r] \notin jobRows
    BY <1>2 DEF Commit, RowsOfRequest, KeysUnique
  <2> QED
    BY <1>2, <2>1 DEF Commit, GoTo
<1>3. ASSUME NEW r \in Requests,
             InsertJob(r) \/ EnqueueWork(r) \/ StatementFails(r) \/ Rollback(r)
      PROVE  AcceptedOnce'
  BY <1>3 DEF InsertJob, EnqueueWork, StatementFails, Rollback, GoTo
<1>4. ASSUME NEW c \in Connections, ProcessDies(c) PROVE AcceptedOnce'
  BY <1>4 DEF ProcessDies
<1> QED
  BY <1>1, <1>2, <1>3, <1>4 DEF SubmitNext, RequestStep

(* The primary key lets one submission of a job id through. *)
THEOREM AcceptedUnique ==
  ASSUME OwnConnections
  PROVE  SubmitSpec => []AcceptedOnce
<1>1. SubmitInit => AcceptedOnce
  BY DEF SubmitInit, AcceptedOnce
<1>2. SubmitInv /\ [SubmitNext]_submitVars => SubmitInv'
  BY SubmitStep
<1>3. SubmitInv /\ AcceptedIsStored /\ AcceptedOnce /\ [SubmitNext]_submitVars => AcceptedOnce'
  BY OnceStep
<1> QED
  BY <1>1, <1>2, <1>3, AcceptedStored, InitSubmit, PTL DEF SubmitSpec
=============================================================================
