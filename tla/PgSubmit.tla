------------------------------ MODULE PgSubmit ------------------------------
(***************************************************************************)
(* Submitting a job to the Postgres backend, statement by statement        *)
(* (PostgresSubmitWorkQueue.submit).  PgWorkQueue takes this for one step. *)
(*                                                                         *)
(* service.py builds one DEFAULT_WORK_QUEUE per API process, with one      *)
(* connection, and serves requests in threads.  A connection has one       *)
(* transaction at a time, so requests that use the same connection share   *)
(* its transaction: ConnOf says which requests do.  psycopg serialises the *)
(* statements of a connection, nothing more.                               *)
(***************************************************************************)
EXTENDS Integers

CONSTANTS
  JobIds,       \* job ids
  Requests,     \* POST /api/v1/translation/jobs and /jobs/text
  Connections,  \* one for every API process
  JobOf,        \* JobOf[r]: resolved_job_id of the work item of r
  ConnOf        \* ConnOf[r]: the connection of the process that serves r

ASSUME SubmitAssumption ==
  /\ JobOf \in [Requests -> JobIds]
  /\ ConnOf \in [Requests -> Connections]

VARIABLES
  jobRows,    \* committed rows of translation_jobs
  workRows,   \* committed rows of translation_work_queue
  newJobs,    \* newJobs[c]: rows inserted by the open transaction of c
  newWork,    \* newWork[c]
  tx,         \* tx[c]: "idle", "open", or "aborted" after a failed statement
  place       \* place[r]: where request r is in submit

tables == <<jobRows, workRows>>
connVars == <<newJobs, newWork, tx>>
submitVars == <<tables, connVars, place>>

Answered == {"accepted", "refused"}

SubmitInit ==
  /\ jobRows = {}
  /\ workRows = {}
  /\ newJobs = [c \in Connections |-> {}]
  /\ newWork = [c \in Connections |-> {}]
  /\ tx = [c \in Connections |-> "idle"]
  /\ place = [r \in Requests |-> "start"]

GoTo(r, l) == place' = [place EXCEPT ![r] = l]

(* The transaction of c is over; what it had inserted is gone from it. *)
EndTx(c) ==
  /\ newJobs' = [newJobs EXCEPT ![c] = {}]
  /\ newWork' = [newWork EXCEPT ![c] = {}]
  /\ tx' = [tx EXCEPT ![c] = "idle"]

(* Mutant: INSERT ... ON CONFLICT DO NOTHING. *)
AnyKey(j, rows, pending) == TRUE

(* The primary key: no committed row, and no uncommitted one of anybody.    *)
(* While another transaction's row is uncommitted the INSERT waits.         *)
NewKey(j, rows, pending) ==
  /\ j \notin rows
  /\ \A c \in Connections : j \notin pending[c]

(* INSERT_TRANSLATION_JOB_SQL succeeds. *)
InsertJob(r) ==
  LET j == JobOf[r]  c == ConnOf[r] IN
  /\ place[r] = "start"
  /\ tx[c] # "aborted"
  /\ NewKey(j, jobRows, newJobs)
  /\ newJobs' = [newJobs EXCEPT ![c] = @ \cup {j}]
  /\ tx' = [tx EXCEPT ![c] = "open"]
  /\ GoTo(r, "inserted")
  /\ UNCHANGED <<tables, newWork>>

(* ENQUEUE_WORK_ITEM_SQL succeeds: job_id references a job this transaction *)
(* can see.                                                                 *)
EnqueueWork(r) ==
  LET j == JobOf[r]  c == ConnOf[r] IN
  /\ place[r] = "inserted"
  /\ tx[c] # "aborted"
  /\ j \in jobRows \cup newJobs[c]
  /\ NewKey(j, workRows, newWork)
  /\ newWork' = [newWork EXCEPT ![c] = @ \cup {j}]
  /\ tx' = [tx EXCEPT ![c] = "open"]
  /\ GoTo(r, "enqueued")
  /\ UNCHANGED <<tables, newJobs>>

(* Mutant: the exception is swallowed and submit goes on. *)
StatementIgnored(r) ==
  /\ place[r] \in {"start", "inserted"}
  /\ tx' = [tx EXCEPT ![ConnOf[r]] = "aborted"]
  /\ GoTo(r, "enqueued")
  /\ UNCHANGED <<tables, newJobs, newWork>>

(* A statement fails: a key already used, a missing job, a transaction that *)
(* another statement aborted, or any error of the server.                   *)
StatementFails(r) ==
  /\ place[r] \in {"start", "inserted"}
  /\ tx' = [tx EXCEPT ![ConnOf[r]] = "aborted"]
  /\ GoTo(r, "failing")
  /\ UNCHANGED <<tables, newJobs, newWork>>

(* except Exception: self.connection.rollback(); raise *)
Rollback(r) ==
  /\ place[r] = "failing"
  /\ EndTx(ConnOf[r])
  /\ GoTo(r, "refused")
  /\ UNCHANGED tables

(* COMMIT of an aborted transaction rolls it back without an error, and a   *)
(* connection with no transaction commits nothing.                          *)
Kept(c, rows) == IF tx[c] = "open" THEN rows[c] ELSE {}

(* Mutant: a commit after each statement. *)
CommitEarly(r) ==
  LET c == ConnOf[r] IN
  /\ place[r] \in {"inserted", "enqueued"}
  /\ tx[c] = "open"
  /\ jobRows' = jobRows \cup newJobs[c]
  /\ workRows' = workRows \cup newWork[c]
  /\ EndTx(c)
  /\ IF place[r] = "enqueued" THEN GoTo(r, "accepted") ELSE UNCHANGED place

(* self.connection.commit(), outside the try block. *)
Commit(r) ==
  LET c == ConnOf[r] IN
  /\ place[r] = "enqueued"
  /\ jobRows' = jobRows \cup Kept(c, newJobs)
  /\ workRows' = workRows \cup Kept(c, newWork)
  /\ EndTx(c)
  /\ GoTo(r, "accepted")

(* The process ends; the server rolls its transaction back. *)
ProcessDies(c) ==
  /\ \E r \in Requests : ConnOf[r] = c /\ place[r] \notin Answered
  /\ EndTx(c)
  /\ place' = [r \in Requests |->
              IF ConnOf[r] = c /\ place[r] \notin Answered THEN "refused" ELSE place[r]]
  /\ UNCHANGED tables

RequestStep(r) ==
  \/ InsertJob(r)
  \/ EnqueueWork(r)
  \/ StatementFails(r)
  \/ Rollback(r)
  \/ Commit(r)

SubmitNext ==
  \/ \E r \in Requests : RequestStep(r)
  \/ \E c \in Connections : ProcessDies(c)

SubmitSpec == SubmitInit /\ [][SubmitNext]_submitVars

-----------------------------------------------------------------------------
(* Every variable keeps its type. *)
SubmitTypeOK ==
  /\ jobRows \in SUBSET JobIds
  /\ workRows \in SUBSET JobIds
  /\ newJobs \in [Connections -> SUBSET JobIds]
  /\ newWork \in [Connections -> SUBSET JobIds]
  /\ tx \in [Connections -> {"idle", "open", "aborted"}]
  /\ place \in [Requests -> {"start", "inserted", "enqueued", "failing"} \cup Answered]

(* A client that was told 202 has its job and its work item in the          *)
(* database, whatever other submissions fail or die around it.              *)
AcceptedIsStored ==
  \A r \in Requests : place[r] = "accepted" => JobOf[r] \in jobRows \cap workRows

(* Two submissions under one job id are never both accepted. *)
AcceptedOnce ==
  \A q, r \in Requests :
    place[q] = "accepted" /\ place[r] = "accepted" /\ JobOf[q] = JobOf[r] => q = r

(* What the other modules rely on: a submission appears as one step that    *)
(* adds the job with its work item; no half of it is ever visible.          *)
SubmitIsAtomic ==
  [][\E j \in JobIds \ jobRows : /\ jobRows' = jobRows \cup {j}
                                 /\ workRows' = workRows \cup {j}]_tables
=============================================================================
