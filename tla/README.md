# Verification of EDC Translation

TLA+ models of EDC Translation (`src/edc_translation`), checked with TLC and
proved about with TLAPS. The project began with the path of a translation job: a
client submits it, a queue keeps it, worker daemons translate it, and the client
reads a status and a bundle. That path crosses processes, a database or a broker,
timeouts, signals and process deaths, and is where a test suite with a fake
connection sees least. Around it are the parts that share state with it: what a single
translation reads while others change it, tokens and their audit trail, the fan-out of a
document to several workers, batches of files, and the report that says whether a
release is ready.

## The system

| Component | State | Operations | Talks to |
|---|---|---|---|
| API and service (`api.py`, `service.py`) | module-level default repositories, queue and stores | submit, status, bundle, review, policy, batch requests; each runs in a thread of its own | every store below, by direct calls |
| Local queue and repositories (`jobs.py`) | jobs in a dict or in one JSON file each | `submit` runs the translation inside the request; create, mark_running, mark_succeeded, mark_failed | the service |
| Postgres backend (`postgres_backend.py`) | tables `translation_jobs`, `translation_work_queue`, `translation_results`, `translation_dead_letters`, `translation_outbox` and evidence, audit, token and registry tables | `submit`; `poll`, `ack`, `nack`; outbox enqueue, claim and marks; repository reads | API process and workers, each over one connection |
| Kafka backend (`kafka_backend.py`) | per process: local buffer, three queues, an I/O thread; at the broker: topics and group offsets | `submit`, `poll`, `ack`, `nack`, connect, fetch, publish; cutting into segments, reassembly plan | broker |
| Worker daemon (`worker.py`) | stop flag, the item in hand | `run_forever`, `run_once`, `process`, signal handler | one of the two queues, the engines |
| Text batches (`text_batch.py`) | batch records with logs and results, output files, manifest | submit, batch thread, log polling | service, file system |
| Review and governance (`review.py`, `governance.py`) | decisions, policies, glossaries, instruction sets | add, list, get, set, update, delete | service; a review rewrites a job's bundle, a translation reads the rest |
| Tokens and audit (`auth.py`, `auth_middleware.py`, `stores.py`) | token records, audit events; in memory, one JSON file, or Postgres | resolve and mark used, save, revoke, record, list | API middleware, request handlers, administrators |
| Routing, engines (`routing.py`, `service.py`, `engines/`) | model directories on disk | selection, admission by policy, loading | governance, model directories |
| Model registry and provenance (`model_registry.py`, `provenance.py`) | stored validations | validate a directory, load its `provenance.json` | model directories |
| Live providers (`llm_live.py`, `http_json.py`, `mock_openai.py`) | environment variables | smoke, rank, probe of the local runtime | HTTP endpoints |
| Readiness report (`release_readiness.py`, `cli.py`) | evidence files | rubric, check, manifest | evidence files, results of live checks |
| Language catalogue, custody, quality, contracts, MCP, HTTP client | constants, or nothing | functions of their arguments; one call forwarded | service |

What is hard, and what makes each part correct:

- **Postgres queue.** A claim is a row update with a visibility timeout; the worker
  translates outside any transaction. Claims race, workers die, translations outlast
  the timeout, retries are delayed and counted. Correct means: the tables agree about
  every job, the attempt count is honest, nothing is given up early, a worker that
  lost its claim does not disturb its successor, and everything submitted is settled.
- **Submission.** Two INSERTs and a commit, on a connection that all request threads
  share. Correct means: accepted jobs exist, whole, once.
- **Kafka.** In-memory queues between a main thread and a daemon I/O thread on both
  sides of a broker that keeps offsets. Correct means: what was accepted, fetched and
  finished is accounted for.
- **Fan-out.** Rows committed one by one, claimed and marked by publishers that may end,
  messages repeated and answered many times. Correct means: a document whose rows read published was
  sent whole, and refused segments never read as complete.
- **One translation.** The policy, the glossaries, the model directories and the provenance are
  read at different times, and all of them change. Correct means: what the bundle says
  was so at one time of the request, and what the policy says is taken from one version.
- **Batches, reviews, policies, token file, local jobs.** Threads and processes that
  read, change and write back. Correct means: what is lost is lost to an overlap the
  locks do not cover and to nothing else, statuses stay final, nothing runs for ever.
- **Readiness.** The same files are read up to three times. Correct means: a claim of 100 rests
  on files that passed, the printed and the written report agree, a mock is no evidence.

`PROJECT.json` lists the hazards line by line with the properties that cover them.

## Modules

| Module | Models | Run |
|---|---|---|
| `JobLedger` | the promise to clients, as an abstract specification | `pg_ledger` |
| `PgWorkQueue` | submit, poll, ack, nack, worker loop, signals, deaths, clock; one step per transaction | `pg_queue`, `pg_ledger` |
| `PgRowLocks` | the same transactions statement by statement, with row locks | `pg_rowlocks` |
| `PgSubmit` | submission statement by statement over shared or separate connections | `pg_submit`, `pg_shared` |
| `KafkaWorkQueue` | API process, jobs topic, workers with their I/O threads | `kafka` |
| `SegmentFanout` | segments, outbox rows, publishers, results, reassembly plan | `segment_fanout` |
| `TextFileBatch` | batch threads, the repository, files and report on disk, a browser polling the log | `text_batch` |
| `LocalJobs` | local queue, file and in-memory job repositories, review decisions | `local_jobs` |
| `TokenStores` | bearer tokens, tenant binding, issue and revocation, on the JSON file and in Postgres | `token_stores` |
| `ModelBundles` | model directories, their validation and the registry | part of `translate` |
| `TranslateBundle` | one translation, composed with `ModelBundles` and with administrators | `translate` |
| `LiveProviders` | smoke, ranking, runtime probe, mock endpoint | part of `readiness` |
| `ReleaseReadiness` | evidence files and the reports over them, composed with `LiveProviders` | `readiness` |
| `PostgresProofs` | theorems about `PgWorkQueue`, `PgRowLocks` and `PgSubmit` | |
| `TranslateBundleProofs` | theorems about `ModelBundles` and `TranslateBundle` | |
| `ReleaseReadinessProofs` | theorems about `LiveProviders` and `ReleaseReadiness` | |
| `KafkaWorkQueueProofs`, `SegmentFanoutProofs`, `LocalJobsProofs`, `TextFileBatchProofs`, `TokenStoresProofs` | theorems about the module of that name | |

Each `MC...` module gives its model small sets for TLC. `TranslateBundle` and `ReleaseReadiness`
extend the module they are composed with; a step of one part leaves the other's variables alone.

### PgWorkQueue and the code

Variables are the columns the code reads: `jobStatus`, `workStatus`, `lockedBy`,
`attempts`, the set of rows of `translation_results`, the count of dead letters. Time is
two facts per row, `delayed` (`available_at` not reached) and `stale` (`locked_at` older
than the visibility timeout), which are all the SQL asks about time. A worker is a
program counter (`idle`, `polling`, `busy`, `done`, `down`) with the item it holds and its
outcome. `Claim`, `Ack` and `Nack` are the three transactions, `EnterPoll` the test of the
stop flag, `Translate` the choice between success and failure, `Crash` any way in which the
process ends without leaving its loop: a kill, a lost connection, an exception that
`run_once` lets through (item validation and a failed ack or nack are outside its `try`).
A lost connection during a commit is `Crash` before or after the transaction.
`Submit` is atomic here; `PgSubmit` shows when that is true. A second submission under
one job id breaks the primary key and changes nothing, so it is no step.

`claimNo`, `crashes` and `overruns` are history variables: what the code does not
store but the properties speak of.

### PgRowLocks and the code

`ClaimSelect` is the claim statement (ORDER BY priority and age, SKIP LOCKED, the row
version re-checked), followed by its commit; `AckSaveResult`, `AckMarkJob`, `AckMarkWork`,
`AckCommit` and `NackMarkWork`, `NackMarkJob`, `NackCommit` are the statements in their
order. A statement takes the lock of the row it writes or waits; locks end with the
transaction. Writes of an open transaction are invisible and become the step of
`PgWorkQueue` when it commits. The locks that foreign keys take are compatible with
everything here and left out.

### PgSubmit and the code

A request's `place` is between its first INSERT, its second, its commit and its answer; a
connection holds the rows its open transaction has added. Which connection a request uses
is a parameter: `service.py` builds one queue with one connection for the process, so
requests of one process share it.

### KafkaWorkQueue and the code

Per process: the queues `_local_buffer`, `_submit_q`, `_poll_q`, `_result_q` and the state of the
I/O thread (`off`, `starting`, `on`). The main thread only puts and gets; the thread
connects, fetches, commits offsets by itself, and publishes. A failed send takes the
envelope with it and ends the thread (the broker may have stored the message). An exit of
the main thread, in whatever way, ends the daemon thread and drops the queues. The consumer
group is named after the worker id, so each worker has its own offset. The
dead letter and the result of `nack` are put in one step: a send between the two puts cannot be
told from one after them.

### SegmentFanout and the code

`Segments` is `fanout_segments_for_work_item`, `WorkItemText` what `KafkaWorkQueue.from_envelope` gives a
worker, `Enqueue` one committed row of `PostgresOutbox.enqueue`, `Claim` the claim statement, `MarkPublished` and
`MarkFailed` the marks, which test no status; `retries` counts the marks with `retry=True`. The repository has
the operations and not the loops that call them, so any order of calls is allowed. `Work` is a worker that answers
a message. Each worker is a consumer group of its own (`worker.py:562`) and reads again what it had not committed,
so a message is answered any number of times. The bundle that `from_envelope` rebuilds
has three fields (`Rebuilt`), `document-bundle-v1` requires eleven (`Required`), and `translate_document_bundle`
validates first (`service.py:215`): every answer is a failure. `Missing`, `Failed` and `Ready` are
`reassembly_plan`; `tagged` says whether results carry a `segment_id`. Those that `ack` and `nack` build do not; a
caller of `from_worker_result` may pass it. Results made by other programs are not modelled.

Seen on the way: a segment of several spans gives every span the joined text of all of
them (`OwnText` is therefore asked for one span per segment, the default); a segment without text becomes a
span of another name; `mark_failed(retry=True)` knows no limit; segment envelopes go to
the topic of their event type while the docstring names a segments topic; segments drop
`allow_nc_licensed` and `certified`.

### TextFileBatch and the code

A batch is submitted, then its thread finds its files, and for each of them reads, translates,
opens the output and writes it, and updates the repository; at the end it writes the report. Any
of these may fail, and the code's handlers decide whether the batch goes on. A path
is a sequence of names, so that the code's "source below the output directory" test is a prefix
test. A file's content is the sequence of batches that translated it: an output taken
for a source shows as a text translated twice. A file that is open and not yet written is `Partial`.
The browser keeps an offset and asks for the entries behind it. The end of the process loses the
repository and the threads and leaves the disk.

The properties are about requests whose outputs stay apart (`OutputsApart`, asked of the instance and a premise of each theorem): what one request
writes lies below the source of another only where that one writes too, the case the code filters (`text_batch.py:343`). Outside of it
they fail: after `in` to `in/fr`, a batch from `in` to `in/de` translates the French files, perhaps one that is just being
written; and a single source file in its own output directory is overwritten (`text_batch.py:334`).
Extension filter, recursion flag, encodings, sidecars and the wording of log entries are left out.

### LocalJobs and the code

Each submission and each review is a thread in a process (the API server, a command line call on
the same directory). Every repository write is: take the process's lock, read and change, open the
file (which empties it, `Torn`), write, release. Another process's read does not know that lock
and may meet `Torn`; nor does its write: over a longer text that another process wrote since the file was opened, the
shorter one leaves a tail behind (`Mangled`, one of the outcomes in `Stored`), and no later request can read the job.
`FileFails` is an open or a write that raises. In memory the attributes of the live object are set one by one, the status before
the bundle (`Open`, then `Write`). `record_review_decision` is four calls with nothing around them: get
the job, number and add the decision, look at the bundle, write the bundle back. With a job
directory (`Durable`) the bundle is the copy read at the beginning; in memory it is the live one.
`ProcessEnds` loses the threads, the lock, the review repository and a repository in memory.

### TokenStores and the code

`pc` is the place of a caller (a request, or an administrator's program), `task` what it is doing:
`auth` the middleware, `bind` the handler that records the tenant, `revoke` and `issue`. On the JSON
file an operation is `Load`, `OpenTmp`, `WriteTmp`, `Replace`; `view` is the payload it computed from what it read.
All instances share one name for the temporary file, so that two writers may hold the same file
open, or hold a file that was renamed under them: `handle` follows that. The lock is per
instance: the handlers of a process share one, the middleware makes a new one per request
but runs on the event loop, so one at a time per process. In Postgres each statement is a
transaction of its own: `ListTokens`, `GetToken`, `SaveToken`, `RecordEvent`; `StatementFails` has the handlers' answers.
`FileFails` is the same for the file: an OSError when it is read, opened, written or renamed, with any part of the text left on disk, is a
500 from the middleware, and nothing at all from a handler, which answers as if the event were there (`auth_middleware.py:222-268`). Only the
endpoints that submit a translation, a job or a batch and those of tenant policies bind a tenant (`body`); the others are served after the middleware.
`Lapse` is a token that expires meanwhile, `ProcessEnds` the end of an API process or of an administrator.

Seen on the way: with Postgres a denied token leaves no event, and the middleware writes the whole
record back that it read, so that it can undo a revocation that came between (`LostOnlyToOverlap` has
this as an overlap, `ServedIsOnTrail` and `TrailMatchesRecords` are for the file alone).

### ModelBundles, TranslateBundle and the code

`bundles` is what each model directory holds as far as the code asks, `ChangeFiles` one edit of an operator.
A validation is `Validate`, `CheckTokenizers`, `CheckProvenance`, `SaveStatus`: three readings and
a write, under an id that is free (`model_registry.py:78`). A provenance file that cannot be read raises out of it and no status is
stored. `fresh` is history: the directory has not changed since the validation began.

A translation is `ReadPolicy` (once, with the instruction set), `ReadGlossary` for each glossary, `LookAtEngine` for
each automatic engine in the router's order, `ChooseEngine` (resolve, find, admit), `Load` at the first
span, `Attach` for the provenance. `UpdateReads` and `UpdateSets` are the two halves of
`TenantPolicyRepository.update`. `TranslatedSpans` is the dictionary by span id from which pages and languages are
put back. `seen` is history: which policies, directories and glossaries there were while the request ran.
`Load` may fail in a directory that is complete: neither the router (`routing.py:192`) nor a validation (`model_registry.py:84`) tries the packages or
opens the weights, which `_ensure_loaded` does (`ct2_sentencepiece.py:107`; `tests/test_local_ct2_opus.py:51` is the case of the packages).
So `ApprovalHolds` promises only that a request is not refused for what the validation looked at.

Seen on the way: the API always passes a list of glossary ids, so the policy's own are used by other callers only; a span without
a language gets the text `None`; an explicit provider id is not tested against the
licence flag; the `approved` of the registry is never consulted; the baseline instruction set admits no cloud
engine, so that a policy that allows one still cannot use it; `GET /engines` fails as a
whole when one directory has a provenance that is not accepted.

### LiveProviders, ReleaseReadiness and the code

`op` is the command under way with the environment it took at its start: `Smoke`, `Rank`, then `Discover`, `NextModel`,
`Chat`. The provider may answer anything in `Offers`, fail, or break the connection, which nobody catches.
`Probe` is `local_runtime_readiness`. `Record` is a reviewer who makes the live-smoke artifact of a result
and the last probe. A ranking is any permutation that is sorted and stable (`Sorts`): there is exactly one,
the one `sorted()` returns. A report is a sequence of readings, each `Look` (`is_file`) and `Read`; `readiness-run
--out` is `Rubric \o Rubric \o Requirements`. `Score` and `Manifest` are the two functions of the verdicts. `passed` and
`changed` are history.

`LiveIsOptIn` is about smokes and rankings: a translation by the local engine sends its texts without that gate
(`local_openai_compat.py:38`). `ClaimIsBacked` and `ManifestAgrees` are about the commands, which never pass the results of live smokes
(`live_smoke_results`); a caller from Python may.

Seen on the way: a latency of 0 ms counts as the slowest; the readiness report does not look at the success counts
of a live-smoke artifact; `docs/03-INFORMATION-FLOWS.md:129` promises a bounded failure
payload, while a connection that is reset during the answer escapes `smoke_provider`
(modelled as `raised`).

### JobLedger

`status` and the set of stored bundles. `PgWorkQueue` implements it with
`status <- jobStatus, bundles <- results`, as long as no translation outlasts
the visibility timeout; with overruns a terminal status may be revised, and
`RevisedOnlyAfterOverrun` says when.

## Runs

| Run | Instance | Shows |
|---|---|---|
| `pg_queue` | 2 workers with their own ids, 2 jobs, max_attempts 2, 1 death, 1 overrun | `TablesAgree`, `AttemptsSound` (in budget, and not given up early), `LockNamesLatestClaim`, `RevisedOnlyAfterOverrun`, and `EventuallySettled` |
| `pg_ledger` | as above without overruns | `OneTranslationAtATime`; refinement of `JobLedger` (`LedgerSpec`), liveness included |
| `pg_rowlocks` | 2 workers, 2 jobs, statements | committed transactions form a behaviour of `PgWorkQueue` (`Atomic`); `ClaimsNeverCollide`; `NoWaitCycle`, although ack and nack lock in opposite orders |
| `pg_submit` | 3 requests on connections of their own, 2 for the same job | accepted jobs are stored (`AcceptedIsStored`), once (`AcceptedOnce`), in one visible step (`SubmitIsAtomic`) |
| `kafka` | API process, 1 worker, 2 jobs, 1 failed send, 1 process end | `NothingLost`: accepted items, fetched messages and finished translations are accounted for; `DeadLetterAfterResult`; `EveryMessageAnswered` |
| `text_batch` | 2 batches with one output directory below the source, 5 kinds of request, 1 failure, 1 process end, 2 polls | `AnswersAgree`: statuses, outputs on disk, report and polled log tell the same; `NoTextTranslatedTwice`; `OnlyTheReportRevokes` an outcome |
| `local_jobs` | 2 jobs, 2 reviews from the API and 1 from a command line, on job files, 1 process end or failed file operation | `SettledOnce`; `StoreIsSound`: certification agrees with the decisions, a half-written file has a writer or one that ended or failed, a file with two texts has two reviews that crossed; `OnlyConcurrentReviewsAreLost`; `EverySubmissionEnds` |
| `token_stores` | 2 requests of one API process, one revocation, one issue, either store, every mode, 1 failing statement, file operation or process end | `LostOnlyToOverlap`; `TrailIsTrue`: who was served is on the trail unless operations overlapped or the handler could not write, records and events agree; `StoreIsSound`: only overlapping writers leave an unreadable file |
| `segment_fanout` | up to 3 spans in segments of up to 2, 2 publishers that claim 2 rows, 1 failure reported per segment with retry, 1 process end | `PublishedCoversDocument`; `RowsAreHeldByOne`; `NothingIsReassembled` |
| `translate` | 2 engines, 2 administrators with 3 kinds of update, 1 glossary, 6 requests, 2 documents, 1 edit of a directory, 1 validation | `OnePolicyDecides`; `RoutedWell`; `BundleIsTrue`; `UpdatesLostOnlyToOverlap`; `ApprovalHolds` |
| `readiness` | 6 environments with 1 switch, 2 models, 5 evidence files and a review with 2 changes, all commands | `LiveIsOptIn`; `RankingLeadsWithBest`; `ClaimIsBacked`; `ManifestAgrees`; `MockNeverCounts` |
| `pg_shared` | 3 requests on one connection | *violated*: an accepted job is gone |

`pg_shared` is the one finding with a run. A rollback by one request thread removes the
uncommitted rows of another, which then commits nothing and reports success.

Every property has a mutant in `PROJECT.json`: a plausible bug in a definition that models
code, under which the same run finds the property violated.

### Known divergences without a run of their own

Places where a document or comment says otherwise than the code; the models
follow the code, and the properties are stated so that they say what remains true.

- `jobs.py:14` names succeeded and failed terminal. `ack` writes result and job (`postgres_backend.py:1092`) without
  looking at `locked_by`; only its update of the work row does. After an overrun a job goes from failed to
  succeeded, or back. `RevisedOnlyAfterOverrun` says that nothing less makes it do so.
- `docs/API-REFERENCE.md:35` and `docs/10-TROUBLESHOOTING.md:33`: with the Postgres backend the bundle of a completed job answers
  409. `ack` stores the bundle in `translation_results`, the repository reads `translation_jobs`, which has none
  (`postgres_backend.py:1255`, `service.py:470`).
- `worker.py:479` says that a graceful exit drains the item in flight. Its result may stay in the queue of the daemon I/O
  thread, for which nobody waits (`kafka_backend.py:519`). `NothingLost` therefore excuses processes that ended.
- `docs/WHITE-PAPER.md:5` promises that review decisions stay attached to every output bundle. Two concurrent reviews read the bundle, each adds its own
  decision and writes it back (`service.py:623`). `OnlyConcurrentReviewsAreLost` says that nothing else loses one.
- The first items submitted on Kafka stay in the API's `_local_buffer` (the I/O thread
  cannot be connected at the test that follows its start) and nobody polls them; every Kafka worker is its own consumer
  group (`worker.py:562`), so each translates every job.

### Bounds, and why they are enough

- Queue: two workers, since each hazard is between one worker and its successor on an
  item; two jobs, since a worker may go on to another item while its old one is still open.
  `MaxAttempts = 2` has a first, a retried and a last attempt and lets a claim go beyond the
  budget; the code's default is 3 and nothing depends on it. One death and one overrun together reach attempts
  above max_attempts, a late ack after a give-up, and a late ack before one.
- Kafka: one worker, since workers share nothing but the topic, which they only read.
- Fan-out: three spans in segments of two have a full and a shorter segment, and in segments of one more rows than a claim takes.
  One reported failure gives a segment a second send. Two publishers share the rows. Answers need no bound: they only replace one another.
- Batches: one may write where the other reads or write the other's report. One failure reaches
  each handler in every run of it. Batches are symmetric.
- Reviews: two in one process and one outside its lock. Every submission happens once; a repeated one is a second request in `PgSubmit`.
- Tokens: one request carries the token that is being revoked, the other only binds a tenant; the issue of
  another token is the third writer of the file, and the revocation the fourth. Both bind a tenant; an endpoint that
  binds none is in the theorems.
- Translation: requests only read what they share, so one is enough. The instance explores administrators and
  glossaries or validations, not both (`OneKindAtWork`): they write different variables and only the request reads
  both. Nothing is explored behind the end of the request (`Serving`), since nothing reads it. TLC does not check
  an action property on steps that a constraint cuts off; `ApprovalHolds` is about steps of the
  request, which are inside. One validation has one id; more ids are in the theorem.
- Readiness: live checks and report commands share only the recorded artifact, so one kind or the other is explored
  (`OneKind`), live checks up to the first record (`UpToRecord`). Two production requirements stand for the seventeen
  of the code: they are a conjunction. Two changes of files reach a change between any two of the three readings.
- `MaxCrashes`, `MaxOverruns`, `MaxFailedSends`, `MaxEnds`, `MaxFaults`, `MaxSwitches`, `MaxRewrites`, `MaxFileChanges` and
  `MaxGlossaryChanges` bound faults and changes by others. The theorems hold for every value.

### Fairness

A live worker goes on (weak fairness of its steps). `Claim` is strongly fair: a poll that meets a
claimable row again and again gets it in the end, since other transactions lock rows
only for the moment of a statement. The Deployment restarts ended workers
(`docker-compose.prod.yml` has no restart policy; there, liveness needs one live worker) and does
not signal each of them before its first poll (strong fairness of `EnterPoll`). Time passes:
retry delays end, and a claim whose process is gone expires. Clients need not submit, faults
need not happen. That overruns are bounded is an assumption of liveness: an item whose every
translation outlasts the timeout is claimed for ever, since each late nack is fenced
out and only a nack gives up. On Kafka, a broker that is tried again and again is
reached (strong fairness of `Connect`). In `LocalJobs` a request that was started goes on (weak
fairness: threads are scheduled, locks are held for finitely many steps); nobody need post one.
The other modules state no fairness: their properties are safety.

Deadlock is checked wherever the system must go on: the queue, its rows, Kafka, readiness, tokens and the fan-out (where
`Settled` and `Quiet` stand for a system that waits for its next caller). The requests and batches of `pg_submit`, `pg_shared`,
`text_batch`, `local_jobs` and `translate` are finite in number, so there the system may stop when all of them are answered.

## Proofs

Every safety property that a run checks is a theorem, for arbitrary sets and bounds, under the modules' own assumptions on
constants and those named here.

- **`PostgresProofs`**, `PgWorkQueue`. `Invariant`: `Inv == TypeOK /\ Bookkeeping /\ TablesAgree` is inductive. `TablesAgree` alone
  is not: an ack needs to know that the item in hand is a job that was submitted, and a
  nack that passes `locked_by` that the row is running. `TypeCorrect`, `Consistent` are its parts. `AttemptsAreSound`:
  `AttemptsInv` charges each attempt beyond the limit to a crash or an overrun and keeps one unit in hand while a row is
  running with a live holder; a failed row is touched by nothing. `Fence` assumes `DistinctIds`: a process that still
  passes the `locked_by` test made the row's last claim. `TerminalRevisedLate`: `FirstClaim` says that
  an item claimed once is unsettled and its holder alone with it; it holds with shared ids too. `OneAtATime` and `ImplementsLedger` assume `SlowWorkers = {}`;
  `Exclusive` says that a held item is a running, fresh row locked by its holder. `ImplementsLedger` is the
  refinement of `JobLedger`'s safety part: each step is a step of the ledger or a stutter.
- `PgRowLocks` (assuming `DistinctIds`). `RowInvariant`: locks exclude each other, and an open transaction
  holds what its statements have locked; with it every statement is a step of `PgWorkQueue` or a stutter
  (`TransactionsAreAtomic`), so that all of the queue's safety theorems hold of the statements. `ClaimsApart`. `NoDeadlock`:
  ack takes job then work, nack work then job. In a circle everyone waits and is waited for; by `LocksByStatement` it would be an ack that
  has marked the job and waits for the work row of another process, and `locked_by` keeps it from that row.
- `PgSubmit` (assuming `OwnConnections`, no two requests share one): `AcceptedStored`, `AcceptedUnique`,
  `SubmitAtomic` from `SubmitInv`, which ties the uncommitted rows of a connection to the place of its only request. `pg_shared`
  is what happens without that assumption.
- **`KafkaWorkQueueProofs`.** `KInv` adds to the types that a worker at work holds an item (`AtWork`) and that offsets lie
  within the topic (`WithinTopic`). `KafkaLosesNothing`: a message leaves one place only for the next one. `DeadLettersFollow`:
  in the result queue a dead letter stands behind its failed result (`DeadBehindFailed`), and sends keep that order.
- **`LocalJobsProofs`.** `LocalInvariant`: a writer holds its process's lock (`Locked`), what it is about to write is a legal
  next record (`InHands`), review numbers are those of the decisions or the next one (`Numbered`), no bundle and no review is there before the submission has settled (`SettlesFirst`), and a bundle in memory stays
  while a review that has seen one goes on (`MemoryKept`). `StoreSound` adds `Crossed`: who writes to a file that another has
  written since it was opened is a review, the other one too, and neither has seen the other. `JobsSettleOnce`; `LostToConcurrentReviews` from `LostToAnswered`: a review that is missing was
  overwritten by another that has been answered, and neither had seen the other.
- **`SegmentFanoutProofs`.** The invariant adds three facts to `RowsAreHeldByOne`: `Held`, that what a publisher has claimed are rows in publishing;
  `Spare`, that a row which is pending, or claimed and not yet sent, was sent no more often than its publishers reported a failure; and `Refused`,
  that an answer belongs to a segment that was sent and is a failure. `NeverReassembled` follows from `Refused`, since there is
  always a segment. `PublishedCovers` adds the arithmetic of segments of any width: segments
  meet end to start, begin at the first span and end at the last. That every span is in one of them is induction over the segments, which
  `IntervalInduction` takes from the well-foundedness of the strict subset order on a finite set.
- **`TranslateBundleProofs`.** `SeenNow` says that the current state is among those seen while the request runs, `ByOnePolicy` that what was
  taken from a policy was taken from one that was seen, `RoutedSoFar` what the router knows of the engines it has looked at. `OnePolicy`, `RoutesWell`;
  `OverlapLoses`, which is inductive by itself: an update that did not overlap has the current policy in hand. `BundleTells`: `Glossed` says that
  what the request holds of a glossary, or failed for, was so at some time of the request; pages and languages follow from which span wins an id.
  `ApprovalIsKept`: `FoundTruly` says that what a validation has found, and what the registry calls approved, holds of the directory
  until the directory changes.
- **`TextFileBatchProofs`.** `BInv` ties the four stories to the disk. `Coherent`, for each batch: repository and thread are of one place in the
  code, and the outputs of the files still to do differ from each other and from those done. `DiskInv`: outside the output
  directories nothing is written, within them each whole file is one translation of an original. `WrittenInv`: an output reported as
  written is whole, or another batch has begun it again. `ReportInv`, `ClientInv`: a report on disk is of a thread that has ended, and the browser's
  offset is within the log. `AnswersAgree` alone is not inductive, because an output that is whole says
  nothing about which batches may yet open it. `OneStory`, `TranslatedOnce`, `TerminalStands`, all under `OutputsApart`.
- **`TokenStoresProofs`.** `Invariant` has ten parts besides the types. `Roles` and `Backends` say who can be where. `Apart`: two operations between their
  read and their write both count as overlapped. `Alone`: so one that has not overlapped has the temporary file to itself and renames what it wrote. `TornByPair`:
  two that have are needed for an unreadable store. `AllSound`, `AllMatch`: payloads agree with their events wherever they
  are, on disk or in a caller's hands. `ViewsTell`, `Kept`: a caller holds the effect of its own operation and of every operation that ended
  without an overlap. `Served`: who was served is on the trail, or the handler could not write, or the store is torn for good. `StoreSound`, `LostToOverlap`, `TrailTrue`.
- **`ReleaseReadinessProofs`**, `LiveProviders`. `LiveInv`: texts are sent behind the gate alone and to a named model, and what is reported and what is still to do
  is one result, or at most `max_models`. `OptIn`; `BestLeads` from `Sorted`: the permutation is sorted, so a result that did not complete never
  stands before one that did.
- `ReleaseReadiness`, composed with it. The claim is about three readings of files that change, so `Inv` speaks of the one under way: each verdict so far
  is of an item that passed during the command (`ReadInv`), and still passes if no file has changed (`PassedInv`). `ScoreTells`: a score
  of 100 needs every item, and a blocker is an item that did not pass. `ClaimsAreBacked`, `ManifestsAgree`, `MockIsNoEvidence`.

Assumptions on constants are weak, but for `OutputsApart`, and TLC evaluates them in every run: bounds are natural numbers; callers, batches and paths are
finitely many; values that stand for nothing (`None`, `NoItem`, `Absent`, `NoReport`, `NoOne`, `Torn`, a model "none") are none of the values
they stand beside; glossary lists, spans and requirements are sequences; a path has a name; requirements have names of their own.

Only model-checked: liveness (`EventuallySettled`, the liveness in `LedgerSpec`, `EveryMessageAnswered`,
`EverySubmissionEnds`), which is beyond the prover.

## Not modelled, and why

- Translation runtimes, language identification, quality scores, custody hashes, the language catalogue: functions
  of one text or constant tables; a translation succeeds or fails.
- `--max-items`, `run_until_idle`, the health server, model prewarming: test aids and reports.
- Contents of items, envelopes and errors: the properties do not tell them apart.
- Evidence, job-evidence and model-registry tables of Postgres: single statements without a second step.
- Token hashing, JWT encoding, the table of roles and scopes, stores in memory: no step of others in between.
- MCP tools, API client and the other commands: one forwarded call each. Schemas: validation of data.
- The fallback of `KafkaWorkQueue` without aiokafka: one deque in one process.
- Row-level details of Postgres beyond row locks at READ COMMITTED.

Hazards without a property: workers that share the default id (`docker-compose.prod.yml:66`; `LockNamesLatestClaim` and `NoWaitCycle` do not
hold for them), the API's connection that is never reopened (`service.py:186`), two I/O threads
started at once (`kafka_backend.py:515`), two reviews with one number (`review.py:39`, in `LocalJobs`, where no
property could promise that both are listed), a signal between a worker's test and its next claim (`worker.py:341`: one more item is
done, which is harmless), and three of Kafka that `NothingLost` counts as kept or excuses: items in the buffer of the API (`kafka_backend.py:629`), messages
delivered again to processes that follow (`kafka_backend.py:537`), and what a graceful exit leaves behind (`kafka_backend.py:519`).

## Plan

1. Done: all the modules above, and a theorem for every safety property of their runs.
2. `PgSubmit` below `PgWorkQueue`: that with `OwnConnections` the statements of a submission implement the queue's `Submit`, so
   that `ImplementsLedger` begins at the first INSERT.
3. `TextFileBatch` and `TokenStores` without their overlaps: that a batch alone, or an operation alone, implements an abstract
   one that does it in one step.
