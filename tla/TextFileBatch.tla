--------------------------- MODULE TextFileBatch ---------------------------
(***************************************************************************)
(* Text file batches of edc_translation/text_batch.py: each batch runs in  *)
(* a thread of the API process, keeps its state in a repository in memory  *)
(* and leaves translated files and a report on disk.  Several batches run  *)
(* at once, may share an output directory, and a browser polls one of them *)
(* for its log (service.py get_text_file_batch_logs).                      *)
(*                                                                         *)
(* A path is a sequence of names.  The content of a file is the sequence   *)
(* of the batches that translated it: <<>> for a text somebody provided,   *)
(* Append(t, b) for batch b's translation of t.  A file that was opened    *)
(* for writing and not yet written is Partial.  Encodings, sidecar bundles *)
(* and result details are left out; a sidecar that cannot be written is    *)
(* one of the failures of a file.                                          *)
(***************************************************************************)
EXTENDS Integers, Sequences, SequencesExt, FiniteSets

CONSTANTS
    Batches,      \* identifiers, one per submitted batch
    Requests,     \* what clients may submit, see RequestType
    Paths,        \* every file the requests can read or write
    Originals,    \* the files that are there before any batch
    Absent, Partial, NoReport, NoRequest, NoBatch,
    MaxFaults,    \* failing reads, translations and writes per behaviour
    MaxEnds,      \* ends of the API process per behaviour
    MaxPolls      \* log requests of the browser per behaviour

RequestType == [source: Seq(STRING), output: Seq(STRING), autoTarget: BOOLEAN,
                continueOnError: BOOLEAN, writeManifest: BOOLEAN]

TerminalBatchStatuses == {"succeeded", "completed_with_errors", "failed"}

\* What a complete report says.
Snapshots == [batch: Batches, status: TerminalBatchStatuses, processed: Nat, failed: Nat]

RelativePath(r, p) == IF p = r.source THEN <<Last(p)>>
                      ELSE SubSeq(p, Len(r.source) + 1, Len(p))

OutputPath(r, p) == r.output \o RelativePath(r, p)

ASSUME BatchAssumption ==
    /\ Requests \subseteq RequestType /\ IsFiniteSet(Batches) /\ IsFiniteSet(Paths)
    /\ Paths \subseteq Seq(STRING) \ {<<>>} /\ Originals \subseteq Paths
    /\ MaxFaults \in Nat /\ MaxEnds \in Nat /\ MaxPolls \in Nat
    /\ Absent \notin Seq(Batches) \cup {Partial} /\ Partial \notin Seq(Batches)
    /\ NoReport \notin Snapshots /\ Partial \notin Snapshots
    /\ \A r \in Requests, p \in Originals :
          IsPrefix(r.source, p) => OutputPath(r, p) \in Paths

\* A file that some request writes is below the source of another only if it
\* lies in the output directory of that one too, and is no source itself.
\* Without it, a request that reads in/ and writes in/de/ translates again
\* what an earlier one wrote to in/fr/: a batch skips its own outputs only.
OutputsApart ==
    \A r, s \in Requests : \A p \in Paths :
        IsPrefix(r.source, p) /\ IsPrefix(s.output, p)
           => p # r.source /\ IsPrefix(r.output, p)

VARIABLES
    disk,     \* content of every file
    report,   \* translation-batch-report.json of every output directory
    job,      \* the repository: a TextFileBatchJob for every batch
    thread,   \* the batch threads: where each is, its files to do, the text it read
    client,   \* the browser that polls a log
    faults,   \* failures so far
    ends      \* process ends so far

vars == <<disk, report, job, thread, client, faults, ends>>

NoJob == [status |-> "none", request |-> NoRequest, files |-> <<>>, total |-> 0,
          processed |-> 0, failed |-> 0, logs |-> 0, manifest |-> FALSE]
NoClient == [batch |-> NoBatch, offset |-> 0, next |-> 0, got |-> {}, polls |-> 0, at |-> "idle"]
NoThread == [at |-> "none", todo |-> <<>>, text |-> Absent]

Exists(p) == disk[p] # Absent
SourceExists(r) == \E p \in Paths : Exists(p) /\ IsPrefix(r.source, p)
OutputDirs == {r.output : r \in Requests}
Known(b) == job[b].status # "none"
Req(b) == job[b].request
Current(b) == Head(thread[b].todo)
CurrentOutput(b) == OutputPath(Req(b), Current(b))

DiscoveredAnywhere(r) ==
    IF r.source \in Paths /\ Exists(r.source) THEN {r.source}
    ELSE {p \in Paths : Exists(p) /\ IsStrictPrefix(r.source, p)}

\* discover_text_files: the source itself, or what lies below it and not in
\* the batch's own output directory.
Discovered(r) ==
    IF r.source \in Paths /\ Exists(r.source) THEN {r.source}
    ELSE {p \in Paths : Exists(p) /\ IsStrictPrefix(r.source, p)
                                  /\ ~ IsPrefix(r.output, p)}

Init ==
    /\ disk = [p \in Paths |-> IF p \in Originals THEN <<>> ELSE Absent]
    /\ report = [d \in OutputDirs |-> NoReport]
    /\ job = [b \in Batches |-> NoJob]
    /\ thread = [b \in Batches |-> NoThread]
    /\ client = NoClient
    /\ faults = 0 /\ ends = 0

-----------------------------------------------------------------------------
(* The batch thread, _run_text_file_batch_job.  Its own log entries are    *)
(* only counted.                                                           *)

Logged(j) == [j EXCEPT !.logs = @ + 1]
At(b, place) == thread[b].at = place
GoTo(b, place) == thread' = [thread EXCEPT ![b].at = place]
Ended(b) == thread' = [thread EXCEPT ![b] = [NoThread EXCEPT !.at = "done"]]

\* POST .../files/batch: the job is created and its thread started.
Submit(b) ==
    /\ At(b, "none")
    /\ \E r \in Requests :
          job' = [job EXCEPT ![b] = [NoJob EXCEPT !.status = "queued", !.request = r]]
    /\ GoTo(b, "start")
    /\ UNCHANGED <<disk, report, client, faults, ends>>

Start(b) ==
    /\ At(b, "start")
    /\ job' = [job EXCEPT ![b] = Logged([@ EXCEPT !.status = "running"])]
    /\ GoTo(b, "discover")
    /\ UNCHANGED <<disk, report, client, faults, ends>>

FailedAsCompleted(j) == Logged([j EXCEPT !.status = "completed_with_errors"])
\* mark_failed and the error entry of the outer handler.
Failed(j) == Logged([j EXCEPT !.status = "failed"])

Discover(b) ==
    /\ At(b, "discover") /\ ~ Req(b).autoTarget
    /\ LET found == Discovered(Req(b)) IN
         /\ found # {}
         /\ job' = [job EXCEPT ![b] = Logged([@ EXCEPT !.total = Cardinality(found)])]
         /\ thread' = [thread EXCEPT ![b] = [@ EXCEPT !.at = "file", !.todo = SetToSeq(found)]]
    /\ UNCHANGED <<disk, report, client, faults, ends>>

\* target_language=auto, no source, or no file of it to translate.
Reject(b) ==
    /\ At(b, "discover")
    /\ LET r == Req(b) IN
         /\ r.autoTarget \/ Discovered(r) = {}
         /\ job' = [job EXCEPT ![b] = IF ~ r.autoTarget /\ SourceExists(r)
                                     THEN Failed(Logged(@)) ELSE Failed(@)]
    /\ Ended(b)
    /\ UNCHANGED <<disk, report, client, faults, ends>>

\* The output directory cannot be created.
OutputDirFails(b) ==
    /\ At(b, "file") /\ job[b].files = <<>>
    /\ faults < MaxFaults /\ faults' = faults + 1
    /\ job' = [job EXCEPT ![b] = Failed(@)]
    /\ Ended(b)
    /\ UNCHANGED <<disk, report, client, ends>>

ReadFile(b) ==
    /\ At(b, "file") /\ thread[b].todo # <<>>
    /\ thread' = [thread EXCEPT ![b] = [@ EXCEPT !.at = "read", !.text = disk[Current(b)]]]
    /\ job' = [job EXCEPT ![b] = Logged(@)]
    /\ UNCHANGED <<disk, report, client, faults, ends>>

\* An empty file stays empty.
Translated(text, b) == IF text = Partial THEN Partial ELSE Append(text, b)

\* write_text_file opens, and so empties, the output, then fills it.
OpenOutput(b) ==
    /\ At(b, "read")
    /\ disk' = [disk EXCEPT ![CurrentOutput(b)] = Partial]
    /\ GoTo(b, "open")
    /\ UNCHANGED <<report, job, client, faults, ends>>

WriteOutput(b) ==
    /\ At(b, "open")
    /\ disk' = [disk EXCEPT ![CurrentOutput(b)] = Translated(thread[b].text, b)]
    /\ GoTo(b, "written")
    /\ UNCHANGED <<report, job, client, faults, ends>>

WithResultUncounted(j, path, ok) ==
    [j EXCEPT !.files = Append(@, [path |-> path, ok |-> ok]), !.processed = @ + 1]
\* add_file_result
WithResult(j, path, ok) ==
    [j EXCEPT !.files = Append(@, [path |-> path, ok |-> ok]),
              !.processed = @ + 1,
              !.failed = IF ok THEN @ ELSE @ + 1]

NextFile(b) == thread' = [thread EXCEPT ![b] = [at |-> "file", todo |-> Tail(@.todo), text |-> Absent]]

FileSucceeds(b) ==
    /\ At(b, "written")
    /\ job' = [job EXCEPT ![b] = Logged(WithResult(@, Current(b), TRUE))]
    /\ NextFile(b)
    /\ UNCHANGED <<disk, report, client, faults, ends>>

\* Reading, translating, writing the output or its sidecar raises.
FileFails(b) ==
    /\ thread[b].at \in {"file", "read", "open", "written"} /\ thread[b].todo # <<>>
    /\ faults < MaxFaults /\ faults' = faults + 1
    /\ LET recorded == Logged(WithResult(job[b], Current(b), FALSE)) IN
         \/ /\ Req(b).continueOnError
            /\ job' = [job EXCEPT ![b] = recorded]
            /\ NextFile(b)
         \/ /\ ~ Req(b).continueOnError
            /\ job' = [job EXCEPT ![b] = Failed(recorded)]
            /\ Ended(b)
    /\ UNCHANGED <<disk, report, client, ends>>

\* mark_completed_with_errors or mark_succeeded.
Complete(b) ==
    /\ At(b, "file") /\ thread[b].todo = <<>>
    /\ job' = [job EXCEPT ![b] =
          [@ EXCEPT !.status = IF job[b].failed > 0 THEN "completed_with_errors"
                                                    ELSE "succeeded",
                    !.manifest = Req(b).writeManifest]]
    /\ GoTo(b, "completed")
    /\ UNCHANGED <<disk, report, client, faults, ends>>

LogCompleted(b) ==
    /\ At(b, "completed")
    /\ job' = [job EXCEPT ![b] = Logged(@)]
    /\ IF Req(b).writeManifest THEN GoTo(b, "report") ELSE Ended(b)
    /\ UNCHANGED <<disk, report, client, faults, ends>>

\* _write_manifest; its text is made of the job before the file is opened.
Snapshot(b) == [batch |-> b, status |-> job[b].status, processed |-> job[b].processed,
                failed |-> job[b].failed]

OpenReport(b) ==
    /\ At(b, "report")
    /\ report' = [report EXCEPT ![Req(b).output] = Partial]
    /\ GoTo(b, "reporting")
    /\ UNCHANGED <<disk, job, client, faults, ends>>

WriteReport(b) ==
    /\ At(b, "reporting")
    /\ report' = [report EXCEPT ![Req(b).output] = Snapshot(b)]
    /\ Ended(b)
    /\ UNCHANGED <<disk, job, client, faults, ends>>

ReportFails(b) ==
    /\ thread[b].at \in {"report", "reporting"}
    /\ faults < MaxFaults /\ faults' = faults + 1
    /\ job' = [job EXCEPT ![b] = Failed(@)]
    /\ Ended(b)
    /\ UNCHANGED <<disk, report, client, ends>>

-----------------------------------------------------------------------------
(* The browser, and the end of the API process.                            *)

\* The browser follows the batch it submitted.
Follow(b) ==
    /\ client.batch = NoBatch /\ Known(b)
    /\ client' = [client EXCEPT !.batch = b]
    /\ UNCHANGED <<disk, report, job, thread, faults, ends>>

\* GET .../logs?offset=n evaluates len(logs), then copies logs[n:].
PollLength ==
    /\ client.batch # NoBatch /\ client.at = "idle" /\ Known(client.batch)
    /\ client.polls < MaxPolls
    /\ client' = [client EXCEPT !.next = job[client.batch].logs, !.at = "length",
                                !.polls = @ + 1]
    /\ UNCHANGED <<disk, report, job, thread, faults, ends>>

PollEntries ==
    /\ client.at = "length"
    /\ client' = [client EXCEPT !.got = @ \cup (client.offset + 1) .. job[client.batch].logs,
                                !.offset = client.next, !.next = 0, !.at = "idle"]
    /\ UNCHANGED <<disk, report, job, thread, faults, ends>>

\* The threads are daemons and the repository is in memory: both are gone,
\* the files stay.  The browser gets 404 and starts anew.
ProcessEnds ==
    /\ ends < MaxEnds /\ ends' = ends + 1
    /\ \E b \in Batches : Known(b)
    /\ job' = [b \in Batches |-> NoJob]
    /\ thread' = [b \in Batches |-> IF At(b, "none") THEN NoThread
                                    ELSE [NoThread EXCEPT !.at = "gone"]]
    /\ client' = NoClient
    /\ UNCHANGED <<disk, report, faults>>

ThreadStep(b) ==
    \/ Start(b) \/ Discover(b) \/ Reject(b) \/ OutputDirFails(b)
    \/ ReadFile(b) \/ OpenOutput(b) \/ WriteOutput(b) \/ FileSucceeds(b) \/ FileFails(b)
    \/ Complete(b) \/ LogCompleted(b) \/ OpenReport(b) \/ WriteReport(b) \/ ReportFails(b)

Next ==
    \/ \E b \in Batches : Submit(b) \/ ThreadStep(b) \/ Follow(b)
    \/ PollLength \/ PollEntries
    \/ ProcessEnds

Spec == Init /\ [][Next]_vars

-----------------------------------------------------------------------------
Contents == {Absent, Partial} \cup Seq(Batches)
Jobs == [status: {"none", "queued", "running"} \cup TerminalBatchStatuses,
         request: Requests \cup {NoRequest},
         files: Seq([path: Paths, ok: BOOLEAN]),
         total: Nat, processed: Nat, failed: Nat, logs: Nat, manifest: BOOLEAN]
Places == {"none", "start", "discover", "file", "read", "open", "written",
           "completed", "report", "reporting", "done", "gone"}

\* Every variable has its type; the status is one that clients know.
TypeOK ==
    /\ disk \in [Paths -> Contents]
    /\ report \in [OutputDirs -> {NoReport, Partial} \cup Snapshots]
    /\ job \in [Batches -> Jobs]
    /\ thread \in [Batches -> [at: Places, todo: Seq(Paths), text: Contents]]
    /\ client \in [batch: Batches \cup {NoBatch}, offset: Nat, next: Nat,
                   got: SUBSET Nat, polls: 0 .. MaxPolls, at: {"idle", "length"}]
    /\ faults \in 0 .. MaxFaults /\ ends \in 0 .. MaxEnds

Terminal(b) == job[b].status \in TerminalBatchStatuses
ResultsOf(b) == ToSet(job[b].files)

\* The final status says what happened to the files: succeeded is for every
\* discovered file translated, completed_with_errors for every one tried, and
\* a batch that was to stop at the first error never completes with errors.
OutcomeMatchesFiles ==
    \A b \in Batches :
      /\ job[b].status = "succeeded" =>
            Len(job[b].files) = job[b].total /\ \A f \in ResultsOf(b) : f.ok
      /\ job[b].status = "completed_with_errors" =>
            /\ Len(job[b].files) = job[b].total /\ \E f \in ResultsOf(b) : ~ f.ok
            /\ Req(b).continueOnError

\* An output that a batch reports as written is on disk, whole; unless another
\* batch with the same output directory is writing it again, failed at that,
\* or ended with the process in the middle of it.
SuccessIsOnDisk ==
    \A b \in Batches : \A f \in ResultsOf(b) :
      LET out == OutputPath(Req(b), f.path) IN
      f.ok => \/ disk[out] \in Seq(Batches) \ {<<>>}
              \/ /\ disk[out] = Partial
                 /\ \/ \E c \in Batches \ {b} : At(c, "open") /\ CurrentOutput(c) = out
                    \/ \E c \in Batches \ {b} : \E g \in ResultsOf(c) :
                          ~ g.ok /\ OutputPath(Req(c), g.path) = out

\* Batches leave alone what earlier batches wrote into their output
\* directory, although it lies below their source directory.  It is about
\* requests with OutputsApart.
NoTextTranslatedTwice ==
    \A p \in Paths : disk[p] \in Seq(Batches) => Len(disk[p]) <= 1

\* A complete report on disk says of its batch what the API says of it.
ReportAgrees ==
    \A d \in OutputDirs : report[d] \notin {NoReport, Partial} =>
      LET b == report[d].batch IN
      Known(b) => /\ report[d].status = job[b].status
                  /\ report[d].processed = job[b].processed
                  /\ report[d].failed = job[b].failed

\* A reader that continues at next_offset has met every entry before it.
NoEntryMissed == 1 .. client.offset \subseteq client.got

\* Whoever asks the API, follows the log, reads the files or reads the report
\* gets the same answer about a batch.
AnswersAgree ==
    TypeOK /\ OutcomeMatchesFiles /\ SuccessIsOnDisk /\ ReportAgrees /\ NoEntryMissed

\* A terminal status may only change to failed, when the report could not be
\* written, and no complete report contradicts the new status.
OnlyTheReportRevokes ==
    [][\A b \in Batches :
         Terminal(b) /\ job'[b].status \notin {job[b].status, "none"} =>
            /\ job'[b].status = "failed" /\ Req(b).writeManifest
            /\ report'[Req(b).output] \in Snapshots => report'[Req(b).output].batch # b]_vars
=============================================================================
