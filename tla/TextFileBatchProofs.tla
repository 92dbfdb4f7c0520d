------------------------ MODULE TextFileBatchProofs ------------------------
(***************************************************************************)
(* Proofs about TextFileBatch, for any batches and files, any number of    *)
(* failures, process ends and log requests, and any requests whose outputs *)
(* stay apart (OutputsApart): whoever asks the API, the log, the files or  *)
(* the report gets the same answer, no text is translated twice, and a     *)
(* terminal status changes only when the report could not be written.      *)
(***************************************************************************)
EXTENDS TextFileBatch, SequenceTheorems, FiniteSetTheorems, TLAPS

InOutputDir(p) == \E r \in Requests : IsPrefix(r.output, p)

(* A file that a batch of request r may read. *)
Readable(r, p) == p \in Originals /\ ~ InOutputDir(p) /\ IsPrefix(r.source, p)

(* Nothing outside of the output directories is ever written, and whoever   *)
(* writes there writes the translation of a text somebody provided.         *)
OneTranslation == {<<b>> : b \in Batches}
DiskInv ==
  \A p \in Paths :
    /\ disk[p] \in {Absent, Partial, <<>>} \cup OneTranslation
    /\ ~ InOutputDir(p) => disk[p] = (IF p \in Originals THEN <<>> ELSE Absent)

(* A job j and its thread t agree: before the first file, ...               *)
Begun(j, t) ==
  /\ t.at \in {"none", "gone"} => j = NoJob
  /\ t.at \notin {"none", "gone"} => j.request \in Requests
  /\ t.at = "start" => j.status = "queued"
  /\ t.at = "discover" => j.status = "running"
  /\ t.at \in {"start", "discover"} => j.files = <<>> /\ j.failed = 0

(* ... while files are translated, each to an output of its own, ...        *)
Working == {"file", "read", "open", "written"}
Apart(j, t) ==
  /\ \A m, n \in DOMAIN t.todo :
       m # n => OutputPath(j.request, t.todo[m]) # OutputPath(j.request, t.todo[n])
  /\ \A f \in ToSet(j.files), n \in DOMAIN t.todo :
       OutputPath(j.request, f.path) # OutputPath(j.request, t.todo[n])
Underway(j, t) ==
  t.at \in Working =>
    /\ j.status = "running" /\ j.total = Len(j.files) + Len(t.todo)
    /\ j.failed > 0 <=> \E f \in ToSet(j.files) : ~ f.ok
    /\ (\E f \in ToSet(j.files) : ~ f.ok) => j.request.continueOnError
    /\ \A n \in DOMAIN t.todo : Readable(j.request, t.todo[n])
    /\ Apart(j, t)
    /\ t.at # "file" => t.todo # <<>>
    /\ t.at \in {"read", "open"} => t.text = <<>>

(* ... and after the last one. *)
Outcome(j) ==
  /\ j.status = "succeeded" => Len(j.files) = j.total /\ \A f \in ToSet(j.files) : f.ok
  /\ j.status = "completed_with_errors" =>
       /\ Len(j.files) = j.total /\ \E f \in ToSet(j.files) : ~ f.ok
       /\ j.request.continueOnError
Finished(j, t) ==
  /\ t.at \in {"completed", "report", "reporting"} =>
       j.status \in {"succeeded", "completed_with_errors"}
  /\ t.at \in {"report", "reporting"} => j.request.writeManifest
  /\ t.at = "done" => j.status \in TerminalBatchStatuses
  /\ Outcome(j)
  /\ \A f \in ToSet(j.files) : Readable(j.request, f.path)

Coherent(j, t) == Begun(j, t) /\ Underway(j, t) /\ Finished(j, t)

(* The outputs a batch has written, whether or not it has said so, and those *)
(* it has begun to write or has failed at: an output that one has written is *)
(* whole, or another one has begun it again.                                 *)
CurrentIs(j, t, out) == OutputPath(j.request, Head(t.todo)) = out
ResultIs(j, out, ok) == \E f \in ToSet(j.files) : f.ok = ok /\ OutputPath(j.request, f.path) = out
Wrote(j, t, out) == ResultIs(j, out, TRUE) \/ (t.at = "written" /\ CurrentIs(j, t, out))
Redoes(j, t, out) == ResultIs(j, out, FALSE) \/ (t.at = "open" /\ CurrentIs(j, t, out))
WrittenInv ==
  \A b \in Batches, out \in Paths : Wrote(job[b], thread[b], out) =>
    \/ disk[out] \in OneTranslation
    \/ disk[out] = Partial /\ \E c \in Batches \ {b} : Redoes(job[c], thread[c], out)

(* A report on disk is of a batch whose thread has ended. *)
Told(snapshot) ==
  /\ thread[snapshot.batch].at \in {"done", "gone"}
  /\ At(snapshot.batch, "done") => snapshot = Snapshot(snapshot.batch)
ReportInv == \A d \in OutputDirs : report[d] \in Snapshots => Told(report[d])

(* The browser asks for the log from where it has read to. *)
ClientInv ==
  /\ client.batch = NoBatch => client.offset = 0 /\ client.next = 0 /\ client.at = "idle"
  /\ client.batch # NoBatch => /\ Known(client.batch)
                               /\ client.offset <= job[client.batch].logs
                               /\ client.next <= job[client.batch].logs
  /\ NoEntryMissed

BInv == /\ TypeOK /\ DiskInv /\ WrittenInv /\ ReportInv /\ ClientInv
        /\ \A b \in Batches : Coherent(job[b], thread[b])
-----------------------------------------------------------------------------
(* Paths. *)

(* What is appended to the output directory is a name or several. *)
LEMMA RelativeType ==
  ASSUME BatchAssumption, NEW r \in Requests, NEW p \in Paths, IsPrefix(r.source, p)
  PROVE  /\ r.source \in Seq(STRING) /\ r.output \in Seq(STRING) /\ p \in Seq(STRING)
         /\ RelativePath(r, p) \in Seq(STRING)
<1>1. p \in Seq(STRING) /\ p # <<>> /\ r.source \in Seq(STRING) /\ r.output \in Seq(STRING)
  BY DEF BatchAssumption, RequestType
<1>2. CASE p = r.source
  <2>1. Len(p) \in 1..Len(p)
    BY <1>1
  <2>2. p[Len(p)] \in STRING
    BY <1>1, <2>1
  <2> QED
    BY <1>1, <1>2, <2>2 DEF RelativePath, Last
<1>3. CASE p # r.source
  <2>1. SubSeq(p, Len(r.source) + 1, Len(p)) \in Seq(STRING)
    BY <1>1
  <2> QED
    BY <1>1, <1>3, <2>1 DEF RelativePath
<1> QED
  BY <1>1, <1>2, <1>3

(* The output of a file that may be read is a file in an output directory.  *)
LEMMA OutputType ==
  ASSUME BatchAssumption, NEW r \in Requests, NEW p, Readable(r, p)
  PROVE  /\ OutputPath(r, p) \in Paths
         /\ IsPrefix(r.output, OutputPath(r, p)) /\ InOutputDir(OutputPath(r, p))
<1>1. p \in Paths /\ p \in Originals /\ IsPrefix(r.source, p)
  BY DEF Readable, BatchAssumption
<1>2. r.output \in Seq(STRING) /\ RelativePath(r, p) \in Seq(STRING)
  BY <1>1, RelativeType
<1>3. IsPrefix(r.output, r.output \o RelativePath(r, p))
  <2> DEFINE s == r.output
             t == RelativePath(r, p)
  <2>1. s \o t \in Seq(STRING) /\ Len(s) <= Len(s \o t)
    BY <1>2
  <2>2. SubSeq(s \o t, 1, Len(s)) = s
    BY <1>2, SubSeqOfConcat1, SubSeqFull
  <2>3. SubSeq(s, 1, Len(s)) = s
    BY <1>2, SubSeqFull
  <2> QED
    BY <2>1, <2>2, <2>3 DEF IsPrefix
<1>4. OutputPath(r, p) \in Paths
  BY <1>1 DEF BatchAssumption
<1> QED
  BY <1>3, <1>4 DEF OutputPath, InOutputDir

(* Two files below a source directory have two outputs. *)
LEMMA OutputsDiffer ==
  ASSUME BatchAssumption, NEW r \in Requests, NEW p \in Paths, NEW q \in Paths,
         IsStrictPrefix(r.source, p), IsStrictPrefix(r.source, q),
         OutputPath(r, p) = OutputPath(r, q)
  PROVE  p = q
<1> DEFINE s == r.source
           n == Len(s)
<1>1. /\ s \in Seq(STRING) /\ r.output \in Seq(STRING) /\ n \in Nat
      /\ p \in Seq(STRING) /\ RelativePath(r, p) \in Seq(STRING)
      /\ q \in Seq(STRING) /\ RelativePath(r, q) \in Seq(STRING)
  BY RelativeType DEF IsStrictPrefix
<1>2. RelativePath(r, p) = RelativePath(r, q)
  BY <1>1, ConcatSimplifications DEF OutputPath
<1>3. SubSeq(p, n + 1, Len(p)) = SubSeq(q, n + 1, Len(q))
  BY <1>2 DEF RelativePath, IsStrictPrefix
<1>4. Len(p) >= n /\ Len(q) >= n /\ Len(p) \in Nat /\ Len(q) \in Nat
  BY <1>1 DEF IsStrictPrefix, IsPrefix
<1>5. SubSeq(p, 1, n) = SubSeq(q, 1, n)
  BY DEF IsStrictPrefix, IsPrefix
<1>6. p = SubSeq(p, 1, n) \o SubSeq(p, n + 1, Len(p))
  <2>1. 1 \in 1..(Len(p) + 1) /\ n \in (1 - 1)..Len(p) /\ Len(p) \in n..Len(p)
    BY <1>1, <1>4
  <2>2. SubSeq(p, 1, n) \o SubSeq(p, n + 1, Len(p)) = SubSeq(p, 1, Len(p))
    BY <1>1, <2>1, ConcatAdjacentSubSeq
  <2> QED
    BY <1>1, <2>2, SubSeqFull
<1>7. q = SubSeq(q, 1, n) \o SubSeq(q, n + 1, Len(q))
  <2>1. 1 \in 1..(Len(q) + 1) /\ n \in (1 - 1)..Len(q) /\ Len(q) \in n..Len(q)
    BY <1>1, <1>4
  <2>2. SubSeq(q, 1, n) \o SubSeq(q, n + 1, Len(q)) = SubSeq(q, 1, Len(q))
    BY <1>1, <2>1, ConcatAdjacentSubSeq
  <2> QED
    BY <1>1, <2>2, SubSeqFull
<1> QED
  BY <1>3, <1>5, <1>6, <1>7

(* What is discovered may be read, and every file of it has its own output. *)
LEMMA DiscoveredFiles ==
  ASSUME BatchAssumption, OutputsApart, DiskInv, NEW r \in Requests
  PROVE  /\ Discovered(r) \subseteq Paths /\ IsFiniteSet(Discovered(r))
         /\ \A p \in Discovered(r) : Readable(r, p)
         /\ \A p, q \in Discovered(r) : p # q => OutputPath(r, p) # OutputPath(r, q)
<1>1. Discovered(r) \subseteq Paths
  BY DEF Discovered
<1>2. IsFiniteSet(Discovered(r))
  BY <1>1, FS_Subset DEF BatchAssumption
<1>3. ASSUME NEW p \in Discovered(r) PROVE Readable(r, p)
  <2>1. p \in Paths /\ Exists(p)
    BY <1>3 DEF Discovered
  <2>2. IsPrefix(r.source, p)
    <3>1. CASE p = r.source
      <4>1. p \in Seq(STRING)
        BY <2>1 DEF BatchAssumption
      <4> QED
        BY <3>1, <4>1 DEF IsPrefix
    <3>2. CASE p # r.source
      BY <3>2 DEF Discovered, IsStrictPrefix
    <3> QED
      BY <3>1, <3>2
  <2>3. ~ InOutputDir(p)
    <3>1. SUFFICES ASSUME NEW s \in Requests, IsPrefix(s.output, p) PROVE FALSE
      BY DEF InOutputDir
    <3>2. p # r.source /\ IsPrefix(r.output, p)
      BY <2>1, <2>2, <3>1 DEF OutputsApart
    <3> QED
      BY <3>2 DEF Discovered
  <2>4. p \in Originals
    BY <2>1, <2>3 DEF DiskInv, Exists
  <2> QED
    BY <2>2, <2>3, <2>4 DEF Readable
<1>4. ASSUME NEW p \in Discovered(r), NEW q \in Discovered(r), p # q
      PROVE  OutputPath(r, p) # OutputPath(r, q)
  <2>1. IsStrictPrefix(r.source, p) /\ IsStrictPrefix(r.source, q)
    BY <1>4 DEF Discovered
  <2> QED
    BY <1>1, <1>4, <2>1, OutputsDiffer
<1> QED
  BY <1>1, <1>2, <1>3, <1>4

(* A finite set in some order: every element once. *)
LEMMA Enumerated ==
  ASSUME NEW S, IsFiniteSet(S)
  PROVE  /\ SetToSeq(S) \in Seq(S) /\ Len(SetToSeq(S)) = Cardinality(S)
         /\ Cardinality(S) \in Nat
         /\ \A m, n \in DOMAIN SetToSeq(S) : m # n => SetToSeq(S)[m] # SetToSeq(S)[n]
<1>1. Cardinality(S) \in Nat /\ ExistsBijection(1..Cardinality(S), S)
  BY FS_CardinalityType
<1>2. \E f \in [1..Cardinality(S) -> S] : IsInjective(f)
  BY <1>1 DEF ExistsBijection, Bijection, Injection, IsInjective
<1>3. SetToSeq(S) \in [1..Cardinality(S) -> S] /\ IsInjective(SetToSeq(S))
  BY <1>2 DEF SetToSeq
<1> QED
  BY <1>1, <1>3 DEF IsInjective
-----------------------------------------------------------------------------
(* Jobs and threads. *)

Threads == [at: Places, todo: Seq(Paths), text: Contents]

(* A log entry changes nothing else of the job. *)
LEMMA LoggedJob ==
  ASSUME NEW j \in Jobs
  PROVE  /\ Logged(j) \in Jobs /\ Logged(j).logs = j.logs + 1
         /\ Logged(j).status = j.status /\ Logged(j).request = j.request
         /\ Logged(j).files = j.files /\ Logged(j).total = j.total
         /\ Logged(j).processed = j.processed /\ Logged(j).failed = j.failed
BY DEF Logged, Jobs

(* mark_failed changes the status alone. *)
LEMMA FailedJob ==
  ASSUME NEW j \in Jobs
  PROVE  /\ Failed(j) \in Jobs /\ Failed(j).logs = j.logs + 1
         /\ Failed(j).status = "failed" /\ Failed(j).request = j.request
         /\ Failed(j).files = j.files /\ Failed(j).total = j.total
         /\ Failed(j).processed = j.processed /\ Failed(j).failed = j.failed
<1> DEFINE k == [j EXCEPT !.status = "failed"]
<1>1. /\ k \in Jobs /\ k.logs = j.logs /\ k.status = "failed" /\ k.request = j.request
      /\ k.files = j.files /\ k.total = j.total
      /\ k.processed = j.processed /\ k.failed = j.failed
  BY DEF Jobs, TerminalBatchStatuses
<1>2. Failed(j) = Logged(k)
  BY DEF Failed
<1> QED
  BY <1>1, <1>2, LoggedJob

Results == [path: Paths, ok: BOOLEAN]

(* add_file_result counts the result it appends. *)
LEMMA ResultJob ==
  ASSUME NEW j \in Jobs, NEW f \in Results
  PROVE  /\ WithResult(j, f.path, f.ok) \in Jobs /\ WithResult(j, f.path, f.ok).logs = j.logs
         /\ WithResult(j, f.path, f.ok).status = j.status
         /\ WithResult(j, f.path, f.ok).request = j.request
         /\ WithResult(j, f.path, f.ok).total = j.total
         /\ f.ok => WithResult(j, f.path, f.ok).failed = j.failed
         /\ ~ f.ok => WithResult(j, f.path, f.ok).failed = j.failed + 1
         /\ ToSet(WithResult(j, f.path, f.ok).files) = ToSet(j.files) \cup {f}
         /\ Len(WithResult(j, f.path, f.ok).files) = Len(j.files) + 1
<1> DEFINE k == WithResult(j, f.path, f.ok)
<1>1. j.files \in Seq(Results) /\ f.ok \in BOOLEAN /\ f = [path |-> f.path, ok |-> f.ok]
  BY DEF Jobs, Results
<1>2. Append(j.files, f) \in Seq(Results)
  BY <1>1
<1>3. j.processed + 1 \in Nat /\ (IF f.ok THEN j.failed ELSE j.failed + 1) \in Nat
  BY DEF Jobs
<1>4. k = [j EXCEPT !.files = Append(j.files, f), !.processed = j.processed + 1,
                    !.failed = IF f.ok THEN j.failed ELSE j.failed + 1]
  BY <1>1 DEF WithResult, Jobs
<1>5. /\ k \in Jobs /\ k.logs = j.logs /\ k.status = j.status /\ k.request = j.request
      /\ k.files = Append(j.files, f) /\ k.total = j.total
      /\ k.failed = IF f.ok THEN j.failed ELSE j.failed + 1
  BY <1>2, <1>3, <1>4 DEF Jobs, Results
<1>6. Len(Append(j.files, f)) = Len(j.files) + 1
  BY <1>1
<1>7. ToSet(Append(j.files, f)) = ToSet(j.files) \cup {f}
  <2>1. DOMAIN Append(j.files, f) = 1..(Len(j.files) + 1) /\ DOMAIN j.files = 1..Len(j.files)
    BY <1>1, <1>2, <1>6
  <2>2. \A i \in 1..Len(j.files) : Append(j.files, f)[i] = j.files[i]
    BY <1>1
  <2>3. Append(j.files, f)[Len(j.files) + 1] = f
    BY <1>1
  <2>4. Len(j.files) \in Nat
    BY <1>1
  <2>5. \A i \in 1..(Len(j.files) + 1) : i \in 1..Len(j.files) \/ i = Len(j.files) + 1
    BY <2>4
  <2>6. Len(j.files) + 1 \in 1..(Len(j.files) + 1) /\ 1..Len(j.files) \subseteq 1..(Len(j.files) + 1)
    BY <2>4
  <2> QED
    BY <2>1, <2>2, <2>3, <2>5, <2>6 DEF ToSet
<1> QED
  BY <1>5, <1>6, <1>7

(* What coherence says of a job, it says of any job with the same state.    *)
LEMMA SameState ==
  ASSUME NEW j, NEW k, NEW t, Coherent(j, t), t.at \notin {"none", "gone"},
         k.status = j.status, k.request = j.request, k.files = j.files,
         k.total = j.total, k.failed = j.failed
  PROVE  Coherent(k, t)
<1>1. Begun(k, t)
  BY DEF Coherent, Begun
<1>2. Apart(j, t) => Apart(k, t)
  BY DEF Apart
<1>3. Underway(k, t)
  BY <1>2 DEF Coherent, Underway
<1>4. Outcome(k)
  BY DEF Coherent, Finished, Outcome
<1>5. Finished(k, t)
  BY <1>4 DEF Coherent, Finished
<1> QED
  BY <1>1, <1>3, <1>5 DEF Coherent

(* A thread changes its own job and place. *)
Changes(b) ==
  /\ job' = [job EXCEPT ![b] = job'[b]] /\ thread' = [thread EXCEPT ![b] = thread'[b]]
  /\ job'[b] \in Jobs /\ thread'[b] \in Threads

(* A job and a thread are of their types. *)
LEMMA BatchType ==
  ASSUME TypeOK, NEW b \in Batches
  PROVE  job[b] \in Jobs /\ thread[b] \in Threads
BY DEF TypeOK, Threads

(* Init: there is no job and no thread. *)
LEMMA NoBatchYet ==
  NoJob \in Jobs /\ NoThread \in Threads /\ Coherent(NoJob, NoThread)
<1>1. NoJob \in Jobs /\ NoThread \in Threads
  BY DEF NoJob, NoThread, Jobs, Threads, Places, Contents
<1>2. ToSet(NoJob.files) = {}
  BY DEF NoJob, ToSet
<1> QED
  BY <1>1, <1>2 DEF NoJob, NoThread, Coherent, Begun, Underway, Working, Finished, Outcome

(* A submission: the job is queued and its thread started. *)
LEMMA SubmitKeeps ==
  ASSUME TypeOK, NEW b \in Batches, Coherent(job[b], thread[b]), Submit(b)
  PROVE  Changes(b) /\ Coherent(job'[b], thread'[b])
<1>1. PICK r \in Requests :
        job' = [job EXCEPT ![b] = [NoJob EXCEPT !.status = "queued", !.request = r]]
  BY DEF Submit
<1> DEFINE j == [NoJob EXCEPT !.status = "queued", !.request = r]
           t == [thread[b] EXCEPT !.at = "start"]
<1>2. job[b] \in Jobs /\ thread[b] \in Threads
  BY BatchType
<1>3. job'[b] = j /\ thread'[b] = t
  BY <1>1 DEF Submit, GoTo, TypeOK
<1>4. j \in Jobs /\ j.status = "queued" /\ j.request = r /\ j.files = <<>> /\ j.failed = 0
  <2>1. NoJob \in Jobs /\ NoJob.files = <<>> /\ NoJob.failed = 0
    BY NoBatchYet DEF NoJob
  <2> QED
    BY <2>1 DEF Jobs
<1>5. t \in Threads /\ t.at = "start"
  BY <1>2 DEF Threads, Places
<1>6. Changes(b)
  BY <1>1, <1>3, <1>4, <1>5 DEF Changes, Submit, GoTo
<1>7. ToSet(j.files) = {}
  BY <1>4 DEF ToSet
<1>8. Coherent(j, t)
  BY <1>4, <1>5, <1>7 DEF Coherent, Begun, Underway, Working, Finished, Outcome
<1> QED
  BY <1>3, <1>6, <1>8

(* The thread marks its job as running. *)
LEMMA StartKeeps ==
  ASSUME TypeOK, NEW b \in Batches, Coherent(job[b], thread[b]), Start(b)
  PROVE  Changes(b) /\ Coherent(job'[b], thread'[b])
<1> DEFINE k == [job[b] EXCEPT !.status = "running"]
           t == [thread[b] EXCEPT !.at = "discover"]
<1>1. job[b] \in Jobs /\ thread[b] \in Threads
  BY BatchType
<1>2. job'[b] = Logged(k) /\ thread'[b] = t
  BY DEF Start, GoTo, TypeOK
<1>3. /\ k \in Jobs /\ k.status = "running" /\ k.request = job[b].request
      /\ k.files = job[b].files /\ k.total = job[b].total /\ k.failed = job[b].failed
  BY <1>1 DEF Jobs
<1>4. t \in Threads /\ t.at = "discover"
  BY <1>1 DEF Threads, Places
<1>5. Changes(b)
  BY <1>2, <1>3, <1>4, LoggedJob DEF Changes, Start, GoTo
<1>6. k.request \in Requests /\ k.files = <<>> /\ ToSet(k.files) = {} /\ k.failed = 0
  BY <1>3 DEF Start, At, Coherent, Begun, ToSet
<1>7. Coherent(k, t)
  BY <1>3, <1>4, <1>6 DEF Coherent, Begun, Underway, Working, Finished, Outcome
<1> HIDE DEF k, t
<1> QED
  <2>1. Coherent(Logged(k), t)
    BY <1>3, <1>4, <1>7, LoggedJob, SameState
  <2> QED
    BY <1>2, <1>5, <2>1

(* What is discovered is to do, every file with an output of its own.       *)
LEMMA DiscoverKeeps ==
  ASSUME BatchAssumption, OutputsApart, TypeOK, DiskInv, NEW b \in Batches,
         Coherent(job[b], thread[b]), Discover(b)
  PROVE  Changes(b) /\ Coherent(job'[b], thread'[b])
<1> DEFINE r == job[b].request
           found == Discovered(r)
           k == [job[b] EXCEPT !.total = Cardinality(found)]
           t == [thread[b] EXCEPT !.at = "file", !.todo = SetToSeq(found)]
<1>1. job[b] \in Jobs /\ thread[b] \in Threads
  BY BatchType
<1>2. job'[b] = Logged(k) /\ thread'[b] = t
  BY DEF Discover, TypeOK, Req
<1>3. r \in Requests /\ job[b].files = <<>> /\ job[b].status = "running" /\ job[b].failed = 0
  <2>1. thread[b].at = "discover" /\ Begun(job[b], thread[b])
    BY DEF Discover, At, Coherent
  <2> QED
    BY <2>1 DEF Begun
<1>4. /\ found \subseteq Paths /\ IsFiniteSet(found) /\ \A p \in found : Readable(r, p)
      /\ \A p, q \in found : p # q => OutputPath(r, p) # OutputPath(r, q)
  BY <1>3, DiscoveredFiles
<1> DEFINE todo == SetToSeq(found)
<1>5. /\ todo \in Seq(found) /\ Len(todo) = Cardinality(found) /\ Cardinality(found) \in Nat
      /\ \A m, n \in DOMAIN todo : m # n => todo[m] # todo[n]
  BY <1>4, Enumerated
<1>6. todo \in Seq(Paths) /\ \A n \in DOMAIN todo : todo[n] \in found
  BY <1>4, <1>5
<1>7. /\ k \in Jobs /\ k.total = Cardinality(found) /\ k.status = job[b].status
      /\ k.request = r /\ k.files = job[b].files /\ k.failed = job[b].failed
  BY <1>1, <1>5 DEF Jobs
<1> HIDE DEF k, todo, found, r
<1>8. t \in Threads /\ t.at = "file" /\ t.todo = todo
  BY <1>1, <1>6 DEF Threads, Places, todo, found, r
<1> HIDE DEF t
<1>9. Changes(b)
  <2>1. Logged(k) \in Jobs
    BY <1>7, LoggedJob
  <2> QED
    BY <1>2, <1>8, <2>1 DEF Changes, Discover, k, t, todo, found, r, Req
<1>10. Coherent(k, t)
  <2>1. ToSet(k.files) = {} /\ Len(k.files) = 0
    BY <1>3, <1>7 DEF ToSet
  <2>2. Begun(k, t)
    BY <1>3, <1>7, <1>8 DEF Begun
  <2>3. Apart(k, t)
    BY <1>4, <1>5, <1>6, <1>7, <1>8, <2>1 DEF Apart
  <2>4. k.total = Len(k.files) + Len(t.todo)
    BY <1>5, <1>7, <1>8, <2>1
  <2>5. Underway(k, t)
    BY <1>3, <1>4, <1>6, <1>7, <1>8, <2>1, <2>3, <2>4 DEF Underway
  <2>6. Finished(k, t)
    BY <1>3, <1>7, <1>8, <2>1 DEF Finished, Outcome
  <2> QED
    BY <2>2, <2>5, <2>6 DEF Coherent
<1>11. Coherent(Logged(k), t)
  BY <1>7, <1>8, <1>10, LoggedJob, SameState
<1> QED
  BY <1>2, <1>9, <1>11

(* A thread that ends with mark_failed leaves a coherent job. *)
LEMMA FailedCoherent ==
  ASSUME NEW j \in Jobs, NEW t, j.request \in Requests, t.at = "done",
         \A f \in ToSet(j.files) : Readable(j.request, f.path)
  PROVE  Coherent(Failed(j), t)
<1> DEFINE k == Failed(j)
<1>1. /\ k \in Jobs /\ k.status = "failed" /\ k.request = j.request /\ k.files = j.files
  BY FailedJob
<1> HIDE DEF k
<1>2. Begun(k, t)
  BY <1>1 DEF Begun
<1>3. Underway(k, t)
  BY DEF Underway, Working
<1>4. Finished(k, t)
  BY <1>1 DEF Finished, Outcome, TerminalBatchStatuses
<1>5. Coherent(k, t)
  BY <1>2, <1>3, <1>4 DEF Coherent
<1> QED
  BY <1>5 DEF k

(* The result of a file takes it from what is to do. *)
LEMMA ResultCoherent ==
  ASSUME NEW j \in Jobs, NEW t \in Threads, NEW u \in Threads, NEW f \in Results,
         Coherent(j, t), t.at \in Working, t.todo # <<>>, f.path = Head(t.todo),
         f.ok \/ j.request.continueOnError,
         u.at = "file", u.todo = Tail(t.todo)
  PROVE  Coherent(WithResult(j, f.path, f.ok), u)
<1> DEFINE k == WithResult(j, f.path, f.ok)
           n == Len(t.todo)
<1>1. /\ t.todo \in Seq(Paths) /\ n \in Nat \ {0} /\ f.path = t.todo[1]
      /\ DOMAIN t.todo = 1..n
  BY DEF Threads
<1>2. /\ u.todo \in Seq(Paths) /\ Len(u.todo) = n - 1 /\ DOMAIN u.todo = 1..(n - 1)
      /\ \A m \in 1..(n - 1) : u.todo[m] = t.todo[m + 1]
  BY <1>1
<1>3. /\ k \in Jobs /\ k.status = j.status /\ k.request = j.request /\ k.total = j.total
      /\ f.ok => k.failed = j.failed
      /\ ~ f.ok => k.failed = j.failed + 1
      /\ ToSet(k.files) = ToSet(j.files) \cup {f} /\ Len(k.files) = Len(j.files) + 1
  BY ResultJob
<1>4. f.ok \in BOOLEAN
  BY DEF Results
<1>5. /\ j.status = "running" /\ j.total = Len(j.files) + n
      /\ j.failed > 0 <=> \E g \in ToSet(j.files) : ~ g.ok
      /\ (\E g \in ToSet(j.files) : ~ g.ok) => j.request.continueOnError
      /\ \A m \in 1..n : Readable(j.request, t.todo[m])
      /\ Apart(j, t)
  BY <1>1 DEF Coherent, Underway
<1>6. Len(j.files) \in Nat /\ j.failed \in Nat
  BY DEF Jobs
<1> HIDE DEF k, n
<1>7. Begun(k, u)
  BY <1>3, <1>5 DEF Coherent, Begun, Working
<1>8. Apart(k, u)
  <2>1. \A m \in 1..(n - 1) : m + 1 \in 1..n
    BY <1>1
  <2>2. 1 \in 1..n
    BY <1>1
  <2>3. \A m \in 1..(n - 1) : OutputPath(j.request, f.path) # OutputPath(j.request, u.todo[m])
    <3>1. TAKE m \in 1..(n - 1)
    <3>2. m + 1 \in 1..n /\ m + 1 # 1
      BY <1>1, <3>1
    <3> QED
      BY <1>1, <1>2, <1>5, <2>2, <3>2 DEF Apart
  <2>4. \A m, l \in 1..(n - 1) : m # l =>
           OutputPath(j.request, u.todo[m]) # OutputPath(j.request, u.todo[l])
    <3>1. SUFFICES ASSUME NEW m \in 1..(n - 1), NEW l \in 1..(n - 1), m # l
                   PROVE  OutputPath(j.request, u.todo[m]) # OutputPath(j.request, u.todo[l])
      OBVIOUS
    <3>2. m + 1 \in 1..n /\ l + 1 \in 1..n /\ m + 1 # l + 1
      BY <1>1, <3>1
    <3>3. OutputPath(j.request, t.todo[m + 1]) # OutputPath(j.request, t.todo[l + 1])
      BY <1>1, <1>5, <3>2 DEF Apart
    <3>4. u.todo[m] = t.todo[m + 1] /\ u.todo[l] = t.todo[l + 1]
      BY <1>2, <3>1
    <3> QED
      BY <3>3, <3>4
  <2>5. \A g \in ToSet(j.files), m \in 1..(n - 1) :
           OutputPath(j.request, g.path) # OutputPath(j.request, u.todo[m])
    <3>1. SUFFICES ASSUME NEW g \in ToSet(j.files), NEW m \in 1..(n - 1)
                   PROVE  OutputPath(j.request, g.path) # OutputPath(j.request, u.todo[m])
      OBVIOUS
    <3>2. m + 1 \in DOMAIN t.todo /\ u.todo[m] = t.todo[m + 1]
      BY <1>1, <1>2, <2>1
    <3> QED
      BY <1>5, <3>2 DEF Apart
  <2> QED
    BY <1>2, <1>3, <1>4, <2>3, <2>4, <2>5 DEF Apart
<1>9. Underway(k, u)
  <2>1. k.total = Len(k.files) + Len(u.todo)
    <3>1. /\ k.total = Len(j.files) + n /\ Len(k.files) = Len(j.files) + 1
          /\ Len(u.todo) = n - 1
      BY <1>2, <1>3, <1>5
    <3>2. n \in Nat /\ Len(j.files) \in Nat
      BY <1>1, <1>6
    <3>3. Len(j.files) + n = (Len(j.files) + 1) + (n - 1)
      BY <3>2
    <3> QED
      BY <3>1, <3>3, Zenon
  <2>2. k.failed > 0 <=> \E g \in ToSet(k.files) : ~ g.ok
    <3>1. CASE f.ok
      <4>1. k.failed = j.failed /\ f.ok
        BY <1>3, <1>4, <3>1
      <4>2. (\E g \in ToSet(k.files) : ~ g.ok) <=> (\E g \in ToSet(j.files) : ~ g.ok)
        BY <1>3, <4>1
      <4> QED
        BY <1>5, <4>1, <4>2
    <3>2. CASE ~ f.ok
      <4>1. k.failed = j.failed + 1 /\ f \in ToSet(k.files) /\ ~ f.ok
        BY <1>3, <1>4, <3>2
      <4> QED
        BY <1>6, <4>1
    <3> QED
      BY <3>1, <3>2
  <2>3. (\E g \in ToSet(k.files) : ~ g.ok) => k.request.continueOnError
    BY <1>3, <1>4, <1>5
  <2>4. \A m \in DOMAIN u.todo : Readable(k.request, u.todo[m])
    <3>1. \A m \in 1..(n - 1) : m + 1 \in 1..n
      BY <1>1
    <3> QED
      BY <1>2, <1>3, <1>5, <3>1
  <2> QED
    BY <1>3, <1>5, <1>8, <2>1, <2>2, <2>3, <2>4 DEF Underway
<1>10. Finished(k, u)
  <2>1. Readable(j.request, f.path)
    BY <1>1, <1>5
  <2>2. \A g \in ToSet(k.files) : Readable(k.request, g.path)
    BY <1>3, <1>4, <2>1 DEF Coherent, Finished
  <2> QED
    BY <1>3, <1>5, <2>2 DEF Finished, Outcome
<1> QED
  BY <1>1, <1>7, <1>9, <1>10 DEF Coherent, k

(* What a thread that works or has results may rely on. *)
LEMMA OwnJob ==
  ASSUME TypeOK, NEW b \in Batches, Coherent(job[b], thread[b]),
         thread[b].at \notin {"none", "gone"}
  PROVE  /\ job[b] \in Jobs /\ thread[b] \in Threads /\ Req(b) \in Requests
         /\ \A f \in ToSet(job[b].files) : Readable(Req(b), f.path)
BY BatchType DEF Coherent, Begun, Finished, Req

(* The file a thread works at may be read. *)
LEMMA CurrentFile ==
  ASSUME BatchAssumption, TypeOK, NEW b \in Batches, Coherent(job[b], thread[b]),
         thread[b].at \in Working, thread[b].todo # <<>>
  PROVE  /\ Readable(Req(b), Current(b)) /\ Current(b) \in Paths
         /\ CurrentOutput(b) \in Paths /\ InOutputDir(CurrentOutput(b))
<1>1. job[b] \in Jobs /\ thread[b] \in Threads /\ Req(b) \in Requests
  BY OwnJob DEF Working
<1>2. 1 \in DOMAIN thread[b].todo /\ Current(b) = thread[b].todo[1]
  BY <1>1 DEF Threads, Current
<1>3. Readable(Req(b), Current(b))
  BY <1>2 DEF Coherent, Underway, Req
<1>4. Current(b) \in Paths
  BY <1>3 DEF Readable, BatchAssumption
<1>5. CurrentOutput(b) \in Paths /\ InOutputDir(CurrentOutput(b))
  BY <1>1, <1>3, OutputType DEF CurrentOutput
<1> QED
  BY <1>3, <1>4, <1>5

(* A thread that ends is done and has nothing to do. *)
LEMMA EndedThread ==
  ASSUME TypeOK, NEW b \in Batches, Ended(b)
  PROVE  thread'[b] \in Threads /\ thread'[b].at = "done"
<1>1. thread'[b] = [NoThread EXCEPT !.at = "done"]
  BY DEF Ended, TypeOK
<1> QED
  BY <1>1, NoBatchYet DEF Threads, Places

(* A thread that goes on keeps its files to do. *)
LEMMA GoneOn ==
  ASSUME TypeOK, NEW b \in Batches, NEW place \in Places, GoTo(b, place)
  PROVE  /\ thread'[b] \in Threads /\ thread'[b].at = place
         /\ thread'[b].todo = thread[b].todo /\ thread'[b].text = thread[b].text
         /\ thread' = [thread EXCEPT ![b] = thread'[b]]
BY BatchType DEF GoTo, TypeOK, Threads

(* A request that cannot be served fails with no results. *)
LEMMA RejectKeeps ==
  ASSUME TypeOK, NEW b \in Batches, Coherent(job[b], thread[b]), Reject(b)
  PROVE  Changes(b) /\ Coherent(job'[b], thread'[b])
<1>1. /\ job[b] \in Jobs /\ job[b].request \in Requests
      /\ \A f \in ToSet(job[b].files) : Readable(job[b].request, f.path)
  BY OwnJob DEF Reject, At, Req
<1>2. thread'[b] \in Threads /\ thread'[b].at = "done"
  BY EndedThread DEF Reject
<1>3. job'[b] \in {Failed(Logged(job[b])), Failed(job[b])}
  BY DEF Reject, TypeOK
<1>4. job' = [job EXCEPT ![b] = job'[b]]
  BY DEF Reject, TypeOK
<1>5. /\ Logged(job[b]) \in Jobs /\ Logged(job[b]).request = job[b].request
      /\ Logged(job[b]).files = job[b].files
  BY <1>1, LoggedJob
<1>6. job'[b] \in Jobs
  BY <1>1, <1>3, <1>5, FailedJob
<1>7. Coherent(job'[b], thread'[b])
  BY <1>1, <1>2, <1>3, <1>5, FailedCoherent
<1> QED
  BY <1>2, <1>4, <1>6, <1>7 DEF Changes, Reject, Ended

(* So does one whose output directory cannot be made. *)
LEMMA OutputDirFailsKeeps ==
  ASSUME TypeOK, NEW b \in Batches, Coherent(job[b], thread[b]), OutputDirFails(b)
  PROVE  Changes(b) /\ Coherent(job'[b], thread'[b])
<1>1. /\ job[b] \in Jobs /\ job[b].request \in Requests
      /\ \A f \in ToSet(job[b].files) : Readable(job[b].request, f.path)
  BY OwnJob DEF OutputDirFails, At, Req
<1>2. thread'[b] \in Threads /\ thread'[b].at = "done"
  BY EndedThread DEF OutputDirFails
<1>3. job'[b] = Failed(job[b])
  BY DEF OutputDirFails, TypeOK
<1>4. job'[b] \in Jobs /\ Coherent(job'[b], thread'[b])
  BY <1>1, <1>2, <1>3, FailedJob, FailedCoherent
<1> QED
  BY <1>2, <1>3, <1>4 DEF Changes, OutputDirFails, Ended

(* A text that was read is one that somebody provided. *)
LEMMA ReadFileKeeps ==
  ASSUME BatchAssumption, TypeOK, DiskInv, NEW b \in Batches,
         Coherent(job[b], thread[b]), ReadFile(b)
  PROVE  Changes(b) /\ Coherent(job'[b], thread'[b])
<1> DEFINE t == [thread[b] EXCEPT !.at = "read", !.text = disk[Current(b)]]
<1>1. job[b] \in Jobs /\ thread[b] \in Threads
  BY BatchType
<1>2. thread[b].at = "file" /\ thread[b].todo # <<>>
  BY DEF ReadFile, At
<1>3. Readable(Req(b), Current(b)) /\ Current(b) \in Paths
  BY <1>2, CurrentFile DEF Working
<1>4. disk[Current(b)] = <<>>
  BY <1>3 DEF DiskInv, Readable
<1>5. job'[b] = Logged(job[b]) /\ thread'[b] = t
  BY DEF ReadFile, TypeOK
<1>6. t \in Threads /\ t.at = "read" /\ t.todo = thread[b].todo /\ t.text = <<>>
  <2>1. disk[Current(b)] \in Contents
    BY <1>4 DEF Contents
  <2> QED
    BY <1>1, <1>4, <2>1 DEF Threads, Places
<1> HIDE DEF t
<1>7. Coherent(job[b], t)
  <2>1. Begun(job[b], t)
    BY <1>2, <1>6 DEF Coherent, Begun
  <2>2. Apart(job[b], thread[b]) => Apart(job[b], t)
    BY <1>6 DEF Apart
  <2>3. Underway(job[b], t)
    BY <1>2, <1>6, <2>2 DEF Coherent, Underway, Working
  <2>4. Finished(job[b], t)
    BY <1>2, <1>6 DEF Coherent, Finished
  <2> QED
    BY <2>1, <2>3, <2>4 DEF Coherent
<1>8. Logged(job[b]) \in Jobs /\ Coherent(Logged(job[b]), t)
  BY <1>1, <1>6, <1>7, LoggedJob, SameState
<1> QED
  BY <1>5, <1>6, <1>8 DEF Changes, ReadFile, t

(* Opening and writing the output changes the place alone. *)
LEMMA OutputKeeps ==
  ASSUME TypeOK, NEW b \in Batches, Coherent(job[b], thread[b]),
         OpenOutput(b) \/ WriteOutput(b)
  PROVE  Changes(b) /\ Coherent(job'[b], thread'[b])
<1>1. PICK place \in {"open", "written"} : GoTo(b, place) /\ (place = "open" => At(b, "read"))
  BY DEF OpenOutput, WriteOutput
<1> DEFINE t == thread'[b]
<1>2. /\ t \in Threads /\ t.at = place /\ t.todo = thread[b].todo /\ t.text = thread[b].text
      /\ thread' = [thread EXCEPT ![b] = t]
  BY <1>1, GoneOn DEF Places
<1>3. thread[b].at \in {"read", "open"} /\ job' = job /\ job[b] \in Jobs
  BY BatchType DEF OpenOutput, WriteOutput, At
<1> HIDE DEF t
<1>4. Coherent(job[b], t)
  <2>1. Begun(job[b], t)
    BY <1>2, <1>3 DEF Coherent, Begun
  <2>2. Apart(job[b], thread[b]) => Apart(job[b], t)
    BY <1>2 DEF Apart
  <2>3. Underway(job[b], t)
    BY <1>1, <1>2, <1>3, <2>2 DEF Coherent, Underway, Working
  <2>4. Finished(job[b], t)
    BY <1>2, <1>3 DEF Coherent, Finished
  <2> QED
    BY <2>1, <2>3, <2>4 DEF Coherent
<1>5. job' = [job EXCEPT ![b] = job'[b]] /\ job'[b] = job[b]
  BY <1>3 DEF TypeOK
<1>6. Changes(b)
  BY <1>2, <1>3, <1>5 DEF Changes, t
<1> QED
  BY <1>4, <1>5, <1>6 DEF t

(* The thread that has a result goes on to the next file. *)
LEMMA NextThread ==
  ASSUME TypeOK, NEW b \in Batches, NextFile(b), thread[b].todo # <<>>
  PROVE  /\ thread'[b] \in Threads /\ thread'[b].at = "file"
         /\ thread'[b].todo = Tail(thread[b].todo)
         /\ thread' = [thread EXCEPT ![b] = thread'[b]]
<1>1. thread[b] \in Threads
  BY BatchType
<1>2. Tail(thread[b].todo) \in Seq(Paths)
  BY <1>1 DEF Threads
<1>3. thread'[b] = [at |-> "file", todo |-> Tail(thread[b].todo), text |-> Absent]
  BY DEF NextFile, TypeOK
<1>4. thread' = [thread EXCEPT ![b] = thread'[b]]
  BY <1>3 DEF NextFile
<1> QED
  BY <1>2, <1>3, <1>4 DEF Threads, Places, Contents

(* A file that was written is a result. *)
LEMMA FileSucceedsKeeps ==
  ASSUME BatchAssumption, TypeOK, NEW b \in Batches,
         Coherent(job[b], thread[b]), FileSucceeds(b)
  PROVE  /\ Changes(b) /\ Coherent(job'[b], thread'[b])
         /\ job'[b].request = Req(b)
         /\ ResultsOf(b)' = ResultsOf(b) \cup {[path |-> Current(b), ok |-> TRUE]}
<1> DEFINE f == [path |-> Current(b), ok |-> TRUE]
           k == WithResult(job[b], f.path, f.ok)
<1>1. job[b] \in Jobs /\ thread[b] \in Threads
  BY BatchType
<1>2. thread[b].at = "written" /\ thread[b].todo # <<>>
  BY DEF FileSucceeds, At, Coherent, Underway, Working
<1>3. Current(b) \in Paths /\ Current(b) = Head(thread[b].todo)
  BY <1>2, CurrentFile DEF Working, Current
<1>4. f \in Results /\ f.path = Current(b) /\ f.ok
  BY <1>3 DEF Results
<1>5. job'[b] = Logged(k)
  BY DEF FileSucceeds, TypeOK
<1>6. /\ thread'[b] \in Threads /\ thread'[b].at = "file"
      /\ thread'[b].todo = Tail(thread[b].todo)
      /\ thread' = [thread EXCEPT ![b] = thread'[b]]
  BY <1>2, NextThread DEF FileSucceeds
<1>7. k \in Jobs /\ k.request = job[b].request /\ ToSet(k.files) = ToSet(job[b].files) \cup {f}
  <2> HIDE DEF f
  <2> QED
    BY <1>1, <1>4, ResultJob
<1>8. Coherent(k, thread'[b])
  <2> HIDE DEF f
  <2> QED
    BY <1>1, <1>2, <1>3, <1>4, <1>6, ResultCoherent DEF Working
<1> HIDE DEF k, f
<1>9. /\ Logged(k) \in Jobs /\ Coherent(Logged(k), thread'[b])
      /\ Logged(k).request = k.request /\ Logged(k).files = k.files
  BY <1>6, <1>7, <1>8, LoggedJob, SameState
<1>10. job' = [job EXCEPT ![b] = job'[b]]
  BY <1>5 DEF FileSucceeds, k, f
<1> QED
  BY <1>5, <1>6, <1>7, <1>9, <1>10 DEF Changes, ResultsOf, Req, f

(* A file that failed is one too, and may end the batch. *)
LEMMA FileFailsKeeps ==
  ASSUME BatchAssumption, TypeOK, NEW b \in Batches,
         Coherent(job[b], thread[b]), FileFails(b)
  PROVE  /\ Changes(b) /\ Coherent(job'[b], thread'[b])
         /\ job'[b].request = Req(b) /\ thread'[b].at \in {"file", "done"}
         /\ ResultsOf(b)' = ResultsOf(b) \cup {[path |-> Current(b), ok |-> FALSE]}
<1> DEFINE f == [path |-> Current(b), ok |-> FALSE]
           k == WithResult(job[b], f.path, f.ok)
           l == Logged(k)
<1>1. job[b] \in Jobs /\ thread[b] \in Threads
  BY BatchType
<1>2. thread[b].at \in Working /\ thread[b].todo # <<>>
  BY DEF FileFails, Working
<1>3. Readable(Req(b), Current(b)) /\ Current(b) \in Paths /\ Current(b) = Head(thread[b].todo)
  BY <1>2, CurrentFile DEF Current
<1>4. f \in Results /\ f.path = Current(b) /\ ~ f.ok
  BY <1>3 DEF Results
<1>5. k \in Jobs /\ k.request = job[b].request /\ ToSet(k.files) = ToSet(job[b].files) \cup {f}
  <2> HIDE DEF f
  <2> QED
    BY <1>1, <1>4, ResultJob
<1>6. l \in Jobs /\ l.request = k.request /\ l.files = k.files
  <2> HIDE DEF k
  <2> QED
    BY <1>5, LoggedJob
<1>7. \/ Req(b).continueOnError /\ job' = [job EXCEPT ![b] = l] /\ NextFile(b)
      \/ job' = [job EXCEPT ![b] = Failed(l)] /\ Ended(b)
  BY DEF FileFails
<1>8. CASE Req(b).continueOnError /\ job' = [job EXCEPT ![b] = l] /\ NextFile(b)
  <2>1. job'[b] = l
    BY <1>8 DEF TypeOK
  <2>2. /\ thread'[b] \in Threads /\ thread'[b].at = "file"
        /\ thread'[b].todo = Tail(thread[b].todo)
        /\ thread' = [thread EXCEPT ![b] = thread'[b]]
    BY <1>2, <1>8, NextThread
  <2>3. Coherent(k, thread'[b])
    <3> HIDE DEF f
    <3> QED
      BY <1>1, <1>2, <1>3, <1>4, <1>8, <2>2, ResultCoherent DEF Req
  <2>4. Coherent(l, thread'[b])
    <3> HIDE DEF k
    <3> QED
      BY <1>5, <2>2, <2>3, LoggedJob, SameState
  <2> HIDE DEF f, k, l
  <2>5. Changes(b)
    BY <1>6, <1>8, <2>1, <2>2 DEF Changes
  <2> QED
    BY <1>5, <1>6, <2>1, <2>2, <2>4, <2>5 DEF ResultsOf, Req, f
<1>9. CASE job' = [job EXCEPT ![b] = Failed(l)] /\ Ended(b)
  <2>1. job'[b] = Failed(l)
    BY <1>9 DEF TypeOK
  <2>2. thread'[b] \in Threads /\ thread'[b].at = "done"
    BY <1>9, EndedThread
  <2>3. job[b].request \in Requests /\ \A g \in ToSet(job[b].files) : Readable(job[b].request, g.path)
    BY <1>2, OwnJob DEF Working, Req
  <2>4. \A g \in ToSet(l.files) : Readable(l.request, g.path)
    <3> HIDE DEF f, k, l
    <3> QED
      BY <1>3, <1>4, <1>5, <1>6, <2>3 DEF Req
  <2> HIDE DEF f, k, l
  <2>5. /\ Failed(l) \in Jobs /\ Failed(l).request = l.request /\ Failed(l).files = l.files
        /\ Coherent(Failed(l), thread'[b])
    BY <1>5, <1>6, <2>2, <2>3, <2>4, FailedJob, FailedCoherent
  <2>6. Changes(b)
    BY <1>9, <2>1, <2>2, <2>5 DEF Changes, Ended
  <2> QED
    BY <1>5, <1>6, <2>1, <2>2, <2>5, <2>6 DEF ResultsOf, Req, f
<1> QED
  BY <1>7, <1>8, <1>9

(* A batch completes when it has tried every file, and says what happened.  *)
LEMMA CompleteKeeps ==
  ASSUME BatchAssumption, TypeOK, NEW b \in Batches,
         Coherent(job[b], thread[b]), Complete(b)
  PROVE  Changes(b) /\ Coherent(job'[b], thread'[b])
<1> DEFINE j == job[b]
           status == IF j.failed > 0 THEN "completed_with_errors" ELSE "succeeded"
           k == [j EXCEPT !.status = status, !.manifest = j.request.writeManifest]
           t == thread'[b]
<1>1. j \in Jobs /\ j.request \in Requests /\ thread[b].at = "file" /\ thread[b].todo = <<>>
  BY OwnJob DEF Complete, At, Req
<1>2. job'[b] = k
  BY DEF Complete, TypeOK, Req
<1>3. j.request.writeManifest \in BOOLEAN
  BY <1>1 DEF BatchAssumption, RequestType
<1>4. status \in {"completed_with_errors", "succeeded"}
  OBVIOUS
<1>5. /\ j.total = Len(j.files) + Len(thread[b].todo)
      /\ j.failed > 0 <=> \E f \in ToSet(j.files) : ~ f.ok
      /\ (\E f \in ToSet(j.files) : ~ f.ok) => j.request.continueOnError
  BY <1>1 DEF Coherent, Underway, Working
<1>6. Len(j.files) \in Nat /\ j.total = Len(j.files)
  BY <1>1, <1>5 DEF Jobs
<1>7. /\ status = "completed_with_errors" => \E f \in ToSet(j.files) : ~ f.ok
      /\ status = "succeeded" => \A f \in ToSet(j.files) : f.ok
  BY <1>5
<1>8. t \in Threads /\ t.at = "completed" /\ thread' = [thread EXCEPT ![b] = t]
  BY GoneOn DEF Complete, Places
<1> HIDE DEF status, t
<1>9. /\ k \in Jobs /\ k.status = status /\ k.request = j.request
      /\ k.files = j.files /\ k.total = j.total
  BY <1>1, <1>3, <1>4 DEF Jobs, TerminalBatchStatuses
<1>10. Changes(b)
  BY <1>2, <1>8, <1>9 DEF Changes, Complete, status, t, Req
<1> HIDE DEF k
<1>11. Begun(k, t)
  BY <1>1, <1>8, <1>9 DEF Begun
<1>12. Underway(k, t)
  BY <1>8 DEF Underway, Working
<1>13. Outcome(k)
  BY <1>4, <1>5, <1>6, <1>7, <1>9 DEF Outcome
<1>14. Finished(k, t)
  BY <1>1, <1>4, <1>8, <1>9, <1>13 DEF Coherent, Finished
<1> QED
  BY <1>2, <1>10, <1>11, <1>12, <1>14 DEF Coherent, t

(* After the last file nothing but the place matters. *)
LEMMA FinishedCoherent ==
  ASSUME NEW j, NEW k, NEW t, NEW u, Coherent(j, t),
         t.at \in {"completed", "report", "reporting"},
         u.at \in {"report", "reporting", "done"},
         u.at # "done" => j.request.writeManifest,
         k.status = j.status, k.request = j.request, k.files = j.files, k.total = j.total
  PROVE  Coherent(k, u)
<1>1. Begun(k, u)
  BY DEF Coherent, Begun
<1>2. Underway(k, u)
  BY DEF Underway, Working
<1>3. Finished(k, u)
  BY DEF Coherent, Finished, Outcome, TerminalBatchStatuses
<1> QED
  BY <1>1, <1>2, <1>3 DEF Coherent

(* The batch goes on to its report, if it is to write one. *)
LEMMA LogCompletedKeeps ==
  ASSUME TypeOK, NEW b \in Batches, Coherent(job[b], thread[b]), LogCompleted(b)
  PROVE  Changes(b) /\ Coherent(job'[b], thread'[b])
<1>1. job[b] \in Jobs /\ thread[b].at = "completed"
  BY BatchType DEF LogCompleted, At
<1>2. job'[b] = Logged(job[b]) /\ job' = [job EXCEPT ![b] = Logged(job[b])]
  BY DEF LogCompleted, TypeOK
<1>3. /\ thread'[b] \in Threads /\ thread' = [thread EXCEPT ![b] = thread'[b]]
      /\ thread'[b].at \in {"report", "done"}
      /\ thread'[b].at = "report" => job[b].request.writeManifest
  <2>1. CASE Req(b).writeManifest /\ GoTo(b, "report")
    BY <2>1, GoneOn DEF Places, Req
  <2>2. CASE Ended(b)
    BY <2>2, EndedThread DEF Ended
  <2> QED
    BY <2>1, <2>2 DEF LogCompleted
<1>4. /\ Logged(job[b]) \in Jobs /\ Logged(job[b]).status = job[b].status
      /\ Logged(job[b]).request = job[b].request /\ Logged(job[b]).files = job[b].files
      /\ Logged(job[b]).total = job[b].total
  BY <1>1, LoggedJob
<1>5. Changes(b)
  BY <1>2, <1>3, <1>4 DEF Changes
<1> QED
  BY <1>1, <1>2, <1>3, <1>4, <1>5, FinishedCoherent

(* Writing the report changes no job. *)
LEMMA ReportKeeps ==
  ASSUME TypeOK, NEW b \in Batches, Coherent(job[b], thread[b]),
         OpenReport(b) \/ WriteReport(b)
  PROVE  Changes(b) /\ Coherent(job'[b], thread'[b]) /\ job'[b] = job[b]
<1>1. /\ job[b] \in Jobs /\ thread[b].at \in {"report", "reporting"}
      /\ job' = job /\ job'[b] = job[b]
  BY BatchType DEF OpenReport, WriteReport, At
<1>2. job[b].request.writeManifest
  BY <1>1 DEF Coherent, Finished
<1>3. /\ thread'[b] \in Threads /\ thread' = [thread EXCEPT ![b] = thread'[b]]
      /\ thread'[b].at \in {"reporting", "done"}
  <2>1. CASE GoTo(b, "reporting")
    BY <2>1, GoneOn DEF Places
  <2>2. CASE Ended(b)
    BY <2>2, EndedThread DEF Ended
  <2> QED
    BY <2>1, <2>2 DEF OpenReport, WriteReport
<1>4. job' = [job EXCEPT ![b] = job'[b]]
  BY <1>1 DEF TypeOK
<1>5. Changes(b)
  BY <1>1, <1>3, <1>4 DEF Changes
<1> QED
  BY <1>1, <1>2, <1>3, <1>5, FinishedCoherent

(* A report that cannot be written fails the job. *)
LEMMA ReportFailsKeeps ==
  ASSUME TypeOK, NEW b \in Batches, Coherent(job[b], thread[b]), ReportFails(b)
  PROVE  Changes(b) /\ Coherent(job'[b], thread'[b])
<1>1. /\ job[b] \in Jobs /\ job[b].request \in Requests
      /\ \A f \in ToSet(job[b].files) : Readable(job[b].request, f.path)
  BY OwnJob DEF ReportFails, Req
<1>2. thread'[b] \in Threads /\ thread'[b].at = "done"
  BY EndedThread DEF ReportFails
<1>3. job'[b] = Failed(job[b])
  BY DEF ReportFails, TypeOK
<1>4. job'[b] \in Jobs /\ Coherent(job'[b], thread'[b])
  BY <1>1, <1>2, <1>3, FailedJob, FailedCoherent
<1> QED
  BY <1>2, <1>3, <1>4 DEF Changes, ReportFails, Ended

(* Every step of a batch changes its job and its thread alone, coherently.  *)
LEMMA BatchStep ==
  ASSUME BatchAssumption, OutputsApart, TypeOK, DiskInv, NEW b \in Batches,
         Coherent(job[b], thread[b]), Submit(b) \/ ThreadStep(b)
  PROVE  Changes(b) /\ Coherent(job'[b], thread'[b])
BY SubmitKeeps, StartKeeps, DiscoverKeeps, RejectKeeps, OutputDirFailsKeeps, ReadFileKeeps,
   OutputKeeps, FileSucceedsKeeps, FileFailsKeeps, CompleteKeeps, LogCompletedKeeps,
   ReportKeeps, ReportFailsKeeps DEF ThreadStep

(* Every job and thread is of its type and coherent after every step. *)
LEMMA JobsStep ==
  ASSUME BatchAssumption, OutputsApart, BInv, [Next]_vars
  PROVE  /\ job' \in [Batches -> Jobs] /\ thread' \in [Batches -> Threads]
         /\ \A b \in Batches : Coherent(job'[b], thread'[b])
<1>1. /\ TypeOK /\ DiskInv /\ \A b \in Batches : Coherent(job[b], thread[b])
      /\ job \in [Batches -> Jobs] /\ thread \in [Batches -> Threads]
  BY DEF BInv, TypeOK, Threads
<1>2. ASSUME NEW b \in Batches, Submit(b) \/ ThreadStep(b)
      PROVE  /\ job' \in [Batches -> Jobs] /\ thread' \in [Batches -> Threads]
             /\ \A c \in Batches : Coherent(job'[c], thread'[c])
  <2>1. Changes(b) /\ Coherent(job'[b], thread'[b])
    BY <1>1, <1>2, BatchStep
  <2>2. job' \in [Batches -> Jobs] /\ thread' \in [Batches -> Threads]
    BY <1>1, <2>1 DEF Changes
  <2>3. ASSUME NEW c \in Batches, c # b PROVE job'[c] = job[c] /\ thread'[c] = thread[c]
    BY <1>1, <2>1, <2>3 DEF Changes
  <2> QED
    BY <1>1, <2>1, <2>2, <2>3
<1>3. CASE UNCHANGED <<job, thread>>
  BY <1>1, <1>3
<1>4. CASE ProcessEnds
  <2> DEFINE gone == [NoThread EXCEPT !.at = "gone"]
  <2>1. /\ job' = [b \in Batches |-> NoJob]
        /\ thread' = [b \in Batches |-> IF At(b, "none") THEN NoThread ELSE gone]
    BY <1>4 DEF ProcessEnds
  <2>2. /\ gone = [at |-> "gone", todo |-> <<>>, text |-> Absent]
        /\ gone.at = "gone"
    BY DEF NoThread
  <2>3. gone \in Threads
    <3>1. NoThread \in Threads
      BY NoBatchYet
    <3> QED
      BY <3>1 DEF Threads, Places
  <2>4. Coherent(NoJob, gone)
    <3>1. ToSet(NoJob.files) = {}
      BY DEF NoJob, ToSet
    <3> QED
      BY <2>2, <3>1 DEF NoJob, Coherent, Begun, Underway, Working, Finished, Outcome
  <2> HIDE DEF gone
  <2> QED
    BY <2>1, <2>3, <2>4, NoBatchYet
<1>5. CASE \E b \in Batches : Follow(b)
  BY <1>3, <1>5 DEF Follow
<1>6. CASE PollLength \/ PollEntries
  BY <1>3, <1>6 DEF PollLength, PollEntries
<1>7. CASE UNCHANGED vars
  BY <1>3, <1>7 DEF vars
<1> QED
  BY <1>2, <1>4, <1>5, <1>6, <1>7 DEF Next

-----------------------------------------------------------------------------
(* The disk. *)

(* An output is written with the translation of a text somebody provided.   *)
LEMMA OutputWritten ==
  ASSUME BatchAssumption, TypeOK, NEW b \in Batches, Coherent(job[b], thread[b]),
         WriteOutput(b)
  PROVE  disk' = [disk EXCEPT ![CurrentOutput(b)] = <<b>>]
<1>1. thread[b].at = "open" /\ thread[b].text = <<>>
  BY DEF WriteOutput, At, Coherent, Underway, Working
<1>2. <<>> # Partial
  <2>1. <<>> \in Seq(Batches)
    OBVIOUS
  <2> QED
    BY <2>1 DEF BatchAssumption
<1>3. Append(<<>>, b) = <<b>>
  OBVIOUS
<1> QED
  BY <1>1, <1>2, <1>3 DEF WriteOutput, Translated

(* A batch writes in output directories, and leaves them Partial or with    *)
(* its translation; nobody else writes.                                     *)
LEMMA DiskWrites ==
  ASSUME BatchAssumption, BInv, [Next]_vars
  PROVE  \/ disk' = disk
         \/ \E b \in Batches :
              /\ CurrentOutput(b) \in Paths /\ InOutputDir(CurrentOutput(b))
              /\ \/ OpenOutput(b) /\ disk' = [disk EXCEPT ![CurrentOutput(b)] = Partial]
                 \/ WriteOutput(b) /\ disk' = [disk EXCEPT ![CurrentOutput(b)] = <<b>>]
<1>1. TypeOK /\ \A b \in Batches : Coherent(job[b], thread[b])
  BY DEF BInv
<1>2. ASSUME NEW b \in Batches, OpenOutput(b) \/ WriteOutput(b)
      PROVE  /\ CurrentOutput(b) \in Paths /\ InOutputDir(CurrentOutput(b))
             /\ \/ OpenOutput(b) /\ disk' = [disk EXCEPT ![CurrentOutput(b)] = Partial]
                \/ WriteOutput(b) /\ disk' = [disk EXCEPT ![CurrentOutput(b)] = <<b>>]
  <2>1. thread[b].at \in {"read", "open"}
    BY <1>2 DEF OpenOutput, WriteOutput, At
  <2>2. thread[b].todo # <<>>
    BY <1>1, <2>1 DEF Coherent, Underway, Working
  <2>3. CurrentOutput(b) \in Paths /\ InOutputDir(CurrentOutput(b))
    BY <1>1, <2>1, <2>2, CurrentFile DEF Working
  <2> QED
    BY <1>1, <1>2, <2>3, OutputWritten DEF OpenOutput
<1>3. CASE \E b \in Batches : OpenOutput(b) \/ WriteOutput(b)
  BY <1>2, <1>3
<1>4. CASE \A b \in Batches : ~ OpenOutput(b) /\ ~ WriteOutput(b)
  BY <1>4 DEF Next, ThreadStep, Submit, Start, Discover, Reject, OutputDirFails, ReadFile,
     FileSucceeds, FileFails, Complete, LogCompleted, OpenReport, WriteReport, ReportFails,
     Follow, PollLength, PollEntries, ProcessEnds, vars
<1> QED
  BY <1>3, <1>4

(* No text is overwritten, and nothing is translated twice. *)
LEMMA DiskStep ==
  ASSUME BatchAssumption, BInv, [Next]_vars
  PROVE  disk' \in [Paths -> Contents] /\ DiskInv'
<1>1. disk \in [Paths -> Contents] /\ DiskInv
  BY DEF BInv, TypeOK
<1>2. CASE disk' = disk
  BY <1>1, <1>2 DEF DiskInv
<1>3. ASSUME NEW b \in Batches, NEW text \in {Partial, <<b>>},
             CurrentOutput(b) \in Paths, InOutputDir(CurrentOutput(b)),
             disk' = [disk EXCEPT ![CurrentOutput(b)] = text]
      PROVE  disk' \in [Paths -> Contents] /\ DiskInv'
  <2>1. <<b>> \in Seq(Batches) /\ <<b>> \in OneTranslation
    BY DEF OneTranslation
  <2>2. text \in Contents /\ text \in {Partial} \cup OneTranslation
    BY <2>1 DEF Contents
  <2> DEFINE out == CurrentOutput(b)
  <2> HIDE DEF out
  <2>3. disk' = [disk EXCEPT ![out] = text] /\ out \in Paths /\ InOutputDir(out)
    BY <1>3 DEF out
  <2> QED
    BY <1>1, <2>2, <2>3 DEF DiskInv
<1> QED
  BY <1>2, <1>3, DiskWrites

(* What a step of batch b has to do with the output out: it begins it again *)
(* for good, says it has written it only if it has, and spoils it only by   *)
(* beginning it again.                                                      *)
Honest(b, out) ==
  \/ disk'[out] \in OneTranslation
  \/ /\ Redoes(job[b], thread[b], out) => Redoes(job'[b], thread'[b], out)
     /\ Wrote(job'[b], thread'[b], out) =>
          Wrote(job[b], thread[b], out) /\ (disk'[out] = disk[out])
     /\ \/ disk'[out] = disk[out]
        \/ disk'[out] = Partial /\ Redoes(job'[b], thread'[b], out)

(* Honest steps keep what was written. *)
LEMMA HonestStep ==
  ASSUME BInv, NEW b \in Batches, Changes(b), \A out \in Paths : Honest(b, out)
  PROVE  WrittenInv'
<1>1. WrittenInv /\ \A c \in Batches \ {b} : job'[c] = job[c] /\ thread'[c] = thread[c]
  BY DEF BInv, TypeOK, Changes
<1>2. SUFFICES ASSUME NEW c \in Batches, NEW out \in Paths,
                      Wrote(job'[c], thread'[c], out), disk'[out] \notin OneTranslation
               PROVE  disk'[out] = Partial /\ \E d \in Batches \ {c} : Redoes(job'[d], thread'[d], out)
  BY DEF WrittenInv
<1>3. /\ Redoes(job[b], thread[b], out) => Redoes(job'[b], thread'[b], out)
      /\ Wrote(job'[b], thread'[b], out) =>
           Wrote(job[b], thread[b], out) /\ (disk'[out] = disk[out])
      /\ \/ disk'[out] = disk[out]
         \/ disk'[out] = Partial /\ Redoes(job'[b], thread'[b], out)
  BY <1>2 DEF Honest
<1>4. Wrote(job[c], thread[c], out)
  BY <1>1, <1>2, <1>3
<1>5. CASE disk'[out] = disk[out]
  <2>1. PICK d \in Batches \ {c} : disk[out] = Partial /\ Redoes(job[d], thread[d], out)
    BY <1>1, <1>2, <1>4, <1>5 DEF WrittenInv
  <2>2. Redoes(job'[d], thread'[d], out)
    BY <1>1, <1>3, <2>1
  <2> QED
    BY <1>5, <2>1, <2>2
<1>6. CASE disk'[out] # disk[out]
  <2>1. b # c
    BY <1>2, <1>3, <1>6
  <2> QED
    BY <1>3, <1>6, <2>1
<1> QED
  BY <1>5, <1>6

(* Steps that write no file, and neither begin nor end one. *)
LEMMA QuietHonest ==
  ASSUME NEW b \in Batches, disk' = disk, ToSet(job'[b].files) = ToSet(job[b].files),
         ToSet(job[b].files) # {} => job'[b].request = job[b].request,
         thread[b].at # "open", thread'[b].at # "written"
  PROVE  \A out \in Paths : Honest(b, out)
<1>1. \A out, ok : ResultIs(job'[b], out, ok) <=> ResultIs(job[b], out, ok)
  BY DEF ResultIs
<1> QED
  BY <1>1 DEF Honest, Wrote, Redoes

(* The output that is emptied is not one the batch has written.             *)
LEMMA OpenHonest ==
  ASSUME BatchAssumption, TypeOK, NEW b \in Batches, Coherent(job[b], thread[b]), OpenOutput(b)
  PROVE  \A out \in Paths : Honest(b, out)
<1>1. /\ thread[b].at = "read" /\ job'[b] = job[b]
      /\ thread'[b].at = "open" /\ thread'[b].todo = thread[b].todo
  BY GoneOn DEF OpenOutput, At, Places
<1>2. thread[b].todo # <<>> /\ Apart(job[b], thread[b]) /\ thread[b] \in Threads
  BY <1>1, BatchType DEF Coherent, Underway, Working
<1>3. CurrentOutput(b) \in Paths
  BY <1>1, <1>2, CurrentFile DEF Working
<1>4. \A out \in Paths \ {CurrentOutput(b)} : disk'[out] = disk[out]
  BY DEF OpenOutput, TypeOK
<1>5. disk'[CurrentOutput(b)] = Partial
  BY <1>3 DEF OpenOutput, TypeOK
<1>6. CurrentIs(job[b], thread[b], CurrentOutput(b))
  BY DEF CurrentIs, CurrentOutput, Current, Req
<1>7. ~ ResultIs(job[b], CurrentOutput(b), TRUE)
  <2>1. 1 \in DOMAIN thread[b].todo /\ Current(b) = thread[b].todo[1]
    BY <1>2 DEF Threads, Current
  <2> QED
    BY <1>2, <2>1 DEF Apart, ResultIs, CurrentOutput, Req
<1>8. Redoes(job'[b], thread'[b], CurrentOutput(b)) /\ ~ Wrote(job'[b], thread'[b], CurrentOutput(b))
  BY <1>1, <1>6, <1>7 DEF Redoes, Wrote, CurrentIs
<1>9. Honest(b, CurrentOutput(b))
  BY <1>5, <1>8 DEF Honest
<1>10. ASSUME NEW out \in Paths, out # CurrentOutput(b) PROVE Honest(b, out)
  BY <1>1, <1>4, <1>10 DEF Honest, Redoes, Wrote
<1> QED
  BY <1>9, <1>10

(* The output that is written is whole. *)
LEMMA WriteHonest ==
  ASSUME BatchAssumption, TypeOK, NEW b \in Batches, Coherent(job[b], thread[b]), WriteOutput(b)
  PROVE  \A out \in Paths : Honest(b, out)
<1>1. /\ thread[b].at = "open" /\ job'[b] = job[b]
      /\ thread'[b].at = "written" /\ thread'[b].todo = thread[b].todo
  BY GoneOn DEF WriteOutput, At, Places
<1>2. disk' = [disk EXCEPT ![CurrentOutput(b)] = <<b>>]
  BY OutputWritten
<1>3. SUFFICES ASSUME NEW out \in Paths PROVE Honest(b, out)
  OBVIOUS
<1>4. CASE out = CurrentOutput(b)
  <2>1. disk'[out] = <<b>>
    BY <1>2, <1>4 DEF TypeOK
  <2> QED
    BY <2>1 DEF Honest, OneTranslation
<1>5. CASE out # CurrentOutput(b)
  <2>1. disk'[out] = disk[out]
    BY <1>2, <1>5 DEF TypeOK
  <2>2. ~ CurrentIs(job[b], thread[b], out) /\ ~ CurrentIs(job'[b], thread'[b], out)
    BY <1>1, <1>5 DEF CurrentIs, CurrentOutput, Current, Req
  <2> QED
    BY <1>1, <2>1, <2>2 DEF Honest, Redoes, Wrote
<1> QED
  BY <1>4, <1>5

(* A result says what happened to the output. *)
LEMMA ResultHonest ==
  ASSUME BatchAssumption, TypeOK, NEW b \in Batches, Coherent(job[b], thread[b]),
         FileSucceeds(b) \/ FileFails(b)
  PROVE  \A out \in Paths : Honest(b, out)
<1>1. SUFFICES ASSUME NEW out \in Paths PROVE Honest(b, out)
  OBVIOUS
<1>2. disk' = disk
  BY DEF FileSucceeds, FileFails
<1>3. CASE FileSucceeds(b)
  <2> DEFINE f == [path |-> Current(b), ok |-> TRUE]
  <2>1. /\ job'[b].request = job[b].request
        /\ ToSet(job'[b].files) = ToSet(job[b].files) \cup {f}
    BY <1>3, FileSucceedsKeeps DEF ResultsOf, Req
  <2>2. thread[b].at = "written" /\ thread'[b].at = "file"
    <3>1. thread[b].todo # <<>>
      BY <1>3 DEF FileSucceeds, At, Coherent, Underway, Working
    <3> QED
      BY <1>3, <3>1, NextThread DEF FileSucceeds, At
  <2>3. f.path = Current(b) /\ f.ok = TRUE /\ TRUE # FALSE
    OBVIOUS
  <2> HIDE DEF f
  <2>4. ResultIs(job'[b], out, TRUE) => ResultIs(job[b], out, TRUE) \/ CurrentIs(job[b], thread[b], out)
    BY <2>1, <2>3 DEF ResultIs, CurrentIs, Current
  <2>5. ResultIs(job[b], out, FALSE) => ResultIs(job'[b], out, FALSE)
    BY <2>1 DEF ResultIs
  <2> QED
    BY <1>2, <2>2, <2>4, <2>5 DEF Honest, Redoes, Wrote
<1>4. CASE FileFails(b)
  <2> DEFINE f == [path |-> Current(b), ok |-> FALSE]
  <2>1. /\ job'[b].request = job[b].request /\ thread'[b].at \in {"file", "done"}
        /\ ToSet(job'[b].files) = ToSet(job[b].files) \cup {f}
    BY <1>4, FileFailsKeeps DEF ResultsOf, Req
  <2>2. f.path = Current(b) /\ f.ok = FALSE /\ TRUE # FALSE
    OBVIOUS
  <2> HIDE DEF f
  <2>3. ResultIs(job[b], out, FALSE) \/ CurrentIs(job[b], thread[b], out)
           => ResultIs(job'[b], out, FALSE)
    BY <2>1, <2>2 DEF ResultIs, CurrentIs, Current
  <2>4. ResultIs(job'[b], out, TRUE) => ResultIs(job[b], out, TRUE)
    BY <2>1, <2>2 DEF ResultIs
  <2> QED
    BY <1>2, <2>1, <2>3, <2>4 DEF Honest, Redoes, Wrote
<1> QED
  BY <1>3, <1>4

(* Steps that neither begin nor end a file. *)
Quiet(b) == \/ Submit(b) \/ Start(b) \/ Discover(b) \/ Reject(b) \/ OutputDirFails(b)
            \/ ReadFile(b) \/ Complete(b) \/ LogCompleted(b) \/ OpenReport(b) \/ WriteReport(b)
            \/ ReportFails(b)

(* They leave the results and the disk alone, and the log only grows. *)
LEMMA QuietJob ==
  ASSUME BatchAssumption, OutputsApart, TypeOK, DiskInv, NEW b \in Batches, Coherent(job[b], thread[b]), Quiet(b)
  PROVE  /\ disk' = disk /\ ToSet(job'[b].files) = ToSet(job[b].files)
         /\ ToSet(job[b].files) # {} => job'[b].request = job[b].request
         /\ job'[b].logs >= job[b].logs /\ job'[b].status # "none"
<1>1. disk' = disk
  BY DEF Quiet, Submit, Start, Discover, Reject, OutputDirFails, ReadFile, Complete,
     LogCompleted, OpenReport, WriteReport, ReportFails
<1>2. job[b] \in Jobs /\ job[b].logs \in Nat
  BY BatchType DEF Jobs
<1>3. CASE Submit(b)
  <2>1. job[b] = NoJob
    BY <1>3 DEF Submit, At, Coherent, Begun
  <2>2. PICK r : job'[b] = [NoJob EXCEPT !.status = "queued", !.request = r]
    BY <1>3 DEF Submit, TypeOK
  <2>3. NoJob.files = <<>> /\ NoJob.logs = 0
    BY DEF NoJob
  <2>4. job'[b].files = <<>> /\ job'[b].logs = 0 /\ job'[b].status = "queued"
    BY <2>2 DEF NoJob
  <2>5. ToSet(<<>>) = {}
    BY DEF ToSet
  <2> QED
    BY <1>1, <2>1, <2>3, <2>4, <2>5
<1>4. CASE Start(b)
  <2> DEFINE k == [job[b] EXCEPT !.status = "running"]
  <2>1. job'[b] = Logged(k)
    BY <1>4 DEF Start, TypeOK
  <2>2. /\ k \in Jobs /\ k.files = job[b].files /\ k.request = job[b].request
        /\ k.logs = job[b].logs /\ k.status = "running"
    BY <1>2 DEF Jobs
  <2> HIDE DEF k
  <2> QED
    BY <1>1, <1>2, <2>1, <2>2, LoggedJob
<1>5. CASE Discover(b)
  <2> DEFINE k == [job[b] EXCEPT !.total = Cardinality(Discovered(Req(b)))]
  <2>1. job'[b] = Logged(k) /\ job[b].status = "running" /\ Req(b) \in Requests
    BY <1>5 DEF Discover, At, TypeOK, Coherent, Begun, Req
  <2>2. Cardinality(Discovered(Req(b))) \in Nat
    BY <2>1, DiscoveredFiles, FS_CardinalityType
  <2>3. /\ k \in Jobs /\ k.files = job[b].files /\ k.request = job[b].request
        /\ k.logs = job[b].logs /\ k.status = job[b].status
    BY <1>2, <2>2 DEF Jobs
  <2> HIDE DEF k
  <2> QED
    BY <1>1, <1>2, <2>1, <2>3, LoggedJob
<1>6. CASE Reject(b)
  <2>1. job'[b] \in {Failed(Logged(job[b])), Failed(job[b])}
    BY <1>6 DEF Reject, TypeOK
  <2>2. /\ Logged(job[b]) \in Jobs /\ Logged(job[b]).request = job[b].request
        /\ Logged(job[b]).files = job[b].files /\ Logged(job[b]).logs = job[b].logs + 1
    BY <1>2, LoggedJob
  <2>3. /\ Failed(Logged(job[b])).files = job[b].files
        /\ Failed(Logged(job[b])).request = job[b].request
        /\ Failed(Logged(job[b])).logs = job[b].logs + 1 + 1
        /\ Failed(Logged(job[b])).status = "failed"
    BY <2>2, FailedJob
  <2>4. /\ Failed(job[b]).files = job[b].files /\ Failed(job[b]).request = job[b].request
        /\ Failed(job[b]).logs = job[b].logs + 1 /\ Failed(job[b]).status = "failed"
    BY <1>2, FailedJob
  <2>5. /\ job'[b].files = job[b].files /\ job'[b].request = job[b].request
        /\ job'[b].logs \in {job[b].logs + 1, job[b].logs + 1 + 1} /\ job'[b].status = "failed"
    BY <2>1, <2>3, <2>4
  <2> QED
    BY <1>1, <1>2, <2>5
<1>7. CASE OutputDirFails(b) \/ ReportFails(b)
  <2>1. job'[b] = Failed(job[b])
    BY <1>7 DEF OutputDirFails, ReportFails, TypeOK
  <2> QED
    BY <1>1, <1>2, <2>1, FailedJob
<1>8. CASE ReadFile(b) \/ LogCompleted(b)
  <2>1. job'[b] = Logged(job[b]) /\ thread[b].at \in {"file", "completed"}
    BY <1>8 DEF ReadFile, LogCompleted, TypeOK, At
  <2>2. job[b].status # "none"
    BY <2>1 DEF Coherent, Underway, Working, Finished
  <2> QED
    BY <1>1, <1>2, <2>1, <2>2, LoggedJob
<1>9. CASE Complete(b)
  <2> DEFINE status == IF job[b].failed > 0 THEN "completed_with_errors" ELSE "succeeded"
  <2>1. job'[b] = [job[b] EXCEPT !.status = status, !.manifest = Req(b).writeManifest]
    BY <1>9 DEF Complete, TypeOK
  <2>2. status # "none"
    OBVIOUS
  <2> HIDE DEF status
  <2>3. /\ job'[b].files = job[b].files /\ job'[b].request = job[b].request
        /\ job'[b].logs = job[b].logs /\ job'[b].status = status
    BY <1>2, <2>1 DEF Jobs
  <2> QED
    BY <1>1, <1>2, <2>2, <2>3
<1>10. CASE OpenReport(b) \/ WriteReport(b)
  <2>1. job'[b] = job[b] /\ thread[b].at \in {"report", "reporting"}
    BY <1>10 DEF OpenReport, WriteReport, At
  <2>2. job[b].status # "none"
    BY <2>1 DEF Coherent, Finished
  <2> QED
    BY <1>1, <1>2, <2>1, <2>2
<1> QED
  BY <1>3, <1>4, <1>5, <1>6, <1>7, <1>8, <1>9, <1>10 DEF Quiet

(* Where quiet steps are from and lead to. *)
LEMMA QuietPlaces ==
  ASSUME BatchAssumption, TypeOK, DiskInv, NEW b \in Batches, Coherent(job[b], thread[b]), Quiet(b)
  PROVE  thread[b].at \notin {"open", "written", "done", "gone"} /\ thread'[b].at # "written"
<1>1. thread[b].at \notin {"open", "written", "done", "gone"}
  BY DEF Quiet, Submit, Start, Discover, Reject, OutputDirFails, ReadFile, Complete,
     LogCompleted, OpenReport, WriteReport, ReportFails, At
<1>2. CASE Ended(b)
  BY <1>1, <1>2, EndedThread
<1>3. ASSUME NEW place \in Places \ {"written"}, GoTo(b, place) PROVE thread'[b].at # "written"
  BY <1>3, GoneOn
<1>4. CASE Discover(b) \/ ReadFile(b)
  <2>1. thread[b] \in Threads /\ thread \in [Batches -> Threads]
    BY BatchType DEF TypeOK, Threads
  <2>2. CASE Discover(b)
    <3> DEFINE todo == SetToSeq(Discovered(Req(b)))
    <3>1. thread'[b] = [thread[b] EXCEPT !.at = "file", !.todo = todo]
      BY <2>1, <2>2 DEF Discover
    <3> HIDE DEF todo
    <3> QED
      BY <1>1, <2>1, <3>1 DEF Threads
  <2>3. CASE ReadFile(b)
    <3>1. thread'[b] = [thread[b] EXCEPT !.at = "read", !.text = disk[Current(b)]]
      BY <2>1, <2>3 DEF ReadFile
    <3> QED
      BY <1>1, <2>1, <3>1 DEF Threads
  <2> QED
    BY <1>4, <2>2, <2>3
<1> QED
  BY <1>1, <1>2, <1>3, <1>4 DEF Quiet, Submit, Start, Reject, OutputDirFails, Complete,
     LogCompleted, OpenReport, WriteReport, ReportFails, Places

(* Outputs that were written stay whole, or are begun again. *)
LEMMA WrittenStep ==
  ASSUME BatchAssumption, OutputsApart, BInv, [Next]_vars
  PROVE  WrittenInv'
<1>1. TypeOK /\ DiskInv /\ \A b \in Batches : Coherent(job[b], thread[b])
  BY DEF BInv
<1>2. ASSUME NEW b \in Batches, Submit(b) \/ ThreadStep(b) PROVE WrittenInv'
  <2>1. Changes(b)
    BY <1>1, <1>2, BatchStep
  <2>2. CASE Quiet(b)
    <3>1. \A out \in Paths : Honest(b, out)
      BY <1>1, <2>2, QuietJob, QuietPlaces, QuietHonest
    <3> QED
      BY <2>1, <3>1, HonestStep
  <2>3. CASE OpenOutput(b) \/ WriteOutput(b) \/ FileSucceeds(b) \/ FileFails(b)
    <3>1. \A out \in Paths : Honest(b, out)
      BY <1>1, <2>3, OpenHonest, WriteHonest, ResultHonest
    <3> QED
      BY <2>1, <3>1, HonestStep
  <2> QED
    BY <1>2, <2>2, <2>3 DEF ThreadStep, Quiet
<1>3. CASE UNCHANGED <<disk, job, thread>>
  BY <1>3 DEF BInv, WrittenInv
<1>4. CASE ProcessEnds
  <2> DEFINE gone == [NoThread EXCEPT !.at = "gone"]
  <2>1. ASSUME NEW b \in Batches PROVE job'[b] = NoJob /\ thread'[b] \in {NoThread, gone}
    BY <1>4 DEF ProcessEnds
  <2>2. gone.at = "gone" /\ NoThread.at = "none"
    BY DEF NoThread
  <2>3. ToSet(NoJob.files) = {}
    BY DEF NoJob, ToSet
  <2> HIDE DEF gone
  <2> QED
    BY <2>1, <2>2, <2>3 DEF WrittenInv, Wrote, ResultIs
<1>5. CASE (\E b \in Batches : Follow(b)) \/ PollLength \/ PollEntries
  BY <1>3, <1>5 DEF Follow, PollLength, PollEntries
<1>6. CASE UNCHANGED vars
  BY <1>3, <1>6 DEF vars
<1> QED
  BY <1>2, <1>4, <1>5, <1>6 DEF Next

-----------------------------------------------------------------------------
(* The reports and the log. *)

(* The log of a batch only grows, and nobody but an ending process forgets  *)
(* a batch.                                                                 *)
LEMMA LogGrows ==
  ASSUME BatchAssumption, OutputsApart, BInv, NEW b \in Batches, Submit(b) \/ ThreadStep(b)
  PROVE  /\ job'[b].logs >= job[b].logs /\ job'[b].status # "none"
         /\ \A c \in Batches \ {b} : job'[c] = job[c] /\ thread'[c] = thread[c]
         /\ thread[b].at \notin {"done", "gone"}
<1>1. TypeOK /\ DiskInv /\ Coherent(job[b], thread[b]) /\ job[b] \in Jobs
  BY BatchType DEF BInv
<1>2. \A c \in Batches \ {b} : job'[c] = job[c] /\ thread'[c] = thread[c]
  <2>1. Changes(b)
    BY <1>1, BatchStep
  <2> QED
    BY <1>1, <2>1 DEF Changes, TypeOK
<1>3. job[b].logs \in Nat
  BY <1>1 DEF Jobs
<1>4. CASE Quiet(b)
  BY <1>1, <1>2, <1>4, QuietJob, QuietPlaces
<1>5. CASE OpenOutput(b) \/ WriteOutput(b)
  <2>1. job'[b] = job[b] /\ thread[b].at \in {"read", "open"}
    BY <1>5 DEF OpenOutput, WriteOutput, At
  <2>2. job[b].status = "running"
    BY <1>1, <2>1 DEF Coherent, Underway, Working
  <2> QED
    BY <1>2, <1>3, <2>1, <2>2
<1>6. CASE FileSucceeds(b) \/ FileFails(b)
  <2>1. thread[b].at \in Working /\ thread[b].todo # <<>> /\ job[b].status = "running"
    BY <1>1, <1>6 DEF FileSucceeds, FileFails, At, Coherent, Underway, Working
  <2>2. Current(b) \in Paths
    BY <1>1, <2>1, CurrentFile
  <2>3. PICK f \in Results : \/ job'[b] = Logged(WithResult(job[b], f.path, f.ok))
                             \/ job'[b] = Failed(Logged(WithResult(job[b], f.path, f.ok)))
    <3>1. CASE FileSucceeds(b)
      <4>1. [path |-> Current(b), ok |-> TRUE] \in Results
        BY <2>2 DEF Results
      <4>2. job'[b] = Logged(WithResult(job[b], Current(b), TRUE))
        BY <1>1, <3>1 DEF FileSucceeds, TypeOK
      <4> QED
        BY <4>1, <4>2
    <3>2. CASE FileFails(b)
      <4>1. [path |-> Current(b), ok |-> FALSE] \in Results
        BY <2>2 DEF Results
      <4>2. \/ job'[b] = Logged(WithResult(job[b], Current(b), FALSE))
            \/ job'[b] = Failed(Logged(WithResult(job[b], Current(b), FALSE)))
        BY <1>1, <3>2 DEF FileFails, TypeOK
      <4> QED
        BY <4>1, <4>2
    <3> QED
      BY <1>6, <3>1, <3>2
  <2> DEFINE k == WithResult(job[b], f.path, f.ok)
  <2>4. k \in Jobs /\ k.logs = job[b].logs /\ k.status = job[b].status
    BY <1>1, ResultJob
  <2> HIDE DEF k
  <2>5. Logged(k) \in Jobs /\ Logged(k).logs = job[b].logs + 1 /\ Logged(k).status = "running"
    BY <2>1, <2>4, LoggedJob
  <2>6. Failed(Logged(k)).logs = job[b].logs + 1 + 1 /\ Failed(Logged(k)).status = "failed"
    BY <2>5, FailedJob
  <2>7. job'[b] = Logged(k) \/ job'[b] = Failed(Logged(k))
    BY <2>3 DEF k
  <2>8. job'[b].logs \in {job[b].logs + 1, job[b].logs + 1 + 1} /\ job'[b].status # "none"
    BY <2>5, <2>6, <2>7
  <2> QED
    BY <1>2, <1>3, <2>1, <2>8 DEF Working
<1> QED
  BY <1>4, <1>5, <1>6 DEF ThreadStep, Quiet

(* The browser has met every entry before the one it asks for next. *)
LEMMA ClientStep ==
  ASSUME BatchAssumption, OutputsApart, BInv, [Next]_vars
  PROVE  /\ ClientInv'
         /\ client' \in [batch: Batches \cup {NoBatch}, offset: Nat, next: Nat,
                         got: SUBSET Nat, polls: 0 .. MaxPolls, at: {"idle", "length"}]
<1> DEFINE Clients == [batch: Batches \cup {NoBatch}, offset: Nat, next: Nat,
                       got: SUBSET Nat, polls: 0 .. MaxPolls, at: {"idle", "length"}]
<1>1. /\ client \in Clients /\ ClientInv
      /\ \A b \in Batches : job[b] \in Jobs /\ job[b].logs \in Nat
  BY DEF BInv, TypeOK, Jobs
<1>2. ASSUME client' = client,
             \A b \in Batches : Known(b) =>
               job'[b].logs >= job[b].logs /\ job'[b].status # "none" /\ job'[b].logs \in Nat
      PROVE  client' \in Clients /\ ClientInv'
  <2>2. CASE client.batch # NoBatch
    <3>1. client.batch \in Batches
      BY <1>1, <2>2
    <3> QED
      BY <1>1, <1>2, <2>2, <3>1 DEF ClientInv, NoEntryMissed, Known
  <2>3. CASE client.batch = NoBatch
    BY <1>1, <1>2, <2>3 DEF ClientInv, NoEntryMissed
  <2> QED
    BY <2>2, <2>3
<1>3. job' \in [Batches -> Jobs]
  BY JobsStep
<1>4. ASSUME NEW b \in Batches, Submit(b) \/ ThreadStep(b)
      PROVE  client' \in Clients /\ ClientInv'
  <2>1. client' = client
    BY <1>4 DEF Submit, ThreadStep, Start, Discover, Reject, OutputDirFails, ReadFile,
       OpenOutput, WriteOutput, FileSucceeds, FileFails, Complete, LogCompleted, OpenReport,
       WriteReport, ReportFails
  <2>2. ASSUME NEW c \in Batches, Known(c)
        PROVE  job'[c].logs >= job[c].logs /\ job'[c].status # "none" /\ job'[c].logs \in Nat
    <3>1. job'[c].logs \in Nat
      BY <1>3 DEF Jobs
    <3>2. CASE c = b
      BY <1>4, <3>1, <3>2, LogGrows
    <3>3. CASE c # b
      <4>1. job'[c] = job[c]
        BY <1>4, <3>3, LogGrows
      <4> QED
        BY <1>1, <2>2, <3>1, <4>1 DEF Known
    <3> QED
      BY <3>2, <3>3
  <2> QED
    BY <1>2, <2>1, <2>2
<1>5. ASSUME NEW b \in Batches, Follow(b) PROVE client' \in Clients /\ ClientInv'
  <2>1. /\ client.batch = NoBatch /\ Known(b) /\ job' = job
        /\ client' = [client EXCEPT !.batch = b]
    BY <1>5 DEF Follow
  <2>2. /\ client.offset = 0 /\ client.next = 0 /\ client.at = "idle" /\ job[b].logs \in Nat
        /\ client.got \subseteq Nat /\ client.polls \in 0..MaxPolls
    BY <1>1, <2>1 DEF ClientInv
  <2>3. /\ client' \in Clients /\ client'.batch = b /\ client'.offset = 0
        /\ client'.next = 0 /\ client'.at = "idle"
    BY <1>1, <2>1, <2>2
  <2>4. 1..0 = {}
    OBVIOUS
  <2> QED
    BY <2>1, <2>2, <2>3, <2>4 DEF ClientInv, NoEntryMissed, Known
<1>6. CASE PollLength
  <2> DEFINE b == client.batch
  <2>1. b # NoBatch /\ b \in Batches /\ Known(b) /\ client.polls < MaxPolls /\ job' = job
    BY <1>1, <1>6 DEF PollLength
  <2>2. client' = [client EXCEPT !.next = job[b].logs, !.at = "length", !.polls = client.polls + 1]
    BY <1>1, <1>6 DEF PollLength
  <2>3. client.polls + 1 \in 0..MaxPolls /\ job[b].logs \in Nat
    BY <1>1, <2>1 DEF BatchAssumption
  <2>4. /\ client' \in Clients /\ client'.batch = b /\ client'.offset = client.offset
        /\ client'.next = job[b].logs /\ client'.got = client.got
    BY <1>1, <2>2, <2>3
  <2> HIDE DEF b
  <2> QED
    BY <1>1, <2>1, <2>3, <2>4 DEF ClientInv, NoEntryMissed, Known, b
<1>7. CASE PollEntries
  <2> DEFINE b == client.batch
             read == (client.offset + 1)..job[b].logs
  <2>1. client.at = "length" /\ job' = job
    BY <1>7 DEF PollEntries
  <2>2. /\ b # NoBatch /\ b \in Batches /\ Known(b) /\ client.next <= job[b].logs
        /\ job[b].logs \in Nat /\ client.next \in Nat /\ client.offset \in Nat
        /\ 1..client.offset \subseteq client.got
    BY <1>1, <2>1 DEF ClientInv, NoEntryMissed
  <2>3. client' = [client EXCEPT !.got = client.got \cup read, !.offset = client.next,
                                 !.next = 0, !.at = "idle"]
    BY <1>1, <1>7 DEF PollEntries
  <2>4. client.got \cup read \subseteq Nat
    BY <1>1, <2>2
  <2>5. 1..client.next \subseteq client.got \cup read
    BY <2>2
  <2> HIDE DEF read
  <2>6. /\ client' \in Clients /\ client'.batch = b /\ client'.offset = client.next
        /\ client'.next = 0 /\ client'.got = client.got \cup read
    BY <1>1, <2>2, <2>3, <2>4
  <2> HIDE DEF b
  <2> QED
    BY <2>1, <2>2, <2>5, <2>6 DEF ClientInv, NoEntryMissed, Known
<1>8. CASE ProcessEnds
  <2>1. /\ client'.batch = NoBatch /\ client'.offset = 0 /\ client'.next = 0
        /\ client'.at = "idle" /\ client' \in Clients
    BY <1>8 DEF ProcessEnds, NoClient, BatchAssumption
  <2>2. 1..0 = {}
    OBVIOUS
  <2> QED
    BY <2>1, <2>2 DEF ClientInv, NoEntryMissed
<1>9. CASE UNCHANGED vars
  <2>1. client' = client /\ job' = job
    BY <1>9 DEF vars
  <2> QED
    BY <1>1, <1>2, <2>1 DEF Known
<1> QED
  BY <1>4, <1>5, <1>6, <1>7, <1>8, <1>9 DEF Next

(* A report that is complete stays the report of a batch that has ended. *)
LEMMA ReportStep ==
  ASSUME BatchAssumption, OutputsApart, BInv, [Next]_vars
  PROVE  ReportInv' /\ report' \in [OutputDirs -> {NoReport, Partial} \cup Snapshots]
<1>1. /\ report \in [OutputDirs -> {NoReport, Partial} \cup Snapshots] /\ ReportInv /\ TypeOK
      /\ \A b \in Batches : Coherent(job[b], thread[b])
  BY DEF BInv, TypeOK
<1>2. \A d \in OutputDirs : report[d] \in Snapshots => report[d].batch \in Batches
  BY DEF Snapshots
<1>3. ASSUME NEW b \in Batches, Submit(b) \/ ThreadStep(b)
      PROVE  \A s \in Snapshots : Told(s) => Told(s)'
  <2>1. /\ thread[b].at \notin {"done", "gone"}
        /\ \A c \in Batches \ {b} : job'[c] = job[c] /\ thread'[c] = thread[c]
    BY <1>3, LogGrows
  <2> QED
    BY <2>1 DEF Told, At, Snapshot, Snapshots
<1>4. ASSUME report' = report, \A s \in Snapshots : Told(s) => Told(s)'
      PROVE  ReportInv' /\ report' \in [OutputDirs -> {NoReport, Partial} \cup Snapshots]
  <2>1. ASSUME NEW d \in OutputDirs, report'[d] \in Snapshots PROVE Told(report[d])'
    BY <1>1, <1>4, <2>1 DEF ReportInv, Told
  <2> QED
    BY <1>1, <1>4, <2>1 DEF ReportInv
<1>5. CASE \E b \in Batches : OpenReport(b)
  <2>1. PICK b \in Batches : OpenReport(b)
    BY <1>5
  <2>2. report' = [report EXCEPT ![Req(b).output] = Partial]
    BY <2>1 DEF OpenReport
  <2>3. \A s \in Snapshots : Told(s) => Told(s)'
    BY <1>3, <2>1 DEF ThreadStep
  <2>4. report' \in [OutputDirs -> {NoReport, Partial} \cup Snapshots]
    BY <1>1, <2>2
  <2>5. ASSUME NEW d \in OutputDirs, report'[d] \in Snapshots PROVE Told(report[d])'
    <3>1. report'[d] = report[d]
      BY <1>1, <2>2, <2>5 DEF BatchAssumption
    <3> QED
      BY <1>1, <2>3, <2>5, <3>1 DEF ReportInv, Told, At, Snapshot
  <2> QED
    BY <2>4, <2>5 DEF ReportInv
<1>6. CASE \E b \in Batches : WriteReport(b)
  <2>1. PICK b \in Batches : WriteReport(b)
    BY <1>6
  <2>2. report' = [report EXCEPT ![Req(b).output] = Snapshot(b)] /\ job' = job /\ Ended(b)
    BY <2>1 DEF WriteReport
  <2>3. \A s \in Snapshots : Told(s) => Told(s)'
    BY <1>3, <2>1 DEF ThreadStep
  <2>4. thread'[b].at = "done"
    BY <1>1, <2>2, EndedThread
  <2>5. Snapshot(b) \in Snapshots
    <3>1. job[b] \in Jobs
      BY <1>1, BatchType
    <3>2. job[b].status \in TerminalBatchStatuses
      BY <1>1, <2>1 DEF WriteReport, At, Coherent, Finished, TerminalBatchStatuses
    <3>3. job[b].processed \in Nat /\ job[b].failed \in Nat
      BY <3>1 DEF Jobs
    <3> QED
      BY <3>2, <3>3 DEF Snapshot, Snapshots
  <2>6. Snapshot(b).batch = b /\ Snapshot(b)' = Snapshot(b)
    BY <2>2 DEF Snapshot
  <2>7. report' \in [OutputDirs -> {NoReport, Partial} \cup Snapshots]
    BY <1>1, <2>2, <2>5
  <2>8. ASSUME NEW d \in OutputDirs, report'[d] \in Snapshots PROVE Told(report[d])'
    <3>1. CASE d = Req(b).output
      <4>1. report'[d] = Snapshot(b)
        BY <1>1, <2>2, <3>1
      <4> QED
        BY <2>2, <2>4, <2>6, <4>1 DEF Told, Snapshot
    <3>2. CASE d # Req(b).output
      <4>1. report'[d] = report[d]
        BY <1>1, <2>2, <3>2
      <4> QED
        BY <1>1, <2>3, <2>8, <4>1 DEF ReportInv, Told, At, Snapshot
    <3> QED
      BY <3>1, <3>2
  <2> QED
    BY <2>7, <2>8 DEF ReportInv
<1>7. ASSUME NEW b \in Batches, Submit(b) \/ ThreadStep(b), ~ OpenReport(b), ~ WriteReport(b)
      PROVE  ReportInv' /\ report' \in [OutputDirs -> {NoReport, Partial} \cup Snapshots]
  <2>1. report' = report
    BY <1>7 DEF Submit, ThreadStep, Start, Discover, Reject, OutputDirFails, ReadFile,
       OpenOutput, WriteOutput, FileSucceeds, FileFails, Complete, LogCompleted, ReportFails
  <2> QED
    BY <1>3, <1>4, <1>7, <2>1
<1>8. CASE ProcessEnds
  <2>1. report' = report
    BY <1>8 DEF ProcessEnds
  <2>2. ASSUME NEW s \in Snapshots, Told(s) PROVE Told(s)'
    <3>1. s.batch \in Batches /\ thread[s.batch].at \in {"done", "gone"}
      BY <2>2 DEF Snapshots, Told
    <3>2. thread'[s.batch] = [NoThread EXCEPT !.at = "gone"]
      BY <1>8, <3>1 DEF ProcessEnds, At
    <3>3. thread'[s.batch].at = "gone"
      BY <3>2 DEF NoThread
    <3> QED
      BY <3>3 DEF Told, At
  <2> QED
    BY <1>4, <2>1, <2>2
<1>9. CASE UNCHANGED <<report, job, thread>>
  BY <1>1, <1>9 DEF ReportInv, Told, At, Snapshot
<1>10. CASE (\E b \in Batches : Follow(b)) \/ PollLength \/ PollEntries
  BY <1>9, <1>10 DEF Follow, PollLength, PollEntries
<1>11. CASE UNCHANGED vars
  BY <1>9, <1>11 DEF vars
<1> QED
  BY <1>5, <1>6, <1>7, <1>8, <1>10, <1>11 DEF Next

(* Failures and ends stay within their bounds. *)
LEMMA BoundsStep ==
  ASSUME BatchAssumption, BInv, [Next]_vars
  PROVE  faults' \in 0 .. MaxFaults /\ ends' \in 0 .. MaxEnds
<1>1. faults \in 0 .. MaxFaults /\ ends \in 0 .. MaxEnds /\ MaxFaults \in Nat /\ MaxEnds \in Nat
  BY DEF BInv, TypeOK, BatchAssumption
<1>2. CASE faults' = faults /\ ends' = ends
  BY <1>1, <1>2
<1>3. ASSUME NEW b \in Batches, OutputDirFails(b) \/ FileFails(b) \/ ReportFails(b)
      PROVE  faults < MaxFaults /\ faults' = faults + 1 /\ ends' = ends
  BY <1>3 DEF OutputDirFails, FileFails, ReportFails
<1>4. ASSUME NEW b \in Batches, Submit(b) \/ ThreadStep(b),
             ~ (OutputDirFails(b) \/ FileFails(b) \/ ReportFails(b))
      PROVE  faults' = faults /\ ends' = ends
  BY <1>4 DEF ThreadStep, Submit, Start, Discover, Reject, ReadFile, OpenOutput, WriteOutput,
     FileSucceeds, Complete, LogCompleted, OpenReport, WriteReport
<1>5. CASE ProcessEnds
  BY <1>1, <1>5 DEF ProcessEnds
<1>6. CASE (\E b \in Batches : Follow(b)) \/ PollLength \/ PollEntries
  BY <1>2, <1>6 DEF Follow, PollLength, PollEntries
<1>7. CASE UNCHANGED vars
  BY <1>2, <1>7 DEF vars
<1> QED
  BY <1>1, <1>2, <1>3, <1>4, <1>5, <1>6, <1>7 DEF Next

-----------------------------------------------------------------------------
(* There is no batch at the start. *)
LEMMA BatchInit ==
  ASSUME BatchAssumption, Init
  PROVE  BInv
<1>1. \A b \in Batches : job[b] = NoJob /\ thread[b] = NoThread
  BY DEF Init
<1>2. TypeOK
  <2>1. disk \in [Paths -> Contents]
    <3>1. <<>> \in Contents /\ Absent \in Contents
      BY DEF Contents
    <3> QED
      BY <3>1 DEF Init
  <2>2. job \in [Batches -> Jobs] /\ thread \in [Batches -> Threads]
    BY NoBatchYet DEF Init
  <2>3. client \in [batch: Batches \cup {NoBatch}, offset: Nat, next: Nat,
                    got: SUBSET Nat, polls: 0 .. MaxPolls, at: {"idle", "length"}]
    BY DEF Init, NoClient, BatchAssumption
  <2>4. report \in [OutputDirs -> {NoReport, Partial} \cup Snapshots]
    BY DEF Init
  <2>5. faults \in 0 .. MaxFaults /\ ends \in 0 .. MaxEnds
    BY DEF Init, BatchAssumption
  <2> QED
    BY <2>1, <2>2, <2>3, <2>4, <2>5 DEF TypeOK, Threads
<1>3. DiskInv
  BY DEF Init, DiskInv
<1>4. WrittenInv
  <2>1. ToSet(NoJob.files) = {} /\ NoThread.at = "none"
    BY DEF NoJob, NoThread, ToSet
  <2> QED
    BY <1>1, <2>1 DEF WrittenInv, Wrote, ResultIs
<1>5. ReportInv
  BY DEF Init, ReportInv, BatchAssumption
<1>6. ClientInv
  <2>1. client.batch = NoBatch /\ client.offset = 0 /\ client.next = 0 /\ client.at = "idle"
    BY DEF Init, NoClient
  <2>2. 1..0 = {}
    OBVIOUS
  <2> QED
    BY <2>1, <2>2 DEF ClientInv, NoEntryMissed
<1>7. \A b \in Batches : Coherent(job[b], thread[b])
  BY <1>1, NoBatchYet
<1> QED
  BY <1>2, <1>3, <1>4, <1>5, <1>6, <1>7 DEF BInv

(* Every step keeps the invariant. *)
LEMMA BatchNext ==
  ASSUME BatchAssumption, OutputsApart, BInv, [Next]_vars
  PROVE  BInv'
<1>1. TypeOK'
  BY JobsStep, DiskStep, ReportStep, ClientStep, BoundsStep DEF TypeOK, Threads
<1> QED
  BY <1>1, JobsStep, DiskStep, WrittenStep, ReportStep, ClientStep DEF BInv

(* The invariant of the proofs holds in every state. *)
LEMMA BatchInvariant == ASSUME OutputsApart PROVE Spec => []BInv
<1>1. Init => BInv
  BY BatchInit, BatchAssumption
<1>2. BInv /\ [Next]_vars => BInv'
  BY BatchNext, BatchAssumption
<1> QED
  BY <1>1, <1>2, PTL DEF Spec

(* The final status of a batch says what happened to its files. *)
LEMMA OutcomeHolds ==
  ASSUME BInv
  PROVE  OutcomeMatchesFiles
BY DEF BInv, Coherent, Finished, Outcome, OutcomeMatchesFiles, ResultsOf, Req

(* What a batch reports as written is whole, or another one's by now. *)
LEMMA SuccessHolds ==
  ASSUME BatchAssumption, BInv
  PROVE  SuccessIsOnDisk
<1>1. SUFFICES ASSUME NEW b \in Batches, NEW f \in ResultsOf(b), f.ok
               PROVE  LET out == OutputPath(Req(b), f.path) IN
                      \/ disk[out] \in Seq(Batches) \ {<<>>}
                      \/ /\ disk[out] = Partial
                         /\ \/ \E c \in Batches \ {b} : At(c, "open") /\ CurrentOutput(c) = out
                            \/ \E c \in Batches \ {b} : \E g \in ResultsOf(c) :
                                  ~ g.ok /\ OutputPath(Req(c), g.path) = out
  BY DEF SuccessIsOnDisk
<1> DEFINE out == OutputPath(Req(b), f.path)
<1>2. job[b].request \in Requests /\ Readable(job[b].request, f.path)
  <2>1. thread[b].at \notin {"none", "gone"}
    <3>1. ToSet(NoJob.files) = {}
      BY DEF NoJob, ToSet
    <3> QED
      BY <1>1, <3>1 DEF BInv, Coherent, Begun, ResultsOf
  <2> QED
    BY <1>1, <2>1 DEF BInv, Coherent, Begun, Finished, ResultsOf
<1>3. out \in Paths
  BY <1>2, OutputType DEF Req
<1>4. job[b] \in Jobs
  BY BatchType DEF BInv
<1>5. f.ok = TRUE
  <2>1. f \in Results
    <3>1. job[b].files \in Seq(Results)
      BY <1>4 DEF Jobs, Results
    <3>2. PICK i \in DOMAIN job[b].files : f = job[b].files[i]
      BY <1>1 DEF ResultsOf, ToSet
    <3> QED
      BY <3>1, <3>2
  <2> QED
    BY <1>1, <2>1 DEF Results
<1>6. Wrote(job[b], thread[b], out)
  BY <1>1, <1>5 DEF Wrote, ResultIs, ResultsOf, Req
<1>7. \/ disk[out] \in OneTranslation
      \/ disk[out] = Partial /\ \E c \in Batches \ {b} : Redoes(job[c], thread[c], out)
  BY <1>3, <1>6 DEF BInv, WrittenInv
<1>8. CASE disk[out] \in OneTranslation
  <2>1. PICK c \in Batches : disk[out] = <<c>>
    BY <1>8 DEF OneTranslation
  <2>2. <<c>> \in Seq(Batches) /\ <<c>> # <<>>
    OBVIOUS
  <2> QED
    BY <2>1, <2>2
<1>9. ASSUME NEW c \in Batches \ {b}, Redoes(job[c], thread[c], out)
      PROVE  \/ At(c, "open") /\ CurrentOutput(c) = out
             \/ \E g \in ResultsOf(c) : ~ g.ok /\ OutputPath(Req(c), g.path) = out
  <2> HIDE DEF out
  <2> QED
    BY <1>9 DEF Redoes, ResultIs, CurrentIs, At, CurrentOutput, Current, ResultsOf, Req
<1> QED
  BY <1>7, <1>8, <1>9

(* A complete report says what the API says. *)
LEMMA ReportHolds ==
  ASSUME BInv
  PROVE  ReportAgrees
<1>1. SUFFICES ASSUME NEW d \in OutputDirs, report[d] \notin {NoReport, Partial},
                      Known(report[d].batch)
               PROVE  /\ report[d].status = job[report[d].batch].status
                      /\ report[d].processed = job[report[d].batch].processed
                      /\ report[d].failed = job[report[d].batch].failed
  BY DEF ReportAgrees
<1> DEFINE b == report[d].batch
<1>2. report[d] \in Snapshots /\ b \in Batches /\ Told(report[d])
  BY <1>1 DEF BInv, TypeOK, ReportInv, Snapshots
<1>3. thread[b].at # "gone"
  <2>1. NoJob.status = "none"
    BY DEF NoJob
  <2> QED
    BY <1>1, <1>2, <2>1 DEF BInv, Coherent, Begun, Known
<1>4. report[d] = Snapshot(b)
  BY <1>2, <1>3 DEF Told, At
<1> QED
  BY <1>4 DEF Snapshot

(* The text of a file is an original or one translation of one. *)
LEMMA OnceHolds ==
  ASSUME BatchAssumption, BInv
  PROVE  NoTextTranslatedTwice
<1>1. SUFFICES ASSUME NEW p \in Paths, disk[p] \in Seq(Batches)
               PROVE  Len(disk[p]) <= 1
  BY DEF NoTextTranslatedTwice
<1>2. disk[p] = <<>> \/ \E b \in Batches : disk[p] = <<b>>
  BY <1>1 DEF BInv, DiskInv, OneTranslation, BatchAssumption
<1>3. CASE disk[p] = <<>>
  BY <1>3
<1>4. ASSUME NEW b \in Batches, disk[p] = <<b>> PROVE Len(disk[p]) <= 1
  BY <1>4
<1> QED
  BY <1>2, <1>3, <1>4

(* AnswersAgree: the API, the log, the files and the report tell one story  *)
(* of a batch.                                                              *)
THEOREM OneStory == ASSUME OutputsApart PROVE Spec => []AnswersAgree
<1>1. BInv => AnswersAgree
  BY OutcomeHolds, SuccessHolds, ReportHolds, BatchAssumption
     DEF BInv, ClientInv, AnswersAgree
<1> QED
  BY <1>1, BatchInvariant, PTL

(* NoTextTranslatedTwice: where requests that share a source share the      *)
(* output directory below it, a batch leaves alone what earlier batches     *)
(* wrote there.  Two requests with output directories of their own below    *)
(* one source do translate each other's outputs.                            *)
THEOREM TranslatedOnce == ASSUME OutputsApart PROVE Spec => []NoTextTranslatedTwice
<1>1. BInv => NoTextTranslatedTwice
  BY OnceHolds, BatchAssumption
<1> QED
  BY <1>1, BatchInvariant, PTL

(* A step that changes a terminal status is the one of a report that could  *)
(* not be written, and no complete report is of that batch.                 *)
LEMMA Revokes ==
  ASSUME BatchAssumption, OutputsApart, BInv, [Next]_vars, NEW b \in Batches,
         Terminal(b), job'[b].status \notin {job[b].status, "none"}
  PROVE  /\ job'[b].status = "failed" /\ Req(b).writeManifest
         /\ report'[Req(b).output] \in Snapshots => report'[Req(b).output].batch # b
<1>1. /\ TypeOK /\ DiskInv /\ ReportInv /\ \A c \in Batches : Coherent(job[c], thread[c])
      /\ job[b] \in Jobs
  BY BatchType DEF BInv
<1>2. thread[b].at \in {"completed", "report", "reporting", "done"}
  <2>1. NoJob.status = "none"
    BY DEF NoJob
  <2>2. thread[b].at \in Places
    BY <1>1 DEF TypeOK
  <2> QED
    BY <1>1, <2>1, <2>2 DEF Terminal, TerminalBatchStatuses, Coherent, Begun, Underway, Working, Places
<1>3. ReportFails(b)
  <2>1. job' # job
    BY DEF Terminal
  <2>2. ~ ProcessEnds
    <3>1. NoJob.status = "none"
      BY DEF NoJob
    <3> QED
      BY <3>1 DEF ProcessEnds
  <2>3. PICK c \in Batches : Submit(c) \/ ThreadStep(c)
    BY <2>1, <2>2 DEF Next, Follow, PollLength, PollEntries, vars
  <2>4. c = b
    BY <2>3, LogGrows
  <2>5. ~ OpenReport(b) /\ ~ WriteReport(b)
    BY DEF OpenReport, WriteReport
  <2>6. ~ LogCompleted(b)
    <3>1. SUFFICES ASSUME LogCompleted(b) PROVE FALSE
      OBVIOUS
    <3>2. job'[b] = Logged(job[b])
      BY <1>1, <3>1 DEF LogCompleted, TypeOK
    <3> QED
      BY <1>1, <3>2, LoggedJob
  <2> QED
    BY <1>2, <2>3, <2>4, <2>5, <2>6 DEF ThreadStep, Submit, Start, Discover, Reject,
       OutputDirFails, ReadFile, OpenOutput, WriteOutput, FileSucceeds, FileFails, Complete, At
<1>4. /\ thread[b].at \in {"report", "reporting"} /\ report' = report
      /\ job'[b] = Failed(job[b])
  BY <1>1, <1>3 DEF ReportFails, TypeOK
<1>5. job'[b].status = "failed" /\ Req(b).writeManifest
  BY <1>1, <1>4, FailedJob DEF Coherent, Finished, Req
<1>6. Req(b) \in Requests
  BY <1>1, <1>4 DEF Coherent, Begun, Req
<1>7. Req(b).output \in OutputDirs
  BY <1>6 DEF OutputDirs
<1>8. ASSUME report[Req(b).output] \in Snapshots PROVE report[Req(b).output].batch # b
  BY <1>1, <1>4, <1>7, <1>8 DEF ReportInv, Told
<1> QED
  BY <1>4, <1>5, <1>8

(* OnlyTheReportRevokes: a terminal status changes only to failed, when the *)
(* report could not be written.                                             *)
THEOREM TerminalStands == ASSUME OutputsApart PROVE Spec => OnlyTheReportRevokes
<1>1. BInv /\ [Next]_vars =>
        [\A b \in Batches :
           Terminal(b) /\ job'[b].status \notin {job[b].status, "none"} =>
             /\ job'[b].status = "failed" /\ Req(b).writeManifest
             /\ report'[Req(b).output] \in Snapshots
                  => report'[Req(b).output].batch # b]_vars
  BY Revokes, BatchAssumption
<1> QED
  BY <1>1, BatchInvariant, PTL DEF Spec, OnlyTheReportRevokes
=============================================================================
