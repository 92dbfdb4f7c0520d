----------------------------- MODULE LocalJobs -----------------------------
(***************************************************************************)
(* Jobs of the local backend and the review decisions on them:             *)
(* LocalSynchronousWorkQueue with FileTranslationJobRepository or          *)
(* InMemoryTranslationJobRepository (jobs.py), record_review_decision      *)
(* (service.py) and ReviewRepository (review.py).                          *)
(*                                                                         *)
(* Every submission and every review is a request of its own, a thread of  *)
(* some process: the API server, or a command line call that opens the     *)
(* same directory.  A process has one lock for its job repository and its  *)
(* own review repository; the job files are shared.                        *)
(***************************************************************************)
EXTENDS Integers, Sequences, SequencesExt, FiniteSets

CONSTANTS
    Jobs,         \* one submission each
    Reviews,      \* one posted decision each
    Procs,        \* processes
    Home,         \* the process that serves a request
    Target,       \* the job of a review
    Certifies,    \* the submissions that ask for certified output and the
                  \* reviews whose decision is "certified"
    Durable,      \* whether EDC_TRANSLATION_JOB_STORE_DIR is set
    None,         \* no bundle, lock free
    MaxEnds       \* process ends and failed file operations per behaviour

Requests == Jobs \cup Reviews

ASSUME LocalAssumption ==
    /\ Jobs \cap Reviews = {}
    /\ Home \in [Requests -> Procs] /\ Target \in [Reviews -> Jobs]
    /\ Certifies \subseteq Requests /\ Durable \in BOOLEAN /\ MaxEnds \in Nat
    /\ ~ Durable => \A a \in Requests : Procs = {Home[a]}
    /\ None \notin Requests

VARIABLES
    store,       \* the job of every file or dictionary entry
    lock,        \* per process: the request that holds the repository's lock
    decisions,   \* per process: the review repository, review numbers to reviews
    request,     \* where each request is and what it holds
    ends         \* process ends and failed file operations so far

vars == <<store, lock, decisions, request, ends>>

TerminalJobStatuses == {"succeeded", "failed"}
Record(status, bundle) == [status |-> status, bundle |-> bundle]
NoJob == Record("none", None)
Torn == Record("torn", None)        \* a file opened for writing, not yet written
Mangled == Record("mangled", None)  \* a shorter text over a longer one

NoRequest == [at |-> "idle", next |-> "idle", new |-> NoJob, seen |-> None, id |-> 0]
JobOf(a) == IF a \in Jobs THEN a ELSE Target[a]

Init ==
    /\ store = [j \in Jobs |-> NoJob]
    /\ lock = [p \in Procs |-> None]
    /\ decisions = [p \in Procs |-> <<>>]
    /\ request = [a \in Requests |-> NoRequest]
    /\ ends = 0

At(a, place) == request[a].at = place
Free(a) == lock[Home[a]] = None
Readable(a) == store[JobOf(a)] \notin {Torn, Mangled}

-----------------------------------------------------------------------------
(* Repository writes: under the lock the job is read and changed, its file *)
(* is opened, which empties it, and written; in memory the attributes of   *)
(* the live object are set one after the other, the status first.          *)

BeginWrite(a, record, next) ==
    /\ Free(a)
    /\ lock' = [lock EXCEPT ![Home[a]] = a]
    /\ request' = [request EXCEPT ![a] = [@ EXCEPT !.at = "open", !.new = record, !.next = next]]
    /\ UNCHANGED <<store, decisions, ends>>

Open(a) ==
    /\ At(a, "open")
    /\ store' = [store EXCEPT ![JobOf(a)] = IF Durable THEN Torn
                                            ELSE [@ EXCEPT !.status = request[a].new.status]]
    /\ request' = [request EXCEPT ![a].at = "write"]
    /\ UNCHANGED <<lock, decisions, ends>>

\* The text goes to the start of the file.  Of a longer one that another
\* process wrote since the file was opened, the tail stays behind.
Stored(a) == {request[a].new} \cup
             IF Durable /\ store[JobOf(a)] # Torn THEN {Mangled} ELSE {}

WriteKeepingLock(a) ==
    /\ At(a, "write")
    /\ \E record \in Stored(a) : store' = [store EXCEPT ![JobOf(a)] = record]
    /\ request' = [request EXCEPT ![a] = [@ EXCEPT !.at = request[a].next, !.new = NoJob]]
    /\ UNCHANGED <<lock, decisions, ends>>

Write(a) ==
    /\ At(a, "write")
    /\ \E record \in Stored(a) : store' = [store EXCEPT ![JobOf(a)] = record]
    /\ request' = [request EXCEPT ![a] = [@ EXCEPT !.at = request[a].next, !.new = NoJob]]
    /\ lock' = [lock EXCEPT ![Home[a]] = None]
    /\ UNCHANGED <<decisions, ends>>

\* The file cannot be opened or written: the request is answered with an
\* error, and the file stays empty if it was opened.
FileFails(a) ==
    /\ Durable /\ request[a].at \in {"open", "write"}
    /\ ends < MaxEnds /\ ends' = ends + 1
    /\ request' = [request EXCEPT ![a] = [@ EXCEPT !.at = "error", !.new = NoJob]]
    /\ lock' = [lock EXCEPT ![Home[a]] = None]
    /\ UNCHANGED <<store, decisions>>

\* The file is half written, by another process or before one that ended or
\* failed, or two have written into each other's text:
\* json.loads raises and the request is answered with an error.
ReadFails(a) ==
    /\ Free(a) /\ ~ Readable(a)
    /\ request[a].at \in {"created", "running", "idle", "mark"}
    /\ request' = [request EXCEPT ![a].at = "error"]
    /\ UNCHANGED <<store, lock, decisions, ends>>

-----------------------------------------------------------------------------
(* LocalSynchronousWorkQueue.submit                                        *)

Create(j) ==
    /\ At(j, "idle") /\ store[j] = NoJob
    /\ BeginWrite(j, Record("queued", None), "created")

MarkRunning(j) ==
    /\ At(j, "created") /\ Readable(j)
    /\ BeginWrite(j, [store[j] EXCEPT !.status = "running"], "running")

NewBundle(j) == [decisions |-> <<>>, certified |-> j \in Certifies]

MarkSucceeded(j) ==
    /\ At(j, "running") /\ Readable(j)
    /\ BeginWrite(j, Record("succeeded", NewBundle(j)), "done")

MarkFailed(j) ==
    /\ At(j, "running") /\ Readable(j)
    /\ BeginWrite(j, [store[j] EXCEPT !.status = "failed"], "done")

-----------------------------------------------------------------------------
(* record_review_decision                                                  *)

\* repository.get: a copy from the file, or the live object.
GetJob(v) ==
    /\ At(v, "idle") /\ store[JobOf(v)] # NoJob /\ Free(v) /\ Readable(v)
    /\ request' = [request EXCEPT ![v] =
                     [@ EXCEPT !.at = "number", !.seen = store[JobOf(v)].bundle]]
    /\ UNCHANGED <<store, lock, decisions, ends>>

\* ReviewRepository.add takes the number before the lock,
NumberReview(v) ==
    /\ At(v, "number")
    /\ request' = [request EXCEPT ![v] =
                     [@ EXCEPT !.at = "add", !.id = Len(decisions[Home[v]]) + 1]]
    /\ UNCHANGED <<store, lock, decisions, ends>>

\* and enters the decision under it, over one that got the same number.
AddReview(v) ==
    /\ At(v, "add")
    /\ decisions' = [decisions EXCEPT ![Home[v]] =
                       [n \in DOMAIN @ \cup {request[v].id} |->
                          IF n = request[v].id THEN v ELSE @[n]]]
    /\ request' = [request EXCEPT ![v].at = "look"]
    /\ UNCHANGED <<store, lock, ends>>

Bundle(v) == IF Durable THEN request[v].seen ELSE store[JobOf(v)].bundle

LookAtBundleAlways(v) ==
    /\ At(v, "look")
    /\ request' = [request EXCEPT ![v] =
          [@ EXCEPT !.at = "mark", !.seen = IF Bundle(v) = None THEN NewBundle(JobOf(v)) ELSE Bundle(v)]]
    /\ UNCHANGED <<store, lock, decisions, ends>>

LookAtBundle(v) ==
    /\ At(v, "look")
    /\ request' = [request EXCEPT ![v] =
          [@ EXCEPT !.at = IF Bundle(v) = None THEN "done" ELSE "mark", !.seen = Bundle(v)]]
    /\ UNCHANGED <<store, lock, decisions, ends>>

ReviewedAlone(bundle, v) ==
    [decisions |-> <<v>>, certified |-> bundle.certified \/ v \in Certifies]
ReviewedLast(bundle, v) ==
    [decisions |-> Append(bundle.decisions, v), certified |-> v \in Certifies]
Reviewed(bundle, v) ==
    [decisions |-> Append(bundle.decisions, v),
     certified |-> bundle.certified \/ v \in Certifies]

MarkReviewed(v) ==
    /\ At(v, "mark") /\ Readable(v)
    /\ BeginWrite(v, Record("succeeded", Reviewed(request[v].seen, v)), "done")

-----------------------------------------------------------------------------
\* A process ends and is started again: its requests are gone, its review
\* repository is empty, and so is a job repository in memory.
ProcessEnds(p) ==
    /\ ends < MaxEnds /\ ends' = ends + 1
    /\ request' = [a \in Requests |->
                     IF Home[a] = p /\ request[a].at \notin {"idle", "done", "error"}
                     THEN [NoRequest EXCEPT !.at = "gone"] ELSE request[a]]
    /\ lock' = [lock EXCEPT ![p] = None]
    /\ decisions' = [decisions EXCEPT ![p] = <<>>]
    /\ store' = IF Durable THEN store ELSE [j \in Jobs |-> NoJob]

SubmitStep(j) == Create(j) \/ MarkRunning(j) \/ MarkSucceeded(j) \/ MarkFailed(j)
ReviewStep(v) == \/ GetJob(v) \/ NumberReview(v) \/ AddReview(v)
                 \/ LookAtBundle(v) \/ MarkReviewed(v)
WriteStep(a) == Open(a) \/ Write(a) \/ ReadFails(a)

Next ==
    \/ \E j \in Jobs : SubmitStep(j)
    \/ \E v \in Reviews : ReviewStep(v)
    \/ \E a \in Requests : WriteStep(a) \/ FileFails(a)
    \/ \E p \in Procs : ProcessEnds(p)

Spec == Init /\ [][Next]_vars

\* A request that was started is carried on; nothing makes anybody post a
\* request, ends a process or makes a file fail.
Continue(a) ==
    /\ ~ At(a, "idle")
    /\ (a \in Jobs /\ SubmitStep(a)) \/ (a \in Reviews /\ ReviewStep(a)) \/ WriteStep(a)

FairSpec == Spec /\ \A a \in Requests : WF_vars(Continue(a))

-----------------------------------------------------------------------------
Bundles == [decisions: Seq(Reviews), certified: BOOLEAN]

ASSUME NoneIsNoBundle == None \notin Bundles

Statuses == {"none", "queued", "running", "torn", "mangled"} \cup TerminalJobStatuses
Records == [status: Statuses, bundle: Bundles \cup {None}]
Places == {"idle", "created", "running", "number", "add", "look", "mark",
           "open", "write", "done", "error", "gone"}

\* Every variable has its type, and a job carries a bundle when it succeeded
\* and only then, but for a job in memory whose submission has set the status
\* and not yet the bundle.
TypeOK ==
    /\ store \in [Jobs -> Records]
    /\ \A j \in Jobs :
         /\ store[j].bundle # None => store[j].status = "succeeded"
         /\ store[j].status = "succeeded" /\ store[j].bundle = None => ~ Durable /\ At(j, "write")
    /\ lock \in [Procs -> Requests \cup {None}]
    /\ decisions \in [Procs -> Seq(Reviews)]
    /\ request \in [Requests -> [at: Places, next: Places, new: Records,
                                seen: Bundles \cup {None}, id: Nat]]
    /\ ends \in 0 .. MaxEnds

Kept(v) == v \in ToSet(store[Target[v]].bundle.decisions)
\* v was answered with success, and had found a bundle to attach itself to.
Attached(v) == At(v, "done") /\ request[v].seen # None
Saw(v, w) == w \in ToSet(request[v].seen.decisions)

\* The certified flag and the list of decisions of a bundle never disagree,
\* whichever write-back of concurrent reviews comes last.
CertificationBacked ==
    \A j \in Jobs : store[j].bundle # None =>
      (store[j].bundle.certified
         <=> \E a \in ToSet(store[j].bundle.decisions) \cup {j} : a \in Certifies)

\* A decision that was attached to a bundle stays there, unless another one
\* was attached at the same time: neither had read the other's.
OnlyConcurrentReviewsAreLost ==
    \A v \in Reviews : Attached(v) /\ store[Target[v]].status = "succeeded" =>
      \/ Kept(v)
      \/ \E w \in Reviews \ {v} : /\ Target[w] = Target[v] /\ request[w].seen # None
                                  /\ ~ Saw(v, w) /\ ~ Saw(w, v)

\* The outcome of a job in the store, or in the hands of the request that is
\* rewriting it.
Outcomes(j) ==
    TerminalJobStatuses \cap
      ({store[j].status} \cup {request[a].new.status : a \in {b \in Requests : JobOf(b) = j}})

\* A job settles once: it is never both, and no review turns a failed job into
\* a succeeded one; a terminal status only goes with the process that kept it,
\* or with a file that is being rewritten or was rewritten by two.
SettledOnce ==
    [][\A j \in Jobs :
         /\ ~ TerminalJobStatuses \subseteq Outcomes(j)
         /\ store[j].status \in TerminalJobStatuses /\ store'[j] # NoJob =>
               store'[j].status \in {store[j].status, "torn", "mangled"}]_vars

\* A half-written file is only met while another process writes it, or after
\* a request of the same job has ended in the middle.
TornWhileWriting ==
    \A j \in Jobs : store[j] = Torn =>
      \E a \in Requests :
        /\ JobOf(a) = j
        /\ \/ At(a, "write") /\ lock[Home[a]] = a
           \/ request[a].at \in {"gone", "error"} /\ ends > 0

\* A file with two texts in it comes of two reviews of the job, served by
\* different processes, both answered with success, neither of which had read
\* the other's decision.
MangledByTwo ==
    \A j \in Jobs : store[j] = Mangled =>
      \E v, w \in Reviews :
        /\ Target[v] = j /\ Target[w] = j /\ Home[v] # Home[w]
        /\ Attached(v) /\ Attached(w) /\ ~ Saw(v, w) /\ ~ Saw(w, v)

\* What a reader finds in the store, whoever writes to it, whichever process
\* ended and whichever file failed: whole files but for those, bundles that go
\* with the status, and certification that goes with the decisions.
StoreIsSound == TypeOK /\ CertificationBacked /\ TornWhileWriting /\ MangledByTwo

\* Every submission ends with a terminal job, unless its process ends or its
\* file cannot be read or written.
EverySubmissionEnds ==
    \A j \in Jobs : (store[j].status = "queued") ~>
        (store[j].status \in TerminalJobStatuses \/ At(j, "gone") \/ At(j, "error"))
=============================================================================
