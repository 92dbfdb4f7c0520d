-------------------------- MODULE LocalJobsProofs --------------------------
(***************************************************************************)
(* Proofs about LocalJobs, for any sets of jobs, reviews and processes,    *)
(* any assignment of requests to processes and any number of processes     *)
(* that end: what the store holds is sound, a job settles once, and a      *)
(* review is lost only to a concurrent one.                                *)
(***************************************************************************)
EXTENDS LocalJobs, SequenceTheorems, TLAPS

Writing(a) == request[a].at \in {"open", "write"}

(* The lock of a process belongs to the request that writes. *)
Locked == \A a \in Requests : Writing(a) => lock[Home[a]] = a

(* The parts of the state have their types. *)
Typed ==
  /\ store \in [Jobs -> Records]
  /\ lock \in [Procs -> Requests \cup {None}]
  /\ decisions \in [Procs -> Seq(Reviews)]
  /\ request \in [Requests -> [at: Places, next: Places, new: Records,
                              seen: Bundles \cup {None}, id: Nat]]
  /\ ends \in 0 .. MaxEnds

Sound(record, j) ==
  /\ (record.bundle # None) <=> (record.status = "succeeded")
  /\ record.bundle # None =>
       (record.bundle.certified
          <=> \E a \in ToSet(record.bundle.decisions) \cup {j} : a \in Certifies)

(* In memory, the submission has set the status and not yet the bundle. *)
Halfway(j) == ~ Durable /\ At(j, "write") /\ store[j].status = request[j].new.status

(* A request has a record in its hands only while it writes, ... *)
HandsOf(a) ==
  /\ ~ Writing(a) => request[a].new = NoJob
  /\ Sound(request[a].new, JobOf(a))
  /\ request[a].new.status \notin {"torn", "mangled"}
  /\ Writing(a) => request[a].next \in {"created", "running", "done"}

(* ... a submission no bundle before its last write, ... *)
SubmissionOf(j) ==
  /\ request[j].seen = None
  /\ request[j].at \notin {"number", "add", "look", "mark"}
  /\ Writing(j) => request[j].new.bundle \in {None, NewBundle(j)}
  /\ Writing(j) /\ request[j].next # "done" =>
       request[j].new.bundle = None /\ request[j].new.status # "failed"

(* ... and a review the bundle it has seen, with itself added. *)
ReviewOf(v) ==
  /\ request[v].at \notin {"created", "running"}
  /\ request[v].seen # None => Sound(Record("succeeded", request[v].seen), Target[v])
  /\ At(v, "mark") => request[v].seen # None
  /\ Writing(v) => /\ request[v].seen # None /\ request[v].next = "done"
                   /\ request[v].new = Record("succeeded", Reviewed(request[v].seen, v))

InHands ==
  /\ \A j \in Jobs : /\ Sound(store[j], j) \/ (store[j].bundle = None /\ Halfway(j))
                     /\ SubmissionOf(j)
  /\ \A a \in Requests : HandsOf(a)
  /\ \A v \in Reviews : ReviewOf(v)

(* Review numbers are those of the decisions or the next one. *)
Numbered == \A v \in Reviews :
              At(v, "add") => request[v].id \in 1 .. Len(decisions[Home[v]]) + 1

(* Until its submission has settled, a job has no bundle and no review.     *)
Unsettled(j) == \/ request[j].at \in {"idle", "created", "running"}
                \/ Writing(j)
SettlesFirst ==
  \A j \in Jobs :
    /\ Unsettled(j) \/ store[j].status = "failed" =>
         /\ store[j].bundle = None
         /\ \A v \in Reviews : Target[v] = j => request[v].seen = None
    /\ Unsettled(j) => store[j].status # "failed" \/ Halfway(j)

(* A review is in no bundle before it has been written. *)
NotYetKept ==
  \A w \in Reviews : ~ At(w, "done") =>
    /\ \A j \in Jobs : store[j].bundle # None => w \notin ToSet(store[j].bundle.decisions)
    /\ \A v \in Reviews :
         request[v].seen # None => w \notin ToSet(request[v].seen.decisions)

(* A bundle in memory stays while a review that has seen one goes on. *)
MemoryKept ==
  ~ Durable => \A v \in Reviews :
    request[v].seen # None /\ request[v].at \notin {"idle", "done", "error"} =>
      store[Target[v]].bundle # None

LInv == TypeOK /\ Locked /\ InHands /\ Numbered /\ SettlesFirst /\ NotYetKept /\ MemoryKept

(* A decision that is lost was overwritten by one that has been answered.   *)
LostToAnswered ==
  \A v \in Reviews : Attached(v) /\ store[Target[v]].status = "succeeded" =>
    \/ Kept(v)
    \/ \E w \in Reviews \ {v} : /\ Target[w] = Target[v] /\ request[w].seen # None
                                /\ At(w, "done") /\ ~ Saw(v, w) /\ ~ Saw(w, v)

-----------------------------------------------------------------------------
(* Nobody has written anything at the start. *)
LEMMA InitLInv == Init => LInv /\ LostToAnswered
<1> SUFFICES ASSUME Init PROVE LInv /\ LostToAnswered
  OBVIOUS
<1> USE LocalAssumption DEF Init, NoRequest, NoJob, Record, Requests
<1>1. TypeOK
  BY DEF TypeOK, Records, Statuses, Places, Bundles, TerminalJobStatuses
<1>2. Locked /\ InHands /\ Numbered /\ SettlesFirst /\ NotYetKept /\ MemoryKept
  BY DEF Locked, InHands, HandsOf, SubmissionOf, ReviewOf, Numbered, SettlesFirst, NotYetKept,
         MemoryKept, Writing, Sound, Unsettled, At
<1>3. LostToAnswered
  BY DEF LostToAnswered, Attached, At
<1> QED
  BY <1>1, <1>2, <1>3 DEF LInv

(* A function on the first n numbers is a sequence. *)
LEMMA FunctionIsSequence ==
  ASSUME NEW S, NEW n \in Nat, NEW f \in [1 .. n -> S]
  PROVE  f \in Seq(S)
<1>1. Seq(S) = UNION {[1 .. m -> S] : m \in Nat}
  BY SeqDef
<1> QED
  BY <1>1, Zenon

(* One number more. *)
LEMMA NextNumber == ASSUME NEW n \in Nat PROVE (1 .. n) \cup {n + 1} = 1 .. (n + 1)
OBVIOUS

(* An appended element joins the elements. *)
LEMMA AppendedSet ==
  ASSUME NEW S, NEW s \in Seq(S), NEW e \in S
  PROVE  ToSet(Append(s, e)) = ToSet(s) \cup {e}
<1>1. /\ Append(s, e) \in Seq(S) /\ Len(Append(s, e)) = Len(s) + 1
      /\ \A i \in 1 .. Len(s) : Append(s, e)[i] = s[i]
      /\ Append(s, e)[Len(s) + 1] = e
  OBVIOUS
<1>2. Len(s) \in Nat /\ DOMAIN s = 1 .. Len(s) /\ DOMAIN Append(s, e) = 1 .. Len(s) + 1
  BY <1>1
<1> QED
  BY <1>1, <1>2 DEF ToSet

(* The job of a request is a job. *)
LEMMA JobOfRequest == ASSUME NEW a \in Requests PROVE JobOf(a) \in Jobs /\ Home[a] \in Procs
BY LocalAssumption DEF Requests, JobOf

-----------------------------------------------------------------------------
(* Types. *)
RequestRecords == [at: Places, next: Places, new: Records, seen: Bundles \cup {None}, id: Nat]

(* A request moves on, and what it holds changes. *)
LEMMA RequestType ==
  ASSUME request \in [Requests -> RequestRecords], NEW a \in Requests,
         NEW at \in Places, NEW new \in Records, NEW seen \in Bundles \cup {None}, NEW id \in Nat
  PROVE  /\ [request EXCEPT ![a].at = at] \in [Requests -> RequestRecords]
         /\ [request EXCEPT ![a] = [@ EXCEPT !.at = at, !.new = new]]
              \in [Requests -> RequestRecords]
         /\ [request EXCEPT ![a] = [@ EXCEPT !.at = at, !.seen = seen]]
              \in [Requests -> RequestRecords]
         /\ [request EXCEPT ![a] = [@ EXCEPT !.at = at, !.id = id]]
              \in [Requests -> RequestRecords]
BY DEF RequestRecords

(* A request that begins to write has its place, lock and record.          *)
LEMMA BeginWriteType ==
  ASSUME Typed, NEW a \in Requests, NEW record \in Records, NEW next \in Places,
         BeginWrite(a, record, next)
  PROVE  Typed'
<1> DEFINE begun == [request[a] EXCEPT !.at = "open", !.new = record, !.next = next]
<1>1. request \in [Requests -> RequestRecords]
  BY DEF Typed, RequestRecords
<1>2. begun \in RequestRecords
  BY <1>1 DEF RequestRecords, Places
<1>3. request' = [request EXCEPT ![a] = begun]
  BY DEF BeginWrite
<1> HIDE DEF begun
<1>4. request' \in [Requests -> RequestRecords]
  BY <1>1, <1>2, <1>3
<1>5. lock' \in [Procs -> Requests \cup {None}]
  BY DEF Typed, BeginWrite
<1> QED
  BY <1>4, <1>5 DEF Typed, BeginWrite, RequestRecords

(* Every action keeps the types; the review numbers make AddReview do so.   *)
LEMMA TypeStep == LInv /\ [Next]_vars => Typed'
<1> SUFFICES ASSUME LInv, [Next]_vars PROVE Typed'
  OBVIOUS
<1> USE LocalAssumption, JobOfRequest DEF LInv, TypeOK, Typed, Requests
<1>p. {"idle", "created", "running", "number", "add", "look", "mark",
       "open", "write", "done", "error", "gone"} \subseteq Places
  BY DEF Places
<1>n. NoJob \in Records /\ Torn \in Records /\ Mangled \in Records
  BY DEF NoJob, Torn, Mangled, Record, Records, Statuses
<1>r. request \in [Requests -> RequestRecords]
  BY DEF RequestRecords
<1>1. CASE UNCHANGED vars
  BY <1>1 DEF vars
<1>2. ASSUME NEW j \in Jobs, SubmitStep(j) PROVE Typed'
  <2>1. Record("queued", None) \in Records /\ Record("succeeded", NewBundle(j)) \in Records
    BY DEF Record, Records, Statuses, TerminalJobStatuses, Bundles, NewBundle
  <2>2. \A s \in {"running", "failed"} : [store[j] EXCEPT !.status = s] \in Records
    <3>1. store[j] \in Records
      OBVIOUS
    <3> HIDE DEF LInv, TypeOK, Typed
    <3> QED
      BY <3>1 DEF Records, Statuses, TerminalJobStatuses
  <2> QED
    BY <1>2, <1>p, <2>1, <2>2, BeginWriteType
       DEF SubmitStep, Create, MarkRunning, MarkSucceeded, MarkFailed
<1>3. ASSUME NEW v \in Reviews, ReviewStep(v) PROVE Typed'
  <2>1. CASE GetJob(v)
    <3>1. store[JobOf(v)].bundle \in Bundles \cup {None}
      BY DEF Records
    <3>2. request' \in [Requests -> RequestRecords]
      BY <1>p, <1>r, <2>1, <3>1, RequestType DEF GetJob
    <3> QED
      BY <2>1, <3>2 DEF GetJob, RequestRecords
  <2>2. CASE NumberReview(v)
    <3>1. Len(decisions[Home[v]]) + 1 \in Nat
      BY LenProperties
    <3>2. request' \in [Requests -> RequestRecords]
      BY <1>p, <1>r, <2>2, <3>1, RequestType DEF NumberReview
    <3> QED
      BY <2>2, <3>2 DEF NumberReview, RequestRecords
  <2>3. CASE AddReview(v)
    <3> DEFINE d == decisions[Home[v]]
               n == request[v].id
               e == [m \in DOMAIN d \cup {n} |-> IF m = n THEN v ELSE d[m]]
    <3>1. n \in 1 .. Len(d) + 1 /\ d \in Seq(Reviews)
      BY <2>3 DEF AddReview, Numbered
    <3>2. e \in Seq(Reviews)
      <4>1. Len(d) \in Nat /\ d \in [1 .. Len(d) -> Reviews] /\ DOMAIN d = 1 .. Len(d)
        BY <3>1, LenProperties
      <4>2. CASE n = Len(d) + 1
        <5>1. DOMAIN d \cup {n} = 1 .. Len(d) + 1
          <6> HIDE DEF d, n
          <6> QED
            BY <4>1, <4>2, NextNumber
        <5>2. e \in [1 .. Len(d) + 1 -> Reviews]
          BY <4>1, <5>1
        <5>3. Len(d) + 1 \in Nat
          BY <4>1
        <5> HIDE DEF e
        <5> QED
          BY <5>2, <5>3, FunctionIsSequence
      <4>3. CASE n # Len(d) + 1
        <5>1. DOMAIN d \cup {n} = 1 .. Len(d)
          BY <3>1, <4>1, <4>3
        <5>2. e \in [1 .. Len(d) -> Reviews]
          BY <4>1, <5>1
        <5> QED
          BY <4>1, <5>2, FunctionIsSequence
      <4> QED
        BY <4>2, <4>3
    <3>3. request' \in [Requests -> RequestRecords]
      BY <1>p, <1>r, <2>3, RequestType DEF AddReview
    <3>4. decisions' = [decisions EXCEPT ![Home[v]] = e]
      BY <2>3 DEF AddReview
    <3> HIDE DEF e
    <3>5. decisions' \in [Procs -> Seq(Reviews)]
      BY <3>2, <3>4
    <3>6. UNCHANGED <<store, lock, ends>>
      BY <2>3 DEF AddReview
    <3> QED
      BY <3>3, <3>5, <3>6 DEF RequestRecords
  <2>4. CASE LookAtBundle(v)
    <3>1. Bundle(v) \in Bundles \cup {None}
      BY DEF Bundle, Records
    <3>2. request' \in [Requests -> RequestRecords]
      BY <1>p, <1>r, <2>4, <3>1, RequestType DEF LookAtBundle
    <3> QED
      BY <2>4, <3>2 DEF LookAtBundle, RequestRecords
  <2>5. CASE MarkReviewed(v)
    <3>1. request[v].seen \in Bundles
      BY <2>5 DEF MarkReviewed, InHands, ReviewOf
    <3>2. Reviewed(request[v].seen, v) \in Bundles
      BY <3>1 DEF Reviewed, Bundles
    <3>3. Record("succeeded", Reviewed(request[v].seen, v)) \in Records
      BY <3>2 DEF Record, Records, Statuses, TerminalJobStatuses
    <3> QED
      BY <1>p, <2>5, <3>3, BeginWriteType DEF MarkReviewed
  <2> QED
    BY <1>3, <2>1, <2>2, <2>3, <2>4, <2>5 DEF ReviewStep
<1>4. ASSUME NEW a \in Requests, WriteStep(a) PROVE Typed'
  <2>1. CASE Open(a)
    <3>1. request' \in [Requests -> RequestRecords]
      BY <1>p, <1>r, <2>1, RequestType DEF Open
    <3>2. \A record \in Records : \A s \in Statuses : [record EXCEPT !.status = s] \in Records
      BY DEF Records
    <3>3. request[a].new.status \in Statuses /\ JobOf(a) \in Jobs
      BY DEF Records
    <3>4. store' \in [Jobs -> Records]
      BY <1>n, <2>1, <3>2, <3>3 DEF Open
    <3> QED
      BY <2>1, <3>1, <3>4 DEF Open, RequestRecords
  <2>2. CASE Write(a)
    <3>1. request[a].next \in Places /\ request[a].new \in Records
      OBVIOUS
    <3>2. request' \in [Requests -> RequestRecords]
      BY <1>n, <1>r, <2>2, <3>1, RequestType DEF Write
    <3>3. store' \in [Jobs -> Records]
      BY <1>n, <2>2, <3>1 DEF Write, Stored
    <3>4. lock' \in [Procs -> Requests \cup {None}]
      BY <2>2 DEF Write
    <3> QED
      BY <2>2, <3>2, <3>3, <3>4 DEF Write, RequestRecords
  <2>3. CASE ReadFails(a)
    <3>1. request' \in [Requests -> RequestRecords]
      BY <1>p, <1>r, <2>3, RequestType DEF ReadFails
    <3> QED
      BY <2>3, <3>1 DEF ReadFails, RequestRecords
  <2> QED
    BY <1>4, <2>1, <2>2, <2>3 DEF WriteStep
<1>5. ASSUME NEW p \in Procs, ProcessEnds(p) PROVE Typed'
  <2>1. [NoRequest EXCEPT !.at = "gone"] \in RequestRecords
    BY <1>n, <1>p DEF NoRequest, RequestRecords
  <2>2. request' \in [Requests -> RequestRecords]
    BY <1>5, <1>r, <2>1 DEF ProcessEnds
  <2>3. store' \in [Jobs -> Records]
    BY <1>5, <1>n DEF ProcessEnds
  <2>4. <<>> \in Seq(Reviews) /\ ends' \in 0 .. MaxEnds
    BY <1>5, EmptySeq DEF ProcessEnds
  <2> QED
    BY <1>5, <2>2, <2>3, <2>4 DEF ProcessEnds, RequestRecords
<1>6. ASSUME NEW a \in Requests, FileFails(a) PROVE Typed'
  <2>1. request' \in [Requests -> RequestRecords]
    BY <1>6, <1>n, <1>p, <1>r, RequestType DEF FileFails
  <2>2. lock' \in [Procs -> Requests \cup {None}] /\ ends' \in 0 .. MaxEnds
    BY <1>6 DEF FileFails
  <2> QED
    BY <1>6, <2>1, <2>2 DEF FileFails, RequestRecords
<1> QED
  BY <1>1, <1>2, <1>3, <1>4, <1>5, <1>6 DEF Next

-----------------------------------------------------------------------------
(* The other parts of the invariant.                                        *)
Rest == Locked /\ InHands /\ Numbered /\ SettlesFirst /\ NotYetKept

(* A request moves on without writing: only its place and what it has seen  *)
(* of its job change.                                                       *)
LEMMA QuietStep ==
  ASSUME LInv, NEW a \in Requests, UNCHANGED <<store, lock>>,
         \A b \in Requests \ {a} : request'[b] = request[b],
         ~ Writing(a), ~ Writing(a)', ~ At(a, "done"),
         request'[a].at \notin {"idle", "created", "running"},
         request'[a].new = request[a].new,
         a \in Jobs => request'[a].at = "error" /\ request'[a].seen = request[a].seen,
         request'[a].seen \in {request[a].seen, store[JobOf(a)].bundle},
         request'[a].at = "mark" => request'[a].seen # None
  PROVE  Locked' /\ InHands' /\ SettlesFirst' /\ NotYetKept'
<1> USE LocalAssumption, JobOfRequest DEF LInv, Requests, Writing, At
<1>1. Locked'
  BY DEF Locked
<1>2. InHands'
  <2>1. ASSUME NEW j \in Jobs
        PROVE  (Sound(store[j], j) \/ (store[j].bundle = None /\ Halfway(j)))'
    <3>1. Halfway(j) => Halfway(j)'
      BY DEF Halfway
    <3> QED
      BY <3>1 DEF InHands, Sound
  <2> QED
    BY <2>1 DEF InHands, HandsOf, SubmissionOf, ReviewOf, Sound, Record, JobOf
<1>3. SettlesFirst'
  <2>1. \A j \in Jobs : Halfway(j) => Halfway(j)'
    BY DEF Halfway
  <2> QED
    BY <2>1 DEF SettlesFirst, Unsettled, JobOf
<1>4. NotYetKept'
  BY DEF NotYetKept, JobOf
<1> QED
  BY <1>1, <1>2, <1>3, <1>4

(* A request takes the lock and the record it will write in its hands. *)
LEMMA BeginStep ==
  ASSUME LInv, NEW a \in Requests, NEW record, NEW next, BeginWrite(a, record, next),
         Sound(record, JobOf(a)), record.status \notin {"torn", "mangled"},
         next \in {"created", "running", "done"},
         a \in Jobs => /\ request[a].at \in {"idle", "created", "running"}
                       /\ record.bundle \in {None, NewBundle(a)}
                       /\ next # "done" => record.bundle = None /\ record.status # "failed",
         a \in Reviews => /\ At(a, "mark") /\ next = "done"
                          /\ record = Record("succeeded", Reviewed(request[a].seen, a))
  PROVE  Rest'
<1> USE LocalAssumption, JobOfRequest DEF LInv, Requests
<1>1. /\ request'[a].at = "open" /\ request'[a].new = record /\ request'[a].next = next
      /\ request'[a].seen = request[a].seen
      /\ \A b \in Requests \ {a} : request'[b] = request[b]
      /\ UNCHANGED <<store, decisions>>
      /\ lock[Home[a]] = None /\ lock' = [lock EXCEPT ![Home[a]] = a]
  BY DEF BeginWrite, Free, TypeOK
<1>h. \A j \in Jobs : Halfway(j) => Halfway(j)'
  BY <1>1 DEF Halfway, At
<1>2. Locked'
  <2>1. \A b \in Requests \ {a} : Writing(b) => Home[b] # Home[a]
    BY <1>1 DEF Locked
  <2>2. lock \in [Procs -> Requests \cup {None}]
    BY DEF TypeOK
  <2>3. \A b \in Requests \ {a} : Writing(b)' <=> Writing(b)
    BY <1>1 DEF Writing
  <2> QED
    BY <1>1, <2>1, <2>2, <2>3 DEF Locked
<1>3. InHands'
  <2> USE DEF InHands, HandsOf, SubmissionOf, ReviewOf, Writing, At
  <2>1. \A j \in Jobs : (Sound(store[j], j) \/ (store[j].bundle = None /\ Halfway(j)))'
    BY <1>1, <1>h DEF Sound
  <2>2. Sound(request[a].new, JobOf(a))'
    BY <1>1 DEF Sound, JobOf
  <2>3. ASSUME NEW b \in Requests
        PROVE  HandsOf(b)'
    <3>1. CASE b = a
      BY <1>1, <2>2, <3>1
    <3>2. CASE b # a
      BY <1>1, <3>2 DEF Sound, JobOf
    <3> QED
      BY <3>1, <3>2
  <2>4. ASSUME NEW j \in Jobs
        PROVE  SubmissionOf(j)'
    <3>1. CASE j = a
      BY <1>1, <3>1
    <3>2. CASE j # a
      <4>1. request'[j] = request[j]
        BY <1>1, <3>2
      <4> QED
        BY <4>1
    <3> QED
      BY <3>1, <3>2
  <2>5. ASSUME NEW v \in Reviews
        PROVE  ReviewOf(v)'
    BY <1>1 DEF Sound, Record
  <2> QED
    BY <2>1, <2>3, <2>4, <2>5 DEF NewBundle
<1>4. Numbered'
  BY <1>1 DEF Numbered, At
<1>5. SettlesFirst'
  <2>1. ASSUME NEW j \in Jobs, Unsettled(j)' PROVE Unsettled(j)
    <3>1. CASE j = a
      BY <3>1 DEF Unsettled
    <3>2. CASE j # a
      <4>1. request'[j] = request[j]
        BY <1>1, <3>2
      <4> QED
        BY <2>1, <4>1 DEF Unsettled, Writing
    <3> QED
      BY <3>1, <3>2
  <2> QED
    BY <1>1, <1>h, <2>1 DEF SettlesFirst
<1>6. NotYetKept'
  BY <1>1 DEF NotYetKept, At
<1> QED
  BY <1>2, <1>3, <1>4, <1>5, <1>6 DEF Rest

(* The record in the hands of a request replaces the one in the store. *)
LEMMA WriteEffect ==
  ASSUME LInv, NEW a \in Requests, Write(a)
  PROVE  Rest'
<1> USE LocalAssumption, JobOfRequest DEF LInv, Requests
<1>1. /\ Writing(a) /\ request'[a].at = request[a].next /\ request'[a].new = NoJob
      /\ request'[a].at \in {"created", "running", "done"}
      /\ request'[a].seen = request[a].seen
      /\ \A b \in Requests \ {a} : request'[b] = request[b]
      /\ store'[JobOf(a)] \in {request[a].new, Mangled}
      /\ \A j \in Jobs \ {JobOf(a)} : store'[j] = store[j]
      /\ UNCHANGED decisions
      /\ lock[Home[a]] = a /\ lock' = [lock EXCEPT ![Home[a]] = None]
  BY DEF Write, Stored, Writing, At, TypeOK, InHands, HandsOf, Locked
<1>m. Mangled.bundle = None /\ Mangled.status = "mangled"
  BY DEF Mangled, Record
<1>h. \A j \in Jobs \ {JobOf(a)} : Halfway(j) => Halfway(j)'
  BY <1>1 DEF Halfway, At, JobOf
<1>2. Locked'
  <2>1. \A b \in Requests \ {a} : Writing(b) => Home[b] # Home[a]
    BY <1>1 DEF Locked
  <2>2. lock \in [Procs -> Requests \cup {None}]
    BY DEF TypeOK
  <2>3. ~ Writing(a)' /\ \A b \in Requests \ {a} : Writing(b)' <=> Writing(b)
    BY <1>1 DEF Writing
  <2> QED
    BY <1>1, <2>1, <2>2, <2>3 DEF Locked
<1>3. InHands'
  <2> USE DEF InHands, HandsOf, SubmissionOf, ReviewOf, Writing, At
  <2>1. \A j \in Jobs : (Sound(store[j], j) \/ (store[j].bundle = None /\ Halfway(j)))'
    BY <1>1, <1>m, <1>h DEF Sound
  <2>2. ASSUME NEW b \in Requests
        PROVE  HandsOf(b)'
    <3>1. CASE b = a
      BY <1>1, <3>1 DEF NoJob, Record, Sound
    <3>2. CASE b # a
      BY <1>1, <3>2 DEF Sound, JobOf
    <3> QED
      BY <3>1, <3>2
  <2>3. ASSUME NEW j \in Jobs
        PROVE  SubmissionOf(j)'
    <3>1. CASE j = a
      BY <1>1, <3>1
    <3>2. CASE j # a
      <4>1. request'[j] = request[j]
        BY <1>1, <3>2
      <4> QED
        BY <4>1
    <3> QED
      BY <3>1, <3>2
  <2>4. ASSUME NEW v \in Reviews
        PROVE  ReviewOf(v)'
    BY <1>1 DEF Sound, Record
  <2> QED
    BY <2>1, <2>2, <2>3, <2>4 DEF NewBundle
<1>4. Numbered'
  BY <1>1 DEF Numbered, At
<1>5. SettlesFirst'
  <2>1. ASSUME NEW j \in Jobs, Unsettled(j)' PROVE Unsettled(j)
    BY <1>1, <2>1 DEF Unsettled, Writing
  <2>2. \A v \in Reviews : request'[v].seen = request[v].seen
    BY <1>1
  <2>3. ASSUME NEW j \in Jobs, j # JobOf(a)
        PROVE  store'[j] = store[j]
    BY <1>1, <2>3
  <2>4. CASE a \in Jobs
    <3>1. /\ Unsettled(a) /\ JobOf(a) = a
          /\ Unsettled(a)' => request[a].new.bundle = None /\ request[a].new.status # "failed"
          /\ request[a].new.status = "failed" => request[a].new.bundle = None
      BY <1>1, <2>4 DEF Unsettled, InHands, HandsOf, SubmissionOf, JobOf, Writing, Sound
    <3> QED
      BY <1>1, <1>m, <1>h, <2>1, <2>2, <2>3, <3>1 DEF SettlesFirst
  <2>5. CASE a \in Reviews
    <3>1. /\ JobOf(a) = Target[a] /\ request[a].seen # None
          /\ request[a].new.status = "succeeded"
      <4>1. a \notin Jobs /\ a \in Reviews
        BY <2>5
      <4>2. /\ request[a].seen # None
            /\ request[a].new = Record("succeeded", Reviewed(request[a].seen, a))
        BY <1>1, <4>1 DEF InHands, HandsOf, SubmissionOf, ReviewOf
      <4> QED
        BY <4>1, <4>2 DEF JobOf, Record
    <3>2. ~ Unsettled(Target[a])
      BY <2>5, <3>1 DEF SettlesFirst
    <3> QED
      BY <1>1, <1>m, <1>h, <2>1, <2>2, <2>3, <3>1, <3>2 DEF SettlesFirst
  <2> QED
    BY <2>4, <2>5
<1>6. NotYetKept'
  <2> SUFFICES ASSUME NEW w \in Reviews, ~ At(w, "done")'
               PROVE  /\ \A j \in Jobs : store'[j].bundle # None =>
                                         w \notin ToSet(store'[j].bundle.decisions)
                      /\ \A v \in Reviews : request'[v].seen # None =>
                                            w \notin ToSet(request'[v].seen.decisions)
    BY DEF NotYetKept
  <2>1. ~ At(w, "done")
    BY <1>1 DEF At, Writing
  <2>2. \A v \in Reviews : request'[v].seen = request[v].seen
    BY <1>1
  <2>3. request[a].new.bundle # None => w \notin ToSet(request[a].new.bundle.decisions)
    <3>1. CASE a \in Jobs
      <4>1. request[a].new.bundle \in {None, NewBundle(a)}
        BY <1>1, <3>1 DEF InHands, HandsOf, SubmissionOf, ReviewOf
      <4>2. ToSet(NewBundle(a).decisions) = {}
        BY DEF NewBundle, ToSet
      <4> QED
        BY <4>1, <4>2
    <3>2. CASE a \in Reviews
      <4>1. /\ request[a].seen # None /\ request[a].next = "done"
            /\ request[a].new.bundle = Reviewed(request[a].seen, a)
        <5>1. /\ request[a].seen # None /\ request[a].next = "done"
              /\ request[a].new = Record("succeeded", Reviewed(request[a].seen, a))
          BY <1>1, <3>2 DEF InHands, HandsOf, SubmissionOf, ReviewOf
        <5> QED
          BY <5>1 DEF Record
      <4>2. a # w
        BY <1>1, <2>1, <4>1 DEF At
      <4>3. request[a].seen.decisions \in Seq(Reviews)
        BY <4>1 DEF TypeOK, Bundles
      <4>4. ToSet(Append(request[a].seen.decisions, a))
              = ToSet(request[a].seen.decisions) \cup {a}
        BY <3>2, <4>3, AppendedSet
      <4> QED
        BY <2>1, <3>2, <4>1, <4>2, <4>4 DEF NotYetKept, Reviewed
    <3> QED
      BY <3>1, <3>2
  <2> QED
    BY <1>1, <1>m, <2>1, <2>2, <2>3 DEF NotYetKept
<1> QED
  BY <1>2, <1>3, <1>4, <1>5, <1>6 DEF Rest

(* A file is emptied before it is written, and in memory the status comes   *)
(* before the bundle.                                                       *)
LEMMA OpenEffect ==
  ASSUME LInv, NEW a \in Requests, Open(a)
  PROVE  Rest'
<1> USE LocalAssumption, JobOfRequest DEF LInv, Requests
<1>1. /\ At(a, "open") /\ request'[a].at = "write" /\ request'[a].new = request[a].new
      /\ request'[a].next = request[a].next /\ request'[a].seen = request[a].seen
      /\ \A b \in Requests \ {a} : request'[b] = request[b]
      /\ UNCHANGED <<lock, decisions>>
  BY DEF Open, At, TypeOK
<1>2. /\ \A j \in Jobs \ {JobOf(a)} : store'[j] = store[j]
      /\ \/ store'[JobOf(a)] = Torn
         \/ /\ ~ Durable /\ store'[JobOf(a)].bundle = store[JobOf(a)].bundle
            /\ store'[JobOf(a)].status = request[a].new.status
  BY DEF Open, TypeOK, Records
<1>3. \A b \in Requests :
        /\ Writing(b)' <=> Writing(b)
        /\ request'[b].new = request[b].new /\ request'[b].next = request[b].next
        /\ request'[b].seen = request[b].seen
        /\ b # a => request'[b].at = request[b].at
  BY <1>1 DEF Writing, At
<1>4. Torn.bundle = None /\ Torn.status = "torn"
  BY DEF Torn, Record
<1>h. /\ \A j \in Jobs \ {JobOf(a)} : Halfway(j) => Halfway(j)'
      /\ a \in Jobs => JobOf(a) = a /\ Unsettled(a) /\ (store'[a] # Torn => Halfway(a)')
  BY <1>1, <1>2, <1>3 DEF Halfway, At, JobOf, Unsettled, Writing
<1>r. a \in Reviews =>
        /\ JobOf(a) = Target[a] /\ request[a].new.status = "succeeded"
        /\ request[a].seen # None /\ ~ Unsettled(Target[a])
        /\ ~ Durable => store[Target[a]].bundle # None
  <2> SUFFICES ASSUME a \in Reviews
               PROVE  /\ JobOf(a) = Target[a] /\ request[a].new.status = "succeeded"
                      /\ request[a].seen # None /\ ~ Unsettled(Target[a])
                      /\ ~ Durable => store[Target[a]].bundle # None
    OBVIOUS
  <2>1. a \notin Jobs /\ Target[a] \in Jobs
    OBVIOUS
  <2>2. /\ request[a].seen # None
        /\ request[a].new = Record("succeeded", Reviewed(request[a].seen, a))
    BY <1>1, <2>1 DEF InHands, ReviewOf, Writing, At
  <2>3. request[a].new.status = "succeeded"
    BY <2>2 DEF Record
  <2> QED
    BY <1>1, <2>1, <2>2, <2>3 DEF JobOf, SettlesFirst, MemoryKept, At
<1>5. Locked'
  BY <1>1, <1>3 DEF Locked
<1>6. InHands'
  <2>1. ASSUME NEW j \in Jobs
        PROVE  (Sound(store[j], j) \/ (store[j].bundle = None /\ Halfway(j)))'
    <3>1. CASE j # JobOf(a) \/ store'[JobOf(a)] = Torn
      BY <1>2, <1>4, <1>h, <3>1 DEF InHands, Sound
    <3>2. CASE j = JobOf(a) /\ store'[j] # Torn /\ a \in Jobs
      BY <1>2, <1>h, <3>2 DEF SettlesFirst
    <3>3. CASE j = JobOf(a) /\ store'[j] # Torn /\ a \in Reviews
      BY <1>2, <1>r, <3>3 DEF InHands, Sound
    <3> QED
      BY <3>1, <3>2, <3>3
  <2>2. ASSUME NEW b \in Requests PROVE HandsOf(b)'
    BY <1>3 DEF InHands, HandsOf, Sound, JobOf
  <2>3. ASSUME NEW j \in Jobs PROVE SubmissionOf(j)'
    BY <1>1, <1>3 DEF InHands, SubmissionOf, NewBundle, At
  <2>4. ASSUME NEW v \in Reviews PROVE ReviewOf(v)'
    <3>1. ReviewOf(v) /\ request'[v].seen = request[v].seen /\ request'[v].new = request[v].new
      BY <1>3 DEF InHands
    <3>2. /\ request'[v].at \notin {"created", "running"}
          /\ At(v, "mark")' => At(v, "mark")
      BY <1>1, <3>1 DEF ReviewOf, At
    <3> QED
      BY <1>3, <3>1, <3>2 DEF ReviewOf, Sound, Record, Reviewed
  <2> QED
    BY <2>1, <2>2, <2>3, <2>4 DEF InHands
<1>7. Numbered'
  BY <1>1 DEF Numbered, At
<1>8. SettlesFirst'
  <2>1. \A j \in Jobs : Unsettled(j)' <=> Unsettled(j)
    BY <1>1, <1>3 DEF Unsettled, At, Writing
  <2> QED
    BY <1>2, <1>3, <1>4, <1>h, <1>r, <2>1 DEF SettlesFirst
<1>9. NotYetKept'
  <2>1. \A w \in Reviews : At(w, "done")' <=> At(w, "done")
    BY <1>1 DEF At
  <2> QED
    BY <1>2, <1>3, <1>4, <2>1 DEF NotYetKept
<1> QED
  BY <1>5, <1>6, <1>7, <1>8, <1>9 DEF Rest

(* A process that ends takes its requests, and a store in memory, along. *)
LEMMA EndEffect ==
  ASSUME LInv, NEW p \in Procs, ProcessEnds(p)
  PROVE  Rest'
<1> USE LocalAssumption, JobOfRequest DEF LInv, Requests
<1>1. \A b \in Requests :
        \/ request'[b] = request[b]
        \/ /\ request'[b].at = "gone" /\ request'[b].new = NoJob /\ request'[b].seen = None
           /\ request[b].at # "done" /\ request[b].at # "idle"
  BY DEF ProcessEnds, NoRequest
<1>2. \A b \in Requests : Home[b] = p => ~ Writing(b)' /\ ~ At(b, "add")'
  BY DEF ProcessEnds, NoRequest, Writing, At
<1>3. \A j \in Jobs : (Durable /\ store'[j] = store[j]) \/ store'[j] = NoJob
  BY DEF ProcessEnds, TypeOK
<1>4. NoJob.bundle = None /\ NoJob.status = "none"
  BY DEF NoJob, Record
<1>5. Locked'
  BY <1>1, <1>2 DEF Locked, Writing, ProcessEnds, TypeOK
<1>6. InHands'
  <2>1. \A j \in Jobs : Sound(store[j], j)'
    BY <1>3, <1>4 DEF InHands, Sound, Halfway
  <2>2. ASSUME NEW b \in Requests
        PROVE  HandsOf(b)'
    BY <1>1, <1>4 DEF InHands, HandsOf, Sound, JobOf, Writing
  <2>3. ASSUME NEW j \in Jobs
        PROVE  SubmissionOf(j)'
    BY <1>1 DEF InHands, SubmissionOf, Writing, NewBundle
  <2>4. ASSUME NEW v \in Reviews
        PROVE  ReviewOf(v)'
    <3>1. CASE request'[v] = request[v]
      BY <3>1 DEF InHands, ReviewOf, Sound, Record, Writing, At, Reviewed
    <3>2. CASE request'[v].at = "gone" /\ request'[v].seen = None
      BY <3>2 DEF ReviewOf, Writing, At
    <3> QED
      BY <1>1, <3>1, <3>2
  <2> QED
    BY <2>1, <2>2, <2>3, <2>4 DEF InHands
<1>7. Numbered'
  BY <1>1, <1>2 DEF Numbered, At, ProcessEnds, TypeOK
<1>8. SettlesFirst'
  <2>1. \A j \in Jobs : Unsettled(j)' => Unsettled(j)
    BY <1>1 DEF Unsettled, Writing
  <2>2. \A v \in Reviews : request'[v].seen \in {request[v].seen, None}
    BY <1>1
  <2> QED
    BY <1>3, <1>4, <2>1, <2>2 DEF SettlesFirst, Halfway
<1>9. NotYetKept'
  <2>1. \A w \in Reviews : At(w, "done")' <=> At(w, "done")
    BY <1>1 DEF At
  <2>2. \A v \in Reviews : request'[v].seen \in {request[v].seen, None}
    BY <1>1
  <2> QED
    BY <1>3, <1>4, <2>1, <2>2 DEF NotYetKept
<1> QED
  BY <1>5, <1>6, <1>7, <1>8, <1>9 DEF Rest

(* A request that is answered with an error frees the lock. *)
LEMMA FailEffect ==
  ASSUME LInv, NEW a \in Requests, FileFails(a)
  PROVE  Rest'
<1> USE LocalAssumption, JobOfRequest DEF LInv, Requests
<1>1. /\ Durable /\ Writing(a) /\ request'[a].at = "error" /\ request'[a].new = NoJob
      /\ request'[a].seen = request[a].seen
      /\ \A b \in Requests \ {a} : request'[b] = request[b]
      /\ UNCHANGED <<store, decisions>>
      /\ lock[Home[a]] = a /\ lock' = [lock EXCEPT ![Home[a]] = None]
  BY DEF FileFails, Writing, TypeOK, Locked
<1>2. Locked'
  <2>1. \A b \in Requests \ {a} : Writing(b) => Home[b] # Home[a]
    BY <1>1 DEF Locked
  <2>2. lock \in [Procs -> Requests \cup {None}]
    BY DEF TypeOK
  <2>3. ~ Writing(a)' /\ \A b \in Requests \ {a} : Writing(b)' <=> Writing(b)
    BY <1>1 DEF Writing
  <2> QED
    BY <1>1, <2>1, <2>2, <2>3 DEF Locked
<1>3. InHands'
  <2>1. \A j \in Jobs : Sound(store[j], j)'
    BY <1>1 DEF InHands, Sound, Halfway
  <2>2. ASSUME NEW b \in Requests
        PROVE  HandsOf(b)'
    <3>1. CASE b = a
      BY <1>1, <3>1 DEF HandsOf, Sound, Writing, NoJob, Record
    <3>2. CASE b # a
      BY <1>1, <3>2 DEF InHands, HandsOf, Sound, Writing, JobOf
    <3> QED
      BY <3>1, <3>2
  <2>3. ASSUME NEW j \in Jobs
        PROVE  SubmissionOf(j)'
    BY <1>1 DEF InHands, SubmissionOf, Writing, NewBundle
  <2>4. ASSUME NEW v \in Reviews
        PROVE  ReviewOf(v)'
    <3>1. CASE v = a
      BY <1>1, <3>1 DEF InHands, ReviewOf, Writing, At, Sound, Record
    <3>2. CASE v # a
      <4>1. request'[v] = request[v] /\ ReviewOf(v)
        BY <1>1, <3>2 DEF InHands
      <4> QED
        BY <4>1 DEF ReviewOf, Writing, At, Sound, Record, Reviewed
    <3> QED
      BY <3>1, <3>2
  <2> QED
    BY <2>1, <2>2, <2>3, <2>4 DEF InHands
<1>4. Numbered'
  BY <1>1 DEF Numbered, At
<1>5. SettlesFirst'
  <2>1. \A j \in Jobs : Unsettled(j)' => Unsettled(j)
    BY <1>1 DEF Unsettled, Writing
  <2>2. \A v \in Reviews : request'[v].seen = request[v].seen
    BY <1>1
  <2> QED
    BY <1>1, <2>1, <2>2 DEF SettlesFirst, Halfway
<1>6. NotYetKept'
  BY <1>1 DEF NotYetKept, At, Writing
<1> QED
  BY <1>2, <1>3, <1>4, <1>5, <1>6 DEF Rest

(* Only the submission writes a job without a bundle, and only before any   *)
(* review has seen one.                                                     *)
LEMMA MemoryStep == LInv /\ [Next]_vars => MemoryKept'
<1> USE LocalAssumption, JobOfRequest DEF Requests
<1> SUFFICES ASSUME LInv, [Next]_vars, ~ Durable, NEW v \in Reviews,
                    request'[v].seen # None, request'[v].at \notin {"idle", "done", "error"}
             PROVE  store'[Target[v]].bundle # None
  BY DEF MemoryKept
<1>t. request \in [Requests -> RequestRecords] /\ store \in [Jobs -> Records]
  BY DEF LInv, TypeOK, RequestRecords
<1>k. request[v].seen # None /\ request[v].at \notin {"idle", "done", "error"} =>
        store[Target[v]].bundle # None
  BY DEF LInv, MemoryKept
<1>1. CASE UNCHANGED vars
  BY <1>1, <1>k DEF vars
<1>2. ASSUME NEW j \in Jobs, SubmitStep(j) PROVE store'[Target[v]].bundle # None
  BY <1>2, <1>t, <1>k DEF SubmitStep, Create, MarkRunning, MarkSucceeded, MarkFailed, BeginWrite
<1>3. ASSUME NEW w \in Reviews, ReviewStep(w) PROVE store'[Target[v]].bundle # None
  <2>1. CASE GetJob(w)
    BY <2>1, <1>t, <1>k DEF GetJob, JobOf, RequestRecords
  <2>2. CASE NumberReview(w)
    BY <2>2, <1>t, <1>k DEF NumberReview, At, RequestRecords
  <2>3. CASE AddReview(w)
    BY <2>3, <1>t, <1>k DEF AddReview, At, RequestRecords
  <2>4. CASE LookAtBundle(w)
    BY <2>4, <1>t, <1>k DEF LookAtBundle, Bundle, JobOf, At, RequestRecords
  <2>5. CASE MarkReviewed(w)
    BY <2>5, <1>t, <1>k DEF MarkReviewed, BeginWrite, At, RequestRecords
  <2> QED
    BY <1>3, <2>1, <2>2, <2>3, <2>4, <2>5 DEF ReviewStep
<1>4. ASSUME NEW a \in Requests, ReadFails(a) \/ FileFails(a)
      PROVE  store'[Target[v]].bundle # None
  BY <1>4, <1>t, <1>k DEF ReadFails, FileFails, RequestRecords
<1>5. ASSUME NEW a \in Requests, Open(a) PROVE store'[Target[v]].bundle # None
  BY <1>5, <1>t, <1>k DEF Open, At, RequestRecords, Records
<1>6. ASSUME NEW a \in Requests, Write(a) PROVE store'[Target[v]].bundle # None
  <2>1. /\ v # a => request'[v] = request[v]
        /\ v = a => request'[v].at = "done"
    <3>1. a \in Reviews => request[a].next = "done"
      BY <1>6 DEF LInv, InHands, ReviewOf, Write, At, Writing
    <3> QED
      BY <1>6, <3>1, <1>t DEF Write, RequestRecords
  <2>2. v # a /\ request[v].seen # None /\ store[Target[v]].bundle # None
    BY <1>k, <2>1
  <2>3. ASSUME JobOf(a) = Target[v] PROVE a \in Reviews
    <3>1. a \in Jobs => Unsettled(a)
      BY <1>6 DEF Unsettled, Write, At, Writing
    <3> QED
      BY <2>2, <2>3, <3>1 DEF LInv, SettlesFirst, JobOf
  <2>4. ASSUME JobOf(a) = Target[v] PROVE request[a].new.bundle # None
    <3>1. a \in Reviews /\ Writing(a)
      BY <1>6, <2>3, <2>4 DEF Write, At, Writing
    <3>2. /\ request[a].new = Record("succeeded", Reviewed(request[a].seen, a))
          /\ Sound(request[a].new, JobOf(a))
      BY <3>1 DEF LInv, InHands, ReviewOf, HandsOf
    <3> QED
      BY <3>2 DEF Sound, Record
  <2>5. JobOf(a) = Target[v] => store'[Target[v]] = request[a].new
    BY <1>6, <1>t DEF Write, Stored
  <2>6. JobOf(a) # Target[v] => store'[Target[v]] = store[Target[v]]
    BY <1>6, <1>t DEF Write
  <2> QED
    BY <2>2, <2>4, <2>5, <2>6
<1>7. ASSUME NEW p \in Procs, ProcessEnds(p) PROVE FALSE
  <2>1. Home[v] = p
    OBVIOUS
  <2> QED
    BY <1>7, <2>1 DEF ProcessEnds, NoRequest
<1> QED
  BY <1>1, <1>2, <1>3, <1>4, <1>5, <1>6, <1>7 DEF Next, WriteStep

(* Decisions are entered at the end, or over the last one numbered alike.   *)
LEMMA AddedLater ==
  ASSUME LInv, NEW v \in Reviews, AddReview(v)
  PROVE  Numbered'
<1> USE LocalAssumption, JobOfRequest DEF Requests
<1> DEFINE d == decisions[Home[v]]
           n == request[v].id
           e == [m \in DOMAIN d \cup {n} |-> IF m = n THEN v ELSE d[m]]
<1>1. /\ n \in 1 .. Len(d) + 1 /\ Len(d) \in Nat /\ DOMAIN d = 1 .. Len(d)
      /\ decisions' = [decisions EXCEPT ![Home[v]] = e]
      /\ request' = [request EXCEPT ![v].at = "look"]
  BY LenProperties DEF AddReview, LInv, Numbered, TypeOK
<1>2. decisions' \in [Procs -> Seq(Reviews)]
  BY TypeStep DEF Next, ReviewStep, Typed
<1>3. Len(e) \in Nat /\ DOMAIN e = 1 .. Len(e)
  <2>1. e \in Seq(Reviews)
    BY <1>1, <1>2 DEF LInv, TypeOK
  <2> HIDE DEF e
  <2> QED
    BY <2>1, LenProperties
<1>4. Len(e) >= Len(d)
  <2>1. DOMAIN d \subseteq DOMAIN e
    OBVIOUS
  <2>2. Len(d) = 0 \/ Len(d) \in DOMAIN d
    BY <1>1
  <2>3. Len(d) = 0 \/ Len(d) \in 1 .. Len(e)
    BY <1>3, <2>1, <2>2
  <2> HIDE DEF e
  <2> QED
    BY <1>1, <1>3, <2>3
<1>5. \A w \in Reviews : At(w, "add")' => At(w, "add") /\ request'[w].id = request[w].id
  BY <1>1 DEF At, LInv, TypeOK
<1>6. \A p \in Procs : /\ p = Home[v] => decisions'[p] = e
                       /\ p # Home[v] => decisions'[p] = decisions[p]
  BY <1>1 DEF LInv, TypeOK
<1> HIDE DEF e
<1> QED
  BY <1>1, <1>3, <1>4, <1>5, <1>6 DEF LInv, Numbered

(* Who holds what accounts for the rest of the types. *)
LEMMA TypedAndSound == Typed' /\ InHands' => TypeOK'
<1> SUFFICES ASSUME Typed', InHands' PROVE TypeOK'
  OBVIOUS
<1>1. \A j \in Jobs :
        /\ store'[j].bundle # None => store'[j].status = "succeeded"
        /\ store'[j].status = "succeeded" /\ store'[j].bundle = None =>
             ~ Durable /\ At(j, "write")'
  BY DEF InHands, Sound, Halfway
<1> QED
  BY <1>1 DEF Typed, TypeOK

(* Every step keeps the invariant: one step per action. *)
LEMMA LocalStep == LInv /\ [Next]_vars => LInv'
<1> SUFFICES ASSUME LInv, [Next]_vars PROVE Rest'
  BY TypeStep, MemoryStep, TypedAndSound DEF LInv, Rest
<1> USE LocalAssumption, JobOfRequest DEF Requests
<1>1. CASE UNCHANGED vars
  BY <1>1 DEF vars, LInv, Rest, Locked, InHands, HandsOf, SubmissionOf, ReviewOf, Numbered,
              SettlesFirst, NotYetKept, Writing, Sound, Halfway, Unsettled, At, Record,
              NewBundle, Reviewed
<1>2. ASSUME NEW j \in Jobs, SubmitStep(j) PROVE Rest'
  <2>1. JobOf(j) = j /\ j \notin Reviews
    BY DEF JobOf
  <2>2. store[j].bundle = None \/ request[j].at \notin {"idle", "created", "running"}
    BY DEF LInv, SettlesFirst, Unsettled
  <2>3. NewBundle(j) # None
    <3>1. NewBundle(j) \in Bundles
      BY EmptySeq DEF NewBundle, Bundles
    <3> QED
      BY <3>1, NoneIsNoBundle
  <2>4. CASE Create(j)
    BY <2>1, <2>4, BeginStep DEF Create, At, Record, Sound
  <2>5. CASE MarkRunning(j)
    <3>1. [store[j] EXCEPT !.status = "running"].bundle = store[j].bundle
          /\ [store[j] EXCEPT !.status = "running"].status = "running"
      BY DEF LInv, TypeOK, Records
    <3> QED
      BY <2>1, <2>2, <2>5, <3>1, BeginStep DEF MarkRunning, At, Sound
  <2>6. CASE MarkSucceeded(j)
    <3>1. Sound(Record("succeeded", NewBundle(j)), j)
      <4>1. /\ ToSet(NewBundle(j).decisions) = {}
            /\ NewBundle(j).certified = (j \in Certifies)
        BY DEF NewBundle, ToSet
      <4> QED
        BY <2>3, <4>1 DEF Sound, Record
    <3> QED
      BY <2>1, <2>6, <3>1, BeginStep DEF MarkSucceeded, At, Record
  <2>7. CASE MarkFailed(j)
    <3>1. [store[j] EXCEPT !.status = "failed"].bundle = store[j].bundle
          /\ [store[j] EXCEPT !.status = "failed"].status = "failed"
      BY DEF LInv, TypeOK, Records
    <3> QED
      BY <2>1, <2>2, <2>7, <3>1, BeginStep DEF MarkFailed, At, Sound
  <2> QED
    BY <1>2, <2>4, <2>5, <2>6, <2>7 DEF SubmitStep
<1>3. ASSUME NEW v \in Reviews, ReviewStep(v) PROVE Rest'
  <2>1. v \in Requests /\ v \notin Jobs /\ JobOf(v) = Target[v]
    BY DEF JobOf
  <2>2. request \in [Requests -> RequestRecords]
    BY DEF LInv, TypeOK, RequestRecords
  <2>3. CASE GetJob(v)
    <3>1. Locked' /\ InHands' /\ SettlesFirst' /\ NotYetKept'
      BY <2>1, <2>2, <2>3, QuietStep DEF GetJob, At, Writing, RequestRecords
    <3>2. Numbered'
      BY <2>2, <2>3 DEF GetJob, LInv, Numbered, At, RequestRecords
    <3> QED
      BY <3>1, <3>2 DEF Rest
  <2>4. CASE NumberReview(v)
    <3>1. Locked' /\ InHands' /\ SettlesFirst' /\ NotYetKept'
      BY <2>1, <2>2, <2>4, QuietStep DEF NumberReview, At, Writing, RequestRecords
    <3>2. Len(decisions[Home[v]]) \in Nat
      BY LenProperties DEF LInv, TypeOK
    <3>3. Numbered'
      <4>1. /\ decisions' = decisions
            /\ request'[v].id = Len(decisions[Home[v]]) + 1
            /\ \A w \in Reviews \ {v} : request'[w] = request[w]
        BY <2>2, <2>4 DEF NumberReview, RequestRecords
      <4>2. request'[v].id \in 1 .. Len(decisions'[Home[v]]) + 1
        <5>1. \A n \in Nat : n + 1 \in 1 .. n + 1
          OBVIOUS
        <5> QED
          BY <3>2, <4>1, <5>1, Zenon
      <4> QED
        BY <4>1, <4>2 DEF LInv, Numbered, At
    <3> QED
      BY <3>1, <3>3 DEF Rest
  <2>5. CASE AddReview(v)
    <3>1. Locked' /\ InHands' /\ SettlesFirst' /\ NotYetKept'
      BY <2>1, <2>2, <2>5, QuietStep DEF AddReview, At, Writing, RequestRecords
    <3>2. Numbered'
      BY <2>5, AddedLater
    <3> QED
      BY <3>1, <3>2 DEF Rest
  <2>6. CASE LookAtBundle(v)
    <3>1. Bundle(v) \in {request[v].seen, store[JobOf(v)].bundle}
      BY DEF Bundle
    <3>2. Locked' /\ InHands' /\ SettlesFirst' /\ NotYetKept'
      BY <2>1, <2>2, <2>6, <3>1, QuietStep DEF LookAtBundle, At, Writing, RequestRecords
    <3>3. Numbered'
      <4>1. /\ request'[v].at # "add" /\ decisions' = decisions
            /\ \A w \in Reviews \ {v} : request'[w] = request[w]
        BY <2>2, <2>6 DEF LookAtBundle, RequestRecords
      <4> QED
        BY <4>1 DEF LInv, Numbered, At
    <3> QED
      BY <3>2, <3>3 DEF Rest
  <2>7. CASE MarkReviewed(v)
    <3> DEFINE seen == request[v].seen
               new == Reviewed(seen, v)
    <3>1. seen \in Bundles /\ Sound(Record("succeeded", seen), Target[v])
      BY <2>2, <2>7 DEF MarkReviewed, LInv, InHands, ReviewOf, RequestRecords
    <3>2. new # None
      <4>1. Reviewed(seen, v) \in Bundles
        BY <3>1 DEF Reviewed, Bundles
      <4> QED
        BY <4>1, NoneIsNoBundle
    <3>3. ToSet(Append(seen.decisions, v)) = ToSet(seen.decisions) \cup {v}
      BY <3>1, AppendedSet DEF Bundles
    <3>4. seen # None
      BY <3>1, NoneIsNoBundle
    <3>5. Sound(Record("succeeded", new), Target[v])
      BY <3>1, <3>2, <3>3, <3>4 DEF Sound, Record, Reviewed
    <3> QED
      BY <2>1, <2>7, <3>5, BeginStep DEF MarkReviewed, At, Record
  <2> QED
    BY <1>3, <2>3, <2>4, <2>5, <2>6, <2>7 DEF ReviewStep
<1>4. ASSUME NEW a \in Requests, ReadFails(a) PROVE Rest'
  <2>1. request \in [Requests -> RequestRecords]
    BY DEF LInv, TypeOK, RequestRecords
  <2>2. Locked' /\ InHands' /\ SettlesFirst' /\ NotYetKept'
    BY <1>4, <2>1, QuietStep DEF ReadFails, At, Writing, RequestRecords
  <2>3. Numbered'
    BY <1>4, <2>1 DEF ReadFails, LInv, Numbered, At, RequestRecords
  <2> QED
    BY <2>2, <2>3 DEF Rest
<1> QED
  BY <1>1, <1>2, <1>3, <1>4, OpenEffect, WriteEffect, EndEffect, FailEffect DEF Next, WriteStep

-----------------------------------------------------------------------------
(* The invariant in every reachable state.                                  *)
THEOREM LocalInvariant == Spec => []LInv
<1>1. Init => LInv
  BY InitLInv
<1> QED
  BY <1>1, LocalStep, PTL DEF Spec

(* Only Open and Write touch the files, a store in memory goes with its     *)
(* process, and a request that writes goes on, ends or fails.               *)
LEMMA WritersOnly ==
  ASSUME LInv, [Next]_vars
  PROVE  /\ ends' \in Nat /\ ends \in Nat /\ ends' >= ends
         /\ \/ \E a \in Requests : Open(a) \/ Write(a)
            \/ UNCHANGED store
            \/ ~ Durable /\ \A j \in Jobs : store'[j] = NoJob
         /\ \A a \in Requests : At(a, "write") =>
              \/ Write(a)
              \/ request'[a] = request[a]
              \/ request'[a].at \in {"gone", "error"} /\ ends' > 0
         /\ \A a \in Requests : request[a].at \in {"gone", "error"} =>
              request'[a].at \in {"gone", "error"}
         /\ \A a \in Requests : At(a, "write")' => At(a, "write") \/ Open(a) \/ Write(a)
<1> USE LocalAssumption DEF Requests, At
<1>t. request \in [Requests -> RequestRecords] /\ ends \in Nat
  BY DEF LInv, TypeOK, RequestRecords
<1> DEFINE Goes == \A a \in Requests :
                     /\ request[a].at \in {"write", "gone", "error"} => request'[a] = request[a]
                     /\ At(a, "write")' => At(a, "write")
<1>1. CASE UNCHANGED vars
  <2>1. UNCHANGED <<store, ends>> /\ request' = request
    BY <1>1 DEF vars
  <2> QED
    BY <2>1, <1>t
<1>b. ASSUME NEW a \in Requests, NEW record, NEW next, BeginWrite(a, record, next),
             request[a].at \notin {"write", "gone", "error"}
      PROVE  UNCHANGED <<store, ends>> /\ Goes
  <2>1. request'[a].at = "open" /\ \A c \in Requests \ {a} : request'[c] = request[c]
    BY <1>b, <1>t DEF BeginWrite, RequestRecords
  <2> QED
    BY <1>b, <2>1 DEF BeginWrite
<1>2. ASSUME NEW j \in Jobs, SubmitStep(j) PROVE UNCHANGED <<store, ends>> /\ Goes
  BY <1>2, <1>b DEF SubmitStep, Create, MarkRunning, MarkSucceeded, MarkFailed
<1>3. ASSUME NEW v \in Reviews, ReviewStep(v) PROVE UNCHANGED <<store, ends>> /\ Goes
  <2>1. CASE MarkReviewed(v)
    BY <2>1, <1>b DEF MarkReviewed
  <2>2. CASE GetJob(v)
    BY <2>2, <1>t DEF GetJob, RequestRecords
  <2>3. CASE NumberReview(v)
    BY <2>3, <1>t DEF NumberReview, RequestRecords
  <2>4. CASE AddReview(v)
    BY <2>4, <1>t DEF AddReview, RequestRecords
  <2>5. CASE LookAtBundle(v)
    <3>1. request'[v].at \in {"done", "mark"}
      BY <2>5, <1>t DEF LookAtBundle, RequestRecords
    <3> QED
      BY <2>5, <3>1, <1>t DEF LookAtBundle
  <2> QED
    BY <1>3, <2>1, <2>2, <2>3, <2>4, <2>5 DEF ReviewStep
<1>4. ASSUME NEW a \in Requests, ReadFails(a) PROVE UNCHANGED <<store, ends>> /\ Goes
  BY <1>4, <1>t DEF ReadFails
<1>5. ASSUME NEW a \in Requests, Open(a) \/ Write(a)
      PROVE  /\ UNCHANGED ends
             /\ \A b \in Requests : /\ At(b, "write") => Write(b) \/ request'[b] = request[b]
                                    /\ request[b].at \in {"gone", "error"} =>
                                         request'[b] = request[b]
                                    /\ At(b, "write")' => At(b, "write") \/ Open(b) \/ Write(b)
  BY <1>5, <1>t DEF Open, Write
<1>6. ASSUME NEW a \in Requests, FileFails(a)
      PROVE  /\ UNCHANGED store /\ ends' = ends + 1 /\ request'[a].at = "error"
             /\ \A b \in Requests \ {a} : request'[b] = request[b]
  BY <1>6, <1>t DEF FileFails, RequestRecords
<1>7. ASSUME NEW p \in Procs, ProcessEnds(p)
      PROVE  /\ UNCHANGED store \/ (~ Durable /\ \A j \in Jobs : store'[j] = NoJob)
             /\ ends' = ends + 1
             /\ \A b \in Requests : request'[b] = request[b] \/ request'[b].at = "gone"
  BY <1>7, <1>t DEF ProcessEnds, NoRequest
<1> QED
  BY <1>1, <1>2, <1>3, <1>4, <1>5, <1>6, <1>7, <1>t DEF Next, WriteStep

(* An answered request stays as it is, a review is answered with success by *)
(* its own write only, and a job succeeds by a write only.                  *)
LEMMA AnsweredByWrite ==
  ASSUME LInv, [Next]_vars
  PROVE  /\ \A w \in Reviews : At(w, "done") => request'[w] = request[w]
         /\ \A v \in Reviews : Attached(v)' => Attached(v) \/ Write(v)
         /\ \A j \in Jobs : \/ store'[j] = store[j] \/ store'[j].status # "succeeded"
                            \/ \E a \in Requests : Write(a) /\ JobOf(a) = j
                            \/ Unsettled(j) /\ Open(j)
<1> USE LocalAssumption, JobOfRequest DEF Requests, At, Attached
<1>t. request \in [Requests -> RequestRecords] /\ store \in [Jobs -> Records]
  BY DEF LInv, TypeOK, RequestRecords
<1> DEFINE Stays == \A w \in Reviews : At(w, "done") => request'[w] = request[w]
           Early == \A v \in Reviews : Attached(v)' => Attached(v)
<1>1. CASE UNCHANGED vars
  BY <1>1 DEF vars
<1>2. ASSUME NEW j \in Jobs, SubmitStep(j) PROVE Stays /\ Early /\ UNCHANGED store
  BY <1>2, <1>t DEF SubmitStep, Create, MarkRunning, MarkSucceeded, MarkFailed, BeginWrite
<1>3. ASSUME NEW v \in Reviews, ReviewStep(v) PROVE Stays /\ Early /\ UNCHANGED store
  <2>1. CASE LookAtBundle(v)
    BY <2>1, <1>t DEF LookAtBundle, RequestRecords
  <2>2. CASE GetJob(v)
    BY <2>2, <1>t DEF GetJob, RequestRecords
  <2>3. CASE NumberReview(v)
    BY <2>3, <1>t DEF NumberReview, RequestRecords
  <2>4. CASE AddReview(v)
    BY <2>4, <1>t DEF AddReview, RequestRecords
  <2>5. CASE MarkReviewed(v)
    BY <2>5, <1>t DEF MarkReviewed, BeginWrite, RequestRecords
  <2> QED
    BY <1>3, <2>1, <2>2, <2>3, <2>4, <2>5 DEF ReviewStep
<1>4. ASSUME NEW a \in Requests, ReadFails(a) \/ FileFails(a)
      PROVE  Stays /\ Early /\ UNCHANGED store
  <2>1. /\ request[a].at # "done" /\ request'[a].at = "error" /\ UNCHANGED store
        /\ \A b \in Requests \ {a} : request'[b] = request[b]
    <3>1. CASE ReadFails(a)
      BY <3>1, <1>t DEF ReadFails, RequestRecords
    <3>2. CASE FileFails(a)
      BY <3>2, <1>t DEF FileFails, RequestRecords
    <3> QED
      BY <1>4, <3>1, <3>2
  <2> QED
    BY <2>1
<1>n. NoJob.status = "none" /\ Torn.status = "torn"
  BY DEF NoJob, Torn, Record
<1>5. ASSUME NEW a \in Requests, Open(a)
      PROVE  /\ Stays /\ Early
             /\ \A j \in Jobs : \/ store'[j] \in {store[j], Torn}
                                \/ Unsettled(j) /\ Open(j)
  <2>1. Stays /\ Early
    BY <1>5, <1>t DEF Open, RequestRecords
  <2>2. \A j \in Jobs : store'[j] \in {store[j], Torn} \/ (~ Durable /\ JobOf(a) = j)
    BY <1>5, <1>t DEF Open
  <2>3. CASE a \in Jobs
    BY <1>5, <2>1, <2>2, <2>3 DEF JobOf, Unsettled, Writing, Open
  <2>4. CASE a \in Reviews /\ ~ Durable
    <3>1. a \notin Jobs /\ JobOf(a) = Target[a] /\ Writing(a) /\ Target[a] \in Jobs
      BY <1>5, <2>4 DEF JobOf, Writing, Open
    <3>2. /\ request[a].seen # None
          /\ request[a].new = Record("succeeded", Reviewed(request[a].seen, a))
      BY <3>1 DEF LInv, InHands, ReviewOf
    <3>3. request[a].new.status = "succeeded" /\ store[Target[a]].bundle # None
      <4>1. request[a].new.status = "succeeded"
        BY <3>2 DEF Record
      <4>2. request[a].at \notin {"idle", "done", "error"}
        BY <3>1 DEF Writing
      <4> QED
        BY <2>4, <3>2, <4>1, <4>2 DEF LInv, MemoryKept
    <3>4. store[Target[a]].status = "succeeded"
      BY <3>1, <3>3 DEF LInv, TypeOK
    <3>5. store' = [store EXCEPT ![Target[a]] =
                                   [store[Target[a]] EXCEPT !.status = "succeeded"]]
      BY <1>5, <1>t, <2>4, <3>1, <3>3 DEF Open
    <3>6. [store[Target[a]] EXCEPT !.status = "succeeded"] = store[Target[a]]
      BY <1>t, <3>1, <3>4 DEF Records
    <3>7. store'[Target[a]] = store[Target[a]]
      BY <1>t, <3>5, <3>6
    <3> QED
      BY <2>1, <2>2, <3>1, <3>7
  <2> QED
    BY <2>1, <2>2, <2>3, <2>4
<1>6. ASSUME NEW a \in Requests, Write(a)
      PROVE  /\ Stays
             /\ \A b \in Requests \ {a} : request'[b] = request[b]
             /\ \A j \in Jobs \ {JobOf(a)} : store'[j] = store[j]
  BY <1>6, <1>t DEF Write, RequestRecords
<1>7. ASSUME NEW p \in Procs, ProcessEnds(p)
      PROVE  Stays /\ Early /\ \A j \in Jobs : store'[j] \in {store[j], NoJob}
  BY <1>7, <1>t DEF ProcessEnds, NoRequest
<1> QED
  BY <1>1, <1>2, <1>3, <1>4, <1>5, <1>6, <1>7, <1>n DEF Next, WriteStep

-----------------------------------------------------------------------------
(* A file written by a second request was written by an answered review     *)
(* before, and neither had read the other's decision.                       *)
CrossedBy(v, w) == /\ Target[v] = Target[w] /\ Home[v] # Home[w]
                   /\ Attached(v) /\ ~ Saw(v, w) /\ ~ Saw(w, v)
Crossed ==
  \A w \in Requests : Durable /\ At(w, "write") /\ store[JobOf(w)] # Torn =>
    w \in Reviews /\ \E v \in Reviews : CrossedBy(v, w)

(* Two requests that write one file are reviews of different processes. *)
LEMMA TwoWriters ==
  ASSUME LInv, NEW a \in Requests, NEW b \in Requests, a # b,
         JobOf(a) = JobOf(b), Writing(a), Writing(b)
  PROVE  /\ a \in Reviews /\ b \in Reviews /\ Home[a] # Home[b]
         /\ Target[a] = JobOf(a) /\ Target[b] = JobOf(b)
         /\ request[a].seen # None /\ request[b].seen # None
         /\ request[a].next = "done" /\ request[b].next = "done"
<1> USE LocalAssumption, JobOfRequest DEF Requests, LInv
<1>1. Home[a] # Home[b]
  BY DEF Locked
<1>2. \A c \in Reviews : Writing(c) => /\ ~ Unsettled(Target[c]) /\ JobOf(c) = Target[c]
                                       /\ request[c].seen # None /\ request[c].next = "done"
  BY DEF InHands, ReviewOf, SettlesFirst, JobOf
<1>3. \A c \in Jobs : Writing(c) => Unsettled(c) /\ JobOf(c) = c
  BY DEF Unsettled, JobOf
<1> QED
  BY <1>1, <1>2, <1>3

(* The second of two concurrent writes finds the first one's review done.   *)
LEMMA CrossedStep == LInv /\ LInv' /\ Crossed /\ [Next]_vars => Crossed'
<1> USE LocalAssumption, JobOfRequest DEF Requests
<1> SUFFICES ASSUME LInv, LInv', Crossed, [Next]_vars, NEW w \in Requests, Durable,
                    At(w, "write")', store'[JobOf(w)] # Torn
             PROVE  w \in Reviews /\ \E v \in Reviews : CrossedBy(v, w)'
  BY DEF Crossed, JobOf
<1>t. request \in [Requests -> RequestRecords] /\ store \in [Jobs -> Records]
  BY DEF LInv, TypeOK, RequestRecords
<1>1. At(w, "write") /\ request'[w] = request[w] /\ ~ Write(w)
  <2>1. ~ Open(w)
    BY <1>t DEF Open
  <2>2. At(w, "write")
    BY <2>1, WritersOnly DEF Write
  <2>3. ~ Write(w)
    <3>1. Writing(w) /\ HandsOf(w)
      BY <2>2 DEF LInv, InHands, Writing, At
    <3>2. request[w].next # "write"
      BY <3>1 DEF HandsOf
    <3>3. ASSUME Write(w) PROVE request'[w].at = request[w].next
      BY <3>3, <1>t DEF Write, RequestRecords
    <3> QED
      BY <3>2, <3>3 DEF At
  <2> QED
    BY <2>2, <2>3, WritersOnly DEF At
<1>2. CASE store[JobOf(w)] # Torn
  <2>1. PICK v \in Reviews : w \in Reviews /\ CrossedBy(v, w)
    BY <1>1, <1>2 DEF Crossed
  <2>2. request'[v] = request[v]
    BY <2>1, AnsweredByWrite DEF CrossedBy, Attached
  <2> QED
    BY <1>1, <2>1, <2>2 DEF CrossedBy, Attached, At, Saw
<1>3. CASE store[JobOf(w)] = Torn
  <2>1. PICK a \in Requests : Write(a) /\ JobOf(a) = JobOf(w)
    <3>2. ASSUME NEW a \in Requests, Open(a) PROVE store'[JobOf(w)] = Torn
      BY <1>3, <1>t, <3>2 DEF Open
    <3>3. ASSUME NEW a \in Requests, Write(a), JobOf(a) # JobOf(w)
          PROVE  store'[JobOf(w)] = Torn
      BY <1>3, <1>t, <3>3 DEF Write
    <3> QED
      BY <1>3, <3>2, <3>3, WritersOnly
  <2>2. a # w /\ Writing(a) /\ Writing(w)
    BY <1>1, <2>1, <1>t DEF Writing, Write, At
  <2>3. /\ a \in Reviews /\ w \in Reviews /\ Home[a] # Home[w] /\ Target[a] = Target[w]
        /\ request[a].seen # None /\ request[w].seen # None /\ request[a].next = "done"
    BY <2>1, <2>2, TwoWriters
  <2>4. request'[a].at = "done" /\ request'[a].seen = request[a].seen
    BY <2>1, <2>3, <1>t DEF Write, RequestRecords
  <2>5. ~ At(a, "done") /\ ~ At(w, "done")
    BY <2>2 DEF At, Writing
  <2>6. ~ Saw(a, w) /\ ~ Saw(w, a)
    BY <2>3, <2>5 DEF LInv, NotYetKept, Saw
  <2> QED
    BY <1>1, <2>3, <2>4, <2>6 DEF CrossedBy, Attached, At, Saw
<1> QED
  BY <1>2, <1>3

(* A half-written file has its writer, or one that ended or failed.         *)
LEMMA TornStep == LInv /\ LInv' /\ TornWhileWriting /\ [Next]_vars => TornWhileWriting'
<1> USE LocalAssumption, JobOfRequest DEF Requests
<1> SUFFICES ASSUME LInv, LInv', TornWhileWriting, [Next]_vars, NEW j \in Jobs, store'[j] = Torn
             PROVE  \E a \in Requests :
                      /\ JobOf(a) = j
                      /\ At(a, "write")' \/ (request'[a].at \in {"gone", "error"} /\ ends' > 0)
  BY DEF TornWhileWriting, LInv, Locked, Writing, At
<1>t. /\ request \in [Requests -> RequestRecords] /\ store \in [Jobs -> Records]
      /\ Torn.status = "torn" /\ NoJob.status = "none" /\ Mangled.status = "mangled"
  BY DEF LInv, TypeOK, RequestRecords, Torn, NoJob, Mangled, Record
<1>n. \A a \in Requests : request[a].new.status # "torn"
  BY DEF LInv, InHands, HandsOf
<1>1. CASE \E a \in Requests : Open(a) /\ JobOf(a) = j
  <2>1. PICK a \in Requests : Open(a) /\ JobOf(a) = j
    BY <1>1
  <2>2. request'[a].at = "write"
    BY <1>t, <2>1 DEF Open, RequestRecords
  <2> QED
    BY <2>1, <2>2 DEF At
<1>2. CASE ~ \E a \in Requests : Open(a) /\ JobOf(a) = j
  <2>1. \A a \in Requests : Write(a) => JobOf(a) # j
    BY <1>t, <1>n DEF Write, Stored
  <2>2. store'[j] = store[j]
    <3>1. ASSUME NEW a \in Requests, Open(a) \/ Write(a) PROVE store'[j] = store[j]
      BY <1>2, <1>t, <2>1, <3>1 DEF Open, Write
    <3> QED
      BY <1>t, <3>1, WritersOnly
  <2>3. PICK a \in Requests :
          /\ JobOf(a) = j
          /\ At(a, "write") \/ (request[a].at \in {"gone", "error"} /\ ends > 0)
    <3>1. store[j] = Torn
      BY <2>2
    <3> QED
      BY <3>1 DEF TornWhileWriting
  <2>4. ~ Write(a)
    BY <2>1, <2>3
  <2> QED
    BY <2>3, <2>4, WritersOnly DEF At
<1> QED
  BY <1>1, <1>2

(* Two texts in a file were left by two reviews that crossed.               *)
LEMMA MangledStep == LInv /\ Crossed /\ MangledByTwo /\ [Next]_vars => MangledByTwo'
<1> USE LocalAssumption, JobOfRequest DEF Requests
<1> SUFFICES ASSUME LInv, Crossed, MangledByTwo, [Next]_vars, NEW j \in Jobs, store'[j] = Mangled
             PROVE  \E v, w \in Reviews :
                      /\ Target[v] = j /\ Target[w] = j /\ Home[v] # Home[w]
                      /\ Attached(v)' /\ Attached(w)' /\ ~ Saw(v, w)' /\ ~ Saw(w, v)'
  BY DEF MangledByTwo
<1>t. /\ request \in [Requests -> RequestRecords] /\ store \in [Jobs -> Records]
      /\ Torn.status = "torn" /\ NoJob.status = "none" /\ Mangled.status = "mangled"
  BY DEF LInv, TypeOK, RequestRecords, Torn, NoJob, Mangled, Record
<1>n. \A a \in Requests : request[a].new.status # "mangled"
  BY DEF LInv, InHands, HandsOf
<1>s. \A v \in Reviews : Attached(v) => request'[v] = request[v]
  BY AnsweredByWrite DEF Attached
<1>1. CASE store[j] = Mangled
  BY <1>1, <1>s DEF MangledByTwo, Attached, At, Saw
<1>2. CASE store[j] # Mangled
  <2>1. PICK w \in Requests : Write(w) /\ JobOf(w) = j
    <3>1. ASSUME NEW a \in Requests, Open(a) PROVE store'[j] # Mangled
      BY <1>2, <1>n, <1>t, <3>1 DEF Open, Records
    <3>2. ASSUME NEW a \in Requests, Write(a), JobOf(a) # j PROVE store'[j] = store[j]
      BY <1>t, <3>2 DEF Write
    <3> QED
      BY <1>2, <1>t, <3>1, <3>2, WritersOnly
  <2>2. Durable /\ At(w, "write") /\ store[JobOf(w)] # Torn
    BY <1>n, <1>t, <2>1 DEF Write, Stored
  <2>3. PICK v \in Reviews : w \in Reviews /\ CrossedBy(v, w)
    BY <2>2 DEF Crossed
  <2>4. Target[w] = j /\ request[w].seen # None /\ request[w].next = "done"
    <3>1. w \notin Jobs /\ Writing(w)
      BY <2>2, <2>3 DEF Writing, At
    <3> QED
      BY <2>1, <2>3, <3>1 DEF JobOf, LInv, InHands, ReviewOf
  <2>5. request'[w].at = "done" /\ request'[w].seen = request[w].seen
    BY <2>1, <2>4, <1>t DEF Write, RequestRecords
  <2>6. request'[v] = request[v]
    BY <1>s, <2>3 DEF CrossedBy
  <2> QED
    BY <2>3, <2>4, <2>5, <2>6 DEF CrossedBy, Attached, At, Saw
<1> QED
  BY <1>1, <1>2

(* Whoever writes, whichever process ends and whichever file fails, readers *)
(* find bundles that go with their status, certifications that go with      *)
(* their decisions, and whole files, but for those that are being written,  *)
(* were left half written by a request that ended or failed, or were        *)
(* written by two reviews at once.                                          *)
THEOREM StoreSound == Spec => []StoreIsSound
<1>1. LInv => TypeOK /\ CertificationBacked
  BY DEF LInv, CertificationBacked, InHands, Sound
<1>2. Init => TornWhileWriting /\ MangledByTwo /\ Crossed
  BY JobOfRequest
     DEF Init, TornWhileWriting, MangledByTwo, Crossed, NoJob, Torn, Mangled, Record, At, NoRequest
<1>3. LInv /\ LInv' /\ (TornWhileWriting /\ MangledByTwo /\ Crossed) /\ [Next]_vars
        => (TornWhileWriting /\ MangledByTwo /\ Crossed)'
  BY TornStep, MangledStep, CrossedStep
<1> QED
  BY <1>1, <1>2, <1>3, LocalInvariant, PTL DEF Spec, StoreIsSound

(* A job settles once.                                                      *)
THEOREM JobsSettleOnce == Spec => SettledOnce
<1> DEFINE Once == \A j \in Jobs :
             /\ ~ TerminalJobStatuses \subseteq Outcomes(j)
             /\ store[j].status \in TerminalJobStatuses /\ store'[j] # NoJob =>
                  store'[j].status \in {store[j].status, "torn", "mangled"}
<1>1. LInv /\ [Next]_vars => Once
  <2> SUFFICES ASSUME LInv, [Next]_vars, NEW j \in Jobs
               PROVE  /\ ~ TerminalJobStatuses \subseteq Outcomes(j)
                      /\ store[j].status \in TerminalJobStatuses /\ store'[j] # NoJob =>
                           store'[j].status \in {store[j].status, "torn", "mangled"}
    OBVIOUS
  <2> USE LocalAssumption, JobOfRequest DEF Requests
  <2>t. /\ Torn.status = "torn" /\ Mangled.status = "mangled" /\ store \in [Jobs -> Records]
        /\ request \in [Requests -> RequestRecords]
    BY DEF Torn, Mangled, Record, LInv, TypeOK, RequestRecords
  <2>n. NoJob.status = "none" /\ NoJob.bundle = None
    BY DEF NoJob, Record
  <2>1. ASSUME NEW a \in Requests, JobOf(a) = j, Writing(a)
        PROVE  /\ a = j => store[j].status \notin TerminalJobStatuses
                             \/ store[j].status = request[j].new.status
               /\ a # j => /\ store[j].status # "failed" /\ ~ Writing(j)
                           /\ request[a].new.status = "succeeded"
    <3>1. CASE a \in Jobs
      BY <2>1, <3>1 DEF LInv, SettlesFirst, Unsettled, InHands, Sound, JobOf, Halfway,
                        TerminalJobStatuses
    <3>2. CASE a \in Reviews
      <4>1. a \notin Jobs /\ Target[a] = j
        BY <2>1, <3>2 DEF JobOf
      <4>2. /\ request[a].seen # None
            /\ request[a].new = Record("succeeded", Reviewed(request[a].seen, a))
        BY <2>1, <4>1 DEF LInv, InHands, ReviewOf
      <4>3. request[a].new.status = "succeeded"
        BY <4>2 DEF Record
      <4> QED
        BY <3>2, <4>1, <4>2, <4>3 DEF LInv, SettlesFirst, Unsettled
    <3> QED
      BY <3>1, <3>2
  <2>2. ~ TerminalJobStatuses \subseteq Outcomes(j)
    <3>1. ASSUME "failed" \in Outcomes(j), "succeeded" \in Outcomes(j) PROVE FALSE
      <4>1. \A a \in Requests : ~ Writing(a) => request[a].new.status = "none"
        BY <2>n DEF LInv, InHands, HandsOf
      <4>2. \/ store[j].status = "failed"
            \/ \E a \in Requests : JobOf(a) = j /\ Writing(a) /\ request[a].new.status = "failed"
        BY <3>1, <4>1 DEF Outcomes, TerminalJobStatuses
      <4>3. \/ store[j].status = "succeeded"
            \/ \E a \in Requests : /\ JobOf(a) = j /\ Writing(a)
                                   /\ request[a].new.status = "succeeded"
        BY <3>1, <4>1 DEF Outcomes, TerminalJobStatuses
      <4> QED
        BY <2>1, <4>2, <4>3 DEF TerminalJobStatuses
    <3> QED
      BY <3>1 DEF TerminalJobStatuses
  <2>3. ASSUME store[j].status \in TerminalJobStatuses, store'[j] # NoJob, store'[j] # store[j]
        PROVE  store'[j].status \in {store[j].status, "torn", "mangled"}
    <3>2. PICK a \in Requests : Open(a) \/ Write(a)
      BY <2>3, WritersOnly
    <3>1. JobOf(a) = j /\ Writing(a)
      BY <2>3, <2>t, <3>2 DEF Open, Write, Writing, At
    <3>3. store'[j].status \in {request[a].new.status, "torn", "mangled"}
      BY <2>t, <3>1, <3>2 DEF Open, Write, Stored, Records
    <3>4. a = j => store[j].status = request[a].new.status
      BY <2>1, <2>3, <3>1
    <3>5. a # j => store[j].status = request[a].new.status
      BY <2>1, <2>3, <3>1 DEF TerminalJobStatuses
    <3> QED
      BY <3>3, <3>4, <3>5
  <2> QED
    BY <2>2, <2>3
<1> QED
  BY <1>1, LocalInvariant, PTL DEF Spec, SettledOnce

-----------------------------------------------------------------------------
(* The review that overwrites a decision had not read it, and no answered   *)
(* review had read the overwriting one.                                     *)
LEMMA LostStep == LInv /\ LostToAnswered /\ [Next]_vars => LostToAnswered'
<1> USE LocalAssumption, JobOfRequest DEF Requests
<1> SUFFICES ASSUME LInv, LostToAnswered, [Next]_vars,
                    NEW v \in Reviews, Attached(v)', store'[Target[v]].status = "succeeded"
             PROVE  \/ Kept(v)'
                    \/ \E w \in Reviews \ {v} :
                         /\ Target[w] = Target[v] /\ (request[w].seen # None)'
                         /\ At(w, "done")' /\ ~ Saw(v, w)' /\ ~ Saw(w, v)'
  BY DEF LostToAnswered
<1>t. request \in [Requests -> RequestRecords] /\ store \in [Jobs -> Records]
  BY DEF LInv, TypeOK, RequestRecords
<1>1. CASE \E a \in Requests : Write(a) /\ JobOf(a) = Target[v]
  <2>1. PICK a \in Requests : Write(a) /\ JobOf(a) = Target[v]
    BY <1>1
  <2>m. Mangled.status = "mangled"
    BY DEF Mangled, Record
  <2>2. /\ Writing(a) /\ ~ At(a, "done") /\ store'[Target[v]] = request[a].new
        /\ request'[a].at = request[a].next /\ request'[a].seen = request[a].seen
    BY <2>1, <2>m, <1>t DEF Write, Stored, Writing, At, RequestRecords
  <2>3. a \in Reviews
    <3>1. ASSUME a \in Jobs PROVE FALSE
      <4>1. Unsettled(Target[v])
        BY <2>1, <2>2, <3>1 DEF Unsettled, JobOf
      <4>2. request[v].seen = None
        BY <4>1 DEF LInv, SettlesFirst
      <4>3. ~ Attached(v) /\ v # a
        BY <4>2, <3>1 DEF Attached
      <4>4. request'[v] = request[v]
        BY <2>1, <4>3, <1>t DEF Write, RequestRecords
      <4> QED
        BY <4>3, <4>4 DEF Attached, At
    <3> QED
      BY <3>1
  <2>4. /\ request[a].seen # None /\ request[a].next = "done" /\ Target[a] = Target[v]
        /\ request[a].new = Record("succeeded", Reviewed(request[a].seen, a))
    BY <2>1, <2>2, <2>3 DEF LInv, InHands, ReviewOf, JobOf
  <2>5. store'[Target[v]].bundle.decisions = Append(request[a].seen.decisions, a)
    <3>1. Record("succeeded", Reviewed(request[a].seen, a)).bundle.decisions
            = Append(request[a].seen.decisions, a)
      BY DEF Record, Reviewed
    <3> QED
      BY <2>2, <2>4, <3>1, Zenon
  <2>6. request[a].seen.decisions \in Seq(Reviews)
    BY <2>4, <1>t DEF RequestRecords, Bundles
  <2>7. ToSet(store'[Target[v]].bundle.decisions) = ToSet(request[a].seen.decisions) \cup {a}
    BY <2>3, <2>5, <2>6, AppendedSet
  <2>8. CASE v = a \/ v \in ToSet(request[a].seen.decisions)
    BY <2>7, <2>8 DEF Kept
  <2>9. CASE v # a /\ v \notin ToSet(request[a].seen.decisions)
    <3>1. request'[v] = request[v] /\ request[v].seen # None
      BY <2>1, <2>9, <1>t DEF Write, RequestRecords, Attached
    <3>2. ~ Saw(v, a)' /\ ~ Saw(a, v)'
      BY <2>2, <2>3, <2>9, <3>1 DEF LInv, NotYetKept, Saw
    <3> QED
      BY <2>2, <2>3, <2>4, <2>9, <3>2 DEF At
  <2> QED
    BY <2>8, <2>9
<1>2. CASE ~ \E a \in Requests : Write(a) /\ JobOf(a) = Target[v]
  <2>2. Attached(v)
    <3>1. ~ Write(v)
      BY <1>2 DEF JobOf
    <3> QED
      BY <3>1, AnsweredByWrite
  <2>1. store'[Target[v]] = store[Target[v]]
    <3>1. ~ Unsettled(Target[v])
      BY <2>2 DEF LInv, SettlesFirst, Attached
    <3> QED
      BY <1>2, <3>1, AnsweredByWrite
  <2>3. \A w \in Reviews : At(w, "done") => request'[w] = request[w]
    BY AnsweredByWrite
  <2>4. request'[v] = request[v]
    BY <2>2, <2>3 DEF Attached
  <2>5. CASE Kept(v)
    BY <2>1, <2>5 DEF Kept
  <2>6. CASE ~ Kept(v)
    <3>1. PICK w \in Reviews \ {v} : /\ Target[w] = Target[v] /\ request[w].seen # None
                                     /\ At(w, "done") /\ ~ Saw(v, w) /\ ~ Saw(w, v)
      BY <2>1, <2>2, <2>6 DEF LostToAnswered
    <3>2. request'[w] = request[w]
      BY <2>3, <3>1
    <3> QED
      BY <2>4, <3>1, <3>2 DEF At, Saw
  <2> QED
    BY <2>5, <2>6
<1> QED
  BY <1>1, <1>2

(* A decision attached to a bundle is lost only to one attached at the same *)
(* time, however many processes, jobs and reviews there are.                *)
THEOREM LostToConcurrentReviews == Spec => []OnlyConcurrentReviewsAreLost
<1>1. Init => LInv /\ LostToAnswered
  BY InitLInv
<1>2. LostToAnswered => OnlyConcurrentReviewsAreLost
  BY DEF LostToAnswered, OnlyConcurrentReviewsAreLost
<1> QED
  BY <1>1, <1>2, LocalInvariant, LostStep, PTL DEF Spec
=============================================================================
