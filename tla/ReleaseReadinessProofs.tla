----------------------- MODULE ReleaseReadinessProofs -----------------------
(***************************************************************************)
(* Proofs about LiveProviders and ReleaseReadiness, for any models,        *)
(* environments, lists of evidence and changes of files: nothing is sent   *)
(* without the gate, a ranking leads with its best, the mock endpoint is   *)
(* no evidence, and what a report claims was so.                           *)
(***************************************************************************)
EXTENDS ReleaseReadiness, SequenceTheorems, TLAPS

(* Where a live check is: a smoke asks for models only with the gate open, *)
(* a text is sent only so and to a model that has a name, and what is      *)
(* reported and still to do is one result or at most MaxModels.            *)
Underway ==
    /\ op.at = "discover" => results = <<>> /\ (op.kind = "smoke" => op.env.gate)
    /\ op.at \in {"next", "chat"} =>
          /\ op.env.gate => op.todo \in Seq(Models)
          /\ op.kind = "smoke" => Len(results) + Len(op.todo) = 1
          /\ op.kind = "ranking" => Len(results) + Len(op.todo) <= MaxModels
    /\ op.at = "chat" => op.env.gate /\ op.todo # <<>>

(* What went out, and what is reported of it. *)
Gated ==
    /\ \A c \in calls : c.gate \/ (c.what = "models" /\ c.kind = "ranking")
    /\ \A i \in DOMAIN results : results[i].attempted => results[i].enabled

(* A runtime probe says whether its environment looked like the mock's. *)
Told(p) == p.done => p.mock = LooksMock(p.env)

LiveInv == LiveTypeOK /\ Underway /\ Gated /\ RankingLeadsWithBest /\ Told(probe)

-----------------------------------------------------------------------------
(* What a pass over the files is about: the items that pass. *)
Passing == {item \in Items : Passes(item)}

(* From the start of a command to the next one, "passed" has what passes   *)
(* and is just that if no file has changed.                                *)
PassedInv ==
    run.at = "reading" \/ report.done =>
        /\ Passing \subseteq passed
        /\ ~changed => passed = Passing

(* Each verdict so far: what was found to pass did pass, and without a     *)
(* change passes still.                                                    *)
ReadInv ==
    run.at = "reading" =>
        /\ report = NoReport
        /\ \A i \in DOMAIN run.read :
              /\ run.read[i] => ReadingsOf(run.command)[i] \in passed
              /\ ~changed => run.read[i] = Passes(ReadingsOf(run.command)[i])

ReportInv == ClaimIsBacked /\ ManifestAgrees

Inv == LiveInv /\ Told(evidence.runtime) /\ TypeOK /\ PassedInv /\ ReadInv /\ ReportInv

-----------------------------------------------------------------------------
(* Live checks. *)
Ops == [at : {"discover", "next", "chat"}, kind : Kinds, provider : Providers,
        env : Environments, todo : Seq(Models \cup {"none"})]

(* The models a ranking tries are some of those that it was given, at most *)
(* max_models of them.                                                     *)
LEMMA FirstModelsType ==
  ASSUME NEW models \in Seq(Models)
  PROVE  /\ FirstModels(models) \in Seq(Models)
         /\ Len(FirstModels(models)) \in Nat
         /\ Len(FirstModels(models)) <= MaxModels
<1> DEFINE n == IF Len(models) < MaxModels THEN Len(models) ELSE MaxModels
<1>1. n \in Nat /\ n <= Len(models) /\ n <= MaxModels
  BY LiveAssumption
<1>2. \A i \in 1..n : models[i] \in Models
  BY <1>1
<1>3. SubSeq(models, 1, n) \in Seq(Models)
      /\ Len(SubSeq(models, 1, n)) = IF 1 <= n THEN n - 1 + 1 ELSE 0
  BY <1>1, <1>2, SubSeqProperties
<1> QED
  BY <1>1, <1>3 DEF FirstModels

(* A result that is not a success is a legal result, the failure of the    *)
(* command under way as well.                                              *)
LEMMA ResultType ==
  ASSUME NEW provider \in Providers, NEW configured \in BOOLEAN, NEW e \in Environments,
         NEW attempted \in BOOLEAN, attempted => configured
  PROVE  /\ Result(provider, configured, e, attempted) \in Results
         /\ Result(provider, configured, e, attempted).success = FALSE
         /\ Result(provider, configured, e, attempted).attempted = attempted
<1> DEFINE r == Result(provider, configured, e, attempted)
<1>1. e.gate \in BOOLEAN
  BY LiveAssumption
<1>2. r \in [provider : Providers, configured : BOOLEAN, enabled : BOOLEAN, attempted : BOOLEAN,
             success : BOOLEAN, model : Models \cup {"none"}, score : 0..1, latency : 0..1,
             env : Environments]
  BY <1>1 DEF Result
<1>3. r.success = FALSE /\ r.attempted = attempted /\ r.configured = configured
  BY DEF Result
<1> QED
  BY <1>2, <1>3 DEF Results

(* A failed smoke is a legal result that says it was enabled. *)
LEMMA FailureType ==
  ASSUME op \in Ops
  PROVE  /\ Failure \in Results
         /\ Failure.enabled = TRUE /\ Failure.success = FALSE
<1> DEFINE r == Result(op.provider, TRUE, op.env, TRUE)
<1>1. op.provider \in Providers /\ op.env \in Environments
  BY DEF Ops
<1>2. r \in Results /\ r.success = FALSE /\ r.attempted = TRUE
  BY <1>1, ResultType
<1>3. r \in [provider : Providers, configured : BOOLEAN, enabled : BOOLEAN, attempted : BOOLEAN,
             success : BOOLEAN, model : Models \cup {"none"}, score : 0..1, latency : 0..1,
             env : Environments]
      /\ r.configured = TRUE
  BY <1>2 DEF Results
<1>4. Failure = [r EXCEPT !.enabled = TRUE]
  BY DEF Failure
<1>5. Failure \in [provider : Providers, configured : BOOLEAN, enabled : BOOLEAN, attempted : BOOLEAN,
             success : BOOLEAN, model : Models \cup {"none"}, score : 0..1, latency : 0..1,
             env : Environments]
      /\ Failure.enabled = TRUE /\ Failure.success = FALSE /\ Failure.attempted = TRUE
      /\ Failure.configured = TRUE
  BY <1>2, <1>3, <1>4
<1> QED
  BY <1>5 DEF Results

(* So is a success with the model, score and latency of the answer. *)
LEMMA SuccessType ==
  ASSUME op \in Ops, NEW model \in Models, NEW score \in 0..1, NEW latency \in 0..1
  PROVE  LET r == [Failure EXCEPT !.success = TRUE, !.model = model,
                                  !.score = score, !.latency = latency]
         IN  r \in Results /\ r.enabled = TRUE
<1> DEFINE r == [Failure EXCEPT !.success = TRUE, !.model = model,
                                !.score = score, !.latency = latency]
<1>1. Failure \in [provider : Providers, configured : BOOLEAN, enabled : BOOLEAN, attempted : BOOLEAN,
             success : BOOLEAN, model : Models \cup {"none"}, score : 0..1, latency : 0..1,
             env : Environments]
  BY FailureType DEF Results
<1>2. Failure.enabled = TRUE /\ Failure.attempted = TRUE /\ Failure.configured = TRUE
  <2>1. op.provider \in Providers /\ op.env \in Environments
    BY DEF Ops
  <2> QED
    BY <2>1 DEF Failure, Result
<1>3. r \in [provider : Providers, configured : BOOLEAN, enabled : BOOLEAN, attempted : BOOLEAN,
             success : BOOLEAN, model : Models \cup {"none"}, score : 0..1, latency : 0..1,
             env : Environments]
      /\ r.enabled = TRUE /\ r.attempted = TRUE /\ r.configured = TRUE /\ r.model = model
  BY <1>1, <1>2
<1> QED
  BY <1>3, LiveAssumption DEF Results

(* Nothing that succeeded stands behind a failure or a worse score.        *)
LEMMA Ahead ==
  ASSUME NEW r \in Results, NEW t \in Results, RankedBefore(r, t), t.success
  PROVE  r.success /\ r.score >= t.score
<1>1. r.success \in BOOLEAN /\ t.success = TRUE /\ r.score \in Int /\ t.score \in Int
  BY DEF Results
<1>2. r.success = TRUE
  BY <1>1 DEF RankedBefore
<1>3. r.score > t.score \/ r.score = t.score
  BY <1>1, <1>2 DEF RankedBefore
<1> QED
  BY <1>1, <1>2, <1>3

(* A sorted list has the results of the unsorted one, the best in front.   *)
LEMMA Sorted ==
  ASSUME NEW all \in Seq(Results), NEW order \in [DOMAIN all -> DOMAIN all],
         Sorts(order, all)
  PROVE  LET s == [i \in DOMAIN all |-> all[order[i]]]
         IN  /\ s \in Seq(Results) /\ Len(s) = Len(all)
             /\ \A i \in DOMAIN s : order[i] \in DOMAIN all /\ s[i] = all[order[i]]
             /\ \A i \in DOMAIN s :
                   s[i].success => s[1].success /\ s[1].score >= s[i].score
<1> DEFINE s == [i \in DOMAIN all |-> all[order[i]]]
<1>1. DOMAIN all = 1..Len(all) /\ Len(all) \in Nat
  OBVIOUS
<1>2. \A i \in DOMAIN all : order[i] \in DOMAIN all /\ all[order[i]] \in Results
  BY <1>1
<1>3. s \in [1..Len(all) -> Results]
  BY <1>1, <1>2
<1>4. s \in Seq(Results) /\ Len(s) = Len(all) /\ DOMAIN s = DOMAIN all
  BY <1>1, <1>3
<1>5. ASSUME NEW i \in DOMAIN s, s[i].success
      PROVE  s[1].success /\ s[1].score >= s[i].score
  <2>1. 1 \in DOMAIN all /\ i \in DOMAIN all /\ i \in Nat /\ (i = 1 \/ 1 < i)
    BY <1>1, <1>4
  <2>2. s[1] \in Results /\ s[i] \in Results
    BY <2>1, <1>2
  <2>3. s[i].score \in Int
    BY <2>2 DEF Results
  <2>4. CASE i = 1
    BY <2>3, <2>4, <1>5
  <2>5. CASE 1 < i
    <3>1. RankedBefore(s[1], s[i])
      BY <2>1, <2>5 DEF Sorts
    <3> QED
      BY <3>1, <2>2, <1>5, Ahead
  <2> QED
    BY <2>1, <2>4, <2>5
<1> QED
  BY <1>2, <1>4, <1>5

(* What a check may have found before it reports. *)
Reportable(all) ==
    /\ all \in Seq(Results)
    /\ \A i \in DOMAIN all : all[i].attempted => all[i].enabled
    /\ op.kind = "smoke" => Len(all) = 1
    /\ op.kind = "ranking" => Len(all) <= MaxModels

(* A report is of that, and if it is a ranking it leads with the best. *)
LEMMA Reported ==
  ASSUME op \in Ops, NEW all, Reportable(all), Report(all)
  PROVE  /\ op' = Idle /\ results' \in Seq(Results)
         /\ Len(results') <= MaxModels \/ Len(results') = 1
         /\ \A i \in DOMAIN results' : results'[i].attempted => results'[i].enabled
         /\ \A i \in DOMAIN results' :
               results'[i].success => results'[1].success /\ results'[1].score >= results'[i].score
<1>1. op' = Idle /\ all \in Seq(Results)
  BY DEF Report, Reportable
<1>2. CASE op.kind = "ranking"
  <2>1. PICK order \in [DOMAIN all -> DOMAIN all] :
           Sorts(order, all) /\ results' = [i \in DOMAIN all |-> all[order[i]]]
    BY <1>2 DEF Report
  <2>2. /\ results' \in Seq(Results) /\ Len(results') = Len(all)
        /\ \A i \in DOMAIN results' : order[i] \in DOMAIN all /\ results'[i] = all[order[i]]
        /\ \A i \in DOMAIN results' :
               results'[i].success => results'[1].success /\ results'[1].score >= results'[i].score
    BY <1>1, <2>1, Sorted
  <2>3. \A i \in DOMAIN results' : results'[i].attempted => results'[i].enabled
    BY <2>2 DEF Reportable
  <2>4. Len(results') <= MaxModels
    BY <1>2, <2>2 DEF Reportable
  <2> QED
    BY <1>1, <2>2, <2>3, <2>4
<1>3. CASE op.kind = "smoke"
  <2>1. results' = all /\ Len(all) = 1 /\ DOMAIN all = {1}
    BY <1>1, <1>3 DEF Report, Reportable
  <2>2. all[1] \in Results
    BY <1>1, <2>1
  <2>3. all[1].score \in Int
    BY <2>2 DEF Results
  <2>4. \A i \in DOMAIN all : all[i].success => all[1].success /\ all[1].score >= all[i].score
    BY <2>1, <2>3
  <2> QED
    BY <1>1, <2>1, <2>4 DEF Reportable
<1> QED
  BY <1>2, <1>3 DEF Ops, Kinds

(* Before the first command nothing is under way, sent or reported. *)
LEMMA LiveInitInv == LiveInit => LiveInv
<1> SUFFICES ASSUME LiveInit PROVE LiveInv
  OBVIOUS
<1>1. LiveTypeOK
  BY LiveAssumption DEF LiveInit, LiveTypeOK, Probes
<1>2. Underway /\ Gated /\ RankingLeadsWithBest
  BY DEF LiveInit, Underway, Gated, RankingLeadsWithBest, Idle
<1>3. Told(probe)
  BY DEF LiveInit, Told, NoProbe
<1> QED
  BY <1>1, <1>2, <1>3 DEF LiveInv

(* A step that leaves no check under way and reports what may be reported. *)
LEMMA Rests ==
  ASSUME LiveInv, op' \in {Idle, Raised}, UNCHANGED <<env, switches, probe>>,
         results' \in Seq(Results), Len(results') <= MaxModels \/ Len(results') = 1,
         Gated',
         \A i \in DOMAIN results' :
            results'[i].success => results'[1].success /\ results'[1].score >= results'[i].score
  PROVE  LiveInv'
<1>1. LiveTypeOK'
  BY DEF LiveInv, LiveTypeOK
<1>2. op'.at \in {"idle", "raised"}
  BY DEF Idle, Raised
<1>3. Underway' /\ RankingLeadsWithBest'
  BY <1>2 DEF Underway, RankingLeadsWithBest
<1>4. Told(probe)'
  BY DEF LiveInv, Told, LooksMock
<1> QED
  BY <1>1, <1>3, <1>4 DEF LiveInv

(* A step after which a check is under way. *)
LEMMA GoesOn ==
  ASSUME LiveInv, op' \in Ops, UNCHANGED <<env, switches, probe>>,
         results' \in Seq(Results), Len(results') <= MaxModels \/ Len(results') = 1,
         Gated', Underway'
  PROVE  LiveInv'
<1>1. LiveTypeOK'
  BY DEF LiveInv, LiveTypeOK, Ops
<1>2. op'.at # "idle"
  BY DEF Ops
<1>3. RankingLeadsWithBest'
  BY <1>2 DEF RankingLeadsWithBest
<1>4. Told(probe)'
  BY DEF LiveInv, Told, LooksMock
<1> QED
  BY <1>1, <1>3, <1>4 DEF LiveInv

(* A smoke starts: not configured, asking for models, or at its model. *)
LEMMA SmokeStep ==
  ASSUME LiveInv, NEW provider \in Providers, Smoke(provider)
  PROVE  LiveInv'
<1>1. env \in Environments /\ env.gate \in BOOLEAN /\ calls' = {}
      /\ UNCHANGED <<env, switches, probe>>
  BY LiveAssumption DEF LiveInv, LiveTypeOK, Smoke
<1>2. CASE ~Configured(provider, env)
  <2> DEFINE r == Result(provider, FALSE, env, FALSE)
  <2>1. r \in Results /\ r.attempted = FALSE /\ r.success = FALSE
    BY <1>1, ResultType
  <2>2. results' = <<r>> /\ op' = Idle
    BY <1>2 DEF Smoke
  <2> HIDE DEF r
  <2>3. /\ results' \in Seq(Results) /\ Len(results') = 1
        /\ \A i \in DOMAIN results' : results'[i] = r
    BY <2>1, <2>2
  <2>4. Gated'
    BY <1>1, <2>1, <2>3 DEF Gated
  <2> QED
    BY <1>1, <2>1, <2>2, <2>3, <2>4, Rests
<1>3. CASE Configured(provider, env)
  <2> DEFINE models == ConfiguredModels(provider, env)
  <2>1. models \in Seq(Models)
    BY <1>1, <1>3, LiveAssumption
       DEF Configured, ConfiguredModels, Providers, Clouds, Local
  <2>2. results' = <<>>
    BY <1>3 DEF Smoke
  <2>3. results' \in Seq(Results) /\ Len(results') = 0 /\ Gated'
    BY <1>1, <2>2 DEF Gated
  <2>4. CASE models = <<>> /\ env.gate
    <3>1. op' = [at |-> "discover", kind |-> "smoke", provider |-> provider,
                 env |-> env, todo |-> <<>>]
      BY <1>3, <2>4 DEF Smoke, Started
    <3>2. op' \in Ops /\ op'.at = "discover" /\ op'.env.gate
      BY <1>1, <2>4, <3>1 DEF Ops, Kinds
    <3>3. Underway'
      BY <2>2, <3>2 DEF Underway
    <3> QED
      BY <1>1, <2>3, <3>2, <3>3, LiveAssumption, GoesOn
  <2>5. CASE ~(models = <<>> /\ env.gate)
    <3> DEFINE todo == <<IF models = <<>> THEN "none" ELSE models[1]>>
    <3>1. op' = [at |-> "next", kind |-> "smoke", provider |-> provider,
                 env |-> env, todo |-> todo]
      BY <1>3, <2>5 DEF Smoke, Started
    <3>2. /\ todo \in Seq(Models \cup {"none"}) /\ Len(todo) = 1
          /\ env.gate => todo \in Seq(Models)
      BY <2>1, <2>5
    <3> HIDE DEF todo
    <3>3. op' \in Ops
      BY <1>1, <3>1, <3>2 DEF Ops, Kinds
    <3>4. Underway'
      BY <2>3, <3>1, <3>2 DEF Underway
    <3> QED
      BY <1>1, <2>3, <3>3, <3>4, LiveAssumption, GoesOn
  <2> QED
    BY <2>4, <2>5
<1> QED
  BY <1>2, <1>3

(* A ranking starts: no base URL, asking for models, or at the first. *)
LEMMA RankStep ==
  ASSUME LiveInv, Rank
  PROVE  LiveInv'
<1>1. /\ env \in Environments /\ env.local \in Seq(Models) /\ calls' = {} /\ results' = <<>>
      /\ UNCHANGED <<env, switches, probe>>
  BY LiveAssumption DEF LiveInv, LiveTypeOK, Rank
<1>2. results' \in Seq(Results) /\ Len(results') = 0 /\ DOMAIN results' = {} /\ Gated'
  BY <1>1 DEF Gated
<1>3. Len(results') <= MaxModels
  BY <1>2, LiveAssumption
<1>4. CASE op' = Idle
  BY <1>1, <1>2, <1>3, <1>4, Rests
<1>5. CASE op' = [at |-> "discover", kind |-> "ranking", provider |-> Local,
                  env |-> env, todo |-> <<>>]
  <2>1. op' \in Ops /\ op'.at = "discover" /\ op'.kind = "ranking"
    BY <1>1, <1>5 DEF Ops, Kinds, Providers
  <2>2. Underway'
    BY <1>1, <2>1 DEF Underway
  <2> QED
    BY <1>1, <1>2, <1>3, <2>1, <2>2, GoesOn
<1>6. CASE op' = [at |-> "next", kind |-> "ranking", provider |-> Local,
                  env |-> env, todo |-> FirstModels(env.local)]
  <2>1. /\ FirstModels(env.local) \in Seq(Models)
        /\ FirstModels(env.local) \in Seq(Models \cup {"none"})
        /\ Len(FirstModels(env.local)) \in Nat /\ Len(FirstModels(env.local)) <= MaxModels
    BY <1>1, FirstModelsType
  <2>2. op' \in Ops
    BY <1>1, <1>6, <2>1 DEF Ops, Kinds, Providers
  <2>3. Underway'
    BY <1>2, <1>6, <2>1 DEF Underway
  <2> QED
    BY <1>1, <1>2, <1>3, <2>2, <2>3, GoesOn
<1> QED
  BY <1>4, <1>5, <1>6 DEF Rank, Started

(* The command under way, and what its requests are. *)
LEMMA AtWork ==
  ASSUME LiveInv, op.at \notin {"idle", "raised"}
  PROVE  /\ op \in Ops /\ op.kind \in Kinds /\ op.env \in Environments /\ op.env.gate \in BOOLEAN
         /\ results \in Seq(Results)
         /\ \A i \in DOMAIN results : results[i].attempted => results[i].enabled
<1>1. op \in Ops
  BY DEF LiveInv, LiveTypeOK, Ops, Idle, Raised
<1> QED
  BY <1>1, LiveAssumption DEF LiveInv, LiveTypeOK, Gated, Ops

(* The failure of a smoke is a report of its own. *)
LEMMA FailureReported ==
  ASSUME op \in Ops, op.kind = "smoke"
  PROVE  Reportable(<<Failure>>)
<1>1. Failure \in Results /\ Failure.enabled = TRUE
  BY FailureType
<1> QED
  BY <1>1 DEF Reportable

(* Models are asked for: only with the gate open, or for a ranking. *)
LEMMA DiscoverStep ==
  ASSUME LiveInv, Discover
  PROVE  LiveInv'
<1>1. /\ op \in Ops /\ op.kind \in Kinds /\ op.env \in Environments /\ op.env.gate \in BOOLEAN
      /\ op.at = "discover" /\ results = <<>> /\ (op.kind = "smoke" => op.env.gate)
      /\ UNCHANGED <<env, switches, probe>>
  BY AtWork DEF Discover, LiveInv, Underway
<1>2. \A c \in calls' : c.gate \/ (c.what = "models" /\ c.kind = "ranking")
  <2> DEFINE new == [what |-> "models", kind |-> op.kind, gate |-> op.env.gate]
  <2>1. new.gate \/ (new.what = "models" /\ new.kind = "ranking")
    BY <1>1 DEF Kinds
  <2>2. calls' = calls \cup {new}
    BY DEF Discover, Called
  <2> HIDE DEF new
  <2> QED
    BY <2>1, <2>2, Zenon DEF LiveInv, Gated
<1>3. CASE op.kind = "smoke" /\ Report(<<Failure>>)
  <2>1. /\ op' = Idle /\ results' \in Seq(Results)
        /\ Len(results') <= MaxModels \/ Len(results') = 1
        /\ \A i \in DOMAIN results' : results'[i].attempted => results'[i].enabled
        /\ \A i \in DOMAIN results' :
              results'[i].success => results'[1].success /\ results'[1].score >= results'[i].score
    BY <1>1, <1>3, FailureReported, Reported
  <2>2. Gated'
    BY <1>2, <2>1 DEF Gated
  <2> QED
    BY <1>1, <2>1, <2>2, Rests
<1>4. CASE op' = Raised /\ results' = <<>>
  <2>1. Gated' /\ results' \in Seq(Results) /\ Len(results') = 0 /\ DOMAIN results' = {}
    BY <1>2, <1>4 DEF Gated
  <2>2. Len(results') <= MaxModels
    BY <2>1, LiveAssumption
  <2> QED
    BY <1>1, <1>4, <2>1, <2>2, Rests
<1>5. ASSUME NEW models \in Offers, ~(models = <<>> /\ op.kind = "smoke"),
             op' = [op EXCEPT !.at = "next",
                       !.todo = IF op.kind = "smoke" THEN <<models[1]>> ELSE FirstModels(models)],
             results' = results
      PROVE  LiveInv'
  <2> DEFINE todo == IF op.kind = "smoke" THEN <<models[1]>> ELSE FirstModels(models)
  <2>1. models \in Seq(Models)
    BY LiveAssumption
  <2>2. /\ todo \in Seq(Models) /\ Len(todo) \in Nat
        /\ op.kind = "smoke" => Len(todo) = 1
        /\ op.kind = "ranking" => Len(todo) <= MaxModels
    <3>1. CASE op.kind = "smoke"
      BY <2>1, <1>5, <3>1
    <3>2. CASE op.kind = "ranking"
      BY <2>1, <3>2, FirstModelsType
    <3> QED
      BY <1>1, <3>1, <3>2 DEF Kinds
  <2> HIDE DEF todo
  <2>3. todo \in Seq(Models \cup {"none"})
    BY <2>2
  <2>4. op' = [op EXCEPT !.at = "next", !.todo = todo]
    BY <1>5 DEF todo
  <2>5. /\ op' \in Ops /\ op'.at = "next" /\ op'.kind = op.kind /\ op'.env = op.env
        /\ op'.todo = todo
    BY <1>1, <2>3, <2>4 DEF Ops
  <2>6. results' \in Seq(Results) /\ Len(results') = 0 /\ DOMAIN results' = {}
    BY <1>1, <1>5
  <2>7. Underway'
    BY <2>2, <2>5, <2>6 DEF Underway
  <2>8. Gated'
    BY <1>2, <2>6 DEF Gated
  <2>9. Len(results') <= MaxModels
    BY <2>6, LiveAssumption
  <2> QED
    BY <1>1, <2>5, <2>6, <2>7, <2>8, <2>9, GoesOn
<1> QED
  <2>1. ASSUME NEW models \in Offers,
               IF models = <<>> /\ op.kind = "smoke"
               THEN Report(<<Failure>>)
               ELSE /\ op' = [op EXCEPT !.at = "next",
                         !.todo = IF op.kind = "smoke" THEN <<models[1]>> ELSE FirstModels(models)]
                    /\ UNCHANGED results
        PROVE  LiveInv'
    BY <2>1, <1>3, <1>5
  <2> QED
    BY <2>1, <1>3, <1>4 DEF Discover

(* A model comes next, is skipped behind a closed gate, or none is left. *)
LEMMA NextModelStep ==
  ASSUME LiveInv, NextModel
  PROVE  LiveInv'
<1>1. /\ op \in Ops /\ op.kind \in Kinds /\ op.env \in Environments /\ op.env.gate \in BOOLEAN
      /\ op.at = "next" /\ results \in Seq(Results)
      /\ UNCHANGED <<env, switches, probe, calls>>
      /\ \A i \in DOMAIN results : results[i].attempted => results[i].enabled
  BY AtWork DEF NextModel
<1>2. /\ op.env.gate => op.todo \in Seq(Models)
      /\ op.kind = "smoke" => Len(results) + Len(op.todo) = 1
      /\ op.kind = "ranking" => Len(results) + Len(op.todo) <= MaxModels
      /\ op.todo \in Seq(Models \cup {"none"}) /\ op.provider \in Providers
  BY <1>1 DEF LiveInv, Underway, Ops
<1>3. \A c \in calls' : c.gate \/ (c.what = "models" /\ c.kind = "ranking")
  BY <1>1 DEF LiveInv, Gated
<1>4. CASE op.todo = <<>> /\ Report(results)
  <2>1. Reportable(results)
    BY <1>1, <1>2, <1>4, LiveAssumption DEF Reportable
  <2>2. /\ op' = Idle /\ results' \in Seq(Results)
        /\ Len(results') <= MaxModels \/ Len(results') = 1
        /\ \A i \in DOMAIN results' : results'[i].attempted => results'[i].enabled
        /\ \A i \in DOMAIN results' :
              results'[i].success => results'[1].success /\ results'[1].score >= results'[i].score
    BY <1>1, <1>4, <2>1, Reported
  <2>3. Gated'
    BY <1>3, <2>2 DEF Gated
  <2> QED
    BY <1>1, <2>2, <2>3, Rests
<1>5. CASE op.todo # <<>> /\ Answerable(op.env) /\ op' = [op EXCEPT !.at = "chat"] /\ UNCHANGED results
  <2>1. /\ op' \in Ops /\ op'.at = "chat" /\ op'.kind = op.kind /\ op'.env = op.env
        /\ op'.todo = op.todo
    BY <1>1, <1>5 DEF Ops
  <2>2. Underway'
    BY <1>2, <1>5, <2>1 DEF Underway, Answerable
  <2>3. Gated' /\ LiveTypeOK
    BY <1>1, <1>3, <1>5 DEF Gated, LiveInv
  <2> QED
    BY <1>1, <1>5, <2>1, <2>2, <2>3, GoesOn DEF LiveTypeOK
<1>6. CASE /\ op.todo # <<>> /\ op' = [op EXCEPT !.todo = Tail(@)]
           /\ results' = Append(results, Result(op.provider, TRUE, op.env, FALSE))
  <2> DEFINE r == Result(op.provider, TRUE, op.env, FALSE)
  <2>1. r \in Results /\ r.attempted = FALSE
    BY <1>1, <1>2, ResultType
  <2> HIDE DEF r
  <2>2. results' = Append(results, r)
    BY <1>6 DEF r
  <2>3. /\ results' \in Seq(Results) /\ Len(results') = Len(results) + 1
        /\ \A i \in DOMAIN results' : results'[i].attempted => results'[i].enabled
    BY <1>1, <2>1, <2>2
  <2>4. /\ Tail(op.todo) \in Seq(Models \cup {"none"}) /\ Len(Tail(op.todo)) = Len(op.todo) - 1
        /\ op.todo \in Seq(Models) => Tail(op.todo) \in Seq(Models)
    BY <1>2, <1>6
  <2>5. /\ op' \in Ops /\ op'.at = "next" /\ op'.kind = op.kind /\ op'.env = op.env
        /\ op'.todo = Tail(op.todo)
    BY <1>1, <1>6, <2>4 DEF Ops
  <2>6. Len(results') + Len(Tail(op.todo)) = Len(results) + Len(op.todo)
    <3> DEFINE n == Len(results)
               m == Len(op.todo)
               rest == Len(Tail(op.todo))
    <3>1. n \in Int /\ m \in Int /\ Len(results') = n + 1 /\ rest = m - 1
      BY <1>1, <1>2, <2>3, <2>4
    <3> HIDE DEF n, m, rest
    <3>2. Len(results') + rest = n + m
      BY <3>1
    <3> QED
      BY <3>2 DEF n, m, rest
  <2>7. Underway'
    BY <1>2, <2>4, <2>5, <2>6 DEF Underway
  <2>8. Gated'
    BY <1>3, <2>3 DEF Gated
  <2>9. Len(results') <= MaxModels \/ Len(results') = 1
    BY <1>1, <1>2, <2>3, <2>4, <2>6, LiveAssumption DEF Kinds
  <2> QED
    BY <1>1, <2>3, <2>5, <2>7, <2>8, <2>9, GoesOn
<1> QED
  BY <1>4, <1>5, <1>6 DEF NextModel

(* A text was sent: the gate is open, and a model stays to be answered for. *)
LEMMA Answered ==
  ASSUME LiveInv, op.at = "chat", NEW r \in Results, r.enabled = TRUE, Answers(r),
         UNCHANGED <<env, switches, probe>>,
         \A c \in calls' : c.gate \/ (c.what = "models" /\ c.kind = "ranking")
  PROVE  LiveInv'
<1>1. /\ op \in Ops /\ op.kind \in Kinds /\ results \in Seq(Results)
      /\ \A i \in DOMAIN results : results[i].attempted => results[i].enabled
  BY AtWork
<1>2. /\ op.env.gate => op.todo \in Seq(Models)
      /\ op.kind = "smoke" => Len(results) + Len(op.todo) = 1
      /\ op.kind = "ranking" => Len(results) + Len(op.todo) <= MaxModels
      /\ op.todo \in Seq(Models \cup {"none"}) /\ op.todo # <<>>
  BY <1>1 DEF LiveInv, Underway, Ops
<1>3. op' = [op EXCEPT !.at = "next", !.todo = Tail(@)] /\ results' = Append(results, r)
  BY DEF Answers
<1>4. /\ results' \in Seq(Results) /\ Len(results') = Len(results) + 1
      /\ \A i \in DOMAIN results' : results'[i].attempted => results'[i].enabled
  BY <1>1, <1>3
<1>5. /\ Tail(op.todo) \in Seq(Models \cup {"none"}) /\ Len(Tail(op.todo)) = Len(op.todo) - 1
      /\ op.todo \in Seq(Models) => Tail(op.todo) \in Seq(Models)
  BY <1>2
<1>6. /\ op' \in Ops /\ op'.at = "next" /\ op'.kind = op.kind /\ op'.env = op.env
      /\ op'.todo = Tail(op.todo)
  BY <1>1, <1>3, <1>5 DEF Ops
<1>7. Len(results') + Len(Tail(op.todo)) = Len(results) + Len(op.todo)
  <2> DEFINE n == Len(results)
             m == Len(op.todo)
             rest == Len(Tail(op.todo))
  <2>1. n \in Int /\ m \in Int /\ Len(results') = n + 1 /\ rest = m - 1
    BY <1>1, <1>2, <1>4, <1>5
  <2> HIDE DEF n, m, rest
  <2>2. Len(results') + rest = n + m
    BY <2>1
  <2> QED
    BY <2>2 DEF n, m, rest
<1>8. Underway'
  BY <1>2, <1>5, <1>6, <1>7 DEF Underway
<1>9. Gated'
  BY <1>4 DEF Gated
<1>10. Len(results') <= MaxModels \/ Len(results') = 1
  BY <1>1, <1>2, <1>4, <1>5, <1>7, LiveAssumption DEF Kinds
<1> QED
  BY <1>4, <1>6, <1>8, <1>9, <1>10, GoesOn

(* A text is sent and answered, or the connection breaks. *)
LEMMA ChatStep ==
  ASSUME LiveInv, Chat
  PROVE  LiveInv'
<1>1. /\ op \in Ops /\ op.at = "chat" /\ op.env.gate = TRUE
      /\ op.todo \in Seq(Models) /\ op.todo # <<>>
      /\ UNCHANGED <<env, switches, probe>>
  BY AtWork DEF Chat, LiveInv, Underway
<1>2. \A c \in calls' : c.gate \/ (c.what = "models" /\ c.kind = "ranking")
  <2> DEFINE new == [what |-> "chat", kind |-> op.kind, gate |-> op.env.gate]
  <2>1. new.gate
    BY <1>1
  <2>2. calls' = calls \cup {new}
    BY DEF Chat, Called
  <2> HIDE DEF new
  <2> QED
    BY <2>1, <2>2, Zenon DEF LiveInv, Gated
<1>3. Head(op.todo) \in Models
  BY <1>1
<1>4. ASSUME NEW score \in 0..1, NEW latency \in 0..1,
             Answers([Failure EXCEPT !.success = TRUE, !.model = Head(op.todo),
                                     !.score = score, !.latency = latency])
      PROVE  LiveInv'
  <2> DEFINE r == [Failure EXCEPT !.success = TRUE, !.model = Head(op.todo),
                                  !.score = score, !.latency = latency]
  <2>1. r \in Results /\ r.enabled = TRUE
    BY <1>1, <1>3, SuccessType
  <2>2. Answers(r)
    BY <1>4
  <2> HIDE DEF r
  <2> QED
    BY <1>1, <1>2, <2>1, <2>2, Answered
<1>5. CASE Answers(Failure)
  <2>1. Failure \in Results /\ Failure.enabled = TRUE
    BY <1>1, FailureType
  <2> QED
    BY <1>1, <1>2, <1>5, <2>1, Answered
<1>6. CASE op' = Raised /\ results' = <<>>
  <2>1. Gated' /\ results' \in Seq(Results) /\ Len(results') = 0 /\ DOMAIN results' = {}
    BY <1>2, <1>6 DEF Gated
  <2>2. Len(results') <= MaxModels
    BY <2>1, LiveAssumption
  <2> QED
    BY <1>1, <1>6, <2>1, <2>2, Rests
<1> QED
  BY <1>4, <1>5, <1>6 DEF Chat

(* Every step of the live checks, and every step of others, keeps what is  *)
(* true of them.                                                           *)
LEMMA LiveStep ==
  ASSUME LiveInv, [LiveNext]_liveVars
  PROVE  LiveInv'
<1>1. CASE UNCHANGED liveVars
  BY <1>1 DEF liveVars, LiveInv, LiveTypeOK, Underway, Gated, RankingLeadsWithBest, Told, LooksMock
<1>2. CASE ChangeEnvironment
  <2>1. LiveTypeOK'
    BY <1>2, LiveAssumption DEF ChangeEnvironment, LiveInv, LiveTypeOK
  <2>2. Underway' /\ Gated' /\ RankingLeadsWithBest' /\ Told(probe)'
    BY <1>2 DEF ChangeEnvironment, LiveInv, Underway, Gated, RankingLeadsWithBest, Told, LooksMock
  <2> QED
    BY <2>1, <2>2 DEF LiveInv
<1>3. CASE Probe
  <2>1. PICK gpus \in 0..MaxGpus :
           probe' = [done |-> TRUE, gpus |-> gpus, mock |-> LooksMock(env),
                     ready |-> Configured(Local, env) /\ gpus > 0 /\ ~LooksMock(env),
                     env |-> env]
    BY <1>3 DEF Probe
  <2>2. env \in Environments
    BY DEF LiveInv, LiveTypeOK
  <2>3. LooksMock(env) \in BOOLEAN /\ (Configured(Local, env) /\ gpus > 0 /\ ~LooksMock(env)) \in BOOLEAN
    BY Zenon DEF LooksMock
  <2>4. probe' \in Probes /\ Told(probe')
    BY <2>1, <2>2, <2>3 DEF Probes, Told
  <2>5. LiveTypeOK'
    BY <1>3, <2>4 DEF Probe, LiveInv, LiveTypeOK
  <2>6. Underway' /\ Gated' /\ RankingLeadsWithBest'
    BY <1>3 DEF Probe, LiveInv, Underway, Gated, RankingLeadsWithBest
  <2> QED
    BY <2>4, <2>5, <2>6 DEF LiveInv, Told, LooksMock
<1> QED
  BY <1>1, <1>2, <1>3, RankStep, DiscoverStep, NextModelStep, ChatStep, SmokeStep DEF LiveNext

-----------------------------------------------------------------------------
(* What a pass over the files reads: every item once. *)
LEMMA RubricItems ==
  /\ Rubric \in Seq(Items) /\ Len(Rubric) = Len(Requirements) + 4
  /\ IsInjective(Rubric) /\ ToSet(Rubric) = Items
  /\ Requirements \in Seq(Items) /\ Len(Requirements) \in Nat
  /\ IsInjective(Requirements) /\ ToSet(Requirements) \subseteq Items
<1> DEFINE n == Len(Requirements)
           front == <<"live">> \o Requirements
<1>1. Requirements \in Seq(Items) /\ n \in Nat /\ DOMAIN Requirements = 1..n
  BY ReadinessAssumption DEF Items, ToSet
<1>2. front \in Seq(Items) /\ Len(front) = n + 1 /\ front[1] = "live"
      /\ \A i \in 1..n : front[i + 1] = Requirements[i]
  <2>1. <<"live">> \in Seq(Items) /\ Len(<<"live">>) = 1 /\ <<"live">>[1] = "live"
    BY DEF Items, Artifacts
  <2>2. /\ front \in Seq(Items) /\ Len(front) = 1 + n
        /\ \A i \in 1..(1 + n) : front[i] = IF i <= 1 THEN <<"live">>[i] ELSE Requirements[i - 1]
    BY <1>1, <2>1, ConcatProperties
  <2> HIDE DEF front
  <2>3. front[1] = "live"
    BY <1>1, <2>1, <2>2
  <2>4. ASSUME NEW i \in 1..n PROVE front[i + 1] = Requirements[i]
    <3>1. i + 1 \in 1..(1 + n) /\ ~(i + 1 <= 1) /\ (i + 1) - 1 = i
      BY <1>1
    <3> QED
      BY <2>2, <3>1
  <2> QED
    BY <1>1, <2>2, <2>3, <2>4
<1>3. \A i \in 2..(n + 1) : i - 1 \in 1..n /\ front[i] = Requirements[i - 1]
  <2> SUFFICES ASSUME NEW i \in 2..(n + 1)
               PROVE  i - 1 \in 1..n /\ front[i] = Requirements[i - 1]
    OBVIOUS
  <2>1. i - 1 \in 1..n /\ (i - 1) + 1 = i
    BY <1>1
  <2> QED
    BY <2>1, <1>2
<1> HIDE DEF front
<1>4. Rubric = front \o <<"local", "product", "manual">>
  BY DEF Rubric, front
<1>5. Rubric \in Seq(Items) /\ Len(Rubric) = n + 4
      /\ (\A i \in 1..(n + 1) : Rubric[i] = front[i])
      /\ Rubric[n + 2] = "local" /\ Rubric[n + 3] = "product" /\ Rubric[n + 4] = "manual"
  <2> DEFINE back == <<"local", "product", "manual">>
  <2>1. /\ back \in Seq(Items) /\ Len(back) = 3
        /\ back[1] = "local" /\ back[2] = "product" /\ back[3] = "manual"
    BY DEF Items, Artifacts
  <2> HIDE DEF back
  <2>2. /\ Rubric \in Seq(Items) /\ Len(Rubric) = (n + 1) + 3
        /\ \A i \in 1..((n + 1) + 3) : Rubric[i] = IF i <= n + 1 THEN front[i] ELSE back[i - (n + 1)]
    BY <1>1, <1>2, <1>4, <2>1, ConcatProperties DEF back
  <2>3. Rubric[n + 2] = back[1] /\ Rubric[n + 3] = back[2] /\ Rubric[n + 4] = back[3]
    <3>1. /\ {n + 2, n + 3, n + 4} \subseteq 1..((n + 1) + 3)
          /\ (n + 2) - (n + 1) = 1 /\ (n + 3) - (n + 1) = 2 /\ (n + 4) - (n + 1) = 3
          /\ ~(n + 2 <= n + 1) /\ ~(n + 3 <= n + 1) /\ ~(n + 4 <= n + 1)
      BY <1>1
    <3> QED
      BY <2>2, <3>1
  <2> QED
    BY <1>1, <2>1, <2>2, <2>3
<1>6. /\ Rubric[1] = "live"
      /\ \A i \in 2..(n + 1) : i - 1 \in 1..n /\ Rubric[i] = Requirements[i - 1]
  BY <1>1, <1>2, <1>3, <1>5
<1>7. \A i \in 1..n : Requirements[i] \notin {"live", "local", "product", "manual"}
  BY <1>1, ReadinessAssumption DEF Artifacts, ToSet
<1>8. DOMAIN Rubric = 1..(n + 4)
      /\ \A i \in 1..(n + 4) : i = 1 \/ i \in 2..(n + 1) \/ i = n + 2 \/ i = n + 3 \/ i = n + 4
  BY <1>1, <1>5
<1>9. /\ \A i \in 2..(n + 1) : Rubric[i] \notin {"live", "local", "product", "manual"}
      /\ \A i \in 1..(n + 4) : i \notin 2..(n + 1) => Rubric[i] \in {"live", "local", "product", "manual"}
  <2>1. ASSUME NEW i \in 2..(n + 1) PROVE Rubric[i] \notin {"live", "local", "product", "manual"}
    BY <1>6, <1>7
  <2>2. ASSUME NEW i \in 1..(n + 4), i \notin 2..(n + 1)
        PROVE  Rubric[i] \in {"live", "local", "product", "manual"}
    BY <1>5, <1>6, <1>8, <2>2
  <2> QED
    BY <2>1, <2>2
<1>10. IsInjective(Rubric)
  <2> SUFFICES ASSUME NEW i \in 1..(n + 4), NEW j \in 1..(n + 4), Rubric[i] = Rubric[j]
               PROVE  i = j
    BY <1>8 DEF IsInjective
  <2>1. CASE i \in 2..(n + 1) /\ j \in 2..(n + 1)
    <3>1. i - 1 \in DOMAIN Requirements /\ j - 1 \in DOMAIN Requirements
          /\ Requirements[i - 1] = Requirements[j - 1]
      BY <1>1, <1>6, <2>1
    <3>2. i - 1 = j - 1
      BY <3>1, ReadinessAssumption DEF IsInjective
    <3> QED
      BY <3>2, <1>1
  <2>2. CASE i \in 2..(n + 1) /\ j \notin 2..(n + 1)
    BY <2>2, <1>9, Zenon
  <2>3. CASE i \notin 2..(n + 1) /\ j \in 2..(n + 1)
    BY <2>3, <1>9, Zenon
  <2>4. CASE i \notin 2..(n + 1) /\ j \notin 2..(n + 1)
    BY <2>4, <1>5, <1>6, <1>8
  <2> QED
    BY <2>1, <2>2, <2>3, <2>4
<1>11. ToSet(Rubric) = Items
  <2>1. ToSet(Rubric) \subseteq Items
    <3> SUFFICES ASSUME NEW i \in 1..(n + 4) PROVE Rubric[i] \in Items
      BY <1>8 DEF ToSet
    <3> QED
      BY <1>1, <1>5, <1>6, <1>8 DEF Items, Artifacts, ToSet
  <2>2. ASSUME NEW item \in Items PROVE \E i \in 1..(n + 4) : Rubric[i] = item
    <3>1. CASE item \in ToSet(Requirements)
      <4>1. PICK k \in 1..n : Requirements[k] = item
        BY <1>1, <3>1 DEF ToSet
      <4>2. k + 1 \in 2..(n + 1) /\ k + 1 \in 1..(n + 4) /\ (k + 1) - 1 = k
        BY <1>1
      <4> QED
        BY <4>1, <4>2, <1>6
    <3>2. CASE item \in {"live", "local", "product", "manual"}
      <4>1. {1, n + 2, n + 3, n + 4} \subseteq 1..(n + 4)
        BY <1>1
      <4> QED
        BY <4>1, <3>2, <1>5, <1>6
    <3> QED
      BY <3>1, <3>2 DEF Items, Artifacts
  <2> QED
    BY <1>8, <2>1, <2>2 DEF ToSet
<1> QED
  BY <1>1, <1>5, <1>10, <1>11, ReadinessAssumption DEF Items, ToSet

(* The verdict a pass has on an item is the one read at its place. *)
LEMMA FoundAt ==
  ASSUME NEW names \in Seq(Items), IsInjective(names), NEW verdicts, NEW from \in Nat
  PROVE  /\ DOMAIN Found(names, verdicts, from) = ToSet(names)
         /\ \A item \in ToSet(names) : \E i \in 1..Len(names) :
               names[i] = item /\ Found(names, verdicts, from)[item] = verdicts[from + i]
<1>1. DOMAIN Found(names, verdicts, from) = ToSet(names)
  BY DEF Found
<1>2. ASSUME NEW item \in ToSet(names)
      PROVE  \E i \in 1..Len(names) :
                names[i] = item /\ Found(names, verdicts, from)[item] = verdicts[from + i]
  <2> DEFINE i == CHOOSE i \in DOMAIN names : names[i] = item
  <2>1. i \in DOMAIN names /\ names[i] = item /\ DOMAIN names = 1..Len(names)
    BY DEF ToSet
  <2>2. Found(names, verdicts, from)[item] = verdicts[from + i]
    BY DEF Found
  <2> HIDE DEF i
  <2> QED
    BY <2>1, <2>2
<1> QED
  BY <1>1, <1>2

(* The three passes of readiness-run --out are one behind the other. *)
LEMMA Readings ==
  ASSUME NEW command \in Commands
  PROVE  LET readings == ReadingsOf(command)
             n == Len(Rubric)
         IN  /\ readings \in Seq(Items) /\ n \in Nat
             /\ command = "check" => readings = Requirements
             /\ command = "run" => readings = Rubric
             /\ command = "manifest" =>
                   /\ Len(readings) = 2 * n + Len(Requirements)
                   /\ \A i \in 1..n : readings[0 + i] = Rubric[i] /\ readings[n + i] = Rubric[i]
                   /\ \A i \in 1..Len(Requirements) : readings[2 * n + i] = Requirements[i]
<1> DEFINE n == Len(Rubric)
           m == Len(Requirements)
           two == Rubric \o Rubric
           three == two \o Requirements
<1>1. Rubric \in Seq(Items) /\ n \in Nat /\ Requirements \in Seq(Items) /\ m \in Nat
  BY RubricItems
<1>2. CASE command \in {"check", "run"}
  BY <1>1, <1>2 DEF ReadingsOf
<1>3. CASE command = "manifest"
  <2>1. /\ two \in Seq(Items) /\ Len(two) = n + n
        /\ \A i \in 1..(n + n) : two[i] = IF i <= n THEN Rubric[i] ELSE Rubric[i - n]
    BY <1>1, ConcatProperties
  <2> HIDE DEF two
  <2>2. /\ three \in Seq(Items) /\ Len(three) = (n + n) + m
        /\ \A i \in 1..((n + n) + m) :
              three[i] = IF i <= n + n THEN two[i] ELSE Requirements[i - (n + n)]
    <3>1. ASSUME NEW s \in Seq(Items), NEW t \in Seq(Items)
          PROVE  /\ s \o t \in Seq(Items) /\ Len(s \o t) = Len(s) + Len(t)
                 /\ \A i \in 1..(Len(s) + Len(t)) :
                       (s \o t)[i] = IF i <= Len(s) THEN s[i] ELSE t[i - Len(s)]
      BY ConcatProperties
    <3> DEFINE joined == two \o Requirements
    <3>2. /\ joined \in Seq(Items) /\ Len(joined) = Len(two) + Len(Requirements)
          /\ \A i \in 1..(Len(two) + Len(Requirements)) :
                joined[i] = IF i <= Len(two) THEN two[i] ELSE Requirements[i - Len(two)]
      BY <1>1, <2>1, <3>1, Zenon
    <3> HIDE DEF joined
    <3>3. three = joined
      BY DEF joined
    <3> HIDE DEF three
    <3> QED
      BY <1>1, <2>1, <3>2, <3>3
  <2> HIDE DEF three
  <2>3. ReadingsOf(command) = three
    BY <1>3 DEF ReadingsOf, three, two
  <2> HIDE DEF n, m
  <2>4. ASSUME NEW i \in 1..n PROVE three[0 + i] = Rubric[i] /\ three[n + i] = Rubric[i]
    <3>1. /\ i \in 1..(n + n) /\ i \in 1..((n + n) + m) /\ i <= n /\ i <= n + n /\ 0 + i = i
          /\ n + i \in 1..(n + n) /\ n + i \in 1..((n + n) + m) /\ ~(n + i <= n)
          /\ n + i <= n + n /\ (n + i) - n = i
      BY <1>1
    <3> QED
      BY <2>1, <2>2, <3>1
  <2>5. ASSUME NEW i \in 1..m PROVE three[2 * n + i] = Requirements[i]
    <3>1. /\ 2 * n + i \in 1..((n + n) + m) /\ ~(2 * n + i <= n + n)
          /\ (2 * n + i) - (n + n) = i
      BY <1>1
    <3> QED
      BY <2>2, <3>1
  <2>6. Len(three) = 2 * n + m
    BY <1>1, <2>2
  <2> QED
    BY <1>1, <1>3, <2>2, <2>3, <2>4, <2>5, <2>6 DEF n, m
<1> QED
  BY <1>2, <1>3 DEF Commands

(* When everything is read, what a pass found did pass, and without a      *)
(* change of files it found what passes.                                   *)
LEMMA PassFinds ==
  ASSUME TypeOK, ReadInv, run.at = "reading", Len(run.read) = Len(ReadingsOf(run.command)),
         NEW names \in Seq(Items), IsInjective(names), NEW from \in Nat,
         from + Len(names) <= Len(run.read),
         \A i \in 1..Len(names) : ReadingsOf(run.command)[from + i] = names[i]
  PROVE  LET found == Found(names, run.read, from)
         IN  /\ found \in [ToSet(names) -> BOOLEAN]
             /\ \A item \in ToSet(names) :
                   /\ found[item] => item \in passed
                   /\ ~changed => (found[item] <=> Passes(item))
<1> DEFINE found == Found(names, run.read, from)
<1>1. /\ DOMAIN found = ToSet(names)
      /\ \A item \in ToSet(names) : \E i \in 1..Len(names) :
            names[i] = item /\ found[item] = run.read[from + i]
  <2> DEFINE verdicts == run.read
  <2> HIDE DEF verdicts
  <2>1. /\ DOMAIN Found(names, verdicts, from) = ToSet(names)
        /\ \A item \in ToSet(names) : \E i \in 1..Len(names) :
              names[i] = item /\ Found(names, verdicts, from)[item] = verdicts[from + i]
    BY FoundAt
  <2> QED
    BY <2>1 DEF verdicts
<1>2. run.read \in Seq(BOOLEAN) /\ DOMAIN run.read = 1..Len(run.read) /\ Len(run.read) \in Nat
      /\ Len(names) \in Nat
  BY DEF TypeOK, Idle, Raised
<1>3. ASSUME NEW item \in ToSet(names)
      PROVE  /\ found[item] \in BOOLEAN
             /\ found[item] => item \in passed
             /\ ~changed => (found[item] <=> Passes(item))
  <2>1. PICK i \in 1..Len(names) : names[i] = item /\ found[item] = run.read[from + i]
    BY <1>1
  <2>2. from + i \in DOMAIN run.read /\ ReadingsOf(run.command)[from + i] = item
    BY <1>2, <2>1
  <2>3. /\ run.read[from + i] \in BOOLEAN
        /\ run.read[from + i] => item \in passed
        /\ ~changed => run.read[from + i] = Passes(item)
    <3>1. /\ run.read[from + i] => ReadingsOf(run.command)[from + i] \in passed
          /\ ~changed => run.read[from + i] = Passes(ReadingsOf(run.command)[from + i])
      BY <2>2 DEF ReadInv
    <3> QED
      BY <1>2, <2>2, <3>1
  <2> HIDE DEF found
  <2> QED
    BY <2>1, <2>3
<1>4. found = [item \in ToSet(names) |-> found[item]]
  BY DEF Found
<1> HIDE DEF found
<1>5. found \in [ToSet(names) -> BOOLEAN]
  BY <1>3, <1>4
<1> QED
  BY <1>3, <1>5 DEF found

(* What Min chooses of two integers. *)
LEMMA LeastOfTwo ==
  ASSUME NEW a \in Int, NEW b \in Int
  PROVE  Min({a, b}) = IF a <= b THEN a ELSE b
<1> DEFINE S == {a, b}
<1>1. \E x \in S : \A y \in S : x <= y
  BY DEF S
<1>2. Min(S) \in S /\ \A y \in S : Min(S) <= y
  BY <1>1 DEF Min
<1> QED
  BY <1>2

(* What Min chooses of three integers. *)
LEMMA LeastOfThree ==
  ASSUME NEW a \in Int, NEW b \in Int, NEW c \in Int
  PROVE  Min({a, b, c}) \in {a, b, c} /\ \A x \in {a, b, c} : Min({a, b, c}) <= x
<1> DEFINE S == {a, b, c}
<1>1. \E x \in S : \A y \in S : x <= y
  BY DEF S
<1>2. Min(S) \in S /\ \A y \in S : Min(S) <= y
  BY <1>1 DEF Min
<1> QED
  BY <1>2

(* 100 is claimed, scored and unblocked together, namely when everything   *)
(* was found; a requirement blocks exactly if it was not.                  *)
LEMMA ScoreTells ==
  ASSUME NEW found \in [Items -> BOOLEAN]
  PROVE  LET score == Score(found)
             everything == \A item \in Items : found[item]
         IN  /\ score.claimable \in BOOLEAN
             /\ score.claimable <=> everything
             /\ score.total = 100 <=> everything
             /\ score.blockers = {} <=> everything
             /\ \A r \in ToSet(Requirements) : r \in score.blockers <=> ~found[r]
<1> DEFINE local      == LocalScore(found)
           product    == ProductScore(found)
           production == ProductionScore(found)
           least      == Min({local, product, production})
           claimable  == least = 100 /\ found["manual"]
           everything == \A item \in Items : found[item]
           blockers   == {r \in ToSet(Requirements) \cup {"local", "manual"} : ~found[r]}
                            \cup (IF product < 100 THEN {"product_e2e"} ELSE {})
<1>1. {"local", "product", "live", "manual"} \subseteq Items /\ ToSet(Requirements) \subseteq Items
      /\ \A item \in Items : item \in ToSet(Requirements) \cup {"local", "product", "live", "manual"}
  BY DEF Items, Artifacts
<1>2. \A item \in Items : found[item] \in BOOLEAN
  OBVIOUS
<1>3. /\ local \in {0, 100} /\ (local = 100 <=> found["local"])
      /\ production \in {0, 100}
      /\ production = 100 <=> \A r \in ToSet(Requirements) : found[r]
  BY <1>1, <1>2 DEF LocalScore, ProductionScore
<1>4. product \in {0, 50, 100} /\ (product = 100 <=> found["product"] /\ found["live"])
  BY <1>1, <1>2 DEF ProductScore
<1> HIDE DEF local, product, production
<1>5. least \in {local, product, production} /\ \A x \in {local, product, production} : least <= x
  <2>1. local \in Int /\ product \in Int /\ production \in Int
    BY <1>3, <1>4
  <2> QED
    BY <2>1, LeastOfThree, Zenon
<1> HIDE DEF least
<1>6. least \in 0..100 /\ (least = 100 <=> local = 100 /\ product = 100 /\ production = 100)
  BY <1>3, <1>4, <1>5
<1>7. claimable <=> everything
  BY <1>1, <1>3, <1>4, <1>6
<1>8. blockers = {} <=> everything
  BY <1>1, <1>3, <1>4
<1>9. \A r \in ToSet(Requirements) : r \in blockers <=> ~found[r]
  <2>1. \A r \in ToSet(Requirements) : r # "product_e2e"
    BY ReadinessAssumption
  <2> QED
    BY <2>1
<1>10. /\ Score(found).claimable = claimable /\ Score(found).blockers = blockers
       /\ Score(found).total = IF claimable THEN least ELSE Min({least, 99})
  BY DEF Score, local, product, production, least
<1>11. Score(found).claimable \in BOOLEAN
  BY DEF Score
<1>12. Min({least, 99}) <= 99 /\ Min({least, 99}) \in Int
  BY <1>6, LeastOfTwo
<1> HIDE DEF everything, blockers
<1>13. Score(found).total = 100 <=> everything
  <2>1. CASE claimable
    BY <2>1, <1>6, <1>7, <1>10
  <2>2. CASE ~claimable
    <3>1. Score(found).total = Min({least, 99})
      BY <2>2, <1>10
    <3> HIDE DEF claimable
    <3> QED
      BY <2>2, <3>1, <1>7, <1>12
  <2> QED
    BY <2>1, <2>2
<1> HIDE DEF claimable
<1> QED
  BY <1>7, <1>8, <1>9, <1>10, <1>11, <1>13 DEF everything

-----------------------------------------------------------------------------
(* The invariant holds before the first command and the first change. *)
LEMMA InitInv == Init => Inv
<1> SUFFICES ASSUME Init PROVE Inv
  OBVIOUS
<1>1. LiveInv
  BY LiveInitInv DEF Init
<1>2. env \in Environments
  BY DEF Init, LiveInit
<1>3. NoEvidence \in [smoke : Results, runtime : Probes, approved : BOOLEAN]
      /\ NoEvidence.runtime.done = FALSE
  <2>1. Result("unknown", FALSE, env, FALSE) \in Results
    BY <1>2, ResultType DEF Providers
  <2> QED
    BY <2>1 DEF NoEvidence, Probes, NoProbe
<1>4. CloudEvidence \in [smoke : Results, runtime : Probes, approved : BOOLEAN]
      /\ CloudEvidence.runtime.done = FALSE
  <2> DEFINE model == CHOOSE m \in Models : TRUE
             r == Result("openrouter_llm", TRUE, env, TRUE)
             smoke == [r EXCEPT !.enabled = TRUE, !.success = TRUE, !.model = model]
  <2>1. model \in Models
    BY LiveAssumption
  <2>2. r \in Results /\ r.attempted = TRUE
    BY <1>2, ResultType DEF Providers, Clouds
  <2> HIDE DEF model, r
  <2>3. smoke \in Results
    BY <2>1, <2>2, LiveAssumption DEF Results
  <2> HIDE DEF smoke
  <2>4. CloudEvidence = [NoEvidence EXCEPT !.smoke = smoke]
    BY DEF CloudEvidence, smoke, r, model
  <2> QED
    BY <2>3, <2>4, <1>3
<1>5. evidence \in [smoke : Results, runtime : Probes, approved : BOOLEAN]
      /\ evidence.runtime.done = FALSE
  BY <1>3, <1>4 DEF Init
<1>6. run = Idle /\ report = NoReport /\ passed = {} /\ changed = FALSE
  BY DEF Init
<1>7. TypeOK
  <2>1. files \in [Items -> Forms] /\ rewrites \in 0..MaxRewrites
    BY ReadinessAssumption DEF Init
  <2>2. run.at # "reading"
    BY <1>6 DEF Idle
  <2> QED
    BY <1>5, <1>6, <2>1, <2>2 DEF TypeOK
<1>8. Told(evidence.runtime) /\ PassedInv /\ ReadInv
  BY <1>5, <1>6 DEF Told, PassedInv, ReadInv, Idle, NoReport
<1>9. ReportInv
  BY <1>6, <1>7 DEF ReportInv, ClaimIsBacked, ManifestAgrees, Claims, NoReport
<1> QED
  BY <1>1, <1>7, <1>8, <1>9 DEF Inv

(* A report stands: what passed did pass, and a change of files is noted.  *)
LEMMA ReportStands ==
  ASSUME Inv, TypeOK', report' = report, passed \subseteq passed',
         changed' \/ UNCHANGED <<files, evidence, changed>>
  PROVE  ReportInv'
<1>1. passed' \subseteq Items
  BY DEF TypeOK
<1>2. passed = Items => passed' = Items
  BY <1>1
<1>3. ~changed' => ~changed /\ \A item \in Items : Passes(item)' = Passes(item)
  BY DEF Passes, SmokeAccepted
<1>4. changed => changed'
  OBVIOUS
<1>5. ClaimIsBacked'
  BY <1>2, <1>3 DEF Inv, ReportInv, ClaimIsBacked, Claims
<1>6. ManifestAgrees'
  BY <1>2, <1>4 DEF Inv, ReportInv, ManifestAgrees, Claims
<1> QED
  BY <1>5, <1>6 DEF ReportInv

(* Files change: everything else is as it was, but for the history. *)
LEMMA FilesChange ==
  ASSUME Inv, UNCHANGED <<liveVars, run, report>>, Notice,
         files' \in [Items -> Forms], rewrites' \in 0..MaxRewrites,
         evidence' \in [smoke : Results, runtime : Probes, approved : BOOLEAN],
         Told(evidence'.runtime)
  PROVE  Inv'
<1>1. passed' = passed \cup {item \in Items : Passes(item)'} /\ changed' = TRUE
  BY DEF Notice
<1>2. TypeOK'
  BY <1>1 DEF Inv, TypeOK
<1>3. LiveInv'
  BY LiveStep DEF Inv
<1>4. PassedInv'
  BY <1>1 DEF PassedInv, Passing
<1>5. ReadInv'
  BY <1>1 DEF Inv, ReadInv
<1>6. ReportInv'
  BY <1>1, <1>2, ReportStands
<1>7. Told(evidence.runtime)'
  BY DEF Inv, Told, LooksMock
<1> QED
  BY <1>2, <1>3, <1>4, <1>5, <1>6, <1>7 DEF Inv

(* An operator changes a file. *)
LEMMA RewriteStep ==
  ASSUME Inv, NEW item \in Items, Rewrite(item)
  PROVE  Inv'
<1>1. /\ UNCHANGED <<liveVars, evidence, run, report>> /\ Notice
      /\ rewrites < MaxRewrites /\ rewrites' = rewrites + 1
  BY DEF Rewrite
<1>2. files' \in [Items -> Forms]
  BY ReadinessAssumption DEF Inv, TypeOK, Rewrite
<1>3. rewrites' \in 0..MaxRewrites
  BY <1>1, ReadinessAssumption DEF Inv, TypeOK
<1>4. /\ evidence' \in [smoke : Results, runtime : Probes, approved : BOOLEAN]
      /\ Told(evidence'.runtime)
  BY <1>1 DEF Inv, TypeOK
<1> QED
  BY <1>1, <1>2, <1>3, <1>4, FilesChange

(* A reviewer records a result and the last probe, which is told truly. *)
LEMMA RecordStep ==
  ASSUME Inv, Record
  PROVE  Inv'
<1>1. /\ UNCHANGED <<liveVars, run, report>> /\ Notice
      /\ rewrites < MaxRewrites /\ rewrites' = rewrites + 1
      /\ files' = [files EXCEPT !["live"] = "valid"]
  BY DEF Record
<1>2. files' \in [Items -> Forms]
  BY <1>1 DEF Inv, TypeOK, Forms
<1>3. rewrites' \in 0..MaxRewrites
  BY <1>1, ReadinessAssumption DEF Inv, TypeOK
<1>4. PICK i \in DOMAIN results, approved \in BOOLEAN :
         evidence' = [smoke |-> results[i], runtime |-> probe, approved |-> approved]
  BY DEF Record
<1>5. results[i] \in Results /\ probe \in Probes /\ Told(probe)
  BY DEF Inv, LiveInv, LiveTypeOK
<1>6. /\ evidence' \in [smoke : Results, runtime : Probes, approved : BOOLEAN]
      /\ Told(evidence'.runtime)
  BY <1>4, <1>5
<1> QED
  BY <1>1, <1>2, <1>3, <1>6, FilesChange

(* A command starts: nothing read, and what passes is noted. *)
LEMMA StartStep ==
  ASSUME Inv, NEW command \in Commands, Start(command)
  PROVE  Inv'
<1>1. /\ run' = [at |-> "reading", command |-> command, opened |-> FALSE, read |-> <<>>]
      /\ report' = NoReport /\ passed' = Passing /\ changed' = FALSE
      /\ UNCHANGED <<liveVars, files, evidence, rewrites>>
  BY DEF Start, Passing, fileVars
<1>2. LiveInv' /\ Told(evidence.runtime)'
  BY <1>1, LiveStep DEF Inv, Told, LooksMock
<1>3. Len(run'.read) = 0 /\ DOMAIN run'.read = {} /\ Len(ReadingsOf(run'.command)) \in Nat
  BY <1>1, Readings
<1>4. run' \in [at : {"reading"}, command : Commands, opened : BOOLEAN, read : Seq(BOOLEAN)]
  BY <1>1
<1>5. TypeOK'
  <2>1. passed' \subseteq Items /\ changed' \in BOOLEAN
    BY <1>1 DEF Passing
  <2>2. Len(run'.read) <= Len(ReadingsOf(run'.command))
    BY <1>3
  <2> QED
    BY <1>1, <1>4, <2>1, <2>2 DEF Inv, TypeOK
<1>6. PassedInv'
  <2>1. Passing' = Passing
    BY <1>1 DEF Passing, Passes, SmokeAccepted
  <2> QED
    BY <1>1, <2>1 DEF PassedInv
<1>7. ReadInv'
  BY <1>1, <1>3 DEF ReadInv
<1>8. ReportInv'
  BY <1>1, <1>5 DEF ReportInv, ClaimIsBacked, ManifestAgrees, Claims, NoReport
<1> QED
  BY <1>2, <1>5, <1>6, <1>7, <1>8 DEF Inv

(* Steps of a command leave files and history alone. *)
LEMMA CommandStep ==
  ASSUME Inv, UNCHANGED <<liveVars, fileVars, passed, changed>>, TypeOK'
  PROVE  /\ LiveInv' /\ Told(evidence.runtime)' /\ Passing' = Passing
         /\ \A item \in Items : Passes(item)' = Passes(item)
<1>1. UNCHANGED <<files, evidence>>
  BY DEF fileVars
<1>2. LiveInv'
  BY LiveStep DEF Inv
<1>3. Told(evidence.runtime)'
  BY <1>1 DEF Inv, Told, LooksMock
<1>4. \A item \in Items : Passes(item)' = Passes(item)
  BY <1>1 DEF Passes, SmokeAccepted
<1>5. Passing' = Passing
  BY <1>1 DEF Passing, Passes, SmokeAccepted
<1> QED
  BY <1>2, <1>3, <1>4, <1>5

(* There is a next item to read, and it is one of the rubric. *)
LEMMA CurrentItem ==
  ASSUME Inv, Reading
  PROVE  /\ run \in [at : {"reading"}, command : Commands, opened : BOOLEAN, read : Seq(BOOLEAN)]
         /\ Item \in Items /\ Item = ReadingsOf(run.command)[Len(run.read) + 1]
         /\ Len(run.read) \in Nat /\ Len(ReadingsOf(run.command)) \in Nat
<1>1. run \in [at : {"reading"}, command : Commands, opened : BOOLEAN, read : Seq(BOOLEAN)]
  BY DEF Inv, TypeOK, Reading, Idle, Raised
<1>2. ReadingsOf(run.command) \in Seq(Items)
  BY <1>1, Readings
<1>3. Len(run.read) + 1 \in 1..Len(ReadingsOf(run.command))
  BY <1>1, <1>2 DEF Reading
<1> QED
  BY <1>1, <1>2, <1>3 DEF Item

(* A verdict that is true of its file extends what has been read. *)
LEMMA VerdictStep ==
  ASSUME Inv, Reading, NEW v \in BOOLEAN, v <=> Passes(Item), Verdict(v),
         UNCHANGED <<liveVars, fileVars, report, passed, changed>>
  PROVE  Inv'
<1> DEFINE n == Len(run.read)
<1>1. /\ run \in [at : {"reading"}, command : Commands, opened : BOOLEAN, read : Seq(BOOLEAN)]
      /\ Item \in Items /\ Item = ReadingsOf(run.command)[n + 1]
      /\ n \in Nat /\ n < Len(ReadingsOf(run.command)) /\ Len(ReadingsOf(run.command)) \in Nat
  BY CurrentItem DEF Reading
<1>2. run' = [run EXCEPT !.opened = FALSE, !.read = Append(run.read, v)]
  BY DEF Verdict
<1>3. /\ run' \in [at : {"reading"}, command : Commands, opened : BOOLEAN, read : Seq(BOOLEAN)]
      /\ run'.command = run.command /\ run'.read = Append(run.read, v)
  <2> DEFINE longer == Append(run.read, v)
  <2>1. longer \in Seq(BOOLEAN)
    BY <1>1
  <2> HIDE DEF longer
  <2>2. run' = [run EXCEPT !.opened = FALSE, !.read = longer]
    BY <1>2 DEF longer
  <2>3. /\ run' \in [at : {"reading"}, command : Commands, opened : BOOLEAN, read : Seq(BOOLEAN)]
        /\ run'.command = run.command /\ run'.read = longer
    BY <1>1, <2>1, <2>2
  <2> QED
    BY <2>3 DEF longer
<1>4. /\ Len(run'.read) = n + 1 /\ DOMAIN run'.read = 1..(n + 1) /\ DOMAIN run.read = 1..n
      /\ run'.read[n + 1] = v /\ \A i \in 1..n : run'.read[i] = run.read[i]
  BY <1>1, <1>3
<1> HIDE DEF n
<1>5. Len(run'.read) <= Len(ReadingsOf(run'.command))
  BY <1>1, <1>3, <1>4
<1>6. TypeOK'
  BY <1>3, <1>5 DEF Inv, TypeOK, fileVars
<1>7. /\ LiveInv' /\ Told(evidence.runtime)' /\ Passing' = Passing
      /\ \A item \in Items : Passes(item)' = Passes(item)
  BY <1>6, CommandStep
<1>8. run.at = "reading" /\ Passing \subseteq passed /\ report = NoReport
  BY <1>1 DEF Inv, PassedInv, ReadInv
<1>9. PassedInv'
  BY <1>7, <1>8 DEF Inv, PassedInv
<1>10. ReadInv'
  <2>1. ASSUME NEW i \in 1..(n + 1)
        PROVE  /\ run'.read[i] => ReadingsOf(run.command)[i] \in passed
               /\ ~changed => run'.read[i] = Passes(ReadingsOf(run.command)[i])
    <3>1. CASE i \in 1..n
      <4>1. /\ run.read[i] => ReadingsOf(run.command)[i] \in passed
            /\ ~changed => run.read[i] = Passes(ReadingsOf(run.command)[i])
        BY <1>4, <1>8, <3>1 DEF Inv, ReadInv
      <4> QED
        BY <1>4, <3>1, <4>1
    <3>2. CASE i = n + 1
      <4>1. run'.read[i] = v /\ ReadingsOf(run.command)[i] = Item
        BY <1>1, <1>4, <3>2
      <4>2. v => Item \in passed
        BY <1>1, <1>8 DEF Passing
      <4>3. v = Passes(Item)
        <5>1. Passes(Item) \in BOOLEAN
          BY <1>1 DEF Passes
        <5> QED
          BY <5>1
      <4> QED
        BY <4>1, <4>2, <4>3
    <3> QED
      BY <1>1, <3>1, <3>2
  <2>2. ASSUME NEW i \in DOMAIN run'.read
        PROVE  Passes(ReadingsOf(run.command)[i])' = Passes(ReadingsOf(run.command)[i])
    BY <1>3 DEF Passes, SmokeAccepted, fileVars
  <2> QED
    BY <1>3, <1>4, <1>8, <2>1, <2>2 DEF ReadInv
<1>11. ReportInv'
  BY <1>6, ReportStands DEF fileVars
<1> QED
  BY <1>6, <1>7, <1>9, <1>10, <1>11 DEF Inv

(* is_file settles the absent ones and the manual review, truly. *)
LEMMA LookStep ==
  ASSUME Inv, Look
  PROVE  Inv'
<1>1. Reading /\ UNCHANGED <<liveVars, fileVars, report, passed, changed>>
  BY DEF Look
<1>2. CASE files[Item] \in {"unset", "absent"} /\ Verdict(FALSE)
  <2>1. ~Passes(Item)
    BY <1>2 DEF Passes
  <2> QED
    BY <1>1, <1>2, <2>1, VerdictStep
<1>3. CASE files[Item] \notin {"unset", "absent"} /\ Item = "manual" /\ Verdict(TRUE)
  <2>1. Passes(Item)
    BY <1>3 DEF Passes
  <2> QED
    BY <1>1, <1>3, <2>1, VerdictStep
<1>4. CASE run' = [run EXCEPT !.opened = TRUE]
  <2>1. run \in [at : {"reading"}, command : Commands, opened : BOOLEAN, read : Seq(BOOLEAN)]
        /\ Len(run.read) <= Len(ReadingsOf(run.command))
    BY <1>1, CurrentItem DEF Inv, TypeOK
  <2>2. /\ run' \in [at : {"reading"}, command : Commands, opened : BOOLEAN, read : Seq(BOOLEAN)]
        /\ run'.command = run.command /\ run'.read = run.read
    BY <1>4, <2>1
  <2>3. TypeOK'
    BY <1>1, <2>1, <2>2 DEF Inv, TypeOK, fileVars
  <2>4. LiveInv' /\ Told(evidence.runtime)' /\ Passing' = Passing
    BY <1>1, <2>3, CommandStep
  <2>5. PassedInv'
    BY <1>1, <2>1, <2>4 DEF Inv, PassedInv
  <2>6. ReadInv'
    <3>1. ASSUME NEW i \in DOMAIN run.read
          PROVE  Passes(ReadingsOf(run.command)[i])' = Passes(ReadingsOf(run.command)[i])
      BY <1>1, <2>2 DEF Passes, SmokeAccepted, fileVars
    <3> QED
      BY <1>1, <2>1, <2>2, <3>1 DEF Inv, ReadInv
  <2>7. ReportInv'
    BY <1>1, <2>3, ReportStands DEF fileVars
  <2> QED
    BY <2>3, <2>4, <2>5, <2>6, <2>7 DEF Inv
<1> QED
  BY <1>2, <1>3, <1>4 DEF Look

(* read_text settles the item as what the file is now, or raises. *)
LEMMA ReadStep ==
  ASSUME Inv, Read
  PROVE  Inv'
<1>1. Reading /\ UNCHANGED <<liveVars, fileVars, report, passed, changed>>
  BY DEF Read
<1>2. CASE run' = Raised
  <2>1. run'.at # "reading" /\ run.at = "reading"
    BY <1>1, <1>2 DEF Raised, Reading
  <2>2. TypeOK'
    BY <1>1, <1>2, <2>1 DEF Inv, TypeOK, fileVars
  <2>3. LiveInv' /\ Told(evidence.runtime)'
    BY <1>1, <2>2, CommandStep
  <2>4. report' = NoReport
    BY <1>1, <2>1 DEF Inv, ReadInv
  <2>5. PassedInv' /\ ReadInv'
    BY <2>1, <2>4 DEF PassedInv, ReadInv, NoReport
  <2>6. ReportInv'
    BY <1>1, <2>2, ReportStands DEF fileVars
  <2> QED
    BY <2>2, <2>3, <2>5, <2>6 DEF Inv
<1>3. CASE Verdict(Passes(Item))
  <2>1. Passes(Item) \in BOOLEAN
    BY CurrentItem, <1>1 DEF Passes
  <2> QED
    BY <1>1, <1>3, <2>1, VerdictStep
<1> QED
  BY <1>2, <1>3 DEF Read

(* What the end of a command reports is in its readings. *)
LEMMA FinishedReport ==
  ASSUME Inv, Finish
  PROVE  /\ report'.done /\ report'.command = run.command /\ run.command \in Commands
         /\ run.command = "check" =>
               (report'.exit = 0 => ToSet(Requirements) \subseteq passed)
         /\ run.command # "check" =>
               LET first == Found(Rubric, run.read, 0)
               IN  /\ first \in [Items -> BOOLEAN]
                   /\ \A item \in Items : /\ first[item] => item \in passed
                                          /\ ~changed => (first[item] <=> Passes(item))
                   /\ report'.rubric = Score(first)
                   /\ report'.exit = 0 <=> Score(first).claimable
         /\ run.command = "manifest" =>
               LET second == Found(Rubric, run.read, Len(Rubric))
                   third  == Found(Requirements, run.read, 2 * Len(Rubric))
               IN  /\ second \in [Items -> BOOLEAN]
                   /\ \A item \in Items : /\ second[item] => item \in passed
                                          /\ ~changed => (second[item] <=> Passes(item))
                   /\ third \in [ToSet(Requirements) -> BOOLEAN]
                   /\ \A item \in ToSet(Requirements) : ~changed => (third[item] <=> Passes(item))
                   /\ report'.manifest = Manifest(second, third)
<1>1. /\ run.at = "reading" /\ Len(run.read) = Len(ReadingsOf(run.command))
      /\ UNCHANGED <<liveVars, fileVars, passed, changed>>
  BY DEF Finish
<1>2. /\ run \in [at : {"reading"}, command : Commands, opened : BOOLEAN, read : Seq(BOOLEAN)]
      /\ run.command \in Commands /\ run.read \in Seq(BOOLEAN)
  BY <1>1 DEF Inv, TypeOK, Idle, Raised
<1>3. /\ Rubric \in Seq(Items) /\ Len(Rubric) \in Nat /\ IsInjective(Rubric) /\ ToSet(Rubric) = Items
      /\ Requirements \in Seq(Items) /\ Len(Requirements) \in Nat /\ IsInjective(Requirements)
      /\ TypeOK /\ ReadInv
  BY RubricItems DEF Inv
<1>4. CASE run.command = "check"
  <2>1. report' = [done |-> TRUE, command |-> "check",
                   exit |-> IF \A i \in DOMAIN run.read : run.read[i] THEN 0 ELSE 1]
    BY <1>4 DEF Finish
  <2>2. ReadingsOf(run.command) = Requirements
    BY <1>2, <1>4, Readings
  <2>3. DOMAIN run.read = DOMAIN Requirements
    BY <1>1, <1>2, <1>3, <2>2
  <2>4. ASSUME report'.exit = 0 PROVE ToSet(Requirements) \subseteq passed
    <3>1. \A i \in DOMAIN run.read : run.read[i]
      BY <2>1, <2>4
    <3>2. \A i \in DOMAIN Requirements : Requirements[i] \in passed
      BY <1>1, <1>3, <2>2, <2>3, <3>1 DEF ReadInv
    <3> QED
      BY <3>2 DEF ToSet
  <2> QED
    BY <1>2, <1>4, <2>1, <2>4
<1>5. CASE run.command \in {"run", "manifest"}
  <2> DEFINE readings == ReadingsOf(run.command)
             n == Len(Rubric)
             first  == Found(Rubric, run.read, 0)
             second == Found(Rubric, run.read, n)
             third  == Found(Requirements, run.read, 2 * n)
  <2>1. report' = [done |-> TRUE, command |-> run.command, rubric |-> Score(first),
                   exit |-> IF Score(first).claimable THEN 0 ELSE 1,
                   manifest |-> IF run.command = "run" THEN "none" ELSE Manifest(second, third)]
    BY <1>5 DEF Finish
  <2>2. /\ readings \in Seq(Items)
        /\ run.command = "run" => readings = Rubric
        /\ run.command = "manifest" =>
              /\ Len(readings) = 2 * n + Len(Requirements)
              /\ \A i \in 1..n : readings[0 + i] = Rubric[i] /\ readings[n + i] = Rubric[i]
              /\ \A i \in 1..Len(Requirements) : readings[2 * n + i] = Requirements[i]
    BY <1>2, Readings
  <2>3. 0 + n <= Len(run.read) /\ \A i \in 1..n : readings[0 + i] = Rubric[i]
    BY <1>1, <1>3, <1>5, <2>2
  <2>4. /\ first \in [Items -> BOOLEAN]
        /\ \A item \in Items : /\ first[item] => item \in passed
                               /\ ~changed => (first[item] <=> Passes(item))
    BY <1>1, <1>3, <2>3, PassFinds
  <2>5. ASSUME run.command = "manifest"
        PROVE  /\ second \in [Items -> BOOLEAN]
               /\ \A item \in Items : /\ second[item] => item \in passed
                                      /\ ~changed => (second[item] <=> Passes(item))
    <3>1. n + n <= Len(run.read) /\ \A i \in 1..n : readings[n + i] = Rubric[i]
      BY <1>1, <1>3, <2>2, <2>5
    <3> QED
      BY <1>1, <1>3, <3>1, PassFinds
  <2>6. ASSUME run.command = "manifest"
        PROVE  /\ third \in [ToSet(Requirements) -> BOOLEAN]
               /\ \A item \in ToSet(Requirements) : ~changed => (third[item] <=> Passes(item))
    <3>1. /\ 2 * n + Len(Requirements) <= Len(run.read) /\ 2 * n \in Nat
          /\ \A i \in 1..Len(Requirements) : readings[2 * n + i] = Requirements[i]
      BY <1>1, <1>3, <2>2, <2>6
    <3> QED
      BY <1>1, <1>3, <3>1, PassFinds
  <2> HIDE DEF first, second, third
  <2>7. report'.exit = 0 <=> Score(first).claimable
    BY <2>1
  <2> QED
    BY <1>2, <1>5, <2>1, <2>4, <2>5, <2>6, <2>7 DEF first, second, third
<1> QED
  BY <1>2, <1>4, <1>5 DEF Commands

(* The report claims, scores, blocks and exits as the files were. *)
LEMMA FinishStep ==
  ASSUME Inv, Finish
  PROVE  Inv'
<1>1. run.at = "reading" /\ run' = Idle /\ UNCHANGED <<liveVars, fileVars, passed, changed>>
  BY DEF Finish
<1>2. run'.at # "reading"
  BY <1>1 DEF Idle
<1>3. TypeOK'
  BY <1>1, <1>2 DEF Inv, TypeOK, fileVars
<1>4. /\ LiveInv' /\ Told(evidence.runtime)' /\ Passing' = Passing
      /\ \A item \in Items : Passes(item)' = Passes(item)
  BY <1>1, <1>3, CommandStep
<1>5. PassedInv' /\ ReadInv'
  BY <1>1, <1>2, <1>4 DEF Inv, PassedInv, ReadInv
<1>6. /\ report'.done /\ report'.command = run.command /\ passed' = passed /\ changed' = changed
      /\ passed \subseteq Items /\ ToSet(Requirements) \subseteq Items
  BY <1>1, FinishedReport DEF Inv, TypeOK, Items
<1>7. CASE run.command = "check"
  <2>1. ~Claims'
    BY <1>6, <1>7 DEF Claims
  <2>2. report'.exit = 0 => ToSet(Requirements) \subseteq passed'
    BY <1>6, <1>7, FinishedReport
  <2>3. ReportInv'
    BY <1>3, <2>1, <2>2 DEF ReportInv, ClaimIsBacked, ManifestAgrees
  <2> QED
    BY <1>3, <1>4, <1>5, <2>3 DEF Inv
<1>8. CASE run.command # "check"
  <2> DEFINE first == Found(Rubric, run.read, 0)
             second == Found(Rubric, run.read, Len(Rubric))
             third  == Found(Requirements, run.read, 2 * Len(Rubric))
             rubric == report'.rubric
             m == report'.manifest
  <2>1. /\ first \in [Items -> BOOLEAN]
        /\ \A item \in Items : /\ first[item] => item \in passed
                               /\ ~changed => (first[item] <=> Passes(item))
        /\ rubric = Score(first) /\ (report'.exit = 0 <=> Score(first).claimable)
    BY <1>8, FinishedReport
  <2>2. run.command = "manifest" =>
           /\ second \in [Items -> BOOLEAN]
           /\ \A item \in Items : /\ second[item] => item \in passed
                                  /\ ~changed => (second[item] <=> Passes(item))
           /\ third \in [ToSet(Requirements) -> BOOLEAN]
           /\ \A item \in ToSet(Requirements) : ~changed => (third[item] <=> Passes(item))
           /\ m = Manifest(second, third)
    BY FinishedReport
  <2> HIDE DEF first, second, third, rubric, m
  <2>3. /\ rubric.claimable \in BOOLEAN
        /\ rubric.claimable <=> (\A item \in Items : first[item])
        /\ rubric.total = 100 <=> (\A item \in Items : first[item])
        /\ rubric.blockers = {} <=> (\A item \in Items : first[item])
        /\ \A r \in ToSet(Requirements) : r \in rubric.blockers <=> ~first[r]
    BY <2>1, ScoreTells
  <2>4. /\ rubric.claimable => passed = Items
        /\ ~changed => rubric.claimable = (\A item \in Items : Passes(item))
        /\ rubric.claimable = (rubric.total = 100)
        /\ rubric.claimable = (rubric.blockers = {})
    <3> DEFINE everything == \A item \in Items : first[item]
               passes     == \A item \in Items : Passes(item)
    <3>1. rubric.claimable => passed = Items
      BY <1>6, <2>1, <2>3
    <3>2. ~changed => (everything <=> passes)
      BY <2>1
    <3> HIDE DEF everything, passes
    <3>3. rubric.claimable \in BOOLEAN /\ (rubric.claimable <=> everything)
      BY <2>3 DEF everything
    <3>4. ~changed => rubric.claimable = passes
      <4>1. passes \in BOOLEAN
        BY DEF passes
      <4> QED
        BY <3>2, <3>3, <4>1
    <3>5. rubric.claimable = (rubric.total = 100)
      BY <2>3, <3>3 DEF everything
    <3>6. rubric.claimable = (rubric.blockers = {})
      BY <2>3, <3>3 DEF everything
    <3> QED
      BY <3>1, <3>4, <3>5, <3>6 DEF passes
  <2>5. ~changed => rubric.claimable = (\A item \in Items : Passes(item)')
    BY <1>4, <2>4
  <2>6. report'.exit = 0 => ToSet(Requirements) \subseteq passed'
    BY <1>6, <2>1, <2>4 DEF rubric
  <2>7. ClaimIsBacked'
    BY <1>3, <1>6, <2>4, <2>5, <2>6 DEF ClaimIsBacked, rubric
  <2>8. ASSUME run.command = "manifest"
        PROVE  /\ m.claimable => passed = Items /\ m.local /\ m.product /\ m.live
               /\ m.claimable /\ ~(\A r \in ToSet(Requirements) : m.requirements[r]) => changed
               /\ m.claimable # rubric.claimable => changed
               /\ \A r \in ToSet(Requirements) : m.requirements[r] = (r \in m.blockers) => changed
    <3>1. /\ m.claimable = Score(second).claimable /\ m.blockers = Score(second).blockers
          /\ m.requirements = third /\ m.local = second["local"]
          /\ m.product = second["product"] /\ m.live = second["live"]
      BY <2>2, <2>8 DEF Manifest
    <3>2. /\ m.claimable \in BOOLEAN
          /\ m.claimable <=> (\A item \in Items : second[item])
          /\ \A r \in ToSet(Requirements) : r \in m.blockers <=> ~second[r]
      BY <2>2, <2>8, <3>1, ScoreTells
    <3>3. m.claimable => passed = Items /\ m.local /\ m.product /\ m.live
      <4>1. {"local", "product", "live"} \subseteq Items
        BY DEF Items, Artifacts
      <4> QED
        BY <1>6, <2>2, <2>8, <3>1, <3>2, <4>1
    <3>4. ASSUME ~changed, m.claimable, NEW r \in ToSet(Requirements)
          PROVE  m.requirements[r]
      BY <1>6, <2>2, <2>8, <3>1, <3>2, <3>4
    <3>5. ASSUME ~changed
          PROVE  m.claimable = rubric.claimable
      <4>1. (\A item \in Items : first[item]) <=> (\A item \in Items : second[item])
        BY <2>1, <2>2, <2>8, <3>5
      <4>2. m.claimable <=> rubric.claimable
        BY <2>3, <3>2, <4>1
      <4> QED
        BY <2>3, <3>2, <4>2
    <3>6. ASSUME ~changed, NEW r \in ToSet(Requirements)
          PROVE  m.requirements[r] # (r \in m.blockers)
      <4>1. (third[r] <=> Passes(r)) /\ (second[r] <=> Passes(r)) /\ third[r] \in BOOLEAN
        BY <1>6, <2>2, <2>8, <3>6
      <4> QED
        BY <3>1, <3>2, <4>1
    <3> QED
      BY <3>3, <3>4, <3>5, <3>6
  <2>9. ManifestAgrees'
    BY <1>6, <2>8 DEF ManifestAgrees, m, rubric
  <2> QED
    BY <1>3, <1>4, <1>5, <2>7, <2>9 DEF Inv, ReportInv
<1> QED
  BY <1>7, <1>8

(* Live checks, and steps of nobody, leave files and reports alone. *)
LEMMA LiveOnlyStep ==
  ASSUME Inv, [LiveNext]_liveVars, UNCHANGED <<fileVars, runVars>>
  PROVE  Inv'
<1>1. LiveInv'
  BY LiveStep DEF Inv
<1>2. UNCHANGED <<files, evidence, rewrites, run, report, passed, changed>>
  BY DEF fileVars, runVars
<1>3. TypeOK'
  BY <1>2 DEF Inv, TypeOK
<1>4. Passing' = Passing
  BY <1>2 DEF Passing, Passes, SmokeAccepted
<1>5. PassedInv'
  BY <1>2, <1>4 DEF Inv, PassedInv
<1>6. ReadInv'
  <2>1. ASSUME NEW i \in DOMAIN run.read
        PROVE  Passes(ReadingsOf(run.command)[i])' = Passes(ReadingsOf(run.command)[i])
    BY <1>2 DEF Passes, SmokeAccepted
  <2> QED
    BY <1>2, <2>1 DEF Inv, ReadInv
<1>7. ReportInv'
  BY <1>2, <1>3, ReportStands
<1>8. Told(evidence.runtime)'
  BY <1>2 DEF Inv, Told, LooksMock
<1> QED
  BY <1>1, <1>3, <1>5, <1>6, <1>7, <1>8 DEF Inv

(* Every step keeps the invariant. *)
LEMMA NextInv == Inv /\ [Next]_vars => Inv'
<1> SUFFICES ASSUME Inv, [Next]_vars PROVE Inv'
  OBVIOUS
<1>1. CASE UNCHANGED vars
  BY <1>1, LiveOnlyStep DEF vars
<1>2. CASE Live
  BY <1>2, LiveOnlyStep DEF Live
<1> QED
  BY <1>1, <1>2, RewriteStep, RecordStep, StartStep, LookStep, ReadStep, FinishStep DEF Next

-----------------------------------------------------------------------------
(* The invariant of live checks, files and reports, for every value of    *)
(* the constants; the properties below are parts of it.                    *)
THEOREM Invariant == Spec => []Inv
  BY InitInv, NextInv, PTL DEF Spec

(* No live check sends a text without the gate, or reports an attempt. *)
THEOREM OptIn == Spec => []LiveIsOptIn
<1>1. Inv => LiveIsOptIn
  BY DEF Inv, LiveInv, Gated, LiveIsOptIn
<1> QED
  BY <1>1, Invariant, PTL

(* A ranking leads with a success of the best score. *)
THEOREM BestLeads == Spec => []RankingLeadsWithBest
<1>1. Inv => RankingLeadsWithBest
  BY DEF Inv, LiveInv
<1> QED
  BY <1>1, Invariant, PTL

(* A claim of 100 rests on files that passed while the command ran. *)
THEOREM ClaimsAreBacked == Spec => []ClaimIsBacked
<1>1. Inv => ClaimIsBacked
  BY DEF Inv, ReportInv
<1> QED
  BY <1>1, Invariant, PTL

(* The manifest agrees with the rubric unless a file changed between. *)
THEOREM ManifestsAgree == Spec => []ManifestAgrees
<1>1. Inv => ManifestAgrees
  BY DEF Inv, ReportInv
<1> QED
  BY <1>1, Invariant, PTL

(* Evidence from the mock endpoint is not accepted unless the environment  *)
(* was changed for the probe or hides the mock.                            *)
THEOREM MockIsNoEvidence == Spec => []MockNeverCounts
<1>1. ASSUME Inv PROVE MockNeverCounts
  <2> DEFINE smoke == evidence.smoke
  <2> SUFFICES ASSUME SmokeAccepted(evidence), smoke.provider = Local, IsMock(smoke.env),
                      smoke.env = evidence.runtime.env
               PROVE  smoke.env.url = "unnamed" /\ MockModel \notin ToSet(smoke.env.local)
    BY DEF MockNeverCounts
  <2>1. evidence.runtime.done /\ ~evidence.runtime.mock
    BY DEF SmokeAccepted
  <2>2. ~LooksMock(smoke.env)
    BY <1>1, <2>1 DEF Inv, Told
  <2>3. smoke.env.url = "unnamed"
    BY <2>2 DEF LooksMock, IsMock
  <2>4. MockModel \notin ToSet(smoke.env.local)
    BY <2>2 DEF LooksMock, ToSet
  <2> QED
    BY <2>3, <2>4
<1> QED
  BY <1>1, Invariant, PTL
=============================================================================
