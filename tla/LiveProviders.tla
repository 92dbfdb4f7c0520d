---------------------------- MODULE LiveProviders ----------------------------
(***************************************************************************)
(* The live checks of language-model providers (llm_live.py, http_json.py, *)
(* mock_openai.py): smoke_provider sends one small translation,            *)
(* rank_local_models one to each local model, local_runtime_readiness      *)
(* looks for a GPU and for signs of the mock endpoint.  Each is a command  *)
(* of its own that takes its environment when it starts; between commands  *)
(* the environment changes.  The provider may answer, answer nonsense or   *)
(* with an error, or break the connection.                                 *)
(***************************************************************************)
EXTENDS Naturals, Sequences, SequencesExt

CONSTANTS Environments,   \* [gate, url, local, keys, ids], see TypeOK
          MaxSwitches,    \* bound on changes of the environment
          Models,         \* model ids, MockModel among them
          MockModel,      \* MOCK_LOCAL_MODEL_IDS
          Offers,         \* what a provider may list: sequences of Models
          MaxModels,      \* max_models of rank_local_models
          MaxGpus         \* of the host

VARIABLES env, switches,
          op,        \* the command under way
          results,   \* what the last smoke or ranking reported
          probe,     \* what the last local_runtime_readiness reported
          calls      \* history: requests of the command under way

liveVars == <<env, switches, op, results, probe, calls>>

-----------------------------------------------------------------------------
Local == "local_openai_compat"
Clouds == {"openrouter_llm", "google_gemini"}
Providers == {Local} \cup Clouds \cup {"unknown"}

(* The endpoint at the local base URL: none configured, a real one, the    *)
(* mock under a URL that says so, the mock under another.                  *)
Urls == {"none", "real", "mock", "unnamed"}
IsMock(e) == e.url \in {"mock", "unnamed"}

(* What EDC_TRANSLATION_LIVE_SMOKE and the variables of the providers say. *)
ASSUME LiveAssumption ==
    /\ Environments \subseteq [gate : BOOLEAN, url : Urls, local : Seq(Models),
                               keys : SUBSET Clouds, ids : [Clouds -> Seq(Models)]]
    /\ MockModel \in Models /\ "none" \notin Models
    /\ Offers \subseteq Seq(Models)
    /\ MaxSwitches \in Nat /\ MaxModels \in Nat /\ MaxGpus \in Nat

Idle == [at |-> "idle"]
Raised == [at |-> "raised"]
Kinds == {"smoke", "ranking"}
NoProbe == [done |-> FALSE]

(* _provider_config_status *)
Configured(provider, e) ==
    CASE provider = Local     -> e.url # "none" /\ e.local # <<>>
      [] provider \in Clouds  -> provider \in e.keys
      [] provider = "unknown" -> FALSE

ConfiguredModels(provider, e) == IF provider = Local THEN e.local ELSE e.ids[provider]

(* A ProviderSmokeResult; score and latency (0: under a millisecond) are   *)
(* those of a success; "env", where it ran, is history.                    *)
Result(provider, configured, e, attempted) ==
    [provider |-> provider, configured |-> configured, enabled |-> e.gate,
     attempted |-> attempted, success |-> FALSE, model |-> "none",
     score |-> 0, latency |-> 0, env |-> e]

(* _is_mock_local_runtime *)
LooksMockByUrl(e) == e.url = "mock"
LooksMock(e) == e.url = "mock" \/ \E i \in DOMAIN e.local : e.local[i] = MockModel

Results ==
    {r \in [provider : Providers, configured : BOOLEAN, enabled : BOOLEAN, attempted : BOOLEAN,
            success : BOOLEAN, model : Models \cup {"none"}, score : 0..1, latency : 0..1,
            env : Environments] :
        /\ r.success => r.attempted /\ r.model # "none"
        /\ r.attempted => r.configured}

Probes == {NoProbe} \cup [done : {TRUE}, gpus : 0..MaxGpus, mock : BOOLEAN, ready : BOOLEAN,
                         env : Environments]

LiveTypeOK ==
    /\ env \in Environments /\ switches \in 0..MaxSwitches
    /\ op \in {Idle, Raised} \cup
             [at : {"discover", "next", "chat"}, kind : Kinds, provider : Providers,
              env : Environments, todo : Seq(Models \cup {"none"})]
    /\ results \in Seq(Results) /\ probe \in Probes
    /\ Len(results) <= MaxModels \/ Len(results) = 1

LiveInit ==
    /\ env \in Environments /\ switches = 0
    /\ op = Idle /\ results = <<>> /\ calls = {}
    /\ probe = NoProbe

-----------------------------------------------------------------------------
ChangeEnvironment ==
    /\ switches < MaxSwitches /\ op.at \in {"idle", "raised"}
    /\ \E e \in Environments \ {env} : env' = e
    /\ switches' = switches + 1
    /\ UNCHANGED <<op, results, probe, calls>>

Started(kind, provider, place, todo) ==
    op' = [at |-> place, kind |-> kind, provider |-> provider, env |-> env, todo |-> todo]

(* The key of the sorted() in rank_local_models.  A latency of 0 ms is     *)
(* taken for a missing one, the slowest.                                   *)
Latency(r) == IF r.success /\ r.latency # 0 THEN r.latency ELSE 999999
RankedByScore(r, s) == r.score > s.score \/ (r.score = s.score /\ Latency(r) <= Latency(s))
RankedBefore(r, s) ==
    IF r.success # s.success THEN r.success
    ELSE IF r.score # s.score THEN r.score > s.score
    ELSE Latency(r) <= Latency(s)

(* sorted() leaves equals in the order in which they came. *)
Sorts(order, all) ==
    /\ IsInjective(order)
    /\ \A i, j \in DOMAIN all : i < j =>
          /\ RankedBefore(all[order[i]], all[order[j]])
          /\ RankedBefore(all[order[j]], all[order[i]]) => order[i] < order[j]

Report(all) ==
    /\ IF op.kind = "ranking"
       THEN \E order \in [DOMAIN all -> DOMAIN all] :
               Sorts(order, all) /\ results' = [i \in DOMAIN all |-> all[order[i]]]
       ELSE results' = all
    /\ op' = Idle

(* smoke_provider, up to its first request: the configuration is looked at *)
(* before the gate.                                                        *)
Smoke(provider) ==
    /\ op.at \in {"idle", "raised"}
    /\ calls' = {}
    /\ IF ~Configured(provider, env)
       THEN /\ results' = <<Result(provider, FALSE, env, FALSE)>> /\ op' = Idle
       ELSE /\ results' = <<>>
            /\ LET models == ConfiguredModels(provider, env)
               IN  IF models = <<>> /\ env.gate
                   THEN Started("smoke", provider, "discover", <<>>)
                   ELSE Started("smoke", provider, "next", <<IF models = <<>> THEN "none" ELSE models[1]>>)
    /\ UNCHANGED <<env, switches, probe>>

FirstModels(models) == SubSeq(models, 1, IF Len(models) < MaxModels THEN Len(models) ELSE MaxModels)

(* rank_local_models: without configured models it asks the endpoint.      *)
Rank ==
    /\ op.at \in {"idle", "raised"}
    /\ calls' = {} /\ results' = <<>>
    /\ IF env.url = "none" THEN op' = Idle
       ELSE IF env.local = <<>> THEN Started("ranking", Local, "discover", <<>>)
       ELSE Started("ranking", Local, "next", FirstModels(env.local))
    /\ UNCHANGED <<env, switches, probe>>

Called(what) == calls' = calls \cup {[what |-> what, kind |-> op.kind, gate |-> op.env.gate]}

Failure == [Result(op.provider, TRUE, op.env, TRUE) EXCEPT !.enabled = TRUE]

(* The models are asked for.  smoke_provider reports what JsonHttpClient   *)
(* raises, rank_local_models lets it through; a connection that breaks     *)
(* while the answer is read raises what nobody catches.                    *)
Discover ==
    /\ op.at = "discover"
    /\ Called("models")
    /\ \/ \E models \in Offers :
            IF models = <<>> /\ op.kind = "smoke"
            THEN Report(<<Failure>>)
            ELSE /\ op' = [op EXCEPT !.at = "next",
                      !.todo = IF op.kind = "smoke" THEN <<models[1]>> ELSE FirstModels(models)]
                 /\ UNCHANGED results
       \/ op.kind = "smoke" /\ Report(<<Failure>>)
       \/ op' = Raised /\ results' = <<>>
    /\ UNCHANGED <<env, switches, probe>>

AnswerableWithKey(e) == e.gate \/ e.keys # {}
Answerable(e) == e.gate

(* The next model of a ranking, or the one of a smoke: smoke_provider asks *)
(* the gate.                                                               *)
NextModel ==
    /\ op.at = "next"
    /\ IF op.todo = <<>> THEN Report(results)
       ELSE IF Answerable(op.env) THEN op' = [op EXCEPT !.at = "chat"] /\ UNCHANGED results
       ELSE /\ op' = [op EXCEPT !.todo = Tail(@)]
            /\ results' = Append(results, Result(op.provider, TRUE, op.env, FALSE))
    /\ UNCHANGED <<env, switches, probe, calls>>

Answers(result) ==
    /\ op' = [op EXCEPT !.at = "next", !.todo = Tail(@)]
    /\ results' = Append(results, result)

(* The text is sent; the mock endpoint answers for any model id.           *)
Chat ==
    /\ op.at = "chat"
    /\ Called("chat")
    /\ \/ \E score \in 0..1, latency \in 0..1 :
            Answers([Failure EXCEPT !.success = TRUE, !.model = Head(op.todo),
                                    !.score = score, !.latency = latency])
       \/ Answers(Failure)
       \/ op' = Raised /\ results' = <<>>
    /\ UNCHANGED <<env, switches, probe>>

(* local_runtime_readiness: nvidia-smi is not there, times out, or lists   *)
(* the GPUs.                                                               *)
Probe ==
    /\ op.at \in {"idle", "raised"}
    /\ \E gpus \in 0..MaxGpus :
         probe' = [done |-> TRUE, gpus |-> gpus, mock |-> LooksMock(env),
                   ready |-> Configured(Local, env) /\ gpus > 0 /\ ~LooksMock(env),
                   env |-> env]
    /\ UNCHANGED <<env, switches, op, results, calls>>

LiveNext == \/ ChangeEnvironment \/ Rank \/ Discover \/ NextModel \/ Chat \/ Probe
            \/ \E provider \in Providers : Smoke(provider)

-----------------------------------------------------------------------------
(* The live checks are opt-in: without EDC_TRANSLATION_LIVE_SMOKE=1 no     *)
(* smoke and no ranking sends a text, and none asks a provider anything,   *)
(* except that a ranking asks the local endpoint for its models; and       *)
(* nothing is reported attempted, let alone a success.  Translations are   *)
(* not live checks: the local engine sends its texts without this gate.    *)
(* (Asked together with the types.)                                        *)
LiveIsOptIn ==
    /\ LiveTypeOK
    /\ \A c \in calls : c.gate \/ (c.what = "models" /\ c.kind = "ranking")
    /\ \A i \in DOMAIN results : results[i].attempted => results[i].enabled

(* A ranking that is reported leads with a model that succeeded if any     *)
(* did, and none that succeeded has a better score.                        *)
RankingLeadsWithBest ==
    op.at = "idle" => \A i \in DOMAIN results :
        results[i].success => results[1].success /\ results[1].score >= results[i].score
=============================================================================
