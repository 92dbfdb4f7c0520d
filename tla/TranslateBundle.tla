--------------------------- MODULE TranslateBundle ---------------------------
(***************************************************************************)
(* One translation, from the request to the TranslationBundle              *)
(* (translate_document_bundle in service.py): the policy of the tenant,    *)
(* its instruction set and the glossaries are read, an engine is chosen    *)
(* and admitted, the spans are translated, the provenance is attached.     *)
(* Meanwhile administrators update the policy and the glossaries, and      *)
(* operators and validations work on the model directories (ModelBundles). *)
(* Requests only read what they share, so that one request is enough.      *)
(***************************************************************************)
EXTENDS ModelBundles, Sequences, SequencesExt

CONSTANTS Order,         \* DEFAULT_AUTO_ENGINE_IDS
          NcModels,      \* models under a licence with "nc" in its name
          Glossaries, MaxGlossaryChanges,
          Admins, Updates,  \* one update of the policy by each administrator
          Requests,      \* [provider, nc, glossaries, instructions]
          Documents,     \* [primary, spans]
          Target         \* the target language

ASSUME TranslateAssumption ==
    /\ Order \in Seq(Models) /\ IsInjective(Order)
    /\ NcModels \subseteq Models
    /\ MaxGlossaryChanges \in Nat
    /\ \A u \in Updates : "glossaries" \in DOMAIN u => u.glossaries \in Seq(Glossaries)
    /\ \A r \in Requests : r.glossaries \in Seq(Glossaries)
    /\ \A d \in Documents : Len(d.spans) \in Nat /\ DOMAIN d.spans = 1..Len(d.spans)

VARIABLES policy,          \* of the one tenant
          admin,           \* what an administrator has read, to write it back
          glossaries, glossaryChanges,
          request,         \* what the request has read, and how it ended
          seen,            \* history: what was so at some time since it began
          intended,        \* history: the policy if updates did not overlap
          overlapped       \* history: an update wrote back a stale policy

governance == <<policy, admin, glossaries, glossaryChanges, intended, overlapped>>
vars == <<modelVars, governance, request, seen>>

-----------------------------------------------------------------------------
(* Engines and policies *)
Passthrough == "passthrough"
Cloud == "google_gemini"
Engines == Models \cup {Passthrough, Cloud}
Family(e) == IF e \in Models THEN "ct2_nmt" ELSE IF e = Cloud THEN "llm_cloud" ELSE "passthrough"

DefaultPolicy ==
    [provider |-> Passthrough, nc |-> FALSE,
     allowed |-> {"passthrough", "ct2_nmt", "llm_local", "quality_estimation"},
     blocked |-> {"llm_cloud"}, instructions |-> <<"baseline">>, glossaries |-> <<>>]

(* The one instruction set there is. *)
InstructionSets == {"baseline"}
AllowedByInstructions == {"passthrough", "ct2_nmt", "llm_local"}

GlossaryStates == {"absent", "draft", "approved", "foreign"}  \* foreign: of another pair

-----------------------------------------------------------------------------
(* Documents *)
SourceLanguage(doc) ==
    LET named == {i \in DOMAIN doc.spans : doc.spans[i].language # "none"}
    IN  IF doc.primary # "none" THEN doc.primary
        ELSE IF named = {} THEN "und"
        ELSE doc.spans[CHOOSE i \in named : \A j \in named : i <= j].language

LastWith(doc, id) == CHOOSE i \in DOMAIN doc.spans :
    doc.spans[i].id = id /\ \A j \in DOMAIN doc.spans : doc.spans[j].id = id => j <= i

(* The page comes from the last span of that id; a span without a language *)
(* gets str(None) and not the language of the document, since the key is   *)
(* always there.                                                           *)
TranslatedSpansFirst(doc) ==
    [i \in DOMAIN doc.spans |->
        [id |-> doc.spans[i].id, page |-> doc.spans[1].page, language |-> doc.spans[i].language]]
TranslatedSpans(doc) ==
    [i \in DOMAIN doc.spans |->
        [id |-> doc.spans[i].id,
         page |-> doc.spans[LastWith(doc, doc.spans[i].id)].page,
         language |-> IF doc.spans[i].language = "none" THEN "None" ELSE doc.spans[i].language]]

-----------------------------------------------------------------------------
(* The request *)
Available == {m \in Models : bundles[m].tokenizers}
NoRequest == [at |-> "new", error |-> "none"]
Running == request.at \notin {"new", "done", "failed"}

Now == [policies |-> {policy}, up |-> Available, down |-> Models \ Available,
        glossaries |-> {<<g, glossaries[g]>> : g \in Glossaries}]

(* What others change while the request is on its way is added to seen.    *)
Notice == seen' = IF Running THEN [f \in DOMAIN seen |-> seen[f] \cup Now'[f]] ELSE seen

TypeOK ==
    /\ ModelsTypeOK
    /\ DOMAIN policy = DOMAIN DefaultPolicy
    /\ \A a \in Admins : admin[a].at \in {"idle", "read", "done"}
    /\ glossaries \in [Glossaries -> GlossaryStates]
    /\ glossaryChanges \in 0..MaxGlossaryChanges
    /\ request.at \in {"new", "read", "load", "provenance", "done", "failed"}
    /\ (request.at = "failed") = (request.error # "none")
    /\ request.at \in {"load", "provenance", "done"} => request.engine \in Engines
    /\ seen.up \cup seen.down \subseteq Models
    /\ overlapped \in BOOLEAN

Init ==
    /\ ModelsInit
    /\ policy = DefaultPolicy /\ intended = DefaultPolicy /\ overlapped = FALSE
    /\ admin = [a \in Admins |-> [at |-> "idle"]]
    /\ glossaries \in [Glossaries -> {"absent", "approved"}] /\ glossaryChanges = 0
    /\ request = NoRequest
    /\ seen = [policies |-> {}, up |-> {}, down |-> {}, glossaries |-> {}]

-----------------------------------------------------------------------------
(* Administrators *)

(* update reads the policy under the lock, merges, and sets it under the   *)
(* lock again.                                                             *)
UpdateReads(a) ==
    /\ admin[a].at = "idle"
    /\ \E u \in Updates : admin' = [admin EXCEPT ![a] = [at |-> "read", update |-> u, copy |-> policy]]
    /\ UNCHANGED <<modelVars, policy, glossaries, glossaryChanges, intended, overlapped, request, seen>>

OverDefaults(update, copy) ==
    [f \in DOMAIN copy |-> IF f \in DOMAIN update THEN update[f] ELSE DefaultPolicy[f]]
Merged(update, copy) ==
    [f \in DOMAIN copy |-> IF f \in DOMAIN update THEN update[f] ELSE copy[f]]

UpdateSets(a) ==
    /\ admin[a].at = "read"
    /\ policy' = Merged(admin[a].update, admin[a].copy)
    /\ LET update == admin[a].update
       IN  intended' = [f \in DOMAIN intended |->
                           IF f \in DOMAIN update THEN update[f] ELSE intended[f]]
    /\ overlapped' = (overlapped \/ policy # admin[a].copy)
    /\ admin' = [admin EXCEPT ![a] = [at |-> "done"]]
    /\ UNCHANGED <<modelVars, glossaries, glossaryChanges, request>>
    /\ Notice

(* upsert_glossary and delete_glossary *)
ChangeGlossary(g) ==
    /\ glossaryChanges < MaxGlossaryChanges
    /\ glossaryChanges' = glossaryChanges + 1
    /\ \E state \in GlossaryStates \ {glossaries[g]} :
         glossaries' = [glossaries EXCEPT ![g] = state]
    /\ UNCHANGED <<modelVars, policy, admin, intended, overlapped, request>>
    /\ Notice

(* Operators and validations of model directories. *)
ModelStep == ModelsNext /\ UNCHANGED <<governance, request>> /\ Notice

-----------------------------------------------------------------------------
(* The translation *)
Goes(next) == request' = [request EXCEPT !.at = next]
Fails(error) == request' = [request EXCEPT !.at = "failed", !.error = error]
RequestOnly == UNCHANGED <<modelVars, governance, seen>>

(* The policy is read once; what is taken from it is fixed from here on.   *)
ReadPolicy ==
    /\ request.at = "new"
    /\ \E asked \in Requests, doc \in Documents :
         LET sets == IF asked.instructions # <<>> THEN asked.instructions ELSE policy.instructions
             known == sets # <<>> /\ Head(sets) \in InstructionSets
         IN  request' =
               [at |-> IF known THEN "read" ELSE "failed",
                error |-> IF known THEN "none" ELSE "instructions",
                asked |-> asked, doc |-> doc, policy |-> policy,
                provider |-> IF asked.provider = "tenant_default" THEN policy.provider ELSE asked.provider,
                nc |-> asked.nc \/ policy.nc,
                todo |-> IF asked.ownGlossaries THEN asked.glossaries ELSE policy.glossaries,
                active |-> {}, looked |-> 0, engine |-> "none"]
    /\ seen' = Now
    /\ UNCHANGED <<modelVars, governance>>

(* _resolve_glossaries *)
ReadGlossary ==
    /\ request.at = "read" /\ request.todo # <<>>
    /\ LET g == Head(request.todo)
           taken == IF glossaries[g] = "foreign" THEN {} ELSE {<<g, glossaries[g]>>}
       IN  IF glossaries[g] = "absent" THEN Fails("glossary")
           ELSE request' = [request EXCEPT !.todo = Tail(@), !.active = @ \cup taken]
    /\ RequestOnly

Routing == /\ request.at = "read" /\ request.todo = <<>>
           /\ request.provider = "auto" /\ SourceLanguage(request.doc) # Target

Permitted(m, nc) == m \notin NcModels \/ nc

(* diagnose_auto_route looks at the directories one after the other; the   *)
(* first eligible engine is selected, the others are looked at all the     *)
(* same, for the diagnostics.                                              *)
SelectedLast(m) == IF Permitted(m, request.nc) /\ m \in Available THEN m ELSE request.engine
Selected(m) == IF request.engine = "none" /\ Permitted(m, request.nc) /\ m \in Available
               THEN m ELSE request.engine
LookAtEngine ==
    /\ Routing /\ request.looked < Len(Order)
    /\ request' = [request EXCEPT !.looked = @ + 1, !.engine = Selected(Order[request.looked + 1])]
    /\ RequestOnly

(* _validate_policy_allows_engine, with the policy read at the beginning.  *)
AdmittedUnlessBlocked(e) == Family(e) \notin request.policy.blocked
Admitted(e) == /\ Family(e) \notin request.policy.blocked
               /\ Family(e) \in request.policy.allowed
               /\ Family(e) \in AllowedByInstructions

Resolved == IF request.provider # "auto" THEN request.provider
            ELSE IF Routing THEN request.engine ELSE Passthrough

(* get_engine refuses an id it does not know. *)
Known(e) == e \in Engines

ChooseEngine ==
    /\ request.at = "read" /\ request.todo = <<>>
    /\ Routing => request.looked = Len(Order)
    /\ IF Resolved = "none" THEN Fails("routing")
       ELSE IF ~Known(Resolved) THEN Fails("engine")
       ELSE IF ~Admitted(Resolved) THEN Fails("policy")
       ELSE request' = [request EXCEPT !.at = "load", !.engine = Resolved]
    /\ RequestOnly

(* The engine is made for this request and loads at its first span: its    *)
(* tokenizers are there or not; then the packages may not be installed, or *)
(* not open the weights and the tokenizers, which nobody has tried before. *)
(* (The instruction set admits no cloud engine.)                           *)
Load ==
    /\ request.at = "load"
    /\ \/ request.engine \in Models \ Available /\ Fails("tokenizers")
       \/ request.engine \in Available /\ Fails("runtime")
       \/ request.engine \notin Models \ Available /\ Goes("provenance")
    /\ RequestOnly

(* With a provenance.json that is not accepted the whole translation       *)
(* fails; a model without one is described by its MODEL_SHA256, if that    *)
(* can be read.                                                            *)
Attach ==
    /\ request.at = "provenance"
    /\ LET described == request.engine \in Models /\ bundles[request.engine].provenance # "none"
           accepted == Loadable(bundles[request.engine].provenance, TRUE)
       IN  \/ described /\ ~accepted /\ Fails("provenance")
           \/ request.engine \in Models /\ ~described /\ Fails("digest")
           \/ (described => accepted) /\ Goes("done")
    /\ RequestOnly

(* find_glossary_hits, on a text that holds a term of every glossary. *)
Hits == {entry[1] : entry \in {x \in request.active : x[2] = "approved"}}

Step == ReadPolicy \/ ReadGlossary \/ LookAtEngine \/ ChooseEngine \/ Load \/ Attach

Next ==
    \/ \E a \in Admins : UpdateReads(a) \/ UpdateSets(a)
    \/ \E g \in Glossaries : ChangeGlossary(g)
    \/ ModelStep
    \/ Step

Spec == Init /\ [][Next]_vars

-----------------------------------------------------------------------------
Routable == request.at # "new" /\ request.provider = "auto" /\ SourceLanguage(request.doc) # Target
Preceding(m) == {Order[i] : i \in {j \in DOMAIN Order : \E k \in DOMAIN Order : Order[k] = m /\ j < k}}

(* A bundle is allowed in every respect by one policy of the tenant that   *)
(* was in force while the request was served, however the administrators   *)
(* changed it meanwhile: provider, family, licence and glossaries are not  *)
(* taken from different versions.                                          *)
OnePolicyDecides ==
    request.at = "done" =>
        \E p \in seen.policies :
            /\ Family(request.engine) \in p.allowed \ p.blocked
            /\ request.asked.provider = "tenant_default" => request.provider = p.provider
            /\ Routable /\ request.engine \in NcModels => request.asked.nc \/ p.nc
            /\ ~request.asked.ownGlossaries => Hits \subseteq ToSet(p.glossaries)

(* The router prefers the first engine: while the request was served, the  *)
(* engine it took was ready at some time, and every permitted one before   *)
(* it was not at some time.  A request that found no engine, or whose      *)
(* engine missed its tokenizers, met a directory that was not ready.       *)
RoutedWell ==
    Routable =>
        /\ request.at \in {"load", "provenance", "done"} =>
              /\ request.engine \in seen.up
              /\ \A m \in Preceding(request.engine) : Permitted(m, request.nc) => m \in seen.down
        /\ request.error = "routing" => \A m \in ToSet(Order) : Permitted(m, request.nc) => m \in seen.down
        /\ request.error = "tokenizers" => request.engine \in seen.down

(* The bundle claims a glossary only if it was approved at some time while *)
(* the request was served, and the request fails for one only if it was    *)
(* absent; every span keeps its page, when the ids differ, and the         *)
(* language it was given.  (Asked together with the types.)                *)
BundleIsTrue ==
    /\ TypeOK
    /\ request.at = "done" => \A g \in Hits : <<g, "approved">> \in seen.glossaries
    /\ request.error = "glossary" => \E g \in Glossaries : <<g, "absent">> \in seen.glossaries
    /\ request.at = "done" =>
         LET spans == request.doc.spans
             out == TranslatedSpans(request.doc)
         IN  \A i \in DOMAIN spans :
               /\ IsInjective([j \in DOMAIN spans |-> spans[j].id]) => out[i].page = spans[i].page
               /\ spans[i].language # "none" => out[i].language = spans[i].language

(* What an update of the policy sets stays set until another update sets   *)
(* it, unless two updates overlapped.                                      *)
UpdatesLostOnlyToOverlap == ~overlapped => policy = intended

(* Nothing asks the registry before a model is used, and a validation      *)
(* looks at neither the packages nor the weights, so that an approved      *)
(* model may still not load.  What it did look at counts: a model that     *)
(* reads approved under any id, whose directory did not change since,      *)
(* never fails for its tokenizers or for its description.                  *)
ApprovalHolds ==
    [][\A i \in Ids :
         /\ registry[i].approved /\ registry[i].fresh
         /\ request.at \in {"load", "provenance"} /\ request.engine = registry[i].path
         => request'.error \in {"none", "runtime"}]_vars
=============================================================================
