----------------------- MODULE TranslateBundleProofs -----------------------
(***************************************************************************)
(* Proofs about TranslateBundle, for any models, policies, documents and   *)
(* requests and any number of administrators and validations: one policy   *)
(* decides, the router takes the first engine, the bundle claims what was  *)
(* so, what a validation approved holds, and policy updates are lost only  *)
(* when they overlap.                                                      *)
(***************************************************************************)
EXTENDS TranslateBundle, SequenceTheorems, TLAPS

Fields == {"at", "error", "asked", "doc", "policy", "provider", "nc", "todo", "active", "looked",
           "engine"}
Engaged == {"load", "provenance", "done"}

(* Policies, and the copies that administrators hold, list glossaries. *)
PolicyOK(p) == DOMAIN p = DOMAIN DefaultPolicy /\ p.glossaries \in Seq(Glossaries)
PoliciesOK ==
  /\ PolicyOK(policy)
  /\ DOMAIN admin = Admins
  /\ \A a \in Admins : admin[a].at = "read" => PolicyOK(admin[a].copy) /\ admin[a].update \in Updates

(* What is so now has been seen by a request that is on its way. *)
SeenNow ==
  /\ DOMAIN seen = {"policies", "up", "down", "glossaries"}
  /\ Running => Available \subseteq seen.up /\ Models \ Available \subseteq seen.down

(* What the request holds was taken from the one policy it has read. *)
ByOnePolicy ==
  request.at # "new" =>
    /\ DOMAIN request = Fields
    /\ request.at \in {"read", "failed"} \cup Engaged
    /\ request.at # "failed" => request.error = "none"
    /\ request.policy \in seen.policies
    /\ request.provider = IF request.asked.provider = "tenant_default" THEN request.policy.provider
                          ELSE request.asked.provider
    /\ request.nc <=> request.asked.nc \/ request.policy.nc
    /\ request.todo \in Seq(Glossaries)
    /\ ~request.asked.ownGlossaries =>
         /\ ToSet(request.todo) \subseteq ToSet(request.policy.glossaries)
         /\ \A x \in request.active : x[1] \in ToSet(request.policy.glossaries)
    /\ request.at \in Engaged =>
         Family(request.engine) \in request.policy.allowed \ request.policy.blocked

(* The first n engines were not ready, or the one chosen is the first of   *)
(* them that was.                                                          *)
NoneReady(n) ==
  \A i \in 1..n : Permitted(Order[i], request.nc) => Order[i] \in seen.down
FirstReady(n) ==
  \E k \in 1..n : /\ Order[k] = request.engine /\ request.engine \in seen.up
                  /\ Permitted(request.engine, request.nc)
                  /\ NoneReady(k - 1)

RoutedSoFar ==
  /\ request.at = "read" =>
       /\ request.looked \in 0..Len(Order)
       /\ request.engine = "none" => NoneReady(request.looked)
       /\ request.engine # "none" => FirstReady(request.looked)
  /\ request.at \in Engaged /\ Routable => FirstReady(Len(Order))
  /\ request.error = "routing" /\ Routable => NoneReady(Len(Order))
  /\ request.error = "tokenizers" => request.engine \in seen.down

TInv == PoliciesOK /\ SeenNow /\ ByOnePolicy /\ RoutedSoFar

-----------------------------------------------------------------------------
(* At the start no request has read anything. *)
LEMMA InitTInv == Init => TInv
<1> SUFFICES ASSUME Init PROVE TInv
  OBVIOUS
<1>1. PoliciesOK
  BY EmptySeq DEF Init, PoliciesOK, PolicyOK, DefaultPolicy
<1>2. SeenNow /\ ByOnePolicy
  BY DEF Init, SeenNow, ByOnePolicy, NoRequest, Running
<1>3. RoutedSoFar
  BY DEF Init, RoutedSoFar, NoRequest, Engaged, Routable
<1> QED
  BY <1>1, <1>2, <1>3 DEF TInv

(* History only grows while a request is served. *)
SeenGrows ==
  /\ DOMAIN seen' = DOMAIN seen
  /\ seen.policies \subseteq seen'.policies
  /\ seen.up \subseteq seen'.up /\ seen.down \subseteq seen'.down

(* What others change meanwhile is noticed, and forgotten nothing of. *)
LEMMA NoticeGrows ==
  ASSUME SeenNow, Notice
  PROVE  /\ SeenGrows
         /\ Running => Available' \subseteq seen'.up /\ Models \ Available' \subseteq seen'.down
<1>1. CASE Running
  <2>1. seen' = [f \in DOMAIN seen |-> seen[f] \cup Now'[f]]
    BY <1>1 DEF Notice
  <2>2. Now'.up = Available' /\ Now'.down = Models \ Available'
    BY DEF Now
  <2> QED
    BY <2>1, <2>2 DEF SeenNow, SeenGrows
<1>2. CASE ~ Running
  BY <1>2 DEF Notice, SeenGrows
<1> QED
  BY <1>1, <1>2

(* Others may do what they like: what the request holds stays as it is.     *)
LEMMA OthersKeep ==
  ASSUME TInv, UNCHANGED request, SeenGrows, PoliciesOK',
         Running => Available' \subseteq seen'.up /\ Models \ Available' \subseteq seen'.down
  PROVE  TInv'
<1> USE DEF TInv
<1>1. SeenNow'
  BY DEF SeenNow, SeenGrows, Running
<1>2. ByOnePolicy'
  BY DEF ByOnePolicy, SeenGrows, Family
<1>3. \A n : NoneReady(n) => NoneReady(n)'
  BY DEF NoneReady, SeenGrows, Permitted
<1>4. \A n : FirstReady(n) => FirstReady(n)'
  BY <1>3 DEF FirstReady, SeenGrows, Permitted
<1>5. Routable' <=> Routable
  BY DEF Routable
<1>6. RoutedSoFar'
  BY <1>3, <1>4, <1>5 DEF RoutedSoFar, SeenGrows
<1> QED
  BY <1>1, <1>2, <1>6

(* Administrators, operators and validations keep the invariant. *)
LEMMA OthersStep ==
  ASSUME TInv,
         \/ \E a \in Admins : UpdateReads(a) \/ UpdateSets(a)
         \/ \E g \in Glossaries : ChangeGlossary(g)
         \/ ModelStep
  PROVE  TInv'
<1> USE TranslateAssumption DEF TInv
<1>1. ASSUME NEW a \in Admins, UpdateReads(a) PROVE TInv'
  <2>1. PICK u \in Updates :
          admin' = [admin EXCEPT ![a] = [at |-> "read", update |-> u, copy |-> policy]]
    BY <1>1 DEF UpdateReads
  <2>2. PoliciesOK'
    BY <1>1, <2>1 DEF UpdateReads, PoliciesOK, PolicyOK, DefaultPolicy
  <2>3. UNCHANGED <<modelVars, request, seen>>
    BY <1>1 DEF UpdateReads
  <2>4. Available' = Available
    BY <2>3 DEF Available, modelVars
  <2> QED
    BY <2>2, <2>3, <2>4, OthersKeep DEF SeenGrows, SeenNow
<1>2. ASSUME NEW a \in Admins, UpdateSets(a) PROVE TInv'
  <2>1. /\ admin[a].at = "read" /\ policy' = Merged(admin[a].update, admin[a].copy)
        /\ admin' = [admin EXCEPT ![a] = [at |-> "done"]]
        /\ UNCHANGED request /\ Notice
    BY <1>2 DEF UpdateSets
  <2>2. PolicyOK(admin[a].copy) /\ admin[a].update \in Updates
    BY <2>1 DEF PoliciesOK
  <2>3. PolicyOK(policy')
    <3>1. "glossaries" \in DOMAIN admin[a].copy
      BY <2>2 DEF PolicyOK, DefaultPolicy
    <3> QED
      BY <2>1, <2>2, <3>1 DEF Merged, PolicyOK, TranslateAssumption
  <2>4. PoliciesOK'
    BY <2>1, <2>3 DEF PoliciesOK, PolicyOK, DefaultPolicy
  <2> QED
    BY <2>1, <2>4, NoticeGrows, OthersKeep
<1>3. ASSUME NEW g \in Glossaries, ChangeGlossary(g) PROVE TInv'
  <2>1. UNCHANGED <<policy, admin, request>> /\ Notice
    BY <1>3 DEF ChangeGlossary
  <2>2. PoliciesOK'
    BY <2>1 DEF PoliciesOK, PolicyOK, DefaultPolicy
  <2> QED
    BY <2>1, <2>2, NoticeGrows, OthersKeep
<1>4. CASE ModelStep
  <2>1. UNCHANGED <<policy, admin, request>> /\ Notice
    BY <1>4 DEF ModelStep, governance
  <2>2. PoliciesOK'
    BY <2>1 DEF PoliciesOK, PolicyOK, DefaultPolicy
  <2> QED
    BY <2>1, <2>2, NoticeGrows, OthersKeep
<1> QED
  BY <1>1, <1>2, <1>3, <1>4

(* The request reads the policy, which is the one in force. *)
LEMMA ReadPolicyKeeps == ASSUME TInv, ReadPolicy PROVE TInv'
<1> USE TranslateAssumption DEF TInv
<1>1. UNCHANGED <<policy, admin, bundles>> /\ seen' = Now /\ request.at = "new"
  BY DEF ReadPolicy, governance, modelVars
<1>2. PICK asked \in Requests, doc \in Documents, known \in BOOLEAN :
        request' =
          [at |-> IF known THEN "read" ELSE "failed",
           error |-> IF known THEN "none" ELSE "instructions",
           asked |-> asked, doc |-> doc, policy |-> policy,
           provider |-> IF asked.provider = "tenant_default" THEN policy.provider ELSE asked.provider,
           nc |-> asked.nc \/ policy.nc,
           todo |-> IF asked.ownGlossaries THEN asked.glossaries ELSE policy.glossaries,
           active |-> {}, looked |-> 0, engine |-> "none"]
  <2> DEFINE sets(asked) == IF asked.instructions # <<>> THEN asked.instructions
                            ELSE policy.instructions
             known(asked) == sets(asked) # <<>> /\ Head(sets(asked)) \in InstructionSets
  <2>1. \A asked : known(asked) \in BOOLEAN
    OBVIOUS
  <2> QED
    BY <2>1, Zenon DEF ReadPolicy
<1>3. PoliciesOK'
  BY <1>1 DEF PoliciesOK, PolicyOK, DefaultPolicy
<1>4. SeenNow'
  BY <1>1 DEF SeenNow, Now, Available, Running
<1>5. ByOnePolicy'
  <2>1. policy \in seen'.policies
    BY <1>1 DEF Now
  <2>2. asked.glossaries \in Seq(Glossaries) /\ policy.glossaries \in Seq(Glossaries)
    BY DEF TranslateAssumption, PoliciesOK, PolicyOK
  <2> QED
    BY <1>2, <2>1, <2>2 DEF ByOnePolicy, Fields, Engaged
<1>6. RoutedSoFar'
  <2>1. /\ request'.at \in {"read", "failed"} /\ request'.looked = 0 /\ request'.engine = "none"
        /\ request'.error \in {"none", "instructions"}
    BY <1>2
  <2>2. Len(Order) \in Nat
    BY LenProperties DEF TranslateAssumption
  <2>3. 1..0 = {}
    OBVIOUS
  <2> QED
    BY <2>1, <2>2, <2>3 DEF RoutedSoFar, NoneReady, Engaged
<1> QED
  BY <1>3, <1>4, <1>5, <1>6

(* A step of the request leaves everything it shares with others alone. *)
LEMMA OwnStep ==
  ASSUME TInv, RequestOnly, Running' => Running
  PROVE  PoliciesOK' /\ SeenNow' /\ seen' = seen
<1>1. UNCHANGED <<policy, admin, bundles, seen>>
  BY DEF RequestOnly, governance, modelVars
<1>2. PoliciesOK'
  BY <1>1 DEF TInv, PoliciesOK, PolicyOK, DefaultPolicy
<1>3. SeenNow'
  BY <1>1 DEF TInv, SeenNow, Available
<1> QED
  BY <1>1, <1>2, <1>3

(* A request that fails, but for want of an engine, keeps what it holds. *)
LEMMA FailureKeeps ==
  ASSUME TInv, RequestOnly, Running, NEW error, Fails(error), error # "none",
         error = "routing" /\ Routable => NoneReady(Len(Order)),
         error = "tokenizers" => request.engine \in seen.down
  PROVE  TInv'
<1> USE DEF TInv
<1>0. request.at # "new"
  BY DEF Running
<1>1. DOMAIN request = Fields
  BY <1>0 DEF ByOnePolicy
<1>2. /\ request'.at = "failed" /\ request'.error = error /\ DOMAIN request' = Fields
      /\ \A f \in Fields \ {"at", "error"} : request'[f] = request[f]
  BY <1>1 DEF Fails, Fields
<1>3. /\ request'.asked = request.asked /\ request'.policy = request.policy
      /\ request'.provider = request.provider /\ request'.nc = request.nc
      /\ request'.todo = request.todo /\ request'.active = request.active
      /\ request'.engine = request.engine /\ request'.doc = request.doc
  BY <1>2 DEF Fields
<1>4. PoliciesOK' /\ SeenNow' /\ seen' = seen
  BY OwnStep
<1>5. ByOnePolicy'
  BY <1>0, <1>2, <1>3, <1>4 DEF ByOnePolicy, Engaged
<1>6. Routable' => Routable
  BY <1>0, <1>3 DEF Routable
<1>7. RoutedSoFar'
  BY <1>2, <1>3, <1>4, <1>6 DEF RoutedSoFar, NoneReady, Permitted, Engaged
<1> QED
  BY <1>4, <1>5, <1>7

(* Looking a glossary up takes it from the list of those to do. *)
LEMMA ReadGlossaryKeeps == ASSUME TInv, ReadGlossary PROVE TInv'
<1> USE DEF TInv
<1> DEFINE g == Head(request.todo)
           taken == IF glossaries[g] = "foreign" THEN {} ELSE {<<g, glossaries[g]>>}
<1>0. request.at = "read" /\ request.todo # <<>> /\ RequestOnly /\ Running
  BY DEF ReadGlossary, Running
<1>1. CASE glossaries[g] = "absent"
  <2>1. Fails("glossary")
    BY <1>1 DEF ReadGlossary
  <2> QED
    BY <1>0, <2>1, FailureKeeps
<1>2. CASE glossaries[g] # "absent"
  <2>1. request' = [request EXCEPT !.todo = Tail(@), !.active = @ \cup taken]
    BY <1>2 DEF ReadGlossary
  <2>2. DOMAIN request = Fields /\ request.todo \in Seq(Glossaries)
    BY <1>0 DEF ByOnePolicy
  <2> HIDE DEF taken
  <2>3. /\ DOMAIN request' = Fields
        /\ request'.at = request.at /\ request'.error = request.error
        /\ request'.asked = request.asked /\ request'.policy = request.policy
        /\ request'.provider = request.provider /\ request'.nc = request.nc
        /\ request'.engine = request.engine /\ request'.looked = request.looked
        /\ request'.doc = request.doc
        /\ request'.todo = Tail(request.todo) /\ request'.active = request.active \cup taken
    BY <2>1, <2>2 DEF Fields
  <2>4. /\ Tail(request.todo) \in Seq(Glossaries) /\ g \in ToSet(request.todo)
        /\ ToSet(Tail(request.todo)) \subseteq ToSet(request.todo)
    BY <1>0, <2>2, HeadTailProperties, LenProperties DEF ToSet
  <2>5. PoliciesOK' /\ SeenNow' /\ seen' = seen
    BY <1>0, OwnStep
  <2>6. ByOnePolicy'
    <3>1. \A x \in taken : x[1] = g
      BY DEF taken
    <3> HIDE DEF g
    <3> QED
      BY <1>0, <2>3, <2>4, <2>5, <3>1 DEF ByOnePolicy, Engaged
  <2>7. RoutedSoFar'
    BY <1>0, <2>3, <2>5 DEF RoutedSoFar, NoneReady, FirstReady, Permitted, Engaged, ByOnePolicy
  <2> QED
    BY <2>5, <2>6, <2>7
<1> QED
  BY <1>1, <1>2

(* The router looks at one more engine, and takes the first that is ready.  *)
LEMMA LookAtEngineKeeps == ASSUME TInv, LookAtEngine PROVE TInv'
<1> USE TranslateAssumption DEF TInv
<1> DEFINE m == Order[request.looked + 1]
<1>0. /\ request.at = "read" /\ request.looked < Len(Order) /\ RequestOnly /\ Running
      /\ request' = [request EXCEPT !.looked = @ + 1, !.engine = Selected(m)]
  BY DEF LookAtEngine, Routing, Running
<1>1. DOMAIN request = Fields
  BY <1>0 DEF ByOnePolicy
<1> HIDE DEF m
<1>2. /\ DOMAIN request' = Fields
      /\ request'.at = request.at /\ request'.error = request.error
      /\ request'.asked = request.asked /\ request'.policy = request.policy
      /\ request'.provider = request.provider /\ request'.nc = request.nc
      /\ request'.todo = request.todo /\ request'.active = request.active
      /\ request'.doc = request.doc
      /\ request'.engine = Selected(m) /\ request'.looked = request.looked + 1
  BY <1>0, <1>1 DEF Fields
<1>3. PoliciesOK' /\ SeenNow' /\ seen' = seen
  BY <1>0, OwnStep
<1>4. ByOnePolicy'
  BY <1>0, <1>2, <1>3 DEF ByOnePolicy, Engaged
<1>5. /\ Len(Order) \in Nat /\ request.looked \in 0..Len(Order)
      /\ request.looked + 1 \in 1..Len(Order) /\ m \in Models
  <2>1. Order \in Seq(Models)
    BY DEF TranslateAssumption
  <2>2. Len(Order) \in Nat /\ \A i \in 1..Len(Order) : Order[i] \in Models
    BY <2>1, LenProperties
  <2>3. request.looked \in 0..Len(Order)
    BY <1>0 DEF RoutedSoFar
  <2> QED
    BY <1>0, <2>2, <2>3 DEF m
<1>6. \A n : NoneReady(n)' <=> NoneReady(n)
  BY <1>2, <1>3 DEF NoneReady, Permitted
<1>7. PICK n \in Nat : n = request.looked
  BY <1>5
<1>8. /\ n + 1 \in Nat /\ n + 1 \in 1..n + 1 /\ n + 1 \in 1..Len(Order) /\ (n + 1) - 1 = n
      /\ Order[n + 1] = m
  BY <1>5, <1>7 DEF m
<1>9. IF request'.engine = "none" THEN NoneReady(n + 1) ELSE FirstReady(n + 1)'
  <2>1. CASE request.engine = "none" /\ Permitted(m, request.nc) /\ m \in Available
    <3>1. request'.engine = m /\ m # "none"
      BY <1>2, <1>5, <2>1, ModelAssumption DEF Selected, ModelAssumption
    <3>2. NoneReady(n) /\ m \in seen.up
      BY <1>0, <1>7, <2>1 DEF RoutedSoFar, SeenNow
    <3>3. Permitted(request'.engine, request'.nc) /\ request'.engine \in seen'.up
      BY <1>2, <1>3, <2>1, <3>1, <3>2 DEF Permitted
    <3>4. NoneReady((n + 1) - 1)'
      BY <1>6, <1>8, <3>2
    <3> QED
      BY <1>8, <3>1, <3>3, <3>4 DEF FirstReady, Permitted
  <2>2. CASE request.engine = "none" /\ ~ (Permitted(m, request.nc) /\ m \in Available)
    <3>1. request'.engine = "none"
      BY <1>2, <2>2 DEF Selected
    <3>2. NoneReady(n) /\ (Permitted(m, request.nc) => m \in seen.down)
      BY <1>0, <1>5, <1>7, <2>2 DEF RoutedSoFar, SeenNow
    <3>3. \A i \in 1..n + 1 : i \in 1..n \/ i = n + 1
      OBVIOUS
    <3> QED
      BY <1>8, <3>1, <3>2, <3>3 DEF NoneReady
  <2>3. CASE request.engine # "none"
    <3>1. request'.engine = request.engine
      BY <1>2, <2>3 DEF Selected
    <3>2. FirstReady(n)
      BY <1>0, <1>7, <2>3 DEF RoutedSoFar
    <3>3. \A k \in 1..n : k \in 1..n + 1
      OBVIOUS
    <3> QED
      BY <1>2, <1>3, <1>6, <2>3, <3>1, <3>2, <3>3 DEF FirstReady, Permitted
  <2> QED
    BY <2>1, <2>2, <2>3
<1>10. RoutedSoFar'
  <2>1. request'.looked = n + 1 /\ request'.looked \in 0..Len(Order)
    BY <1>2, <1>5, <1>7
  <2>2. request'.at = "read" /\ request'.error = "none"
    BY <1>0, <1>2 DEF ByOnePolicy
  <2>3. request'.engine = "none" => NoneReady(n + 1)'
    BY <1>6, <1>9
  <2>4. request'.engine # "none" => FirstReady(n + 1)'
    BY <1>9
  <2> QED
    BY <2>1, <2>2, <2>3, <2>4 DEF RoutedSoFar, Engaged
<1> QED
  BY <1>3, <1>4, <1>10

(* An engine is chosen by the policy that was read, and by the route. *)
LEMMA ChooseEngineKeeps == ASSUME TInv, ChooseEngine PROVE TInv'
<1> USE DEF TInv
<1>0. /\ request.at = "read" /\ request.todo = <<>> /\ RequestOnly /\ Running
      /\ Routing => request.looked = Len(Order)
  BY DEF ChooseEngine, Running
<1>1. Routable => Routing /\ request.looked = Len(Order) /\ Resolved = request.engine
  BY <1>0 DEF Routable, Routing, Resolved
<1>2. CASE Resolved = "none"
  <2>1. Fails("routing")
    BY <1>2 DEF ChooseEngine
  <2>2. Routable => NoneReady(Len(Order))
    BY <1>0, <1>1, <1>2 DEF RoutedSoFar
  <2> QED
    BY <1>0, <2>1, <2>2, FailureKeeps
<1>3. CASE Resolved # "none" /\ ~ Known(Resolved)
  BY <1>0, <1>3, FailureKeeps DEF ChooseEngine
<1>4. CASE Resolved # "none" /\ Known(Resolved) /\ ~ Admitted(Resolved)
  BY <1>0, <1>4, FailureKeeps DEF ChooseEngine
<1>5. CASE Resolved # "none" /\ Known(Resolved) /\ Admitted(Resolved)
  <2> DEFINE e == Resolved
  <2>1. request' = [request EXCEPT !.at = "load", !.engine = e]
    BY <1>5 DEF ChooseEngine
  <2>2. DOMAIN request = Fields
    BY <1>0 DEF ByOnePolicy
  <2>3. Family(e) \in request.policy.allowed \ request.policy.blocked
    BY <1>5 DEF Admitted
  <2>4. Routable => e = request.engine /\ FirstReady(Len(Order))
    BY <1>0, <1>1, <1>5 DEF RoutedSoFar
  <2> HIDE DEF e
  <2>5. /\ DOMAIN request' = Fields
        /\ request'.at = "load" /\ request'.error = request.error
        /\ request'.asked = request.asked /\ request'.policy = request.policy
        /\ request'.provider = request.provider /\ request'.nc = request.nc
        /\ request'.todo = request.todo /\ request'.active = request.active
        /\ request'.doc = request.doc /\ request'.engine = e
    BY <2>1, <2>2 DEF Fields
  <2>6. PoliciesOK' /\ SeenNow' /\ seen' = seen
    BY <1>0, OwnStep
  <2>7. ByOnePolicy'
    BY <1>0, <2>3, <2>5, <2>6 DEF ByOnePolicy, Engaged
  <2>8. Routable' => Routable
    BY <1>0, <2>5 DEF Routable
  <2>9. RoutedSoFar'
    <3>1. request'.error = "none"
      BY <1>0, <2>5 DEF ByOnePolicy
    <3>2. Routable => FirstReady(Len(Order))'
      BY <2>4, <2>5, <2>6 DEF FirstReady, NoneReady, Permitted
    <3> QED
      BY <2>5, <2>8, <3>1, <3>2 DEF RoutedSoFar
  <2> QED
    BY <2>6, <2>7, <2>9
<1> QED
  BY <1>2, <1>3, <1>4, <1>5

(* A request that was admitted moves on with what it holds. *)
LEMMA MovingKeeps ==
  ASSUME TInv, RequestOnly, request.at \in {"load", "provenance"}, NEW next \in Engaged,
         Goes(next)
  PROVE  TInv'
<1> USE DEF TInv
<1>0. request.at # "new" /\ Running' => Running
  BY DEF Engaged, Running, Goes
<1>1. DOMAIN request = Fields
  BY DEF ByOnePolicy, Engaged
<1>2. /\ DOMAIN request' = Fields
      /\ request'.at = next /\ request'.error = request.error
      /\ request'.asked = request.asked /\ request'.policy = request.policy
      /\ request'.provider = request.provider /\ request'.nc = request.nc
      /\ request'.todo = request.todo /\ request'.active = request.active
      /\ request'.doc = request.doc /\ request'.engine = request.engine
  BY <1>1 DEF Goes, Fields
<1>3. PoliciesOK' /\ SeenNow' /\ seen' = seen
  BY <1>0, OwnStep
<1>4. ByOnePolicy'
  BY <1>0, <1>2, <1>3 DEF ByOnePolicy, Engaged
<1>5. Routable' => Routable
  BY <1>2 DEF Routable, Engaged
<1>6. RoutedSoFar'
  BY <1>2, <1>3, <1>5 DEF RoutedSoFar, FirstReady, NoneReady, Permitted, Engaged
<1> QED
  BY <1>3, <1>4, <1>6

(* Every step keeps the invariant: one step per action. *)
LEMMA TranslateStep == TInv /\ [Next]_vars => TInv'
<1> SUFFICES ASSUME TInv, [Next]_vars PROVE TInv'
  OBVIOUS
<1>1. CASE UNCHANGED vars
  <2>1. UNCHANGED <<policy, admin, request, seen, bundles>>
    BY <1>1 DEF vars, governance, modelVars
  <2>2. PoliciesOK' /\ Available' = Available
    BY <2>1 DEF TInv, PoliciesOK, PolicyOK, DefaultPolicy, Available
  <2> QED
    BY <2>1, <2>2, OthersKeep DEF TInv, SeenGrows, SeenNow
<1>2. CASE Load
  <2>1. request.at = "load" /\ RequestOnly /\ Running
    BY <1>2 DEF Load, Running
  <2>2. CASE request.engine \in Models \ Available /\ Fails("tokenizers")
    BY <2>1, <2>2, FailureKeeps DEF TInv, SeenNow
  <2>3. CASE Fails("runtime")
    BY <2>1, <2>3, FailureKeeps
  <2>4. CASE Goes("provenance")
    BY <2>1, <2>4, MovingKeeps DEF Engaged
  <2> QED
    BY <1>2, <2>2, <2>3, <2>4 DEF Load
<1>3. CASE Attach
  <2>1. request.at = "provenance" /\ RequestOnly /\ Running
    BY <1>3 DEF Attach, Running
  <2>2. Fails("provenance") \/ Fails("digest") \/ Goes("done")
    BY <1>3 DEF Attach
  <2> QED
    BY <2>1, <2>2, FailureKeeps, MovingKeeps DEF Engaged
<1> QED
  BY <1>1, <1>2, <1>3, OthersStep, ReadPolicyKeeps, ReadGlossaryKeeps, LookAtEngineKeeps,
     ChooseEngineKeeps DEF Next, Step

-----------------------------------------------------------------------------
(* One policy, in force while the request was served, allows the bundle in *)
(* every respect, however administrators change it meanwhile.              *)
THEOREM OnePolicy == Spec => []OnePolicyDecides
<1>1. TInv => OnePolicyDecides
  <2> SUFFICES ASSUME TInv, request.at = "done"
               PROVE  LET p == request.policy
                      IN  /\ p \in seen.policies
                          /\ Family(request.engine) \in p.allowed \ p.blocked
                          /\ request.asked.provider = "tenant_default" => request.provider = p.provider
                          /\ Routable /\ request.engine \in NcModels => request.asked.nc \/ p.nc
                          /\ ~request.asked.ownGlossaries => Hits \subseteq ToSet(p.glossaries)
    BY DEF OnePolicyDecides
  <2>1. ByOnePolicy /\ request.at # "new" /\ request.at \in Engaged
    BY DEF TInv, Engaged
  <2>2. Routable /\ request.engine \in NcModels => request.nc
    BY <2>1 DEF TInv, RoutedSoFar, FirstReady, Permitted
  <2> QED
    BY <2>1, <2>2 DEF ByOnePolicy, Hits
<1> QED
  BY <1>1, InitTInv, TranslateStep, PTL DEF Spec

(* The router takes the first engine that is ready, and every failure for   *)
(* want of an engine or of its tokenizers met a directory without them.     *)
THEOREM RoutesWell == Spec => []RoutedWell
<1>1. TInv => RoutedWell
  <2> SUFFICES ASSUME TInv, Routable PROVE RoutedWell
    BY DEF RoutedWell
  <2>1. Order \in Seq(Models) /\ IsInjective(Order) /\ Len(Order) \in Nat /\ DOMAIN Order = 1..Len(Order)
    BY TranslateAssumption, LenProperties DEF TranslateAssumption
  <2>2. ASSUME request.at \in Engaged
        PROVE  /\ request.engine \in seen.up
               /\ \A m \in Preceding(request.engine) : Permitted(m, request.nc) => m \in seen.down
    <3>1. PICK k \in 1..Len(Order) :
            Order[k] = request.engine /\ request.engine \in seen.up /\ NoneReady(k - 1)
      BY <2>2 DEF TInv, RoutedSoFar, FirstReady
    <3>2. ASSUME NEW m \in Preceding(request.engine), Permitted(m, request.nc)
          PROVE  m \in seen.down
      <4>1. PICK i \in DOMAIN Order, l \in DOMAIN Order :
              m = Order[i] /\ Order[l] = request.engine /\ i < l
        BY DEF Preceding
      <4>2. l = k
        BY <2>1, <3>1, <4>1 DEF IsInjective
      <4>3. i \in 1..k - 1
        BY <2>1, <4>1, <4>2
      <4> QED
        BY <3>1, <3>2, <4>1, <4>3 DEF NoneReady
    <3> QED
      BY <3>1, <3>2
  <2>3. ASSUME request.error = "routing", NEW m \in ToSet(Order), Permitted(m, request.nc)
        PROVE  m \in seen.down
    BY <2>1, <2>3 DEF TInv, RoutedSoFar, NoneReady, ToSet
  <2>4. request.error = "tokenizers" => request.engine \in seen.down
    BY DEF TInv, RoutedSoFar
  <2> QED
    BY <2>2, <2>3, <2>4 DEF RoutedWell, Engaged
<1> QED
  BY <1>1, InitTInv, TranslateStep, PTL DEF Spec

(* What an administrator set stays set, unless two updates overlapped.      *)
THEOREM OverlapLoses == Spec => []UpdatesLostOnlyToOverlap
<1>1. Init => UpdatesLostOnlyToOverlap
  BY DEF Init, UpdatesLostOnlyToOverlap
<1>2. UpdatesLostOnlyToOverlap /\ [Next]_vars => UpdatesLostOnlyToOverlap'
  <2> SUFFICES ASSUME UpdatesLostOnlyToOverlap, [Next]_vars PROVE UpdatesLostOnlyToOverlap'
    OBVIOUS
  <2>1. CASE \E a \in Admins : UpdateSets(a)
    BY <2>1 DEF UpdateSets, Merged, UpdatesLostOnlyToOverlap
  <2>2. CASE UNCHANGED <<policy, intended, overlapped>>
    BY <2>2 DEF UpdatesLostOnlyToOverlap
  <2>3. (\E a \in Admins : UpdateSets(a)) \/ UNCHANGED <<policy, intended, overlapped>>
    BY DEF Next, vars, governance, UpdateReads, ChangeGlossary, ModelStep, Step, RequestOnly,
           ReadPolicy, ReadGlossary, LookAtEngine, ChooseEngine, Load, Attach
  <2> QED
    BY <2>1, <2>2, <2>3
<1> QED
  BY <1>1, <1>2, PTL DEF Spec
-----------------------------------------------------------------------------
(* The model directories.  What a validation has found so far is still so   *)
(* while the directory has not changed, and what the registry calls         *)
(* approved is a complete directory until it changes.                       *)
FoundTruly ==
  /\ \A v \in Validators :
       LET c == checks[v]
       IN  c.fresh /\ ~c.errors =>
             /\ c.at \in {"provenance", "save"} => bundles[c.path].tokenizers
             /\ c.at = "save" /\ c.enforce => bundles[c.path].provenance = "full"
  /\ \A i \in Ids :
       registry[i].approved /\ registry[i].fresh =>
         /\ registry[i].path \in Models
         /\ bundles[registry[i].path].tokenizers
         /\ bundles[registry[i].path].provenance = "full"

ModelsInv == ModelsTypeOK /\ FoundTruly

(* Nothing is validated yet. *)
LEMMA ModelsInitInv == ModelsInit => ModelsInv
<1> SUFFICES ASSUME ModelsInit PROVE ModelsInv
  OBVIOUS
<1>1. (CHOOSE m \in Models : TRUE) \in Models /\ (CHOOSE i \in Ids : TRUE) \in Ids
  BY ModelAssumption DEF ModelAssumption
<1>2. ModelsTypeOK
  BY <1>1, ModelAssumption DEF ModelsInit, ModelsTypeOK, ModelAssumption, Blank, Checks, NoStatus,
     Statuses
<1>3. FoundTruly
  BY DEF ModelsInit, FoundTruly, Blank, NoStatus
<1> QED
  BY <1>2, <1>3 DEF ModelsInv

(* A change to a directory makes what was found of it old. *)
LEMMA ChangeFilesKeeps == ASSUME ModelsInv, NEW m \in Models, ChangeFiles(m) PROVE ModelsInv'
<1> USE DEF ModelsInv, ModelsTypeOK
<1>1. PICK b \in Edited(bundles[m]) : bundles' = [bundles EXCEPT ![m] = b]
  BY DEF ChangeFiles
<1>2. b \in Bundles
  <2>1. CASE bundles[m] = NoDirectory
    <3>1. ~bundles[m].dir
      BY <2>1 DEF NoDirectory
    <3>2. b = [bundles[m] EXCEPT !.dir = TRUE]
      BY <1>1, <3>1 DEF Edited
    <3>3. NoDirectory \in [dir: {FALSE}, tokenizers: BOOLEAN, provenance: Provenances]
      BY DEF NoDirectory, Provenances
    <3>4. b \in [dir: {TRUE}, tokenizers: BOOLEAN, provenance: Provenances]
      BY <2>1, <3>2, <3>3
    <3> QED
      BY <3>4 DEF Bundles
  <2>2. CASE bundles[m] \in [dir: {TRUE}, tokenizers: BOOLEAN, provenance: Provenances]
    <3>1. bundles[m].dir
      BY <2>2
    <3>2. \/ b = NoDirectory
          \/ b = [bundles[m] EXCEPT !.tokenizers = ~@]
          \/ \E p \in Provenances : b = [bundles[m] EXCEPT !.provenance = p]
      BY <1>1, <3>1 DEF Edited
    <3> QED
      BY <2>2, <3>2 DEF Bundles
  <2> QED
    BY <2>1, <2>2 DEF Bundles
<1>3. /\ changes < MaxFileChanges /\ changes' = changes + 1
      /\ checks' = [v \in Validators |-> [checks[v] EXCEPT !.fresh = @ /\ checks[v].path # m]]
      /\ registry' = [i \in Ids |-> [registry[i] EXCEPT !.fresh = @ /\ registry[i].path # m]]
  BY DEF ChangeFiles
<1>4. ASSUME NEW v \in Validators
      PROVE  /\ checks'[v] \in Checks
             /\ checks'[v].at = checks[v].at /\ checks'[v].path = checks[v].path
             /\ checks'[v].enforce = checks[v].enforce /\ checks'[v].errors = checks[v].errors
             /\ checks'[v].fresh => checks[v].fresh /\ checks[v].path # m
  BY <1>3 DEF Checks
<1>5. ASSUME NEW i \in Ids
      PROVE  /\ registry'[i] \in Statuses
             /\ registry'[i].approved = registry[i].approved /\ registry'[i].path = registry[i].path
             /\ registry'[i].fresh => registry[i].fresh /\ registry[i].path # m
  BY <1>3 DEF Statuses
<1>6. ModelsTypeOK'
  <2>1. changes' \in 0..MaxFileChanges
    BY <1>3, ModelAssumption DEF ModelAssumption
  <2>2. checks' \in [Validators -> Checks] /\ registry' \in [Ids -> Statuses]
    BY <1>3, <1>4, <1>5
  <2> QED
    BY <1>1, <1>2, <2>1, <2>2
<1>7. \A n \in Models \ {m} : bundles'[n] = bundles[n]
  BY <1>1
<1>8. \A v \in Validators : checks[v].path \in Models
  BY DEF Checks
<1>9. FoundTruly'
  BY <1>4, <1>5, <1>7, <1>8 DEF FoundTruly
<1> QED
  BY <1>6, <1>9

(* What a validation adds to its findings is so, and what it stores is what *)
(* it found.                                                                *)
LEMMA ValidationKeeps ==
  ASSUME ModelsInv, NEW v \in Validators,
         (\E m \in Models : Validate(v, m)) \/ CheckTokenizers(v) \/ CheckProvenance(v) \/ SaveStatus(v)
  PROVE  ModelsInv'
<1> USE DEF ModelsInv, ModelsTypeOK
<1>1. UNCHANGED <<bundles, changes>>
  BY DEF Validate, CheckTokenizers, CheckProvenance, SaveStatus
<1>2. checks[v] \in Checks /\ bundles[checks[v].path] \in Bundles
  BY DEF Checks
<1>3. ASSUME NEW m \in Models, Validate(v, m) PROVE ModelsInv'
  <2>1. PICK enforce \in BOOLEAN, id \in Ids :
          checks' = [checks EXCEPT ![v] =
            [at |-> IF bundles[m].dir THEN "tokenizers" ELSE "save", id |-> id, path |-> m,
             enforce |-> enforce, errors |-> ~bundles[m].dir, fresh |-> TRUE]]
    BY <1>3 DEF Validate
  <2>2. registry' = registry
    BY <1>3 DEF Validate
  <2>3. ModelsTypeOK'
    BY <1>1, <2>1, <2>2 DEF Checks
  <2>4. FoundTruly'
    BY <1>1, <2>1, <2>2 DEF FoundTruly
  <2> QED
    BY <2>3, <2>4
<1>4. ASSUME NEW next \in {"provenance", "save"}, NEW fault, Found(v, next, fault),
             registry' = registry,
             checks[v].fresh /\ ~checks[v].errors /\ ~fault =>
               /\ bundles[checks[v].path].tokenizers
               /\ next = "save" /\ checks[v].enforce => bundles[checks[v].path].provenance = "full"
      PROVE  ModelsInv'
  <2>1. checks' = [checks EXCEPT ![v].at = next, ![v].errors = @ \/ fault]
    BY <1>4 DEF Found
  <2>2. /\ checks'[v] = [checks[v] EXCEPT !.at = next, !.errors = @ \/ fault]
        /\ \A w \in Validators \ {v} : checks'[w] = checks[w]
    BY <2>1
  <2>3. /\ checks'[v] \in Checks /\ checks'[v].at = next /\ checks'[v].path = checks[v].path
        /\ checks'[v].enforce = checks[v].enforce /\ checks'[v].fresh = checks[v].fresh
        /\ checks'[v].errors = (checks[v].errors \/ fault)
    BY <1>2, <2>2 DEF Checks
  <2>4. ModelsTypeOK'
    BY <1>1, <1>4, <2>1, <2>2, <2>3
  <2>5. ASSUME NEW w \in Validators, checks'[w].fresh, ~checks'[w].errors
        PROVE  /\ checks'[w].at \in {"provenance", "save"} => bundles'[checks'[w].path].tokenizers
               /\ checks'[w].at = "save" /\ checks'[w].enforce =>
                    bundles'[checks'[w].path].provenance = "full"
    <3>1. CASE w = v
      BY <1>1, <1>4, <2>3, <2>5, <3>1
    <3>2. CASE w # v
      BY <1>1, <2>2, <2>5, <3>2 DEF FoundTruly
    <3> QED
      BY <3>1, <3>2
  <2>6. FoundTruly'
    BY <1>1, <1>4, <2>5 DEF FoundTruly
  <2> QED
    BY <2>4, <2>6
<1>5. CASE CheckTokenizers(v)
  <2> QED
    BY <1>4, <1>5 DEF CheckTokenizers, Bundle
<1>6. Blank("done") \in Checks /\ Blank("done").at = "done"
  <2>1. (CHOOSE m \in Models : TRUE) \in Models /\ (CHOOSE i \in Ids : TRUE) \in Ids
    BY ModelAssumption DEF ModelAssumption
  <2> QED
    BY <2>1 DEF Blank, Checks
<1>7. CASE CheckProvenance(v)
  <2>1. CASE Bundle(v).provenance = "unreadable"
    <3>1. checks' = [checks EXCEPT ![v] = Blank("done")] /\ registry' = registry
      BY <1>7, <2>1 DEF CheckProvenance
    <3> HIDE DEF Blank
    <3> QED
      BY <1>1, <1>6, <3>1 DEF FoundTruly
  <2>2. CASE Bundle(v).provenance # "unreadable"
    <3>1. checks[v].fresh /\ ~checks[v].errors => bundles[checks[v].path].tokenizers
      BY <1>7 DEF CheckProvenance, At, FoundTruly
    <3> QED
      BY <1>4, <1>7, <2>2, <3>1 DEF CheckProvenance, Bundle, Loadable
  <2> QED
    BY <2>1, <2>2
<1>8. CASE SaveStatus(v)
  <2>1. /\ registry' = [registry EXCEPT ![checks[v].id] = StatusOf(checks[v])]
        /\ checks' = [checks EXCEPT ![v] = Blank("done")] /\ checks[v].at = "save"
    BY <1>8 DEF SaveStatus, At
  <2>2. /\ StatusOf(checks[v]) \in Statuses /\ StatusOf(checks[v]).fresh = checks[v].fresh
        /\ StatusOf(checks[v]).path = checks[v].path
        /\ StatusOf(checks[v]).approved => ~checks[v].errors /\ checks[v].enforce
    BY <1>2 DEF StatusOf, Statuses, Checks
  <2>3. checks[v].id \in Ids /\ checks[v].path \in Models
    BY <1>2 DEF Checks
  <2> HIDE DEF Blank, StatusOf
  <2>4. ModelsTypeOK'
    BY <1>1, <1>6, <2>1, <2>2, <2>3
  <2>5. FoundTruly'
    BY <1>1, <1>6, <2>1, <2>2, <2>3 DEF FoundTruly
  <2> QED
    BY <2>4, <2>5
<1> QED
  BY <1>3, <1>5, <1>7, <1>8

(* What was read of the model directories stays true of what they were.     *)
LEMMA ModelsKeep == ASSUME ModelsInv, ModelsNext PROVE ModelsInv'
BY ChangeFilesKeeps, ValidationKeeps DEF ModelsNext

-----------------------------------------------------------------------------
(* The bundle.  What the request holds of glossaries, and the reason it     *)
(* failed for one, was so at some time since it began.                      *)
Glossed ==
  /\ Running => \A g \in Glossaries : <<g, glossaries[g]>> \in seen.glossaries
  /\ request.at # "new" =>
       /\ request.doc \in Documents
       /\ \A x \in request.active : x = <<x[1], x[2]>> /\ x \in seen.glossaries
       /\ request.error = "glossary" => \E g \in Glossaries : <<g, "absent">> \in seen.glossaries

BInv == TypeOK /\ FoundTruly /\ Glossed

RequestTyped ==
  /\ request.at \in {"new", "read", "load", "provenance", "done", "failed"}
  /\ (request.at = "failed") = (request.error # "none")
  /\ request.at \in {"load", "provenance", "done"} => request.engine \in Engines

(* Nothing was asked and nothing was found. *)
LEMMA InitBInv == Init => BInv
<1> SUFFICES ASSUME Init PROVE BInv
  OBVIOUS
<1>1. ModelsTypeOK /\ FoundTruly
  BY ModelsInitInv DEF Init, ModelsInv
<1>2. TypeOK
  <2>1. 0 \in 0..MaxGlossaryChanges
    BY TranslateAssumption DEF TranslateAssumption
  <2>2. glossaries \in [Glossaries -> GlossaryStates]
    BY DEF Init, GlossaryStates
  <2>3. seen.up = {} /\ seen.down = {} /\ policy = DefaultPolicy
    BY DEF Init
  <2> QED
    BY <1>1, <2>1, <2>2, <2>3 DEF Init, TypeOK, NoRequest
<1>3. Glossed
  BY DEF Init, Glossed, NoRequest, Running
<1> QED
  BY <1>1, <1>2, <1>3 DEF BInv

(* What others change is added to what was so, and to nothing else. *)
LEMMA NoticeAdds ==
  ASSUME SeenNow, Notice, seen.up \cup seen.down \subseteq Models
  PROVE  /\ seen'.up \cup seen'.down \subseteq Models
         /\ seen.glossaries \subseteq seen'.glossaries
         /\ Running => \A g \in Glossaries : <<g, glossaries'[g]>> \in seen'.glossaries
<1>1. CASE Running
  <2>1. seen' = [f \in DOMAIN seen |-> seen[f] \cup Now'[f]]
    BY <1>1 DEF Notice
  <2>2. /\ Now'.up \subseteq Models /\ Now'.down \subseteq Models
        /\ Now'.glossaries = {<<g, glossaries'[g]>> : g \in Glossaries}
    BY DEF Now, Available
  <2> HIDE DEF Now
  <2> QED
    BY <2>1, <2>2 DEF SeenNow
<1>2. CASE ~ Running
  BY <1>2 DEF Notice
<1> QED
  BY <1>1, <1>2

(* A step of others leaves the request alone and what was seen in place.    *)
LEMMA OthersLeaveIt ==
  ASSUME TInv, BInv, UNCHANGED request, Notice \/ UNCHANGED <<seen, glossaries>>
  PROVE  RequestTyped' /\ seen'.up \cup seen'.down \subseteq Models /\ Glossed'
<1> USE DEF BInv
<1>1. RequestTyped'
  BY DEF TypeOK, RequestTyped, Engines
<1>2. /\ seen'.up \cup seen'.down \subseteq Models
      /\ seen.glossaries \subseteq seen'.glossaries
      /\ Running => \A g \in Glossaries : <<g, glossaries'[g]>> \in seen'.glossaries
  BY NoticeAdds DEF TInv, TypeOK, Glossed
<1>3. Glossed'
  BY <1>2 DEF Glossed, Running
<1> QED
  BY <1>1, <1>2, <1>3

(* Administrators, operators and validations change no bundle's claims. *)
LEMMA OthersKeepTruth ==
  ASSUME TInv, BInv, TInv',
         \/ \E a \in Admins : UpdateReads(a) \/ UpdateSets(a)
         \/ \E g \in Glossaries : ChangeGlossary(g)
         \/ ModelStep
  PROVE  BInv'
<1> USE DEF BInv
<1>0. /\ DOMAIN policy' = DOMAIN DefaultPolicy /\ DefaultPolicy' = DefaultPolicy
      /\ DOMAIN admin = Admins /\ DOMAIN admin' = Admins
  BY DEF TInv, PoliciesOK, PolicyOK, DefaultPolicy
<1>1. ASSUME NEW a \in Admins, UpdateReads(a) \/ UpdateSets(a) PROVE BInv'
  <2>1. /\ UNCHANGED <<bundles, changes, checks, registry, glossaries, glossaryChanges, request>>
        /\ Notice \/ UNCHANGED <<seen, glossaries>>
    BY <1>1 DEF UpdateReads, UpdateSets, modelVars
  <2>2. overlapped' \in BOOLEAN
    BY <1>1 DEF UpdateReads, UpdateSets, TypeOK
  <2>3. \A b \in Admins : admin'[b].at \in {"idle", "read", "done"}
    BY <1>0, <1>1 DEF UpdateReads, UpdateSets, TypeOK
  <2>4. ModelsTypeOK' /\ FoundTruly'
    BY <2>1 DEF ModelsTypeOK, FoundTruly, TypeOK
  <2> QED
    BY <1>0, <2>1, <2>2, <2>3, <2>4, OthersLeaveIt DEF TypeOK, RequestTyped
<1>2. ASSUME NEW g \in Glossaries, ChangeGlossary(g) PROVE BInv'
  <2>1. /\ UNCHANGED <<bundles, changes, checks, registry, policy, admin, overlapped, request>>
        /\ Notice
    BY <1>2 DEF ChangeGlossary, modelVars
  <2>2. /\ glossaries' \in [Glossaries -> GlossaryStates]
        /\ glossaryChanges' \in 0..MaxGlossaryChanges
    BY <1>2, TranslateAssumption DEF ChangeGlossary, TypeOK, TranslateAssumption
  <2>3. ModelsTypeOK' /\ FoundTruly'
    BY <2>1 DEF ModelsTypeOK, FoundTruly, TypeOK
  <2> QED
    BY <1>0, <2>1, <2>2, <2>3, OthersLeaveIt DEF TypeOK, RequestTyped
<1>3. CASE ModelStep
  <2>1. /\ UNCHANGED <<policy, admin, glossaries, glossaryChanges, overlapped, request>>
        /\ Notice /\ ModelsNext
    BY <1>3 DEF ModelStep, governance
  <2>2. ModelsTypeOK' /\ FoundTruly'
    BY <2>1, ModelsKeep DEF ModelsInv, TypeOK
  <2> QED
    BY <1>0, <2>1, <2>2, OthersLeaveIt DEF TypeOK, RequestTyped
<1> QED
  BY <1>1, <1>2, <1>3

(* A step of the request changes nothing but what the request holds. *)
LEMMA OwnStepTruth ==
  ASSUME BInv, RequestOnly, RequestTyped',
         request'.at # "new" /\ request.at # "new" /\ (Running' => Running),
         request'.doc = request.doc,
         \A x \in request'.active : x \in request.active \/ (x = <<x[1], x[2]>> /\ x \in seen.glossaries),
         request'.error = "glossary" => \E g \in Glossaries : <<g, "absent">> \in seen.glossaries
  PROVE  BInv'
<1> USE DEF BInv
<1>1. UNCHANGED <<bundles, changes, checks, registry, policy, admin, glossaries, glossaryChanges,
                  overlapped, seen>>
  BY DEF RequestOnly, modelVars, governance
<1>2. ModelsTypeOK' /\ FoundTruly'
  BY <1>1 DEF ModelsTypeOK, FoundTruly, TypeOK
<1>3. TypeOK'
  BY <1>1, <1>2 DEF TypeOK, RequestTyped, DefaultPolicy
<1>4. Glossed'
  BY <1>1 DEF Glossed
<1> QED
  BY <1>2, <1>3, <1>4

(* A request that fails for another reason than a glossary. *)
LEMMA FailureTruth ==
  ASSUME TInv, BInv, RequestOnly, Running, NEW error, Fails(error), error # "none",
         error = "glossary" => \E g \in Glossaries : <<g, "absent">> \in seen.glossaries
  PROVE  BInv'
<1>1. request.at # "new" /\ DOMAIN request = Fields
  BY DEF Running, TInv, ByOnePolicy
<1>2. /\ request'.at = "failed" /\ request'.error = error /\ request'.doc = request.doc
      /\ request'.active = request.active
  BY <1>1 DEF Fails, Fields
<1> QED
  BY <1>1, <1>2, OwnStepTruth DEF RequestTyped, Running

(* Reading the policy: nothing is claimed yet. *)
LEMMA ReadPolicyTruth == ASSUME TInv, BInv, ReadPolicy PROVE BInv'
<1> USE DEF BInv
<1>1. /\ UNCHANGED <<bundles, changes, checks, registry, policy, admin, glossaries, glossaryChanges,
                     overlapped>>
      /\ seen' = Now
  BY DEF ReadPolicy, modelVars, governance
<1>2. /\ request'.at \in {"read", "failed"} /\ (request'.at = "failed") = (request'.error # "none")
      /\ request'.error \in {"none", "instructions"}
      /\ request'.active = {} /\ request'.doc \in Documents
  BY DEF ReadPolicy
<1>3. ModelsTypeOK' /\ FoundTruly'
  BY <1>1 DEF ModelsTypeOK, FoundTruly, TypeOK
<1>4. TypeOK'
  BY <1>1, <1>2, <1>3 DEF TypeOK, DefaultPolicy, Now, Available
<1>5. Glossed'
  BY <1>1, <1>2 DEF Glossed, Now
<1> QED
  BY <1>3, <1>4, <1>5

(* A glossary is taken as it is, and missed only when it is absent. *)
LEMMA ReadGlossaryTruth == ASSUME TInv, BInv, ReadGlossary PROVE BInv'
<1> DEFINE g == Head(request.todo)
           taken == IF glossaries[g] = "foreign" THEN {} ELSE {<<g, glossaries[g]>>}
<1>1. /\ request.at = "read" /\ request.todo # <<>> /\ RequestOnly /\ Running
      /\ DOMAIN request = Fields /\ request.todo \in Seq(Glossaries)
  BY DEF ReadGlossary, Running, TInv, ByOnePolicy
<1>2. g \in Glossaries
  BY <1>1, HeadTailProperties
<1>3. <<g, glossaries[g]>> \in seen.glossaries
  BY <1>1, <1>2 DEF BInv, Glossed
<1>4. CASE glossaries[g] = "absent"
  <2>1. Fails("glossary")
    BY <1>4 DEF ReadGlossary
  <2> QED
    BY <1>1, <1>2, <1>3, <1>4, <2>1, FailureTruth
<1>5. CASE glossaries[g] # "absent"
  <2>1. request' = [request EXCEPT !.todo = Tail(@), !.active = @ \cup taken]
    BY <1>5 DEF ReadGlossary
  <2>2. \A x \in taken : x = <<x[1], x[2]>> /\ x \in seen.glossaries
    BY <1>3
  <2> HIDE DEF taken, g
  <2>3. /\ request'.at = request.at /\ request'.error = request.error /\ request'.doc = request.doc
        /\ request'.active = request.active \cup taken
    BY <1>1, <2>1 DEF Fields
  <2>4. RequestTyped' /\ request'.at # "new" /\ request.error # "glossary"
    BY <1>1, <2>3 DEF RequestTyped, BInv, TypeOK
  <2> QED
    BY <1>1, <2>2, <2>3, <2>4, OwnStepTruth
<1> QED
  BY <1>4, <1>5

(* Choosing and loading an engine claims nothing more. *)
LEMMA EngineTruth ==
  ASSUME TInv, BInv, LookAtEngine \/ ChooseEngine \/ Load \/ Attach
  PROVE  BInv'
<1>1. /\ RequestOnly /\ Running /\ request.at # "new" /\ request.at # "failed"
      /\ DOMAIN request = Fields
  BY DEF LookAtEngine, Routing, ChooseEngine, Load, Attach, Running, TInv, ByOnePolicy
<1>2. request.error = "none"
  BY <1>1 DEF BInv, TypeOK
<1>3. ASSUME request'.at \in {"read", "load", "provenance", "done"}, request'.error = request.error,
             request'.doc = request.doc, request'.active = request.active,
             request'.at # "read" => request'.engine \in Engines
      PROVE  BInv'
  <2>1. RequestTyped' /\ request'.at # "new" /\ request'.error = "none"
    BY <1>2, <1>3 DEF RequestTyped
  <2> QED
    BY <1>1, <1>3, <2>1, OwnStepTruth
<1>4. CASE LookAtEngine
  <2>1. /\ request'.at = "read" /\ request'.error = request.error /\ request'.doc = request.doc
        /\ request'.active = request.active
    BY <1>1, <1>4 DEF LookAtEngine, Routing, Fields
  <2> QED
    BY <1>3, <2>1
<1>5. CASE ChooseEngine
  <2>1. CASE Resolved = "none" \/ ~Known(Resolved) \/ ~Admitted(Resolved)
    <3>1. Fails("routing") \/ Fails("engine") \/ Fails("policy")
      BY <1>5, <2>1 DEF ChooseEngine
    <3> QED
      BY <1>1, <3>1, FailureTruth
  <2>2. CASE Resolved # "none" /\ Known(Resolved) /\ Admitted(Resolved)
    <3>1. request' = [request EXCEPT !.at = "load", !.engine = Resolved]
      BY <1>5, <2>2 DEF ChooseEngine
    <3> DEFINE e == Resolved
    <3>2. e \in Engines
      BY <2>2 DEF Known
    <3> HIDE DEF e
    <3>3. /\ request'.at = "load" /\ request'.error = request.error /\ request'.doc = request.doc
          /\ request'.active = request.active /\ request'.engine = e
      BY <1>1, <3>1 DEF e, Fields
    <3> QED
      BY <1>3, <3>2, <3>3
  <2> QED
    BY <2>1, <2>2
<1>6. CASE Load \/ Attach
  <2>1. request.at \in {"load", "provenance"}
    BY <1>6 DEF Load, Attach
  <2>2. \/ Fails("tokenizers") \/ Fails("runtime") \/ Fails("provenance") \/ Fails("digest")
        \/ Goes("provenance") \/ Goes("done")
    BY <1>6 DEF Load, Attach
  <2>3. CASE Fails("tokenizers") \/ Fails("runtime") \/ Fails("provenance") \/ Fails("digest")
    BY <1>1, <2>3, FailureTruth
  <2>4. CASE Goes("provenance") \/ Goes("done")
    <3>1. /\ request'.at \in {"provenance", "done"} /\ request'.error = request.error
          /\ request'.doc = request.doc /\ request'.active = request.active
          /\ request'.engine = request.engine
      BY <1>1, <2>4 DEF Goes, Fields
    <3> QED
      BY <1>3, <2>1, <3>1 DEF BInv, TypeOK
  <2> QED
    BY <2>2, <2>3, <2>4
<1> QED
  BY <1>4, <1>5, <1>6

(* What a translation has gathered stays true of its request. *)
LEMMA BundleStep == TInv /\ BInv /\ [Next]_vars => BInv'
<1> SUFFICES ASSUME TInv, BInv, [Next]_vars PROVE BInv'
  OBVIOUS
<1>1. TInv'
  BY TranslateStep
<1>2. CASE UNCHANGED vars
  BY <1>2 DEF vars, modelVars, governance, BInv, TypeOK, ModelsTypeOK, FoundTruly, Glossed, Running,
     DefaultPolicy
<1> QED
  BY <1>1, <1>2, OthersKeepTruth, ReadPolicyTruth, ReadGlossaryTruth, EngineTruth DEF Next, Step

(* The last span with the id of a span is that span itself, when all ids    *)
(* differ.                                                                  *)
LEMMA LastWithOwnId ==
  ASSUME NEW doc \in Documents, IsInjective([j \in DOMAIN doc.spans |-> doc.spans[j].id]),
         NEW i \in DOMAIN doc.spans
  PROVE  LastWith(doc, doc.spans[i].id) = i
<1> DEFINE ids == [j \in DOMAIN doc.spans |-> doc.spans[j].id]
           FinalIndex(k) == /\ doc.spans[k].id = doc.spans[i].id
                      /\ \A j \in DOMAIN doc.spans : doc.spans[j].id = doc.spans[i].id => j <= k
<1>1. Len(doc.spans) \in Nat /\ DOMAIN doc.spans = 1..Len(doc.spans)
  BY TranslateAssumption DEF TranslateAssumption
<1>2. ASSUME NEW j \in DOMAIN doc.spans, doc.spans[j].id = doc.spans[i].id PROVE j = i
  BY <1>2 DEF IsInjective
<1>3. FinalIndex(i)
  BY <1>1, <1>2
<1>4. LastWith(doc, doc.spans[i].id) = CHOOSE k \in DOMAIN doc.spans : FinalIndex(k)
  BY DEF LastWith
<1>5. \A k \in DOMAIN doc.spans : FinalIndex(k) => k = i
  BY <1>2
<1> HIDE DEF FinalIndex
<1> QED
  BY <1>3, <1>4, <1>5

(* A bundle claims a glossary only if it was approved at some time since    *)
(* the request began, and spans keep their page and their language, however *)
(* glossaries, policies and model directories change meanwhile.             *)
THEOREM BundleTells == Spec => []BundleIsTrue
<1>1. TInv /\ BInv => BundleIsTrue
  <2> SUFFICES ASSUME TInv, BInv PROVE BundleIsTrue
    OBVIOUS
  <2>1. ASSUME request.at = "done", NEW g \in Hits PROVE <<g, "approved">> \in seen.glossaries
    BY <2>1 DEF Hits, BInv, Glossed
  <2>2. request.error = "glossary" => \E g \in Glossaries : <<g, "absent">> \in seen.glossaries
    BY DEF BInv, TypeOK, Glossed
  <2>3. ASSUME request.at = "done", NEW i \in DOMAIN request.doc.spans
        PROVE  LET spans == request.doc.spans
                   out == TranslatedSpans(request.doc)
               IN  /\ IsInjective([j \in DOMAIN spans |-> spans[j].id]) => out[i].page = spans[i].page
                   /\ spans[i].language # "none" => out[i].language = spans[i].language
    <3>1. request.doc \in Documents
      BY <2>3 DEF BInv, Glossed
    <3>2. IsInjective([j \in DOMAIN request.doc.spans |-> request.doc.spans[j].id]) =>
            LastWith(request.doc, request.doc.spans[i].id) = i
      BY <2>3, <3>1, LastWithOwnId
    <3> QED
      BY <2>3, <3>2 DEF TranslatedSpans
  <2> QED
    BY <2>1, <2>2, <2>3 DEF BundleIsTrue, BInv
<1> QED
  BY <1>1, InitTInv, TranslateStep, InitBInv, BundleStep, PTL DEF Spec

(* A request never fails for what a validation looked at, while a model     *)
(* reads approved under any id and its directory did not change since that  *)
(* validation began; it may still fail for the packages and the weights.    *)
THEOREM ApprovalIsKept == Spec => ApprovalHolds
<1> DEFINE Kept == \A i \in Ids :
             /\ registry[i].approved /\ registry[i].fresh
             /\ request.at \in {"load", "provenance"} /\ request.engine = registry[i].path
             => request'.error \in {"none", "runtime"}
<1>1. TInv /\ BInv /\ [Next]_vars => [Kept]_vars
  <2> SUFFICES ASSUME TInv, BInv, Next, NEW i \in Ids, registry[i].approved, registry[i].fresh,
                      request.at \in {"load", "provenance"}, request.engine = registry[i].path
               PROVE  request'.error \in {"none", "runtime"}
    OBVIOUS
  <2>1. /\ request.engine \in Available /\ request.engine \in Models
        /\ bundles[request.engine].provenance = "full"
    BY DEF BInv, FoundTruly, Available
  <2>2. request.error = "none" /\ DOMAIN request = Fields
    BY DEF BInv, TypeOK, TInv, ByOnePolicy
  <2>3. UNCHANGED request \/ Load \/ Attach
    BY DEF Next, UpdateReads, UpdateSets, ChangeGlossary, ModelStep, Step, ReadPolicy, ReadGlossary,
       LookAtEngine, Routing, ChooseEngine
  <2>4. CASE Load \/ Attach
    <3>1. Fails("runtime") \/ Goes("provenance") \/ Goes("done")
      BY <2>1, <2>4 DEF Load, Attach, Loadable
    <3> QED
      BY <2>2, <3>1 DEF Fails, Goes, Fields
  <2> QED
    BY <2>2, <2>3, <2>4
<1> QED
  BY <1>1, InitTInv, TranslateStep, InitBInv, BundleStep, PTL DEF Spec, ApprovalHolds

=============================================================================
