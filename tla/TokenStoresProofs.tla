------------------------- MODULE TokenStoresProofs -------------------------
(***************************************************************************)
(* Proofs about TokenStores, for any requests, processes, administrators   *)
(* and tokens, either store, any mode and any number of failing statements, *)
(* failing file operations and process ends: the file keeps its form, what *)
(* an operation wrote is lost to overlapping operations only, and the      *)
(* trail is true.                                                          *)
(***************************************************************************)
EXTENDS TokenStores, FiniteSetTheorems, TLAPS

Json == config.backend = "json"

(* Which tasks the two kinds of callers have, and where. *)
RoleOf(x, p, k) ==
    /\ x \in Admins => k = Chore[x][1] /\ p \notin {"bind", "get", "audit"}
    /\ x \in Requests =>
         /\ k \in {"auth", "bind"}
         /\ p \in {"new", "get", "save", "audit"} => k = "auth"
         /\ p = "bind" => k = "bind"
         /\ p \in {"open", "write", "replace", "get", "save"} /\ k = "auth" => Token(x) \in Tokens

Roles == \A x \in Callers : RoleOf(x, pc[x], task[x])

(* The operations of one backend only. *)
Backends ==
    /\ Json => \A x \in Callers : pc[x] \notin {"get", "save", "audit"}
    /\ ~Json => store # Torn /\ tmp = NoOne /\ \A x \in Callers : ~InFile(x)

(* Operations between their read and their write overlap, ... *)
Apart ==
    \A x, y \in Callers : x # y /\ InStep(x) /\ InStep(y) => <<x, task[x]>> \in overlapped

(* ... so that one that does not has the .tmp file to itself, ... *)
Alone ==
    \A x \in Callers :
        <<x, task[x]>> \notin overlapped =>
            /\ pc[x] = "write" => handle[x] = "tmp" /\ tmp = Torn
            /\ pc[x] = "replace" => tmp = view[x]

(* ... and only two that do can tear the store. *)
TornByPair == overlapped # {} \/ store = Torn => \E a, b \in overlapped : a # b

(* The tokens that were stored at the start or whose issue has begun. *)
Begun == Issued \cup {t \in Tokens : \E a \in Admins : Chore[a] = <<"issue", t>> /\ pc[a] # "new"}

(* Every payload, on disk or in the hands of a caller, is sound in itself. *)
Sound(p, begun) ==
    \A t \in Tokens :
        /\ p.tokens[t].revoked => p.tokens[t].known
        /\ p.tokens[t].known => t \in begun

Matches(p) ==
    \A t \in Tokens :
        /\ p.tokens[t].revoked <=>
              \E a \in Admins : Token(a) = t /\ <<a, "revoked">> \in p.events
        /\ p.tokens[t].lastUsed # NoOne => <<p.tokens[t].lastUsed, "used">> \in p.events

AllSound ==
    /\ store # Torn => Sound(store, Begun)
    /\ tmp \notin {Torn, NoOne} => Sound(tmp, Begun)
    /\ \A x \in Callers : Sound(view[x], Begun)

AllMatch ==
    Json => /\ store # Torn => Matches(store)
            /\ tmp \notin {Torn, NoOne} => Matches(tmp)
            /\ \A x \in Callers : Matches(view[x])

(* A caller has the effect of its operation in its hands. *)
ViewsTell == \A x \in Callers : InStep(x) => Effect(x, task[x], view[x])

(* What an operation did, that overlapped with none, is in every payload   *)
(* that may become the store.                                              *)
Lasting(x, k) == <<x, k>> \in done /\ <<x, k>> \notin overlapped
OnToken(k) == k \in {"revoke", "issue"}

Kept ==
    \A x \in Callers, k \in Tasks :
        Lasting(x, k) =>
            /\ OnToken(k) => x \in Admins
            /\ store # Torn => Effect(x, k, store)
            /\ tmp \notin {Torn, NoOne} => Effect(x, k, tmp)
            /\ \A y \in Callers : InStep(y) /\ (Json \/ OnToken(k)) => Effect(x, k, view[y])

(* A request that is served has used its token and, where its endpoint     *)
(* binds one, its tenant, or the store is torn for good.                   *)
TornForGood == store = Torn /\ \A y \in Callers : ~InFile(y)

Served ==
    Json /\ config.mode = "jwt_ldap" =>
        \A x \in Requests : Token(x) \in Tokens =>
            /\ task[x] = "bind" \/ pc[x] = "served" => <<x, "auth">> \in done
            /\ pc[x] = "served" /\ Asks[x].body # "none" =>
                 <<x, "bind">> \in done \cup overlapped \cup failed \/ TornForGood

Inv == /\ TypeOK /\ Roles /\ Backends /\ Apart /\ Alone /\ TornByPair
       /\ AllSound /\ AllMatch /\ ViewsTell /\ Kept /\ Served

-----------------------------------------------------------------------------
(* What an operation makes of a payload. *)

(* Administrators work on a token of the system. *)
LEMMA AdminTokens ==
    \A a \in Admins : /\ a \notin Requests /\ a \in Callers
                      /\ Token(a) \in Tokens
                      /\ Chore[a][1] \in {"issue", "revoke"}
                      /\ Chore[a] = <<Chore[a][1], Token(a)>>
BY TokenAssumption DEF Token, Callers

(* The caller x takes on the payload p. *)
Takes(x, p) ==
    /\ x \in Callers /\ p \in Payloads /\ task[x] \in Tasks
    /\ task[x] \in {"auth", "bind"} => x \in Requests
    /\ task[x] \in {"revoke", "issue"} => x \in Admins
    /\ task[x] # "bind" => Token(x) \in Tokens
    /\ task[x] = "revoke" => p.tokens[Token(x)].known

NewRecord == [known |-> TRUE, revoked |-> FALSE, lastUsed |-> NoOne]

(* The operations, each with its event and its change of the record. *)
Changes(x, p, q) ==
    /\ q \in Payloads
    /\ \A u \in Tokens : u # Token(x) => q.tokens[u] = p.tokens[u]
    /\ p.events \subseteq q.events
    /\ task[x] = "auth" =>
         \/ /\ q.tokens = [p.tokens EXCEPT ![Token(x)] = [@ EXCEPT !.lastUsed = x]]
            /\ q.events = p.events \cup {<<x, "used">>}
         \/ q.tokens = p.tokens /\ q.events = p.events \cup {<<x, "denied">>}
    /\ task[x] = "bind" =>
         /\ q.tokens = p.tokens
         /\ \E e \in {"resolved", "tenant.denied"} : q.events = p.events \cup {<<x, e>>}
    /\ task[x] = "revoke" =>
         /\ q.tokens = [p.tokens EXCEPT ![Token(x)] = [@ EXCEPT !.revoked = TRUE]]
         /\ q.events = p.events \cup {<<x, "revoked">>}
    /\ task[x] = "issue" =>
         /\ q.tokens = [p.tokens EXCEPT ![Token(x)] = NewRecord]
         /\ q.events = p.events

(* Which is what the operations do. *)
LEMMA UpdatedIs ==
  ASSUME NEW x, NEW p, Takes(x, p)
  PROVE  Changes(x, p, Updated(x, p))
<1> DEFINE t == Token(x)
<1> USE DEF Takes, Payloads, TokenRecords, EventTypes, Changes
<1>1. CASE task[x] = "auth"
  <2>1. CASE Active(t, p)
    <3> DEFINE rec == [p.tokens[t] EXCEPT !.lastUsed = x]
               toks == [p.tokens EXCEPT ![t] = rec]
    <3>1. rec \in TokenRecords /\ toks \in [Tokens -> TokenRecords]
      BY <1>1
    <3>2. Updated(x, p) = [tokens |-> toks, events |-> p.events \cup {<<x, "used">>}]
      BY <1>1, <2>1 DEF Updated, With
    <3> QED BY <1>1, <3>1, <3>2
  <2>2. CASE ~Active(t, p)
    <3>1. Updated(x, p) = [tokens |-> p.tokens, events |-> p.events \cup {<<x, "denied">>}]
      BY <1>1, <2>2 DEF Updated, With
    <3> QED BY <1>1, <3>1
  <2> QED BY <2>1, <2>2
<1>2. CASE task[x] = "bind"
  <2>1. Updated(x, p) = [tokens |-> p.tokens, events |-> p.events \cup {<<x, BindEvent(x)>>}]
    BY <1>2 DEF Updated, With
  <2>2. BindEvent(x) \in {"resolved", "tenant.denied"}
    BY DEF BindEvent
  <2> QED BY <1>2, <2>1, <2>2
<1>3. CASE task[x] = "revoke"
  <2> DEFINE rec == [p.tokens[t] EXCEPT !.revoked = TRUE]
             toks == [p.tokens EXCEPT ![t] = rec]
  <2>1. rec \in TokenRecords /\ toks \in [Tokens -> TokenRecords]
    BY <1>3
  <2>2. Updated(x, p) = [tokens |-> toks, events |-> p.events \cup {<<x, "revoked">>}]
    BY <1>3 DEF Updated, With
  <2> QED BY <1>3, <2>1, <2>2
<1>4. CASE task[x] = "issue"
  <2> DEFINE toks == [p.tokens EXCEPT ![t] = NewRecord]
  <2>1. NewRecord \in TokenRecords /\ toks \in [Tokens -> TokenRecords]
    BY <1>4 DEF NewRecord
  <2>2. Updated(x, p) = [tokens |-> toks, events |-> p.events]
    BY <1>4 DEF Updated, Fresh, NewRecord
  <2> QED BY <1>4, <2>1, <2>2
<1> QED BY <1>1, <1>2, <1>3, <1>4 DEF Tasks

(* It is sound if the payload was, ... *)
LEMMA UpdatedSound ==
  ASSUME NEW x, NEW p, Takes(x, p), NEW begun, Sound(p, begun),
         task[x] = "issue" => Token(x) \in begun
  PROVE  Sound(Updated(x, p), begun)
<1> DEFINE q == Updated(x, p)
<1>1. Changes(x, p, q)
  BY UpdatedIs
<1> HIDE DEF q
<1>2. Sound(q, begun)
  BY <1>1 DEF Changes, Sound, Takes, Payloads, TokenRecords, Tasks, NewRecord
<1> QED BY <1>2 DEF q

(* ... it still matches its events, ... *)
LEMMA UpdatedMatches ==
  ASSUME NEW x, NEW p, Takes(x, p), NEW begun, Sound(p, begun), Matches(p),
         task[x] = "issue" => ~p.tokens[Token(x)].known
  PROVE  Matches(Updated(x, p))
<1> DEFINE q == Updated(x, p)
<1>0. Changes(x, p, q)
  BY UpdatedIs
<1> HIDE DEF q
<1> USE DEF Changes
<1> SUFFICES ASSUME NEW u \in Tokens
             PROVE  /\ q.tokens[u].revoked <=>
                         \E a \in Admins : Token(a) = u /\ <<a, "revoked">> \in q.events
                    /\ q.tokens[u].lastUsed # NoOne => <<q.tokens[u].lastUsed, "used">> \in q.events
  BY DEF Matches, q
<1>1. /\ p.tokens[u].revoked <=> \E a \in Admins : Token(a) = u /\ <<a, "revoked">> \in p.events
      /\ p.tokens[u].lastUsed # NoOne => <<p.tokens[u].lastUsed, "used">> \in p.events
      /\ p.tokens[u].revoked => p.tokens[u].known
  BY DEF Matches, Sound
<1> USE DEF Takes, Payloads, TokenRecords
<1>2. CASE task[x] \in {"auth", "bind"}
  <2>1. q.tokens[u].revoked <=> p.tokens[u].revoked
    BY <1>0, <1>2
  <2>2. \A a : <<a, "revoked">> \in q.events <=> <<a, "revoked">> \in p.events
    BY <1>0, <1>2
  <2>3. q.tokens[u].lastUsed # p.tokens[u].lastUsed =>
          q.tokens[u].lastUsed = x /\ <<x, "used">> \in q.events
    BY <1>0, <1>2
  <2> QED BY <1>0, <1>1, <2>1, <2>2, <2>3
<1>3. CASE task[x] = "revoke"
  <2>1. q.tokens[u].lastUsed = p.tokens[u].lastUsed
    BY <1>0, <1>3
  <2>2. q.tokens[u].revoked <=> (p.tokens[u].revoked \/ u = Token(x))
    BY <1>0, <1>3
  <2>3. \A a : <<a, "revoked">> \in q.events <=> (<<a, "revoked">> \in p.events \/ a = x)
    BY <1>0, <1>3
  <2> QED BY <1>0, <1>1, <1>3, <2>1, <2>2, <2>3
<1>4. CASE task[x] = "issue"
  <2>1. CASE u = Token(x)
    <3>1. ~p.tokens[u].revoked /\ ~q.tokens[u].revoked /\ q.tokens[u].lastUsed = NoOne
      BY <1>0, <1>1, <1>4, <2>1 DEF NewRecord
    <3> QED BY <1>0, <1>1, <1>4, <3>1
  <2>2. CASE u # Token(x)
    BY <1>0, <1>1, <1>4, <2>2
  <2> QED BY <2>1, <2>2
<1> QED BY <1>2, <1>3, <1>4 DEF Tasks

(* ... it has the effect of its own operation and those of all the others. *)
LEMMA UpdatedEffects ==
  ASSUME NEW x, NEW p, Takes(x, p), NEW begun, Sound(p, begun),
         task[x] = "issue" => ~p.tokens[Token(x)].known
  PROVE  /\ Effect(x, task[x], Updated(x, p))
         /\ \A y \in Callers, k \in Tasks :
              (OnToken(k) => y \in Admins) /\ Effect(y, k, p) => Effect(y, k, Updated(x, p))
<1> DEFINE q == Updated(x, p)
<1>0. Changes(x, p, q)
  BY UpdatedIs
<1> HIDE DEF q
<1> USE DEF Changes
<1>1. \A u \in Tokens : /\ p.tokens[u].known => q.tokens[u].known
                        /\ p.tokens[u].revoked => q.tokens[u].revoked
  BY <1>0 DEF Takes, Tasks, Sound, NewRecord, Payloads, TokenRecords
<1>2. Effect(x, task[x], q)
  <2> USE <1>0 DEF Takes, Effect, Payloads, TokenRecords
  <2>1. CASE task[x] = "auth"
    BY <2>1
  <2>2. CASE task[x] = "bind"
    BY <2>2
  <2>3. CASE task[x] = "revoke"
    BY <2>3
  <2>4. CASE task[x] = "issue"
    BY <2>4 DEF NewRecord
  <2> QED BY <2>1, <2>2, <2>3, <2>4 DEF Tasks
<1>3. ASSUME NEW y \in Callers, NEW k \in Tasks, OnToken(k) => y \in Admins, Effect(y, k, p)
      PROVE  Effect(y, k, q)
  BY <1>0, <1>1, <1>3, AdminTokens DEF Effect, OnToken, Tasks
<1> QED BY <1>2, <1>3 DEF q

-----------------------------------------------------------------------------
(* The invariant. *)

(* Nothing has happened at the start. *)
LEMMA InitInv == Init => Inv
<1> SUFFICES ASSUME Init PROVE Inv
  OBVIOUS
<1> USE DEF Init, InStep, InFile
<1> DEFINE P0 == [tokens |-> [t \in Tokens |-> [known |-> t \in Issued, revoked |-> FALSE, lastUsed |-> NoOne]],
                  events |-> {}]
<1>1. /\ EmptyPayload \in Payloads
      /\ \A t \in Tokens : /\ ~EmptyPayload.tokens[t].known
                           /\ ~EmptyPayload.tokens[t].revoked
                           /\ EmptyPayload.tokens[t].lastUsed = NoOne
      /\ EmptyPayload.events = {}
  BY DEF EmptyPayload, Fresh, Payloads, TokenRecords
<1>2. P0 \in Payloads
  <2>1. ASSUME NEW t \in Tokens
        PROVE  [known |-> t \in Issued, revoked |-> FALSE, lastUsed |-> NoOne] \in TokenRecords
    <3>1. (t \in Issued) \in BOOLEAN
      OBVIOUS
    <3> QED BY <3>1, Zenon DEF TokenRecords
  <2> QED BY <2>1, Zenon DEF Payloads
<1>3. /\ \A t \in Tokens : /\ P0.tokens[t].known <=> t \in Issued
                           /\ ~P0.tokens[t].revoked
                           /\ P0.tokens[t].lastUsed = NoOne
       /\ P0.events = {}
  OBVIOUS
<1>4. store = P0
  BY DEF EmptyPayload, Fresh
<1> HIDE DEF P0
<1>5. TypeOK
  BY <1>1, <1>2, <1>3, <1>4, TokenAssumption DEF TypeOK, Callers, Tasks, Final
<1>6. Roles /\ Backends /\ Apart /\ Alone
  <2>1. Roles
    BY TokenAssumption DEF Roles, RoleOf, Callers
  <2>2. Backends
    BY <1>2, <1>4, FileAssumption DEF Backends
  <2>3. Apart /\ Alone
    BY DEF Apart, Alone
  <2> QED BY <2>1, <2>2, <2>3
<1>7. TornByPair
  BY <1>2, <1>3, <1>4, FileAssumption DEF TornByPair
<1>8. AllSound
  BY <1>1, <1>2, <1>3, <1>4 DEF AllSound, Sound, Begun
<1>9. AllMatch
  BY <1>1, <1>2, <1>3, <1>4 DEF AllMatch, Matches
<1>10. ViewsTell /\ Kept /\ Served
  BY TokenAssumption DEF ViewsTell, Kept, Lasting, Served, Callers, Tasks
<1> QED BY <1>5, <1>6, <1>7, <1>8, <1>9, <1>10 DEF Inv

(* A caller that goes on from what it read fits its payload; a token to be *)
(* issued is not there yet.                                                *)
LEMMA ReadsFit ==
  ASSUME Inv, NEW x \in Callers, store # Torn,
         \/ AtStart(x) /\ ~Unknown(x, store)
         \/ /\ pc[x] = "get" \/ (pc[x] = "new" /\ x \in Admins)
            /\ task[x] = "revoke" => store.tokens[Token(x)].known
  PROVE  /\ Takes(x, store)
         /\ task[x] = "issue" => ~store.tokens[Token(x)].known
<1> USE DEF Inv
<1>1. store \in Payloads /\ task[x] \in Tasks
  BY DEF TypeOK
<1>2. /\ task[x] \in {"auth", "bind"} => x \in Requests
      /\ task[x] \in {"revoke", "issue"} => x \in Admins /\ task[x] = Chore[x][1]
  BY TokenAssumption DEF Roles, RoleOf, Callers
<1>3. task[x] # "bind" => Token(x) \in Tokens
  BY <1>1, <1>2, AdminTokens DEF Roles, RoleOf, Unknown, AtStart, Tasks, Callers
<1>4. task[x] = "revoke" => store.tokens[Token(x)].known
  BY <1>2, AdminTokens DEF Unknown
<1>5. task[x] = "issue" => ~store.tokens[Token(x)].known
  <2> SUFFICES ASSUME task[x] = "issue", store.tokens[Token(x)].known PROVE FALSE
    OBVIOUS
  <2>1. x \in Admins /\ Chore[x] = <<"issue", Token(x)>> /\ pc[x] = "new"
    BY <1>2, AdminTokens, TokenAssumption DEF AtStart, Roles, RoleOf, Callers
  <2>2. Token(x) \in Begun
    BY <1>3 DEF AllSound, Sound
  <2>3. Token(x) \notin Issued
    BY <2>1, TokenAssumption
  <2> QED BY <2>1, <2>2, <2>3, TokenAssumption DEF Begun
<1> QED BY <1>1, <1>2, <1>3, <1>4, <1>5 DEF Takes

(* Where operations end. *)
LEMMA Outcomes ==
  ASSUME Inv, NEW x \in Callers
  PROVE  /\ Admitted(x) \in {"bind", "served", "forbidden"}
         /\ Admitted(x) = "served" => Asks[x].body = "none"
         /\ Bound(x) \in {"served", "forbidden"}
         /\ Raised(x) \in IF task[x] = "bind" THEN {"served", "forbidden"} ELSE {"error"}
         /\ Without(x) \in {"error", "refused", "forbidden", "bind", "served"}
         /\ Without(x) \in {"bind", "served"} => task[x] # "revoke" /\ WithoutStore(x)
         /\ Concluded(x) \in IF task[x] = "auth" THEN {Admitted(x), "refused"}
                             ELSE IF task[x] = "bind" THEN {"served", "forbidden"} ELSE {"done"}
<1>1. /\ Admitted(x) \in {"bind", "served", "forbidden"} /\ Bound(x) \in {"served", "forbidden"}
      /\ Admitted(x) = "served" => Asks[x].body = "none"
  BY DEF Admitted, Handled, Bound
<1>2. task[x] \in Tasks
  BY DEF Inv, TypeOK
<1> QED BY <1>1, <1>2 DEF Raised, Without, Concluded, Tasks

(* The payload of a caller that has read nothing. *)
LEMMA EmptyIs ==
    /\ EmptyPayload \in Payloads
    /\ \A begun : Sound(EmptyPayload, begun)
    /\ Matches(EmptyPayload)
<1>1. /\ EmptyPayload \in Payloads
      /\ \A t \in Tokens : /\ ~EmptyPayload.tokens[t].known
                           /\ ~EmptyPayload.tokens[t].revoked
                           /\ EmptyPayload.tokens[t].lastUsed = NoOne
      /\ EmptyPayload.events = {}
  BY DEF EmptyPayload, Fresh, Payloads, TokenRecords
<1> QED BY <1>1 DEF Sound, Matches

(* What the upsert leaves, ... *)
LEMMA SavedIs ==
  ASSUME Inv, NEW x \in Callers, SaveToken(x)
  PROVE  LET t == Token(x) IN
         /\ ~Json /\ pc[x] = "save" /\ t \in Tokens
         /\ store \in Payloads /\ store # Torn /\ store' \in Payloads /\ store' # Torn
         /\ store'.events = store.events
         /\ \A u \in Tokens : u # t => store'.tokens[u] = store.tokens[u]
         /\ store'.tokens[t].known <=> view[x].tokens[t].known
         /\ store'.tokens[t].revoked <=> view[x].tokens[t].revoked
<1> DEFINE t == Token(x)
           record == view[x].tokens[t]
           stored == IF task[x] = "auth" THEN [record EXCEPT !.lastUsed = x] ELSE record
<1>1. /\ pc[x] = "save" /\ InStep(x) /\ ~Json
      /\ store \in Payloads /\ store # Torn
  <2>1. pc[x] = "save" /\ InStep(x) /\ ~Json
    BY DEF SaveToken, InStep, Inv, Backends
  <2> QED BY <2>1 DEF Inv, TypeOK, Backends
<1>2. t \in Tokens /\ (task[x] = "auth" => x \in Requests)
  <2>1. CASE x \in Requests
    BY <1>1, <2>1 DEF Inv, Roles, RoleOf
  <2>2. CASE x \in Admins
    BY <1>1, <2>2, AdminTokens DEF Inv, Roles, RoleOf
  <2> QED BY <2>1, <2>2 DEF Callers
<1>3. record \in TokenRecords
  BY <1>2 DEF Inv, TypeOK, Payloads
<1>4. stored \in TokenRecords /\ (stored.known <=> record.known) /\ (stored.revoked <=> record.revoked)
  <2> HIDE DEF record
  <2> QED BY <1>2, <1>3 DEF TokenRecords
<1>5. store' = [tokens |-> [store.tokens EXCEPT ![t] = stored], events |-> store.events]
  BY <1>1 DEF SaveToken, Payloads
<1> HIDE DEF stored
<1>6. store' \in Payloads
  BY <1>1, <1>2, <1>4, <1>5 DEF Payloads
<1> QED BY <1>1, <1>2, <1>4, <1>5, <1>6, FileAssumption DEF Payloads

(* ... and what the insertion of an event does.  *)
LEMMA RecordedIs ==
  ASSUME Inv, NEW x \in Callers, RecordEvent(x)
  PROVE  /\ ~Json /\ task[x] \in {"auth", "bind"} /\ x \in Requests
         /\ store \in Payloads /\ store # Torn /\ store' \in Payloads /\ store' # Torn
         /\ store'.tokens = store.tokens /\ store.events \subseteq store'.events
         /\ Effect(x, task[x], store')
<1>1. /\ ~Json /\ store \in Payloads /\ store # Torn
  <2>1. ~Json
    BY DEF RecordEvent, Json
  <2> QED BY <2>1 DEF Inv, TypeOK, Backends
<1>2. /\ pc[x] \in {"audit", "bind"}
      /\ pc[x] = "audit" => task[x] = "auth"
      /\ pc[x] = "bind" => task[x] = "bind"
      /\ x \in Requests
  BY DEF RecordEvent, Inv, Roles, RoleOf, Callers
<1>3. PICK e \in EventTypes :
         /\ store' = [tokens |-> store.tokens, events |-> store.events \cup {<<x, e>>}]
         /\ task[x] = "auth" => e = "used"
         /\ task[x] = "bind" => e \in {"resolved", "tenant.denied"}
  <2>1. BindEvent(x) \in {"resolved", "tenant.denied"}
    BY DEF BindEvent
  <2>2. ASSUME NEW e
        PROVE  With(store, x, e) = [tokens |-> store.tokens, events |-> store.events \cup {<<x, e>>}]
    <3>1. store = [tokens |-> store.tokens, events |-> store.events]
      BY <1>1 DEF Payloads
    <3> QED BY <3>1 DEF With
  <2>3. CASE pc[x] = "audit"
    BY <1>2, <2>2, <2>3 DEF RecordEvent, EventTypes
  <2>4. CASE pc[x] = "bind"
    BY <1>2, <2>1, <2>2, <2>4 DEF RecordEvent, EventTypes
  <2> QED BY <1>2, <2>3, <2>4
<1>4. store' \in Payloads
  BY <1>1, <1>3 DEF Payloads
<1> QED BY <1>1, <1>2, <1>3, <1>4, FileAssumption DEF Effect

(* The variables keep their types. *)
LEMMA TypeStep == Inv /\ [Next]_vars => TypeOK'
<1> SUFFICES ASSUME Inv, [Next]_vars PROVE TypeOK'
  OBVIOUS
<1> USE DEF Inv, TypeOK, Goto, Proceed, Final, Answers
<1>1. CASE UNCHANGED vars
  BY <1>1 DEF vars
<1>2. ASSUME NEW x \in Callers, Dispatch(x) PROVE TypeOK'
  BY <1>2 DEF Dispatch, Handled, Tasks
<1>3. ASSUME NEW x \in Callers, Load(x) PROVE TypeOK'
  <2>1. task[x] = "bind" \/ Raised(x) # "bind"
    BY Outcomes
  <2>2. store # Torn /\ ~Unknown(x, store) => Updated(x, store) \in Payloads
    BY <1>3, ReadsFit, UpdatedIs DEF Load, Changes
  <2>3. Overlaps(x) \subseteq Callers \X Tasks
    BY DEF Overlaps
  <2> QED BY <1>3, <2>2, <2>3, Outcomes DEF Load, Tasks
<1>4. ASSUME NEW x \in Callers, OpenTmp(x) PROVE TypeOK'
  BY <1>4 DEF OpenTmp
<1>5. ASSUME NEW x \in Callers, WriteTmp(x) PROVE TypeOK'
  BY <1>5 DEF WriteTmp, Overlay
<1>6. ASSUME NEW x \in Callers, Replace(x) PROVE TypeOK'
  <2>1. Moved \in [Callers -> {"none", "tmp", "path", "unlinked"}]
    BY DEF Moved
  <2> QED BY <1>6, <2>1, Outcomes, EmptyIs DEF Replace, Tasks
<1>7. ASSUME NEW x \in Callers, ListTokens(x) PROVE TypeOK'
  BY <1>7 DEF ListTokens
<1>8. ASSUME NEW x \in Callers, GetToken(x) PROVE TypeOK'
  <2>1. ASSUME task[x] = "revoke" => store.tokens[Token(x)].known
        PROVE  Updated(x, store) \in Payloads
    <3>1. ~Json /\ (pc[x] = "get" \/ (pc[x] = "new" /\ x \in Admins))
      BY <1>8 DEF GetToken, Json
    <3>2. store # Torn
      BY <3>1 DEF Backends
    <3>3. Takes(x, store)
      BY <2>1, <3>1, <3>2, ReadsFit
    <3> QED BY <3>3, UpdatedIs DEF Changes
  <2>2. Overlaps(x) \subseteq Callers \X Tasks
    BY DEF Overlaps
  <2> QED BY <1>8, <2>1, <2>2 DEF GetToken
<1>9. ASSUME NEW x \in Callers, SaveToken(x) PROVE TypeOK'
  <2>1. store' \in Payloads
    BY <1>9, SavedIs
  <2> QED BY <1>9, <2>1, EmptyIs DEF SaveToken
<1>10. ASSUME NEW x \in Callers, RecordEvent(x) PROVE TypeOK'
  BY <1>10, RecordedIs, Outcomes DEF RecordEvent, Tasks
<1>11. ASSUME NEW x \in Callers, StatementFails(x) PROVE TypeOK'
  <2>1. MaxFaults \in Nat
    BY TokenAssumption
  <2> QED BY <1>11, <2>1, Outcomes, EmptyIs DEF StatementFails, Tasks
<1>12. ASSUME NEW x \in Callers, FileFails(x) PROVE TypeOK'
  <2>1. MaxFaults \in Nat /\ Raised(x) \in Final
    BY TokenAssumption, Outcomes
  <2> QED BY <1>12, <2>1, EmptyIs DEF FileFails, PartOf, Tasks
<1>13. ASSUME NEW t \in Expiring, Lapse(t) PROVE TypeOK'
  BY <1>13, TokenAssumption DEF Lapse
<1>14. ASSUME NEW gone \in Processes, ProcessEnds(gone) PROVE TypeOK'
  <2>1. MaxFaults \in Nat
    BY TokenAssumption
  <2> QED BY <1>14, <2>1, EmptyIs DEF ProcessEnds
<1> QED BY <1>1, <1>2, <1>3, <1>4, <1>5, <1>6, <1>7, <1>8, <1>9, <1>10, <1>11, <1>12, <1>13, <1>14 DEF Next, Step, Settled

(* A step of one caller keeps to the tasks if its own does. *)
LEMMA RolesFrom ==
  ASSUME TypeOK, Roles, NEW x \in Callers, NEW p,
         pc' = [pc EXCEPT ![x] = p],
         task' = [task EXCEPT ![x] = IF p = "bind" THEN "bind" ELSE @] \/ (p # "bind" /\ task' = task),
         RoleOf(x, p, IF p = "bind" THEN "bind" ELSE task[x])
  PROVE  Roles'
<1> SUFFICES ASSUME NEW y \in Callers PROVE RoleOf(y, pc'[y], task'[y])
  BY DEF Roles
<1>1. CASE y = x
  BY <1>1 DEF TypeOK
<1>2. CASE y # x
  BY <1>2 DEF TypeOK, Roles
<1> QED BY <1>1, <1>2

(* Callers keep to their tasks. *)
LEMMA RolesStep == Inv /\ [Next]_vars => Roles'
<1> SUFFICES ASSUME Inv, [Next]_vars PROVE Roles'
  OBVIOUS
<1>1. CASE UNCHANGED vars
  BY <1>1 DEF vars, Inv, Roles
<1>2. ASSUME NEW x \in Callers, Dispatch(x) PROVE Roles'
  <2>1. RoleOf(x, pc[x], task[x]) /\ x \notin Admins /\ TypeOK /\ Roles
    BY <1>2, TokenAssumption DEF Inv, Roles, Dispatch
  <2>2. PICK p \in {"error", "bind", "served", "refused"} : Proceed(x, p)
    BY <1>2 DEF Dispatch, Handled
  <2> QED BY <2>1, <2>2, RolesFrom DEF Proceed, Goto, RoleOf
<1>3. ASSUME NEW x \in Callers, Load(x) PROVE Roles'
  <2>1. RoleOf(x, pc[x], task[x]) /\ TypeOK /\ Roles /\ task[x] \in Tasks
    BY <1>3 DEF Inv, Roles, TypeOK
  <2>2. PICK p \in {"served", "forbidden", "error", "refused", "bind", "open"} :
             /\ Proceed(x, p)
             /\ p = "open" => store # Torn /\ ~Unknown(x, store)
             /\ p = "bind" => x \in Requests \ Admins
    <3>1. CASE store = Torn
      BY <1>3, <3>1, Outcomes DEF Load
    <3>2. CASE store # Torn /\ Unknown(x, store)
      <4>1. task[x] # "revoke" => x \in Requests \ Admins
        BY <3>2, <2>1, AdminTokens DEF Unknown, RoleOf, Callers
      <4> QED BY <1>3, <3>2, <4>1, Outcomes DEF Load
    <3>3. CASE store # Torn /\ ~Unknown(x, store)
      BY <1>3, <3>3 DEF Load
    <3> QED BY <3>1, <3>2, <3>3
  <2>3. p = "open" /\ task[x] = "auth" => Token(x) \in Tokens
    BY <2>2 DEF Unknown
  <2>4. RoleOf(x, p, IF p = "bind" THEN "bind" ELSE task[x])
    BY <2>1, <2>2, <2>3 DEF RoleOf
  <2> QED BY <2>1, <2>2, <2>4, RolesFrom DEF Proceed, Goto
<1>4. ASSUME NEW x \in Callers, OpenTmp(x) PROVE Roles'
  <2>1. RoleOf(x, pc[x], task[x]) /\ TypeOK /\ Roles /\ pc[x] = "open"
    BY <1>4 DEF Inv, Roles, OpenTmp
  <2>2. RoleOf(x, "write", task[x])
    BY <2>1 DEF RoleOf
  <2> QED BY <1>4, <2>1, <2>2, RolesFrom DEF OpenTmp, Goto
<1>5. ASSUME NEW x \in Callers, WriteTmp(x) PROVE Roles'
  <2>1. RoleOf(x, pc[x], task[x]) /\ TypeOK /\ Roles /\ pc[x] = "write"
    BY <1>5 DEF Inv, Roles, WriteTmp
  <2>2. RoleOf(x, "replace", task[x])
    BY <2>1 DEF RoleOf
  <2> QED BY <1>5, <2>1, <2>2, RolesFrom DEF WriteTmp, Goto
<1>6. ASSUME NEW x \in Callers, Replace(x) PROVE Roles'
  <2>1. RoleOf(x, pc[x], task[x]) /\ TypeOK /\ Roles
    BY <1>6 DEF Inv, Roles
  <2>2. x \in Admins => x \notin Requests /\ task[x] \in {"revoke", "issue"}
    BY <2>1, AdminTokens DEF RoleOf
  <2>3. PICK p \in {"served", "forbidden", "error", "refused", "bind", "done"} :
             Proceed(x, p) /\ (p = "bind" => task[x] = "auth")
    BY <1>6, Outcomes DEF Replace
  <2>4. RoleOf(x, p, IF p = "bind" THEN "bind" ELSE task[x])
    BY <2>1, <2>2, <2>3 DEF RoleOf
  <2> QED BY <2>1, <2>3, <2>4, RolesFrom DEF Proceed, Goto
<1>7. ASSUME NEW x \in Callers, ListTokens(x) PROVE Roles'
  <2>1. RoleOf(x, pc[x], task[x]) /\ TypeOK /\ Roles /\ x \notin Admins
    BY <1>7, TokenAssumption DEF Inv, Roles, ListTokens
  <2>2. PICK p \in {"get", "refused"} :
             Goto(x, p) /\ task' = task /\ (p = "get" => Token(x) \in Tokens)
    BY <1>7 DEF ListTokens
  <2>3. RoleOf(x, p, task[x])
    BY <1>7, <2>1, <2>2 DEF RoleOf, ListTokens
  <2> QED BY <2>1, <2>2, <2>3, RolesFrom DEF Goto
<1>8. ASSUME NEW x \in Callers, GetToken(x) PROVE Roles'
  <2>1. RoleOf(x, pc[x], task[x]) /\ TypeOK /\ Roles
    BY <1>8 DEF Inv, Roles
  <2>2. PICK p \in {"error", "save"} : Goto(x, p) /\ task' = task
    BY <1>8 DEF GetToken
  <2>3. RoleOf(x, p, task[x])
    BY <1>8, <2>1, <2>2, AdminTokens DEF RoleOf, GetToken
  <2> QED BY <2>1, <2>2, <2>3, RolesFrom DEF Goto
<1>9. ASSUME NEW x \in Callers, SaveToken(x) PROVE Roles'
  <2>1. RoleOf(x, pc[x], task[x]) /\ TypeOK /\ Roles
    BY <1>9 DEF Inv, Roles
  <2>2. PICK p \in {"audit", "done"} : Goto(x, p) /\ task' = task /\ (p = "audit" => task[x] = "auth")
    BY <1>9 DEF SaveToken
  <2>3. RoleOf(x, p, task[x])
    BY <2>1, <2>2, AdminTokens DEF RoleOf
  <2> QED BY <2>1, <2>2, <2>3, RolesFrom DEF Goto
<1>10. ASSUME NEW x \in Callers, RecordEvent(x) PROVE Roles'
  <2>1. RoleOf(x, pc[x], task[x]) /\ TypeOK /\ Roles
    BY <1>10 DEF Inv, Roles
  <2>2. PICK p \in {"bind", "served", "forbidden"} : Proceed(x, p)
    BY <1>10, Outcomes DEF RecordEvent
  <2>3. x \in Requests \ Admins
    BY <1>10, <2>1 DEF RecordEvent, RoleOf, Callers
  <2>4. RoleOf(x, p, IF p = "bind" THEN "bind" ELSE task[x])
    BY <2>1, <2>2, <2>3 DEF RoleOf
  <2> QED BY <2>1, <2>2, <2>4, RolesFrom DEF Proceed, Goto
<1>11. ASSUME NEW x \in Callers, StatementFails(x) PROVE Roles'
  <2>1. RoleOf(x, pc[x], task[x]) /\ TypeOK /\ Roles
    BY <1>11 DEF Inv, Roles
  <2>2. PICK p \in {"bind", "served", "forbidden", "error", "audit"} :
             Proceed(x, p) /\ (p = "bind" => pc[x] = "audit") /\ (p = "audit" => task[x] = "auth")
    BY <1>11, Outcomes DEF StatementFails
  <2>3. RoleOf(x, p, IF p = "bind" THEN "bind" ELSE task[x])
    BY <2>1, <2>2, AdminTokens DEF RoleOf, Callers
  <2> QED BY <2>1, <2>2, <2>3, RolesFrom DEF Proceed, Goto
<1>12. ASSUME NEW x \in Callers, FileFails(x) PROVE Roles'
  <2>1. RoleOf(x, pc[x], task[x]) /\ TypeOK /\ Roles
    BY <1>12 DEF Inv, Roles
  <2>2. PICK p \in {"served", "forbidden", "error"} : Proceed(x, p)
    BY <1>12, Outcomes DEF FileFails
  <2>3. RoleOf(x, p, IF p = "bind" THEN "bind" ELSE task[x])
    BY <2>1, <2>2 DEF RoleOf
  <2> QED BY <2>1, <2>2, <2>3, RolesFrom DEF Proceed, Goto
<1>13. ASSUME NEW t \in Expiring, Lapse(t) PROVE Roles'
  BY <1>13 DEF Lapse, Inv, Roles
<1>14. ASSUME NEW gone \in Processes, ProcessEnds(gone) PROVE Roles'
  BY <1>14 DEF ProcessEnds, Inv, Roles, RoleOf, TypeOK
<1> QED BY <1>1, <1>2, <1>3, <1>4, <1>5, <1>6, <1>7, <1>8, <1>9, <1>10, <1>11, <1>12, <1>13, <1>14 DEF Next, Step, Settled

(* No caller meets the other store. *)
LEMMA BackendsStep == Inv /\ [Next]_vars => Backends'
<1> SUFFICES ASSUME Inv, [Next]_vars PROVE Backends'
  OBVIOUS
<1> USE DEF Inv, TypeOK, Backends, Goto, Proceed, InFile, Json
<1>1. CASE UNCHANGED vars
  BY <1>1 DEF vars
<1>2. ASSUME NEW x \in Callers, Dispatch(x) PROVE Backends'
  BY <1>2 DEF Dispatch, Handled
<1>3. ASSUME NEW x \in Callers, Load(x) PROVE Backends'
  <2>1. PICK p \in {"served", "forbidden", "error", "refused", "bind", "open"} : Proceed(x, p)
    BY <1>3, Outcomes DEF Load
  <2> QED BY <1>3, <2>1 DEF Load
<1>4. ASSUME NEW x \in Callers, OpenTmp(x) PROVE Backends'
  BY <1>4 DEF OpenTmp
<1>5. ASSUME NEW x \in Callers, WriteTmp(x) PROVE Backends'
  BY <1>5 DEF WriteTmp
<1>6. ASSUME NEW x \in Callers, Replace(x) PROVE Backends'
  <2>1. PICK p \in {"served", "forbidden", "error", "refused", "bind", "done"} : Proceed(x, p)
    BY <1>6, Outcomes DEF Replace
  <2> QED BY <1>6, <2>1 DEF Replace
<1>7. ASSUME NEW x \in Callers, ListTokens(x) PROVE Backends'
  BY <1>7 DEF ListTokens
<1>8. ASSUME NEW x \in Callers, GetToken(x) PROVE Backends'
  BY <1>8 DEF GetToken
<1>9. ASSUME NEW x \in Callers, SaveToken(x) PROVE Backends'
  BY <1>9, SavedIs DEF SaveToken
<1>10. ASSUME NEW x \in Callers, RecordEvent(x) PROVE Backends'
  BY <1>10, RecordedIs, Outcomes DEF RecordEvent
<1>11. ASSUME NEW x \in Callers, StatementFails(x) PROVE Backends'
  BY <1>11, Outcomes DEF StatementFails
<1>12. ASSUME NEW x \in Callers, FileFails(x) PROVE Backends'
  BY <1>12, Outcomes DEF FileFails
<1>13. ASSUME NEW t \in Expiring, Lapse(t) PROVE Backends'
  BY <1>13 DEF Lapse
<1>14. ASSUME NEW gone \in Processes, ProcessEnds(gone) PROVE Backends'
  BY <1>14 DEF ProcessEnds
<1> QED BY <1>1, <1>2, <1>3, <1>4, <1>5, <1>6, <1>7, <1>8, <1>9, <1>10, <1>11, <1>12, <1>13, <1>14 DEF Next, Step, Settled

(* Either one caller reads the store and takes on what it makes of it, ... *)
Enters(x) ==
    /\ ~InStep(x) /\ store # Torn /\ Takes(x, store)
    /\ task[x] = "issue" => ~store.tokens[Token(x)].known
    /\ view' = [view EXCEPT ![x] = Updated(x, store)]
    /\ overlapped' = overlapped \cup Overlaps(x)
    /\ \E p \in {"open", "save"} : pc' = [pc EXCEPT ![x] = p]
    /\ UNCHANGED <<config, store, tmp, handle, task, done>>

(* ... or every one between its read and its write stays there as it is.   *)
Stays ==
    /\ overlapped \subseteq overlapped'
    /\ \A y \in Callers :
         /\ InStep(y)' => InStep(y) /\ task'[y] = task[y] /\ view'[y] = view[y]
         /\ view'[y] \in {view[y], EmptyPayload}

Moves == Stays \/ \E x \in Callers : Enters(x)

(* Every step is one or the other. *)
LEMMA MovesStep == Inv /\ [Next]_vars => Moves
<1> SUFFICES ASSUME Inv, [Next]_vars PROVE Moves
  OBVIOUS
<1>1. CASE UNCHANGED vars
  BY <1>1 DEF vars, Moves, Stays, InStep, InFile
<1>2. ASSUME NEW x \in Callers, Dispatch(x) PROVE Moves
  BY <1>2 DEF Inv, TypeOK, Moves, Stays, Goto, Proceed, InStep, InFile, Dispatch, Handled
<1>3. ASSUME NEW x \in Callers, Load(x) PROVE Moves
  <2>1. CASE store = Torn \/ Unknown(x, store)
    <3>1. Raised(x) \notin {"open", "write", "replace", "save"} /\ Without(x) \notin {"open", "write", "replace", "save"}
      BY Outcomes
    <3> QED BY <1>3, <2>1, <3>1 DEF Inv, TypeOK, Moves, Stays, Goto, Proceed, InStep, InFile, Load
  <2>2. CASE store # Torn /\ ~Unknown(x, store)
    <3>1. Takes(x, store) /\ (task[x] = "issue" => ~store.tokens[Token(x)].known)
      BY <1>3, <2>2, ReadsFit DEF Load
    <3>2. ~InStep(x)
      BY <1>3 DEF Load, AtStart, InStep, InFile
    <3>3. task' = task /\ pc' = [pc EXCEPT ![x] = "open"]
      BY <1>3, <2>2 DEF Load, Proceed, Goto, Inv, TypeOK
    <3>4. Enters(x)
      BY <1>3, <2>2, <3>1, <3>2, <3>3 DEF Enters, Load
    <3> QED BY <3>4 DEF Moves
  <2> QED BY <2>1, <2>2
<1>4. ASSUME NEW x \in Callers, OpenTmp(x) PROVE Moves
  BY <1>4 DEF Inv, TypeOK, Moves, Stays, Goto, Proceed, InStep, InFile, OpenTmp
<1>5. ASSUME NEW x \in Callers, WriteTmp(x) PROVE Moves
  BY <1>5 DEF Inv, TypeOK, Moves, Stays, Goto, Proceed, InStep, InFile, WriteTmp
<1>6. ASSUME NEW x \in Callers, Replace(x) PROVE Moves
  <2>1. Raised(x) \notin {"open", "write", "replace", "save"} /\ Concluded(x) \notin {"open", "write", "replace", "save"}
    BY Outcomes
  <2> QED BY <1>6, <2>1 DEF Inv, TypeOK, Moves, Stays, Goto, Proceed, InStep, InFile, Replace
<1>7. ASSUME NEW x \in Callers, ListTokens(x) PROVE Moves
  BY <1>7 DEF Inv, TypeOK, Moves, Stays, Goto, Proceed, InStep, InFile, ListTokens
<1>8. ASSUME NEW x \in Callers, GetToken(x) PROVE Moves
  <2>1. CASE task[x] = "revoke" /\ ~store.tokens[Token(x)].known
    BY <1>8, <2>1 DEF GetToken, Inv, TypeOK, Moves, Stays, Goto, Proceed, InStep, InFile
  <2>2. CASE ~(task[x] = "revoke" /\ ~store.tokens[Token(x)].known)
    <3>1. ~Json /\ (pc[x] = "get" \/ (pc[x] = "new" /\ x \in Admins))
      BY <1>8 DEF GetToken, Json
    <3>2. store # Torn /\ ~InStep(x)
      BY <3>1 DEF Inv, Backends, InStep, InFile
    <3>3. Takes(x, store) /\ (task[x] = "issue" => ~store.tokens[Token(x)].known)
      BY <2>2, <3>1, <3>2, ReadsFit
    <3>4. Enters(x)
      BY <1>8, <2>2, <3>2, <3>3 DEF Enters, GetToken, Goto
    <3> QED BY <3>4 DEF Moves
  <2> QED BY <2>1, <2>2
<1>9. ASSUME NEW x \in Callers, SaveToken(x) PROVE Moves
  BY <1>9 DEF Inv, TypeOK, Moves, Stays, Goto, Proceed, InStep, InFile, SaveToken
<1>10. ASSUME NEW x \in Callers, RecordEvent(x) PROVE Moves
  <2>1. Admitted(x) \in {"bind", "served", "forbidden"} /\ Bound(x) \in {"served", "forbidden"}
    BY Outcomes
  <2> QED BY <1>10, <2>1 DEF Inv, TypeOK, Moves, Stays, Goto, Proceed, InStep, InFile, RecordEvent
<1>11. ASSUME NEW x \in Callers, StatementFails(x) PROVE Moves
  <2>1. Admitted(x) \in {"bind", "served", "forbidden"} /\ Bound(x) \in {"served", "forbidden"}
    BY Outcomes
  <2> QED BY <1>11, <2>1 DEF Inv, TypeOK, Moves, Stays, Goto, Proceed, InStep, InFile, StatementFails
<1>12. ASSUME NEW x \in Callers, FileFails(x) PROVE Moves
  <2>1. Raised(x) \notin {"open", "write", "replace", "save"}
    BY Outcomes
  <2> QED BY <1>12, <2>1 DEF Inv, TypeOK, Moves, Stays, Goto, Proceed, InStep, InFile, FileFails
<1>13. ASSUME NEW t \in Expiring, Lapse(t) PROVE Moves
  BY <1>13 DEF Moves, Stays, InStep, InFile, Lapse
<1>14. ASSUME NEW gone \in Processes, ProcessEnds(gone) PROVE Moves
  <2>1. ASSUME NEW y \in Callers
        PROVE  /\ pc'[y] = IF y \in gone /\ pc[y] \notin Final THEN "gone" ELSE pc[y]
               /\ view'[y] = IF y \in gone THEN EmptyPayload ELSE view[y]
               /\ task'[y] = task[y]
    BY <1>14 DEF ProcessEnds
  <2>2. overlapped' = overlapped
    BY <1>14 DEF ProcessEnds
  <2>3. ASSUME NEW y \in Callers, InStep(y)' PROVE InStep(y) /\ view'[y] = view[y]
    <3>1. pc'[y] = pc[y] /\ y \notin gone
      BY <2>1, <2>3 DEF InStep, InFile, Final, Answers
    <3> QED BY <2>1, <2>3, <3>1 DEF InStep, InFile
  <2> QED BY <2>1, <2>2, <2>3 DEF Moves, Stays
<1> QED BY <1>1, <1>2, <1>3, <1>4, <1>5, <1>6, <1>7, <1>8, <1>9, <1>10, <1>11, <1>12, <1>13, <1>14 DEF Next, Step, Settled

(* Callers that are between read and write together have overlapped. *)
LEMMA ApartStep == Inv /\ [Next]_vars => Apart'
<1> SUFFICES ASSUME Inv, [Next]_vars,
                    NEW x \in Callers, NEW y \in Callers, x # y, InStep(x)', InStep(y)'
             PROVE  <<x, task'[x]>> \in overlapped'
  BY DEF Apart
<1>1. CASE Stays
  BY <1>1 DEF Stays, Inv, Apart
<1>2. ASSUME NEW z \in Callers, Enters(z) PROVE <<x, task'[x]>> \in overlapped'
  <2>1. \A w \in Callers : w # z /\ InStep(w) =>
          <<z, task[z]>> \in overlapped' /\ <<w, task[w]>> \in overlapped'
    BY <1>2 DEF Enters, Overlaps
  <2>2. (x # z => InStep(x)) /\ (y # z => InStep(y)) /\ task' = task
    BY <1>2 DEF Enters, InStep, InFile, Inv, TypeOK
  <2>3. overlapped \subseteq overlapped'
    BY <1>2 DEF Enters
  <2>4. CASE x = z
    BY <2>1, <2>2, <2>4
  <2>5. CASE x # z /\ y = z
    BY <2>1, <2>2, <2>5
  <2>6. CASE x # z /\ y # z
    BY <2>2, <2>3, <2>6 DEF Inv, Apart
  <2> QED BY <2>4, <2>5, <2>6
<1> QED BY <1>1, <1>2, MovesStep DEF Moves

(* A caller has the effect of its operation in its hands from the moment   *)
(* it reads.                                                               *)
LEMMA ViewsStep == Inv /\ [Next]_vars => ViewsTell'
<1> SUFFICES ASSUME Inv, [Next]_vars, NEW x \in Callers, InStep(x)'
             PROVE  Effect(x, task'[x], view'[x])
  BY DEF ViewsTell
<1>1. CASE Stays
  BY <1>1 DEF Stays, Inv, ViewsTell
<1>2. ASSUME NEW z \in Callers, Enters(z) PROVE Effect(x, task'[x], view'[x])
  <2>1. CASE x = z
    <3>1. Sound(store, Begun)
      BY <1>2 DEF Enters, Inv, AllSound
    <3>2. Effect(x, task[x], Updated(x, store))
      BY <1>2, <2>1, <3>1, UpdatedEffects DEF Enters
    <3> QED BY <1>2, <2>1, <3>2 DEF Enters, Inv, TypeOK
  <2>2. CASE x # z
    BY <1>2, <2>2 DEF Enters, Inv, TypeOK, InStep, InFile, ViewsTell
  <2> QED BY <2>1, <2>2
<1> QED BY <1>1, <1>2, MovesStep DEF Moves

(* What gets to the disk and into the history: the .tmp file is a copy of  *)
(* what a caller has in its hands, and the store a copy of one of the two, *)
(* an upsert or an insertion.                                              *)
Commits(x) == SaveToken(x) \/ RecordEvent(x)

Written ==
    /\ tmp' \in {tmp, Torn, NoOne} \/ \E x \in Callers : InFile(x) /\ tmp' = view[x]
    /\ \/ store' \in {store, Torn}
       \/ \E x \in Callers : InFile(x) /\ store' = view[x]
       \/ tmp # NoOne /\ store' = tmp /\ \E x \in Callers : InFile(x)
       \/ \E x \in Callers : Commits(x)
    /\ \/ done' = done
       \/ \E z \in Callers : /\ done' = done \cup {<<z, task[z]>>}
                             /\ Commits(z) \/ (Replace(z) /\ tmp # NoOne)

(* Every step writes that way. *)
LEMMA WrittenStep == Inv /\ [Next]_vars => Written
<1> SUFFICES ASSUME Inv, [Next]_vars PROVE Written
  OBVIOUS
<1>1. CASE UNCHANGED vars
  BY <1>1 DEF vars, Written
<1>2. ASSUME NEW x \in Callers, Dispatch(x) PROVE Written
  BY <1>2 DEF Written, Dispatch
<1>3. ASSUME NEW x \in Callers, Load(x) PROVE Written
  BY <1>3 DEF Written, Load
<1>4. ASSUME NEW x \in Callers, OpenTmp(x) PROVE Written
  BY <1>4 DEF Written, OpenTmp
<1>5. ASSUME NEW x \in Callers, WriteTmp(x) PROVE Written
  <2>1. /\ InFile(x) /\ done' = done
        /\ tmp' = tmp \/ tmp' \in Overlay(tmp, view[x])
        /\ store' = store \/ store' \in Overlay(store, view[x])
    BY <1>5 DEF WriteTmp, InFile
  <2>2. \A old : Overlay(old, view[x]) \subseteq {view[x], Torn}
    BY DEF Overlay
  <2> QED BY <2>1, <2>2 DEF Written
<1>6. ASSUME NEW x \in Callers, Replace(x) PROVE Written
  BY <1>6 DEF Written, Replace, InFile
<1>7. ASSUME NEW x \in Callers, ListTokens(x) PROVE Written
  BY <1>7 DEF Written, ListTokens
<1>8. ASSUME NEW x \in Callers, GetToken(x) PROVE Written
  BY <1>8 DEF Written, GetToken
<1>9. ASSUME NEW x \in Callers, SaveToken(x) PROVE Written
  BY <1>9 DEF Written, Commits, SaveToken
<1>10. ASSUME NEW x \in Callers, RecordEvent(x) PROVE Written
  BY <1>10 DEF Written, RecordEvent, Commits
<1>11. ASSUME NEW x \in Callers, StatementFails(x) PROVE Written
  BY <1>11 DEF Written, StatementFails
<1>12. ASSUME NEW x \in Callers, FileFails(x) PROVE Written
  <2>1. /\ done' = done
        /\ tmp' = tmp \/ (InFile(x) /\ tmp' \in {tmp, view[x], Torn})
        /\ store' = store \/ (InFile(x) /\ store' \in {store, view[x], Torn})
    BY <1>12 DEF FileFails, PartOf, InFile
  <2> QED BY <2>1 DEF Written
<1>13. ASSUME NEW t \in Expiring, Lapse(t) PROVE Written
  BY <1>13 DEF Written, Lapse
<1>14. ASSUME NEW gone \in Processes, ProcessEnds(gone) PROVE Written
  BY <1>14 DEF Written, ProcessEnds
<1> QED BY <1>1, <1>2, <1>3, <1>4, <1>5, <1>6, <1>7, <1>8, <1>9, <1>10, <1>11, <1>12, <1>13, <1>14 DEF Next, Step, Settled

(* A caller that has begun stays so. *)
NoneNew == \A y \in Callers : pc'[y] = "new" => pc[y] = "new"

(* Every step leaves it at that. *)
LEMMA NoneNewStep == Inv /\ [Next]_vars => NoneNew
<1> SUFFICES ASSUME Inv, [Next]_vars PROVE NoneNew
  OBVIOUS
<1> USE DEF NoneNew, Inv, TypeOK
<1>1. CASE UNCHANGED vars
  BY <1>1 DEF vars
<1>2. ASSUME NEW x \in Callers, Dispatch(x) PROVE NoneNew
  BY <1>2 DEF Goto, Proceed, Dispatch, Handled
<1>3. ASSUME NEW x \in Callers, Load(x) PROVE NoneNew
  BY <1>3, Outcomes DEF Goto, Proceed, Load
<1>4. ASSUME NEW x \in Callers, OpenTmp(x) PROVE NoneNew
  BY <1>4 DEF Goto, Proceed, OpenTmp
<1>5. ASSUME NEW x \in Callers, WriteTmp(x) PROVE NoneNew
  BY <1>5 DEF Goto, Proceed, WriteTmp
<1>6. ASSUME NEW x \in Callers, Replace(x) PROVE NoneNew
  BY <1>6, Outcomes DEF Goto, Proceed, Replace
<1>7. ASSUME NEW x \in Callers, ListTokens(x) PROVE NoneNew
  BY <1>7 DEF Goto, Proceed, ListTokens
<1>8. ASSUME NEW x \in Callers, GetToken(x) PROVE NoneNew
  BY <1>8 DEF Goto, Proceed, GetToken
<1>9. ASSUME NEW x \in Callers, SaveToken(x) PROVE NoneNew
  BY <1>9 DEF Goto, Proceed, SaveToken
<1>10. ASSUME NEW x \in Callers, RecordEvent(x) PROVE NoneNew
  BY <1>10, Outcomes DEF Goto, Proceed, RecordEvent
<1>11. ASSUME NEW x \in Callers, StatementFails(x) PROVE NoneNew
  BY <1>11, Outcomes DEF Goto, Proceed, StatementFails
<1>12. ASSUME NEW x \in Callers, FileFails(x) PROVE NoneNew
  BY <1>12, Outcomes DEF Goto, Proceed, FileFails
<1>13. ASSUME NEW t \in Expiring, Lapse(t) PROVE NoneNew
  BY <1>13 DEF Lapse
<1>14. ASSUME NEW gone \in Processes, ProcessEnds(gone) PROVE NoneNew
  BY <1>14 DEF ProcessEnds
<1> QED BY <1>1, <1>2, <1>3, <1>4, <1>5, <1>6, <1>7, <1>8, <1>9, <1>10, <1>11, <1>12, <1>13, <1>14 DEF Next, Step, Settled

(* So what has begun stays begun. *)
LEMMA BegunGrows == Inv /\ [Next]_vars => Begun \subseteq Begun'
BY NoneNewStep DEF NoneNew, Begun, Callers

(* Soundness in itself only needs more begun issues. *)
LEMMA SoundGrows ==
  ASSUME NEW p, NEW b, NEW c, Sound(p, b), b \subseteq c
  PROVE  Sound(p, c)
BY DEF Sound

(* The environment of a run does not change. *)
LEMMA ConfigStays == [Next]_vars => config' = config
BY DEF Next, Step, Settled, Dispatch, Load, OpenTmp, WriteTmp, Replace, ListTokens, GetToken,
       SaveToken, RecordEvent, FileFails, StatementFails, Lapse, ProcessEnds, vars

(* All payloads stay sound. *)
LEMMA SoundStep == Inv /\ [Next]_vars => AllSound'
<1> SUFFICES ASSUME Inv, [Next]_vars PROVE AllSound'
  OBVIOUS
<1> DEFINE later == Begun'
<1>0. /\ store # Torn => Sound(store, later)
      /\ tmp \notin {Torn, NoOne} => Sound(tmp, later)
      /\ \A x \in Callers : Sound(view[x], later) /\ view[x] \in Payloads
  BY BegunGrows, SoundGrows DEF Inv, AllSound, TypeOK
<1> HIDE DEF later
<1>1. tmp' \notin {Torn, NoOne} => Sound(tmp', later)
  BY <1>0, WrittenStep DEF Written
<1>2. store' # Torn => Sound(store', later)
  <2>1. ASSUME NEW x \in Callers, SaveToken(x) PROVE Sound(store', later)
    <3>1. /\ Token(x) \in Tokens /\ store # Torn
          /\ \A u \in Tokens : u # Token(x) => store'.tokens[u] = store.tokens[u]
          /\ store'.tokens[Token(x)].known <=> view[x].tokens[Token(x)].known
          /\ store'.tokens[Token(x)].revoked <=> view[x].tokens[Token(x)].revoked
      BY <2>1, SavedIs
    <3> QED BY <1>0, <3>1 DEF Sound
  <2>2. ASSUME NEW x \in Callers, RecordEvent(x) PROVE Sound(store', later)
    BY <1>0, <2>2, RecordedIs DEF Sound
  <2> QED BY <1>0, <2>1, <2>2, WrittenStep DEF Written, Commits
<1>3. ASSUME NEW x \in Callers PROVE Sound(view'[x], later)
  <2>1. CASE Stays
    BY <1>0, <2>1, EmptyIs DEF Stays
  <2>2. ASSUME NEW z \in Callers, Enters(z) PROVE Sound(view'[x], later)
    <3>1. task[z] = "issue" => Token(z) \in later
      <4> SUFFICES ASSUME task[z] = "issue" PROVE Token(z) \in Begun'
        BY DEF later
      <4>1. z \in Admins /\ Chore[z] = <<"issue", Token(z)>> /\ Token(z) \in Tokens
        BY <2>2, AdminTokens DEF Enters, Takes, Inv, Roles, RoleOf
      <4>2. pc'[z] # "new"
        BY <2>2 DEF Enters, Inv, TypeOK
      <4> QED BY <4>1, <4>2 DEF Begun
    <3>2. Sound(Updated(z, store), later)
      BY <1>0, <2>2, <3>1, UpdatedSound DEF Enters
    <3> QED BY <1>0, <2>2, <3>2 DEF Enters, Inv, TypeOK
  <2> QED BY <2>1, <2>2, MovesStep DEF Moves
<1> QED BY <1>1, <1>2, <1>3 DEF AllSound, later

(* In a JSON store they all match their events. *)
LEMMA MatchStep == Inv /\ [Next]_vars => AllMatch'
<1> SUFFICES ASSUME Inv, [Next]_vars, Json' PROVE AllMatch'
  BY DEF AllMatch
<1>0. Json
  BY ConfigStays DEF Json
<1>1. /\ store # Torn => Matches(store)
      /\ tmp \notin {Torn, NoOne} => Matches(tmp)
      /\ \A x \in Callers : Matches(view[x])
  BY <1>0 DEF Inv, AllMatch
<1>2. tmp' \notin {Torn, NoOne} => Matches(tmp')
  BY <1>1, WrittenStep DEF Written
<1>3. store' # Torn => Matches(store')
  BY <1>0, <1>1, WrittenStep, SavedIs, RecordedIs DEF Written, Commits
<1>4. ASSUME NEW x \in Callers PROVE Matches(view'[x])
  <2>1. CASE Stays
    BY <1>1, <2>1, EmptyIs DEF Stays
  <2>2. ASSUME NEW z \in Callers, Enters(z) PROVE Matches(view'[x])
    <3>1. Matches(Updated(z, store))
      BY <1>1, <2>2, UpdatedMatches DEF Enters, Inv, AllSound
    <3> QED BY <1>1, <2>2, <3>1 DEF Enters, Inv, TypeOK
  <2> QED BY <2>1, <2>2, MovesStep DEF Moves
<1> QED BY <1>2, <1>3, <1>4 DEF AllMatch

(* The .tmp file and the open files move with the steps that write only. *)
Undisturbed ==
    \/ \E x \in Callers : OpenTmp(x) \/ WriteTmp(x) \/ Replace(x) \/ (FileFails(x) /\ pc[x] = "write")
    \/ /\ tmp' = tmp
       /\ store' = Torn => store = Torn
       /\ \A y \in Callers : pc'[y] \in {"write", "replace"} => pc'[y] = pc[y] /\ handle'[y] = handle[y]

(* All the other steps leave them. *)
LEMMA UndisturbedStep == Inv /\ [Next]_vars => Undisturbed
<1> SUFFICES ASSUME Inv, [Next]_vars PROVE Undisturbed
  OBVIOUS
<1> USE DEF Inv, TypeOK
<1>1. CASE UNCHANGED vars
  BY <1>1 DEF vars, Undisturbed
<1>2. ASSUME NEW x \in Callers, Dispatch(x) PROVE Undisturbed
  BY <1>2 DEF Undisturbed, Goto, Proceed, Dispatch, Handled
<1>3. ASSUME NEW x \in Callers, Load(x) PROVE Undisturbed
  BY <1>3, Outcomes DEF Undisturbed, Goto, Proceed, Load
<1>4. ASSUME NEW x \in Callers, OpenTmp(x) PROVE Undisturbed
  BY <1>4 DEF Undisturbed
<1>5. ASSUME NEW x \in Callers, WriteTmp(x) PROVE Undisturbed
  BY <1>5 DEF Undisturbed
<1>6. ASSUME NEW x \in Callers, Replace(x) PROVE Undisturbed
  BY <1>6 DEF Undisturbed
<1>7. ASSUME NEW x \in Callers, ListTokens(x) PROVE Undisturbed
  BY <1>7 DEF Undisturbed, Goto, Proceed, ListTokens
<1>8. ASSUME NEW x \in Callers, GetToken(x) PROVE Undisturbed
  BY <1>8 DEF Undisturbed, Goto, Proceed, GetToken
<1>9. ASSUME NEW x \in Callers, SaveToken(x) PROVE Undisturbed
  BY <1>9, SavedIs DEF Undisturbed, Goto, SaveToken
<1>10. ASSUME NEW x \in Callers, RecordEvent(x) PROVE Undisturbed
  BY <1>10, RecordedIs, Outcomes DEF Undisturbed, Goto, Proceed, RecordEvent
<1>11. ASSUME NEW x \in Callers, StatementFails(x) PROVE Undisturbed
  BY <1>11, Outcomes DEF Undisturbed, Goto, Proceed, StatementFails
<1>12. ASSUME NEW x \in Callers, FileFails(x) PROVE Undisturbed
  <2>1. CASE pc[x] = "write"
    BY <1>12, <2>1 DEF Undisturbed
  <2>2. CASE pc[x] # "write"
    BY <1>12, <2>2, Outcomes DEF Undisturbed, Goto, Proceed, FileFails
  <2> QED BY <2>1, <2>2
<1>13. ASSUME NEW t \in Expiring, Lapse(t) PROVE Undisturbed
  BY <1>13 DEF Undisturbed, Lapse
<1>14. ASSUME NEW gone \in Processes, ProcessEnds(gone) PROVE Undisturbed
  <2>1. ASSUME NEW y \in Callers, pc'[y] \in {"write", "replace"}
        PROVE  pc'[y] = pc[y] /\ handle'[y] = handle[y]
    <3>1. pc'[y] = IF y \in gone /\ pc[y] \notin Final THEN "gone" ELSE pc[y]
      BY <1>14 DEF ProcessEnds
    <3>2. pc'[y] = pc[y] /\ y \notin gone
      BY <2>1, <3>1 DEF Final, Answers
    <3> QED BY <1>14, <3>2 DEF ProcessEnds
  <2> QED BY <1>14, <2>1 DEF Undisturbed, ProcessEnds
<1> QED BY <1>1, <1>2, <1>3, <1>4, <1>5, <1>6, <1>7, <1>8, <1>9, <1>10, <1>11, <1>12, <1>13, <1>14 DEF Next, Step, Settled

(* A caller that overlaps with none finds its own text in the .tmp file. *)
LEMMA AloneStep == Inv /\ [Next]_vars => Alone'
<1> SUFFICES ASSUME Inv, [Next]_vars, NEW x \in Callers,
                    <<x, task'[x]>> \notin overlapped', pc'[x] \in {"write", "replace"}
             PROVE  /\ pc'[x] = "write" => handle'[x] = "tmp" /\ tmp' = Torn
                    /\ pc'[x] = "replace" => tmp' = view'[x]
  BY DEF Alone
<1>1. InStep(x)'
  BY DEF InStep, InFile
<1>2. Stays
  <2>1. ASSUME NEW z \in Callers, Enters(z) PROVE FALSE
    <3>1. x # z
      BY <2>1 DEF Enters, Inv, TypeOK
    <3>2. InStep(x) /\ task' = task
      BY <1>1, <2>1, <3>1 DEF Enters, Inv, TypeOK, InStep, InFile
    <3> QED BY <2>1, <3>1, <3>2 DEF Enters, Overlaps
  <2> QED BY <2>1, MovesStep DEF Moves
<1>3. /\ InStep(x) /\ view'[x] = view[x] /\ <<x, task[x]>> \notin overlapped
      /\ \A y \in Callers : y # x => ~InStep(y)
  BY <1>1, <1>2 DEF Stays, Inv, Apart
<1>4. /\ pc[x] = "write" => handle[x] = "tmp" /\ tmp = Torn
      /\ pc[x] = "replace" => tmp = view[x]
  BY <1>3 DEF Inv, Alone
<1>5. ASSUME NEW y \in Callers,
             OpenTmp(y) \/ WriteTmp(y) \/ Replace(y) \/ (FileFails(y) /\ pc[y] = "write")
      PROVE  /\ pc'[x] = "write" => handle'[x] = "tmp" /\ tmp' = Torn
             /\ pc'[x] = "replace" => tmp' = view'[x]
  <2>1. y = x
    BY <1>3, <1>5 DEF InStep, InFile, OpenTmp, WriteTmp, Replace
  <2>2. CASE OpenTmp(x)
    BY <2>2 DEF OpenTmp, Goto, Inv, TypeOK
  <2>3. CASE WriteTmp(x)
    BY <1>3, <1>4, <2>3 DEF WriteTmp, Overlay, Goto, Inv, TypeOK
  <2>4. CASE Replace(x)
    BY <2>4, Outcomes DEF Replace, Proceed, Goto, Inv, TypeOK
  <2>5. CASE FileFails(x)
    BY <2>5, Outcomes DEF FileFails, Proceed, Goto, Inv, TypeOK
  <2> QED BY <1>5, <2>1, <2>2, <2>3, <2>4, <2>5
<1> QED BY <1>3, <1>4, <1>5, UndisturbedStep DEF Undisturbed

(* What is noted as overlapping is a caller with those it meets. *)
OverlapsNoted ==
    overlapped' = overlapped \/ \E x \in Callers : overlapped' = overlapped \cup Overlaps(x)

(* Overlaps are noted when a caller reads, and never taken back. *)
LEMMA OverlapsStep == Inv /\ [Next]_vars => OverlapsNoted
<1> SUFFICES ASSUME Inv, [Next]_vars PROVE OverlapsNoted
  OBVIOUS
<1>1. CASE UNCHANGED vars
  BY <1>1 DEF vars, OverlapsNoted
<1>2. ASSUME NEW x \in Callers, Dispatch(x) PROVE OverlapsNoted
  BY <1>2 DEF OverlapsNoted, Dispatch
<1>3. ASSUME NEW x \in Callers, Load(x) PROVE OverlapsNoted
  BY <1>3 DEF OverlapsNoted, Load
<1>4. ASSUME NEW x \in Callers, OpenTmp(x) PROVE OverlapsNoted
  BY <1>4 DEF OverlapsNoted, OpenTmp
<1>5. ASSUME NEW x \in Callers, WriteTmp(x) PROVE OverlapsNoted
  BY <1>5 DEF OverlapsNoted, WriteTmp
<1>6. ASSUME NEW x \in Callers, Replace(x) PROVE OverlapsNoted
  BY <1>6 DEF OverlapsNoted, Replace
<1>7. ASSUME NEW x \in Callers, ListTokens(x) PROVE OverlapsNoted
  BY <1>7 DEF OverlapsNoted, ListTokens
<1>8. ASSUME NEW x \in Callers, GetToken(x) PROVE OverlapsNoted
  BY <1>8 DEF OverlapsNoted, GetToken
<1>9. ASSUME NEW x \in Callers, SaveToken(x) PROVE OverlapsNoted
  BY <1>9 DEF OverlapsNoted, SaveToken
<1>10. ASSUME NEW x \in Callers, RecordEvent(x) PROVE OverlapsNoted
  BY <1>10 DEF OverlapsNoted, RecordEvent
<1>11. ASSUME NEW x \in Callers, StatementFails(x) PROVE OverlapsNoted
  BY <1>11 DEF OverlapsNoted, StatementFails
<1>12. ASSUME NEW x \in Callers, FileFails(x) PROVE OverlapsNoted
  BY <1>12 DEF OverlapsNoted, FileFails
<1>13. ASSUME NEW t \in Expiring, Lapse(t) PROVE OverlapsNoted
  BY <1>13 DEF OverlapsNoted, Lapse
<1>14. ASSUME NEW gone \in Processes, ProcessEnds(gone) PROVE OverlapsNoted
  BY <1>14 DEF OverlapsNoted, ProcessEnds
<1> QED BY <1>1, <1>2, <1>3, <1>4, <1>5, <1>6, <1>7, <1>8, <1>9, <1>10, <1>11, <1>12, <1>13, <1>14 DEF Next, Step, Settled

(* Who overlaps, overlaps with another; and none tears the store alone. *)
LEMMA PairStep == Inv /\ [Next]_vars => TornByPair'
<1> SUFFICES ASSUME Inv, [Next]_vars, overlapped' # {} \/ store' = Torn
             PROVE  \E a, b \in overlapped' : a # b
  BY DEF TornByPair
<1>1. overlapped \subseteq overlapped'
  BY MovesStep DEF Moves, Stays, Enters
<1>2. CASE overlapped # {} \/ store = Torn
  BY <1>1, <1>2 DEF Inv, TornByPair
<1>3. CASE overlapped = {} /\ store # Torn /\ store' = Torn
  <2>1. ASSUME NEW y \in Callers,
               OpenTmp(y) \/ WriteTmp(y) \/ Replace(y) \/ (FileFails(y) /\ pc[y] = "write")
        PROVE  FALSE
    <3>1. view[y] # Torn
      BY FileAssumption DEF Inv, TypeOK
    <3>2. /\ pc[y] = "write" => handle[y] = "tmp"
          /\ pc[y] = "replace" => tmp = view[y]
      BY <1>3 DEF Inv, Alone
    <3>3. CASE OpenTmp(y)
      BY <1>3, <3>3 DEF OpenTmp
    <3>4. CASE WriteTmp(y)
      BY <1>3, <3>2, <3>4 DEF WriteTmp
    <3>5. CASE Replace(y)
      BY <1>3, <3>1, <3>2, <3>5 DEF Replace
    <3>6. CASE FileFails(y) /\ pc[y] = "write"
      BY <1>3, <3>2, <3>6 DEF FileFails
    <3> QED BY <2>1, <3>3, <3>4, <3>5, <3>6
  <2> QED BY <1>3, <2>1, UndisturbedStep DEF Undisturbed
<1>4. CASE overlapped = {} /\ overlapped' # {}
  <2>1. PICK y \in Callers : overlapped' = overlapped \cup Overlaps(y)
    BY <1>4, OverlapsStep DEF OverlapsNoted
  <2>2. PICK z \in Callers : z # y /\ <<z, task[z]>> \in Overlaps(y) /\ <<y, task[y]>> \in Overlaps(y)
    BY <1>4, <2>1 DEF Overlaps
  <2> QED BY <2>1, <2>2
<1> QED BY <1>2, <1>3, <1>4

(* What is new in the history was done alone: in the file by the only      *)
(* caller there, with its own text, or by a statement of the tables.       *)
LEMMA DoneAlone ==
  ASSUME Inv, [Next]_vars, NEW x \in Callers,
         Commits(x) \/ (Replace(x) /\ tmp # NoOne),
         <<x, task[x]>> \in done', <<x, task[x]>> \notin done, <<x, task[x]>> \notin overlapped'
  PROVE  /\ OnToken(task[x]) => x \in Admins
         /\ Effect(x, task[x], store')
         /\ tmp' = NoOne
         /\ \A y \in Callers : InStep(y)' => ~Json /\ ~OnToken(task[x])
<1> DEFINE k == task[x]
<1> USE DEF OnToken
<1>1. done' # done
  OBVIOUS
<1>2. /\ <<x, k>> \notin overlapped
      /\ \A y \in Callers : InStep(y)' => InStep(y)
  <2>1. ASSUME NEW z \in Callers, Enters(z) PROVE FALSE
    BY <1>1, <2>1 DEF Enters
  <2>2. Stays
    BY <2>1, MovesStep DEF Moves
  <2> QED BY <2>2 DEF Stays
<1>3. OnToken(k) => x \in Admins
  BY <1>1, TokenAssumption DEF Inv, Roles, RoleOf, Callers
<1>4. InStep(x) => \A y \in Callers : InStep(y)' => y = x
  BY <1>1, <1>2 DEF Inv, Apart
<1>5. CASE Replace(x) /\ tmp # NoOne
  <2>1. InStep(x) /\ tmp = view[x] /\ store' = tmp /\ tmp' = NoOne
    BY <1>1, <1>2, <1>5 DEF Replace, InStep, InFile, Inv, Alone
  <2>2. Effect(x, k, view[x])
    BY <1>1, <2>1 DEF Inv, ViewsTell
  <2>3. ~InStep(x)'
    BY <1>5, Outcomes DEF Replace, Proceed, Goto, Inv, TypeOK, InStep, InFile
  <2> QED BY <1>1, <1>3, <1>4, <2>1, <2>2, <2>3
<1>6. CASE SaveToken(x)
  <2>1. /\ InStep(x) /\ task[x] # "auth"
        /\ tmp' = tmp /\ pc' = [pc EXCEPT ![x] = "done"]
    BY <1>1, <1>6 DEF SaveToken, InStep, Goto
  <2>2. /\ ~Json /\ Token(x) \in Tokens
        /\ store'.tokens[Token(x)].known <=> view[x].tokens[Token(x)].known
        /\ store'.tokens[Token(x)].revoked <=> view[x].tokens[Token(x)].revoked
    BY <1>6, SavedIs
  <2>3. OnToken(k)
    <3>1. pc[x] = "save" /\ RoleOf(x, pc[x], task[x])
      BY <1>6 DEF SaveToken, Inv, Roles
    <3> QED BY <1>1, <2>1, <3>1, AdminTokens DEF RoleOf, Callers
  <2>4. Effect(x, k, store')
    BY <1>1, <2>1, <2>2, <2>3 DEF Inv, ViewsTell, Effect
  <2>5. ~InStep(x)'
    BY <2>1 DEF Inv, TypeOK, InStep, InFile
  <2> QED BY <1>1, <1>3, <1>4, <2>1, <2>2, <2>4, <2>5 DEF Inv, Backends
<1>7. CASE RecordEvent(x)
  <2>1. ~Json /\ task[x] \in {"auth", "bind"} /\ Effect(x, task[x], store')
    BY <1>7, RecordedIs
  <2>2. tmp' = NoOne
    BY <1>7, <2>1 DEF RecordEvent, Inv, Backends
  <2> QED BY <1>1, <1>3, <2>1, <2>2
<1> QED BY <1>5, <1>6, <1>7 DEF Commits

(* What was done stays in the store and in all that may become the store.  *)
LEMMA KeptStep == Inv /\ [Next]_vars => Kept'
<1> SUFFICES ASSUME Inv, [Next]_vars, NEW x \in Callers, NEW k \in Tasks,
                    <<x, k>> \in done', <<x, k>> \notin overlapped'
             PROVE  /\ OnToken(k) => x \in Admins
                    /\ store' # Torn => Effect(x, k, store')
                    /\ tmp' \notin {Torn, NoOne} => Effect(x, k, tmp')
                    /\ \A y \in Callers : InStep(y)' /\ (Json' \/ OnToken(k)) => Effect(x, k, view'[y])
  BY DEF Kept, Lasting
<1>0. Json' <=> Json
  BY ConfigStays DEF Json
<1>1. CASE <<x, k>> \notin done
  <2>1. Written /\ done' # done
    BY <1>1, WrittenStep
  <2>2. PICK z \in Callers : /\ done' = done \cup {<<z, task[z]>>}
                             /\ Commits(z) \/ (Replace(z) /\ tmp # NoOne)
    BY <2>1 DEF Written
  <2>3. <<x, k>> = <<z, task[z]>>
    <3>1. <<x, k>> \in done \cup {<<z, task[z]>>}
      BY <2>2
    <3> QED BY <1>1, <3>1
  <2>4. x = z /\ k = task[z]
    BY <2>3
  <2>5. <<z, task[z]>> \in done' /\ <<z, task[z]>> \notin done /\ <<z, task[z]>> \notin overlapped'
    BY <1>1, <2>3
  <2>6. /\ OnToken(task[z]) => z \in Admins
        /\ Effect(z, task[z], store')
        /\ tmp' = NoOne
        /\ \A y \in Callers : InStep(y)' => ~Json /\ ~OnToken(task[z])
    BY <2>2, <2>5, DoneAlone
  <2> QED BY <1>0, <2>4, <2>6
<1>2. CASE <<x, k>> \in done
  <2>1. <<x, k>> \notin overlapped
    BY MovesStep DEF Moves, Stays, Enters
  <2>2. /\ OnToken(k) => x \in Admins
        /\ store # Torn => Effect(x, k, store)
        /\ tmp \notin {Torn, NoOne} => Effect(x, k, tmp)
        /\ \A y \in Callers : InStep(y) /\ (Json \/ OnToken(k)) => Effect(x, k, view[y])
    BY <1>2, <2>1 DEF Inv, Kept, Lasting
  <2>3. \A y \in Callers : InFile(y) => Effect(x, k, view[y])
    BY <2>2 DEF Inv, Backends, InStep
  <2>4. tmp' \notin {Torn, NoOne} => Effect(x, k, tmp')
    BY <2>2, <2>3, WrittenStep DEF Written
  <2>5. store' # Torn => Effect(x, k, store')
    <3>1. ASSUME NEW y \in Callers, SaveToken(y) PROVE Effect(x, k, store')
      <4>1. /\ pc[y] = "save" /\ Token(y) \in Tokens /\ store # Torn
            /\ store'.events = store.events
            /\ \A u \in Tokens : u # Token(y) => store'.tokens[u] = store.tokens[u]
            /\ store'.tokens[Token(y)].known <=> view[y].tokens[Token(y)].known
            /\ store'.tokens[Token(y)].revoked <=> view[y].tokens[Token(y)].revoked
        BY <3>1, SavedIs
      <4>2. CASE OnToken(k)
        <5>1. Effect(x, k, store) /\ Effect(x, k, view[y]) /\ Token(x) \in Tokens
          BY <2>2, <4>1, <4>2, AdminTokens DEF InStep
        <5> QED BY <4>1, <4>2, <5>1 DEF Effect, OnToken
      <4>3. CASE ~OnToken(k)
        BY <2>2, <4>1, <4>3 DEF Effect, OnToken, Tasks
      <4> QED BY <4>2, <4>3
    <3>2. ASSUME NEW y \in Callers, RecordEvent(y) PROVE Effect(x, k, store')
      <4>1. store # Torn /\ store'.tokens = store.tokens /\ store.events \subseteq store'.events
        BY <3>2, RecordedIs
      <4> QED BY <2>2, <4>1 DEF Effect, Tasks
    <3> QED BY <2>2, <2>3, <3>1, <3>2, WrittenStep DEF Written, Commits
  <2>6. ASSUME NEW y \in Callers, InStep(y)', Json \/ OnToken(k) PROVE Effect(x, k, view'[y])
    <3>1. CASE Stays
      BY <2>2, <2>6, <3>1 DEF Stays
    <3>2. ASSUME NEW z \in Callers, Enters(z) PROVE Effect(x, k, view'[y])
      <4>1. CASE y = z
        <5>1. Sound(store, Begun)
          BY <3>2 DEF Enters, Inv, AllSound
        <5>2. Effect(x, k, Updated(z, store))
          BY <2>2, <3>2, <5>1, UpdatedEffects DEF Enters
        <5> QED BY <3>2, <4>1, <5>2 DEF Enters, Inv, TypeOK
      <4>2. CASE y # z
        <5>1. InStep(y) /\ view'[y] = view[y]
          BY <2>6, <3>2, <4>2 DEF Enters, Inv, TypeOK, InStep, InFile
        <5> QED BY <2>2, <2>6, <5>1
      <4> QED BY <4>1, <4>2
    <3> QED BY <3>1, <3>2, MovesStep DEF Moves
  <2> QED BY <1>0, <2>2, <2>4, <2>5, <2>6
<1> QED BY <1>1, <1>2

(* A store that is torn while nobody writes stays torn. *)
LEMMA TornStays ==
  ASSUME Inv, [Next]_vars, Json, TornForGood
  PROVE  TornForGood'
<1>1. \A y \in Callers : ~InStep(y)
  BY DEF TornForGood, InStep, Inv, Backends
<1>2. store' = Torn
  BY WrittenStep, SavedIs, RecordedIs DEF Written, Commits, TornForGood
<1>3. \A y \in Callers : ~InStep(y)'
  BY <1>1, MovesStep DEF Moves, Stays, Enters, TornForGood
<1> QED BY <1>2, <1>3 DEF TornForGood, InStep

(* No failure is forgotten. *)
LEMMA FailedGrows == [Next]_vars => failed \subseteq failed'
BY DEF Next, Step, Settled, Dispatch, Load, OpenTmp, WriteTmp, Replace, ListTokens, GetToken,
       SaveToken, RecordEvent, FileFails, StatementFails, Lapse, ProcessEnds, vars

(* What a step makes a request with a token of the JSON store. *)
ServedOf(x) ==
    /\ task'[x] = "bind" \/ pc'[x] = "served" => <<x, "auth">> \in done'
    /\ pc'[x] = "served" /\ Asks[x].body # "none" =>
         <<x, "bind">> \in done' \cup overlapped' \cup failed' \/ TornForGood'

(* Requests are served as the invariant says. *)
LEMMA ServedStep == Inv /\ [Next]_vars => Served'
<1> SUFFICES ASSUME Inv, [Next]_vars, Json, config.mode = "jwt_ldap",
                    NEW x \in Requests, Token(x) \in Tokens
             PROVE  ServedOf(x)
  BY ConfigStays DEF Served, ServedOf, Json
<1>1. /\ x \in Callers /\ pc \in [Callers -> {"new", "bind", "open", "write", "replace", "get",
                                               "save", "audit"} \cup Final]
      /\ task \in [Callers -> Tasks]
      /\ task[x] \in {"auth", "bind"}
      /\ pc[x] \notin {"get", "save", "audit"}
      /\ pc[x] \in {"new", "open", "write", "replace"} \/ pc[x] \in Final \/ task[x] = "bind"
      /\ Asks[x].credential \notin {"static", "jwt", "none"}
  BY TokenAssumption DEF Inv, TypeOK, Roles, RoleOf, Backends, Callers, Token
<1>2. /\ task[x] = "bind" \/ pc[x] = "served" => <<x, "auth">> \in done
      /\ pc[x] = "served" /\ Asks[x].body # "none" =>
           <<x, "bind">> \in done \cup overlapped \cup failed \/ TornForGood
  BY DEF Inv, Served
<1>3. done \subseteq done' /\ overlapped \subseteq overlapped' /\ failed \subseteq failed'
  BY WrittenStep, OverlapsStep, FailedGrows DEF Written, OverlapsNoted
<1>4. TornForGood => TornForGood'
  BY TornStays
<1>5. CASE task'[x] = task[x] /\ (pc'[x] = "served" => pc[x] = "served")
  BY <1>2, <1>3, <1>4, <1>5 DEF ServedOf
<1>6. CASE Load(x)
  <2>1. ~WithoutStore(x)
    BY <1>1 DEF WithoutStore
  <2>2. CASE store = Torn /\ task[x] = "bind"
    <3>1. overlapped' = overlapped \cup Overlaps(x) /\ store' = Torn /\ task'[x] = "bind"
      BY <1>1, <1>6, <2>2, Outcomes DEF Load, Proceed, Goto
    <3>2. CASE \E y \in Callers \ {x} : InStep(y)
      <4>1. <<x, "bind">> \in Overlaps(x)
        BY <2>2, <3>2 DEF Overlaps
      <4> QED BY <1>2, <1>3, <2>2, <3>1, <4>1 DEF ServedOf
    <3>3. CASE \A y \in Callers \ {x} : ~InStep(y)
      <4>1. Bound(x) \in {"served", "forbidden"} /\ pc' = [pc EXCEPT ![x] = Bound(x)]
        BY <1>1, <1>6, <2>2, Outcomes DEF Load, Proceed, Goto, Raised
      <4>2. TornForGood'
        BY <1>1, <3>1, <3>3, <4>1 DEF TornForGood, InStep, InFile
      <4> QED BY <1>2, <1>3, <2>2, <3>1, <4>2 DEF ServedOf
    <3> QED BY <3>2, <3>3
  <2>3. CASE ~(store = Torn /\ task[x] = "bind")
    <3>1. PICK p \in {"error", "refused", "forbidden", "open"} : Proceed(x, p)
      <4>1. store = Torn => Raised(x) = "error"
        BY <1>1, <2>3, Outcomes
      <4>2. Without(x) \in {"error", "refused", "forbidden"}
        BY <1>1, <2>1, Outcomes
      <4> QED BY <1>6, <4>1, <4>2 DEF Load
    <3>2. task'[x] = task[x] /\ pc'[x] # "served"
      BY <1>1, <3>1 DEF Proceed, Goto
    <3> QED BY <1>5, <3>2
  <2> QED BY <2>2, <2>3
<1>7. CASE Replace(x)
  <2>1. CASE tmp # NoOne
    <3>1. done' = done \cup {<<x, task[x]>>} /\ Proceed(x, Concluded(x))
      BY <1>7, <2>1 DEF Replace
    <3>2. task[x] = "bind" => task'[x] = "bind"
      BY <1>1, <3>1 DEF Proceed
    <3>3. task[x] = "auth" /\ pc'[x] = "served" => Asks[x].body = "none"
      BY <1>1, <3>1, Outcomes DEF Proceed, Goto
    <3> QED BY <1>1, <1>2, <1>3, <3>1, <3>2, <3>3 DEF ServedOf
  <2>2. CASE tmp = NoOne
    <3>1. Proceed(x, Raised(x))
      BY <1>7, <2>2 DEF Replace
    <3>2. task'[x] = task[x] /\ (task[x] = "auth" => pc'[x] # "served")
      BY <1>1, <3>1, Outcomes DEF Proceed, Goto
    <3>3. <<x, task[x]>> \in overlapped
      BY <1>1, <1>7, <2>2, FileAssumption DEF Inv, Alone, TypeOK, Replace
    <3> QED BY <1>1, <1>2, <1>3, <3>2, <3>3 DEF ServedOf
  <2> QED BY <2>1, <2>2
<1>8. CASE FileFails(x)
  <2>1. /\ task'[x] = task[x] /\ <<x, task[x]>> \in failed'
        /\ task[x] = "auth" => pc'[x] # "served"
    BY <1>1, <1>8, Outcomes DEF FileFails, Proceed, Goto
  <2> QED BY <1>1, <1>2, <1>3, <2>1 DEF ServedOf
<1>9. \/ task'[x] = task[x] /\ (pc'[x] = "served" => pc[x] = "served")
      \/ Load(x) \/ Replace(x) \/ FileFails(x)
  <2> DEFINE Same == task'[x] = task[x] /\ (pc'[x] = "served" => pc[x] = "served")
  <2>1. CASE UNCHANGED vars
    BY <2>1 DEF vars
  <2>2. ASSUME NEW y \in Callers, Step(y) \/ FileFails(y) \/ StatementFails(y)
        PROVE  Same \/ Load(x) \/ Replace(x) \/ FileFails(x)
    <3>1. CASE y # x
      <4>1. pc'[x] = pc[x] /\ task'[x] = task[x]
        BY <1>1, <2>2, <3>1 DEF Step, Dispatch, Load, OpenTmp, WriteTmp, Replace, ListTokens, GetToken,
             SaveToken, RecordEvent, FileFails, StatementFails, Goto, Proceed
      <4> QED BY <4>1
    <3>2. CASE y = x
      <4>1. Dispatch(x) => Same
        BY <1>1 DEF Dispatch, Goto, Proceed
      <4>2. OpenTmp(x) \/ WriteTmp(x) => Same
        BY <1>1 DEF OpenTmp, WriteTmp, Goto
      <4>3. ~(ListTokens(x) \/ GetToken(x) \/ RecordEvent(x) \/ StatementFails(x) \/ SaveToken(x))
        BY <1>1 DEF ListTokens, GetToken, SaveToken, RecordEvent, StatementFails, Json
      <4> QED BY <2>2, <3>2, <4>1, <4>2, <4>3 DEF Step
    <3> QED BY <3>1, <3>2
  <2>3. ASSUME NEW t \in Expiring, Lapse(t) PROVE Same
    BY <2>3 DEF Lapse
  <2>4. ASSUME NEW gone \in Processes, ProcessEnds(gone) PROVE Same
    BY <1>1, <2>4 DEF ProcessEnds
  <2> QED BY <2>1, <2>2, <2>3, <2>4 DEF Next, Settled
<1> QED BY <1>5, <1>6, <1>7, <1>8, <1>9

-----------------------------------------------------------------------------
(* The theorems. *)

(* The invariant holds in every state. *)
THEOREM Invariant == Spec => []Inv
<1>1. Inv /\ [Next]_vars => Inv'
  BY TypeStep, RolesStep, BackendsStep, ApartStep, AloneStep, PairStep, SoundStep, MatchStep,
     ViewsStep, KeptStep, ServedStep DEF Inv
<1> QED BY <1>1, InitInv, PTL DEF Spec

(* The file of the tokens keeps its form, for any callers and faults: only *)
(* two that overlap, writers that share the name of the .tmp file, can     *)
(* leave one that no later request can read.                               *)
THEOREM StoreSound == Spec => []StoreIsSound
<1>1. Inv => StoreIsSound
  <2> SUFFICES ASSUME Inv, store = Torn PROVE Cardinality(overlapped) > 1
    BY DEF Inv, StoreIsSound, TornOnlyByOverlap
  <2>1. PICK a, b \in overlapped : a # b
    BY DEF Inv, TornByPair
  <2>2. IsFiniteSet(overlapped)
    <3>1. IsFiniteSet(Callers)
      BY TokenAssumption, FS_Union DEF Callers
    <3>2. IsFiniteSet(Tasks)
      <4>1. IsFiniteSet({"auth"}) /\ IsFiniteSet({"bind"}) /\ IsFiniteSet({"revoke"}) /\ IsFiniteSet({"issue"})
        BY FS_Singleton
      <4>2. Tasks = ({"auth"} \cup {"bind"}) \cup ({"revoke"} \cup {"issue"})
        BY DEF Tasks
      <4> QED BY <4>1, <4>2, FS_Union
    <3>3. IsFiniteSet(Callers \X Tasks)
      BY <3>1, <3>2, FS_Product
    <3> QED BY <3>3, FS_Subset DEF Inv, TypeOK
  <2>3. Cardinality({a, b}) = 2
    <3>1. {a, b} = {a} \cup {b}
      OBVIOUS
    <3>2. IsFiniteSet({a}) /\ Cardinality({a}) = 1
      BY FS_Singleton
    <3>3. Cardinality({a} \cup {b}) = Cardinality({a}) + 1
      BY <2>1, <3>2, FS_AddElement
    <3> QED BY <3>1, <3>2, <3>3
  <2>4. Cardinality({a, b}) <= Cardinality(overlapped)
    BY <2>1, <2>2, FS_Subset
  <2>5. Cardinality(overlapped) \in Nat
    BY <2>2, FS_CardinalityType
  <2> QED BY <2>3, <2>4, <2>5
<1> QED BY <1>1, Invariant, PTL

(* A revocation, an issue or an audit event that returned stays in the     *)
(* store, unless another operation was between its read and its write at   *)
(* the time.                                                               *)
THEOREM LostToOverlap == Spec => []LostOnlyToOverlap
<1>1. Inv => LostOnlyToOverlap
  <2> SUFFICES ASSUME Inv, store # Torn, NEW op \in done \ overlapped PROVE Effect(op[1], op[2], store)
    BY DEF LostOnlyToOverlap
  <2>1. op[1] \in Callers /\ op[2] \in Tasks /\ op = <<op[1], op[2]>>
    BY DEF Inv, TypeOK
  <2> QED BY <2>1 DEF Inv, Kept, Lasting
<1> QED BY <1>1, Invariant, PTL

(* The trail tells what was done, and nothing else: a request that was     *)
(* served left its events unless operations overlapped, or the handler     *)
(* could not write; and every record of a token matches its events.        *)
THEOREM TrailTrue == Spec => []TrailIsTrue
<1>1. Inv => ServedIsOnTrail
  <2> SUFFICES ASSUME Inv, Json, store # Torn, NEW x \in Requests,
                      pc[x] = "served", Token(x) \in Tokens, config.mode = "jwt_ldap"
               PROVE  /\ Effect(x, "auth", store) \/ <<x, "auth">> \in overlapped
                      /\ Asks[x].body # "none" =>
                            Effect(x, "bind", store) \/ <<x, "bind">> \in overlapped \cup failed
    BY DEF ServedIsOnTrail, Json
  <2>1. /\ <<x, "auth">> \in done
        /\ Asks[x].body # "none" => <<x, "bind">> \in done \cup overlapped \cup failed
    BY DEF Inv, Served, TornForGood
  <2>2. \A k \in {"auth", "bind"} : <<x, k>> \in done => Effect(x, k, store) \/ <<x, k>> \in overlapped
    BY DEF Inv, Kept, Lasting, Callers, Tasks
  <2> QED BY <2>1, <2>2
<1>2. Inv => TrailMatchesRecords
  <2> SUFFICES ASSUME Inv, Json, store # Torn, NEW t \in Tokens
               PROVE  /\ store.tokens[t].revoked =
                            \E a \in Admins : Token(a) = t /\ <<a, "revoked">> \in store.events
                      /\ store.tokens[t].lastUsed # NoOne =>
                            <<store.tokens[t].lastUsed, "used">> \in store.events
    BY DEF TrailMatchesRecords, Json
  <2>1. Matches(store) /\ store.tokens[t].revoked \in BOOLEAN
    BY DEF Inv, AllMatch, TypeOK, Payloads, TokenRecords
  <2> QED BY <2>1 DEF Matches
<1> QED BY <1>1, <1>2, Invariant, PTL DEF TrailIsTrue
=============================================================================
