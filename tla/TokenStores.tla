---------------------------- MODULE TokenStores ----------------------------
(***************************************************************************)
(* API tokens and the audit trail: the middleware of the API that resolves *)
(* a bearer token, the request handlers that record the tenant they work   *)
(* for, and an administrator's program that issues and revokes tokens, all *)
(* on one store.  auth.py keeps it in a JSON file, postgres_backend.py in  *)
(* two tables.                                                             *)
(*                                                                         *)
(* A JSON store locks its own instance only.  The handlers of one process  *)
(* share one instance; the middleware makes a new one for each request and *)
(* runs on the event loop, one request at a time; an administrator has one *)
(* of its own.  A handler that cannot write its event goes on without.     *)
(***************************************************************************)
EXTENDS Naturals, FiniteSets

CONSTANTS Requests, Apis,  \* requests, API processes
          Api,             \* the process that serves a request
          Asks,            \* [credential, header, body] of a request; body is "none"
                           \* where the endpoint binds no tenant
          Admins, Chore,   \* administrators, <<"issue" | "revoke", token>>
          Tokens,
          Issued,          \* the tokens stored at the start
          Expiring,        \* the tokens with an expires_at
          MaxFaults,       \* bound on failing statements, failing file operations
                           \* and process ends
          NoOne, Torn

Callers == Requests \cup Admins
Credentials == Tokens \cup {"none", "static", "jwt", "expiredJwt"}

ASSUME TokenAssumption ==
    /\ Requests \cap Admins = {} /\ IsFiniteSet(Requests) /\ IsFiniteSet(Admins)
    /\ Tokens \cap {"none", "static", "jwt", "expiredJwt"} = {}
    /\ Api \in [Requests -> Apis]
    /\ Asks \in [Requests -> [credential: Credentials,
                              header: {"none", "own", "other"},
                              body: {"none", "own", "other"}]]
    /\ Chore \in [Admins -> {"issue", "revoke"} \X Tokens]
    /\ \A a, b \in Admins : Chore[a] = Chore[b] => a = b
    /\ \A a \in Admins : Chore[a][1] = "issue" => Chore[a][2] \notin Issued
    /\ Issued \subseteq Tokens /\ Expiring \subseteq Tokens
    /\ MaxFaults \in Nat
    /\ NoOne \notin Requests

VARIABLES config,      \* the environment: mode, deployed, backend
          store,       \* the payload of the file or of the tables, or Torn
          tmp,         \* the payload of the .tmp file, Torn, or NoOne
          handle,      \* where a caller's open file is now
          pc, task,
          view,        \* the payload a caller read, then the one it will write
          lapsed,      \* tokens past their expires_at
          faults,
          overlapped,  \* history: operations another one was in the middle of
          failed,      \* history: operations with a failed statement or file operation
          done         \* history: operations that ended without an exception

vars == <<config, store, tmp, handle, pc, task, view, lapsed, faults, overlapped, failed, done>>

Tasks == {"auth", "bind", "revoke", "issue"}
EventTypes == {"used", "denied", "resolved", "tenant.denied", "revoked"}
TokenRecords == [known: BOOLEAN, revoked: BOOLEAN, lastUsed: Requests \cup {NoOne}]
Payloads == [tokens: [Tokens -> TokenRecords], events: SUBSET (Callers \X EventTypes)]

ASSUME FileAssumption == Torn \notin Payloads \cup {NoOne} /\ NoOne \notin Payloads

Answers == {"served", "refused", "forbidden", "error"}
Final == Answers \cup {"done", "gone"}
Configs == [mode: {"disabled", "jwt_ldap", "oidc", "other"}, deployed: BOOLEAN,
            backend: {"json", "postgres"}]

TypeOK ==
    /\ config \in Configs
    /\ store \in Payloads \cup {Torn}
    /\ tmp \in Payloads \cup {Torn, NoOne}
    /\ handle \in [Callers -> {"none", "tmp", "path", "unlinked"}]
    /\ pc \in [Callers -> {"new", "bind", "open", "write", "replace", "get", "save", "audit"}
                            \cup Final]
    /\ task \in [Callers -> Tasks]
    /\ view \in [Callers -> Payloads]
    /\ lapsed \subseteq Tokens
    /\ faults \in 0..MaxFaults
    /\ overlapped \subseteq Callers \X Tasks
    /\ failed \subseteq Callers \X Tasks
    /\ done \subseteq Callers \X Tasks

Fresh(known) == [known |-> known, revoked |-> FALSE, lastUsed |-> NoOne]
EmptyPayload == [tokens |-> [t \in Tokens |-> Fresh(FALSE)], events |-> {}]

Init ==
    /\ config \in Configs
    /\ store = [EmptyPayload EXCEPT !.tokens = [t \in Tokens |-> Fresh(t \in Issued)]]
    /\ tmp = NoOne
    /\ handle = [x \in Callers |-> "none"]
    /\ pc = [x \in Callers |-> "new"]
    /\ task = [x \in Callers |-> IF x \in Requests THEN "auth" ELSE Chore[x][1]]
    /\ view = [x \in Callers |-> EmptyPayload]
    /\ lapsed = {} /\ faults = 0 /\ overlapped = {} /\ failed = {} /\ done = {}

-----------------------------------------------------------------------------
(* Who excludes whom. *)

Token(x) == IF x \in Requests THEN Asks[x].credential ELSE Chore[x][2]
InFile(x) == pc[x] \in {"open", "write", "replace"}
InStep(x) == InFile(x) \/ pc[x] = "save"

(* The middleware holds the event loop of its process from the read of the *)
(* store to its verdict.                                                   *)
OnLoop(x) == x \in Requests /\ task[x] = "auth" /\ (InStep(x) \/ pc[x] \in {"get", "audit"})
LoopFree(x) == \A y \in Requests : Api[y] = Api[x] => ~OnLoop(y)

(* DEFAULT_AUDIT_STORE, the instance the handlers of a process share. *)
InstanceFree(x) ==
    \A y \in Requests : Api[y] = Api[x] /\ task[y] = "bind" => ~InFile(y)

Overlaps(x) ==
    LET met == {y \in Callers \ {x} : InStep(y)}
    IN  IF met = {} THEN {} ELSE {<<y, task[y]>> : y \in met \cup {x}}

-----------------------------------------------------------------------------
(* What a request may do, apart from the store. *)

Active(t, payload) ==
    payload.tokens[t].known /\ ~payload.tokens[t].revoked /\ t \notin lapsed

(* A static token or a session JWT: tried when the JSON store knows no     *)
(* active token, never with the Postgres store.                            *)
WithoutStore(x) == config.backend = "json" /\ Asks[x].credential \in {"static", "jwt"}

(* After the principal is known: the tenant of the header, then the        *)
(* handler, which may have no tenant to bind.                              *)
Handled(x) == IF Asks[x].body = "none" THEN "served" ELSE "bind"
AdmittedUnbound(x) == IF Asks[x].header = "other" THEN "forbidden" ELSE "served"
Admitted(x) == IF Asks[x].header = "other" THEN "forbidden" ELSE Handled(x)

(* bind_request_tenant: a principal of an enforced mode works for its own  *)
(* tenant only; in the disabled mode the caller's choice is taken.         *)
TenantRefused(x) == config.mode # "disabled" /\ Asks[x].body = "other"
BindEvent(x) == IF TenantRefused(x) THEN "tenant.denied" ELSE "resolved"
Bound(x) == IF TenantRefused(x) THEN "forbidden" ELSE "served"

Goto(x, p) == pc' = [pc EXCEPT ![x] = p]

(* A caller whose operation has ended: with the handler as its next task,  *)
(* with its answer, or with its chore done.                                *)
Proceed(x, p) ==
    /\ Goto(x, p)
    /\ task' = [task EXCEPT ![x] = IF p = "bind" THEN "bind" ELSE @]

(* Requests that dispatch answers or admits without any store. *)
Dispatch(x) ==
    /\ pc[x] = "new" /\ x \in Requests /\ LoopFree(x)
    /\ \/ /\ config.mode = "disabled"
          /\ Proceed(x, IF config.deployed THEN "error" ELSE Handled(x))
       \/ /\ config.mode \in {"oidc", "other"}
          /\ Proceed(x, "error")
       \/ /\ config.mode = "jwt_ldap" /\ Asks[x].credential = "none"
          /\ Proceed(x, "refused")
    /\ UNCHANGED <<config, store, tmp, handle, view, lapsed, faults, overlapped, failed, done>>

-----------------------------------------------------------------------------
(* The JSON store. *)

WithThisOnly(payload, x, event) == [payload EXCEPT !.events = {<<x, event>>}]
With(payload, x, event) == [payload EXCEPT !.events = @ \cup {<<x, event>>}]

(* The payload an operation writes back, from the one it read. *)
Updated(x, p) ==
    LET t == Token(x)
    IN  CASE task[x] = "auth" ->
                IF Active(t, p) THEN With([p EXCEPT !.tokens[t].lastUsed = x], x, "used")
                ELSE With(p, x, "denied")
          [] task[x] = "bind"   -> With(p, x, BindEvent(x))
          [] task[x] = "revoke" -> With([p EXCEPT !.tokens[t].revoked = TRUE], x, "revoked")
          [] task[x] = "issue"  -> [p EXCEPT !.tokens[t] = Fresh(TRUE)]

(* An operation that finds no record for its token writes nothing. *)
Unknown(x, p) ==
    /\ task[x] \in {"auth", "revoke"}
    /\ Token(x) \in Tokens => ~p.tokens[Token(x)].known

Without(x) == IF task[x] = "revoke" THEN "error"
              ELSE IF WithoutStore(x) THEN Admitted(x) ELSE "refused"

(* An exception: a 500 from the middleware, nothing at all in a handler. *)
Raised(x) == IF task[x] = "bind" THEN Bound(x) ELSE "error"

(* The end of a write: the verdict was taken from what was read. *)
Concluded(x) ==
    CASE task[x] = "auth" -> IF <<x, "used">> \in view[x].events THEN Admitted(x) ELSE "refused"
      [] task[x] = "bind" -> Bound(x)
      [] OTHER            -> "done"

AtStart(x) == \/ pc[x] = "new" /\ x \in Admins
              \/ pc[x] = "new" /\ x \in Requests /\ config.mode = "jwt_ldap"
                    /\ Asks[x].credential # "none" /\ LoopFree(x)
              \/ pc[x] = "bind" /\ InstanceFree(x)

Load(x) ==
    /\ config.backend = "json" /\ AtStart(x)
    /\ overlapped' = overlapped \cup Overlaps(x)
    /\ \/ /\ store = Torn
          /\ Proceed(x, Raised(x))
          /\ UNCHANGED view
       \/ /\ store # Torn /\ Unknown(x, store)
          /\ Proceed(x, Without(x))
          /\ UNCHANGED view
       \/ /\ store # Torn /\ ~Unknown(x, store)
          /\ view' = [view EXCEPT ![x] = Updated(x, store)]
          /\ Proceed(x, "open")
    /\ UNCHANGED <<config, store, tmp, handle, lapsed, faults, failed, done>>

OpenInPlace(x) ==
    /\ pc[x] = "open"
    /\ store' = Torn /\ tmp' = Torn
    /\ handle' = [handle EXCEPT ![x] = "path"]
    /\ Goto(x, "write")
    /\ UNCHANGED <<config, task, view, lapsed, faults, overlapped, failed, done>>

(* write_text opens the .tmp file, which empties it ... *)
OpenTmp(x) ==
    /\ pc[x] = "open"
    /\ tmp' = Torn
    /\ handle' = [handle EXCEPT ![x] = "tmp"]
    /\ Goto(x, "write")
    /\ UNCHANGED <<config, store, task, view, lapsed, faults, overlapped, failed, done>>

(* ... and writes to whatever that file is by now.  Over a longer text of  *)
(* another writer it leaves that text's tail.                              *)
Overlay(old, new) == IF old = Torn THEN {new} ELSE {new, Torn}

WriteTmp(x) ==
    /\ pc[x] = "write"
    /\ \/ /\ handle[x] = "tmp"
          /\ tmp' \in Overlay(tmp, view[x])
          /\ UNCHANGED store
       \/ /\ handle[x] = "path"
          /\ store' \in Overlay(store, view[x])
          /\ UNCHANGED tmp
       \/ /\ handle[x] = "unlinked"
          /\ UNCHANGED <<store, tmp>>
    /\ handle' = [handle EXCEPT ![x] = "none"]
    /\ Goto(x, "replace")
    /\ UNCHANGED <<config, task, view, lapsed, faults, overlapped, failed, done>>

(* The rename: files that others hold open move along with their names. *)
Moved == [y \in Callers |-> CASE handle[y] = "tmp"  -> "path"
                              [] handle[y] = "path" -> "unlinked"
                              [] OTHER              -> handle[y]]

Replace(x) ==
    /\ pc[x] = "replace"
    /\ \/ /\ tmp # NoOne
          /\ store' = tmp /\ tmp' = NoOne
          /\ handle' = Moved
          /\ done' = done \cup {<<x, task[x]>>}
          /\ Proceed(x, Concluded(x))
       \/ /\ tmp = NoOne  \* FileNotFoundError
          /\ Proceed(x, Raised(x))
          /\ UNCHANGED <<store, tmp, handle, done>>
    /\ view' = [view EXCEPT ![x] = EmptyPayload]
    /\ UNCHANGED <<config, lapsed, faults, overlapped, failed>>

(* The file cannot be read, opened, written in full or renamed.  A handler *)
(* passes over the OSError as over any other; what got to the disk by then *)
(* stays there.                                                            *)
PartOf(old, new) == {old, new, Torn}

FileFails(x) ==
    /\ config.backend = "json" /\ faults < MaxFaults
    /\ AtStart(x) \/ InFile(x)
    /\ Proceed(x, Raised(x))
    /\ IF pc[x] = "write" /\ handle[x] = "tmp" THEN tmp' \in PartOf(tmp, view[x]) ELSE tmp' = tmp
    /\ IF pc[x] = "write" /\ handle[x] = "path" THEN store' \in PartOf(store, view[x])
       ELSE store' = store
    /\ handle' = [handle EXCEPT ![x] = "none"]
    /\ view' = [view EXCEPT ![x] = EmptyPayload]
    /\ faults' = faults + 1
    /\ failed' = failed \cup {<<x, task[x]>>}
    /\ UNCHANGED <<config, lapsed, overlapped, done>>

-----------------------------------------------------------------------------
(* The Postgres store: every statement is a transaction of its own. *)

(* TokenStore.list and principal_from_api_token. *)
ListTokens(x) ==
    /\ config.backend = "postgres" /\ x \in Requests /\ pc[x] = "new" /\ AtStart(x)
    /\ Goto(x, IF Token(x) \in Tokens /\ Active(Token(x), store) THEN "get" ELSE "refused")
    /\ UNCHANGED <<config, store, tmp, handle, task, view, lapsed, faults, overlapped, failed, done>>

GetToken(x) ==
    /\ config.backend = "postgres"
    /\ \/ pc[x] = "get"
       \/ pc[x] = "new" /\ x \in Admins
    /\ IF task[x] = "revoke" /\ ~store.tokens[Token(x)].known
       THEN /\ Goto(x, "error")
            /\ UNCHANGED <<view, overlapped>>
       ELSE /\ view' = [view EXCEPT ![x] = Updated(x, store)]
            /\ overlapped' = overlapped \cup Overlaps(x)
            /\ Goto(x, "save")
    /\ UNCHANGED <<config, store, tmp, handle, task, lapsed, faults, failed, done>>

(* The upsert sets every column.  The middleware writes back the record it *)
(* has read, with last_used_at changed; an administrator is done with it.  *)
SaveToken(x) ==
    /\ pc[x] = "save"
    /\ LET record == view[x].tokens[Token(x)]
       IN store' = [store EXCEPT !.tokens[Token(x)] =
              IF task[x] = "auth" THEN [record EXCEPT !.lastUsed = x] ELSE record]
    /\ Goto(x, IF task[x] = "auth" THEN "audit" ELSE "done")
    /\ done' = IF task[x] = "auth" THEN done ELSE done \cup {<<x, task[x]>>}
    /\ view' = [view EXCEPT ![x] = EmptyPayload]
    /\ UNCHANGED <<config, tmp, handle, task, lapsed, faults, overlapped, failed>>

RecordEvent(x) ==
    /\ config.backend = "postgres"
    /\ \/ pc[x] = "audit" /\ store' = With(store, x, "used") /\ Proceed(x, Admitted(x))
       \/ pc[x] = "bind" /\ store' = With(store, x, BindEvent(x)) /\ Proceed(x, Bound(x))
    /\ done' = done \cup {<<x, task[x]>>}
    /\ UNCHANGED <<config, tmp, handle, view, lapsed, faults, overlapped, failed>>

(* A statement fails: the list makes the API answer 503, a failure of the  *)
(* bookkeeping is passed over, an administrator sees the exception.        *)
StatementFails(x) ==
    /\ config.backend = "postgres" /\ faults < MaxFaults
    /\ \/ pc[x] = "new" /\ AtStart(x) /\ Proceed(x, "error")
       \/ pc[x] \in {"get", "save"} /\ Proceed(x, IF task[x] = "auth" THEN "audit" ELSE "error")
       \/ pc[x] = "audit" /\ Proceed(x, Admitted(x))
       \/ pc[x] = "bind" /\ Proceed(x, Bound(x))
    /\ faults' = faults + 1
    /\ failed' = failed \cup {<<x, task[x]>>}
    /\ view' = [view EXCEPT ![x] = EmptyPayload]
    /\ UNCHANGED <<config, store, tmp, handle, lapsed, overlapped, done>>

-----------------------------------------------------------------------------
Lapse(t) ==
    /\ t \notin lapsed
    /\ lapsed' = lapsed \cup {t}
    /\ UNCHANGED <<config, store, tmp, handle, pc, task, view, faults, overlapped, failed, done>>

(* A process ends: its threads, locks and open files go, the disk stays. *)
ProcessEnds(gone) ==
    /\ faults < MaxFaults
    /\ \E x \in gone : pc[x] \notin Final \cup {"new"}
    /\ pc' = [x \in Callers |-> IF x \in gone /\ pc[x] \notin Final THEN "gone" ELSE pc[x]]
    /\ handle' = [x \in Callers |-> IF x \in gone THEN "none" ELSE handle[x]]
    /\ view' = [x \in Callers |-> IF x \in gone THEN EmptyPayload ELSE view[x]]
    /\ faults' = faults + 1
    /\ UNCHANGED <<config, store, tmp, task, lapsed, overlapped, failed, done>>

Processes == {{x \in Requests : Api[x] = p} : p \in Apis} \cup {{a} : a \in Admins}

Step(x) == \/ Dispatch(x) \/ Load(x) \/ OpenTmp(x) \/ WriteTmp(x) \/ Replace(x)
           \/ ListTokens(x) \/ GetToken(x) \/ SaveToken(x) \/ RecordEvent(x)

(* Every caller has its answer: the service waits for requests. *)
Settled == (\A x \in Callers : pc[x] \in Final) /\ UNCHANGED vars

Next == \/ Settled
        \/ \E x \in Callers : Step(x) \/ FileFails(x) \/ StatementFails(x)
        \/ \E t \in Expiring : Lapse(t)
        \/ \E gone \in Processes : ProcessEnds(gone)

Spec == Init /\ [][Next]_vars

-----------------------------------------------------------------------------
Effect(x, k, payload) ==
    LET Event(e) == <<x, e>> \in payload.events
    IN  CASE k = "auth"   -> Event("used") \/ Event("denied")
          [] k = "bind"   -> Event("resolved") \/ Event("tenant.denied")
          [] k = "revoke" -> payload.tokens[Token(x)].revoked
          [] k = "issue"  -> payload.tokens[Token(x)].known

(* An operation that returned is in the store for good, a revocation and   *)
(* an audit event alike, unless another operation was between its own read *)
(* and its own write at the time.                                          *)
LostOnlyToOverlap ==
    store # Torn =>
        \A op \in done \ overlapped : Effect(op[1], op[2], store)

(* With the JSON store, a request that was served under one of its tokens  *)
(* has left the use of the token on the trail, and the tenant it works for *)
(* where its endpoint binds one: through failures of other operations and  *)
(* the end of any process.  A use is missing only where operations         *)
(* overlapped; of the tenant, which the handler cannot insist on, its own  *)
(* file operation may have failed as well.                                 *)
ServedIsOnTrail ==
    config.backend = "json" /\ config.mode = "jwt_ldap" /\ store # Torn =>
        \A x \in Requests :
            pc[x] = "served" /\ Token(x) \in Tokens =>
                /\ Effect(x, "auth", store) \/ <<x, "auth">> \in overlapped
                /\ Asks[x].body # "none" =>
                      Effect(x, "bind", store) \/ <<x, "bind">> \in overlapped \cup failed

(* One write carries a token's record and its event.  So the JSON file,    *)
(* whichever updates it lost, never shows a token revoked or used without  *)
(* the event that says so, nor the other way round a revocation's event    *)
(* with the token still active.                                            *)
TrailMatchesRecords ==
    config.backend = "json" /\ store # Torn =>
        /\ \A t \in Tokens :
              /\ store.tokens[t].revoked =
                    \E a \in Admins : Token(a) = t /\ <<a, "revoked">> \in store.events
              /\ store.tokens[t].lastUsed # NoOne =>
                    <<store.tokens[t].lastUsed, "used">> \in store.events

(* The rename keeps the file whole through the end of any process and any  *)
(* failing operation: only writers of two instances that share the name of *)
(* the .tmp file can leave a file that no later request can read.          *)
TornOnlyByOverlap == store = Torn => Cardinality(overlapped) > 1

(* The variables keep their types and the file its form. *)
StoreIsSound == TypeOK /\ TornOnlyByOverlap

(* The trail tells what was done, and nothing else.  *)
TrailIsTrue == ServedIsOnTrail /\ TrailMatchesRecords
=============================================================================
