---------------------------- MODULE ModelBundles ----------------------------
(***************************************************************************)
(* The directories of the CTranslate2 models and the registry of their     *)
(* validations (model_registry.py, provenance.py, stores.py).  Operators   *)
(* change a directory file by file; a validation reads it file by file and *)
(* stores what it found, under any id; the engines read it again when they *)
(* translate.                                                              *)
(***************************************************************************)
EXTENDS Naturals, FiniteSets

CONSTANTS Models,           \* the engines, each with a directory of its own
          Ids,              \* what a validation may call a model
          Validators,       \* requests to POST /models/validate
          InitialBundles,   \* what the directories may hold at first
          MaxFileChanges    \* bound on changes to the directories

(* provenance.json: not there; not to be read, or not UTF-8; not JSON,     *)
(* short of a base field or with digests that are none; without the        *)
(* supply-chain fields; with them.                                         *)
Provenances == {"none", "unreadable", "unusable", "base", "full"}
NoDirectory == [dir |-> FALSE, tokenizers |-> FALSE, provenance |-> "none"]
Bundles == [dir: {TRUE}, tokenizers: BOOLEAN, provenance: Provenances] \cup {NoDirectory}

ASSUME ModelAssumption ==
    /\ Models # {} /\ "none" \notin Models /\ Ids # {}
    /\ InitialBundles \subseteq [Models -> Bundles]
    /\ MaxFileChanges \in Nat

VARIABLES bundles,   \* the directory of each model
          changes,   \* number of changes made to them
          checks,    \* what each validation has found so far
          registry   \* the status stored under each id

modelVars == <<bundles, changes, checks, registry>>

(* "fresh" is history: the directory did not change since the validation   *)
(* began.                                                                  *)
NoStatus == [path |-> "none", valid |-> FALSE, approved |-> FALSE, fresh |-> FALSE]
Statuses == [path: Models \cup {"none"}, valid: BOOLEAN, approved: BOOLEAN, fresh: BOOLEAN]
Checks == [at: {"idle", "tokenizers", "provenance", "save", "done"}, id: Ids, path: Models,
           enforce: BOOLEAN, errors: BOOLEAN, fresh: BOOLEAN]

Blank(place) == [at |-> place, id |-> CHOOSE i \in Ids : TRUE, path |-> CHOOSE m \in Models : TRUE,
                 enforce |-> FALSE, errors |-> FALSE, fresh |-> FALSE]

ModelsTypeOK ==
    /\ bundles \in [Models -> Bundles]
    /\ changes \in 0..MaxFileChanges
    /\ checks \in [Validators -> Checks]
    /\ registry \in [Ids -> Statuses]

ModelsInit ==
    /\ bundles \in InitialBundles
    /\ changes = 0
    /\ checks = [v \in Validators |-> Blank("idle")]
    /\ registry = [i \in Ids |-> NoStatus]

-----------------------------------------------------------------------------
(* An operator makes or removes a directory, or changes one file in it.    *)
Edited(b) ==
    IF ~b.dir THEN {[b EXCEPT !.dir = TRUE]}
    ELSE {NoDirectory, [b EXCEPT !.tokenizers = ~@]}
           \cup {[b EXCEPT !.provenance = p] : p \in Provenances \ {b.provenance}}

ChangeFiles(m) ==
    /\ changes < MaxFileChanges
    /\ changes' = changes + 1
    /\ \E b \in Edited(bundles[m]) : bundles' = [bundles EXCEPT ![m] = b]
    /\ checks' = [v \in Validators |-> [checks[v] EXCEPT !.fresh = @ /\ checks[v].path # m]]
    /\ registry' = [i \in Ids |-> [registry[i] EXCEPT !.fresh = @ /\ registry[i].path # m]]

-----------------------------------------------------------------------------
(* load_model_provenance_from_dir with allow_unloaded_weights=False, its   *)
(* default, finds no fault.                                                *)
Loadable(provenance, enforce) == provenance = "full" \/ (provenance = "base" /\ ~enforce)

At(v, place) == checks[v].at = place
Bundle(v) == bundles[checks[v].path]

Found(v, next, fault) ==
    checks' = [checks EXCEPT ![v].at = next, ![v].errors = @ \/ fault]

(* The request names a directory and the id to store the status under.     *)
Validate(v, m) ==
    /\ At(v, "idle")
    /\ \E enforce \in BOOLEAN, id \in Ids :
         checks' = [checks EXCEPT ![v] =
            [at |-> IF bundles[m].dir THEN "tokenizers" ELSE "save", id |-> id, path |-> m,
             enforce |-> enforce, errors |-> ~bundles[m].dir, fresh |-> TRUE]]
    /\ UNCHANGED <<bundles, changes, registry>>

CheckTokenizers(v) ==
    /\ At(v, "tokenizers") /\ Found(v, "provenance", ~Bundle(v).tokenizers)
    /\ UNCHANGED <<bundles, changes, registry>>

(* What the reading raises, but for a file that is missing or refused,     *)
(* ends the validation without a status.                                   *)
CheckProvenance(v) ==
    /\ At(v, "provenance")
    /\ IF Bundle(v).provenance = "unreadable" THEN checks' = [checks EXCEPT ![v] = Blank("done")]
       ELSE Found(v, "save", ~Loadable(Bundle(v).provenance, checks[v].enforce))
    /\ UNCHANGED <<bundles, changes, registry>>

StatusOfAny(c) == [path |-> c.path, valid |-> ~c.errors, approved |-> ~c.errors, fresh |-> c.fresh]
StatusOf(c) == [path |-> c.path, valid |-> ~c.errors, approved |-> ~c.errors /\ c.enforce,
                fresh |-> c.fresh]

(* The last validation to store its status decides, not the last to begin. *)
SaveStatus(v) ==
    /\ At(v, "save")
    /\ registry' = [registry EXCEPT ![checks[v].id] = StatusOf(checks[v])]
    /\ checks' = [checks EXCEPT ![v] = Blank("done")]
    /\ UNCHANGED <<bundles, changes>>

ModelsNext ==
    \/ \E m \in Models : ChangeFiles(m)
    \/ \E v \in Validators :
         \/ \E m \in Models : Validate(v, m)
         \/ CheckTokenizers(v) \/ CheckProvenance(v) \/ SaveStatus(v)
=============================================================================
