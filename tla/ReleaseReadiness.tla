-------------------------- MODULE ReleaseReadiness --------------------------
(***************************************************************************)
(* The release-readiness report (release_readiness.py and the commands     *)
(* readiness-check and readiness-run of cli.py).  A reviewer turns what    *)
(* the live checks reported (LiveProviders) into a live-smoke artifact;    *)
(* operators write and withdraw evidence; a command reads every file one   *)
(* after the other, readiness-run --out reads them all a second time for   *)
(* the manifest, and the production evidence a third time.                 *)
(***************************************************************************)
EXTENDS LiveProviders, FiniteSets

CONSTANTS Requirements,    \* PRODUCTION_EVIDENCE_REQUIREMENTS, in their order
          InitialFiles,    \* what the files may be at first
          Rewrites, MaxRewrites  \* what they may become, and how often

Artifacts == {"local", "product", "live"}
Items == ToSet(Requirements) \cup Artifacts \cup {"manual"}

(* A file that is not named by its variable or option; that is not there;  *)
(* that is not UTF-8; not JSON; JSON that is no object; an object that is  *)
(* rejected; one that is not (the live-smoke artifact: as to its frame).   *)
Forms == {"unset", "absent", "undecodable", "broken", "misshapen", "rejected", "valid"}

ASSUME ReadinessAssumption ==
    /\ Requirements \in Seq(STRING) /\ Requirements # <<>> /\ IsInjective(Requirements)
    /\ ToSet(Requirements) \cap (Artifacts \cup {"manual", "product_e2e"}) = {}
    /\ InitialFiles \subseteq [Items -> Forms]
    /\ Rewrites \subseteq Forms \ {"unset"} /\ MaxRewrites \in Nat

VARIABLES files,      \* the form of each file
          evidence,   \* the smoke result and runtime in the live-smoke artifact
          rewrites,
          run,        \* the command under way: [at, command, opened, read]
          report,     \* what it printed and wrote
          passed,     \* history: items that passed at some time of the command
          changed     \* history: a file changed since the command began

fileVars == <<files, evidence, rewrites>>
runVars == <<run, report, passed, changed>>
vars == <<liveVars, fileVars, runVars>>

-----------------------------------------------------------------------------
(* _live_smoke_artifact_invalid_reason, _local_runtime_smoke_invalid_reason *)
SmokeAccepted(e) ==
    /\ e.smoke.success
    /\ e.smoke.provider = Local =>
          /\ e.smoke.model # MockModel
          /\ e.runtime.done /\ e.approved /\ ~e.runtime.mock /\ e.runtime.gpus > 0

Passes(item) ==
    CASE item = "manual" -> files[item] \notin {"unset", "absent"}
      [] item = "live"   -> files[item] = "valid" /\ SmokeAccepted(evidence)
      [] OTHER           -> files[item] = "valid"

(* Reading it ends the command with an exception that nobody catches. *)
Raises(item) ==
    \/ files[item] \in {"absent", "undecodable"}
    \/ files[item] = "misshapen" /\ item \in Artifacts

Rubric == <<"live">> \o Requirements \o <<"local", "product", "manual">>
ReadingsOf(command) ==
    CASE command = "check"    -> Requirements
      [] command = "run"      -> Rubric
      [] command = "manifest" -> Rubric \o Rubric \o Requirements

(* What one pass over the files found: [Items -> BOOLEAN] from the         *)
(* verdicts, read from position "from" on.                                 *)
Found(names, verdicts, from) ==
    [item \in ToSet(names) |-> verdicts[from + CHOOSE i \in DOMAIN names : names[i] = item]]

NoReport == [done |-> FALSE]
Commands == {"check", "run", "manifest"}

TypeOK ==
    /\ files \in [Items -> Forms] /\ rewrites \in 0..MaxRewrites
    /\ evidence \in [smoke : Results, runtime : Probes, approved : BOOLEAN]
    /\ run \in {Idle, Raised} \cup
              [at : {"reading"}, command : Commands, opened : BOOLEAN, read : Seq(BOOLEAN)]
    /\ run.at = "reading" => Len(run.read) <= Len(ReadingsOf(run.command))
    /\ passed \subseteq Items /\ changed \in BOOLEAN

NoEvidence == [smoke |-> Result("unknown", FALSE, env, FALSE), runtime |-> NoProbe, approved |-> FALSE]

(* A live smoke of a cloud provider needs no runtime to be accepted. *)
CloudEvidence ==
    [NoEvidence EXCEPT !.smoke =
        [Result("openrouter_llm", TRUE, env, TRUE) EXCEPT
            !.enabled = TRUE, !.success = TRUE, !.model = CHOOSE m \in Models : TRUE]]

Init ==
    /\ LiveInit
    /\ files \in InitialFiles /\ rewrites = 0
    /\ evidence = IF files["live"] = "valid" THEN CloudEvidence ELSE NoEvidence
    /\ run = Idle /\ report = NoReport
    /\ passed = {} /\ changed = FALSE

-----------------------------------------------------------------------------
(* What a file is becomes part of what it was during the command. *)
Notice == /\ passed' = passed \cup {item \in Items : Passes(item)'}
          /\ changed' = TRUE

(* An operator writes a file anew, or withdraws it. *)
Rewrite(item) ==
    /\ rewrites < MaxRewrites /\ files[item] # "unset"
    /\ \E form \in Rewrites \ {files[item]} : files' = [files EXCEPT ![item] = form]
    /\ rewrites' = rewrites + 1
    /\ UNCHANGED <<liveVars, evidence, run, report>>
    /\ Notice

(* A reviewer records a result of the last live check, with the last       *)
(* runtime probe, and says whether the runtime is approved.                *)
Record ==
    /\ op.at = "idle" /\ rewrites < MaxRewrites /\ files["live"] # "unset"
    /\ \E i \in DOMAIN results, approved \in BOOLEAN :
         evidence' = [smoke |-> results[i], runtime |-> probe, approved |-> approved]
    /\ files' = [files EXCEPT !["live"] = "valid"]
    /\ rewrites' = rewrites + 1
    /\ UNCHANGED <<liveVars, run, report>>
    /\ Notice

-----------------------------------------------------------------------------
Start(command) ==
    /\ run.at # "reading"
    /\ run' = [at |-> "reading", command |-> command, opened |-> FALSE, read |-> <<>>]
    /\ report' = NoReport
    /\ passed' = {item \in Items : Passes(item)} /\ changed' = FALSE
    /\ UNCHANGED <<liveVars, fileVars>>

Reading == run.at = "reading" /\ Len(run.read) < Len(ReadingsOf(run.command))
Item == ReadingsOf(run.command)[Len(run.read) + 1]

Verdict(passes) == run' = [run EXCEPT !.opened = FALSE, !.read = Append(@, passes)]

(* is_file; for the manual review it is all that counts. *)
Look ==
    /\ Reading /\ ~run.opened
    /\ IF files[Item] \in {"unset", "absent"} THEN Verdict(FALSE)
       ELSE IF Item = "manual" THEN Verdict(TRUE)
       ELSE run' = [run EXCEPT !.opened = TRUE]
    /\ UNCHANGED <<liveVars, fileVars, report, passed, changed>>

(* read_text and what follows; the file may be gone since Look. *)
Read ==
    /\ Reading /\ run.opened
    /\ IF Raises(Item) THEN run' = Raised ELSE Verdict(Passes(Item))
    /\ UNCHANGED <<liveVars, fileVars, report, passed, changed>>

(* release_readiness_rubric_status *)
LocalScore(found) == IF found["local"] THEN 100 ELSE 0
ProductScoreEither(found) == IF found["product"] \/ found["live"] THEN 100 ELSE 0
ProductScore(found) == (IF found["product"] THEN 50 ELSE 0) + (IF found["live"] THEN 50 ELSE 0)
ProductionScore(found) == IF \A r \in ToSet(Requirements) : found[r] THEN 100 ELSE 0

Score(found) ==
    LET least     == Min({LocalScore(found), ProductScore(found), ProductionScore(found)})
        claimable == least = 100 /\ found["manual"]
    IN  [claimable |-> claimable,
         total     |-> IF claimable THEN least ELSE Min({least, 99}),
         blockers  |-> {r \in ToSet(Requirements) \cup {"local", "manual"} : ~found[r]}
                         \cup (IF ProductScore(found) < 100 THEN {"product_e2e"} ELSE {})]

(* release_readiness_manifest *)
ManifestOfProduction(found, requirements) ==
    [claimable |-> \A r \in DOMAIN requirements : requirements[r], blockers |-> Score(found).blockers,
     requirements |-> requirements, local |-> found["local"],
     product |-> found["product"], live |-> found["live"]]
Manifest(found, requirements) ==
    [claimable |-> Score(found).claimable, blockers |-> Score(found).blockers,
     requirements |-> requirements, local |-> found["local"],
     product |-> found["product"], live |-> found["live"]]

(* The manifest is written before the rubric is printed; the exit status   *)
(* says whether 100 is claimed, or all production evidence passed.         *)
Finish ==
    /\ run.at = "reading" /\ Len(run.read) = Len(ReadingsOf(run.command))
    /\ report' =
         IF run.command = "check"
         THEN [done |-> TRUE, command |-> "check", exit |-> IF \A i \in DOMAIN run.read : run.read[i] THEN 0 ELSE 1]
         ELSE LET first  == Found(Rubric, run.read, 0)
                  second == Found(Rubric, run.read, Len(Rubric))
                  third  == Found(Requirements, run.read, 2 * Len(Rubric))
              IN  [done |-> TRUE, command |-> run.command, rubric |-> Score(first),
                   exit |-> IF Score(first).claimable THEN 0 ELSE 1,
                   manifest |-> IF run.command = "run" THEN "none" ELSE Manifest(second, third)]
    /\ run' = Idle
    /\ UNCHANGED <<liveVars, fileVars, passed, changed>>

Live == LiveNext /\ UNCHANGED <<fileVars, runVars>>

Next ==
    \/ Live
    \/ \E item \in Items : Rewrite(item)
    \/ Record
    \/ \E command \in Commands : Start(command)
    \/ Look \/ Read \/ Finish

Spec == Init /\ [][Next]_vars

-----------------------------------------------------------------------------
Claims == report.done /\ report.command # "check"

(* A claim of 100 rests on every file: each one passed at some time of the *)
(* command, all of them at once if no file changed meanwhile.  The total,  *)
(* the blockers and the exit status never say otherwise than the claim; a  *)
(* successful check means the same of the production evidence.  (Asked     *)
(* together with the types.)                                               *)
ClaimIsBacked ==
    /\ TypeOK
    /\ Claims =>
          /\ report.rubric.claimable => passed = Items
          /\ ~changed => report.rubric.claimable = (\A item \in Items : Passes(item))
          /\ report.rubric.claimable = (report.rubric.total = 100)
          /\ report.rubric.claimable = (report.rubric.blockers = {})
    /\ report.done /\ report.exit = 0 => ToSet(Requirements) \subseteq passed

(* The manifest is made of a second and a third reading.  It agrees with   *)
(* itself and with the printed rubric unless a file changed during the     *)
(* command, and claims nothing that no reading found.                      *)
ManifestAgrees ==
    Claims /\ report.command = "manifest" =>
        LET m == report.manifest
        IN  /\ m.claimable => passed = Items /\ m.local /\ m.product /\ m.live
            /\ m.claimable /\ ~(\A r \in ToSet(Requirements) : m.requirements[r]) => changed
            /\ m.claimable # report.rubric.claimable => changed
            /\ \A r \in ToSet(Requirements) : m.requirements[r] = (r \in m.blockers) => changed

(* The mock endpoint is not accepted as evidence of a local runtime, in    *)
(* whatever order the live checks ran: only if the environment changed     *)
(* between smoke and probe, or if the endpoint hides behind a URL without  *)
(* "mock" and the configured ids do not name its model.                    *)
MockNeverCounts ==
    LET smoke == evidence.smoke
    IN  SmokeAccepted(evidence) /\ smoke.provider = Local /\ IsMock(smoke.env) =>
          \/ smoke.env # evidence.runtime.env
          \/ smoke.env.url = "unnamed" /\ MockModel \notin ToSet(smoke.env.local)
=============================================================================
