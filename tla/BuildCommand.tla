---------------------------- MODULE BuildCommand ----------------------------
(***************************************************************************)
(* build_command of main.py on a blueprint that is neither block DSL (see  *)
(* DslBuild) nor a scaffold (Scaffold): its stages in order, which of them *)
(* may fail in silence, and the exit code.  The sources it ingests may be  *)
(* edited meanwhile, the command may be killed and given again.            *)
(*                                                                         *)
(* blueprint_config.json is read anew at every stage, so whether a stage   *)
(* is configured is open at each of them; HPC, runtime and validation      *)
(* settings come from the blueprint read at the beginning.                 *)
(***************************************************************************)
EXTENDS ContextIngest, Validator

CONSTANTS
  Suites,    \* what the validation command may print
  MaxBuilds, \* bound: commands given
  MaxEdits   \* bound: edits of external files

VARIABLES
  stage,     \* of the command that runs, or "idle"
  only,      \* --validation-only
  exit,      \* of the last command: "none", an exit code or "raised"
  built,     \* what the build saw in the workspace, if there was one
  trusted,   \* the scheduler said COMPLETED since nobody answered
  suite,     \* what the suite printed, if it ran
  gatekeeper,\* validation_required
  changed,   \* the workspace was written to since the suite ran
  edited,    \* an external file was edited since the command was given
  builds, edits

command == <<only, exit, built, trusted, suite, gatekeeper, changed>>
vars    == <<ingest_vars, stage, command, edited, builds, edits>>

Workspace == [d \in Dests |-> Content(d)]
Goto(next) == stage' = next
\* A stage that leaves files in the workspace, or skips or fails halfway: the
\* command goes on in any case.
Leaves == changed' \in {changed, TRUE}

Init ==
  /\ IngestInit
  /\ stage = "idle" /\ only = FALSE /\ exit = "none"
  /\ built = {} /\ trusted = FALSE /\ suite = {} /\ gatekeeper = TRUE /\ changed = FALSE
  /\ edited = FALSE /\ builds = 0 /\ edits = 0

\* The strict gate lets a blueprint pass unless it is invalid block DSL; the
\* sources of the context are those of the blueprint or of the JSON file.
Start ==
  /\ stage = "idle" /\ builds < MaxBuilds
  /\ builds' = builds + 1
  /\ only' \in BOOLEAN /\ gatekeeper' \in BOOLEAN
  /\ built' = {} /\ trusted' = FALSE /\ suite' = {} /\ changed' = FALSE /\ edited' = FALSE
  /\ \/ exit' = "2" /\ Goto("idle") /\ entries' = <<>>
     \/ /\ exit' = "none"
        /\ IF only' THEN Goto("validation") /\ entries' = <<>>
           ELSE Goto("ingestion") /\ entries' \in Configs
  /\ UNCHANGED <<disk, link, last, linked, written, edits>>

\* Per-file errors and a missing source are noted, and anything else that is
\* raised is swallowed: what is left of the entries is dropped.
Ingest ==
  /\ stage = "ingestion"
  /\ \/ IngestFile /\ UNCHANGED stage
     \/ /\ entries' = <<>> /\ Goto("fluidity")
        /\ UNCHANGED <<disk, link, last, linked, written>>
  /\ changed' = TRUE
  /\ UNCHANGED <<only, exit, built, trusted, suite, gatekeeper, edited, builds, edits>>

Stage(name, next) ==
  /\ stage = name /\ Goto(next) /\ Leaves
  /\ UNCHANGED <<ingest_vars, only, exit, built, trusted, suite, gatekeeper, edited, builds, edits>>

\* The schema of the context documents; the recipe for the host, which is
\* only printed.
SemanticFluidity == Stage("fluidity", "probe")
HardwareProbe    == Stage("probe", "hpc")

\* What a submission ends in: no job, a job that ended badly or was cancelled
\* after the wait, a job that succeeded, a job that is said to have succeeded
\* since the scheduler no longer knows it (HpcScheduler, SuccessUnlessSilent).
JobEnds == {"not submitted", "failed", "succeeded", "silent"}

\* A regression: it is enough that the job was submitted.
Submitted(end) == end # "not submitted"

job_succeeded(end) == end \in {"succeeded", "silent"}

\* The job is a build command of its own in the same workspace.
SubmitHpc ==
  /\ stage = "hpc"
  /\ \E end \in JobEnds :
       /\ built' = IF end = "succeeded" THEN {Workspace} ELSE built
       /\ trusted' = (end = "silent")
       /\ Goto(IF job_succeeded(end) THEN "polymorph" ELSE "local")
  /\ Leaves
  /\ UNCHANGED <<ingest_vars, only, exit, suite, gatekeeper, edited, builds, edits>>

\* orchestrator.run_build (BuildCycle), which may raise; nothing catches that.
LocalBuild ==
  /\ stage = "local" /\ changed' = TRUE
  /\ \/ built' = {Workspace} /\ Goto("polymorph") /\ UNCHANGED exit
     \/ exit' = "raised" /\ Goto("idle") /\ UNCHANGED built
  /\ UNCHANGED <<ingest_vars, only, trusted, suite, gatekeeper, edited, builds, edits>>

\* Rewritten copies into .aero; checkpoints of at most three generations.
Polymorphization == Stage("polymorph", "evolution")
Evolution        == Stage("evolution", "runtime")

\* The benchmark may fail to start, fail or time out; a metric that is no
\* number raises.
RuntimeStage ==
  /\ stage = "runtime" /\ Leaves
  /\ \/ Goto("validation") /\ UNCHANGED exit
     \/ Goto("idle") /\ exit' = "raised"
  /\ UNCHANGED <<ingest_vars, only, built, trusted, suite, gatekeeper, edited, builds, edits>>

ExitCode(s) == IF ~run(s) /\ gatekeeper THEN "1" ELSE "0"

\* No execution_command: the stage is a success.
ValidationStage ==
  /\ stage = "validation" /\ Goto("idle")
  /\ \/ exit' = "0" /\ UNCHANGED <<suite, changed>>
     \/ \E s \in Suites :
          /\ suite' = {s} /\ changed' = FALSE
          /\ exit' = IF s.form = "garbled" THEN "raised" ELSE ExitCode(s)
  /\ UNCHANGED <<ingest_vars, only, built, trusted, gatekeeper, edited, builds, edits>>

\* The user edits or removes an external file.
Edit ==
  /\ edits < MaxEdits /\ edits' = edits + 1 /\ edited' = TRUE
  /\ \E s \in Sources : \E text \in Texts[s] \cup {Absent} : disk' = [disk EXCEPT ![s] = text]
  /\ UNCHANGED <<link, entries, last, linked, written, stage, command, builds>>

\* The command is killed.
Kill ==
  /\ stage # "idle" /\ Goto("idle")
  /\ entries' = <<>>
  /\ UNCHANGED <<disk, link, last, linked, written, command, edited, builds, edits>>

Next == Start \/ Ingest \/ SemanticFluidity \/ HardwareProbe \/ SubmitHpc \/ LocalBuild
     \/ Polymorphization \/ Evolution \/ RuntimeStage \/ ValidationStage \/ Edit \/ Kill

Spec == Init /\ [][Next]_vars

-----------------------------------------------------------------------------

Succeeded == stage = "idle" /\ exit = "0"

\* A build command that exits with 0 has built what the ingestion has left in
\* the workspace, unless --validation-only was given, the scheduler was silent
\* about the job, or the user edited what is ingested meanwhile; and where a
\* suite guards the build, no case of it failed unless the suite itself said
\* it had passed, an empty one ended with 0, and nothing was written after it.
ExitZeroIsEarned ==
  Succeeded =>
    /\ only \/ trusted \/ (built # {} /\ (edited \/ built = {Workspace}))
    /\ gatekeeper => \A s \in suite :
         /\ ~changed
         /\ s.form # "no command"
         /\ s.overall # "passed" => s.cases \cap {"said failed", "error beyond"} = {}
         /\ s.cases = {} => s.rc = 0
=============================================================================
