----------------------------- MODULE BuildCycle -----------------------------
(***************************************************************************)
(* run_build of orchestrator.py: cycles of scanning, deciding and tuning   *)
(* (the last two at once, each on a shallow copy of the metadata), then    *)
(* the read-only check, the compilation, and the rewriting of the manifest *)
(* that the next cycle and the next process start from.  The user may edit *)
(* the workspace, and the process may die, at any point.                   *)
(***************************************************************************)
EXTENDS Integers, Sequences, FiniteSets

CONSTANTS
  Files,          \* source files of the workspace
  Scores,         \* values of current_score, far apart or equal
  Window,         \* HeuristicStateMachine.KINETIC_WINDOW
  Patience,       \* kinetic_stall_patience
  TunerPatience,  \* stagnation_patience_cycles
  Cycles,         \* the cycles argument
  MaxRuns,        \* bound: processes started
  MaxEdits        \* bound: edits of a file by the user

ASSUME CycleAssumption ==
  /\ Window \in Nat /\ Window >= 3
  /\ {Patience, TunerPatience, Cycles, MaxRuns} \subseteq Nat \ {0}
  /\ MaxEdits \in Nat

VARIABLES
  version,   \* the workspace: how often each file was edited
  outputs,   \* build_artifacts: the version each output was compiled from
  manifest,  \* orchestrator_state as last written in full
  torn,      \* whether build_manifest.json is cut short on disk
  pc,        \* where run_build is
  runs,      \* processes started
  cycle,     \* its loop variable
  meta,      \* metadata: the keys present, and their values
  decided,   \* the future of the decision stage: a copy of metadata or <<>>
  tuned,     \* the future of the tuner stage
  before,    \* before_snapshot
  left,      \* targets _compile_targets has yet to write
  record     \* history, for the properties only: how the tuner's last generation went

disk   == <<version, outputs, manifest, torn>>
memory == <<cycle, meta, decided, tuned, before, left>>
vars   == <<disk, pc, runs, memory, record>>

Pending == <<>>
None    == [empty |-> TRUE]

Has(m, key) == key \in DOMAIN m /\ m[key]

\* dict.update
Update(m, n) ==
  [k \in DOMAIN m \cup DOMAIN n |-> IF k \in DOMAIN n THEN n[k] ELSE m[k]]
-----------------------------------------------------------------------------
(* decision_tree.evaluate: record_score, decide_signal, consume_kinetic_-  *)
(* anomaly, on the history the metadata carries.                           *)

KeepLast(s) == IF Len(s) <= Window THEN s ELSE SubSeq(s, Len(s) - Window + 1, Len(s))

Flat(h) ==
  LET n == Len(h) IN n >= 3 /\ h[n] = h[n - 1] /\ h[n - 1] = h[n - 2]

Stalls(m) ==
  IF Flat(KeepLast(Append(m.trajectory, m.score))) THEN m.stall + 1 ELSE 0

Alarm(m) == Stalls(m) >= Patience

DecisionTree(m) ==
  Update(Update(m, IF Alarm(m) THEN [boost |-> TRUE] ELSE <<>>),
         [trajectory |-> KeepLast(Append(m.trajectory, m.score)),
          stall      |-> IF Alarm(m) THEN 0 ELSE Stalls(m),
          anomaly    |-> Alarm(m)])

(* parameter_tuner.evaluate, as far as the stagnation counter and the      *)
(* one-shot boost go.  The generation improves the archive or not, or the  *)
(* wall-clock limit skips it.                                              *)

Generations == {"improved", "stalled", "late"}

Tuner(m, generation) ==
  LET stalled == IF generation = "improved" THEN 0 ELSE m.stalled + 1
  IN Update(Update(m, IF Has(m, "boost") THEN [boost |-> FALSE] ELSE <<>>),
            IF generation = "late" THEN <<>>
            ELSE [stalled |-> stalled, stagnant |-> stalled >= TunerPatience])
-----------------------------------------------------------------------------
(* _extract_build_context and _persist_orchestrator_state.                 *)

FreshState == [trajectory |-> <<>>, stall |-> 0, stalled |-> 0, fingerprints |-> <<>>]

StateOf(m) == [trajectory   |-> m.trajectory,
               stall        |-> m.stall,
               stalled      |-> m.stalled,
               fingerprints |-> m.scanned]

FreshRecord == "late"

Init ==
  /\ version = [f \in Files |-> 0]
  /\ outputs = [f \in Files |-> -1]
  /\ manifest = FreshState /\ torn = FALSE
  /\ pc = "idle" /\ runs = 0 /\ cycle = 0
  /\ meta = None /\ decided = Pending /\ tuned = Pending /\ before = None
  /\ left = {}
  /\ record = FreshRecord

Leave ==
  /\ pc' = "idle" /\ cycle' = 0
  /\ meta' = None /\ decided' = Pending /\ tuned' = Pending /\ before' = None
  /\ left' = {}

StartRun ==
  /\ pc = "idle" /\ runs < MaxRuns
  /\ ~torn
  /\ runs' = runs + 1
  /\ meta' = manifest
  /\ cycle' = 1
  /\ pc' = "cycle"
  /\ UNCHANGED <<disk, decided, tuned, before, left, record>>

\* load_manifest raises on a manifest that is not JSON.
StartFails ==
  /\ pc = "idle" /\ runs < MaxRuns
  /\ torn
  /\ runs' = runs + 1
  /\ UNCHANGED <<disk, pc, memory, record>>

(* The snapshot holds sizes and times; the fingerprints kept from the scan *)
(* of an earlier run are content hashes.  The two never agree, so every    *)
(* file counts as changed.                                                 *)

Stat(v)    == <<"size-mtime", v>>
Content(v) == <<"sha256", v>>

Snapshot == [f \in Files |-> Stat(version[f])]

Changed(previous, current) ==
  {f \in DOMAIN current : f \notin DOMAIN previous \/ previous[f] # current[f]}

BeginCycle ==
  /\ pc = "cycle"
  /\ before' = Snapshot
  /\ LET changed == Changed(meta.fingerprints, Snapshot)
     IN meta' = Update(meta, [targets |-> IF changed = {} THEN Files ELSE changed])
  /\ pc' = "scanning"
  /\ UNCHANGED <<disk, runs, cycle, decided, tuned, left, record>>

\* scanner.evaluate, which skips a file that is too large or cannot be read,
\* and _seed_objectives; then both stages are submitted.
Scan(score, read) ==
  /\ pc = "scanning"
  /\ read \subseteq meta.targets
  /\ meta' = Update(meta, [scanned |-> [f \in read |-> Content(version[f])],
                           score   |-> score])
  /\ pc' = "forked"
  /\ UNCHANGED <<disk, runs, cycle, decided, tuned, before, left, record>>

Decide ==
  /\ pc = "forked" /\ decided = Pending
  /\ decided' = DecisionTree(meta)
  /\ UNCHANGED <<disk, pc, runs, cycle, meta, tuned, before, left, record>>

Tune(generation) ==
  /\ pc = "forked" /\ tuned = Pending
  /\ tuned' = Tuner(meta, generation)
  /\ record' = generation
  /\ UNCHANGED <<disk, pc, runs, cycle, meta, decided, before, left>>

\* A regression: the futures are merged the other way round.
MergedOtherWay(m, d, t) == Update(Update(m, t), d)

Merged(m, d, t) == Update(Update(m, d), t)

Join ==
  /\ pc = "forked" /\ decided # Pending /\ tuned # Pending
  /\ meta' = Merged(meta, decided, tuned)
  /\ decided' = Pending /\ tuned' = Pending
  /\ pc' = "merged"
  /\ UNCHANGED <<disk, runs, cycle, before, left, record>>

(* On either signal of stagnation run_build calls maybe_run_neural_-        *)
(* synthesis, which calls decision_tree.evaluate with one argument of two: *)
(* the TypeError ends the run.                                             *)

\* A regression: the tuner's verdict is not looked at.
SignalledByDecision(m) == Has(m, "anomaly")

Signalled(m) == Has(m, "anomaly") \/ Has(m, "stagnant")

SynthesisRaises ==
  /\ pc = "merged" /\ Signalled(meta)
  /\ Leave
  /\ record' = FreshRecord
  /\ UNCHANGED <<disk, runs>>

NoSynthesis ==
  /\ pc = "merged" /\ ~Signalled(meta)
  /\ pc' = "synthesized"
  /\ UNCHANGED <<disk, runs, memory, record>>

(* _enforce_read_only_boundary.                                            *)

BoundaryHolds ==
  /\ pc = "synthesized"
  /\ Snapshot = before
  /\ pc' = "checked"
  /\ left' = Files
  /\ UNCHANGED <<disk, runs, cycle, meta, decided, tuned, before, record>>

BoundaryBreached ==
  /\ pc = "synthesized"
  /\ Snapshot # before
  /\ Leave
  /\ record' = FreshRecord
  /\ UNCHANGED <<disk, runs>>

(* _compile_targets reads and writes one target after the other, so an     *)
(* edit can still fall between two of them.                                *)

Compile(f) ==
  /\ pc = "checked"
  /\ f \in left
  /\ outputs' = [outputs EXCEPT ![f] = version[f]]
  /\ left' = left \ {f}
  /\ UNCHANGED <<version, manifest, torn, pc, runs, cycle, meta, decided, tuned,
                 before, record>>

\* A regression: the state is persisted before the targets are compiled.
CompiledLater == TRUE

Compiled == left = {}

\* write_text empties the file before it fills it.
BeginPersist ==
  /\ pc = "checked" /\ Compiled
  /\ torn' = TRUE
  /\ pc' = "persisting"
  /\ UNCHANGED <<version, outputs, manifest, runs, memory, record>>

EndPersist ==
  /\ pc = "persisting"
  /\ torn' = FALSE
  /\ manifest' = StateOf(meta)
  /\ pc' = "persisted"
  /\ UNCHANGED <<version, outputs, runs, memory, record>>

NextCycle ==
  /\ pc = "persisted" /\ cycle < Cycles
  /\ cycle' = cycle + 1
  /\ pc' = "cycle"
  /\ UNCHANGED <<disk, runs, meta, decided, tuned, before, left, record>>

EndRun ==
  /\ pc = "persisted" /\ cycle = Cycles
  /\ Leave
  /\ UNCHANGED <<disk, runs, record>>

Edit(f) ==
  /\ version[f] < MaxEdits
  /\ version' = [version EXCEPT ![f] = @ + 1]
  /\ UNCHANGED <<outputs, manifest, torn, pc, runs, memory, record>>

Crash ==
  /\ pc # "idle"
  /\ Leave
  /\ record' = FreshRecord
  /\ UNCHANGED <<disk, runs>>

Finished == pc = "idle" /\ runs = MaxRuns /\ UNCHANGED vars

RunBuild ==
  \/ StartRun \/ StartFails
  \/ BeginCycle
  \/ \E score \in Scores, read \in SUBSET Files : Scan(score, read)
  \/ Decide
  \/ \E generation \in Generations : Tune(generation)
  \/ Join \/ SynthesisRaises \/ NoSynthesis \/ BoundaryHolds \/ BoundaryBreached
  \/ \E f \in Files : Compile(f)
  \/ BeginPersist \/ EndPersist
  \/ NextCycle \/ EndRun

Next == RunBuild \/ (\E f \in Files : Edit(f)) \/ Crash \/ Finished

Spec == Init /\ [][Next]_vars
-----------------------------------------------------------------------------
Scans == UNION {[S -> {Content(v) : v \in 0..MaxEdits}] : S \in SUBSET Files}

IsState(m) ==
  /\ m.trajectory \in UNION {[1..n -> Scores] : n \in 0..Window}
  /\ m.stall \in 0..Patience
  /\ m.stalled \in 0..TunerPatience
  /\ m.fingerprints \in Scans

TypeOK ==
  /\ version \in [Files -> 0..MaxEdits]
  /\ outputs \in [Files -> -1..MaxEdits]
  /\ IsState(manifest) /\ torn \in BOOLEAN
  /\ pc \in {"idle", "cycle", "scanning", "forked", "merged", "synthesized", "checked",
              "persisting", "persisted"}
  /\ runs \in 0..MaxRuns /\ cycle \in 0..Cycles
  /\ pc # "idle" => IsState(meta)
  /\ decided # Pending => IsState(decided)
  /\ tuned # Pending => IsState(tuned)
  /\ left \subseteq Files

\* A flat score is never found.  record_score compares the score with those of
\* two earlier cycles, but what it appends to score_trajectory is undone by the
\* tuner's copy of the metadata, merged last: over any cycles and processes,
\* neither stage nor manifest ever carries an earlier score into a decision, and
\* no kinetic_stagnation_anomaly is raised.
ScoreHistoryIsUndone == ~Has(meta, "anomaly") /\ ~Has(decided, "anomaly")

\* The persisted state never describes contents newer than the outputs were
\* compiled from, at whatever point the process died and wherever the user
\* edited a file.
StateNeverAheadOfOutputs ==
  \A f \in DOMAIN manifest.fingerprints :
     manifest.fingerprints[f] \in {Content(v) : v \in 0..outputs[f]}

\* survival_tracker_stats counts generations without improvement over cycles
\* and processes: what is persisted moves on from what was persisted last by
\* exactly what the tuner found in this cycle.
Counted(generation, n) ==
  CASE generation = "improved" -> 0
    [] generation = "stalled"  -> n + 1
    [] OTHER                   -> n

TunerStateIsCumulative ==
  [][pc = "persisting" /\ pc' = "persisted" =>
       manifest'.stalled = Counted(record, manifest.stalled)]_vars

\* The state on disk never records a stagnation: the cycle that finds one is
\* aborted before it persists anything, and so is the first cycle of every
\* later process, until a generation improves the archive.
StagnationNeverPersisted == manifest.stalled < TunerPatience
=============================================================================
