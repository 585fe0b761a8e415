# Verification of AERO universal

TLA+ models of the build system in `src/`, the TLC runs that check them and the
TLAPS proofs about them. Paths below are relative to `src/`.

Contents: 1 the system, 2 the models, 3 the runs, 4 fairness, 5 the proofs,
6 what the work turned up, 7 what is not modelled, 8 the plan.

## 1. The system

AERO reads a blueprint in one of five formats, ingests the sources it names,
and builds: targets compiled one after the other (block DSL), an out-of-tree
crate or package (scaffold), cycles of generation and tuning (the legacy
formats, through `orchestrator.py`), or a job on a cluster. Around that stand a
cache, a ledger of past experience, remote workers, an evolution loop, a
translator of Python functions into task meshes, and code generators that turn
text into text.

| component | state it keeps | operations | what is hard |
|---|---|---|---|
| distributed coordinator, `src/build/distributed.py` | health table, round-robin counter, tried set of each task | `dispatch`, `_run_one`, `_next_worker`, `_mark_unhealthy`, three `run_task` | a thread for each task; the list of usable workers is read under a lock and used outside of it; hosts that vanish; exceptions in one thread |
| shared artefact cache, same file | a file or object for each task_id | `put`, `get` | written from every thread, may raise |
| orchestrator build cycle, `orchestrator.py` | `build_manifest.json`, metadata | `run_build` | two stages run at once on copies that are merged; the user edits files meanwhile; a kill at any point |
| decision tree, parameter tuner, scanner, `builder_brains/` | score trajectory, stall counter, stagnation counter, fingerprints, all in the metadata | `evaluate` of each | state of one cycle read by the next and by the next process |
| experience replay ledger, `builder_brains/experience_replay.py` | one JSON file for all processes | `record_trajectory`, `clear`, readers | flock against threads, processes, kills and short writes |
| memoization engine, `src/memoization/cache_engine.py` | memory, disk, dependency graph, fingerprints | `memoize`, `on_file_changed`, `on_config_changed`, `invalidate` | two copies of each value, one of them outliving the process, and two ways of telling that it is stale |
| block-DSL build, `main.py`, `build_graph.py`, `blueprint_lang/validator.py`, `error_interceptor.py` | colours and stack of the search, in-degrees, results | gate, sort, stages, compile loop, exit code | a graph algorithm for each of gate, order and stages, all of which have to agree |
| HPC scheduler, `src/hpc/scheduler.py`, and `_maybe_submit_hpc_build` | job handles, script files | `submit`, `status`, `wait`, `cancel`, `submit_many` | the cluster goes on by itself, its commands fail and lag |
| scaffold builds and recovery, `src/scaffold/` | the distribution directory | shield, split, write, `cargo build`, diagnose, correct, retry | files of earlier and killed builds, bounded retries that rewrite the source, a split by names that must lose nothing |
| invisible configuration and self-healing, `src/invisible_config/` | glue under repair | lean parser, inferred graph, compile, patch, retry | an order inferred from names; what is returned when the attempts run out |
| legacy blueprint parser, `blueprint_parser.py` | none; reads the manifest | choice of a format, INI, JSON, fallback context | five formats, each with its own checks, that fall back to each other |
| self-evolution, `src/evolution/` | population, best candidate, checkpoints | `evolve` | dominance with objectives that only some candidates have, invalid candidates |
| translator pipeline, `translator/` | recipes, flags, FFI modules in a directory | `run_translation_pipeline`, `run_pipeline`, `apply_rollback` | each phase reads the source file again; names that are not unique; recipes of earlier runs and other sources |
| context ingestion and repair, `src/context/` | files and links in the workspace | copy, link, repair of each file | edits by lines; links left by earlier builds |
| validation, `src/validation/validator.py` | none | `run` | cases, a verdict and an exit code that may disagree |
| command line stages, `main.py` | none | `build_command`, `check`, `plan`, `infer`, `scaffold` | stages that fail in silence and still end in an exit code |
| fallback router and queue, evolution sandbox, semantic fluidity, polymorphization, precision, mapper, compactor, code generation, cargo and gpu support, console | none between calls | functions of text | nothing a finite model tells apart (section 7) |

How they interact. `build_command` gates the blueprint (validator), then either
compiles the DSL targets in the order of `build_graph`, or builds a scaffold, or
goes through its stages: ingestion, schema, HPC submission or else `run_build`,
polymorphization, evolution, benchmark, validation. `run_build` parses the blueprint
again, calls scanner, then decision tree and tuner at once, and hands the metadata
from one to the next; the manifest is all a process leaves for the next one, and
all that the parser has when a blueprint is broken. The ledger is reached by all
engines of all processes through the file only. The coordinator and the
memoization engine are libraries that their callers share between threads
(coordinator) or keep for a process (memoization). Nothing but the tests creates a
`SelfHealingExecutor`.

What makes each of them correct is stated by the properties of section 3; the
hazards that they are aimed at are listed in `PROJECT.json`, each at its line.

## 2. The models

Each module translates one component; the constants are its settings and
bounds. `MC*` modules hold values of the constants for TLC.

**TaskPool**: what callers of `dispatch()` rely on, with neither workers
nor threads: every task is decided once, and the call answers when all are.

**Coordinator**: `dispatch()` in the code's steps. `pc[t]` is the place of the
thread of task `t` in `_run_one`: `Choose` is the locked half of `_next_worker`
(`candidates`), `Index` the half after the lock, with the round robin `rr`;
`RunSucceeds`, `RunFails`, `NodeVanishes` are `run_task` of the three backends;
`Mark` is `_mark_unhealthy`, `tried.add` and the turn of the loop, `Cache` the call
of `SharedCache.put`. `Collect`, `CollectError`, `Return`, `Raise` are the thread
that called `dispatch`, `Report` its stable sort, `DispatchAgain` the next call on the
same object. A pod is created and not watched: `PodFinishes` happens when the
cluster likes. A file left by an earlier build is `"stale"`.

**BuildCycle**: `run_build`. `meta` is the metadata dictionary with exactly the keys
present, since a key that is absent is treated otherwise than a false one;
`decided` and `tuned` are the futures, each computed on a copy; `Merged` is the
two `update` calls. `manifest`/`torn` is the file on disk, emptied by `BeginPersist`
and filled by `EndPersist`. `Edit` is the user, `Crash` a kill. `Scan` may leave out
files, as the scanner does with those it cannot read. The tuner's genetic
operators are the choice of a generation: improved, stalled, or skipped because
it is late. `record` is history: properties read it, no action does.

**ReplayStore** and **ReplayLedger**: the first is an atomic list, ranked and cut; the
second is the file. Every system call of `_ensure_file`, `_load_all` and
`_mutate_ledger` is a step (`CheckExists`, `Create`, `LockCreated`, `Initialise`,
`Open`, `Lock`, `Read`, `Truncate`, `Write`). `owner` is the lock of a process's
buffer, `flock` the advisory lock. `WriteFails` and `Crash` leave the file empty or
cut short. `Begin` gives every request an identity (thread, number), so that the
refinement can say which one was served.

**Memoization**: `memory`, `disk`, `edges` are the fields of `QueryCache`, `known` the fingerprints of
the engine. `content` is the code each file holds, what `_file_semantic_fingerprint` keeps of it; `Edit`
changes it and changes it back at any time (an edit of comments and white space only is no step). A call
of `memoize()` is a hit (`MemoizeHit`), or takes the fingerprint (`MemoizeMiss`), lets `compute_fn` read the files and
call `memoize()` for the keys its key names (`ComputeReads`, and hits and misses inside: `running` is the stack of
such calls), and stores (`MemoizePut`, with a copy written, cut short or not opened) or raises (`MemoizeRaises`).
Of a value only the reads it stems from are kept: file, code, process, and how many reports of
that process had found the file changed. `Opaque` keys have values JSON cannot hold, of which the disk keeps
`str(value)`. `reports` and `disturbed` are history. A `compute_fn` is taken to call nothing else of the engine,
and to read no file its key does not name.

**DslBuild**: the depth-first search of `_find_cycle` with colours and an explicit
stack, one neighbour a step; Kahn's sort, one target a step; the compile loop,
one target a step; `Kept` and `Report` are the list comprehension and
`handle_compile_results`. `requires` lists may name a target twice, or itself. The
stages (`Level`) are a recursive function, as `levels` computes them.

**HpcScheduler**: `BeginWrite`, `EndWrite`, `Accepted`, `Refused` are `submit`;
`AskQueue` and `AskAccounting` are the two queries of `status`, between which the
cluster may move; `Judge` and `Cancel` are `wait`; `BuildLocally` is what
`build_command` makes of the result. `real` is the job in the cluster (`Progress`),
`state` the field of the handle. What the commands answer is external:
`QueueSays` and `AccountingSays`, either of which may be unavailable, the latter also
late. NODE_FAIL and the cluster's own TIMEOUT behave as FAILED, OUT_OF_MEMORY as
`"CANCELLED+"` (neither is a state that `wait` knows), and are left out.

**RustShield**, **Decomposition**, **Scaffold**: a Rust source is the set of what its
author put into it and the set of rewrites made to it; `Diagnosed` is what rustc says
of the two. A Python script is its sequence of top-level statements, with the names
each binds, refers to and spells in strings; `Decomposed` is `ModularDecomposer.decompose`
with `prune_dead_imports`. `Scaffold` has the builds: `Begin` reads the sources and fixes what
is written, `Write` writes one file (or emptied file, if `Killed`), `Cargo_build` is one turn of
the recovery loop, `Validate` looks at every `*.py` in the directory. `dir` outlives
the builds; `Edit` is the user.

**SelfHealing**: one action for each of the outcomes of an attempt; of the glue, the set
of markers that patches have put before it, which is what `patch` looks for.

**InvisibleConfig**, **LegacyBlueprint**, **BlueprintParser**: the lean parser is a fold over lines,
the inferred graph a function of names, with the language a name hints at as the constant
`Hint` and the files that match it as `Files`; `topological_order` goes round by round. `ParseContent` folds
the INI lines, values being types. `detect_cycles` is its depth-first search, `Search` one call of `dfs`
with the calls below it as a function: the search only calls for nodes it has not visited, so as many
levels as there are nodes are enough, and what `Dfs` says at level 0 is never asked for. `parse_blueprint` chooses among the formats by what its detectors look at; `Check`,
`Plan`, `Infer` and `Build` are the commands, given in any order, and `HealBoundary` runs the healing
loop (included, not instantiated) for a boundary of the context.

**ParetoFrontier**, **Evolution**: the optimizer as operators over populations (sequences of
records with a fitness), with and without `use_crowding` (the run has it, which is the default; the theorems are for both), fronts in the order in which `_non_dominated_sort` finds their members,
distances in twelfths; `evolve` as one action for each of its steps.
Mutation, crossover and evaluation are the choice of a fitness, a benchmark that of
further objectives, the validation hook that of a verdict.

**ColdPassRouter**, **AeroTranslator**, **TranslationPipeline**: a source file is its imports and its
definitions in the order of `ast.walk`, with what the router's patterns find in each;
a recipe is a sequence of tasks. The phases of `run_translation_pipeline` are actions, each of which
looks at the file as it then is; `Verify` is the verdict on one function,
`Rollback` and `Flag` are the two halves of `apply_rollback`; `Decide` opens the recipe and `Write` fills it.
`MapHotPaths` is `run_pipeline`, which writes to the same directory. `meta_compiler`, which is not part
of the repository, accepts or fails.

**CodeRepair**, **ContextIngest**, **Validator**, **BuildCommand**: a text is its lines, with what the
three repair rules look at. `disk` and `link` are the paths of sources and workspace;
`Target` follows a link as `open` does. `BuildCommand` extends the others with the stages of
`build_command`; those modelled elsewhere (`run_build`, the scheduler) or not at all are there as
what they can end in: `Stage` goes on whether it has written something or failed.

**Picking** holds what the split, the repair and the translator share: the n-th of some positions, and
what stands at them.

**CoordinatorProofs**, **PersistenceProofs** (Memoization and ReplayLedger), **BuildCommandProofs** (with
HpcScheduler), **BuildCycleProofs** (with Evolution), **BlueprintProofs** (DslBuild, BlueprintParser and
SelfHealing), **RecoveryProofs** (Scaffold), **TranslationProofs** and **PickingProofs** (lemmas): section 5.

## 3. The runs

| run | question | bounds, and why they are enough |
|---|---|---|
| `pool` | which workers may a task be given, when may it fail, in what order do results come, does the coordinator implement `TaskPool`, does a call come back | 2 tasks, 2 calls, two ssh hosts that may vanish, a cluster and the local machine, 3 attempts, a cache that raises. As many remote workers as attempts, so a task may fail with or without having met the local one; one thread disables the workers in the list of the other; health table, counter, pods and artefacts of one call meet the next |
| `cycle` | what is scanned, compiled and persisted | 3 processes of 2 cycles, 2 edits of 2 files: an edit between any two steps, two restarts after a kill, patience 1 and 2 so that both counters overflow; scores 0 and 9, which rise, fall and stand |
| `ledger` | are writers alone, does the file implement `ReplayStore` | 2 threads in one process and 1 in another, 2 operations each, size 2: the cut drops an entry, and locks between and within processes are contended |
| `ledger_creation` | counterexample, section 6 | 2 processes, 1 operation each, no kills, no failing writes |
| `memo` | which values are served | a chain of three keys on one file, the last fingerprinted on it too, the first with a value JSON cannot hold; any number of edits between two codes, 2 reports that find a change, 1 restart: edits before, during and after each computation, and back; any eviction in any order. One file, as more of them exceed the time; the theorems are for any number |
| `dsl` | are gate, order, stages and exit code right for every graph | all 194 481 blueprints of 4 targets with at most 2 requirements each: loops of each length, diamonds, doubled requirements, blocks out of the order of names |
| `hpc` | does the handle tell the truth, is a local build alone, do jobs run their own commands, does waiting end | 2 jobs of one name, 1 or 2 threads, slurm and pbs, 2 polls, so that a job can change between polls and between the queries of one |
| `scaffold` | what is compiled, what is corrected, what does a split keep | 2 builds into one directory, 1 edit, the engine's 1 retry; Rust sources with any two of nine traits, five scripts alone and merged, eight mappings: definitions that refer to each other, a name defined twice, one that only a string spells, mappings onto the script, onto `__init__.py`, twice onto one file |
| `blueprint` | what may a build be given, in which order, what does the healing loop return | 11 lean blueprints, all 343 INI graphs of 3 nodes with up to 2 dependencies, the errors of INI and JSON one by one, graphs in JSON with cycles, unknown names and odd types, both verdicts on block DSL; manifests lost, good and odd; 1, 2, 3 and 5 attempts (a third is the last that can matter) |
| `evolve` | what survives selection, what is returned | 2 generations of 2, fitnesses that trade off or dominate, with and without benchmark, a gate that refuses any: fronts that fit, that have to be cut, that are cut with objectives missing |
| `translate` | which functions get into recipes, which recipes stay, how large is a mesh | 2 runs over two sources of one base name in nine versions, 1 edit, kills; caps of 5 nodes and 2 of a family, which one function exceeds |
| `command` | what do repair and ingestion write, what does exit code 0 mean | 2 commands with any of six contexts (copies, links, repairs, two entries onto one destination, links another build repairs through), 1 edit or removal, 24 texts (beginnings with a shebang, a comment, blank lines, docstrings in triple and other quotes, `__future__` imports on one line and on several), 40 outputs of the suite, any answer of the scheduler |

What the properties say:

* `pool`: `NoRepeatWorker`, no task meets a backend it has failed on, though the list it
  picks from is out of date; `FallbackIsLastResort`, the node made as a last resort is
  only reached by a task that failed on every local backend; `FailedEverywhere`, a
  failure means every local backend or `max_attempts` different ones; `ReportInOrder`;
  `ImplementsTaskPool` (refinement); `DispatchEnds`: nothing but a thread on a vanished
  host keeps a call from coming back.
* `cycle`: `ScoreHistoryIsUndone`, over any cycles and processes no score of an earlier cycle
  reaches a decision, so no plateau of the score is ever found: the other stage's copy, merged
  last, undoes what the decision tree has recorded (which disagrees with
  `src/builder_brains/decision_tree.py:482-484`, section 6); `StateNeverAheadOfOutputs`, what is persisted is not newer than what
  was compiled; `StagnationNeverPersisted`, a cycle that finds stagnation ends in an
  exception, so the state on disk never shows one; `TunerStateIsCumulative`, the
  stagnation counter on disk moves exactly as the generations went, over merges and
  processes.
* `ledger`: `WritersAlone`; `ImplementsReplayStore`: each request takes effect once, on the list
  as it then is, ranked and cut; only a kill, a failed write or a late initialisation
  loses anything. (An `OSError` of `flock` itself is not modelled.)
* `memo`: `SourceNeverStale`, a cached value is served for other code of its source file only if the
  file was edited between the fingerprint and the reading, and edited back since (section 6);
  `FreshUntilRestart`, within a process no value is served whose reads of a file are older than the last report
  that found it changed, through any chain of keys (but for files that are not `Tracked`, section 6), and a value
  does not turn into its text.
* `dsl`: `OnlyCyclesAreRefused`, the gate refuses a blueprint with a real cycle and no
  other; `CompiledAsAnnounced`, the order has each target once, after what it requires, and
  follows the stages shown; `ExitZeroIsSound`, `BuildEnds`.
* `hpc`: `NoFalseAlarm`, a reported failure is one; `SuccessUnlessSilent`, a success is false
  only if the last poll got no answer; `LocalBuildAlone`, a local build runs beside its
  job only after a timeout or a lost reply; `OwnCommands`, with one node (the default)
  equal names are harmless; `WaitEnds`.
* `scaffold`: `BuildsWhatItRead`, in no file of a build stands anything an earlier or a
  killed one wrote; `CorrectionsAnswerErrors` and `NothingUncompiledIsLeft`, a correction answers what cargo has
  said (a `let` that could not be borrowed mutably, any mismatch of types) and is compiled before the build is over; `NothingLost`, a split
  keeps each definition, as often as there are of it, in one file; `NamesBound`, what a
  moved definition refers to is bound where it now stands.
* `blueprint`: `ProvidersFirst`, the inferred order has each target once and cores
  before their bindings; `AcceptedIsBuildable`, unless the blueprint was read as JSON, no context has a
  cycle or names what is no node; `ReturnedWasCompiled`, with 3 attempts or more; `EachShimOnce`.
* `evolve`: `EliteSurvives`, nobody who is left out dominates one who is kept; `BestIsValid`,
  once a candidate has passed validation one that failed is not the best.
* `translate`: `ColdStaysOut`, no recipe has a task for a function the router refuses,
  by whatever name; `RejectedLeavesNoRecipe`, after a rollback there is no recipe of that source,
  of this run or an earlier; `MeshWithinGuardrails`.
* `command`: `RepairedStillRuns`, what a repair writes compiles and has lost no binding it
  needs, except in the layouts that `Plain` leaves out (section 6); `SourcesKept`, a file outside the workspace is
  written to only through a link that symlink mode has made; `ExitZeroIsEarned`, exit code 0
  means that what was ingested was built and that the suite has approved, unless the
  scheduler was silent, the user edited meanwhile or only the validation was asked for.

Type invariants are part of the proofs and were checked by TLC before; the runs
spend their time on the properties above.

Every property of a passing run has a mutant in `PROJECT.json`: a definition of
the module changed as a plausible bug would change it, for which the same run fails.
The changed forms stand next to the definitions, marked as regressions.

Deadlock is checked but where the system stops: in `pool`, where a host that
vanished blocks its thread for good, and in `scaffold`, `blueprint`, `evolve`, `translate` and `command`,
where commands return and the bound on how many are given is reached.

## 4. Fairness

* `Coordinator!FairSpec`: each thread and the caller are scheduled. No
  fairness makes a pod run, and nothing ends a `conn.run` on a vanished host, which has
  no timeout: `DispatchEnds` excepts that case and no other. That a local subprocess
  (`distributed.py:127`, no timeout) and a call of the Kubernetes API return is presumed.
* `DslBuild!FairSpec`: one thread that nothing blocks.
* `HpcScheduler!HpcFairSpec`: threads and processes are scheduled, and the commands
  of the scheduler return (`run_command` has no timeout). The cluster need not
  move: a job that never starts is given up after the timeout, which is what
  `WaitEnds` is about. `MaxPolls` stands for the time that passes.
* `SelfHealing!HealSpec`: the loop of one thread. That it ends is the bound in
  `EachShimOnce`, which needs no fairness.
* The other modules state safety only.

## 5. The proofs

The theorems hold for all values of the constants that satisfy the named
assumptions of the modules, which TLC evaluates in every run.

**CoordinatorProofs**, from `NamesAssumption` (the pool is a non-empty sequence that
ends in a local backend, as `_build_backends` makes it; names are finite and
the last-resort name is none of them) and `TasksAssumption`.

* `TypeCorrect`, `NeverRepeatsWorker`, `FallbackComesLast`, `FailureIsExhaustive` are
  `Spec => []P` for the invariants of run `pool`.
* `Implementation` is `Spec => ImplementsTaskPool`.
* They rest on `InductiveInvariant`, `Spec => []IInv`. None of the properties is
  inductive: that a worker was not tried follows from the list the thread holds,
  and the list may be out of date, so `CandidatesOK` says what stays true of it (it
  holds no tried worker, and if it is empty all local ones were tried). That
  needs `LocalsHealthy` (a local backend is never disabled), and survives other
  threads because `tried` belongs to the task. For `FailureIsExhaustive`, `CountOK` ties
  the size of `tried` to the number of attempts as long as the last-resort name
  is not in it; each new failure is of a worker that was not tried, so the set
  grows by one, which is a lemma on finite sets.

* `ReportInOrderAlways` is `Spec => []ReportInOrder` where the task ids of a call differ; where they do not,
  `ReportSortedAlways` says what is left: each task is reported once, in the order of the last place of
  its id. `ReportInv` says that what was collected is a permutation of the tasks; that a stable sort
  by place puts a permutation in order is a lemma on the number of those that come before each.

**PersistenceProofs**, Memoization from `MemoAssumption`, ReplayLedger from `LedgerAssumption`.

* `SourceNeverStaleAlways` is `MemoSpec => SourceNeverStale`: of each entry, in memory and on disk, the
  fingerprint tells the code that was read for its value unless an edit came in between, and so it is with each
  call that runs (`FreshInv`); an entry is served if the fingerprint is that of now.
* `FreshUntilRestartAlways` is `MemoSpec => FreshUntilRestart`, from `ProcessInv` (`ProcessInvariant`): no entry in memory
  holds a read that is older than the last report of a change to that file, and the next one will reach the entry; nor does
  a call that runs, whose edges are only drawn when it stores, since nothing is reported meanwhile. What is on disk and not in memory is of earlier processes. That has to hold
  through evictions, which lose entries but no edges, and through chains of keys: edges only grow, so
  what is reached stays reached (`Closure`, the smallest closed set, is monotone).
* `WritersAreAlone` is `Spec => []WritersAlone`, for any number of threads and processes, kills and
  failing writes included. It rests on `LockInv`: a thread that reads, initialises, truncates or writes has its
  lock in `flock` in the right mode (`HoldersOK`), and two threads hold locks at once only if both are
  shared (`Compatible`). The steps fall into three kinds, a lemma for each: the lock stays (`SameLock`), is
  taken (`TakeLock`), is dropped (`DropLock`).
* `LedgerImplementsStore` is `Spec => ImplementsReplayStore`: every step of the file is a step of the atomic list or
  none. `RefInv` says what each thread has decoded: a writer that holds the lock has the list as it is until it
  truncates the file (`WriterOK`), and no two threads serve the same request. The list
  of the refinement (`Kept`) is what the writer holds while the file is empty, so truncating changes
  nothing, and the write is the instant at which a request takes effect.

**BuildCommandProofs**, from `IngestAssumption` (sources and destinations are different
paths, contexts are sequences of entries), `RepairAssumption` and, for the cluster, `HpcAssumption`.

* `SourcesKeptAlways` is `Spec => []SourcesKept`, for any contexts, texts, edits and
  kills: `LinksOK` says that every link in the workspace, of whichever build, was asked for by
  an entry, and what a write can reach is the destination or what it links to.
* `RepairedStillRunsAlways` is `Spec => []RepairedStillRuns`, for any texts, known imports and rules in any
  combination. Every file there is is a text, and what was written is what the rules made of a text
  (`RepairInv`). For each rule a lemma says that it drops no name that is used and keeps the `__future__`
  imports first; a rule after which the text does not parse is rolled back, so they compose.
* `ExitZeroIsEarnedAlways` is `Spec => []ExitZeroIsEarned`. `RunningOK` says what a stage may take
  for granted of the command so far, `BuiltOK` that from the end of a build on the workspace is
  what it saw unless the user has edited, `EndedOK` what the exit code was made of; that a
  suite which passed is approved in the sense of the property is `PassedIsApproved`.
* `NoFalseAlarmAlways`, `SuccessUnlessSilentAlways`, `LocalBuildAloneAlways` are
  `HpcSpec => []P` for any number of jobs and polls, whatever names they have. An answer of the cluster is about an
  earlier moment, so none of them is inductive: `AnswerOK` says what of an answer stays
  true from the moment it is noted (a job that is over does not move any more, and
  the words for a running job are not those for an ended one), `HandleOK` that a job
  is only asked for when its handle has an id, `ResultOK` that `wait` returns terminal
  states. Together they are `TruthInv`; a step is about one job and leaves what it says
  of the others (`OneJob`).
* `OwnCommandsAlways`: with one thread, at most one job is between writing and
  submitting (`AloneOK`, from the cardinality that bounds the threads), so what it has
  written is what is there (`ScriptOK`).

**BuildCycleProofs**, from `CycleAssumption` and `EvolutionAssumption` (metrics are finitely many numbers,
evaluations measure the same ones, benchmarks others).

* `StagnationNeverPersistedAlways` and `TunerStateAccumulates` are `Spec => []StagnationNeverPersisted` and
  `Spec => TunerStateIsCumulative`. `CounterOK` follows the counter from the manifest to the metadata,
  `TunedOK` into the copy of the tuner, which `Join` merges last; a counter that has reached the
  patience is flagged in the same dictionary (`Flagged`), so a cycle whose metadata has no flag may
  be persisted. Together they are `CountInv`.
* `ScoreHistoryIsUndoneAlways` is `Spec => []ScoreHistoryIsUndone`: wherever a decision starts from, and in the
  tuner's copy, the trajectory is empty (`ScoreInv`), and one score is no plateau (`DecisionCalm`, where
  `Window >= 3` and a positive patience are needed).
* `StateNeverAhead` is `Spec => []StateNeverAheadOfOutputs`. `ScanInv` says that what is remembered of a file, in
  the process and on disk, is a content hash of a version no newer than its output, and what
  this cycle's scan saw is no newer than its output once it is compiled (`Upto`, which only grows:
  `UptoGrows`).
* The metadata is a dictionary that `update` extends; `TunerKeys`, `MergedKeys`, `BeginKeys`, `ScanKeys` say which
  keys each stage leaves alone.
* `EliteSurvivesAlways` and `BestIsValidAlways` are `EvolutionSpec => []P` for any population, metrics and
  generations, under `ObjectivesNested`: of two benchmarks one measures all the other does. The code does
  not force that; where it fails, so may the property (section 6). Dominance compares shared objectives and is not even
  transitive, so that somebody is dominated by nobody (`SomebodyLeads`) is shown on a smallest set that
  contains its members' dominators: a member with the fewest objectives, minimal among them, is alone in it. Hence no front is empty
  while candidates are left (`FrontsAre`), and what is chosen front by front is full, or all that
  went before (`Elite`, kept by `JoinedElite`), however the last front is cut. `EvolutionInv` adds that who has passed
  validation dominates who has failed, so one who passed is still there once anybody has.

**BlueprintProofs**, from `DslAssumption`, `ContentsAssumption` (each form is made as the detectors expect it; lines hold
words, and a dependency map is finite) and `HealingAssumption` (`max_attempts` is a natural number).

* `OnlyCyclesAreRefusedAlways` is `Spec => []OnlyCyclesAreRefused`, for any number of targets. `StackOK`: the gray targets are those of
  the stack, once each, and each requires the next, so the loop that is reported is one. `AheadOK`:
  what a target on the stack requires is still ahead, black, or the next on the stack; so one that
  leaves requires black targets only, and adding it to a set without cycles makes none
  (`AcyclicAdd`). When the search is over, all are black.
* `OrderIsTopologicalAlways` and `ExitZeroIsSoundAlways`: the targets placed and those queued stand in one line (`Line`)
  that only grows at its end. `OrderInv`: the degree left of a target is the number of places in its list
  that name one not placed yet (`Waits`: a target named twice counts twice), and who is in line has none. When
  the queue is empty, what is left over would be a set in which everybody waits for a member, which the
  gate has excluded. What was compiled is what the order begins with (`ResultsOK`), so exit code 0
  means all of it.
* `CompiledAsAnnouncedAlways`: the stages are computed apart, by recursion on the graph. `StagesOK`: nobody in line is of
  a later stage than who stands behind.
* `ProvidersFirstAlways` is `ParserSpec => []ProvidersFirst`, for any lines of a lean blueprint. The inferred graph has no
  loop, since cores wait for the invariants only and the rest for cores (`InferredMatrix`). `Placing` says of each
  round that what is placed is placed once, after all it waits for; where nothing waits for itself every round
  finds something, so that as many rounds as targets place them all (`OrderPlacesAll`).
* `AcceptedIsBuildableAlways` is `ParserSpec => []AcceptedIsBuildable`, for all lines of INI and lean blueprints and for the fallback: what the INI lines
  read as is followed line by line (`SectionsFrom`) to a graph on finitely many nodes that names no other
  (`DependencyGraph`). What is behind the search leads to what is behind it only, and on no cycle (`Settled`); a call of
  `dfs` that finds no cycle leaves its node behind, and the path as it was (`Settles`). So where no call finds one all nodes are
  behind at the end. The converse is `Truthful`, by induction on the depth of the calls: every node on the path leads to
  the one that is searched (`LeadTo`), so a dependency on the path closes a cycle, and the path is one longer with each call, so
  that level 0 is not reached. Together they are `CycleCheckIsExact`.
* `HealTypeCorrect`, `HealInvariant`, `ReturnedWasCompiledAlways` and `EachShimOnceAlways` hold of the loop by itself
  (`HealSpec`) and of the boundaries of a build (`ParserSpec`). That three
  attempts are enough follows from `HealInvariant`: the number of patches is that of the
  markers, of which there are two, and one less than the number of attempts while the
  loop runs; so a third attempt cannot patch, and a loop that ends earlier has attempts
  left and ends by success or for want of a patch.

**RecoveryProofs**, from `ScaffoldAssumption`.

* `BuildsWhatItReadAlways` is `Spec => []BuildsWhatItRead`: what a build has written of its plan stands in the directory as the last
  entry for each file says, and what is left to write is the rest of the plan (`FilesInv`), whatever an
  earlier or a killed build left there.
* `NothingUncompiledIsLeftAlways`; `CorrectionsAnswerErrorsAlways` with at most one retry (the engine asks for one), and
  `CorrectionsAnswerFlawsAlways` for any number: with more, a correction may answer an error that came to light
  after an earlier one, of a flaw the source had from the start. `LibInv` follows `lib.rs` from the source that was
  read over the shield and each correction.
* `NothingLostAlways` and `NamesBoundAlways`, for any script and mapping that `decompose` accepts. `SplitInv` ties plan and directory
  to `Decomposed`; then each is a statement about sequences: a definition is picked in the file its name is mapped to and
  in no other (`Picked`, `Count`), nothing is written over it but in the two cases that `OverTarget` names, and what a
  moved definition refers to was an import of the script, which is copied unless nothing needs it, or
  is defined in another file, which is imported.

**TranslationProofs**, from `PipelineAssumption` (the source files are well formed) and `MeshAssumption` (there is room for a first and
a last task).

* `MeshWithinGuardrailsAlways` is `Spec => []MeshWithinGuardrails`: of the fold over tasks, `Open` is what holds after each (fewer than
  the cap less one, none final, no family over its cap), so there is always room for the final task.
* `ColdStaysOutAlways`: what is routed and what is translated are two readings of the file. `KeptOK` says what a run keeps of
  the first, `Clean` that a function looked up by its name is the first definition of that name; the router refuses
  a name if any definition of it is refused.
* `RejectedLeavesNoRecipeAlways`: `VerdictOK` says that a run writes only while nothing was rejected, `RecipeOK` under whose
  name a recipe stands and that its source is not rejected, through kills between removing, opening and
  filling the file.

**PickingProofs** has the lemmas the others cite: the n-th of a set of positions, its rank, and what picking at some
positions keeps; that a function defined step by step exists and stays in what its steps keep (`StepByStep`,
`StepsStay`, `StepsWithin`), which is how the folds and loops of the models are unfolded; that `SetToSeq` lists a finite set
(`SetToSeqIs`).

Recursion is written as recursive functions over positions or targets. Where a proof needs induction over them it takes the
least number for which the claim fails, which the library's fact that the natural numbers
are well-founded allows without a rule of induction.

Only model-checked: liveness under fairness (`DispatchEnds`, `BuildEnds`, `WaitEnds`), which the prover does not
reach. Every other property of a passing run is stated by a theorem.

## 6. What the work turned up

With a run that shows it (`findings` in `PROJECT.json`, with the lines quoted):
`ledger_creation`, the process that creates the ledger may write `[]` over what another has
recorded.

Seen on the way, without a run of their own. Concurrency and caches:

* With as many remote hosts as attempts, a task fails without having been tried on the
  local machine, which `src/build/distributed.py:11-14` says it falls back to (`FailedEverywhere`
  says what does hold).
* A command on an ssh worker that goes away never returns, nor does `dispatch`.
* A pod counts as a success when it is created; the file cached as its artefact
  is whatever lies there, if anything.
* An exception of `SharedCache.put` makes `dispatch` drop all results.
* The tuner's copy of the metadata overwrites the score trajectory of the decision
  tree in each cycle (`orchestrator.py:816`), so a stagnation of the score is never found, though
  `decision_tree.py:482-484` speaks of "keys persisted across cycles" (`ScoreHistoryIsUndone`).
* Each cycle's delta compares sizes and times with the scanner's content hashes (`orchestrator.py:788`), which
  never agree: every file counts as changed and every cycle scans all of them. `Stat` and `Content` say
  so in the model; there is nothing in it to check.
* After a restart, a reported change evicts nothing from disk, the edges being gone.
* `memoize` takes the fingerprint before `compute_fn` runs (`cache_engine.py:228`). An edit in between leaves a value of
  the new code under the fingerprint of the old, and once the file is edited back it is served. `SourceNeverStale` excepts
  exactly these entries (`disturbed`).
* `on_file_changed` compares with the code last reported (`cache_engine.py:246`). A change that is edited back before
  it is reported evicts nothing, though a value may have been computed from it meanwhile; `FreshUntilRestart` speaks of the
  reports that find the file changed.
* `put` draws an edge from a dependency, and none from the `source_file` of a key. What depends on
  that key is not evicted by a report of the file, and its own fingerprint does not see the file: it is
  served stale within the process. `FreshUntilRestart` excepts such files (`Tracked`).
* `_file_semantic_fingerprint` strips what follows `#` or `//`, so includes and URLs count
  for nothing.
* `status` takes silence for COMPLETED; with PBS a job that failed and has left the
  queue is COMPLETED too. `CANCELLED+`, `OUT_OF_ME+` and the like are
  not terminal, so `wait` goes on to its timeout. PBS's `F` is looked up in the
  table of SLURM first, and is FAILED there.
* Two builds, or two threads of `submit_many`, that share a name write one script
  file, and the cluster may read the other's commands.

Builds and commands:

* An optional target that is reported as skipped fails the build.
* The numbers that `render_tree` prints go by stages sorted by name and need not be
  those of the build order.
* The job of a cluster build gets neither `--blueprint` nor the other options, and runs in
  the workspace of the command that waits for it.
* The configuration is read again at each stage; the benchmark stage is the one that
  nothing catches, and a metric that is no number raises.
* Errors of single files in an ingestion are noted in a record, counted as ingested, and
  leave the exit code 0.
* The exit code of a suite is ignored as soon as it prints cases, an explicit `passed`
  overrides them, and the string `"false"` is true.
* A cluster job that reports success counts as the build of the workspace, as in the code.

Repair and ingestion:

* `_auto_import` inserts before a `from __future__` import where anything but a shebang, blank lines and a docstring in
  triple quotes comes first: after a comment (a copyright notice, say), a docstring in single quotes, or a blank line
  behind the docstring (`src/context/repair.py:195-213`). `ast.parse` takes the result, Python does not, contrary to
  `src/context/repair.py:11` ("any change that would break the syntax is rolled back"). Into a `__future__`
  import over several lines it inserts in the middle, which is rolled back, so nothing is added (`Torn`).
  `remove_unused` drops whole lines, with other statements on them, and drops
  `from __future__ import annotations`. `RepairedStillRuns` excepts such beginnings and such lines (`Plain`). A docstring
  whose first line has triple quotes of both kinds is not modelled.
* One unused import that is all of a body makes every removal roll back.
* A copy or a repair writes through a link that an earlier build in symlink mode has left,
  into the user's own file, which `SourcesKept` excepts and says to be the only way; copying onto a link to the same file is an error. A source within
  the workspace that maps onto itself is left out (`IngestAssumption`).

Scaffolds:

* A source that lies within the distribution directory is overwritten by its shielded
  form, although `src/scaffold/source_resolver.py:120` says it is only ever read.
* `aero scaffold` on a Python entry ends in a `KeyError` (`crate_type`) after everything is written.
* With one retry, an error in types that hides one in borrows is not recovered from. Any mismatch of types
  makes the recovery annotate every integer table with `usize`, though `src/scaffold/rust_shield.py:228` speaks of
  "a leftover type mismatch on an index variable": the mismatch may be of something else, and a table that must be an `i32` is
  broken by it. So `CorrectionsAnswerErrors` does not say that a correction mends anything. Where a parameter cannot be
  borrowed mutably, the `let` of another variable of its name gets the `mut`. An E0308 in other words than "mismatched types" (arms of a
  `match` that differ, say) is taken for recoverable and corrected by nothing: in the model it is an error like any other
  (`"broken"`).
* A target of a mapping that has the name of the script is overwritten by it.
* A mapping may split a script into modules that import names from one another; `NamesBound` is about
  what is bound where, not about whether Python can load such a circle (`decomposition.py:204`). Lines are split by
  `splitlines` and numbered by `ast`, which differ after form feeds and U+2028.
* The validation of a build compiles every `*.py` in the directory, those an earlier build has left as well.
* A kill after a correction leaves it in `lib.rs` of the distribution directory; the next
  build writes the file anew.

Blueprints and glue:

* With 1 or 2 attempts the healing loop returns a patch nobody has compiled; a known pair of
  types whose cast does not help never gets the generic shim.
* A target named `text_invariants` is taken for the node of that name and loses its place in the
  order; hints match anywhere in a name.
* `project = "x"` overrides `project "x"` without a word; `infer` does not catch
  `LeanBlueprintError`.
* A broken INI or lean blueprint makes `build` build the components of AERO itself and exit
  with 0; `check` exits with 0 on any blueprint that is not block DSL.
* JSON after a leading comment is given to the INI parser; of JSON only `[analysis]` is checked, and
  sections that are there in part get no defaults. A `graph` in it is handed through as it stands
  (`blueprint_parser.py:689`), with its cycles and unknown names, so that `AcceptedIsBuildable` excepts what is read as
  JSON; `plan` lists such a graph, or raises where it has an odd type (`Printable`). The contexts' matrix is their
  `graph.dependencies`; nothing reads the `dependency_matrix` that most formats repeat beside it.

Evolution and translation:

* `is_dominant` compares the objectives two candidates share. Where benchmarks measure different
  ones (energy of some candidates and accuracy of others), dominance may go round in a circle: then
  `_non_dominated_sort` puts nobody into a next front, or into the first, and `select_best` returns fewer
  than it was asked for. `EliteSurvives` is proved where the objectives are nested, which the run has too.
* Nothing in `main.py` sets the validation hook that `BestIsValid` is about; callers of the library may.
* `evolve` may return a best that a member of the last population dominates, since dominance
  is not total and the best is only compared once; an objective that is missing is sorted as
  infinite and counted as 0. Crossover needs a population of 4.
* The router does not see a decorator of the function itself nor `with` on a lock by another
  name; local modules count as external; Rust is routed, and never translated.
* Both sides of the differential test run the same Python function, and two equal errors
  count as a match.
* Sources of one base name share a recipe, and one called `hp0.py` shares that of a hot
  path; a run that ends early leaves the recipe of an earlier one; a dry run still
  deletes recipes, writes flags and the FFI module; nothing reads or removes the flags. A run that is killed
  between a verdict and the removal leaves an earlier recipe. A file that is edited between routing and translation may
  get a cold function translated, which `ColdStaysOut` excepts.

## 7. What is not modelled

Not modelled are the components with that status in `PROJECT.json`:

* the block-DSL lexer and parser, the semantic mapper, compactor, precision selector
  and shield, polymorphization and the code generators of `translator/`: functions from text or
  syntax trees to text, without state between calls. A finite model of them would repeat
  examples their tests have;
* semantic fluidity, hardware profiling, the evolution sandbox and the compiler support: one
  pass that reads documents or probes the host; what a build does when they fail is in
  `BuildCommand`;
* the fallback router and the priority queue: one call walks a list, nothing is left;
* the commands of `main.py` that call one library function and print what it returns.

Left out of modelled components are: wording, logs and console output; durations; the
numbers inside heuristics (scores and fitnesses are compared, not computed);
`SharedCache.get`, which nothing calls; the similarity ranking of the ledger's readers; the
sizes and reports of the cache (`max_size_gb` is never read); what
`maybe_run_neural_synthesis` would do if its first call did not raise; `evolve_with_translation`;
manifests and dependencies of a scaffold beyond the two crates the shield knows.

## 8. The plan

Done, in this order: Coordinator and TaskPool with proofs; BuildCycle; ReplayStore and ReplayLedger
with the proof about locks; Memoization; DslBuild; HpcScheduler with proofs; scaffold builds and
recovery; blueprint formats, inference and self-healing with proofs; self-evolution; the translator
pipelines; `build_command` with ingestion, repair and validation, with proofs.

Then the proofs: the inductive invariants of every state machine, the refinement of the ledger, the
sort of the reports, and the operators on sequences that the split, the repair, the mesh and the
selection are made of.

All safety properties of the runs are proved. What is left is to carry the models further (section 7), and with them the
theorems.
