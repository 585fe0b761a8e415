------------------------ MODULE TranslationPipeline ------------------------
(***************************************************************************)
(* run_translation_pipeline of translator/translation_pipeline.py with     *)
(* the differential sandbox of diff_sandbox.py, and run_pipeline of        *)
(* pipeline.py, which writes its recipes to the same directory.            *)
(*                                                                         *)
(* Runs follow one another; each of its phases opens the source file anew, *)
(* which its author may edit at any time, and a run may be killed between  *)
(* two steps.  meta_compiler, which both pipelines import, is not part of  *)
(* the repository: it accepts recipes, refuses them or is missing.         *)
(***************************************************************************)
EXTENDS AeroTranslator

CONSTANTS
  Sources,        \* paths of source files
  Base,           \* the name of each without directory and extension
  Versions,       \* what a source file may hold
  Names,          \* the values of function_names; <<>> stands for None
  Untested,       \* the functions with an empty list of test inputs
  Scans,          \* what run_pipeline may find in the directory it scans
  MaxEdits, MaxRuns

\* Neither a recipe that is not there nor one of a hot path is that of a source.
ASSUME PipelineAssumption ==
  /\ Sources \cap {"", "hotpaths"} = {}
  /\ \A file \in Versions : IsSource(file)
  /\ \A names \in Names : names \in Seq(STRING)
  /\ \A scan \in Scans : scan \in Seq(Range(scan))

VARIABLES
  files,          \* what each source file holds
  recipes,        \* by name: the recipe in the blueprint directory, if any
  flags,          \* functions with a file in .flags
  wrappers,       \* by base: the FFI module written last
  run,            \* the run under way
  edits, runs,    \* bounds
  rejected        \* history: the sources whose last run rolled back

vars == <<files, recipes, flags, wrappers, run, edits, runs, rejected>>

HotPathName(k) == "hp" \o ToString(k)

Slots == Range(Base) \cup {HotPathName(k) : k \in 0..3}
Absent == [path |-> "", tasks |-> <<>>, from |-> <<>>]
Idle == [phase |-> "idle"]

Init ==
  /\ files \in [Sources -> Versions]
  /\ recipes = [s \in Slots |-> Absent]
  /\ flags = {}
  /\ wrappers = [s \in Range(Base) |-> {}]
  /\ run = Idle
  /\ edits = 0 /\ runs = 0
  /\ rejected = {}

Edit(p) ==
  /\ edits < MaxEdits
  /\ \E v \in Versions \ {files[p]} :
       files' = [files EXCEPT ![p] = v]
  /\ edits' = edits + 1
  /\ UNCHANGED <<recipes, flags, wrappers, run, runs, rejected>>

\* The arguments of a call; untested are the functions for which the caller's
\* map of test inputs has an empty list.
Start(p, names, untested, compiler, write) ==
  /\ run = Idle /\ runs < MaxRuns
  /\ runs' = runs + 1
  /\ run' = [phase |-> "ffi", path |-> p, names |-> names, untested |-> untested,
             compiler |-> compiler, write_recipe |-> write,
             cold |-> {}, routed |-> <<>>, translated |-> <<>>, recipe |-> <<>>, todo |-> <<>>,
             functions_rejected |-> 0]
  /\ rejected' = rejected \ {p}
  /\ UNCHANGED <<files, recipes, flags, wrappers, edits>>

\* Phase 0a: written also for a dry run.
AnalyzeFfi ==
  /\ run.phase = "ffi"
  /\ LET found == ffi_wrappers(files[run.path])
     IN wrappers' = IF found = {} THEN wrappers ELSE [wrappers EXCEPT ![Base[run.path]] = found]
  /\ run' = [run EXCEPT !.phase = "route"]
  /\ UNCHANGED <<files, recipes, flags, edits, runs, rejected>>

\* Phase 0b.
Route ==
  /\ run.phase = "route"
  /\ run' = [run EXCEPT !.phase = "translate", !.cold = cold_names(files[run.path]),
                        !.routed = files[run.path]]
  /\ UNCHANGED <<files, recipes, flags, wrappers, edits, runs, rejected>>

\* Phases 1 to 3: nothing to translate and blocked by entropy both end the
\* run, and the recipe of an earlier one stays.  Whether the entropy of tokens
\* and lines suffices (rich) is left open.
Translate(rich) ==
  /\ run.phase = "translate"
  /\ LET file      == files[run.path]
         active    == Picked(run.names, {k \in DOMAIN run.names : run.names[k] \notin run.cold})
         all       == IF run.names # <<>> /\ active = <<>> THEN <<>> ELSE translate_file(file, active)
         functions == Picked(all, {k \in DOMAIN all :
                                     all[k].name \notin run.cold /\ Translatable(all[k])})
         recipe    == translated_to_recipe(functions)
     IN run' = IF functions = <<>> \/ ~(Diverse(recipe) /\ rich) THEN Idle
               ELSE [run EXCEPT !.phase = "verify", !.translated = file, !.recipe = recipe,
                                !.todo = [k \in DOMAIN functions |-> functions[k].name]]
  /\ UNCHANGED <<files, recipes, flags, wrappers, edits, runs, rejected>>

\* What a call of the function by its name comes to.  Both sides import the
\* source file and call what the module has under the name: the last function
\* defined at its top level; methods and nested functions are not found.
Outcome(file, name) ==
  LET tops == {d \in DOMAIN file.defs : file.defs[d].name = name /\ file.defs[d].top}
      last == CHOOSE d \in tops : \A e \in tops : e <= d
  IN IF ~file.parses THEN "SyntaxError"
     ELSE IF tops = {} THEN "not found"
     ELSE file.defs[last].outcome

Succeeded(outcome) == outcome \in {"returns", "varies"}

\* execute_translated: the recipe has to compile, then the same function runs.
Translated(file, name) ==
  IF run.compiler = "accepts" THEN Outcome(file, name) ELSE "the compiler's error"

\* run_differential, for any of its inputs: equal values, or equal errors.
Matches(file, name) ==
  LET legacy     == Outcome(file, name)
      translated == Translated(file, name)
  IN {m \in BOOLEAN :
        IF Succeeded(legacy) /\ Succeeded(translated) THEN m \/ legacy = "varies"
        ELSE m = (legacy = translated)}

\* A regression: the verdict on the last function is that on all.
LastVerdict(n, match) == IF match THEN 0 ELSE 1

Rejections(n, match) == IF match THEN n ELSE n + 1

Passed(match) ==
  run' = [run EXCEPT !.phase = "verify", !.todo = Tail(@),
                     !.functions_rejected = Rejections(@, match)]

\* Phase 4, one function: the verdict of verify_translation.  Without inputs a
\* function is passed over.
Verify ==
  /\ run.phase = "verify" /\ run.todo # <<>>
  /\ LET name == Head(run.todo)
     IN IF name \in run.untested THEN run' = [run EXCEPT !.todo = Tail(@)]
        ELSE \E match \in Matches(files[run.path], name) :
               IF match THEN Passed(TRUE) ELSE run' = [run EXCEPT !.phase = "rollback"]
  /\ UNCHANGED <<files, recipes, flags, wrappers, edits, runs, rejected>>

\* apply_rollback: os.remove(recipe_path)
Rollback ==
  /\ run.phase = "rollback"
  /\ recipes' = [recipes EXCEPT ![Base[run.path]] = Absent]
  /\ run' = [run EXCEPT !.phase = "flag"]
  /\ rejected' = rejected \cup {run.path}
  /\ UNCHANGED <<files, flags, wrappers, edits, runs>>

\* The rest of apply_rollback, and the count of the pipeline.
Flag ==
  /\ run.phase = "flag"
  /\ flags' = flags \cup {Head(run.todo)}
  /\ Passed(FALSE)
  /\ UNCHANGED <<files, recipes, wrappers, edits, runs, rejected>>

\* Phase 5: aborted, a dry run, or open(recipe_path, "w").
Decide ==
  /\ run.phase = "verify" /\ run.todo = <<>>
  /\ IF run.functions_rejected = 0 /\ run.write_recipe
     THEN /\ recipes' = [recipes EXCEPT ![Base[run.path]] = [Absent EXCEPT !.path = run.path]]
          /\ run' = [run EXCEPT !.phase = "write"]
     ELSE run' = Idle /\ UNCHANGED recipes
  /\ UNCHANGED <<files, flags, wrappers, edits, runs, rejected>>

\* f.write(recipe_body)
Write ==
  /\ run.phase = "write"
  /\ recipes' = [recipes EXCEPT ![Base[run.path]] =
                   [path |-> run.path, tasks |-> run.recipe,
                    from |-> <<[file |-> run.translated, routed |-> run.routed]>>]]
  /\ run' = Idle
  /\ UNCHANGED <<files, flags, wrappers, edits, runs, rejected>>

Kill ==
  /\ run # Idle
  /\ run' = Idle
  /\ UNCHANGED <<files, recipes, flags, wrappers, edits, runs, rejected>>

\* run_pipeline: a recipe to each hot path; one that does not compile stays.
\* Recipes of groups that are gone, or numbered differently now, stay as well.
MapHotPaths(scan) ==
  /\ run = Idle /\ runs < MaxRuns
  /\ runs' = runs + 1
  /\ LET hotpaths == identify_hotpaths(scan)
     IN recipes' = [s \in Slots |->
          IF \E hp \in hotpaths : s = HotPathName(hp.id)
          THEN [Absent EXCEPT !.path = "hotpaths",
                  !.tasks = hotpath_to_recipe(CHOOSE hp \in hotpaths : s = HotPathName(hp.id))]
          ELSE recipes[s]]
  /\ UNCHANGED <<files, flags, wrappers, run, edits, rejected>>

Next ==
  \/ \E p \in Sources : Edit(p)
  \/ \E p \in Sources, names \in Names, untested \in Untested,
        compiler \in {"accepts", "fails"}, write \in BOOLEAN :
       Start(p, names, untested, compiler, write)
  \/ AnalyzeFfi \/ Route \/ (\E rich \in BOOLEAN : Translate(rich))
  \/ Verify \/ Rollback \/ Flag \/ Decide \/ Write \/ Kill
  \/ \E scan \in Scans : MapHotPaths(scan)

Spec == Init /\ [][Next]_vars
-----------------------------------------------------------------------------
Written == {r \in Range(recipes) : r.from # <<>>}

\* No recipe has a task for code the router finds untranslatable, whatever it
\* is named by: a duplicate, a method or a function inside another one -- as
\* long as the file was not edited between routing and translation
\* (cold_pass_router.py: "leaving them untouched").
ColdStaysOut ==
  \A r \in Written :
    r.from[1].file = r.from[1].routed =>
      \A k \in DOMAIN r.tasks : r.tasks[k].def # 0 =>
        Reasons(r.from[1].file, r.tasks[k].def) = {}

\* Once a run over a source has rolled back a function there is no recipe of
\* it, neither that run's, whatever its later verdicts, nor an earlier one's,
\* after dry runs and kills as well (diff_sandbox.py: "automatic rollback").
\* A run killed between the verdict and the removal leaves the earlier recipe.
RejectedLeavesNoRecipe ==
  \A s \in Slots : recipes[s].path \notin rejected

\* Whatever its functions hold, a mesh keeps within its caps and ends with its
\* final task; only a killed write leaves an empty one.
MeshWithinGuardrails ==
  \A r \in Range(recipes) : r.tasks # <<>> =>
    /\ Len(r.tasks) <= MaxNodes
    /\ r.tasks[1] = InitTask /\ r.tasks[Len(r.tasks)] = FinalTask
    /\ \A k \in DOMAIN r.tasks :
         Cardinality({l \in DOMAIN r.tasks : r.tasks[l].family = r.tasks[k].family}) <= MaxFamily
=============================================================================
