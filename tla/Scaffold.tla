------------------------------ MODULE Scaffold ------------------------------
(***************************************************************************)
(* The out-of-tree builds of src/scaffold: ScaffoldBuildPipeline as        *)
(* build_command runs it, ScaffoldEngine as scaffold_command does, and     *)
(* DiagnosticRecoveryRunner.  Builds follow one another into one           *)
(* distribution directory, the sources are edited between them, and a      *)
(* build may be killed wherever it stands.                                 *)
(***************************************************************************)
EXTENDS RustShield, Decomposition

\* In a directory of its own: no source's file name is this.
PythonTests == "tests/test_package_loading.py"

CONSTANTS
  Requests,    \* what a user may ask for: a blueprint, or a command line
  Sources,     \* what the source entries may hold: sequences of texts
  max_retries, \* of the recovery runner; the engine passes 1
  MaxEdits,    \* bound: edits of the sources
  MaxBuilds    \* bound: builds

ASSUME ScaffoldAssumption ==
  /\ max_retries \in Nat /\ MaxEdits \in Nat /\ MaxBuilds \in Nat
  /\ \A r \in Requests :
       /\ r.caller \in {"build", "scaffold"}
       /\ r.mapping \in Seq([file : STRING, symbols : SUBSET STRING])
       /\ r.default \in {"main.py", "app.py", "cli.py"}
       /\ r.caller = "scaffold" => /\ r.language = "undeclared" /\ r.mapping = <<>>
                                   /\ r.shims = AutoShims /\ ~r.tests
  /\ \A s \in Sources :
       /\ s.rust \in {Text(holds) : holds \in SUBSET Features}
       /\ s.scripts \in Seq(Seq(Statements)) /\ s.scripts # <<>>
       /\ s.name # PythonTests

VARIABLES
  source, \* the source entries: tag and name those of the first, py if that ends
          \* with .py, its text if it is Rust, the scripts if not, and whether
          \* all of them are found
  edits,  \* how often they were edited
  builds, \* how many builds were started
  dir,    \* the distribution directory: a function of the files there
  run,    \* the build that is running: its request and how far it is
  exit    \* how the last build ended

vars == <<source, edits, builds, dir, run, exit>>

Idle == [at |-> "idle"]

Init ==
  /\ source \in Sources
  /\ edits = 0 /\ builds = 0
  /\ dir = <<>>
  /\ run = Idle
  /\ exit = "none"

-----------------------------------------------------------------------------
(* Routing.                                                                *)

Supported == {"rust", "python"}

\* resolve_target_language: declared, or that of the first entry, or rust.
Language(r) ==
  IF r.language \in Supported THEN r.language
  ELSE IF source.tag \in Supported THEN source.tag
  ELSE "rust"

\* resolve_source_entry finds each entry, relative to one of its bases.
Found == source.found

\* create() refuses a distribution directory within the tool's own tree.
Misplaced(r) == r.inside_tool

Modular(r) == Language(r) = "python" /\ r.mapping # <<>>

\* _shield_rust: a source that is not Rust is taken as it is.
Shielded(r) == IF source.tag = "rust" THEN Apply(source.rust, r.shims) ELSE source.rust

\* Several entries are merged for a split only; else the first is taken.
Merged(r) == Modular(r) /\ Len(source.scripts) > 1

PythonText(r) == IF Merged(r) THEN MergeSources(source.scripts) ELSE source.scripts[1]

Script(r) == IF Merged(r) THEN "main.py" ELSE source.name

\* Files of whose text nothing here depends on, written in one step.
Assets(names) == <<[files |-> names, text |-> <<>>]>>

File(name, text) == [files |-> {name}, text |-> text]

\* infer_dependencies, of the shielded source.
Cargo(text) == File("Cargo.toml", detect_anchors(text))

\* generate_repo, and copy_into_workspace once more over lib.rs.
RustLayout(text) ==
  <<Cargo(text), File("src/lib.rs", text)>>
    \o Assets({".gitignore", "README.md", "test_binding.py"})
    \o <<File("src/lib.rs", text)>>

\* choose_entry_filename; the default is what the project's name makes it.
EntryFile(r) == IF source.py /\ source.name # Init_py THEN source.name ELSE r.default

\* generate_python_repo
PythonLayout(text, entry) ==
  <<File(entry, text)>>
    \o Assets({"pyproject.toml", "requirements.txt", ".gitignore", "README.md"})

\* generate_test_matrix
Tests(r) ==
  IF ~r.tests THEN <<>>
  ELSE Assets({IF Language(r) = "python" THEN PythonTests
               ELSE "tests/binding_validation.rs"})

\* The files a build writes, in order; what it writes is fixed when it reads
\* the sources.
RustPlan(r)   == RustLayout(Shielded(r)) \o Tests(r)
PythonPlan(r) == PythonLayout(PythonText(r), EntryFile(r)) \o Tests(r)
SplitPlan(r)  ==
  LET split == Decomposed(PythonText(r), r.mapping, Script(r), r.prune)
  IN [i \in DOMAIN split |-> File(split[i].file, split[i].text)] \o Tests(r)

Plan(r) ==
  CASE Language(r) = "rust" -> RustPlan(r)
    [] Modular(r)           -> SplitPlan(r)
    [] OTHER                -> PythonPlan(r)
-----------------------------------------------------------------------------
(* One build.                                                              *)

MayStart == run = Idle /\ builds < MaxBuilds /\ builds' = builds + 1

Ends(code) == run' = Idle /\ exit' = code

\* build_command reports SourceEntryNotFound and every ValueError, which
\* WorkspaceLocationError and DecompositionError are; scaffold_command gives
\* no mapping, and reports the two others.
Refuse(r) ==
  /\ MayStart
  /\ \/ ~Found
     \/ Misplaced(r)
     \/ Modular(r) /\ Refusal(PythonText(r), r.mapping) # Fine
  /\ Ends("1")
  /\ UNCHANGED <<source, edits, dir>>

Begin(r) ==
  /\ MayStart
  /\ Found /\ ~Misplaced(r)
  /\ Modular(r) => Refusal(PythonText(r), r.mapping) = Fine
  /\ run' = [at |-> "write", request |-> r, language |-> Language(r), plan |-> Plan(r),
             left |-> Plan(r), script |-> Script(r), attempt |-> 1, read |->
               IF Language(r) = "rust" THEN Shielded(r) ELSE PythonText(r)]
  /\ exit' = "running"
  /\ UNCHANGED <<source, edits, dir>>

\* A regression: what is there already is kept.
PutIfMissing(files, text) ==
  dir' = [f \in files \cup DOMAIN dir |-> IF f \in DOMAIN dir THEN dir[f] ELSE text]

Put(files, text) ==
  dir' = [f \in files \cup DOMAIN dir |-> IF f \in files THEN text ELSE dir[f]]

Write ==
  /\ run.at = "write" /\ run.left # <<>>
  /\ Put(Head(run.left).files, Head(run.left).text)
  /\ run' = [run EXCEPT !.left = Tail(@)]
  /\ UNCHANGED <<source, edits, builds, exit>>

\* The exit code of a build that got through.  Of a Python project
\* scaffold_command prints the crate type, which its spec has none of.
Code(ok) ==
  IF run.request.caller = "scaffold" /\ run.language = "python" THEN "KeyError"
  ELSE IF ok THEN "0" ELSE "1"

Written ==
  /\ run.at = "write" /\ run.left = <<>>
  /\ IF ~run.request.build THEN Ends(Code(TRUE))
     ELSE /\ run' = [run EXCEPT !.at = IF run.language = "rust" THEN "cargo" ELSE "validate"]
          /\ UNCHANGED exit
  /\ UNCHANGED <<source, edits, builds, dir>>

\* validate_workspace: every *.py below the directory, whoever wrote it.
PyFiles ==
  DOMAIN dir \ ({"src/lib.rs", "Cargo.toml"} \cup (IF source.py THEN {} ELSE {source.name}))

Validate ==
  /\ run.at = "validate"
  /\ Ends(Code(\A f \in PyFiles : Compiles(dir[f])))
  /\ UNCHANGED <<source, edits, builds, dir>>

\* cargo: no toolchain is a failure that nothing is tried upon; what uses a
\* crate the manifest lacks does not compile.
CargoFinds ==
  Diagnosed(dir["src/lib.rs"])
    \cup (IF detect_anchors(dir["src/lib.rs"]) \subseteq dir["Cargo.toml"] THEN {} ELSE {"broken"})

NoToolchain ==
  /\ run.at = "cargo" /\ run.attempt = 1
  /\ Ends(Code(FALSE))
  /\ UNCHANGED <<source, edits, builds, dir>>

\* A regression: the last attempt is corrected too.
MayCorrectAlways == TRUE

MayCorrect == run.attempt <= max_retries

\* DiagnosticRecoveryRunner.run(): one attempt and what follows it.
Cargo_build ==
  /\ run.at = "cargo"
  /\ LET text      == dir["src/lib.rs"]
         output    == CargoFinds
         corrected == correct_from_diagnostics(text, output)
     IN IF output = {}
        THEN Ends(Code(TRUE)) /\ UNCHANGED dir
        ELSE IF MayCorrect /\ is_recoverable(output) /\ corrected # text
        THEN /\ Put({"src/lib.rs"}, corrected)
             /\ IF run.attempt <= max_retries
                THEN run' = [run EXCEPT !.attempt = @ + 1] /\ UNCHANGED exit
                ELSE Ends(Code(FALSE))
        ELSE Ends(Code(FALSE)) /\ UNCHANGED dir
  /\ UNCHANGED <<source, edits, builds>>

\* A kill; write_text may have emptied the file it was at.
Killed ==
  /\ run # Idle
  /\ Ends("killed")
  /\ \/ UNCHANGED dir
     \/ run.at = "write" /\ run.left # <<>> /\ Put(Head(run.left).files, <<>>)
  /\ UNCHANGED <<source, edits, builds>>

Edit ==
  /\ edits < MaxEdits
  /\ edits' = edits + 1
  /\ source' \in {s \in Sources : s.tag = source.tag /\ s.name = source.name}
  /\ UNCHANGED <<builds, dir, run, exit>>

Next ==
  \/ \E r \in Requests : Refuse(r) \/ Begin(r)
  \/ Write \/ Written \/ Validate \/ NoToolchain \/ Cargo_build
  \/ Killed \/ Edit

Spec == Init /\ [][Next]_vars
-----------------------------------------------------------------------------
Complete == run.at # "idle" /\ run.left = <<>>

Planned(file) ==
  run.plan[CHOOSE i \in DOMAIN run.plan :
             /\ file \in run.plan[i].files
             /\ \A j \in DOMAIN run.plan : j > i => file \notin run.plan[j].files].text

\* What is compiled or validated is what this build has read, shielded and
\* split: nothing an earlier build wrote, corrected, or was killed in the
\* middle of, stands in a file of this one.
BuildsWhatItRead ==
  Complete /\ run.attempt = 1 => 
    \A file \in UNION {run.plan[i].files : i \in DOMAIN run.plan} : dir[file] = Planned(file)

\* No step that ends a Rust build changes lib.rs: recovery.py makes no
\* correction it has no attempt left to compile. (A kill between the two may
\* leave one.)
NothingUncompiledIsLeft ==
  [][run.at = "cargo" /\ run' = Idle => dir' = dir]_vars

\* While cargo runs, lib.rs differs from the source as it was read only in
\* rewrites that cargo's first output called for: a let of a name that could not
\* be borrowed mutably, and usize on the tables when types did not match, of a
\* table or of anything else.
CorrectionsAnswerErrors ==
  run.at = "cargo" /\ dir["src/lib.rs"] # run.read
    => LET added == dir["src/lib.rs"].made \ run.read.made
       IN /\ run.attempt > 1
          /\ "mut" \in added => "let" \in Diagnosed(run.read)
          /\ "mut namesake" \in added => "parameter" \in Diagnosed(run.read)
          /\ "usize" \in added => Diagnosed(run.read) \cap Mismatches # {}

Split == Complete /\ run.language = "python" /\ run.request.mapping # <<>>

\* A target named like the script, or like the tests that are asked for: they
\* are written later, over it.
OverTarget(file) == file = run.script \/ (run.request.tests /\ file = PythonTests)

\* Splitting loses no definition and doubles none: each of the script's stands
\* in one of the files, as often as the script had it, also where one name is
\* defined twice or two keys of the mapping give one file.  The exception: a
\* target that has the name of the script, or of the tests.
NothingLost ==
  Split =>
    LET mapping == Normalized(run.request.mapping)
        Count(file, s) == Cardinality({i \in DOMAIN file : file[i] = s})
        Files == {mapping[i].file : i \in DOMAIN mapping} \cup {run.script}
    IN \A k \in DOMAIN run.read :
         IsDef(run.read[k]) =>
           \/ /\ NameOf(run.read[k]) \in Mapped(mapping)
              /\ OverTarget(TargetOf(mapping, NameOf(run.read[k])))
           \/ LET Has(f) == Count(dir[f], run.read[k])
              IN Cardinality({f \in Files : Has(f) > 0}) = 1
                 /\ \E f \in Files : Has(f) = Count(run.read, run.read[k])

\* A name that a moved definition refers to, and that an import or a moved
\* definition bound in the script, is bound in its new module, pruned or not,
\* and so is a name of an import that only its strings spell; and what one of
\* the files imports from another is defined there.
NamesBound ==
  Split =>
    LET mapping  == Normalized(run.request.mapping)
        Imported == UNION {run.read[k].binds : k \in
                      {j \in DOMAIN run.read : IsImport(run.read[j])}}
        Bound(f) == UNION {dir[f][i].binds : i \in DOMAIN dir[f]}
    IN \A f \in {mapping[i].file : i \in DOMAIN mapping} :
         ~OverTarget(f) =>
           /\ Used(dir[f]) \cap (Mapped(mapping) \cup Imported) \subseteq Bound(f)
           /\ Spelt(dir[f]) \cap Imported \subseteq Bound(f)
           /\ \A i \in DOMAIN dir[f] : LET s == dir[f][i] IN
                s.from # NoModule /\ ~OverTarget(s.from) =>
                  \A n \in s.binds : \E j \in DOMAIN dir[s.from] :
                    IsDef(dir[s.from][j]) /\ n \in dir[s.from][j].binds
=============================================================================
