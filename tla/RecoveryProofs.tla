--------------------------- MODULE RecoveryProofs ---------------------------
(***************************************************************************)
(* Proofs about scaffold builds: the files they write, the corrections of  *)
(* Rust sources and the split of Python scripts.                           *)
(***************************************************************************)
EXTENDS Scaffold, PickingProofs, FiniteSetTheorems, NaturalsInduction, SequenceTheorems

-----------------------------------------------------------------------------
(* The files of a build.                                                   *)

Listed(s) == {s[i] : i \in DOMAIN s}

IsSequence(s) == s \in Seq(Listed(s))

Fields == {"at", "request", "language", "plan", "left", "script", "attempt", "read"}

Done == Len(run.plan) - Len(run.left)

\* Each file the first n entries of the plan name is there, as the last of
\* them to name it has written it.
WrittenUpTo(n) ==
  \A i \in 1..n : \A f \in run.plan[i].files :
    (\A j \in 1..n : j > i => f \notin run.plan[j].files)
      => f \in DOMAIN dir /\ dir[f] = run.plan[i].text

PlanOK ==
  /\ IsSequence(run.plan)
  /\ Done \in 0..Len(run.plan)
  /\ run.left = [k \in 1..(Len(run.plan) - Done) |-> run.plan[Done + k]]
  /\ run.attempt = 1 => WrittenUpTo(Done)

FilesInv ==
  run # Idle =>
    /\ DOMAIN run = Fields
    /\ run.at \in {"write", "cargo", "validate"}
    /\ run.at # "write" => run.left = <<>>
    /\ run.at # "cargo" => run.attempt = 1
    /\ run.attempt \in Nat \ {0}
    /\ PlanOK

LEMMA ListedSequence == ASSUME NEW S, NEW s \in Seq(S) PROVE IsSequence(s)
BY DEF IsSequence, Listed

LEMMA ListedConcat ==
  ASSUME NEW s, NEW t, IsSequence(s), IsSequence(t) PROVE IsSequence(s \o t)
<1> DEFINE S == Listed(s) \cup Listed(t)
<1>1. s \in Seq(S) /\ t \in Seq(S)
  BY DEF IsSequence, Listed
<1>2. s \o t \in Seq(S)
  BY <1>1
<1> QED BY <1>2, ListedSequence

LEMMA AssetsSequence == ASSUME NEW names PROVE IsSequence(Assets(names))
BY DEF Assets, IsSequence, Listed

LEMMA TestsSequence == ASSUME NEW r PROVE IsSequence(Tests(r))
<1>1. IsSequence(<<>>)
  BY DEF IsSequence, Listed
<1> QED BY <1>1, AssetsSequence DEF Tests

LEMMA RustPlanSequence == ASSUME NEW r PROVE IsSequence(RustPlan(r))
<1> DEFINE text == Shielded(r)
<1>1. IsSequence(<<Cargo(text), File("src/lib.rs", text)>>) /\ IsSequence(<<File("src/lib.rs", text)>>)
  BY DEF IsSequence, Listed
<1>2. IsSequence(RustLayout(text))
  BY <1>1, AssetsSequence, ListedConcat DEF RustLayout
<1> QED BY <1>2, TestsSequence, ListedConcat DEF RustPlan

LEMMA PythonPlanSequence == ASSUME NEW r PROVE IsSequence(PythonPlan(r))
<1>1. IsSequence(<<File(EntryFile(r), PythonText(r))>>)
  BY DEF IsSequence, Listed
<1>2. IsSequence(PythonLayout(PythonText(r), EntryFile(r)))
  BY <1>1, AssetsSequence, ListedConcat DEF PythonLayout
<1> QED BY <1>2, TestsSequence, ListedConcat DEF PythonPlan

LEMMA PickedSequence ==
  ASSUME NEW text, NEW n \in Nat, DOMAIN text = 1..n, NEW K \in SUBSET (1..n)
  PROVE  IsSequence(Picked(text, K)) /\ Len(Picked(text, K)) = Cardinality(K)
<1>1. Cardinality(K) \in Nat
  BY PositionsFinite
<1> QED BY <1>1 DEF Picked, IsSequence, Listed

MappingsGiven == Seq([file : STRING, symbols : SUBSET STRING])

LEMMA NormalizedSequence ==
  ASSUME NEW mapping \in MappingsGiven PROVE IsSequence(Normalized(mapping))
<1> DEFINE files == [i \in DOMAIN mapping |-> mapping[i].file]
<1>1. DOMAIN files = 1..Len(mapping) /\ Len(mapping) \in Nat
  BY DEF MappingsGiven
<1>2. IsSequence(First(files))
  BY <1>1, PickedSequence DEF First
<1>3. PICK n \in Nat : DOMAIN First(files) = 1..n
  BY <1>2 DEF IsSequence
<1> HIDE DEF files
<1>4. Normalized(mapping) = [k \in 1..n |-> Normalized(mapping)[k]]
  BY <1>3 DEF Normalized, files
<1> QED BY <1>4 DEF IsSequence, Listed

LEMMA PlanSequence == ASSUME NEW r \in Requests PROVE IsSequence(Plan(r))
<1>1. r.mapping \in MappingsGiven
  BY ScaffoldAssumption DEF MappingsGiven
<1> DEFINE text   == PythonText(r)
           script == Script(r)
           split  == Decomposed(text, r.mapping, script, r.prune)
           normal == Normalized(r.mapping)
           modules == [i \in DOMAIN normal |->
              [file |-> normal[i].file, text |-> Module(text, normal, normal[i].file, r.prune)]]
           last == <<[file |-> Init_py, text |-> <<>>],
                     [file |-> script, text |-> Orchestrator(text, normal)]>>
<1>2. IsSequence(normal)
  BY <1>1, NormalizedSequence
<1> HIDE DEF normal
<1>3. IsSequence(modules)
  BY <1>2 DEF IsSequence, Listed
<1>4. IsSequence(last)
  BY DEF IsSequence, Listed
<1>5. split = modules \o last
  BY DEF Decomposed, normal
<1>6. IsSequence(split)
  BY <1>3, <1>4, <1>5, ListedConcat
<1> HIDE DEF split
<1>7. IsSequence([i \in DOMAIN split |-> File(split[i].file, split[i].text)])
  BY <1>6 DEF IsSequence, Listed
<1>8. IsSequence(SplitPlan(r))
  BY <1>7, TestsSequence, ListedConcat DEF SplitPlan, split
<1> QED BY <1>8, RustPlanSequence, PythonPlanSequence DEF Plan

-----------------------------------------------------------------------------

LEMMA FilesInit == Init => FilesInv
BY DEF Init, FilesInv

LEMMA BeginFiles == ASSUME NEW r \in Requests, Begin(r) PROVE FilesInv'
<1>1. IsSequence(Plan(r))
  BY PlanSequence
<1>2. /\ run'.plan = Plan(r) /\ run'.left = Plan(r) /\ run'.attempt = 1
      /\ run'.at = "write" /\ DOMAIN run' = Fields
  BY DEF Begin, Fields
<1>3. Done' = 0
  BY <1>1, <1>2 DEF Done, IsSequence
<1>4. PlanOK'
  BY <1>1, <1>2, <1>3 DEF PlanOK, WrittenUpTo, IsSequence
<1> QED BY <1>2, <1>4 DEF FilesInv

LEMMA WriteFiles == ASSUME FilesInv, Write PROVE FilesInv'
<1>1. /\ run # Idle /\ PlanOK /\ DOMAIN run = Fields /\ run.at = "write" /\ run.left # <<>>
      /\ run.attempt = 1 /\ run.attempt \in Nat \ {0}
  BY DEF Write, FilesInv, Idle
<1>2. PICK N \in Nat, n \in Nat :
        n <= N /\ N = Len(run.plan) /\ n = Done /\ run.left = [k \in 1..(N - n) |-> run.plan[n + k]]
  <2>1. Len(run.plan) \in Nat
    BY <1>1 DEF PlanOK, IsSequence
  <2>2. Done \in Nat /\ Done <= Len(run.plan)
    BY <2>1, <1>1 DEF PlanOK
  <2> QED BY <2>1, <2>2, <1>1 DEF PlanOK
<1> DEFINE entry == run.plan[n + 1]
<1>3. n < N
  BY <1>1, <1>2
<1>4. Head(run.left) = entry /\ Tail(run.left) = [k \in 1..(N - (n + 1)) |-> run.plan[n + 1 + k]]
  BY <1>2, <1>3, SMTT(30)
<1>5. /\ run'.plan = run.plan /\ run'.left = Tail(run.left) /\ run'.attempt = run.attempt
      /\ run'.at = "write" /\ DOMAIN run' = Fields
  BY <1>1 DEF Write, Fields
<1>6. Done' = n + 1
  <2>1. N - (n + 1) \in Nat
    BY <1>2, <1>3
  <2>2. PICK m \in Nat : m = N - (n + 1)
    BY <2>1
  <2>3. run'.left = [k \in 1..m |-> run.plan[n + 1 + k]]
    BY <2>2, <1>4, <1>5
  <2>4. Len(run'.left) = m
    BY <2>3
  <2> QED BY <2>2, <2>4, <1>2, <1>5 DEF Done
<1>7. ASSUME run.attempt = 1, NEW i \in 1..(n + 1), NEW f \in run.plan[i].files,
             \A j \in 1..(n + 1) : j > i => f \notin run.plan[j].files
      PROVE  f \in DOMAIN dir' /\ dir'[f] = run.plan[i].text
  <2>1. dir' = [g \in entry.files \cup DOMAIN dir |-> IF g \in entry.files THEN entry.text ELSE dir[g]]
    BY <1>4 DEF Write, Put
  <2>2. CASE i = n + 1
    BY <2>1, <2>2, <1>7
  <2>3. CASE i # n + 1
    <3>1. i \in 1..n /\ f \notin entry.files
      BY <2>3, <1>2, <1>7
    <3>2. f \in DOMAIN dir /\ dir[f] = run.plan[i].text
      BY <3>1, <1>1, <1>2, <1>7 DEF PlanOK, WrittenUpTo
    <3> QED BY <2>1, <3>1, <3>2
  <2> QED BY <2>2, <2>3
<1>8. run.attempt = 1 => WrittenUpTo(n + 1)'
  BY <1>5, <1>7 DEF WrittenUpTo
<1>9. PlanOK'
  <2>1. IsSequence(run.plan)' /\ Len(run'.plan) = N /\ n + 1 \in 0..N
    BY <1>1, <1>2, <1>3, <1>5 DEF PlanOK, IsSequence, Listed
  <2>2. run'.left = [k \in 1..(N - (n + 1)) |-> run'.plan[n + 1 + k]]
    BY <1>4, <1>5
  <2>3. run'.attempt = 1 => WrittenUpTo(Done)'
    BY <1>5, <1>6, <1>8 DEF WrittenUpTo
  <2> QED BY <2>1, <2>2, <2>3, <1>6 DEF PlanOK
<1> QED BY <1>1, <1>5, <1>9 DEF FilesInv

LEMMA FilesStay == ASSUME FilesInv, UNCHANGED <<run, dir>> PROVE FilesInv'
<1>1. ASSUME PlanOK PROVE PlanOK'
  <2>1. Done' = Done
    BY DEF Done
  <2>2. WrittenUpTo(Done) => WrittenUpTo(Done)'
    BY <2>1 DEF WrittenUpTo
  <2> QED BY <1>1, <2>1, <2>2 DEF PlanOK, IsSequence, Listed
<1> QED BY <1>1 DEF FilesInv

LEMMA WrittenFiles == ASSUME FilesInv, Written PROVE FilesInv'
<1>1. /\ run # Idle /\ PlanOK /\ DOMAIN run = Fields /\ run.left = <<>>
      /\ run.attempt = 1 /\ dir' = dir
  BY DEF Written, FilesInv, Idle
<1>2. CASE run' = Idle
  BY <1>2 DEF FilesInv
<1>3. CASE run' # Idle
  <2>1. /\ run'.plan = run.plan /\ run'.left = run.left /\ run'.attempt = run.attempt
        /\ run'.at \in {"cargo", "validate"} /\ DOMAIN run' = Fields
    BY <1>1, <1>3 DEF Written, Fields, Ends
  <2>2. PlanOK'
    BY <1>1, <2>1 DEF PlanOK, WrittenUpTo, Done, IsSequence, Listed
  <2> QED BY <1>1, <2>1, <2>2 DEF FilesInv
<1> QED BY <1>2, <1>3

LEMMA CargoFiles == ASSUME FilesInv, Cargo_build PROVE FilesInv'
<1>1. /\ run # Idle /\ PlanOK /\ DOMAIN run = Fields /\ run.left = <<>>
      /\ run.at = "cargo" /\ run.attempt \in Nat \ {0}
  BY DEF Cargo_build, FilesInv, Idle
<1>2. CASE run' = Idle
  BY <1>2 DEF FilesInv
<1>3. CASE run' # Idle
  <2>1. run' = [run EXCEPT !.attempt = @ + 1]
    BY <1>3 DEF Cargo_build, Ends
  <2>2. /\ run'.plan = run.plan /\ run'.left = run.left /\ run'.attempt = run.attempt + 1
        /\ run'.at = "cargo" /\ DOMAIN run' = Fields
    BY <1>1, <2>1 DEF Fields
  <2>3. PlanOK'
    BY <1>1, <2>2 DEF PlanOK, Done, IsSequence, Listed
  <2> QED BY <1>1, <2>2, <2>3 DEF FilesInv
<1> QED BY <1>2, <1>3

LEMMA FilesNext == FilesInv /\ [Next]_vars => FilesInv'
<1> SUFFICES ASSUME FilesInv, [Next]_vars PROVE FilesInv'
  OBVIOUS
<1>1. CASE \E r \in Requests : Refuse(r)
  BY <1>1 DEF Refuse, Ends, FilesInv
<1>2. CASE \E r \in Requests : Begin(r)
  BY <1>2, BeginFiles
<1>3. CASE Write
  BY <1>3, WriteFiles
<1>4. CASE Written
  BY <1>4, WrittenFiles
<1>5. CASE Cargo_build
  BY <1>5, CargoFiles
<1>6. CASE Validate \/ NoToolchain \/ Killed
  BY <1>6 DEF Validate, NoToolchain, Killed, Ends, FilesInv
<1>7. CASE Edit \/ UNCHANGED vars
  BY <1>7, FilesStay DEF Edit, vars
<1> QED BY <1>1, <1>2, <1>3, <1>4, <1>5, <1>6, <1>7 DEF Next

\* What a build has written of its plan stands in the directory, whatever an
\* earlier or a killed build has left there, and what is left to write is the
\* rest of the plan.
THEOREM FilesInvariant == Spec => []FilesInv
BY FilesInit, FilesNext, PTL DEF Spec

\* Cargo finds the Rust source this build has read, with the rewrites of the
\* shield, and the validator the scripts it has read, though the user edits on.
THEOREM BuildsWhatItReadAlways == Spec => []BuildsWhatItRead
<1>1. FilesInv => BuildsWhatItRead
  <2> SUFFICES ASSUME FilesInv, Complete, run.attempt = 1,
                      NEW k \in DOMAIN run.plan, NEW f \in run.plan[k].files
               PROVE  dir[f] = Planned(f)
    BY DEF BuildsWhatItRead
  <2>1. run # Idle /\ PlanOK /\ run.left = <<>>
    BY DEF Complete, FilesInv, Idle
  <2>2. PICK N \in Nat : N = Len(run.plan) /\ DOMAIN run.plan = 1..N /\ Done = N
    BY <2>1 DEF PlanOK, IsSequence, Done
  <2> DEFINE K == {i \in 1..N : f \in run.plan[i].files}
             IsLast(i) == /\ f \in run.plan[i].files
                        /\ \A j \in DOMAIN run.plan : j > i => f \notin run.plan[j].files
  <2>3. \E i \in K : \A j \in K : j <= i
    BY <2>2, LastPosition
  <2>4. \E i \in DOMAIN run.plan : IsLast(i)
    BY <2>2, <2>3
  <2>5. PICK i \in DOMAIN run.plan : IsLast(i) /\ Planned(f) = run.plan[i].text
    BY <2>4 DEF Planned
  <2> QED BY <2>1, <2>2, <2>5, ZenonT(30) DEF PlanOK, WrittenUpTo
<1>2. QED
  BY <1>1, FilesInvariant, PTL
-----------------------------------------------------------------------------
(* Corrections.                                                            *)

\* The runner that corrects a source compiles it afterwards.
THEOREM NothingUncompiledIsLeftAlways == Spec => NothingUncompiledIsLeft
<1>1. ASSUME FilesInv, [Next]_vars, run.at = "cargo", run' = Idle PROVE dir' = dir
  <2>1. run # Idle /\ DOMAIN run = Fields
    BY <1>1 DEF FilesInv, Idle
  <2>2. CASE \E r \in Requests : Refuse(r) \/ Begin(r)
    BY <2>1, <2>2 DEF Refuse, Begin, MayStart
  <2>3. CASE Cargo_build
    <3>1. run' # [run EXCEPT !.attempt = @ + 1]
      BY <1>1, <2>1 DEF Idle, Fields
    <3> QED BY <2>3, <3>1 DEF Cargo_build, MayCorrect
  <2>4. CASE Write \/ Written \/ Validate \/ NoToolchain \/ Killed \/ Edit \/ UNCHANGED vars
    BY <1>1, <2>4 DEF Write, Written, Validate, NoToolchain, Killed, Edit, vars
  <2> QED BY <1>1, <2>2, <2>3, <2>4 DEF Next
<1>2. FilesInv /\ [Next]_vars => [run.at = "cargo" /\ run' = Idle => dir' = dir]_vars
  BY <1>1
<1> QED BY <1>2, FilesInvariant, PTL DEF Spec, NothingUncompiledIsLeft

lib_rs == "src/lib.rs"

Texts == [holds : SUBSET Features, made : SUBSET Rewrites]

\* What the rewrites made since the source was read say of it.
Called(text, read) ==
  /\ text \in Texts /\ text.holds = read.holds /\ read.made \subseteq text.made
  /\ "mut" \in text.made \ read.made => "let" \in Flaws(read)
  /\ "mut namesake" \in text.made \ read.made => "parameter" \in Flaws(read)
  /\ "usize" \in text.made \ read.made => Flaws(read) \cap Mismatches # {}
  /\ "traits" \notin text.made \ read.made

\* The same of one correction: it answers what cargo has said.
CalledNow(text, read) ==
  /\ "mut" \in text.made \ read.made => "let" \in Diagnosed(read)
  /\ "mut namesake" \in text.made \ read.made => "parameter" \in Diagnosed(read)
  /\ "usize" \in text.made \ read.made => Diagnosed(read) \cap Mismatches # {}

LibPlanned ==
  \E i \in DOMAIN run.plan :
    /\ lib_rs \in run.plan[i].files
    /\ run.plan[i].text = run.read
    /\ \A j \in DOMAIN run.plan : j > i => lib_rs \notin run.plan[j].files

LibInv ==
  /\ source \in Sources
  /\ run # Idle =>
       /\ run.language = "rust" => run.read \in Texts /\ LibPlanned
       /\ run.at = "cargo" =>
            /\ run.language = "rust"
            /\ Called(dir[lib_rs], run.read)
            /\ run.attempt = 1 => dir[lib_rs] = run.read
            /\ run.attempt <= max_retries + 1
            /\ max_retries <= 1 => CalledNow(dir[lib_rs], run.read)

LEMMA ShieldedText == ASSUME NEW r \in Requests, source \in Sources PROVE Shielded(r) \in Texts
<1>1. PICK holds \in SUBSET Features : source.rust = [holds |-> holds, made |-> {}]
  BY ScaffoldAssumption DEF Text
<1>2. source.rust \in Texts
  BY <1>1 DEF Texts
<1>3. ASSUME NEW text \in Texts
      PROVE  inject_extension_traits(text) \in Texts /\ align_match_types(text) \in Texts
  BY DEF inject_extension_traits, align_match_types, Texts, Rewrites
<1> QED BY <1>2, <1>3 DEF Shielded, Apply

LEMMA ConcatenatedLeft ==
  ASSUME NEW S, NEW s \in Seq(S), NEW t \in Seq(S), NEW i \in 1..Len(s)
  PROVE  (s \o t)[i] = s[i]
OBVIOUS

LEMMA ConcatenatedRight ==
  ASSUME NEW S, NEW s \in Seq(S), NEW t \in Seq(S), NEW i \in 1..Len(t)
  PROVE  (s \o t)[Len(s) + i] = t[i]
OBVIOUS

LEMMA RustPlanLib ==
  ASSUME NEW r, NEW plan, plan = RustPlan(r)
  PROVE  \E i \in DOMAIN plan :
           /\ lib_rs \in plan[i].files
           /\ plan[i].text = Shielded(r)
           /\ \A j \in DOMAIN plan : j > i => lib_rs \notin plan[j].files
<1> DEFINE text   == Shielded(r)
           lib    == File(lib_rs, text)
           assets == [files |-> {".gitignore", "README.md", "test_binding.py"}, text |-> <<>>]
           head   == <<Cargo(text), lib>>
           S      == {Cargo(text), lib, assets} \cup Listed(Tests(r))
<1> DEFINE one    == <<assets>>
           again  == <<lib>>
           tests  == Tests(r)
           three  == head \o one
           layout == three \o again
<1>1. RustLayout(text) = layout
  BY DEF RustLayout, Assets, lib_rs
<1>2. lib_rs \in lib.files /\ lib.text = text
  BY DEF File
<1> HIDE DEF lib, assets, text
<1>3. /\ head \in Seq(S) /\ Len(head) = 2 /\ one \in Seq(S) /\ Len(one) = 1
      /\ again \in Seq(S) /\ Len(again) = 1 /\ again[1] = lib
  OBVIOUS
<1>4. tests \in Seq(S)
  <2>1. Tests(r) \in Seq(Listed(Tests(r)))
    BY TestsSequence DEF IsSequence
  <2> QED BY <2>1
<1>5. \/ tests = <<>> /\ Len(tests) = 0
      \/ Len(tests) = 1 /\ lib_rs \notin tests[1].files
  BY DEF Tests, Assets, lib_rs, PythonTests
<1>6. plan = layout \o tests
  BY <1>1 DEF RustPlan, text
<1>7. PICK x \in Seq(S), y \in Seq(S) : x = three /\ y = layout /\ Len(x) = 3 /\ Len(y) = 4 /\ y[4] = lib
  <2> HIDE DEF head, one, again, S
  <2>1. three \in Seq(S) /\ Len(three) = Len(head) + Len(one)
    BY <1>3, Concatenated, Zenon
  <2>2. Len(three) = 3
    BY <1>3, <2>1
  <2> HIDE DEF three
  <2> HIDE DEF one, again
  <2>3. layout \in Seq(S) /\ Len(layout) = Len(three) + Len(again)
    BY <1>3, <2>1, Concatenated, Zenon
  <2>4. 1 \in 1..Len(again) /\ Len(three) + 1 = 4
    BY <1>3, <2>2
  <2>5. layout[Len(three) + 1] = again[1]
    <3>1. three \in Seq(S) /\ again \in Seq(S)
      BY <1>3, <2>1
    <3>2. ASSUME NEW i \in 1..Len(again) PROVE layout[Len(three) + i] = again[i]
      BY <3>1, ConcatenatedRight, Zenon
    <3> QED BY <2>4, <3>2, Zenon
  <2>6. Len(layout) = 4 /\ layout[4] = lib
    BY <1>3, <2>2, <2>3, <2>4, <2>5
  <2> QED BY <2>1, <2>2, <2>3, <2>6
<1> HIDE DEF head, S, one, again, three, layout, tests
<1>8. /\ plan \in Seq(S) /\ Len(plan) = 4 + Len(tests)
      /\ \A i \in 1..4 : plan[i] = layout[i]
      /\ \A i \in 1..Len(tests) : plan[4 + i] = tests[i]
  <2>1. layout \in Seq(S)
    BY <1>7
  <2>2. layout \o tests \in Seq(S) /\ Len(layout \o tests) = Len(layout) + Len(tests)
    BY <1>4, <2>1, Concatenated, Zenon
  <2>3. ASSUME NEW i \in 1..Len(layout) PROVE (layout \o tests)[i] = layout[i]
    BY <1>4, <2>1, ConcatenatedLeft, Zenon
  <2>4. ASSUME NEW i \in 1..Len(tests) PROVE (layout \o tests)[Len(layout) + i] = tests[i]
    BY <1>4, <2>1, ConcatenatedRight, Zenon
  <2> QED BY <2>2, <2>3, <2>4, <1>6, <1>7
<1>10. Len(tests) \in 0..1
  BY <1>5
<1>11. 4 \in DOMAIN plan /\ plan[4] = lib
  BY <1>7, <1>8, <1>10
<1>12. ASSUME NEW j \in DOMAIN plan, j > 4 PROVE lib_rs \notin plan[j].files
  <2>1. j = 5 /\ Len(tests) = 1
    BY <1>8, <1>10, <1>12, SMTT(30)
  <2>2. 1 \in 1..Len(tests) /\ 4 + 1 = 5
    BY <2>1
  <2>3. plan[5] = tests[1]
    BY <1>8, <2>2
  <2>4. lib_rs \notin tests[1].files
    BY <1>5, <2>1
  <2> QED BY <2>1, <2>3, <2>4
<1> QED BY <1>2, <1>11, <1>12 DEF text

\* A correction makes only the rewrites that what cargo said calls for.
LEMMA CorrectionCalled ==
  ASSUME NEW read \in Texts, NEW text, Called(text, read),
         NEW output, output \in {Diagnosed(text), Diagnosed(text) \cup {"broken"}}
  PROVE  LET corrected == correct_from_diagnostics(text, output)
         IN  /\ Called(corrected, read)
             /\ text = read => CalledNow(corrected, read)
<1> DEFINE mutable   == fix_mutability(text, output)
           corrected == correct_from_diagnostics(text, output)
<1>1. text \in Texts /\ text.holds = read.holds /\ read.made \subseteq text.made
  BY DEF Called
<1>2. ASSUME NEW t \in Texts
      PROVE  /\ align_match_types(t) \in Texts /\ align_match_types(t).holds = t.holds
             /\ t.made \subseteq align_match_types(t).made
             /\ align_match_types(t).made \subseteq t.made \cup {"usize"}
  BY DEF align_match_types, Texts, Rewrites
<1>3. /\ mutable \in Texts /\ mutable.holds = text.holds
      /\ text.made \subseteq mutable.made
      /\ mutable.made \subseteq text.made \cup {"mut", "mut namesake"}
      /\ "mut" \in mutable.made \ text.made => "let" \in output
      /\ "mut namesake" \in mutable.made \ text.made => "parameter" \in output
  BY <1>1 DEF fix_mutability, Texts, Rewrites
<1> HIDE DEF mutable
<1>4. corrected = IF output \cap Mismatches # {}
                  THEN align_match_types(mutable) ELSE mutable
  BY DEF correct_from_diagnostics, mutable
<1> HIDE DEF corrected
<1>5. /\ corrected \in Texts /\ corrected.holds = text.holds
      /\ mutable.made \subseteq corrected.made /\ corrected.made \subseteq mutable.made \cup {"usize"}
      /\ "usize" \in corrected.made \ mutable.made => output \cap Mismatches # {}
  BY <1>2, <1>3, <1>4
<1>6. /\ "mut" \in corrected.made \ text.made => "let" \in Diagnosed(text)
      /\ "mut namesake" \in corrected.made \ text.made => "parameter" \in Diagnosed(text)
  <2>1. \A f \in {"mut", "mut namesake"} :
          f \in corrected.made \ text.made => f \in mutable.made \ text.made
    BY <1>5
  <2>2. "let" \in output => "let" \in Diagnosed(text)
    OBVIOUS
  <2>3. "parameter" \in output => "parameter" \in Diagnosed(text)
    OBVIOUS
  <2> QED BY <1>3, <2>1, <2>2, <2>3
<1>7. "usize" \in corrected.made \ text.made => Diagnosed(text) \cap Mismatches # {}
  <2>1. SUFFICES ASSUME "usize" \in corrected.made, "usize" \notin text.made
                 PROVE  Diagnosed(text) \cap Mismatches # {}
    OBVIOUS
  <2>2. PICK f \in output : f \in Mismatches
    BY <2>1, <1>3, <1>5
  <2>3. f \in Diagnosed(text)
    BY <2>2 DEF Mismatches
  <2> QED BY <2>2, <2>3
<1>8. ASSUME NEW f \in {"let", "parameter", "index table", "mismatch"}, f \in Diagnosed(text),
             f = "let" => "mut" \notin text.made, f = "index table" => "usize" \notin text.made
      PROVE  f \in Flaws(read)
  <2>1. f \in text.holds
    BY <1>8 DEF Diagnosed, TypeErrors, BorrowErrors, OtherErrors
  <2> QED BY <1>1, <1>8, <2>1 DEF Flaws, TypeErrors, BorrowErrors
<1>9. "usize" \in corrected.made \ text.made => Flaws(read) \cap Mismatches # {}
  <2>1. SUFFICES ASSUME "usize" \in corrected.made, "usize" \notin text.made
                 PROVE  Flaws(read) \cap Mismatches # {}
    OBVIOUS
  <2>2. PICK f \in Mismatches : f \in Diagnosed(text)
    BY <1>7, <2>1
  <2>3. f \in {"index table", "mismatch"}
    BY <2>1, <2>2 DEF Mismatches, Diagnosed, TypeErrors, BorrowErrors, OtherErrors
  <2>4. f \in Flaws(read)
    BY <1>8, <2>1, <2>2, <2>3
  <2> QED BY <2>4
<1>10. Called(corrected, read)
  BY <1>1, <1>3, <1>5, <1>6, <1>8, <1>9 DEF Called
<1>11. text = read => CalledNow(corrected, read)
  BY <1>6, <1>7 DEF CalledNow
<1> QED BY <1>10, <1>11 DEF corrected

LEMMA LibInit == Init => LibInv
BY DEF Init, LibInv

LEMMA BeginLib ==
  ASSUME source \in Sources, NEW r \in Requests, Begin(r), run'.language = "rust"
  PROVE  run'.read \in Texts /\ LibPlanned'
<1>1. /\ run'.plan = Plan(r) /\ run'.language = Language(r)
      /\ run'.read = IF Language(r) = "rust" THEN Shielded(r) ELSE PythonText(r)
  BY DEF Begin
<1>2. run'.plan = RustPlan(r) /\ run'.read = Shielded(r)
  <2>1. Language(r) = "rust"
    BY <1>1
  <2>2. Plan(r) = RustPlan(r)
    BY <2>1 DEF Plan, Modular
  <2> QED BY <1>1, <2>1, <2>2
<1>3. LibPlanned'
  BY <1>2, RustPlanLib DEF LibPlanned
<1> QED BY <1>2, <1>3, ShieldedText

\* When cargo is first called, lib.rs is what was read.
LEMMA LibIsRead ==
  ASSUME FilesInv, LibInv, run.at = "write", run.left = <<>>, run.language = "rust"
  PROVE  dir[lib_rs] = run.read /\ run.read \in Texts
<1>1. run # Idle /\ PlanOK /\ run.attempt = 1
  BY DEF FilesInv, Idle
<1>2. PICK N \in Nat : N = Len(run.plan) /\ DOMAIN run.plan = 1..N /\ Done = N
  BY <1>1 DEF PlanOK, IsSequence, Done
<1>3. LibPlanned /\ run.read \in Texts
  BY <1>1 DEF LibInv
<1> QED BY <1>1, <1>2, <1>3 DEF PlanOK, WrittenUpTo, LibPlanned

LEMMA CalledItself ==
  ASSUME NEW text \in Texts PROVE Called(text, text) /\ CalledNow(text, text)
BY DEF Called, CalledNow

LEMMA RetriesBounded == max_retries \in Nat
BY ScaffoldAssumption

LEMMA CargoLib == ASSUME FilesInv, LibInv, Cargo_build PROVE LibInv'
<1> DEFINE text      == dir[lib_rs]
           output    == CargoFinds
           corrected == correct_from_diagnostics(text, output)
<1>1. /\ run # Idle /\ run.at = "cargo" /\ DOMAIN run = Fields /\ run.attempt \in Nat \ {0}
      /\ run.language = "rust" /\ run.read \in Texts /\ LibPlanned /\ Called(text, run.read)
      /\ run.attempt = 1 => text = run.read
      /\ source' = source /\ source \in Sources
  BY DEF Cargo_build, FilesInv, LibInv, Idle
<1>2. CASE run' = Idle
  BY <1>1, <1>2 DEF LibInv
<1>3. CASE run' # Idle
  <2>1. /\ run' = [run EXCEPT !.attempt = @ + 1] /\ run.attempt <= max_retries
        /\ Put({lib_rs}, corrected)
    BY <1>3 DEF Cargo_build, Ends, MayCorrect, lib_rs
  <2>2. /\ run'.attempt = run.attempt + 1 /\ run'.at = "cargo" /\ run'.language = run.language
        /\ run'.read = run.read /\ run'.plan = run.plan
    BY <1>1, <2>1 DEF Fields
  <2>3. dir'[lib_rs] = corrected
    BY <2>1 DEF Put
  <2>4. output \in {Diagnosed(text), Diagnosed(text) \cup {"broken"}}
    BY DEF CargoFinds, lib_rs
  <2> HIDE DEF text, output
  <2>5. Called(corrected, run.read) /\ (text = run.read => CalledNow(corrected, run.read))
    BY <1>1, <2>4, CorrectionCalled
  <2> HIDE DEF corrected
  <2>6. max_retries <= 1 => run.attempt = 1
    BY <1>1, <2>1, RetriesBounded
  <2>7. LibPlanned'
    BY <1>1, <2>2 DEF LibPlanned
  <2>8. run'.attempt # 1 /\ run'.attempt <= max_retries + 1
    BY <1>1, <2>1, <2>2, RetriesBounded
  <2>9. /\ Called(dir'[lib_rs], run'.read)
        /\ max_retries <= 1 => CalledNow(dir'[lib_rs], run'.read)
    BY <1>1, <2>2, <2>3, <2>5, <2>6
  <2> QED BY <1>1, <2>2, <2>7, <2>8, <2>9 DEF LibInv
<1> QED BY <1>2, <1>3

LEMMA LibNext == FilesInv /\ LibInv /\ [Next]_vars => LibInv'
<1> SUFFICES ASSUME FilesInv, LibInv, [Next]_vars PROVE LibInv'
  OBVIOUS
<1>1. source' \in Sources
  BY DEF LibInv, Next, vars, Refuse, Begin, Write, Written, Validate, NoToolchain,
         Cargo_build, Killed, Edit
<1>2. CASE \E r \in Requests : Refuse(r)
  BY <1>1, <1>2 DEF Refuse, Ends, LibInv
<1>3. CASE \E r \in Requests : Begin(r)
  <2>1. PICK r \in Requests : Begin(r)
    BY <1>3
  <2>2. run'.at = "write"
    BY <2>1 DEF Begin
  <2>3. source \in Sources
    BY DEF LibInv
  <2>4. run'.language = "rust" => run'.read \in Texts /\ LibPlanned'
    BY <2>1, <2>3, BeginLib
  <2> QED BY <1>1, <2>2, <2>4 DEF LibInv
<1>4. CASE Write
  <2>1. run # Idle /\ run.at = "write" /\ DOMAIN run = Fields
    BY <1>4 DEF Write, Idle, FilesInv
  <2>2. /\ run'.at = "write" /\ run'.language = run.language /\ run'.read = run.read
        /\ run'.plan = run.plan
    BY <1>4, <2>1 DEF Write, Fields
  <2>3. LibPlanned => LibPlanned'
    BY <2>2 DEF LibPlanned
  <2> QED BY <1>1, <2>1, <2>2, <2>3 DEF LibInv
<1>5. CASE Written
  <2>1. /\ run # Idle /\ run.at = "write" /\ run.left = <<>> /\ DOMAIN run = Fields
        /\ run.attempt = 1 /\ dir' = dir
    BY <1>5 DEF Written, Idle, FilesInv
  <2>2. CASE run' = Idle
    BY <1>1, <2>2 DEF LibInv
  <2>3. CASE run' # Idle
    <3>1. /\ run'.at = (IF run.language = "rust" THEN "cargo" ELSE "validate")
          /\ run'.language = run.language /\ run'.read = run.read
          /\ run'.plan = run.plan /\ run'.attempt = 1
      BY <1>5, <2>1, <2>3 DEF Written, Ends, Fields
    <3>2. LibPlanned => LibPlanned'
      BY <3>1 DEF LibPlanned
    <3>3. run.language = "rust" => dir[lib_rs] = run.read /\ run.read \in Texts
      BY <2>1, LibIsRead
    <3>4. 1 <= max_retries + 1
      BY RetriesBounded
    <3>5. run'.language = "rust" => run'.read \in Texts /\ LibPlanned'
      BY <2>1, <3>1, <3>2 DEF LibInv
    <3>6. run'.at = "cargo" =>
            /\ run'.language = "rust" /\ dir'[lib_rs] = run'.read
            /\ Called(dir'[lib_rs], run'.read) /\ CalledNow(dir'[lib_rs], run'.read)
      BY <2>1, <3>1, <3>3, CalledItself
    <3> QED BY <1>1, <3>1, <3>4, <3>5, <3>6 DEF LibInv
  <2> QED BY <2>2, <2>3
<1>6. CASE Cargo_build
  BY <1>6, CargoLib
<1>7. CASE Validate \/ NoToolchain \/ Killed
  BY <1>1, <1>7 DEF Validate, NoToolchain, Killed, Ends, LibInv
<1>8. CASE Edit \/ UNCHANGED vars
  <2>1. run' = run /\ dir' = dir
    BY <1>8 DEF Edit, vars
  <2>2. LibPlanned => LibPlanned'
    BY <2>1 DEF LibPlanned
  <2> QED BY <1>1, <2>1, <2>2 DEF LibInv
<1> QED BY <1>2, <1>3, <1>4, <1>5, <1>6, <1>7, <1>8 DEF Next

\* The Rust source on its way from the plan into lib.rs and through the
\* corrections has the rewrites the shield made and those that the errors asked
\* for since.
THEOREM LibInvariant == Spec => []LibInv
BY LibInit, LibNext, FilesInvariant, PTL DEF Spec

\* With the one retry the engine asks for, a rewrite made since the source was
\* read answers what cargo said of it: let mut a let that could not be borrowed
\* mutably, usize on the tables any mismatch of types, of a table or not.
THEOREM CorrectionsAnswerErrorsAlways ==
  ASSUME max_retries <= 1 PROVE Spec => []CorrectionsAnswerErrors
<1>1. FilesInv /\ LibInv => CorrectionsAnswerErrors
  <2> SUFFICES ASSUME FilesInv, LibInv, run.at = "cargo", dir[lib_rs] # run.read
               PROVE  LET added == dir[lib_rs].made \ run.read.made
                      IN /\ run.attempt > 1
                         /\ "mut" \in added => "let" \in Diagnosed(run.read)
                         /\ "mut namesake" \in added => "parameter" \in Diagnosed(run.read)
                         /\ "usize" \in added => Diagnosed(run.read) \cap Mismatches # {}
    BY DEF CorrectionsAnswerErrors, lib_rs
  <2>1. run # Idle /\ run.attempt \in Nat \ {0}
    BY DEF FilesInv, Idle
  <2>2. run.attempt # 1 /\ CalledNow(dir[lib_rs], run.read)
    BY <2>1 DEF LibInv
  <2>3. run.attempt > 1
    BY <2>1, <2>2
  <2> QED BY <2>2, <2>3, Zenon DEF CalledNow
<1> QED BY <1>1, FilesInvariant, LibInvariant, PTL

\* However many retries there are, what cargo compiles has what the author
\* wrote, and the rewrites answer errors the source has, if perhaps hidden
\* behind others; usize on the tables, a mismatch of types of whatever.
CorrectionsAnswerFlaws ==
  run.at = "cargo" => Called(dir[lib_rs], run.read) /\ run.attempt <= max_retries + 1

\* Whatever max_retries is, what cargo compiles answers the flaws of the source
\* that was read.
THEOREM CorrectionsAnswerFlawsAlways == Spec => []CorrectionsAnswerFlaws
<1>1. LibInv => CorrectionsAnswerFlaws
  BY DEF LibInv, CorrectionsAnswerFlaws, Idle
<1> QED BY <1>1, LibInvariant, PTL

-----------------------------------------------------------------------------
(* The split.                                                              *)

SplitOf(request, read, script) == Decomposed(read, request.mapping, script, request.prune)

TestsOf(request) == IF request.tests THEN Assets({PythonTests}) ELSE <<>>

SplitInv ==
  run # Idle /\ run.language = "python" /\ run.request.mapping # <<>> =>
    LET split == SplitOf(run.request, run.read, run.script)
    IN /\ run.request \in Requests
       /\ run.read \in Seq(Statements)
       /\ run.script # PythonTests
       /\ Refusal(run.read, run.request.mapping) = Fine
       /\ run.plan = [i \in DOMAIN split |-> File(split[i].file, split[i].text)]
                        \o TestsOf(run.request)

\* Those of some positions where a statement stands.
Standing(text, K, s) == {k \in K : text[k] = s}

\* How often a statement stands in a text.
Count(text, s) == Cardinality({i \in DOMAIN text : text[i] = s})

LEMMA CountPicked ==
  ASSUME NEW N \in Nat, NEW text, NEW K \in SUBSET (1..N), NEW s
  PROVE  Count(Picked(text, K), s) = Cardinality(Standing(text, K, s))
<1> DEFINE A == {n \in 1..Cardinality(K) : text[Nth(K, n)] = s}
           B == {k \in K : text[k] = s}
           f == [n \in A |-> Nth(K, n)]
<1>1. /\ Cardinality(K) \in Nat
      /\ \A n \in 1..Cardinality(K) : Nth(K, n) \in K /\ Rank(K, Nth(K, n)) = n
      /\ \A k \in K : Rank(K, k) \in 1..Cardinality(K) /\ Nth(K, Rank(K, k)) = k
  BY NthIs
<1>2. f \in [A -> B]
  BY <1>1
<1>3. \A m, n \in A : f[m] = f[n] => m = n
  BY <1>1
<1>4. \A k \in B : \E n \in A : f[n] = k
  <2> SUFFICES ASSUME NEW k \in B PROVE \E n \in A : f[n] = k
    OBVIOUS
  <2>1. Rank(K, k) \in A /\ f[Rank(K, k)] = k
    BY <1>1
  <2> QED BY <2>1
<1>5. IsFiniteSet(A)
  <2>1. A \in SUBSET (1..Cardinality(K))
    OBVIOUS
  <2> QED BY <1>1, <2>1, PositionsFinite
<1>6. {i \in DOMAIN Picked(text, K) : Picked(text, K)[i] = s} = A
  BY DEF Picked
<1> HIDE DEF A, B, f
<1>7. f \in Bijection(A, B)
  BY <1>2, <1>3, <1>4 DEF Bijection, Injection, Surjection, IsInjective
<1>8. Cardinality(A) = Cardinality(B)
  BY <1>5, <1>7, FS_Bijection DEF ExistsBijection
<1> QED BY <1>6, <1>8 DEF Count, B, Standing

LEMMA CountFinite ==
  ASSUME NEW S, NEW a \in Seq(S), NEW s
  PROVE  /\ IsFiniteSet({i \in DOMAIN a : a[i] = s}) /\ Count(a, s) \in Nat
         /\ Count(a, s) = 0 <=> \A i \in DOMAIN a : a[i] # s
<1> DEFINE A == {i \in DOMAIN a : a[i] = s}
<1>1. A \in SUBSET (1..Len(a)) /\ Len(a) \in Nat
  OBVIOUS
<1> HIDE DEF A
<1>2. IsFiniteSet(A) /\ Cardinality(A) \in Nat
  BY <1>1, PositionsFinite
<1>3. Cardinality(A) = 0 <=> A = {}
  BY <1>2, FS_EmptySet
<1> QED BY <1>2, <1>3 DEF A, Count

\* What stands in a part of a text that has the statement nowhere else.
LEMMA CountConcat ==
  ASSUME NEW S, NEW a \in Seq(S), NEW b \in Seq(S), NEW s
  PROVE  Count(a \o b, s) = Count(a, s) + Count(b, s)
<1> DEFINE c == a \o b
           A == {i \in DOMAIN a : a[i] = s}
           B == {i \in DOMAIN b : b[i] = s}
           D == {Len(a) + i : i \in B}
           C == {i \in DOMAIN c : c[i] = s}
           f == [i \in B |-> Len(a) + i]
<1>1. DOMAIN a = 1..Len(a) /\ DOMAIN b = 1..Len(b) /\ Len(a) \in Nat /\ Len(b) \in Nat
  OBVIOUS
<1>2. c \in Seq(S) /\ Len(c) = Len(a) + Len(b)
  BY Concatenated, Zenon
<1>3. \A i \in 1..Len(a) : c[i] = a[i]
  BY ConcatenatedLeft, Zenon
<1>4. \A i \in 1..Len(b) : c[Len(a) + i] = b[i]
  BY ConcatenatedRight, Zenon
<1>5. DOMAIN c = 1..(Len(a) + Len(b))
  BY <1>2
<1> HIDE DEF c
<1>6. C = A \cup D
  <2>1. ASSUME NEW i \in C PROVE i \in A \cup D
    <3>1. CASE i <= Len(a)
      BY <1>1, <1>3, <1>5, <3>1
    <3>2. CASE ~(i <= Len(a))
      <4>1. i - Len(a) \in 1..Len(b) /\ Len(a) + (i - Len(a)) = i
        BY <1>1, <1>5, <3>2
      <4>2. i - Len(a) \in B
        BY <1>1, <1>4, <4>1
      <4> QED BY <4>1, <4>2
    <3> QED BY <3>1, <3>2
  <2>2. A \subseteq C
    BY <1>1, <1>3, <1>5
  <2>3. ASSUME NEW i \in B PROVE Len(a) + i \in C
    <3>1. Len(a) + i \in 1..(Len(a) + Len(b))
      BY <1>1
    <3> QED BY <1>1, <1>4, <1>5, <3>1
  <2> QED BY <2>1, <2>2, <2>3
<1>7. A \cap D = {}
  BY <1>1
<1>8. IsFiniteSet(A) /\ IsFiniteSet(B) /\ Cardinality(A) \in Nat /\ Cardinality(B) \in Nat
  BY CountFinite, FS_CardinalityType
<1>9. f \in Bijection(B, D)
  BY <1>1 DEF Bijection, Injection, Surjection, IsInjective
<1> HIDE DEF A, B, C, D, f
<1>10. IsFiniteSet(D) /\ Cardinality(D) = Cardinality(B)
  BY <1>8, <1>9, FS_Bijection DEF ExistsBijection
<1>11. Cardinality(A \cup D) = Cardinality(A) + Cardinality(D) - Cardinality({})
  BY <1>7, <1>8, <1>10, FS_Union
<1>12. Cardinality(C) = Cardinality(A) + Cardinality(B)
  BY <1>6, <1>8, <1>10, <1>11, FS_EmptySet
<1> QED BY <1>12 DEF Count, A, B, C, c

\* Imports.
NoDefs(a) == \A i \in DOMAIN a : "kind" \in DOMAIN a[i] /\ ~IsDef(a[i])

LEMMA NoDefsCount ==
  ASSUME NEW S, NEW a \in Seq(S), NoDefs(a), NEW s, IsDef(s) PROVE Count(a, s) = 0
<1>1. \A i \in DOMAIN a : a[i] # s
  BY DEF NoDefs
<1> QED BY <1>1, CountFinite

LEMMA NoDefsConcat ==
  ASSUME NEW S, NEW a \in Seq(S), NEW b \in Seq(S), NoDefs(a), NoDefs(b)
  PROVE  a \o b \in Seq(S) /\ NoDefs(a \o b)
<1>1. a \o b \in Seq(S) /\ Len(a \o b) = Len(a) + Len(b)
  BY Concatenated, Zenon
<1>2. \A i \in 1..Len(a) : (a \o b)[i] = a[i]
  BY ConcatenatedLeft, Zenon
<1>3. \A i \in 1..Len(b) : (a \o b)[Len(a) + i] = b[i]
  BY ConcatenatedRight, Zenon
<1> DEFINE c == a \o b
<1> HIDE DEF c
<1>4. ASSUME NEW i \in DOMAIN c PROVE "kind" \in DOMAIN c[i] /\ ~IsDef(c[i])
  <2>1. i \in 1..(Len(a) + Len(b)) /\ Len(a) \in Nat /\ Len(b) \in Nat
    BY <1>1 DEF c
  <2>2. CASE i <= Len(a)
    <3>1. i \in 1..Len(a) /\ c[i] = a[i]
      BY <1>2, <2>1, <2>2 DEF c
    <3> QED BY <3>1 DEF NoDefs
  <2>3. CASE ~(i <= Len(a))
    <3>1. i - Len(a) \in 1..Len(b) /\ Len(a) + (i - Len(a)) = i
      BY <2>1, <2>3
    <3>2. c[i] = b[i - Len(a)]
      BY <1>3, <3>1 DEF c
    <3> QED BY <3>1, <3>2 DEF NoDefs
  <2> QED BY <2>2, <2>3
<1> QED BY <1>1, <1>4 DEF NoDefs, c

LEMMA NoDefsPicked ==
  ASSUME NEW S, NEW a \in Seq(S), NEW K \in SUBSET DOMAIN a,
         \A k \in K : "kind" \in DOMAIN a[k] /\ ~IsDef(a[k])
  PROVE  Picked(a, K) \in Seq(S) /\ NoDefs(Picked(a, K))
<1>1. /\ Picked(a, K) \in Seq(S)
      /\ \A n \in DOMAIN Picked(a, K) : \E k \in K : Picked(a, K)[n] = a[k]
  BY PickedIn
<1> QED BY <1>1 DEF NoDefs

LEMMA HeaderNoDefs ==
  ASSUME NEW text \in Seq(Statements)
  PROVE  HeaderImports(text) \in Seq(Statements) /\ NoDefs(HeaderImports(text))
<1>1. \A k \in DOMAIN text : "kind" \in DOMAIN text[k]
  BY DEF Statements
<1>2. ASSUME NEW kind \in {"future", "import"}
      PROVE  Of(text, kind) \in Seq(Statements) /\ NoDefs(Of(text, kind))
  <2> DEFINE K == {k \in DOMAIN text : text[k].kind = kind}
  <2>1. K \in SUBSET DOMAIN text /\ \A k \in K : "kind" \in DOMAIN text[k] /\ ~IsDef(text[k])
    BY <1>1 DEF IsDef
  <2> HIDE DEF K
  <2>2. Picked(text, K) \in Seq(Statements) /\ NoDefs(Picked(text, K))
    BY <2>1, NoDefsPicked
  <2> QED BY <2>2 DEF Of, K
<1> DEFINE both == Of(text, "future") \o Of(text, "import")
<1>3. both \in Seq(Statements) /\ NoDefs(both)
  BY <1>2, NoDefsConcat
<1> DEFINE K == {k \in DOMAIN both : \A j \in DOMAIN both : j < k => both[j] # both[k]}
<1> HIDE DEF both
<1>4. K \in SUBSET DOMAIN both /\ \A k \in K : "kind" \in DOMAIN both[k] /\ ~IsDef(both[k])
  BY <1>3 DEF NoDefs
<1> HIDE DEF K
<1>5. Picked(both, K) \in Seq(Statements) /\ NoDefs(Picked(both, K))
  BY <1>3, <1>4, NoDefsPicked
<1> QED BY <1>5 DEF HeaderImports, First, both, K

LEMMA FromModuleNoDef ==
  ASSUME NEW file, NEW names
  PROVE  "kind" \in DOMAIN FromModule(file, names) /\ ~IsDef(FromModule(file, names))
BY DEF FromModule, Statement, IsDef

LEMMA FilesFinite ==
  ASSUME NEW mapping, IsSequence(mapping)
  PROVE  IsFiniteSet({mapping[i].file : i \in DOMAIN mapping})
<1> DEFINE T == {mapping[i].file : i \in DOMAIN mapping}
           f == [i \in DOMAIN mapping |-> mapping[i].file]
<1>1. PICK n \in Nat : DOMAIN mapping = 1..n
  BY DEF IsSequence
<1>2. 1 \in Int /\ n \in Int
  OBVIOUS
<1> DEFINE D == 1..n
<1>3. IsFiniteSet(D)
  BY <1>2, FS_Interval
<1>4. f \in Surjection(D, T)
  BY <1>1 DEF Surjection
<1> HIDE DEF f, T, D
<1>5. IsFiniteSet(T)
  BY <1>3, <1>4, FS_Surjection, Zenon
<1> QED BY <1>5 DEF T

LEMMA TargetIs ==
  ASSUME NEW mapping, NEW n \in Mapped(mapping)
  PROVE  TargetOf(mapping, n) \in {mapping[i].file : i \in DOMAIN mapping}
<1>1. \E i \in DOMAIN mapping : n \in mapping[i].symbols
  BY DEF Mapped
<1> QED BY <1>1 DEF TargetOf

LEMMA CrossNoDefs ==
  ASSUME NEW mapping, IsSequence(mapping), NEW body, NEW file
  PROVE  IsSequence(CrossImports(body, mapping, file)) /\ NoDefs(CrossImports(body, mapping, file))
<1> DEFINE abroad == {n \in Used(body) \cap Mapped(mapping) : TargetOf(mapping, n) # file}
           T      == {TargetOf(mapping, n) : n \in abroad}
           homes  == SetToSeq(T)
           cross  == CrossImports(body, mapping, file)
<1>1. T \in SUBSET {mapping[i].file : i \in DOMAIN mapping}
  BY TargetIs
<1> DEFINE files == {mapping[i].file : i \in DOMAIN mapping}
<1>2. IsFiniteSet(T)
  <2>1. IsFiniteSet(files)
    BY FilesFinite
  <2> HIDE DEF files, T
  <2> QED BY <1>1, <2>1, FS_Subset DEF files
<1>3. cross = [i \in DOMAIN homes |->
                 FromModule(homes[i], {n \in abroad : TargetOf(mapping, n) = homes[i]})]
  BY DEF CrossImports
<1> HIDE DEF T, abroad
<1>4. homes \in Seq(T)
  BY <1>2, SetToSeqSequence
<1> HIDE DEF homes, cross
<1>5. cross = [i \in 1..Len(homes) |-> cross[i]] /\ Len(homes) \in Nat
  BY <1>3, <1>4
<1>6. IsSequence(cross)
  BY <1>5 DEF IsSequence, Listed
<1>7. NoDefs(cross)
  BY <1>3, FromModuleNoDef DEF NoDefs
<1> QED BY <1>6, <1>7 DEF cross

LEMMA MovedIn == ASSUME NEW text, NEW mapping PROVE Moved(text, mapping) \in SUBSET DOMAIN text
BY DEF Moved

\* What a module has of a definition: all there is of it, if it is the target.
LEMMA ModuleCount ==
  ASSUME NEW text \in Seq(Statements), NEW mapping, IsSequence(mapping), NEW file, NEW prune,
         NEW s, IsDef(s)
  PROVE  Count(Module(text, mapping, file, prune), s) =
           Cardinality({k \in Moved(text, mapping) :
                          TargetOf(mapping, NameOf(text[k])) = file /\ text[k] = s})
<1> DEFINE K       == {k \in Moved(text, mapping) : TargetOf(mapping, NameOf(text[k])) = file}
           body    == Body(text, mapping, file)
           header  == HeaderImports(text)
           cross   == CrossImports(body, mapping, file)
           imports == header \o cross
           all     == imports \o body
           kept    == [i \in DOMAIN imports |-> Keep(imports[i], all)]
           live    == {i \in DOMAIN kept : kept[i].binds # {}}
           S       == Statements \cup Listed(cross) \cup Listed(kept)
<1>1. K \in SUBSET DOMAIN text /\ K \in SUBSET (1..Len(text)) /\ Len(text) \in Nat
  BY MovedIn
<1>2. body = Picked(text, K)
  BY DEF Body
<1>3. body \in Seq(Statements)
  BY <1>1, <1>2, PickedIn
<1>4. Count(body, s) = Cardinality({k \in K : text[k] = s})
  <2> HIDE DEF K, body
  <2>1. Count(Picked(text, K), s) = Cardinality(Standing(text, K, s))
    BY <1>1, CountPicked, Zenon
  <2> QED BY <1>2, <2>1 DEF Standing
<1>5. {k \in K : text[k] = s} =
        {k \in Moved(text, mapping) : TargetOf(mapping, NameOf(text[k])) = file /\ text[k] = s}
  OBVIOUS
<1>6. Module(text, mapping, file, prune) = (IF prune THEN Pruned(imports, body) ELSE imports) \o body
  BY DEF Module
<1>7. Pruned(imports, body) = IF Dynamic(all) THEN imports ELSE Picked(kept, live)
  BY DEF Pruned
<1> HIDE DEF K, body
<1>8. cross \in Seq(Listed(cross)) /\ NoDefs(cross)
  BY CrossNoDefs DEF IsSequence
<1>9. header \in Seq(Statements) /\ NoDefs(header)
  BY HeaderNoDefs
<1> HIDE DEF header, cross
<1>10. header \in Seq(S) /\ cross \in Seq(S) /\ body \in Seq(S)
  <2>1. Statements \subseteq S /\ Listed(cross) \subseteq S
    OBVIOUS
  <2> HIDE DEF S
  <2> QED BY <1>3, <1>8, <1>9, <2>1, SeqWider
<1> HIDE DEF S
<1>11. imports \in Seq(S) /\ NoDefs(imports)
  BY <1>8, <1>9, <1>10, NoDefsConcat
<1> HIDE DEF imports, all
<1>12. kept \in Seq(S)
  <2>1. kept \in Seq(Listed(kept))
    BY <1>11 DEF Listed
  <2> QED BY <2>1 DEF S
<1>13. NoDefs(kept)
  <2>1. ASSUME NEW i \in DOMAIN imports
        PROVE  "kind" \in DOMAIN Keep(imports[i], all) /\ ~IsDef(Keep(imports[i], all))
    BY <1>11 DEF NoDefs, Keep, IsDef
  <2> QED BY <2>1 DEF NoDefs
<1>14. live \in SUBSET DOMAIN kept
  OBVIOUS
<1> HIDE DEF kept, live
<1>15. Picked(kept, live) \in Seq(S) /\ NoDefs(Picked(kept, live))
  BY <1>12, <1>13, <1>14, NoDefsPicked DEF NoDefs
<1> DEFINE top == IF prune THEN Pruned(imports, body) ELSE imports
<1>16. top \in Seq(S) /\ NoDefs(top)
  BY <1>7, <1>11, <1>15
<1> HIDE DEF top
<1>17. Count(top \o body, s) = Count(top, s) + Count(body, s)
  BY <1>10, <1>16, CountConcat, Zenon
<1>18. Count(top, s) = 0 /\ Count(body, s) \in Nat
  BY <1>10, <1>16, NoDefsCount, CountFinite
<1>19. Count(top \o body, s) = Count(body, s)
  BY <1>17, <1>18
<1> QED BY <1>4, <1>5, <1>6, <1>19 DEF top

LEMMA AnchorIs ==
  ASSUME NEW text, NEW n \in Nat, DOMAIN text = 1..n, Len(text) = n
  PROVE  Anchor(text) \in 1..(n + 1)
<1> DEFINE Later == {k \in DOMAIN text : ~IsImport(text[k]) /\ ~(k = 1 /\ text[k].kind = "doc")}
<1>1. CASE Later = {}
  BY <1>1 DEF Anchor
<1>2. CASE Later # {}
  <2>1. Later \in SUBSET (1..n)
    OBVIOUS
  <2>2. Anchor(text) = CHOOSE k \in Later : \A j \in Later : k <= j
    BY <1>2 DEF Anchor
  <2> HIDE DEF Later
  <2>3. \E k \in Later : \A j \in Later : k <= j
    BY <1>2, <2>1, LeastNumber
  <2>4. Anchor(text) \in Later
    BY <2>2, <2>3
  <2>5. 1..n \subseteq 1..(n + 1)
    OBVIOUS
  <2> QED BY <2>1, <2>4, <2>5
<1> QED BY <1>1, <1>2

\* What the script has left of a definition: all there is of it, if it stays.
LEMMA OrchestratorCount ==
  ASSUME NEW text \in Seq(Statements), NEW mapping, IsSequence(mapping), NEW s, IsDef(s)
  PROVE  Count(Orchestrator(text, mapping), s) =
           Cardinality({k \in DOMAIN text \ Moved(text, mapping) : text[k] = s})
<1> DEFINE n     == Len(text)
           at    == Anchor(text)
           M     == Moved(text, mapping)
           K1    == (1..(at - 1)) \ M
           K2    == (at..n) \ M
           above == Picked(text, K1)
           back  == Returned(mapping)
           below == Picked(text, K2)
           S     == Statements \cup Listed(back)
           Of1   == Standing(text, K1, s)
           Of2   == Standing(text, K2, s)
<1>1. n \in Nat /\ DOMAIN text = 1..n /\ at \in 1..(n + 1) /\ M \in SUBSET (1..n)
  BY AnchorIs, MovedIn
<1>2. Orchestrator(text, mapping) = above \o back \o below
  BY DEF Orchestrator
<1> HIDE DEF at, M, n
<1>3. K1 \in SUBSET (1..n) /\ K2 \in SUBSET (1..n) /\ K1 \cap K2 = {} /\ K1 \cup K2 = (1..n) \ M
  BY <1>1
<1> HIDE DEF K1, K2
<1>4. above \in Seq(Statements) /\ below \in Seq(Statements)
  BY <1>1, <1>3, PickedIn
<1>5. Count(above, s) = Cardinality(Of1) /\ Count(below, s) = Cardinality(Of2)
  BY <1>1, <1>3, CountPicked, Zenon
<1>6. back \in Seq(Listed(back))
  <2>1. PICK m \in Nat : DOMAIN mapping = 1..m
    BY DEF IsSequence
  <2>2. back = [i \in 1..m |-> back[i]]
    BY <2>1 DEF Returned
  <2> HIDE DEF back
  <2> QED BY <2>2 DEF Listed
<1>7. NoDefs(back)
  BY FromModuleNoDef DEF NoDefs, Returned
<1> HIDE DEF above, back, below
<1>8. above \in Seq(S) /\ back \in Seq(S) /\ below \in Seq(S)
  <2>1. Statements \subseteq S /\ Listed(back) \subseteq S
    OBVIOUS
  <2> HIDE DEF S
  <2> QED BY <1>4, <1>6, <2>1, SeqWider
<1> HIDE DEF S
<1> DEFINE front == above \o back
<1>9. front \in Seq(S)
  BY <1>8, Concatenated, Zenon
<1>10. Count(front, s) = Count(above, s) + Count(back, s)
  BY <1>8, CountConcat, Zenon
<1> HIDE DEF front
<1>11. Count(front \o below, s) = Count(front, s) + Count(below, s)
  BY <1>8, <1>9, CountConcat, Zenon
<1>12. Count(back, s) = 0
  BY <1>7, <1>8, NoDefsCount
<1>13. Of1 \in SUBSET (1..n) /\ Of2 \in SUBSET (1..n) /\ Of1 \cap Of2 = {}
      /\ Of1 \cup Of2 = {k \in (1..n) \ M : text[k] = s}
  BY <1>3 DEF Standing
<1> HIDE DEF Of1, Of2
<1>14. IsFiniteSet(Of1) /\ IsFiniteSet(Of2) /\ Cardinality(Of1) \in Nat /\ Cardinality(Of2) \in Nat
  BY <1>1, <1>13, PositionsFinite
<1>15. Cardinality(Of1 \cup Of2) = Cardinality(Of1) + Cardinality(Of2) - Cardinality({})
  BY <1>13, <1>14, FS_Union
<1>16. Cardinality(Of1 \cup Of2) = Cardinality(Of1) + Cardinality(Of2)
  BY <1>14, <1>15, FS_EmptySet
<1>17. Count(front \o below, s) = Cardinality(Of1) + Cardinality(Of2)
  BY <1>5, <1>10, <1>11, <1>12, <1>14
<1>18. Count(front \o below, s) = Cardinality({k \in (1..n) \ M : text[k] = s})
  BY <1>13, <1>16, <1>17
<1> QED BY <1>1, <1>2, <1>18 DEF front, M, n

LEMMA PickedAll ==
  ASSUME NEW S, NEW a \in Seq(S) PROVE First(a) \in Seq(S) /\ WithoutImports(a) \in Seq(S)
BY PickedIn DEF First, WithoutImports

LEMMA MergedIn ==
  ASSUME NEW files \in Seq(Seq(Statements)) PROVE MergeSources(files) \in Seq(Statements)
<1> DEFINE all == FlattenSeq(files)
<1>1. all \in Seq(Statements)
  BY FlattenIn
<1>2. Unparseable \in Seq(Statements)
  <2>1. Statement("error", {}, {}) \in Statements
    <3> DEFINE x == [kind |-> "error", binds |-> {}, uses |-> {}, says |-> {}, dynamic |-> FALSE,
                     from |-> NoModule]
    <3>1. x \in [kind : {"error", "future", "import", "doc", "def", "code"}, binds : SUBSET STRING,
                 uses : SUBSET STRING, says : SUBSET STRING, dynamic : BOOLEAN, from : {NoModule}]
      <4>1. FALSE \in BOOLEAN
        BY Zenon
      <4>2. {} \in SUBSET STRING
        OBVIOUS
      <4> QED BY <4>1, <4>2, Zenon
    <3>2. x.kind # "def" /\ x.kind \notin {"future", "import"}
      OBVIOUS
    <3>3. x = Statement("error", {}, {})
      BY DEF Statement
    <3> HIDE DEF x
    <3>4. x \in Statements
      BY <3>1, <3>2 DEF Statements
    <3> QED BY <3>3, <3>4
  <2> QED BY <2>1 DEF Unparseable
<1>3. MergeSources(files) \in
        {Unparseable, First(Of(all, "future")) \o First(Of(all, "import")) \o WithoutImports(all)}
  BY DEF MergeSources
<1> HIDE DEF all
<1>4. ASSUME NEW kind PROVE First(Of(all, kind)) \in Seq(Statements)
  <2>1. Of(all, kind) \in Seq(Statements)
    BY <1>1, PickedIn DEF Of
  <2> QED BY <2>1, PickedAll
<1>5. WithoutImports(all) \in Seq(Statements)
  BY <1>1, PickedAll
<1>6. First(Of(all, "future")) \o First(Of(all, "import")) \in Seq(Statements)
  BY <1>4, Concatenated, Zenon
<1>7. First(Of(all, "future")) \o First(Of(all, "import")) \o WithoutImports(all) \in Seq(Statements)
  BY <1>5, <1>6, Concatenated, Zenon
<1> QED BY <1>2, <1>3, <1>7

LEMMA BeginSplit ==
  ASSUME source \in Sources, NEW r \in Requests, Begin(r),
         run'.language = "python", run'.request.mapping # <<>>
  PROVE  SplitInv'
<1>1. /\ run'.request = r /\ run'.language = Language(r) /\ run'.plan = Plan(r)
      /\ run'.script = Script(r)
      /\ run'.read = IF Language(r) = "rust" THEN Shielded(r) ELSE PythonText(r)
      /\ Modular(r) => Refusal(PythonText(r), r.mapping) = Fine
  BY DEF Begin
<1>2. Modular(r) /\ Language(r) = "python" /\ Language(r) # "rust"
  BY <1>1 DEF Modular
<1>3. run'.read = PythonText(r) /\ Refusal(PythonText(r), r.mapping) = Fine
  BY <1>1, <1>2
<1>4. PythonText(r) \in Seq(Statements)
  <2>1. source.scripts \in Seq(Seq(Statements)) /\ source.scripts # <<>>
    BY ScaffoldAssumption
  <2>2. source.scripts[1] \in Seq(Statements)
    BY <2>1
  <2>3. MergeSources(source.scripts) \in Seq(Statements)
    BY <2>1, MergedIn
  <2> QED BY <2>2, <2>3 DEF PythonText
<1>5. Script(r) # PythonTests
  BY ScaffoldAssumption DEF Script, PythonTests
<1>6. Plan(r) = SplitPlan(r) /\ Tests(r) = TestsOf(r)
  BY <1>2 DEF Plan, Tests, TestsOf
<1> QED BY <1>1, <1>3, <1>4, <1>5, <1>6 DEF SplitInv, SplitOf, SplitPlan

LEMMA SplitNext == FilesInv /\ LibInv /\ SplitInv /\ [Next]_vars => SplitInv'
<1> SUFFICES ASSUME FilesInv, LibInv, SplitInv, [Next]_vars PROVE SplitInv'
  OBVIOUS
<1>1. CASE \E r \in Requests : Begin(r)
  <2>1. PICK r \in Requests : Begin(r)
    BY <1>1
  <2>2. source \in Sources
    BY DEF LibInv
  <2>3. CASE run'.language = "python" /\ run'.request.mapping # <<>>
    BY <2>1, <2>2, <2>3, BeginSplit
  <2>4. CASE ~(run'.language = "python" /\ run'.request.mapping # <<>>)
    BY <2>4 DEF SplitInv
  <2> QED BY <2>3, <2>4
<1>2. CASE run' = Idle
  BY <1>2 DEF SplitInv
<1>3. ASSUME run # Idle, run'.language = run.language, run'.request = run.request, run'.read = run.read,
             run'.script = run.script, run'.plan = run.plan
      PROVE  SplitInv'
  BY <1>3 DEF SplitInv
<1>4. CASE run' = run
  BY <1>4 DEF SplitInv
<1>5. CASE Write \/ Written \/ Cargo_build
  <2>1. run # Idle /\ DOMAIN run = Fields
    <3>1. run.at \in {"write", "cargo"}
      BY <1>5 DEF Write, Written, Cargo_build
    <3> QED BY <3>1 DEF Idle, FilesInv
  <2>2. CASE run' # Idle
    <3>1. /\ run'.language = run.language /\ run'.request = run.request /\ run'.read = run.read
          /\ run'.script = run.script /\ run'.plan = run.plan
      BY <1>5, <2>1, <2>2 DEF Write, Written, Cargo_build, Ends, Fields
    <3> QED BY <1>3, <2>1, <3>1
  <2> QED BY <1>2, <2>2
<1>6. CASE (\E r \in Requests : Refuse(r)) \/ Validate \/ NoToolchain \/ Killed
  BY <1>2, <1>6 DEF Refuse, Validate, NoToolchain, Killed, Ends
<1>7. CASE Edit \/ UNCHANGED vars
  BY <1>4, <1>7 DEF Edit, vars
<1> QED BY <1>1, <1>5, <1>6, <1>7 DEF Next

\* What a split is to write has the form decompose() gives it, and is of a
\* script and a mapping that decompose() accepted.
THEOREM SplitInvariant == Spec => []SplitInv
<1>1. Init => SplitInv
  BY DEF Init, SplitInv
<1> QED BY <1>1, SplitNext, FilesInvariant, LibInvariant, PTL DEF Spec
\* The entries of a split's plan, one by one.
Entries(plan, n, text, mapping, R, script) ==
  /\ \A i \in 1..n : /\ i \in DOMAIN plan /\ plan[i].files = {mapping[i].file}
                     /\ plan[i].text = Module(text, mapping, mapping[i].file, R.prune)
  /\ n + 1 \in DOMAIN plan /\ plan[n + 1].files = {Init_py}
  /\ n + 2 \in DOMAIN plan /\ plan[n + 2].files = {script}
  /\ plan[n + 2].text = Orchestrator(text, mapping)
  /\ R.tests => /\ n + 3 \in DOMAIN plan /\ plan[n + 3].files = {PythonTests}
                /\ plan[n + 3].text = <<>>
  /\ \A i \in DOMAIN plan : i \in 1..(n + 3) /\ (i = n + 3 => R.tests)

LEMMA SplitEntries ==
  ASSUME NEW text, NEW R, NEW script, NEW n \in Nat,
         NEW mapping, mapping = Normalized(R.mapping), DOMAIN mapping = 1..n,
         NEW split, split = SplitOf(R, text, script),
         NEW plan, plan = [i \in DOMAIN split |-> File(split[i].file, split[i].text)] \o TestsOf(R)
  PROVE  Entries(plan, n, text, mapping, R, script)
<1> DEFINE modules == [i \in DOMAIN mapping |->
              [file |-> mapping[i].file, text |-> Module(text, mapping, mapping[i].file, R.prune)]]
           last    == <<[file |-> Init_py, text |-> <<>>],
                        [file |-> script, text |-> Orchestrator(text, mapping)]>>
           S       == Listed(modules) \cup Listed(last)
           files   == [i \in DOMAIN split |-> File(split[i].file, split[i].text)]
           tests   == TestsOf(R)
           T       == Listed(files) \cup Listed(tests)
<1>1. split = modules \o last
  BY DEF SplitOf, Decomposed
<1>2. modules \in Seq(S) /\ Len(modules) = n
  <2>1. DOMAIN modules = 1..n /\ modules = [i \in 1..n |-> modules[i]]
    OBVIOUS
  <2> HIDE DEF modules, last
  <2> QED BY <2>1, SMTT(30) DEF Listed
<1>3. last \in Seq(S) /\ Len(last) = 2
  <2>1. last \in Seq(Listed(last)) /\ Len(last) = 2
    BY DEF Listed
  <2>2. Listed(last) \subseteq S
    OBVIOUS
  <2> HIDE DEF last, S
  <2> QED BY <2>1, <2>2, SeqWider
<1>4. \A i \in 1..n : /\ modules[i].file = mapping[i].file
                      /\ modules[i].text = Module(text, mapping, mapping[i].file, R.prune)
  OBVIOUS
<1>5. /\ last[1].file = Init_py /\ last[2].file = script
      /\ last[2].text = Orchestrator(text, mapping)
  OBVIOUS
<1> HIDE DEF modules, last, S
<1>6. split \in Seq(S) /\ Len(split) = n + 2
  <2>1. modules \o last \in Seq(S) /\ Len(modules \o last) = Len(modules) + Len(last)
    BY <1>2, <1>3, Concatenated, Zenon
  <2> QED BY <1>1, <1>2, <1>3, <2>1
<1>7. \A i \in 1..n : split[i] = modules[i]
  <2>1. ASSUME NEW i \in 1..Len(modules) PROVE (modules \o last)[i] = modules[i]
    BY <1>2, <1>3, ConcatenatedLeft, Zenon
  <2> QED BY <1>1, <1>2, <2>1
<1>8. split[n + 1] = last[1] /\ split[n + 2] = last[2]
  <2>1. ASSUME NEW i \in 1..Len(last) PROVE (modules \o last)[Len(modules) + i] = last[i]
    <3>1. modules \in Seq(S) /\ last \in Seq(S)
      BY <1>2, <1>3
    <3> QED BY <3>1, ConcatenatedRight, Zenon
  <2>2. 1 \in 1..Len(last) /\ 2 \in 1..Len(last)
    BY <1>3
  <2> QED BY <1>1, <1>2, <2>1, <2>2
<1>9. /\ files \in Seq(T) /\ Len(files) = n + 2
      /\ \A i \in 1..(n + 2) : files[i].files = {split[i].file} /\ files[i].text = split[i].text
  <2>1. DOMAIN split = 1..(n + 2)
    BY <1>6
  <2>2. DOMAIN files = 1..(n + 2) /\ n + 2 \in Nat
    BY <2>1
  <2>3. \A i \in 1..(n + 2) : files[i].files = {split[i].file} /\ files[i].text = split[i].text
    BY <2>1 DEF File
  <2>4. files = [i \in 1..(n + 2) |-> files[i]]
    BY <2>2
  <2> HIDE DEF files, tests
  <2>5. PICK m \in Nat : m = n + 2
    BY <2>2
  <2>6. files \in Seq(T) /\ Len(files) = m
    BY <2>4, <2>5 DEF Listed
  <2> QED BY <2>3, <2>5, <2>6
<1>10. /\ tests \in Seq(Listed(tests))
       /\ \/ /\ R.tests /\ Len(tests) = 1
             /\ tests[1].files = {PythonTests} /\ tests[1].text = <<>>
          \/ ~R.tests /\ Len(tests) = 0
  <2>1. CASE R.tests
    <3>1. tests = <<[files |-> {PythonTests}, text |-> <<>>]>>
      BY <2>1 DEF TestsOf, Assets
    <3> HIDE DEF tests
    <3>2. \E e : tests = <<e>>
      BY <3>1
    <3>3. tests[1].files = {PythonTests} /\ tests[1].text = <<>>
      BY <3>1
    <3>4. tests \in Seq(Listed(tests)) /\ Len(tests) = 1
      BY <3>2 DEF Listed
    <3> QED BY <2>1, <3>3, <3>4
  <2>2. CASE ~R.tests
    <3>1. tests = <<>>
      BY <2>2 DEF TestsOf
    <3>2. tests \in Seq(Listed(tests)) /\ Len(tests) = 0
      BY <3>1
    <3> QED BY <2>2, <3>2
  <2> QED BY <2>1, <2>2
<1> HIDE DEF files, tests
<1>11. tests \in Seq(T) /\ files \in Seq(T)
  BY <1>9, <1>10, SeqWider
<1> HIDE DEF T
<1>12. plan \in Seq(T) /\ Len(plan) = n + 2 + Len(tests)
  <2>1. files \o tests \in Seq(T) /\ Len(files \o tests) = Len(files) + Len(tests)
    BY <1>11, Concatenated, Zenon
  <2>2. plan = files \o tests
    BY DEF files, tests
  <2> QED BY <1>9, <2>1, <2>2
<1>13. \A i \in 1..(n + 2) : plan[i] = files[i]
  <2>1. ASSUME NEW i \in 1..Len(files) PROVE (files \o tests)[i] = files[i]
    BY <1>11, ConcatenatedLeft, Zenon
  <2>2. plan = files \o tests
    BY DEF files, tests
  <2> QED BY <1>9, <2>1, <2>2
<1>14. R.tests => plan[n + 3] = tests[1]
  <2>1. ASSUME NEW i \in 1..Len(tests) PROVE (files \o tests)[Len(files) + i] = tests[i]
    BY <1>11, ConcatenatedRight, Zenon
  <2>2. plan = files \o tests
    BY DEF files, tests
  <2>3. (n + 2) + 1 = n + 3
    OBVIOUS
  <2>4. ASSUME Len(tests) = 1 PROVE 1 \in 1..Len(tests)
    BY <2>4
  <2>5. Len(tests) = 1 => (files \o tests)[n + 3] = tests[1]
    BY <1>9, <2>1, <2>3, <2>4
  <2> QED BY <1>10, <2>2, <2>5
<1>15. DOMAIN plan = 1..(n + 2 + Len(tests))
  BY <1>12
<1>16. 1..n \subseteq 1..(n + 2) /\ n + 1 \in 1..(n + 2) /\ n + 2 \in 1..(n + 2)
  OBVIOUS
<1>17. \/ R.tests /\ DOMAIN plan = 1..(n + 3)
       \/ ~R.tests /\ DOMAIN plan = 1..(n + 2)
  <2>1. n + 2 + 1 = n + 3 /\ n + 2 + 0 = n + 2
    OBVIOUS
  <2> QED BY <1>10, <1>15, <2>1
<1>18. /\ 1..(n + 2) \subseteq DOMAIN plan
       /\ R.tests => n + 3 \in DOMAIN plan
       /\ \A i \in DOMAIN plan : i \in 1..(n + 3) /\ (i = n + 3 => R.tests)
  <2>1. /\ 1..(n + 2) \subseteq 1..(n + 3) /\ n + 3 \in 1..(n + 3)
        /\ \A i \in 1..(n + 2) : i \in 1..(n + 3) /\ i # n + 3
    OBVIOUS
  <2> QED BY <1>17, <2>1, Zenon
<1>19. \A i \in 1..n : /\ i \in DOMAIN plan /\ plan[i].files = {mapping[i].file}
                       /\ plan[i].text = Module(text, mapping, mapping[i].file, R.prune)
  <2> SUFFICES ASSUME NEW i \in 1..n
               PROVE /\ i \in DOMAIN plan /\ plan[i].files = {mapping[i].file}
                     /\ plan[i].text = Module(text, mapping, mapping[i].file, R.prune)
    OBVIOUS
  <2>1. i \in 1..(n + 2) /\ i \in DOMAIN plan
    BY <1>16, <1>18
  <2>2. plan[i].files = {split[i].file} /\ plan[i].text = split[i].text
    BY <1>9, <1>13, <2>1
  <2> QED BY <1>4, <1>7, <2>1, <2>2
<1>20. /\ n + 1 \in DOMAIN plan /\ plan[n + 1].files = {Init_py}
       /\ n + 2 \in DOMAIN plan /\ plan[n + 2].files = {script}
       /\ plan[n + 2].text = Orchestrator(text, mapping)
  <2>1. n + 1 \in DOMAIN plan /\ n + 2 \in DOMAIN plan
    BY <1>16, <1>18
  <2>2. /\ plan[n + 1].files = {split[n + 1].file} /\ plan[n + 2].files = {split[n + 2].file}
        /\ plan[n + 2].text = split[n + 2].text
    BY <1>9, <1>13, <1>16
  <2> QED BY <1>5, <1>8, <2>1, <2>2
<1>21. R.tests => /\ n + 3 \in DOMAIN plan /\ plan[n + 3].files = {PythonTests}
                  /\ plan[n + 3].text = <<>>
  BY <1>10, <1>14, <1>18
<1> QED BY <1>18, <1>19, <1>20, <1>21 DEF Entries

LEMMA NormalizedFiles ==
  ASSUME NEW raw \in MappingsGiven, NEW i \in DOMAIN Normalized(raw)
  PROVE  \E j \in DOMAIN raw : Normalized(raw)[i].file = raw[j].file
<1> DEFINE files == [j \in DOMAIN raw |-> raw[j].file]
           K     == {k \in DOMAIN files : \A j \in DOMAIN files : j < k => files[j] # files[k]}
<1>1. raw \in Seq([file : STRING, symbols : SUBSET STRING])
  BY DEF MappingsGiven
<1>2. files \in Seq(Listed(files))
  <2>1. files = [j \in 1..Len(raw) |-> files[j]] /\ Len(raw) \in Nat
    BY <1>1
  <2> HIDE DEF files
  <2> QED BY <2>1 DEF Listed
<1>3. DOMAIN files = DOMAIN raw /\ \A j \in DOMAIN raw : files[j] = raw[j].file
  OBVIOUS
<1>4. K \in SUBSET DOMAIN files
  OBVIOUS
<1>5. First(files) = Picked(files, K)
  BY DEF First
<1>6. DOMAIN Normalized(raw) = DOMAIN First(files) /\ Normalized(raw)[i].file = First(files)[i]
  BY DEF Normalized
<1> HIDE DEF files, K
<1>7. \E k \in K : First(files)[i] = files[k]
  BY <1>2, <1>4, <1>5, <1>6, PickedIn
<1> QED BY <1>3, <1>4, <1>6, <1>7
\* Where the parts of a split are, once it is written: in each target that
\* nothing is written over its module, in the script what is left of it.
LEMMA SplitWritten ==
  ASSUME FilesInv, LibInv, SplitInv, Split,
         NEW mapping, mapping = Normalized(run.request.mapping)
  PROVE  /\ run.request \in Requests /\ run.read \in Seq(Statements) /\ IsSequence(mapping)
         /\ \A i \in DOMAIN mapping :
              \/ mapping[i].file = run.script
              \/ /\ run.request.tests /\ mapping[i].file = PythonTests
                 /\ dir[mapping[i].file] = <<>>
              \/ /\ ~OverTarget(mapping[i].file)
                 /\ dir[mapping[i].file] =
                      Module(run.read, mapping, mapping[i].file, run.request.prune)
         /\ dir[run.script] = Orchestrator(run.read, mapping)
<1> DEFINE R      == run.request
           text   == run.read
           script == run.script
           split  == SplitOf(run.request, run.read, run.script)
           plan   == run.plan
<1>1. /\ run # Idle /\ run.language = "python" /\ R.mapping # <<>> /\ run.left = <<>>
      /\ run.at # "cargo"
  BY DEF Split, Complete, Idle, LibInv
<1>2. run.attempt = 1 /\ PlanOK
  BY <1>1 DEF FilesInv
<1>3. /\ R \in Requests /\ text \in Seq(Statements) /\ script # PythonTests
      /\ Refusal(text, R.mapping) = Fine
      /\ plan = [i \in DOMAIN split |-> File(split[i].file, split[i].text)] \o TestsOf(R)
  BY <1>1 DEF SplitInv
<1>4. R.mapping \in MappingsGiven
  BY <1>3, ScaffoldAssumption DEF MappingsGiven
<1>5. IsSequence(mapping)
  BY <1>4, NormalizedSequence
<1>6. PICK n \in Nat : DOMAIN mapping = 1..n
  BY <1>5 DEF IsSequence
<1> DEFINE tests == R.tests
<1>7. Entries(plan, n, text, mapping, R, script)
  <2>1. split = SplitOf(R, text, script) /\ mapping = Normalized(R.mapping)
    OBVIOUS
  <2> HIDE DEF R, text, script, split, plan
  <2> QED BY <1>3, <1>6, <2>1, SplitEntries, Zenon
<1>8. PICK N \in Nat : DOMAIN plan = 1..N /\ WrittenUpTo(N)
  <2>1. PICK N \in Nat : DOMAIN plan = 1..N /\ Len(plan) = N
    BY <1>2 DEF PlanOK, IsSequence
  <2>2. Done = N
    BY <1>1, <2>1 DEF Done
  <2> QED BY <1>2, <2>1, <2>2 DEF PlanOK
<1> HIDE DEF R, text, script, split, plan
<1>9. ASSUME NEW i \in DOMAIN plan, NEW f \in plan[i].files,
             \A j \in DOMAIN plan : j > i => f \notin plan[j].files
      PROVE  dir[f] = plan[i].text
  BY <1>8, <1>9 DEF WrittenUpTo, plan
<1>10. \A j \in DOMAIN plan : \/ j \in 1..n \/ j = n + 1 \/ j = n + 2
                              \/ j = n + 3 /\ tests
  <2>1. \A j \in 1..(n + 3) : j \in 1..n \/ j = n + 1 \/ j = n + 2 \/ j = n + 3
    OBVIOUS
  <2> QED BY <1>7, <2>1 DEF Entries
<1>11. n + 3 > n + 2 /\ ~(n + 1 > n + 2) /\ ~(n + 2 > n + 2) /\ \A j \in 1..n : ~(j > n + 2)
  OBVIOUS
<1>12. dir[script] = Orchestrator(text, mapping)
  <2>1. \A j \in DOMAIN plan : j > n + 2 => script \notin plan[j].files
    <3> SUFFICES ASSUME NEW j \in DOMAIN plan, j > n + 2 PROVE script \notin plan[j].files
      OBVIOUS
    <3>1. j = n + 3 /\ tests
      BY <1>10, <1>11
    <3> QED BY <1>3, <1>7, <3>1 DEF Entries
  <2>2. script \in plan[n + 2].files
    BY <1>7 DEF Entries
  <2> QED BY <1>7, <1>9, <2>1, <2>2 DEF Entries
<1>13. tests => dir[PythonTests] = <<>>
  <2> SUFFICES ASSUME tests PROVE dir[PythonTests] = <<>>
    OBVIOUS
  <2>1. \A j \in DOMAIN plan : ~(j > n + 3)
    <3>1. \A j \in 1..(n + 3) : ~(j > n + 3)
      OBVIOUS
    <3> QED BY <1>7, <3>1 DEF Entries
  <2>2. PythonTests \in plan[n + 3].files
    BY <1>7 DEF Entries
  <2> QED BY <1>7, <1>9, <2>1, <2>2 DEF Entries
<1>14. ASSUME NEW i \in 1..n, mapping[i].file # script, ~(tests /\ mapping[i].file = PythonTests)
       PROVE  dir[mapping[i].file] = Module(text, mapping, mapping[i].file, R.prune)
  <2> DEFINE f == mapping[i].file
             K == {j \in 1..n : mapping[j].file = f}
  <2>1. f # Init_py
    <3>1. PICK j \in DOMAIN R.mapping : f = R.mapping[j].file
      BY <1>4, <1>6, NormalizedFiles DEF R
    <3>2. ~\E k \in DOMAIN R.mapping : R.mapping[k].file = Init_py \/ R.mapping[k].symbols = {}
      BY <1>3 DEF Refusal, Fine
    <3> QED BY <3>1, <3>2
  <2>2. K \in SUBSET (1..n) /\ i \in K
    OBVIOUS
  <2>3. PICK k \in K : \A j \in K : j <= k
    <3> HIDE DEF K
    <3> QED BY <2>2, LastPosition
  <2>4. k \in 1..n /\ mapping[k].file = f
    BY <2>3
  <2>5. f \in plan[k].files
    BY <1>7, <2>4 DEF Entries
  <2>6. \A j \in 1..n : j > k => mapping[j].file # f
    BY <2>3, <2>4
  <2>7. \A j \in DOMAIN plan : j > k => f \notin plan[j].files
    <3> SUFFICES ASSUME NEW j \in DOMAIN plan, j > k PROVE f \notin plan[j].files
      OBVIOUS
    <3>1. CASE j \in 1..n
      BY <1>7, <2>6, <3>1 DEF Entries
    <3>2. CASE j = n + 1
      BY <1>7, <2>1, <3>2 DEF Entries
    <3>3. CASE j = n + 2
      BY <1>7, <1>14, <3>3 DEF Entries
    <3>4. CASE j = n + 3 /\ tests
      BY <1>7, <1>14, <3>4 DEF Entries
    <3> QED BY <1>10, <3>1, <3>2, <3>3, <3>4
  <2>8. dir[f] = plan[k].text
    BY <1>7, <1>9, <2>4, <2>5, <2>7 DEF Entries
  <2> QED BY <1>7, <2>4, <2>8 DEF Entries
<1>15. \A i \in DOMAIN mapping :
         \/ mapping[i].file = script
         \/ tests /\ mapping[i].file = PythonTests /\ dir[mapping[i].file] = <<>>
         \/ /\ ~OverTarget(mapping[i].file)
            /\ dir[mapping[i].file] = Module(text, mapping, mapping[i].file, R.prune)
  <2> SUFFICES ASSUME NEW i \in 1..n
               PROVE  \/ mapping[i].file = script
                      \/ tests /\ mapping[i].file = PythonTests /\ dir[mapping[i].file] = <<>>
                      \/ /\ ~OverTarget(mapping[i].file)
                         /\ dir[mapping[i].file] = Module(text, mapping, mapping[i].file, R.prune)
    BY <1>6
  <2>1. CASE mapping[i].file = script
    BY <2>1
  <2>2. CASE tests /\ mapping[i].file = PythonTests
    BY <1>13, <2>2
  <2>3. CASE mapping[i].file # script /\ ~(tests /\ mapping[i].file = PythonTests)
    BY <1>14, <2>3 DEF OverTarget, R, script
  <2> QED BY <2>1, <2>2, <2>3
<1> QED BY <1>3, <1>5, <1>12, <1>15 DEF R, text, script

\* Of a definition every copy is in the one file it belongs to.
LEMMA OneHome ==
  ASSUME FilesInv, LibInv, SplitInv, Split,
         NEW mapping, mapping = Normalized(run.request.mapping),
         NEW Files, Files = {mapping[i].file : i \in DOMAIN mapping} \cup {run.script},
         NEW k \in DOMAIN run.read, IsDef(run.read[k]),
         ~(/\ NameOf(run.read[k]) \in Mapped(mapping)
           /\ OverTarget(TargetOf(mapping, NameOf(run.read[k]))))
  PROVE  /\ Cardinality({f \in Files : Count(dir[f], run.read[k]) > 0}) = 1
         /\ \E f \in Files : Count(dir[f], run.read[k]) = Count(run.read, run.read[k])
<1> DEFINE text == run.read
           s    == text[k]
           name == NameOf(s)
           Has(f) == Count(dir[f], s)
           All  == {j \in DOMAIN text : text[j] = s}
           home == IF name \in Mapped(mapping) THEN TargetOf(mapping, name) ELSE run.script
<1>1. /\ text \in Seq(Statements) /\ IsSequence(mapping)
      /\ \A i \in DOMAIN mapping :
           \/ mapping[i].file = run.script
           \/ run.request.tests /\ mapping[i].file = PythonTests /\ dir[mapping[i].file] = <<>>
           \/ /\ ~OverTarget(mapping[i].file)
              /\ dir[mapping[i].file] =
                   Module(text, mapping, mapping[i].file, run.request.prune)
      /\ dir[run.script] = Orchestrator(text, mapping)
  BY SplitWritten
<1>2. s.binds = {name} /\ IsDef(s)
  <2>1. s \in Statements /\ IsDef(s)
    BY <1>1
  <2>2. \E x \in s.binds : s.binds = {x}
    BY <2>1 DEF Statements, IsDef
  <2> QED BY <2>1, <2>2 DEF NameOf
<1>3. ASSUME NEW f
      PROVE  Count(Module(text, mapping, f, run.request.prune), s) =
               IF home = f /\ name \in Mapped(mapping) THEN Cardinality(All) ELSE 0
  <2> DEFINE X == {j \in Moved(text, mapping) : TargetOf(mapping, NameOf(text[j])) = f /\ text[j] = s}
  <2>1. Count(Module(text, mapping, f, run.request.prune), s) = Cardinality(X)
    BY <1>1, <1>2, ModuleCount
  <2>2. \A j \in DOMAIN text : text[j] = s =>
          /\ j \in Moved(text, mapping) <=> name \in Mapped(mapping)
          /\ NameOf(text[j]) = name
    BY <1>2 DEF Moved
  <2>3. Moved(text, mapping) \subseteq DOMAIN text
    BY MovedIn
  <2> HIDE DEF text, s, name
  <2>4. CASE name \in Mapped(mapping) /\ TargetOf(mapping, name) = f
    <3>1. X = All
      BY <2>2, <2>3, <2>4
    <3> QED BY <2>1, <2>4, <3>1
  <2>5. CASE ~(name \in Mapped(mapping) /\ TargetOf(mapping, name) = f)
    <3>1. X = {}
      BY <2>2, <2>3, <2>5
    <3> QED BY <2>1, <2>5, <3>1, FS_EmptySet
  <2> QED BY <2>4, <2>5
<1>4. Count(Orchestrator(text, mapping), s) =
        IF name \in Mapped(mapping) THEN 0 ELSE Cardinality(All)
  <2> DEFINE X == {j \in DOMAIN text \ Moved(text, mapping) : text[j] = s}
  <2>1. Count(Orchestrator(text, mapping), s) = Cardinality(X)
    BY <1>1, <1>2, OrchestratorCount
  <2>2. \A j \in DOMAIN text : text[j] = s =>
          (j \in Moved(text, mapping) <=> name \in Mapped(mapping))
    BY <1>2 DEF Moved
  <2> HIDE DEF text, s, name
  <2>3. CASE name \in Mapped(mapping)
    <3>1. X = {}
      BY <2>2, <2>3
    <3> QED BY <2>1, <2>3, <3>1, FS_EmptySet
  <2>4. CASE name \notin Mapped(mapping)
    <3>1. X = All
      BY <2>2, <2>4
    <3> QED BY <2>1, <2>4, <3>1
  <2> QED BY <2>3, <2>4
<1>5. Cardinality(All) \in Nat /\ Cardinality(All) > 0 /\ Cardinality(All) = Count(text, s)
  <2>1. k \in All
    OBVIOUS
  <2>2. Count(text, s) \in Nat /\ (Count(text, s) = 0 <=> \A j \in DOMAIN text : text[j] # s)
    BY <1>1, CountFinite
  <2>3. Cardinality(All) = Count(text, s)
    BY DEF Count
  <2>4. Count(text, s) # 0
    BY <2>2
  <2> HIDE DEF All, text, s
  <2> QED BY <2>2, <2>3, <2>4
<1> HIDE DEF text, All
<1>6. home \in Files /\ Has(home) = Cardinality(All)
  <2>1. CASE name \in Mapped(mapping)
    <3>1. PICK i \in DOMAIN mapping : mapping[i].file = TargetOf(mapping, name)
      BY <2>1, TargetIs
    <3>2. ~OverTarget(mapping[i].file)
      BY <2>1, <3>1 DEF text
    <3>3. dir[home] = Module(text, mapping, home, run.request.prune)
      BY <1>1, <2>1, <3>1, <3>2 DEF OverTarget
    <3> QED BY <1>3, <2>1, <3>1, <3>3
  <2>2. CASE name \notin Mapped(mapping)
    BY <1>1, <1>4, <2>2
  <2> QED BY <2>1, <2>2
<1>7. ASSUME NEW f \in Files, f # home PROVE Has(f) = 0
  <2>1. CASE f = run.script
    BY <1>1, <1>4, <1>7, <2>1
  <2>2. CASE f # run.script
    <3>1. PICK i \in DOMAIN mapping : mapping[i].file = f
      BY <2>2
    <3>2. CASE dir[f] = <<>>
      BY <3>2, FS_EmptySet DEF Count
    <3>3. CASE dir[f] = Module(text, mapping, f, run.request.prune)
      BY <1>3, <1>7, <3>3
    <3> QED BY <1>1, <2>2, <3>1, <3>2, <3>3
  <2> QED BY <2>1, <2>2
<1>8. {f \in Files : Has(f) > 0} = {home}
  <2> HIDE DEF Has, home
  <2> QED BY <1>5, <1>6, <1>7
<1>9. Cardinality({home}) = 1
  BY FS_Singleton
<1>10. Cardinality({f \in Files : Has(f) > 0}) = 1
  BY <1>8, <1>9
<1> QED BY <1>5, <1>6, <1>10 DEF text

\* Every definition of a script that is split stands in exactly one of the
\* files, for any script and any mapping that decompose() accepts.
THEOREM NothingLostAlways == Spec => []NothingLost
<1>1. FilesInv /\ LibInv /\ SplitInv => NothingLost
  <2> SUFFICES ASSUME FilesInv, LibInv, SplitInv, Split PROVE NothingLost
    BY DEF NothingLost
  <2> DEFINE mapping == Normalized(run.request.mapping)
             Files   == {mapping[i].file : i \in DOMAIN mapping} \cup {run.script}
  <2>1. ASSUME NEW k \in DOMAIN run.read, IsDef(run.read[k]),
               ~(/\ NameOf(run.read[k]) \in Mapped(mapping)
                 /\ OverTarget(TargetOf(mapping, NameOf(run.read[k]))))
        PROVE  /\ Cardinality({f \in Files : Count(dir[f], run.read[k]) > 0}) = 1
               /\ \E f \in Files : Count(dir[f], run.read[k]) = Count(run.read, run.read[k])
    <3> HIDE DEF mapping
    <3> QED BY <2>1, OneHome DEF mapping
  <2> QED BY <2>1 DEF NothingLost, Count
<1> QED BY <1>1, FilesInvariant, LibInvariant, SplitInvariant, PTL
\* What stands in a text, wherever.
LEMMA PickedListed ==
  ASSUME NEW N \in Nat, NEW text, NEW K \in SUBSET (1..N)
  PROVE  Listed(Picked(text, K)) = {text[k] : k \in K}
<1>1. /\ \A n \in 1..Cardinality(K) : Nth(K, n) \in K
      /\ \A k \in K : Rank(K, k) \in 1..Cardinality(K) /\ Nth(K, Rank(K, k)) = k
  BY NthIs
<1> QED BY <1>1 DEF Picked, Listed

LEMMA ConcatListed ==
  ASSUME NEW S, NEW a \in Seq(S), NEW b \in Seq(S)
  PROVE  Listed(a \o b) = Listed(a) \cup Listed(b)
<1> DEFINE c == a \o b
<1>1. c \in Seq(S) /\ Len(c) = Len(a) + Len(b)
  BY Concatenated, Zenon
<1>2. \A i \in 1..Len(a) : c[i] = a[i]
  BY ConcatenatedLeft, Zenon
<1>3. \A i \in 1..Len(b) : c[Len(a) + i] = b[i]
  BY ConcatenatedRight, Zenon
<1>4. /\ DOMAIN a = 1..Len(a) /\ DOMAIN b = 1..Len(b) /\ Len(a) \in Nat /\ Len(b) \in Nat
      /\ DOMAIN c = 1..(Len(a) + Len(b))
  BY <1>1
<1> HIDE DEF c
<1>5. ASSUME NEW i \in DOMAIN c PROVE c[i] \in Listed(a) \cup Listed(b)
  <2>1. CASE i <= Len(a)
    BY <1>2, <1>4, <2>1 DEF Listed
  <2>2. CASE ~(i <= Len(a))
    <3>1. i - Len(a) \in 1..Len(b) /\ Len(a) + (i - Len(a)) = i
      BY <1>4, <2>2
    <3> QED BY <1>3, <1>4, <3>1 DEF Listed
  <2> QED BY <2>1, <2>2
<1>6. ASSUME NEW i \in DOMAIN a PROVE a[i] \in Listed(c)
  <2>1. i \in DOMAIN c
    BY <1>4
  <2> QED BY <1>2, <1>4, <2>1 DEF Listed
<1>7. ASSUME NEW i \in DOMAIN b PROVE b[i] \in Listed(c)
  <2>1. Len(a) + i \in DOMAIN c
    BY <1>4
  <2> QED BY <1>3, <1>4, <2>1 DEF Listed
<1> QED BY <1>5, <1>6, <1>7 DEF Listed, c

LEMMA FirstListed ==
  ASSUME NEW S, NEW a \in Seq(S) PROVE Listed(First(a)) = Listed(a)
<1> DEFINE K == {k \in DOMAIN a : \A j \in DOMAIN a : j < k => a[j] # a[k]}
<1>1. Len(a) \in Nat /\ DOMAIN a = 1..Len(a) /\ K \in SUBSET (1..Len(a))
  OBVIOUS
<1>2. Listed(First(a)) = {a[k] : k \in K}
  <2> HIDE DEF K
  <2>1. Listed(Picked(a, K)) = {a[k] : k \in K}
    BY <1>1, PickedListed
  <2> QED BY <2>1 DEF First, K
<1>3. ASSUME NEW i \in DOMAIN a PROVE \E k \in K : a[k] = a[i]
  <2> DEFINE Same == {j \in DOMAIN a : a[j] = a[i]}
  <2>1. Same \in SUBSET Nat /\ Same # {}
    BY <1>1
  <2> HIDE DEF Same
  <2>2. PICK k \in Same : \A j \in Same : k <= j
    BY <2>1, LeastNumber
  <2>3. k \in DOMAIN a /\ a[k] = a[i]
    BY <2>2 DEF Same
  <2>4. ASSUME NEW j \in DOMAIN a, j < k PROVE a[j] # a[k]
    <3>1. ~(k <= j)
      BY <1>1, <2>3, <2>4
    <3> QED BY <2>2, <2>3, <3>1 DEF Same
  <2> QED BY <2>3, <2>4
<1>4. K \subseteq DOMAIN a
  OBVIOUS
<1> HIDE DEF K
<1> QED BY <1>2, <1>3, <1>4 DEF Listed

LEMMA HeaderListed ==
  ASSUME NEW text \in Seq(Statements)
  PROVE  Listed(HeaderImports(text)) = {text[k] : k \in {j \in DOMAIN text : IsImport(text[j])}}
<1>1. ASSUME NEW kind
      PROVE  /\ Of(text, kind) \in Seq(Statements)
             /\ Listed(Of(text, kind)) = {text[k] : k \in {j \in DOMAIN text : text[j].kind = kind}}
  <2> DEFINE K == {k \in DOMAIN text : text[k].kind = kind}
  <2>1. K \in SUBSET DOMAIN text /\ K \in SUBSET (1..Len(text)) /\ Len(text) \in Nat
    OBVIOUS
  <2> HIDE DEF K
  <2>2. Picked(text, K) \in Seq(Statements)
    BY <2>1, PickedIn
  <2>3. Listed(Picked(text, K)) = {text[k] : k \in K}
    BY <2>1, PickedListed
  <2> QED BY <2>2, <2>3 DEF Of, K
<1> DEFINE both == Of(text, "future") \o Of(text, "import")
<1>2. both \in Seq(Statements) /\ Listed(both) = Listed(Of(text, "future")) \cup Listed(Of(text, "import"))
  BY <1>1, Concatenated, ConcatListed
<1>3. Listed(HeaderImports(text)) = Listed(both)
  BY <1>2, FirstListed DEF HeaderImports
<1> HIDE DEF both
<1> QED BY <1>1, <1>2, <1>3 DEF IsImport

LEMMA SetToSeqListed ==
  ASSUME NEW T, IsFiniteSet(T) PROVE Listed(SetToSeq(T)) = T
<1> DEFINE C == Cardinality(T)
           f == SetToSeq(T)
<1>1. C \in Nat /\ ExistsBijection(1..C, T)
  BY FS_CardinalityType
<1>2. \E g \in [1..C -> T] : IsInjective(g)
  BY <1>1 DEF ExistsBijection, Bijection, Injection, IsInjective
<1>3. f \in [1..C -> T] /\ IsInjective(f)
  BY <1>2 DEF SetToSeq
<1> HIDE DEF f
<1>4. IsFiniteSet(1..C) /\ Cardinality(1..C) = C
  <2>1. 1 \in Int /\ C \in Int
    BY <1>1
  <2> QED BY <1>1, <2>1, FS_Interval
<1>5. f \in Injection(1..C, T)
  BY <1>3 DEF Injection
<1> HIDE DEF C
<1>6. f \in Surjection(1..C, T)
  BY <1>4, <1>5, FS_Injection DEF C
<1> QED BY <1>3, <1>6 DEF Surjection, Listed, f

\* A statement has the fields of one.
Shaped(s) ==
  s = [kind |-> s.kind, binds |-> s.binds, uses |-> s.uses, says |-> s.says,
       dynamic |-> s.dynamic, from |-> s.from]

LEMMA StatementShaped == ASSUME NEW s \in Statements PROVE Shaped(s)
BY DEF Statements, Shaped

\* A cross import refers to nothing, and has of the names that its home
\* defines all that the body refers to.
LEMMA CrossListed ==
  ASSUME NEW mapping, IsSequence(mapping), NEW body, NEW file
  PROVE  LET cross == Listed(CrossImports(body, mapping, file))
         IN /\ \A c \in cross :
                 /\ Shaped(c) /\ c.uses = {} /\ c.says = {}
                 /\ \A n \in c.binds : n \in Mapped(mapping) /\ TargetOf(mapping, n) = c.from
            /\ \A n \in Used(body) \cap Mapped(mapping) :
                 TargetOf(mapping, n) # file => \E c \in cross : n \in c.binds
<1> DEFINE abroad == {n \in Used(body) \cap Mapped(mapping) : TargetOf(mapping, n) # file}
           T      == {TargetOf(mapping, n) : n \in abroad}
           homes  == SetToSeq(T)
           Import(h) == FromModule(h, {n \in abroad : TargetOf(mapping, n) = h})
           cross  == CrossImports(body, mapping, file)
<1>1. T \in SUBSET {mapping[i].file : i \in DOMAIN mapping}
  BY TargetIs
<1> DEFINE files == {mapping[i].file : i \in DOMAIN mapping}
<1>2. IsFiniteSet(T)
  <2>1. IsFiniteSet(files)
    BY FilesFinite
  <2> HIDE DEF files, T
  <2> QED BY <1>1, <2>1, FS_Subset DEF files
<1>3. cross = [i \in DOMAIN homes |-> Import(homes[i])]
  BY DEF CrossImports
<1>4. T = {TargetOf(mapping, n) : n \in abroad}
  OBVIOUS
<1> HIDE DEF T
<1>5. Listed(homes) = T
  BY <1>2, SetToSeqListed
<1> HIDE DEF homes, cross, Import
<1>6. Listed(cross) = {Import(h) : h \in T}
  BY <1>3, <1>5 DEF Listed
<1>7. ASSUME NEW h \in T
      PROVE  /\ Shaped(Import(h)) /\ Import(h).uses = {} /\ Import(h).says = {} /\ Import(h).from = h
             /\ Import(h).binds = {n \in abroad : TargetOf(mapping, n) = h}
  <2> DEFINE names == {n \in abroad : TargetOf(mapping, n) = h}
  <2>1. Import(h) = FromModule(h, names)
    BY DEF Import
  <2>2. names = {n \in abroad : TargetOf(mapping, n) = h}
    OBVIOUS
  <2> HIDE DEF names, abroad
  <2>3. FromModule(h, names) = [kind |-> "import", binds |-> names, uses |-> {}, says |-> {},
                                dynamic |-> FALSE, from |-> h]
    <3> DEFINE s == Statement("import", names, {})
               r == [kind |-> "import", binds |-> names, uses |-> {}, says |-> {},
                     dynamic |-> FALSE, from |-> h]
    <3>1. s = [kind |-> "import", binds |-> names, uses |-> {}, says |-> {},
               dynamic |-> FALSE, from |-> NoModule]
      BY DEF Statement
    <3>2. FromModule(h, names) = [s EXCEPT !.from = h]
      BY DEF FromModule
    <3>3. [s EXCEPT !.from = h] = r
      <4> DEFINE x == [s EXCEPT !.from = h]
      <4>1. x.kind = "import" /\ x.binds = names /\ x.uses = {} /\ x.says = {}
        BY DEF Statement
      <4>2. x.dynamic = FALSE /\ x.from = h
        BY DEF Statement
      <4>3. x = [f \in {"kind", "binds", "uses", "says", "dynamic", "from"} |-> x[f]]
        BY DEF Statement
      <4> HIDE DEF x
      <4>4. x = r
        BY <4>1, <4>2, <4>3
      <4> QED BY <4>4 DEF x
    <3> QED BY <3>2, <3>3
  <2> QED BY <2>1, <2>2, <2>3 DEF Shaped
<1>8. ASSUME NEW c \in Listed(cross)
      PROVE  /\ Shaped(c) /\ c.uses = {} /\ c.says = {}
             /\ \A n \in c.binds : n \in Mapped(mapping) /\ TargetOf(mapping, n) = c.from
  BY <1>6, <1>7
<1>9. ASSUME NEW n \in abroad PROVE \E c \in Listed(cross) : n \in c.binds
  <2>1. TargetOf(mapping, n) \in T
    BY <1>4
  <2>2. n \in Import(TargetOf(mapping, n)).binds
    BY <1>7, <2>1
  <2> QED BY <1>6, <2>1, <2>2
<1> QED BY <1>8, <1>9 DEF cross

\* What pruning leaves of an import, and what it may not take from it.
LEMMA KeepIs ==
  ASSUME NEW s, Shaped(s), NEW file
  PROVE  /\ Keep(s, file).uses = s.uses /\ Keep(s, file).says = s.says
         /\ Keep(s, file).from = s.from /\ Keep(s, file).binds \subseteq s.binds
         /\ \A n \in s.binds : n \in Used(file) \cup Spelt(file) => n \in Keep(s, file).binds
<1>1. CASE Keep(s, file) = s
  BY <1>1
<1>2. CASE Keep(s, file) = [s EXCEPT !.binds = @ \cap (Used(file) \cup Spelt(file))]
  <2> DEFINE B == s.binds \cap (Used(file) \cup Spelt(file))
  <2>1. Keep(s, file) = [kind |-> s.kind, binds |-> B, uses |-> s.uses, says |-> s.says,
                         dynamic |-> s.dynamic, from |-> s.from]
    <3>1. Keep(s, file) = [s EXCEPT !.binds = B]
      BY <1>2
    <3> HIDE DEF B
    <3> QED BY <3>1 DEF Shaped
  <2> QED BY <2>1
<1> QED BY <1>1, <1>2 DEF Keep

\* What stands in a module: the definitions that are its own, and above them
\* imports of the script or of the other modules, none of them without a name
\* that the module refers to or spells.
Own(text, mapping, file) ==
  {text[k] : k \in {j \in Moved(text, mapping) : TargetOf(mapping, NameOf(text[j])) = file}}

Imports(text, mapping, file) ==
  Listed(HeaderImports(text)) \cup Listed(CrossImports(Body(text, mapping, file), mapping, file))

Needed(text, mapping, file) ==
  UNION {s.uses \cup s.says : s \in Imports(text, mapping, file) \cup Own(text, mapping, file)}

Tops(text, mapping, file, top) ==
  /\ \A s \in top : \E t \in Imports(text, mapping, file) :
       /\ s.uses = t.uses /\ s.says = t.says /\ s.from = t.from /\ s.binds \subseteq t.binds
  /\ \A t \in Imports(text, mapping, file) :
       \A n \in t.binds : n \in Needed(text, mapping, file) => \E s \in top : n \in s.binds

LEMMA ModuleListed ==
  ASSUME NEW text \in Seq(Statements), NEW mapping, IsSequence(mapping), NEW file, NEW prune
  PROVE  /\ \E top : /\ Listed(Module(text, mapping, file, prune)) = top \cup Own(text, mapping, file)
                     /\ Tops(text, mapping, file, top)
         /\ Listed(Body(text, mapping, file)) = Own(text, mapping, file)
<1> DEFINE K       == {k \in Moved(text, mapping) : TargetOf(mapping, NameOf(text[k])) = file}
           body    == Body(text, mapping, file)
           header  == HeaderImports(text)
           cross   == CrossImports(body, mapping, file)
           imports == header \o cross
           all     == imports \o body
           kept    == [i \in DOMAIN imports |-> Keep(imports[i], all)]
           live    == {i \in DOMAIN kept : kept[i].binds # {}}
           S       == Statements \cup Listed(cross)
           first   == IF prune THEN Pruned(imports, body) ELSE imports
           need    == Needed(text, mapping, file)
<1>1. K \in SUBSET DOMAIN text /\ K \in SUBSET (1..Len(text)) /\ Len(text) \in Nat
  BY MovedIn
<1>2. body = Picked(text, K) /\ Own(text, mapping, file) = {text[k] : k \in K}
  BY DEF Body, Own
<1>3. Listed(body) = Own(text, mapping, file)
  <2> HIDE DEF K, body
  <2>1. Listed(Picked(text, K)) = {text[k] : k \in K}
    BY <1>1, PickedListed
  <2> QED BY <1>2, <2>1
<1>4. body \in Seq(Statements)
  BY <1>1, <1>2, PickedIn
<1>5. Module(text, mapping, file, prune) = first \o body
  BY DEF Module
<1>6. Pruned(imports, body) = IF Dynamic(all) THEN imports ELSE Picked(kept, live)
  BY DEF Pruned
<1>7. Imports(text, mapping, file) = Listed(header) \cup Listed(cross)
  BY DEF Imports
<1> HIDE DEF K, body
<1>8. cross \in Seq(Listed(cross)) /\ \A c \in Listed(cross) : Shaped(c)
  BY CrossNoDefs, CrossListed DEF IsSequence
<1>9. header \in Seq(Statements)
  BY HeaderNoDefs
<1> HIDE DEF header, cross
<1>10. header \in Seq(S) /\ cross \in Seq(S) /\ body \in Seq(S)
  <2>1. Statements \subseteq S /\ Listed(cross) \subseteq S
    OBVIOUS
  <2> HIDE DEF S
  <2> QED BY <1>4, <1>8, <1>9, <2>1, SeqWider
<1>11. \A s \in S : Shaped(s)
  BY <1>8, StatementShaped DEF S
<1> HIDE DEF S
<1>12. imports \in Seq(S) /\ Listed(imports) = Imports(text, mapping, file)
  BY <1>7, <1>10, Concatenated, ConcatListed
<1> HIDE DEF imports
<1>13. Used(all) \cup Spelt(all) = need
  <2>1. all \in Seq(S) /\ Listed(all) = Imports(text, mapping, file) \cup Own(text, mapping, file)
    BY <1>3, <1>10, <1>12, Concatenated, ConcatListed
  <2> HIDE DEF all
  <2>2. Used(all) = UNION {s.uses : s \in Listed(all)} /\ Spelt(all) = UNION {s.says : s \in Listed(all)}
    BY DEF Used, Spelt, Listed
  <2>3. need = UNION {s.uses \cup s.says : s \in Listed(all)}
    BY <2>1 DEF Needed
  <2> HIDE DEF need
  <2> QED BY <2>2, <2>3
<1> HIDE DEF all
<1>14. \A s \in Listed(imports) : Shaped(s)
  BY <1>11, <1>12 DEF Listed
<1>15. DOMAIN kept = DOMAIN imports /\ \A i \in DOMAIN imports : kept[i] = Keep(imports[i], all)
  OBVIOUS
<1>17. first \in {imports, Picked(kept, live)}
  BY <1>6
<1>18. PICK N \in Nat : DOMAIN imports = 1..N
  BY <1>12
<1>19. live \in SUBSET (1..N)
  BY <1>15, <1>18
<1>20. \A i \in live : i \in DOMAIN imports /\ kept[i] = Keep(imports[i], all) /\ kept[i].binds # {}
  BY <1>15
<1>21. \A i \in DOMAIN imports : Keep(imports[i], all).binds # {} => i \in live
  BY <1>15
<1> HIDE DEF first, kept, live, need
<1>22. Listed(Picked(kept, live)) = {kept[i] : i \in live}
  BY <1>18, <1>19, PickedListed
<1>23. Tops(text, mapping, file, Listed(imports))
  BY <1>12 DEF Tops
<1>24. Tops(text, mapping, file, Listed(Picked(kept, live)))
  <2>1. ASSUME NEW s \in Listed(Picked(kept, live))
        PROVE  \E t \in Listed(imports) : /\ s.uses = t.uses /\ s.says = t.says
                                          /\ s.from = t.from /\ s.binds \subseteq t.binds
    <3>1. PICK i \in live : s = Keep(imports[i], all) /\ i \in DOMAIN imports
      BY <1>20, <1>22, <2>1
    <3>2. imports[i] \in Listed(imports)
      BY <3>1 DEF Listed
    <3>3. Shaped(imports[i])
      BY <1>14, <3>2
    <3> QED BY <3>1, <3>2, <3>3, KeepIs
  <2>2. ASSUME NEW t \in Listed(imports), NEW n \in t.binds, n \in need
        PROVE  \E s \in Listed(Picked(kept, live)) : n \in s.binds
    <3>1. PICK i \in DOMAIN imports : t = imports[i]
      BY DEF Listed
    <3>2. n \in Keep(imports[i], all).binds
      BY <1>13, <1>14, <2>2, <3>1, KeepIs
    <3>3. i \in live
      BY <1>21, <3>2
    <3> QED BY <1>20, <1>22, <3>2, <3>3
  <2> QED BY <1>12, <2>1, <2>2 DEF Tops, need
<1>25. first \in Seq(S) \/ first \in Seq(Listed(kept))
  <2>1. kept \in Seq(Listed(kept))
    <3>1. kept = [i \in 1..N |-> kept[i]]
      BY <1>15, <1>18 DEF kept
    <3> QED BY <3>1 DEF Listed
  <2>2. live \in SUBSET DOMAIN kept
    BY <1>15, <1>18, <1>19
  <2> QED BY <1>12, <1>17, <2>1, <2>2, PickedIn
<1>26. Listed(first \o body) = Listed(first) \cup Listed(body)
  <2> DEFINE W == S \cup Listed(kept)
  <2>1. S \subseteq W /\ Listed(kept) \subseteq W
    OBVIOUS
  <2> HIDE DEF W
  <2>2. first \in Seq(W) /\ body \in Seq(W)
    BY <1>10, <1>25, <2>1, SeqWider
  <2> QED BY <2>2, ConcatListed
<1>27. Tops(text, mapping, file, Listed(first))
  BY <1>17, <1>23, <1>24
<1> QED BY <1>3, <1>5, <1>26, <1>27 DEF body

\* A name that the mapping gives a target is defined there.
LEMMA DefinedAtHome ==
  ASSUME NEW text \in Seq(Statements), NEW raw, NEW mapping, mapping = Normalized(raw),
         Refusal(text, raw) = Fine, NEW n \in Mapped(mapping)
  PROVE  \E s \in Own(text, mapping, TargetOf(mapping, n)) : IsDef(s) /\ n \in s.binds
<1>1. PICK k \in DOMAIN text : IsDef(text[k]) /\ n \in text[k].binds
  BY DEF Refusal, Fine
<1>2. text[k] \in Statements
  OBVIOUS
<1>3. \E x \in text[k].binds : text[k].binds = {x}
  BY <1>1, <1>2 DEF Statements, IsDef
<1>4. NameOf(text[k]) = n /\ text[k].binds \subseteq Mapped(mapping)
  BY <1>1, <1>3 DEF NameOf
<1>5. k \in Moved(text, mapping)
  BY <1>1, <1>4 DEF Moved
<1> QED BY <1>1, <1>4, <1>5 DEF Own

\* No target refers to a name that a definition or an import of the script
\* gave it and that it does not bind, and none imports from another what is
\* not defined there.
THEOREM NamesBoundAlways == Spec => []NamesBound
<1>1. FilesInv /\ LibInv /\ SplitInv => NamesBound
  <2> SUFFICES ASSUME FilesInv, LibInv, SplitInv, Split PROVE NamesBound
    BY DEF NamesBound
  <2> DEFINE mapping  == Normalized(run.request.mapping)
             text     == run.read
             prune    == run.request.prune
             Imported == UNION {text[k].binds : k \in {j \in DOMAIN text : IsImport(text[j])}}
             Bound(f) == UNION {dir[f][i].binds : i \in DOMAIN dir[f]}
             Targets  == {mapping[i].file : i \in DOMAIN mapping}
  <2>1. /\ text \in Seq(Statements) /\ IsSequence(mapping)
        /\ \A f \in Targets : ~OverTarget(f) => dir[f] = Module(text, mapping, f, prune)
    BY SplitWritten DEF OverTarget
  <2>2. Refusal(text, run.request.mapping) = Fine
    BY DEF SplitInv, Split, Complete, Idle
  <2>3. \A n \in Mapped(mapping) :
          /\ TargetOf(mapping, n) \in Targets
          /\ \E s \in Own(text, mapping, TargetOf(mapping, n)) : IsDef(s) /\ n \in s.binds
    BY <2>1, <2>2, DefinedAtHome, TargetIs
  <2>4. Imported = UNION {s.binds : s \in Listed(HeaderImports(text))}
    BY <2>1, HeaderListed
  <2>5. \A s \in Listed(HeaderImports(text)) : s.uses = {} /\ s.from = NoModule
    <3>1. \A j \in DOMAIN text : IsImport(text[j]) => text[j].uses = {} /\ text[j].from = NoModule
      BY <2>1 DEF Statements, IsImport
    <3> QED BY <2>1, <3>1, HeaderListed
  <2>6. ASSUME NEW f PROVE \A s \in Own(text, mapping, f) : s.from = NoModule
    <3>1. \A j \in DOMAIN text : text[j].from = NoModule
      BY <2>1 DEF Statements
    <3> QED BY <3>1, MovedIn DEF Own
  <2> SUFFICES ASSUME NEW f \in Targets, ~OverTarget(f)
               PROVE  /\ Used(dir[f]) \cap (Mapped(mapping) \cup Imported) \subseteq Bound(f)
                      /\ Spelt(dir[f]) \cap Imported \subseteq Bound(f)
                      /\ \A i \in DOMAIN dir[f] : LET s == dir[f][i] IN
                           s.from # NoModule /\ ~OverTarget(s.from) =>
                             \A n \in s.binds : \E j \in DOMAIN dir[s.from] :
                               IsDef(dir[s.from][j]) /\ n \in dir[s.from][j].binds
    BY DEF NamesBound
  <2> DEFINE own   == Own(text, mapping, f)
             body  == Body(text, mapping, f)
             cross == Listed(CrossImports(body, mapping, f))
             all   == Imports(text, mapping, f)
             need  == Needed(text, mapping, f)
  <2>7. PICK top : /\ Listed(dir[f]) = top \cup own /\ Tops(text, mapping, f, top)
                   /\ Listed(body) = own
    BY <2>1, ModuleListed
  <2>8. /\ \A c \in cross :
             /\ c.uses = {} /\ c.says = {}
             /\ \A n \in c.binds : n \in Mapped(mapping) /\ TargetOf(mapping, n) = c.from
        /\ \A n \in Used(body) \cap Mapped(mapping) :
             TargetOf(mapping, n) # f => \E c \in cross : n \in c.binds
    BY <2>1, CrossListed
  <2>9. all = Listed(HeaderImports(text)) \cup cross
    BY DEF Imports
  <2>10. Used(body) = UNION {s.uses : s \in own}
    BY <2>7 DEF Used, Listed
  <2>11. /\ Used(dir[f]) = UNION {s.uses : s \in top \cup own}
         /\ Spelt(dir[f]) = UNION {s.says : s \in top \cup own}
         /\ Bound(f) = UNION {s.binds : s \in top \cup own}
    BY <2>7 DEF Used, Spelt, Listed
  <2>12. need = UNION {s.uses \cup s.says : s \in all \cup own}
    BY DEF Needed
  <2>13. /\ \A s \in top : \E t \in all :
              /\ s.uses = t.uses /\ s.says = t.says /\ s.from = t.from /\ s.binds \subseteq t.binds
         /\ \A t \in all : \A n \in t.binds : n \in need => \E s \in top : n \in s.binds
    BY <2>7 DEF Tops
  <2>14. \A f1 \in Targets : ~OverTarget(f1) => Own(text, mapping, f1) \subseteq Listed(dir[f1])
    BY <2>1, ModuleListed
  <2> HIDE DEF mapping, text, prune, Imported, Bound, Targets, own, body, cross, all, need
  <2>15. Used(dir[f]) = Used(body)
    BY <2>5, <2>8, <2>9, <2>10, <2>11, <2>13
  <2>16. Used(body) \subseteq need /\ Spelt(dir[f]) \subseteq need
    BY <2>10, <2>11, <2>12, <2>13
  <2>17. ASSUME NEW n \in Imported, n \in need PROVE n \in Bound(f)
    <3>1. PICK t \in all : n \in t.binds
      BY <2>4, <2>9
    <3> QED BY <2>11, <2>13, <2>17, <3>1
  <2>18. ASSUME NEW n \in Used(body), n \in Mapped(mapping) PROVE n \in Bound(f)
    <3>1. CASE TargetOf(mapping, n) = f
      BY <2>3, <2>11, <2>18, <3>1 DEF own
    <3>2. CASE TargetOf(mapping, n) # f
      <4>1. PICK t \in all : n \in t.binds
        BY <2>8, <2>9, <2>18, <3>2
      <4> QED BY <2>11, <2>13, <2>16, <4>1
    <3> QED BY <3>1, <3>2
  <2>19. ASSUME NEW i \in DOMAIN dir[f], NEW s, s = dir[f][i], s.from # NoModule, ~OverTarget(s.from),
                NEW n \in s.binds
         PROVE  \E j \in DOMAIN dir[s.from] :
                  IsDef(dir[s.from][j]) /\ n \in dir[s.from][j].binds
    <3>1. s \in top
      BY <2>6, <2>7, <2>19 DEF Listed, own
    <3>2. PICK t \in cross : t.from = s.from /\ n \in t.binds
      BY <2>5, <2>9, <2>13, <2>19, <3>1
    <3>3. n \in Mapped(mapping) /\ TargetOf(mapping, n) = s.from
      BY <2>8, <3>2
    <3>4. \E d \in Listed(dir[s.from]) : IsDef(d) /\ n \in d.binds
      BY <2>3, <2>14, <2>19, <3>3
    <3> QED BY <3>4 DEF Listed
  <2> QED BY <2>15, <2>16, <2>17, <2>18, <2>19
<1> QED BY <1>1, FilesInvariant, LibInvariant, SplitInvariant, PTL
=============================================================================
