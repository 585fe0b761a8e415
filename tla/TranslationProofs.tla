------------------------- MODULE TranslationProofs -------------------------
(***************************************************************************)
(* What gets into a recipe, how large it may become and when there is      *)
(* none, for any source files, edits, kills and caps.                      *)
(***************************************************************************)
EXTENDS TranslationPipeline, PickingProofs

-----------------------------------------------------------------------------
(* The mesh: the loop over the tasks keeps within the caps at every turn.  *)

OfFamily(tasks, f) == {l \in DOMAIN tasks : tasks[l].family = f}

\* What the final task is appended to.
Open(S) ==
  {m \in Seq(S \cup {InitTask}) :
     /\ Len(m) >= 1 /\ Len(m) < MaxNodes
     /\ m[1] = InitTask
     /\ \A k \in DOMAIN m : m[k].family # "final"
     /\ \A k \in DOMAIN m : Cardinality(OfFamily(m, m[k].family)) <= MaxFamily}

MeshOK(tasks) ==
  /\ Len(tasks) <= MaxNodes
  /\ tasks[1] = InitTask /\ tasks[Len(tasks)] = FinalTask
  /\ \A k \in DOMAIN tasks : Cardinality(OfFamily(tasks, tasks[k].family)) <= MaxFamily

\* One more task is one more of its family, and of no other.
Appended(S, m, t, a) ==
  /\ m \in Seq(S) /\ a \in Seq(S \cup {t}) /\ Len(a) = Len(m) + 1
  /\ \A k \in 1..Len(m) : a[k] = m[k]
  /\ a[Len(m) + 1] = t

LEMMA AppendIs == ASSUME NEW S, NEW m \in Seq(S), NEW t PROVE Appended(S, m, t, Append(m, t))
BY DEF Appended

OneMore(m, t, a) ==
  /\ \A f : f # t.family => OfFamily(a, f) = OfFamily(m, f)
  /\ Cardinality(OfFamily(m, t.family)) \in Nat
  /\ Cardinality(OfFamily(a, t.family)) = Cardinality(OfFamily(m, t.family)) + 1

LEMMA AppendedFamily ==
  ASSUME NEW S, NEW m, NEW t, NEW a, Appended(S, m, t, a) PROVE OneMore(m, t, a)
<1> DEFINE n == Len(m)
<1>1. /\ n \in Nat /\ Len(a) = n + 1
      /\ DOMAIN m = 1..n /\ DOMAIN a = 1..(n + 1)
      /\ \A k \in 1..n : a[k] = m[k]
      /\ a[n + 1] = t
  BY DEF Appended
<1> HIDE DEF n
<1>2. ASSUME NEW f PROVE OfFamily(m, f) \in SUBSET (1..n)
  BY <1>1 DEF OfFamily
<1>3. ASSUME NEW f, f # t.family PROVE OfFamily(a, f) = OfFamily(m, f)
  BY <1>1, <1>3 DEF OfFamily
<1>4. OfFamily(a, t.family) = OfFamily(m, t.family) \cup {n + 1} /\ n + 1 \notin OfFamily(m, t.family)
  BY <1>1 DEF OfFamily
<1>5. IsFiniteSet(OfFamily(m, t.family)) /\ Cardinality(OfFamily(m, t.family)) \in Nat
  BY <1>1, <1>2, PositionsFinite
<1>6. Cardinality(OfFamily(a, t.family)) = Cardinality(OfFamily(m, t.family)) + 1
  BY <1>4, <1>5, FS_AddElement
<1> QED BY <1>3, <1>5, <1>6 DEF OneMore

LEMMA OpenAtFirst == ASSUME NEW S PROVE <<InitTask>> \in Open(S)
<1> DEFINE m == <<InitTask>>
<1>1. m \in Seq(S \cup {InitTask}) /\ Len(m) = 1 /\ DOMAIN m = {1} /\ m[1] = InitTask
  OBVIOUS
<1> HIDE DEF m
<1>2. OfFamily(m, InitTask.family) = {1}
  BY <1>1 DEF OfFamily
<1>3. Cardinality({1}) = 1
  BY FS_Singleton
<1>4. \A k \in DOMAIN m : m[k].family # "final" /\ Cardinality(OfFamily(m, m[k].family)) <= MaxFamily
  <2>1. InitTask.family # "final" /\ 1 <= MaxFamily
    BY MeshAssumption DEF InitTask
  <2>2. \A k \in DOMAIN m : m[k] = InitTask
    BY <1>1
  <2> HIDE DEF m
  <2> QED BY <1>2, <1>3, <2>1, <2>2
<1> QED BY <1>1, <1>4, MeshAssumption DEF Open, m

LEMMA PlacedIsOpen ==
  ASSUME NEW S, \A t \in S : t.family \notin {"init", "final"},
         NEW m \in Open(S), NEW t \in S
  PROVE  Placed(m, t) \in Open(S)
<1> DEFINE T == S \cup {InitTask}
           n == Len(m)
<1>1. /\ m \in Seq(T) /\ n \in Nat /\ n >= 1 /\ n < MaxNodes /\ DOMAIN m = 1..n /\ m[1] = InitTask
      /\ \A k \in 1..n : m[k].family # "final"
      /\ \A k \in 1..n : Cardinality(OfFamily(m, m[k].family)) <= MaxFamily
  BY DEF Open
<1>2. CASE Placed(m, t) = m
  BY <1>2
<1>3. CASE Placed(m, t) # m
  <2>0. PICK a : a = Append(m, t) /\ Appended(T, m, t, a)
    <3>1. m \in Seq(T)
      BY <1>1
    <3> HIDE DEF T
    <3> QED BY <3>1, AppendIs
  <2>1. n < MaxNodes - 1 /\ Cardinality(OfFamily(m, t.family)) < MaxFamily /\ Placed(m, t) = a
    BY <1>3, <2>0 DEF Placed, Room, OfFamily
  <2>2. /\ a \in Seq(T \cup {t}) /\ Len(a) = n + 1
        /\ \A k \in 1..n : a[k] = m[k]
        /\ a[n + 1] = t
    BY <2>0 DEF Appended
  <2>9. /\ \A f : f # t.family => OfFamily(a, f) = OfFamily(m, f)
        /\ Cardinality(OfFamily(m, t.family)) \in Nat
        /\ Cardinality(OfFamily(a, t.family)) = Cardinality(OfFamily(m, t.family)) + 1
    BY <2>0, AppendedFamily DEF OneMore
  <2>3. T \cup {t} = T
    OBVIOUS
  <2> HIDE DEF T, n
  <2>4. DOMAIN a = 1..(n + 1)
    BY <1>1, <2>2
  <2>5. a[1] = InitTask /\ Len(a) >= 1 /\ Len(a) < MaxNodes
    BY <1>1, <2>1, <2>2, MeshAssumption
  <2>6. Cardinality(OfFamily(a, t.family)) <= MaxFamily
    BY <2>1, <2>9, MeshAssumption
  <2>7. ASSUME NEW k \in 1..(n + 1)
        PROVE  a[k].family # "final" /\ Cardinality(OfFamily(a, a[k].family)) <= MaxFamily
    <3>1. CASE k = n + 1
      BY <1>1, <2>2, <2>6, <3>1
    <3>2. CASE k # n + 1
      <4>1. k \in 1..n /\ a[k] = m[k]
        BY <1>1, <2>2, <3>2
      <4>2. CASE m[k].family = t.family
        BY <2>6, <4>1, <4>2
      <4>3. CASE m[k].family # t.family
        BY <1>1, <2>9, <4>1, <4>3
      <4> QED BY <4>2, <4>3
    <3> QED BY <3>1, <3>2
  <2>8. a \in Seq(S \cup {InitTask})
    BY <2>2, <2>3 DEF T
  <2> QED BY <2>1, <2>4, <2>5, <2>7, <2>8 DEF Open
<1> QED BY <1>2, <1>3

\* The guardrails, whatever the tasks: there is always room for the final one.
LEMMA MeshKeepsCaps ==
  ASSUME NEW S, \A t \in S : t.family \notin {"init", "final"}, NEW tasks \in Seq(S)
  PROVE  MeshOK(Mesh(tasks)) /\ Mesh(tasks) \in Seq(S \cup {InitTask, FinalTask})
<1> DEFINE N == Len(tasks)
           T == Open(S)
           step == [n \in 1..N |-> [m \in T |-> Placed(m, tasks[n])]]
           placed == CHOOSE g : g = [n \in 0..N |-> IF n = 0 THEN <<InitTask>>
                                                    ELSE Placed(g[n - 1], tasks[n])]
<1>1. N \in Nat /\ \A n \in 1..N : tasks[n] \in S
  OBVIOUS
<1>2. <<InitTask>> \in T
  BY OpenAtFirst
<1>3. \A m \in T, n \in 1..N : Placed(m, tasks[n]) \in T
  BY <1>1, PlacedIsOpen
<1>4. Mesh(tasks) = Closed(placed[N])
  BY DEF Mesh
<1> HIDE DEF T, N, placed
<1>5. step \in [1..N -> [T -> T]]
  BY <1>3
<1>6. PICK g : Follows(g, N, T, <<InitTask>>, step)
  <2>1. Steps(N, T, <<InitTask>>, step)
    BY <1>1, <1>2, <1>5 DEF Steps
  <2> QED BY <2>1, StepByStep
<1>7. ASSUME NEW n \in 0..N
      PROVE  g[n] = IF n = 0 THEN <<InitTask>> ELSE Placed(g[n - 1], tasks[n])
  <2>1. CASE n = 0
    BY <1>6, <2>1 DEF Follows
  <2>2. CASE n # 0
    <3>1. n \in 1..N /\ n - 1 \in 0..N
      BY <1>1, <2>2
    <3>2. g[n] = step[n][g[n - 1]] /\ g[n - 1] \in T
      BY <1>6, <3>1 DEF Follows
    <3> QED BY <2>2, <3>1, <3>2
  <2> QED BY <2>1, <2>2
<1>8. g = [n \in 0..N |-> IF n = 0 THEN <<InitTask>> ELSE Placed(g[n - 1], tasks[n])]
  BY <1>6, <1>7 DEF Follows
<1>9. placed = [n \in 0..N |-> IF n = 0 THEN <<InitTask>> ELSE Placed(placed[n - 1], tasks[n])]
  BY <1>8 DEF placed
<1>10. \A n \in 0..N : placed[n] \in T
  <2>1. placed[0] = <<InitTask>> /\ \A n \in 1..N : placed[n] = Placed(placed[n - 1], tasks[n])
    <3>1. /\ 0 \in 0..N
          /\ \A n \in 1..N : n \in 0..N /\ n # 0
      BY <1>1
    <3> QED BY <1>9, <3>1
  <2>2. \A n \in 1..N : placed[n - 1] \in T => placed[n] = step[n][placed[n - 1]]
    BY <2>1
  <2>3. Steps(N, T, <<InitTask>>, step)
    BY <1>1, <1>2, <1>5 DEF Steps
  <2> HIDE DEF step
  <2> QED BY <2>1, <2>2, <2>3, StepsStay
<1>11. PICK m \in T : m = placed[N]
  <2>1. N \in 0..N
    BY <1>1
  <2> QED BY <1>10, <2>1
<1> HIDE DEF step
<1> DEFINE n == Len(m)
           U == S \cup {InitTask}
<1>12. /\ m \in Seq(U) /\ n \in Nat /\ n >= 1 /\ n < MaxNodes /\ DOMAIN m = 1..n /\ m[1] = InitTask
       /\ \A k \in 1..n : m[k].family # "final"
       /\ \A k \in 1..n : Cardinality(OfFamily(m, m[k].family)) <= MaxFamily
  BY <1>11 DEF Open, T
<1> DEFINE last == FinalTask
<1>13. PICK a : a = Append(m, last) /\ Appended(U, m, last, a)
  <2>1. m \in Seq(U)
    BY <1>12
  <2> HIDE DEF U, last
  <2> QED BY <2>1, AppendIs
<1>14. Mesh(tasks) = a
  BY <1>4, <1>11, <1>12, <1>13 DEF Closed
<1>15. U \cup {FinalTask} = S \cup {InitTask, FinalTask}
  OBVIOUS
<1>16. /\ \A f : f # last.family => OfFamily(a, f) = OfFamily(m, f)
       /\ Cardinality(OfFamily(m, last.family)) \in Nat
       /\ Cardinality(OfFamily(a, last.family)) = Cardinality(OfFamily(m, last.family)) + 1
  <2> HIDE DEF U, last
  <2> QED BY <1>13, AppendedFamily DEF OneMore
<1>22. /\ a \in Seq(U \cup {FinalTask}) /\ Len(a) = n + 1
       /\ \A k \in 1..n : a[k] = m[k]
       /\ a[n + 1] = last
  BY <1>13 DEF Appended
<1>17. last.family = "final"
  BY DEF FinalTask
<1> HIDE DEF last
<1>18. OfFamily(m, last.family) = {}
  BY <1>12, <1>17 DEF OfFamily
<1>19. Cardinality(OfFamily(a, last.family)) <= MaxFamily
  <2>1. Cardinality(OfFamily(m, last.family)) = 0
    BY <1>18, FS_EmptySet
  <2> QED BY <1>16, <2>1, MeshAssumption
<1> HIDE DEF n
<1>20. ASSUME NEW k \in 1..(n + 1) PROVE Cardinality(OfFamily(a, a[k].family)) <= MaxFamily
  <2>1. CASE k = n + 1
    BY <1>19, <1>22, <2>1
  <2>2. CASE k # n + 1
    <3>1. k \in 1..n /\ a[k] = m[k]
      BY <1>12, <1>22, <2>2
    <3> QED BY <1>12, <1>16, <1>17, <3>1
  <2> QED BY <2>1, <2>2
<1>21. Len(a) <= MaxNodes /\ a[1] = InitTask /\ a[Len(a)] = FinalTask /\ DOMAIN a = 1..(n + 1)
  BY <1>12, <1>22, MeshAssumption DEF last
<1>23. MeshOK(a)
  BY <1>20, <1>21 DEF MeshOK
<1> QED BY <1>14, <1>15, <1>22, <1>23

-----------------------------------------------------------------------------
(* From the functions of a file to its recipe.                             *)

ColdFree(file, tasks) == \A k \in DOMAIN tasks : tasks[k].def # 0 => Reasons(file, tasks[k].def) = {}

\* What a function may be translated to, if the router has refused the
\* definitions that have reasons.
Clean(file, tf) ==
  /\ tf.ops \in Seq(Construct)
  /\ tf.def # 0 => Reasons(file, tf.def) = {}

LEMMA RecipeIs ==
  ASSUME NEW F, NEW functions \in Seq(F), \A tf \in F : tf.ops \in Seq(Construct)
  PROVE  /\ MeshOK(translated_to_recipe(functions))
         /\ \A file : (\A tf \in F : Clean(file, tf)) => ColdFree(file, translated_to_recipe(functions))
<1> DEFINE N == Len(functions)
           task(tf, op) == [name |-> tf.name, def |-> tf.def, family |-> op.family, text |-> op.text]
           S == UNION {{task(tf, op) : op \in Construct} : tf \in F}
           tasksOf(tf) == [k \in DOMAIN tf.ops |-> task(tf, tf.ops[k])]
           listed == [k \in DOMAIN functions |-> tasksOf(functions[k])]
           tasks == FlattenSeq(listed)
<1>1. N \in Nat /\ DOMAIN functions = 1..N /\ \A k \in 1..N : functions[k] \in F
  OBVIOUS
<1>2. ASSUME NEW tf \in F PROVE tasksOf(tf) \in Seq(S)
  <2>1. tf.ops \in Seq(Construct)
    OBVIOUS
  <2>2. \A k \in 1..Len(tf.ops) : task(tf, tf.ops[k]) \in S
    BY <2>1
  <2> HIDE DEF task, S
  <2> QED BY <2>1, <2>2
<1>3. listed \in Seq(Seq(S))
  <2>1. \A k \in 1..N : tasksOf(functions[k]) \in Seq(S)
    BY <1>1, <1>2
  <2> HIDE DEF tasksOf, S, N
  <2> QED BY <1>1, <2>1
<1>4. tasks \in Seq(S)
  <2> HIDE DEF listed, S
  <2> QED BY <1>3, FlattenIn
<1>5. translated_to_recipe(functions) = Mesh(tasks)
  BY DEF translated_to_recipe
<1>6. ASSUME NEW t \in S
      PROVE  t.family \notin {"init", "final"} /\ \E tf \in F : t.def = tf.def
  <2>1. PICK tf \in F, op \in Construct : t = task(tf, op)
    OBVIOUS
  <2>2. t.family = op.family /\ t.def = tf.def
    BY <2>1
  <2> QED BY <2>2 DEF Construct
<1> HIDE DEF tasks, S
<1>7. MeshOK(Mesh(tasks)) /\ Mesh(tasks) \in Seq(S \cup {InitTask, FinalTask})
  BY <1>4, <1>6, MeshKeepsCaps
<1>8. ASSUME NEW file, \A tf \in F : Clean(file, tf) PROVE ColdFree(file, Mesh(tasks))
  <2> SUFFICES ASSUME NEW k \in DOMAIN Mesh(tasks), Mesh(tasks)[k].def # 0
               PROVE  Reasons(file, Mesh(tasks)[k].def) = {}
    BY DEF ColdFree
  <2>1. PICK t : t = Mesh(tasks)[k] /\ t \in S \cup {InitTask, FinalTask}
    BY <1>7
  <2>2. InitTask.def = 0 /\ FinalTask.def = 0
    BY DEF InitTask, FinalTask
  <2>3. t \in S
    BY <2>1, <2>2
  <2> QED BY <1>6, <1>8, <2>1, <2>3 DEF Clean
<1> QED BY <1>5, <1>7, <1>8

\* A function by its name is the first definition of it.
LEMMA TranslatedFunction ==
  ASSUME NEW file, IsSource(file), NEW name
  PROVE  LET tf == translate_function(file, name)
         IN /\ tf.name = name /\ tf.ops \in Seq(Construct)
            /\ tf.def # 0 => tf.def \in DOMAIN file.defs /\ file.defs[tf.def].name = name
<1> DEFINE named == {d \in DOMAIN file.defs : file.defs[d].name = name}
           first == CHOOSE d \in named : \A e \in named : d <= e
           bodies == [d \in DOMAIN file.defs |-> file.defs[d].ops]
           ops == FlattenSeq(Picked(bodies, Whole(file, first)))
           tf == translate_function(file, name)
<1>1. /\ DOMAIN file.defs = 1..Len(file.defs) /\ Len(file.defs) \in Nat
      /\ \A d \in DOMAIN file.defs : /\ file.defs[d].inner \subseteq DOMAIN file.defs
                                     /\ file.defs[d].ops \in Seq(Construct)
  BY DEF IsSource
<1>2. CASE named = {}
  <2>1. tf = [name |-> name, def |-> 0, ops |-> <<>>]
    BY <1>2 DEF translate_function
  <2> QED BY <2>1
<1>3. CASE named # {}
  <2>1. named \in SUBSET Nat
    BY <1>1
  <2>2. \E d \in named : \A e \in named : d <= e
    <3> HIDE DEF named
    <3> QED BY <1>3, <2>1, LeastNumber
  <2>3. first \in named
    <3> HIDE DEF named
    <3> QED BY <2>2
  <2>4. tf = [name |-> name, def |-> first, ops |-> ops]
    BY <1>3 DEF translate_function
  <2> HIDE DEF first
  <2>5. first \in DOMAIN file.defs /\ file.defs[first].name = name
    BY <2>3
  <2>6. Whole(file, first) \in SUBSET DOMAIN file.defs
    BY <1>1, <2>5 DEF Whole
  <2>7. bodies \in Seq(Seq(Construct)) /\ DOMAIN bodies = DOMAIN file.defs
    BY <1>1
  <2> HIDE DEF bodies
  <2>8. Picked(bodies, Whole(file, first)) \in Seq(Seq(Construct))
    BY <2>6, <2>7, PickedIn
  <2>9. ops \in Seq(Construct)
    BY <2>8, FlattenIn
  <2> HIDE DEF ops
  <2> QED BY <2>4, <2>5, <2>9
<1> QED BY <1>2, <1>3

\* Whoever is not cold by name has no reason, if the file is what was routed.
LEMMA NotColdIsClean ==
  ASSUME NEW file, IsSource(file), file.language # "rust", file.parses,
         NEW name, name \notin cold_names(file)
  PROVE  Clean(file, translate_function(file, name))
<1> DEFINE tf == translate_function(file, name)
<1>1. /\ tf.ops \in Seq(Construct)
      /\ tf.def # 0 => tf.def \in DOMAIN file.defs /\ file.defs[tf.def].name = name
  BY TranslatedFunction
<1> HIDE DEF tf
<1>2. ASSUME tf.def # 0, Reasons(file, tf.def) # {} PROVE FALSE
  <2>1. tf.def \in analyze_routing_dispatch(file)
    BY <1>1, <1>2 DEF analyze_routing_dispatch, analyze_routing
  <2> QED BY <1>1, <1>2, <2>1 DEF cold_names
<1>3. Clean(file, tf)
  BY <1>1, <1>2 DEF Clean
<1> QED BY <1>3 DEF tf

\* The readers of a hot path are numbered, one for each of its files.
LEMMA HotPathMesh ==
  ASSUME NEW scan \in Scans, NEW hp \in identify_hotpaths(scan)
  PROVE  MeshOK(hotpath_to_recipe(hp))
<1> DEFINE N == Cardinality(hp.files)
           reader(k) == [name |-> "", def |-> 0, family |-> "reader", text |-> ToString(Nth(hp.files, k))]
           readers == [k \in 1..N |-> reader(k)]
           S == {reader(k) : k \in 1..N}
<1>1. scan \in Seq(Range(scan))
  BY PipelineAssumption
<1>2. hp.files \in SUBSET (1..Len(scan)) /\ Len(scan) \in Nat
  <2> DEFINE group(k) == {l \in DOMAIN scan : scan[l] = scan[k]}
             firsts == {k \in DOMAIN scan : \A l \in 1..(k - 1) : scan[l] # scan[k]}
             id(k) == Cardinality({j \in firsts : j < k})
             large == {k \in firsts : Cardinality(group(k)) >= 2}
  <2>2. hp \in {[id |-> id(k), files |-> group(k)] : k \in large}
    BY DEF identify_hotpaths
  <2> HIDE DEF large, id
  <2>3. PICK k \in large : hp = [id |-> id(k), files |-> group(k)]
    BY <2>2
  <2>1. hp.files = group(k)
    BY <2>3
  <2> QED BY <1>1, <2>1
<1>3. N \in Nat
  BY <1>2, PositionsFinite
<1> HIDE DEF N
<1>4. readers \in Seq(S)
  <2> HIDE DEF reader
  <2> QED BY <1>3
<1>5. ASSUME NEW t \in S PROVE t.family \notin {"init", "final"}
  <2>1. PICK k \in 1..N : t = reader(k)
    OBVIOUS
  <2>2. t.family = "reader"
    BY <2>1
  <2> QED BY <2>2
<1>6. hotpath_to_recipe(hp) = Mesh(readers)
  BY DEF hotpath_to_recipe, N
<1> HIDE DEF readers, S
<1> QED BY <1>4, <1>5, <1>6, MeshKeepsCaps

-----------------------------------------------------------------------------
(* The invariant.                                                          *)

Fields == {"phase", "path", "names", "untested", "compiler", "write_recipe", "cold", "routed",
           "translated", "recipe", "todo", "functions_rejected"}

\* Until one of its functions is rejected, a run has no rejection against it,
\* and goes on to write only then.
VerdictOK ==
  /\ run.functions_rejected \in Nat
  /\ run.phase \notin {"verify", "rollback", "flag"} => run.functions_rejected = 0
  /\ run.functions_rejected = 0 /\ run.phase # "flag" => run.path \notin rejected

\* What the run has kept of the file it routed and of the one it translated.
KeptOK ==
  /\ run.phase \notin {"ffi", "route"} => run.cold = cold_names(run.routed)
  /\ run.phase \in {"verify", "rollback", "flag", "write"} =>
       /\ MeshOK(run.recipe)
       /\ run.translated = run.routed => ColdFree(run.routed, run.recipe)

RunOK ==
  run # Idle =>
    /\ DOMAIN run = Fields
    /\ run.phase \in {"ffi", "route", "translate", "verify", "rollback", "flag", "write"}
    /\ run.path \in Sources /\ run.names \in Names
    /\ VerdictOK /\ KeptOK

\* A recipe of a source is under the name of that source only.
RecipeOK(s) ==
  /\ DOMAIN recipes[s] = {"path", "tasks", "from"}
  /\ recipes[s].path \in Sources \cup {"", "hotpaths"}
  /\ recipes[s].path \in Sources => s = Base[recipes[s].path]
  /\ recipes[s].path \notin rejected
  /\ recipes[s].tasks # <<>> => MeshOK(recipes[s].tasks)
  /\ recipes[s].from # <<>> /\ recipes[s].from[1].file = recipes[s].from[1].routed =>
       ColdFree(recipes[s].from[1].routed, recipes[s].tasks)

TranslationInv ==
  /\ files \in [Sources -> Versions]
  /\ DOMAIN recipes = Slots
  /\ rejected \subseteq Sources
  /\ RunOK
  /\ \A s \in Slots : RecipeOK(s)

LEMMA IdleIs == Idle.phase = "idle"
BY DEF Idle

LEMMA AbsentIs ==
  /\ DOMAIN Absent = {"path", "tasks", "from"}
  /\ Absent.path = "" /\ Absent.tasks = <<>> /\ Absent.from = <<>>
  /\ Absent.path \notin Sources /\ "hotpaths" \notin Sources
BY PipelineAssumption DEF Absent

LEMMA TranslationInit == Init => TranslationInv
BY AbsentIs DEF Init, TranslationInv, RunOK, RecipeOK

\* Recipes that stay, while rejections are none or forgotten.
LEMMA RecipesStay ==
  ASSUME TranslationInv, recipes' = recipes, rejected' \subseteq rejected
  PROVE  /\ DOMAIN recipes' = Slots /\ rejected' \subseteq Sources
         /\ \A s \in Slots : RecipeOK(s)'
BY DEF TranslationInv, RecipeOK

LEMMA EditKeeps == ASSUME TranslationInv, NEW p \in Sources, Edit(p) PROVE TranslationInv'
<1>1. /\ UNCHANGED <<recipes, run, rejected>>
      /\ \E v \in Versions : files' = [files EXCEPT ![p] = v]
  BY DEF Edit
<1>2. files' \in [Sources -> Versions]
  BY <1>1 DEF TranslationInv
<1>3. RunOK'
  BY <1>1 DEF TranslationInv, RunOK, VerdictOK, KeptOK
<1> QED BY <1>1, <1>2, <1>3, RecipesStay DEF TranslationInv

LEMMA StartKeeps ==
  ASSUME TranslationInv, NEW p \in Sources, NEW names \in Names, NEW untested, NEW compiler, NEW write,
         Start(p, names, untested, compiler, write)
  PROVE  TranslationInv'
<1>1. /\ UNCHANGED <<files, recipes>> /\ rejected' = rejected \ {p}
      /\ run' = [phase |-> "ffi", path |-> p, names |-> names, untested |-> untested,
                 compiler |-> compiler, write_recipe |-> write,
                 cold |-> {}, routed |-> <<>>, translated |-> <<>>, recipe |-> <<>>, todo |-> <<>>,
                 functions_rejected |-> 0]
  BY DEF Start
<1>2. /\ DOMAIN run' = Fields /\ run'.phase = "ffi" /\ run'.path = p /\ run'.names = names
      /\ run'.functions_rejected = 0
  BY <1>1 DEF Fields
<1>3. VerdictOK' /\ KeptOK'
  BY <1>1, <1>2 DEF VerdictOK, KeptOK
<1>4. RunOK'
  BY <1>2, <1>3 DEF RunOK
<1> QED BY <1>1, <1>4, RecipesStay DEF TranslationInv

LEMMA AnalyzeFfiKeeps == ASSUME TranslationInv, AnalyzeFfi PROVE TranslationInv'
<1>1. /\ UNCHANGED <<files, recipes, rejected>> /\ run.phase = "ffi"
      /\ run' = [run EXCEPT !.phase = "route"]
  BY DEF AnalyzeFfi
<1>2. RunOK /\ run # Idle
  BY <1>1, IdleIs DEF TranslationInv
<1>3. /\ DOMAIN run' = Fields /\ run'.phase = "route"
      /\ run'.path = run.path /\ run'.names = run.names
      /\ run'.functions_rejected = run.functions_rejected
  BY <1>1, <1>2 DEF RunOK, Fields
<1>4. VerdictOK' /\ KeptOK'
  BY <1>1, <1>2, <1>3 DEF RunOK, VerdictOK, KeptOK
<1>5. RunOK'
  BY <1>2, <1>3, <1>4 DEF RunOK
<1> QED BY <1>1, <1>5, RecipesStay DEF TranslationInv

LEMMA RouteKeeps == ASSUME TranslationInv, Route PROVE TranslationInv'
<1>1. /\ UNCHANGED <<files, recipes, rejected>> /\ run.phase = "route"
      /\ run' = [run EXCEPT !.phase = "translate", !.cold = cold_names(files[run.path]),
                            !.routed = files[run.path]]
  BY DEF Route
<1>2. RunOK /\ run # Idle
  BY <1>1, IdleIs DEF TranslationInv
<1>3. /\ DOMAIN run' = Fields /\ run'.phase = "translate"
      /\ run'.path = run.path /\ run'.names = run.names
      /\ run'.functions_rejected = run.functions_rejected
      /\ run'.cold = cold_names(run'.routed)
  BY <1>1, <1>2 DEF RunOK, Fields
<1>4. VerdictOK' /\ KeptOK'
  BY <1>1, <1>2, <1>3 DEF RunOK, VerdictOK, KeptOK
<1>5. RunOK'
  BY <1>2, <1>3, <1>4 DEF RunOK
<1> QED BY <1>1, <1>5, RecipesStay DEF TranslationInv

\* What Translate makes of a file: functions that are clean if it is the one
\* that was routed.
Remaining(all, cold) == Picked(all, {k \in DOMAIN all : all[k].name \notin cold /\ Translatable(all[k])})

Good(recipe, file, routed) == MeshOK(recipe) /\ (file = routed => ColdFree(routed, recipe))

LEMMA TranslatedIsClean ==
  ASSUME NEW file, IsSource(file), NEW cold, NEW active \in Seq(STRING), NEW all,
         all \in {<<>>, translate_file(file, active)},
         NEW routed, cold = cold_names(routed)
  PROVE  Good(translated_to_recipe(Remaining(all, cold)), file, routed)
<1> DEFINE K == {k \in DOMAIN all : all[k].name \notin cold /\ Translatable(all[k])}
           functions == Picked(all, K)
           discovered == [d \in DOMAIN file.defs |-> file.defs[d].name]
           wanted == IF active = <<>> THEN discovered ELSE active
           A == {translate_function(file, name) : name \in STRING}
           F == {tf \in A : tf.name \notin cold}
<1>1. discovered \in Seq(STRING)
  BY DEF IsSource
<1>2. wanted \in Seq(STRING)
  BY <1>1
<1> HIDE DEF wanted
<1>3. all = <<>> \/ (/\ file.language # "rust" /\ file.parses
                    /\ all = [k \in DOMAIN wanted |-> translate_function(file, wanted[k])])
  BY DEF translate_file, wanted
<1>4. all \in Seq(A)
  <2>1. \A k \in DOMAIN wanted : translate_function(file, wanted[k]) \in A
    BY <1>2
  <2>2. wanted = [k \in 1..Len(wanted) |-> wanted[k]] /\ Len(wanted) \in Nat
    BY <1>2
  <2> HIDE DEF A
  <2>3. CASE all = <<>>
    BY <2>3
  <2>4. CASE all # <<>>
    BY <1>3, <2>1, <2>2, <2>4
  <2> QED BY <2>3, <2>4
<1>5. functions \in Seq(A) /\ \A n \in DOMAIN functions : \E k \in K : functions[n] = all[k]
  <2>1. K \in SUBSET DOMAIN all
    OBVIOUS
  <2> HIDE DEF K, A
  <2> QED BY <1>4, <2>1, PickedIn
<1>6. functions \in Seq(F)
  <2>1. \A n \in DOMAIN functions : functions[n] \in F
    <3> SUFFICES ASSUME NEW n \in DOMAIN functions PROVE functions[n] \in F
      OBVIOUS
    <3>1. PICK k \in K : functions[n] = all[k]
      BY <1>5
    <3>2. functions[n].name \notin cold
      BY <3>1
    <3> HIDE DEF A, functions
    <3>3. functions[n] \in A
      BY <1>5
    <3> QED BY <3>2, <3>3
  <2> HIDE DEF functions, F, A
  <2> QED BY <1>5, <2>1
<1>7. ASSUME NEW tf \in F PROVE tf.ops \in Seq(Construct)
  BY TranslatedFunction
<1>10. Remaining(all, cold) = functions
  BY DEF Remaining
<1> HIDE DEF functions
<1>8. CASE all = <<>>
  <2>1. functions \in Seq({})
    <3>1. K = {} /\ Cardinality({}) = 0
      BY <1>8, FS_EmptySet
    <3>2. Picked(all, {}) = <<>>
      BY <3>1 DEF Picked
    <3>3. functions = Picked(all, K)
      BY DEF functions
    <3>4. functions = <<>>
      BY ONLY <3>1, <3>2, <3>3
    <3> QED BY <3>4
  <2>2. \A tf \in {} : Clean(routed, tf) /\ tf.ops \in Seq(Construct)
    OBVIOUS
  <2>3. MeshOK(translated_to_recipe(functions)) /\ ColdFree(routed, translated_to_recipe(functions))
    BY <2>1, <2>2, RecipeIs
  <2> QED BY <1>10, <2>3 DEF Good
<1>9. CASE all # <<>>
  <2>0. file.language # "rust" /\ file.parses
    BY <1>3, <1>9
  <2>1. CASE file = routed
    <3>1. ASSUME NEW tf \in F PROVE Clean(file, tf)
      <4>1. PICK name \in STRING : tf = translate_function(file, name)
        OBVIOUS
      <4>2. tf.name = name
        BY <4>1, TranslatedFunction
      <4>3. name \notin cold_names(file)
        BY <2>1, <4>2
      <4> QED BY <2>0, <4>1, <4>3, NotColdIsClean
    <3> HIDE DEF F
    <3>2. MeshOK(translated_to_recipe(functions)) /\ ColdFree(file, translated_to_recipe(functions))
      BY <1>6, <1>7, <3>1, RecipeIs
    <3> QED BY <1>10, <2>1, <3>2 DEF Good
  <2>2. CASE file # routed
    <3>1. MeshOK(translated_to_recipe(functions))
      <4> HIDE DEF F
      <4> QED BY <1>6, <1>7, RecipeIs
    <3> QED BY <1>10, <2>2, <3>1 DEF Good
  <2> QED BY <2>1, <2>2
<1> QED BY <1>8, <1>9

LEMMA TranslateKeeps == ASSUME TranslationInv, NEW rich, Translate(rich) PROVE TranslationInv'
<1> DEFINE file      == files[run.path]
           named     == run.names
           cold      == run.cold
           routed    == run.routed
           active    == Picked(named, {k \in DOMAIN named : named[k] \notin cold})
           all       == IF named # <<>> /\ active = <<>> THEN <<>> ELSE translate_file(file, active)
           functions == Remaining(all, cold)
           recipe    == translated_to_recipe(functions)
           todo      == [k \in DOMAIN functions |-> functions[k].name]
<1>1. UNCHANGED <<files, recipes, rejected>> /\ run.phase = "translate"
  BY DEF Translate
<1>2. \/ run' = Idle
      \/ run' = [run EXCEPT !.phase = "verify", !.translated = file, !.recipe = recipe, !.todo = todo]
  BY DEF Translate, Remaining
<1>3. run # Idle
  BY <1>1, IdleIs
<1>4. /\ DOMAIN run = Fields /\ run.path \in Sources /\ named \in Names
      /\ VerdictOK /\ cold = cold_names(routed)
  BY <1>1, <1>3 DEF TranslationInv, RunOK, KeptOK
<1>5. /\ MeshOK(recipe)
      /\ file = routed => ColdFree(routed, recipe)
  <2>1. named \in Seq(STRING)
    BY <1>4, PipelineAssumption
  <2>2. IsSource(file)
    BY <1>4, PipelineAssumption DEF TranslationInv
  <2>3. active \in Seq(STRING)
    <3> DEFINE K == {k \in DOMAIN named : named[k] \notin cold}
    <3>1. K \in SUBSET DOMAIN named
      OBVIOUS
    <3> HIDE DEF K, named
    <3>2. Picked(named, K) \in Seq(STRING)
      BY <2>1, <3>1, PickedIn
    <3> QED BY <3>2 DEF K
  <2>4. all \in {<<>>, translate_file(file, active)}
    OBVIOUS
  <2>5. cold = cold_names(routed)
    BY <1>4
  <2> HIDE DEF active, all, file, cold, routed
  <2>6. Good(recipe, file, routed)
    BY <2>2, <2>3, <2>4, <2>5, TranslatedIsClean
  <2> QED BY <2>6 DEF Good
<1> HIDE DEF recipe, todo, file
<1>6. RunOK'
  <2>1. CASE run' = Idle
    BY <2>1 DEF RunOK
  <2>2. CASE run' = [run EXCEPT !.phase = "verify", !.translated = file, !.recipe = recipe, !.todo = todo]
    <3>1. /\ DOMAIN run' = Fields /\ run'.phase = "verify" /\ run'.path = run.path
          /\ run'.names = run.names /\ run'.functions_rejected = run.functions_rejected
          /\ run'.cold = run.cold /\ run'.routed = run.routed
          /\ run'.translated = file /\ run'.recipe = recipe
      BY <1>4, <2>2 DEF Fields
    <3>2. VerdictOK'
      BY <1>1, <1>4, <3>1 DEF VerdictOK
    <3>3. KeptOK'
      BY <1>4, <1>5, <3>1 DEF KeptOK
    <3> QED BY <1>4, <3>1, <3>2, <3>3 DEF RunOK
  <2> QED BY <1>2, <2>1, <2>2
<1> QED BY <1>1, <1>6, RecipesStay DEF TranslationInv

\* The verdict and the flag leave the recipes as they are.
LEMMA VerdictKeeps == ASSUME TranslationInv, Verify \/ Flag PROVE TranslationInv'
<1>1. UNCHANGED <<files, recipes, rejected>> /\ run.phase \in {"verify", "flag"}
  BY DEF Verify, Flag
<1>2. run # Idle
  BY <1>1, IdleIs
<1>3. /\ DOMAIN run = Fields /\ run.path \in Sources /\ run.names \in Names
      /\ VerdictOK /\ KeptOK
  BY <1>1, <1>2 DEF TranslationInv, RunOK
<1>4. /\ DOMAIN run' = Fields /\ run'.phase \in {"verify", "rollback"} /\ run'.path = run.path
      /\ run'.names = run.names /\ run'.cold = run.cold /\ run'.routed = run.routed
      /\ run'.translated = run.translated /\ run'.recipe = run.recipe
      /\ \/ run'.functions_rejected = run.functions_rejected /\ run.phase = "verify"
         \/ run'.functions_rejected = run.functions_rejected + 1
  <2>1. CASE Verify
    BY <1>3, <2>1 DEF Verify, Passed, Fields, Rejections
  <2>2. CASE Flag
    BY <1>3, <2>2 DEF Flag, Passed, Fields, Rejections
  <2> QED BY <2>1, <2>2
<1>5. VerdictOK'
  BY <1>1, <1>3, <1>4 DEF VerdictOK
<1>6. KeptOK'
  BY <1>1, <1>3, <1>4 DEF KeptOK
<1>7. RunOK'
  BY <1>3, <1>4, <1>5, <1>6 DEF RunOK
<1> QED BY <1>1, <1>7, RecipesStay DEF TranslationInv

\* A rejected function: the recipe of its source goes.
LEMMA RollbackKeeps == ASSUME TranslationInv, Rollback PROVE TranslationInv'
<1>1. /\ UNCHANGED files /\ run.phase = "rollback"
      /\ recipes' = [recipes EXCEPT ![Base[run.path]] = Absent]
      /\ rejected' = rejected \cup {run.path}
  BY DEF Rollback
<1>2. run # Idle
  BY <1>1, IdleIs
<1>3. /\ DOMAIN run = Fields /\ run.path \in Sources /\ run.names \in Names
      /\ VerdictOK /\ KeptOK
  BY <1>1, <1>2 DEF TranslationInv, RunOK
<1>4. /\ DOMAIN run' = Fields /\ run'.phase = "flag" /\ run'.path = run.path
      /\ run'.names = run.names /\ run'.cold = run.cold /\ run'.routed = run.routed
      /\ run'.translated = run.translated /\ run'.recipe = run.recipe
      /\ run'.functions_rejected = run.functions_rejected
  BY <1>3 DEF Rollback, Fields
<1>5. VerdictOK'
  BY <1>1, <1>3, <1>4 DEF VerdictOK
<1>6. KeptOK'
  BY <1>1, <1>3, <1>4 DEF KeptOK
<1>7. RunOK'
  BY <1>3, <1>4, <1>5, <1>6 DEF RunOK
<1>8. DOMAIN recipes' = Slots /\ rejected' \subseteq Sources
  BY <1>1, <1>3 DEF TranslationInv
<1>9. ASSUME NEW s \in Slots PROVE RecipeOK(s)'
  <2>1. RecipeOK(s) /\ DOMAIN recipes = Slots
    BY DEF TranslationInv
  <2>2. CASE s = Base[run.path]
    <3>1. recipes'[s] = Absent
      BY <1>1, <2>1, <2>2
    <3> QED BY <1>8, <3>1, AbsentIs DEF RecipeOK
  <2>3. CASE s # Base[run.path]
    <3>1. recipes'[s] = recipes[s]
      BY <1>1, <2>1, <2>3
    <3>2. recipes[s].path # run.path
      BY <1>3, <2>1, <2>3 DEF RecipeOK
    <3> QED BY <1>1, <2>1, <3>1, <3>2 DEF RecipeOK
  <2> QED BY <2>2, <2>3
<1> QED BY <1>1, <1>7, <1>8, <1>9 DEF TranslationInv

LEMMA DecideKeeps == ASSUME TranslationInv, Decide PROVE TranslationInv'
<1>1. UNCHANGED <<files, rejected>> /\ run.phase = "verify"
  BY DEF Decide
<1>2. run # Idle
  BY <1>1, IdleIs
<1>3. /\ DOMAIN run = Fields /\ run.path \in Sources /\ run.names \in Names
      /\ VerdictOK /\ KeptOK
  BY <1>1, <1>2 DEF TranslationInv, RunOK
<1>4. CASE run' = Idle /\ UNCHANGED recipes
  <2>1. RunOK'
    BY <1>4 DEF RunOK
  <2> QED BY <1>1, <1>4, <2>1, RecipesStay DEF TranslationInv
<1>5. CASE /\ run.functions_rejected = 0
           /\ recipes' = [recipes EXCEPT ![Base[run.path]] = [Absent EXCEPT !.path = run.path]]
           /\ run' = [run EXCEPT !.phase = "write"]
  <2>1. /\ DOMAIN run' = Fields /\ run'.phase = "write" /\ run'.path = run.path
        /\ run'.names = run.names /\ run'.cold = run.cold /\ run'.routed = run.routed
        /\ run'.translated = run.translated /\ run'.recipe = run.recipe
        /\ run'.functions_rejected = run.functions_rejected
    BY <1>3, <1>5 DEF Fields
  <2>2. VerdictOK' /\ KeptOK'
    BY <1>1, <1>3, <1>5, <2>1 DEF VerdictOK, KeptOK
  <2>3. RunOK'
    BY <1>3, <2>1, <2>2 DEF RunOK
  <2>4. run.path \notin rejected
    BY <1>1, <1>3, <1>5 DEF VerdictOK
  <2>5. DOMAIN recipes' = Slots
    BY <1>5 DEF TranslationInv
  <2>6. ASSUME NEW s \in Slots PROVE RecipeOK(s)'
    <3>1. RecipeOK(s) /\ DOMAIN recipes = Slots
      BY DEF TranslationInv
    <3>2. CASE s = Base[run.path]
      <4> DEFINE r == [Absent EXCEPT !.path = run.path]
      <4>1. /\ DOMAIN r = {"path", "tasks", "from"} /\ r.path = run.path
            /\ r.tasks = <<>> /\ r.from = <<>>
        BY AbsentIs
      <4>2. recipes'[s] = r
        BY <1>5, <3>1, <3>2
      <4> HIDE DEF r
      <4> QED BY <1>1, <1>3, <2>4, <3>2, <4>1, <4>2 DEF RecipeOK
    <3>3. CASE s # Base[run.path]
      <4>1. recipes'[s] = recipes[s]
        BY <1>5, <3>1, <3>3
      <4> QED BY <1>1, <3>1, <4>1 DEF RecipeOK
    <3> QED BY <3>2, <3>3
  <2> QED BY <1>1, <2>3, <2>5, <2>6 DEF TranslationInv
<1> QED BY <1>4, <1>5 DEF Decide

LEMMA WriteKeeps == ASSUME TranslationInv, Write PROVE TranslationInv'
<1>1. /\ UNCHANGED <<files, rejected>> /\ run.phase = "write" /\ run' = Idle
      /\ recipes' = [recipes EXCEPT ![Base[run.path]] =
                       [path |-> run.path, tasks |-> run.recipe,
                        from |-> <<[file |-> run.translated, routed |-> run.routed]>>]]
  BY DEF Write
<1>2. run # Idle
  BY <1>1, IdleIs
<1>3. /\ run.path \in Sources /\ run.path \notin rejected
      /\ MeshOK(run.recipe)
      /\ run.translated = run.routed => ColdFree(run.routed, run.recipe)
  BY <1>1, <1>2 DEF TranslationInv, RunOK, VerdictOK, KeptOK
<1>4. RunOK'
  BY <1>1 DEF RunOK
<1>5. DOMAIN recipes' = Slots
  BY <1>1 DEF TranslationInv
<1>6. rejected' = rejected
  BY <1>1
<1>7. ASSUME NEW s \in Slots PROVE RecipeOK(s)'
  <2>1. RecipeOK(s) /\ DOMAIN recipes = Slots
    BY DEF TranslationInv
  <2>2. CASE s = Base[run.path]
    <3> DEFINE r == [path |-> run.path, tasks |-> run.recipe,
                     from |-> <<[file |-> run.translated, routed |-> run.routed]>>]
    <3>1. /\ DOMAIN r = {"path", "tasks", "from"} /\ r.path = run.path /\ r.tasks = run.recipe
          /\ r.from[1].file = run.translated /\ r.from[1].routed = run.routed
      OBVIOUS
    <3>2. recipes'[s] = r
      BY <1>1, <2>1, <2>2
    <3> HIDE DEF r
    <3> QED BY <1>3, <1>6, <2>2, <3>1, <3>2 DEF RecipeOK
  <2>3. CASE s # Base[run.path]
    <3>1. recipes'[s] = recipes[s]
      BY <1>1, <2>1, <2>3
    <3> QED BY <1>6, <2>1, <3>1 DEF RecipeOK
  <2> QED BY <2>2, <2>3
<1> QED BY <1>1, <1>4, <1>5, <1>7 DEF TranslationInv

LEMMA MapKeeps == ASSUME TranslationInv, NEW scan \in Scans, MapHotPaths(scan) PROVE TranslationInv'
<1> DEFINE hotpaths == identify_hotpaths(scan)
           Its(s)  == CHOOSE hp \in hotpaths : s = HotPathName(hp.id)
           Made(s) == [Absent EXCEPT !.path = "hotpaths", !.tasks = hotpath_to_recipe(Its(s))]
           Mapped(s) == \E hp \in hotpaths : s = HotPathName(hp.id)
<1>1. /\ UNCHANGED <<files, run, rejected>>
      /\ recipes' = [s \in Slots |-> IF Mapped(s) THEN Made(s) ELSE recipes[s]]
  BY DEF MapHotPaths
<1>2. RunOK'
  BY <1>1 DEF TranslationInv, RunOK, VerdictOK, KeptOK
<1>3. ASSUME NEW s \in Slots PROVE RecipeOK(s)'
  <2>1. RecipeOK(s)
    BY DEF TranslationInv
  <2>2. CASE Mapped(s)
    <3>1. Its(s) \in hotpaths
      BY <2>2
    <3>2. MeshOK(hotpath_to_recipe(Its(s)))
      <4> HIDE DEF Its
      <4> QED BY <3>1, HotPathMesh
    <3> HIDE DEF Its, Mapped
    <3>3. /\ DOMAIN Made(s) = {"path", "tasks", "from"} /\ Made(s).path = "hotpaths"
          /\ Made(s).tasks = hotpath_to_recipe(Its(s)) /\ Made(s).from = <<>>
      BY AbsentIs
    <3>4. recipes'[s] = Made(s)
      BY <1>1, <2>2
    <3>5. rejected' \subseteq Sources
      BY <1>1 DEF TranslationInv
    <3> HIDE DEF Made
    <3> QED BY <3>2, <3>3, <3>4, <3>5, AbsentIs DEF RecipeOK
  <2>3. CASE ~Mapped(s)
    <3> HIDE DEF Mapped, Made
    <3>1. recipes'[s] = recipes[s]
      BY <1>1, <2>3
    <3> QED BY <1>1, <2>1, <3>1 DEF RecipeOK
  <2> QED BY <2>2, <2>3
<1>4. DOMAIN recipes' = Slots
  BY <1>1
<1> QED BY <1>1, <1>2, <1>3, <1>4 DEF TranslationInv

LEMMA TranslationStep == TranslationInv /\ [Next]_vars => TranslationInv'
<1> SUFFICES ASSUME TranslationInv, [Next]_vars PROVE TranslationInv'
  OBVIOUS
<1>1. CASE \E p \in Sources : Edit(p)
  BY <1>1, EditKeeps
<1>2. CASE \E p \in Sources, names \in Names, untested \in Untested,
             compiler \in {"accepts", "fails"}, write \in BOOLEAN :
             Start(p, names, untested, compiler, write)
  BY <1>2, StartKeeps
<1>3. CASE AnalyzeFfi
  BY <1>3, AnalyzeFfiKeeps
<1>4. CASE Route
  BY <1>4, RouteKeeps
<1>5. CASE \E rich \in BOOLEAN : Translate(rich)
  BY <1>5, TranslateKeeps
<1>6. CASE Verify \/ Flag
  BY <1>6, VerdictKeeps
<1>12. CASE Rollback
  BY <1>12, RollbackKeeps
<1>7. CASE Decide
  BY <1>7, DecideKeeps
<1>8. CASE Write
  BY <1>8, WriteKeeps
<1>9. CASE Kill
  <2>1. UNCHANGED <<files, recipes, rejected>> /\ run' = Idle
    BY <1>9 DEF Kill
  <2>2. RunOK'
    BY <2>1 DEF RunOK
  <2> QED BY <2>1, <2>2, RecipesStay DEF TranslationInv
<1>10. CASE \E scan \in Scans : MapHotPaths(scan)
  BY <1>10, MapKeeps
<1>11. CASE UNCHANGED vars
  <2>1. UNCHANGED <<files, recipes, run, rejected>>
    BY <1>11 DEF vars
  <2>2. RunOK'
    BY <2>1 DEF TranslationInv, RunOK, VerdictOK, KeptOK
  <2> QED BY <2>1, <2>2, RecipesStay DEF TranslationInv
<1> QED BY <1>1, <1>2, <1>3, <1>4, <1>5, <1>6, <1>7, <1>8, <1>9, <1>10, <1>11, <1>12 DEF Next

\* What a run remembers of the file at each phase, which recipe may be whose,
\* and that each is within the guardrails, at all times.
THEOREM TranslationInvariant == Spec => []TranslationInv
BY TranslationInit, TranslationStep, PTL DEF Spec

\* A function the router refuses gets no task into a recipe, under whatever
\* name it is asked for, if the file was not edited in between.
THEOREM ColdStaysOutAlways == Spec => []ColdStaysOut
<1>1. TranslationInv => ColdStaysOut
  <2> SUFFICES ASSUME TranslationInv, NEW r \in Written, r.from[1].file = r.from[1].routed
               PROVE  ColdFree(r.from[1].file, r.tasks)
    BY DEF ColdStaysOut, ColdFree
  <2>1. PICK s \in Slots : r = recipes[s] /\ RecipeOK(s)
    BY DEF TranslationInv, Written, Range
  <2> QED BY <2>1 DEF RecipeOK, Written
<1> QED BY <1>1, TranslationInvariant, PTL

\* After a rollback no recipe of the source is left, of this run or an
\* earlier one.
THEOREM RejectedLeavesNoRecipeAlways == Spec => []RejectedLeavesNoRecipe
<1>1. TranslationInv => RejectedLeavesNoRecipe
  BY DEF TranslationInv, RecipeOK, RejectedLeavesNoRecipe
<1> QED BY <1>1, TranslationInvariant, PTL

\* Each mesh, of functions or of a hot path, keeps within its caps and ends
\* with its final task.
THEOREM MeshWithinGuardrailsAlways == Spec => []MeshWithinGuardrails
<1>1. TranslationInv => MeshWithinGuardrails
  <2> SUFFICES ASSUME TranslationInv, NEW r \in Range(recipes), r.tasks # <<>> PROVE MeshOK(r.tasks)
    BY DEF MeshWithinGuardrails, MeshOK, OfFamily
  <2>1. PICK s \in Slots : r = recipes[s] /\ RecipeOK(s)
    BY DEF TranslationInv, Range
  <2> QED BY <2>1 DEF RecipeOK
<1> QED BY <1>1, TranslationInvariant, PTL
=============================================================================
