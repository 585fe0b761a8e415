--------------------------- MODULE AeroTranslator ---------------------------
(***************************************************************************)
(* From functions to the recipe of a task mesh, in translator/:            *)
(* aero_translator.py, bytecode_mapper.py, hotpath_scanner.py and the      *)
(* filter of entropy_filter.py.  A construct the translator knows is       *)
(* [family, text]; a recipe is the sequence of its tasks, each of which    *)
(* needs the one before it.                                                *)
(***************************************************************************)
EXTENDS ColdPassRouter, Picking

CONSTANTS
  MaxNodes,       \* a in aero_translator.py, _MAX_NODES_PER_MESH: 25
  MaxFamily       \* b, _MAX_FAMILY_INSTANCES: 5

ASSUME MeshAssumption == MaxNodes \in Nat \ {0, 1} /\ MaxFamily \in Nat \ {0}

\* What a visitor of the syntax tree finds in a function.
Construct ==
  [family : {"iterator", "compute", "logger", "io", "transform", "worker", "output"}, text : STRING]

IsSource(file) ==
  /\ file.defs \in Seq(Range(file.defs))
  /\ \A d \in DOMAIN file.defs :
       /\ file.defs[d].name \in STRING
       /\ file.defs[d].inner \subseteq DOMAIN file.defs
       /\ file.defs[d].ops \in Seq(Construct)

\* The first definition of the name; one that is not there has no construct,
\* and neither has one nothing is known of: both are not translatable.
translate_function(file, name) ==
  LET named == {d \in DOMAIN file.defs : file.defs[d].name = name}
      first == CHOOSE d \in named : \A e \in named : d <= e
      ops == FlattenSeq(Picked([d \in DOMAIN file.defs |-> file.defs[d].ops], Whole(file, first)))
  IN IF named = {} THEN [name |-> name, def |-> 0, ops |-> <<>>]
     ELSE [name |-> name, def |-> first, ops |-> ops]

Translatable(tf) == tf.ops # <<>>

\* translate_file: the functions named, or all of them, each time its name occurs.
translate_file(file, names) ==
  LET discovered == [d \in DOMAIN file.defs |-> file.defs[d].name]
      wanted == IF names = <<>> THEN discovered ELSE names
  IN IF file.language = "rust" \/ ~file.parses THEN <<>>
     ELSE [k \in DOMAIN wanted |-> translate_function(file, wanted[k])]

InitTask  == [name |-> "", def |-> 0, family |-> "init",  text |-> ""]
FinalTask == [name |-> "", def |-> 0, family |-> "final", text |-> ""]

\* A regression: no node is kept back for the final one.
RoomToTheBrim(tasks) == Len(tasks) < MaxNodes

Room(tasks) == Len(tasks) < MaxNodes - 1

\* The next task, as long as the mesh and the family have room for it.
Placed(tasks, task) ==
  IF Room(tasks) /\ Cardinality({k \in DOMAIN tasks : tasks[k].family = task.family}) < MaxFamily
  THEN Append(tasks, task) ELSE tasks

Closed(tasks) == IF Len(tasks) < MaxNodes THEN Append(tasks, FinalTask) ELSE tasks

\* The loop over the tasks, from the initial one to the final one.
Mesh(tasks) ==
  LET placed[n \in 0..Len(tasks)] ==
        IF n = 0 THEN <<InitTask>> ELSE Placed(placed[n - 1], tasks[n])
  IN Closed(placed[Len(tasks)])

\* The caps are those of the mesh: later functions may get no task at all.
translated_to_recipe(functions) ==
  LET tasksOf(tf) == [k \in DOMAIN tf.ops |->
        [name |-> tf.name, def |-> tf.def, family |-> tf.ops[k].family, text |-> tf.ops[k].text]]
      tasks == FlattenSeq([k \in DOMAIN functions |-> tasksOf(functions[k])])
  IN Mesh(tasks)

\* structural_diversity: bodies without their ids, the header being one more.
Diverse(tasks) ==
  LET bodies == {<<tasks[k].name, tasks[k].family, tasks[k].text>> : k \in DOMAIN tasks}
  IN 10 * (1 + Cardinality(bodies)) >= 4 * (1 + Len(tasks))

\* scan_directory and identify_hotpaths: files of one schema, numbered before
\* the small groups are left out.  A scan is the sequence of the schemas.
identify_hotpaths(scan) ==
  LET firsts == {k \in DOMAIN scan : \A l \in 1..(k - 1) : scan[l] # scan[k]}
      group(k) == {l \in DOMAIN scan : scan[l] = scan[k]}
  IN {[id |-> Cardinality({j \in firsts : j < k}), files |-> group(k)] :
      k \in {k \in firsts : Cardinality(group(k)) >= 2}}

\* hotpath_to_recipe: a reader for each file, within the same caps.
hotpath_to_recipe(hp) ==
  LET readers == [k \in 1..Cardinality(hp.files) |->
                    [name |-> "", def |-> 0, family |-> "reader", text |-> ToString(Nth(hp.files, k))]]
  IN Mesh(readers)
=============================================================================
