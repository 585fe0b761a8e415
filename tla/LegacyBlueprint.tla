-------------------------- MODULE LegacyBlueprint --------------------------
(***************************************************************************)
(* The section formats of blueprint_parser.py: the INI lines, what their   *)
(* values may be, the check of the graph and the fallback context.  A      *)
(* value is its type; only target lists and dependency maps have content.  *)
(***************************************************************************)
EXTENDS Naturals, FiniteSets, Sequences, SequencesExt

\* What parse_literal makes of the text after "=" or ":".
Value(type, of) == [type |-> type, of |-> of]

\* An integer, a negative one, a fraction between 0 and 1, a word the key
\* knows, any other word.
Plain == {"bool", "int", "negative", "fraction", "list", "map", "word", "odd"}

Header(name)    == [kind |-> "header", name |-> name, value |-> Value("odd", <<>>)]
Pair(key, v)    == [kind |-> "pair", name |-> key, value |-> v]
Unrecognized    == [kind |-> "odd", name |-> "", value |-> Value("odd", <<>>)]

Ok      == "ok"
NoNames == [s \in {} |-> {}]

-----------------------------------------------------------------------------
(* The lines.                                                              *)

\* [sections, current, error] after one more line; the first error stands.
ReadLine(line, read) ==
  LET Fails(e) == [read EXCEPT !.error = e] IN
  IF read.error # Ok THEN read ELSE
  CASE line.kind = "odd" -> Fails("unrecognized")
    [] line.kind = "header" ->
         IF line.name = "" \/ line.name \in DOMAIN read.sections THEN Fails("section")
         ELSE [read EXCEPT !.current = line.name,
                 !.sections = [s \in DOMAIN read.sections \cup {line.name} |->
                    IF s = line.name THEN NoNames ELSE read.sections[s]]]
    [] line.kind = "pair" ->
         IF read.current = "" \/ line.name = "" THEN Fails("key")
         ELSE [read EXCEPT !.sections[read.current] =
                 [k \in DOMAIN @ \cup {line.name} |->
                    IF k = line.name THEN line.value ELSE @[k]]]

Unread == [sections |-> NoNames, current |-> "", error |-> Ok]

Sections(lines) ==
  LET Read[n \in 0..Len(lines)] == IF n = 0 THEN Unread ELSE ReadLine(lines[n], Read[n - 1])
  IN Read[Len(lines)]

-----------------------------------------------------------------------------
(* The values of the sections.                                             *)

AsBool  == {"bool"}
AsInt   == {"int", "negative"}
AsFloat == AsInt \cup {"fraction"}
AsList  == {"list", "word", "odd"}
AsDict  == {"map"}
AsText  == Plain
OneOf   == {"word"}

\* _validate_sections takes True for a number: it asks isinstance.
NumericFields ==
  [compiler |-> [pipeline_budget_seconds |-> AsFloat \cup AsBool,
                 max_memory_mb |-> AsInt \cup AsBool,
                 aot_boundary_check_elimination |-> AsBool],
   cortex   |-> [mutation_entropy_clamp_threshold |-> AsFloat \cup AsBool,
                 numa_node_locality_binding |-> AsBool],
   graph    |-> [allow_partial_graph |-> AsBool]]

\* normalize_optional_sections, section by section.
BuildFields ==
  [libraries   |-> [blas |-> OneOf, lapack |-> OneOf, mpi |-> AsBool, mpi_flavor |-> OneOf, cuda |-> AsText],
   distributed |-> [enabled |-> AsBool, worker_nodes |-> AsList, cache_sharing |-> OneOf],
   gpu         |-> [enabled |-> AsBool, backend |-> OneOf, kernel_sources |-> AsList],
   physics     |-> [dimensions |-> AsList, symbolic_validation |-> AsBool],
   precision_shield |-> [floating_point_contract |-> OneOf, fast_math_override |-> AsBool,
                    ieee_compliance |-> OneOf, default_float |-> OneOf, arbitrary_precision_bits |-> {"int"},
                    per_zone_overrides |-> AsDict, auto_detect_need |-> AsBool],
   hpc         |-> [scheduler |-> OneOf, queue |-> AsText, nodes |-> AsInt, tasks_per_node |-> AsInt,
                    walltime |-> AsText, environment |-> AsDict,
                    build_on_login_node |-> AsBool, post_build_run |-> AsBool]]

RunFields ==
  [runtime     |-> [enable_feedback |-> AsBool, benchmark_command |-> AsText, metrics_to_collect |-> AsList,
                    accuracy_reference |-> AsText, feedback_weight |-> {"int", "fraction"}],
   frameworks  |-> [language |-> OneOf, other |-> AsDict],
   validation  |-> [suite |-> AsText, tolerance |-> AsFloat, test_cases |-> AsList, execution_command |-> AsText,
                    validation_required |-> AsBool, generate_test_shims |-> AsBool],
   context     |-> [sources |-> {"list"}],
   analysis    |-> [dead_code_elimination |-> AsBool, static_import_pruning |-> AsBool],
   scaffold    |-> [source_entry |-> AsText, auto_layout |-> AsBool, distribution_directory |-> AsText,
                    name |-> AsText, compatibility_shims |-> AsList, dependencies |-> AsDict,
                    decomposition_mode |-> OneOf, module_mapping |-> AsDict]]

OptionalFields == BuildFields @@ RunFields

\* A key no table names is kept as it is.
Accepts(fields, sections) ==
  \A s \in DOMAIN fields \cap DOMAIN sections :
    \A k \in DOMAIN fields[s] \cap DOMAIN sections[s] : sections[s][k].type \in fields[s][k]

-----------------------------------------------------------------------------
(* The graph.                                                              *)

\* detect_cycles: visited is 1 on the path of the search and 2 behind it.
Searches(deps)  == [visited : [DOMAIN deps -> 0..2], cyclic : BOOLEAN]
Unvisited(deps) == [visited |-> [n \in DOMAIN deps |-> 0], cyclic |-> FALSE]

\* A dependency of the node that is searched; deeper is the call for it.
Follow(deeper, s, dependency) ==
  IF s.cyclic \/ dependency \notin DOMAIN s.visited THEN s
  ELSE CASE s.visited[dependency] = 1 -> [s EXCEPT !.cyclic = TRUE]
         [] s.visited[dependency] = 0 -> deeper[dependency][s]
         [] OTHER -> s

Search(deps, deeper, s, node) ==
  LET After[i \in 0..Len(deps[node])] ==
        IF i = 0 THEN [s EXCEPT !.visited[node] = 1] ELSE Follow(deeper, After[i - 1], deps[node][i])
      after == After[Len(deps[node])]
  IN IF after.cyclic THEN after ELSE [after EXCEPT !.visited[node] = 2]

\* dfs of each node. A path longer than there are nodes has met one again, so
\* that no call is deeper.
Dfs(deps) ==
  LET Calls[depth \in 0..Cardinality(DOMAIN deps)] ==
        [node \in DOMAIN deps |-> [s \in Searches(deps) |->
           IF depth = 0 THEN [s EXCEPT !.cyclic = TRUE] ELSE Search(deps, Calls[depth - 1], s, node)]]
  IN Calls[Cardinality(DOMAIN deps)]

\* A regression: the search starts from the first node alone.
FirstNodeOnly(nodes, deps) == Dfs(deps)[nodes[1]][Unvisited(deps)].cyclic

\* From each node in turn, in the order of the map.
detect_cycles(nodes, deps) ==
  LET Searched[i \in 0..Len(nodes)] ==
        IF i = 0 THEN Unvisited(deps)
        ELSE LET s == Searched[i - 1]
             IN IF s.cyclic \/ s.visited[nodes[i]] # 0 THEN s ELSE Dfs(deps)[nodes[i]][s]
  IN Searched[Len(nodes)].cyclic

Required == {"graph", "compiler", "cortex"}

\* The map with an empty entry for each target it leaves out.
DependencyMap(graph) ==
  LET given == graph.dependencies.of
  IN [n \in DOMAIN given \cup Range(graph.targets.of) |->
        IF n \in DOMAIN given THEN given[n] ELSE <<>>]

\* _validate_sections: its first complaint.
Complaint(sections) ==
  IF ~ Required \subseteq DOMAIN sections THEN "missing section"
  ELSE LET graph == sections["graph"] IN
    IF ~ {"targets", "dependencies"} \subseteq DOMAIN graph THEN "missing key"
    ELSE IF graph.targets.type # "list" \/ graph.targets.of = <<>> \/ "" \in Range(graph.targets.of)
         THEN "targets"
    ELSE IF graph.dependencies.type # "map" \/ "" \in DOMAIN graph.dependencies.of THEN "dependencies"
    ELSE IF LET deps == DependencyMap(graph) IN \E n \in DOMAIN deps : ~ Range(deps[n]) \subseteq DOMAIN deps
         THEN "unknown dependency"
    ELSE IF ~ Accepts(NumericFields, sections) THEN "type"
    ELSE Ok

\* parse_blueprint_content: the error, or Ok with the graph.
ParseContent(lines) ==
  LET read == Sections(lines)
      why  == IF read.error # Ok THEN read.error
              ELSE IF Complaint(read.sections) # Ok THEN Complaint(read.sections)
              ELSE IF ~ Accepts(OptionalFields, read.sections) THEN "optional section"
              ELSE LET deps == DependencyMap(read.sections["graph"])
                   IN IF detect_cycles(SetToSeq(DOMAIN deps), deps) THEN "loop" ELSE Ok
  IN IF why # Ok THEN [error |-> why, targets |-> <<>>, matrix |-> NoNames]
     ELSE [error |-> Ok, targets |-> read.sections["graph"].targets.of,
           matrix |-> DependencyMap(read.sections["graph"])]

\* parse_json_blueprint: the sections of the file as they are, of which only
\* [analysis] is looked into.
JsonRequired ==
  {"project", "analysis", "precision_shield", "hardware_profiling", "memoization",
   "context", "frameworks", "runtime", "validation", "physics"}

JsonComplaint(sections) ==
  IF ~ JsonRequired \subseteq DOMAIN sections THEN "missing section"
  ELSE IF ~ Accepts([analysis |-> OptionalFields.analysis], sections) THEN "optional section"
  ELSE Ok
=============================================================================
