-------------------------- MODULE InvisibleConfig --------------------------
(***************************************************************************)
(* src/invisible_config: the few lines of a lean blueprint (lean_parser),  *)
(* the graph inferred from them and the project's files (dag_inference)    *)
(* and the build context made of both (engine).                            *)
(***************************************************************************)
EXTENDS Naturals, FiniteSets, Sequences, SequencesExt

CONSTANTS
  Hint,   \* the language a target's name hints at, or "unknown"
  Files   \* the suffixes of the files whose path matches a target's name,
          \* in the order of their paths

-----------------------------------------------------------------------------
(* parse_lean_blueprint                                                    *)

Undeclared == ""

\* A line: project "name", key = value, or neither.
Project(name)       == [kind |-> "project", key |-> "", value |-> <<name>>]
Assign(key, values) == [kind |-> "assign", key |-> key, value |-> values]
Malformed           == [kind |-> "malformed", key |-> "", value |-> <<>>]

Nothing == [project |-> Undeclared, ingest |-> <<>>, targets |-> <<>>, optimize |-> "balanced",
            seen |-> {}, error |-> FALSE]

\* The one declaration of the project may be overridden by an assignment, not
\* the other way round.
Rejected(line, bp) ==
  \/ line.kind = "malformed"
  \/ line.kind = "project" /\ bp.project # Undeclared
  \/ line.kind = "assign" /\ line.key \in bp.seen

ParseLine(line, bp) ==
  IF bp.error \/ Rejected(line, bp) THEN [bp EXCEPT !.error = TRUE]
  ELSE LET read == IF line.kind = "assign" THEN [bp EXCEPT !.seen = @ \cup {line.key}] ELSE bp
       IN CASE line.kind = "project" \/ line.key = "project" -> [read EXCEPT !.project = line.value[1]]
            [] line.key = "optimize" -> [read EXCEPT !.optimize = line.value[1]]
            [] line.key = "ingest"   -> [read EXCEPT !.ingest = line.value]
            [] line.key = "targets"  -> [read EXCEPT !.targets = line.value]
            [] OTHER                 -> read

ParseLean(lines) ==
  LET Parsed[n \in 0..Len(lines)] ==
        IF n = 0 THEN Nothing ELSE ParseLine(lines[n], Parsed[n - 1])
      bp == Parsed[Len(lines)]
  IN [bp EXCEPT !.error = @ \/ bp.project = Undeclared \/ bp.targets = <<>>]

-----------------------------------------------------------------------------
(* DAGInferenceEngine                                                      *)

CompiledLanguages == {"cpp", "c", "rust", "fortran"}

\* The languages a suffix counts for; a header counts for two.
LanguagesOf(suffix) ==
  CASE suffix \in {".cpp", ".hpp"} -> <<"cpp">>
    [] suffix = ".h"               -> <<"cpp", "c">>
    [] suffix = ".c"               -> <<"c">>
    [] suffix = ".rs"              -> <<"rust">>
    [] suffix = ".py"              -> <<"python">>
    [] suffix = ".f90"             -> <<"fortran">>
    [] OTHER                       -> <<>>

\* _language_from_paths: what most files are in; of equals the first counted.
Dominant(suffixes) ==
  LET counted  == FlattenSeq([i \in DOMAIN suffixes |-> LanguagesOf(suffixes[i])])
      Count(l) == Cardinality({i \in DOMAIN counted : counted[i] = l})
      best     == {i \in DOMAIN counted : \A j \in DOMAIN counted : Count(counted[j]) <= Count(counted[i])}
  IN IF counted = <<>> THEN "unknown"
     ELSE counted[CHOOSE i \in best : \A j \in best : i <= j]

\* _infer_target: by name, else by files, else python.
Language(name) ==
  IF Hint[name] # "unknown" THEN Hint[name]
  ELSE IF Dominant(Files[name]) # "unknown" THEN Dominant(Files[name])
  ELSE "python"

IsCore(name) == Language(name) \in CompiledLanguages

\* Consumers are in python, all of them.
Mechanism(provider) ==
  CASE Language(provider) = "cpp"  -> "pybind11"
    [] Language(provider) = "rust" -> "pyo3"
    [] OTHER                       -> "ctypes"

INVARIANTS_NODE == "text_invariants"

\* _infer_ffi_boundaries, but for the dependencies it adds.
Boundaries(names) ==
  LET cores == {n \in Range(names) : IsCore(n)}
  IN {[provider |-> p, consumer |-> c, mechanism |-> Mechanism(p)] : p \in cores, c \in Range(names) \ cores}

\* A regression: the boundary is found, the dependency is not recorded.
InvariantsOnly(names, ingest, t) ==
  IF IsCore(t) /\ ingest # <<>> THEN {INVARIANTS_NODE} ELSE {}

\* depends_on of a target, as _add_dep leaves it.
DependsOn(names, ingest, t) ==
  IF IsCore(t) THEN (IF ingest # <<>> THEN {INVARIANTS_NODE} \ {t} ELSE {})
  ELSE {n \in Range(names) : IsCore(n)}

\* topological_order, one round: what waits for nothing that is left, and
\* where nothing is, all the rest.
NextRound(deps, round) ==
  LET free  == {t \in round.remaining : deps[t] \subseteq DOMAIN deps \ round.remaining}
      ready == IF free = {} THEN round.remaining ELSE free
  IN [remaining |-> round.remaining \ ready, order |-> round.order \o SetToSeq(ready)]

\* Each round takes one target at least.
TopologicalOrder(matrix) ==
  LET deps == [t \in DOMAIN matrix |-> matrix[t] \ {INVARIANTS_NODE}]
      Round[n \in 0..Cardinality(DOMAIN matrix)] ==
        IF n = 0 THEN [remaining |-> DOMAIN matrix, order |-> <<>>] ELSE NextRound(deps, Round[n - 1])
  IN Round[Cardinality(DOMAIN matrix)].order

\* infer(), for a blueprint that is none of the erroneous ones.
InferredDAG(bp) ==
  LET matrix == [t \in Range(bp.targets) |-> DependsOn(bp.targets, bp.ingest, t)]
  IN [targets |-> bp.targets, matrix |-> matrix, boundaries |-> Boundaries(bp.targets),
      order |-> TopologicalOrder(matrix)]

-----------------------------------------------------------------------------
(* to_build_context                                                        *)

\* The optional sections the words for optimize switch on.
Profile(word) ==
  CASE word = "maximum_hardware"  -> {"polymorphization", "gpu", "libraries"}
    [] word \in {"size", "debug"} -> {}
    [] OTHER                      -> {"polymorphization", "libraries"}

InferredContext(bp) ==
  LET dag == InferredDAG(bp)
  IN [status |-> "inferred_active", targets |-> dag.targets, matrix |-> dag.matrix,
      order |-> dag.order, boundaries |-> dag.boundaries,
      sections |-> Profile(bp.optimize)
                     \cup (IF bp.ingest # <<>> THEN {"context", "semantic_fluidity"} ELSE {})]
=============================================================================
