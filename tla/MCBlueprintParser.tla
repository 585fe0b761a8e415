------------------------ MODULE MCBlueprintParser --------------------------
(***************************************************************************)
(* Small blueprints in each format: duplicate and missing declarations, a  *)
(* target named twice or like the invariants node, unknown, circular and   *)
(* doubled dependencies, values of a wrong type, comments before JSON.     *)
(***************************************************************************)
EXTENDS BlueprintParser

Names == {"app", "cpp_core", "lib", "text_invariants", "rust_sim"}

MCHint == [n \in Names |-> CASE n = "cpp_core" -> "cpp" [] n = "rust_sim" -> "rust" [] OTHER -> "unknown"]

\* lib has as many C++ as C files; the invariants are a target with sources.
MCFiles == [n \in Names |-> CASE n = "lib" -> <<".c", ".h", ".cpp">>
                              [] n = "text_invariants" -> <<".rs", ".py", ".rs">>
                              [] n = "app" -> <<".txt">>
                              [] OTHER -> <<>>]

P == Project("p")
T(targets) == Assign("targets", targets)
I == Assign("ingest", <<"notes.txt">>)

LeanBlueprints ==
  {<<P, T(<<"app", "cpp_core">>)>>, <<T(<<"cpp_core", "app", "lib">>), P, I>>,
   <<P, I, T(<<"app", "lib", "app", "rust_sim">>), Assign("optimize", <<"size">>)>>,
   <<P, I, T(<<"app", "text_invariants", "cpp_core">>), Assign("optimize", <<"maximum_hardware">>)>>,
   <<P, Assign("project", <<"q">>), T(<<"app">>), Assign("other", <<"x">>)>>,
   <<Assign("project", <<"q">>), P, T(<<"app">>)>>, <<P, P, T(<<"app">>)>>,
   <<P, T(<<"app">>), T(<<"lib">>)>>, <<P, T(<<>>)>>, <<T(<<"app">>)>>,
   <<P, Malformed, T(<<"app">>)>>}

Names3 == {"a", "b", "c"}
Key(k, type) == Pair(k, Value(type, <<>>))
Graph(targets, deps) ==
  <<Header("graph"), Pair("targets", Value("list", targets)), Pair("dependencies", Value("map", deps))>>
Rest == <<Header("compiler"), Key("max_memory_mb", "int"), Header("cortex")>>

\* Every graph of three nodes with at most two dependencies of each.
Graphs3 == [Names3 -> {<<>>, <<"a">>, <<"b">>, <<"c">>, <<"a", "b">>, <<"b", "c">>, <<"c", "c">>}]

IniBlueprints ==
  {Graph(<<"a", "b", "c">>, g) \o Rest : g \in Graphs3} \cup
  {Graph(<<"a">>, [n \in {"b"} |-> <<"a">>]) \o Rest, Graph(<<"a">>, [n \in {"b"} |-> <<"z">>]) \o Rest,
   Graph(<<>>, NoNames) \o Rest, Graph(<<"">>, NoNames) \o Rest, Graph(<<"a">>, [n \in {""} |-> <<>>]) \o Rest,
   Graph(<<"a">>, NoNames), Rest, <<Header("graph"), Key("targets", "word")>> \o Rest,
   <<Header("graph"), Key("targets", "list"), Key("dependencies", "map")>> \o Rest,
   Graph(<<"a">>, NoNames) \o Rest \o <<Header("graph")>>, Graph(<<"a">>, NoNames) \o Rest \o <<Unrecognized>>,
   <<Key("targets", "list")>>, <<Header("")>>} \cup
  {Graph(<<"a">>, NoNames) \o <<Key("allow_partial_graph", v)>> \o Rest : v \in Plain} \cup
  {Graph(<<"a">>, NoNames) \o Rest \o <<Header("hpc"), Key("nodes", v), Header("runtime"), Key("feedback_weight", w)>> :
     v, w \in {"bool", "int", "negative", "fraction"}}

\* A cycle and a name that is no node, keys that are left out, odd types.
JsonGraphs ==
  {[dependencies |-> Value("map", g), targets |-> Value("list", <<"a", "b">>)] :
     g \in {[n \in {"a"} |-> <<"z">>], [n \in {"a", "b"} |-> <<"a", "b">>], NoNames}} \cup
  {[targets |-> Value("list", <<"a">>)], [targets |-> Value("int", <<>>)],
   [targets |-> Value("word", <<>>), dependencies |-> Value("list", <<>>)],
   [dependencies |-> Value("bool", <<>>)], NoNames}

JsonBlueprints ==
  {[s \in JsonRequired |-> NoNames], [s \in JsonRequired \ {"physics"} |-> NoNames]} \cup
  {[s \in JsonRequired |-> IF s = "analysis" THEN [dead_code_elimination |-> Value(v, <<>>)] ELSE NoNames] :
     v \in {"bool", "odd"}} \cup
  {[s \in JsonRequired \cup {"graph"} |-> IF s = "graph" THEN g ELSE NoNames] : g \in JsonGraphs}

MCContents ==
  {Lean(l) : l \in LeanBlueprints} \cup {Ini(l, b) : l \in IniBlueprints, b \in BOOLEAN}
    \cup {Json(j, f) : j \in JsonBlueprints, f \in {"{", "#"}} \cup {Dsl("valid"), Dsl("invalid"), Missing}

MCManifests == {"lost", "good", "odd values"}
=============================================================================
