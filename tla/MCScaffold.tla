----------------------------- MODULE MCScaffold -----------------------------
(***************************************************************************)
(* Instances of Scaffold: Rust sources of every kind, and Python scripts   *)
(* that are split by mappings good and bad.                                *)
(***************************************************************************)
EXTENDS Scaffold

Source(tag, name, rust, scripts) ==
  [tag |-> tag, name |-> name, py |-> name \in {"app.py", Init_py}, rust |-> rust,
   scripts |-> scripts, found |-> TRUE]

Rust(tag, name, holds) == Source(tag, name, Text(holds), <<Unparseable>>)

Python(name, scripts) == Source("python", name, Text({"broken"}), scripts)

RustSources ==
  {Rust("rust", "lib.rs", h) : h \in {H \in SUBSET Features : Cardinality(H) <= 2}
     \cup {{"let", "mismatch", "other table"}, {"index table", "namesake", "parameter"}}}
  \cup {Rust("unknown", "core.txt", h) : h \in {{}, {"rug"}, {"index table", "let"}}}

Def(name, uses) == Statement("def", {name}, uses)
Import(names)   == Statement("import", names, {})
Future          == Statement("future", {"annotations"}, {})
Doc             == Statement("doc", {}, {})

\* A class that refers to a function and an import, the function that refers
\* back, and a second definition of the class.
Twice ==
  <<Doc, Future, Import({"os"}), Import({"json", "re"}), Def("Parser", {"os", "run"}),
    Statement("code", {"limit"}, {"Parser"}), Def("run", {"re", "Parser", "limit"}),
    Def("Parser", {"json"})>>

\* A name that only a string spells, a star import, an import after code.
Strings ==
  <<Import({"*"}), Import({"json"}), [Def("run", {"Loader"}) EXCEPT !.says = {"json"}],
    Statement("code", {}, {"run"}), Import({"os"}), Def("Loader", {"os"})>>

ByString == <<Import({"re"}), [Def("run", {"globals"}) EXCEPT !.dynamic = TRUE]>>

LateFuture == <<Statement("code", {}, {}), Future, Def("run", {})>>

Scripts == {Twice, Strings, ByString, LateFuture, Unparseable}

PythonSources ==
  {Python("app.py", <<s>>) : s \in Scripts}
  \cup {Python("app.py", <<Twice, s>>) : s \in {Strings, LateFuture}}
  \cup {[Python("app.py", <<Twice>>) EXCEPT !.found = FALSE], Python(Init_py, <<Twice>>),
        Python("tool", <<Strings>>)}

To(file, symbols) == [file |-> file, symbols |-> symbols]

Mappings ==
  {<<>>, <<To("parser.py", {"Parser"}), To("tools.py", {"run"})>>,
   <<To("tools.py", {"Parser"}), To("tools.py", {"run"})>>,
   <<To("main.py", {"run"})>>, <<To("app.py", {"run"}), To("load.py", {"Loader"})>>,
   <<To("a.py", {"run"}), To("b.py", {"run"})>>, <<To("a.py", {})>>,
   <<To(Init_py, {"run"})>>}

Blueprint(language, mapping, prune, shims, build) ==
  [caller |-> "build", language |-> language, mapping |-> mapping, prune |-> prune,
   shims |-> shims, build |-> build, tests |-> build, inside_tool |-> FALSE,
   default |-> IF prune THEN "cli.py" ELSE "main.py"]

CommandLine(build) ==
  [Blueprint("undeclared", <<>>, FALSE, AutoShims, build) EXCEPT !.caller = "scaffold", !.tests = FALSE]

AllRequests ==
  {Blueprint("python", m, p, AutoShims, TRUE) : m \in Mappings, p \in BOOLEAN}
  \cup {Blueprint("cobol", <<>>, FALSE, s, TRUE) : s \in {{x} : x \in Shims}}
  \cup {Blueprint("undeclared", <<>>, FALSE, AutoShims, FALSE),
        [Blueprint("undeclared", <<>>, FALSE, AutoShims, FALSE) EXCEPT !.inside_tool = TRUE]}
  \cup {CommandLine(b) : b \in BOOLEAN}

AllSources == RustSources \cup PythonSources
=============================================================================
