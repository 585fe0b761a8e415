--------------------------- MODULE ColdPassRouter ---------------------------
(***************************************************************************)
(* Which functions of a source file the translator leaves alone:           *)
(* translator/cold_pass_router.py, and the part of ffi_generator.py that   *)
(* finds the calls of external libraries.                                  *)
(*                                                                         *)
(* A file is [language, parses, imports, defs].  Its imports, in the order *)
(* of the text, are [module, name, as]: name is "" in `import module', as  *)
(* is "" where nothing is renamed.  Its defs are in the order of ast.walk, *)
(* methods and nested functions among them; one is [name, inner, signs,    *)
(* imports, calls, ...]: inner the definitions inside it, signs what the   *)
(* patterns of the router look for, calls the names calls begin with.      *)
(***************************************************************************)
EXTENDS Integers, SequencesExt

CONSTANTS
  Threading, Hardware, Gpu,   \* the tables of modules the router knows
  Stdlib                      \* _STDLIB_MODULES

Families == Threading \cup Hardware \cup Gpu

\* Local modules count as external as well: only the standard library is known.
_is_external(module) == module \notin Stdlib

Modules(file) == {i.module : i \in Range(file.imports)}

\* `from m import n as a' binds n as well, in the eyes of the router.
Binds(i) == {i.name, i.as} \ {""}

\* Where two imports bind one name, the later one counts.
ModuleOf(file, alias, Names(_)) ==
  file.imports[CHOOSE k \in DOMAIN file.imports :
                 /\ alias \in Names(file.imports[k])
                 /\ \A l \in DOMAIN file.imports :
                      alias \in Names(file.imports[l]) => l <= k].module

\* analyze_routing, its first loop: what a call must not begin with.
external_modules(file) ==
  LET modules == {m \in Modules(file) : m \in Families \/ _is_external(m)}
      aliases == UNION {Binds(i) : i \in Range(file.imports)}
  IN modules \cup {a \in aliases : ModuleOf(file, a, Binds) \in modules}

Whole(file, d) == {d} \cup file.defs[d].inner

\* _UntranslatableDetector and _check_source_patterns.  A decorator stands
\* above the first line of its own function: only those of inner ones are seen.
Reasons(file, d) ==
  LET all == {file.defs[e] : e \in Whole(file, d)}
      has(s) == \E f \in all : s \in f.signs
      imports(family) == \E f \in all : f.imports \cap family # {}
  IN {r \in {"threading", "hardware", "gpu", "external_dep", "unsafe_pattern"} :
        CASE r = "threading" -> imports(Threading) \/ \E s \in {"spawns", "lock", "await", "async"} : has(s)
          [] r = "hardware"  -> imports(Hardware)
          [] r = "gpu"       -> imports(Gpu)
          [] r = "external_dep" -> \E f \in all : f.calls \cap external_modules(file) # {}
          [] r = "unsafe_pattern" ->
               \/ has("unsafe")
               \/ \E e \in file.defs[d].inner : "jit" \in file.defs[e].signs}

analyze_routing(file) ==
  IF file.parses THEN {d \in DOMAIN file.defs : Reasons(file, d) # {}} ELSE {}

\* analyze_routing_rust: by patterns in the body and the signature.
analyze_routing_rust(file) ==
  {d \in DOMAIN file.defs : file.defs[d].signs \cap {"memory", "threads", "lifetime"} # {}}

analyze_routing_dispatch(file) ==
  IF file.language = "rust" THEN analyze_routing_rust(file) ELSE analyze_routing(file)

\* A regression: one entry to a name, the last definition's.
LastOfTheName(file) ==
  LET lasts == {d \in DOMAIN file.defs :
                  \A e \in DOMAIN file.defs : file.defs[e].name = file.defs[d].name => e <= d}
  IN {file.defs[d].name : d \in lasts \cap analyze_routing_dispatch(file)}

\* run_translation_pipeline: one cold definition of a name is enough.
cold_names(file) == {file.defs[d].name : d \in analyze_routing_dispatch(file)}

\* ffi_generator: renamed from-imports are not followed there.
Aliases(i) == IF i.name = "" THEN {i.as} \ {""} ELSE {i.name}

\* map_function_externals and analyze_ffi: one wrapper to each call.
ffi_wrappers(file) ==
  LET external == {m \in Modules(file) : _is_external(m)}
      resolved(c) == IF \E i \in Range(file.imports) : c \in Aliases(i) THEN ModuleOf(file, c, Aliases) ELSE c
      calls == UNION {file.defs[d].calls : d \in DOMAIN file.defs}
  IN IF file.language = "rust" \/ ~file.parses THEN {}
     ELSE {[call |-> c, module |-> resolved(c)] :
             c \in {c \in calls : resolved(c) \in external \/ c \in external}}
=============================================================================
