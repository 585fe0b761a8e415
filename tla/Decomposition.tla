--------------------------- MODULE Decomposition ---------------------------
(***************************************************************************)
(* ModularDecomposer of src/scaffold/decomposition.py, with                *)
(* prune_dead_imports of import_pruner.py: a Python script, or the merge   *)
(* of several, is split into one module per target of module_mapping, an   *)
(* __init__.py, and what is left of the script.                            *)
(*                                                                         *)
(* A file is a sequence of top-level statements: of each its kind, the     *)
(* names it binds, those it refers to, and those its strings spell.        *)
(***************************************************************************)
EXTENDS Picking, Naturals, FiniteSets, Sequences, SequencesExt

\* kind: "error" (what ast.parse rejects), "future", "import" (also a star import, which binds "*"), "doc",
\* "def" (a class or function) or "code"; from: the generated module an
\* import names, or NoModule; dynamic: a lookup of names by string.
NoModule == "none"

\* Those of a source. A class or function binds one name; an import refers to
\* no name and spells none in a string.
Statements ==
  {s \in [kind : {"error", "future", "import", "doc", "def", "code"}, binds : SUBSET STRING,
          uses : SUBSET STRING, says : SUBSET STRING, dynamic : BOOLEAN, from : {NoModule}] :
     /\ s.kind = "def" => \E n \in s.binds : s.binds = {n}
     /\ s.kind \in {"future", "import"} => s.uses = {} /\ s.says = {}}

Statement(kind, binds, uses) ==
  [kind |-> kind, binds |-> binds, uses |-> uses, says |-> {}, dynamic |-> FALSE,
   from |-> NoModule]

IsImport(s) == s.kind \in {"future", "import"}
IsDef(s)    == s.kind = "def"
NameOf(s)   == CHOOSE n \in s.binds : TRUE

Unparseable == <<Statement("error", {}, {})>>

\* compile() wants __future__ imports first; ast.parse does not ask.
Compiles(file) ==
  /\ file # Unparseable
  /\ \A i, j \in DOMAIN file :
       i < j /\ file[j].kind = "future" => file[i].kind \in {"future", "doc"}

First(seq) ==  \* without the later copies of an element
  Picked(seq, {k \in DOMAIN seq : \A j \in DOMAIN seq : j < k => seq[j] # seq[k]})

Of(text, kind)       == Picked(text, {k \in DOMAIN text : text[k].kind = kind})
WithoutImports(text) == Picked(text, {k \in DOMAIN text : ~IsImport(text[k])})

\* merge_source_asts: imports are hoisted, the future first, each once.
MergeSources(files) ==
  IF \E i \in DOMAIN files : files[i] = Unparseable THEN Unparseable
  ELSE LET all == FlattenSeq(files)
       IN First(Of(all, "future")) \o First(Of(all, "import")) \o WithoutImports(all)
-----------------------------------------------------------------------------
(* The mapping: a sequence of [file, symbols], two keys ("cli" and         *)
(* "cli.py") giving one file, where the later takes the earlier's place.   *)

Init_py == "__init__.py"

KeyClash(mapping, i) == \E j \in DOMAIN mapping : j > i /\ mapping[j].file = mapping[i].file

Normalized(mapping) ==
  LET files == First([i \in DOMAIN mapping |-> mapping[i].file])
      Latest(f) == CHOOSE i \in DOMAIN mapping : mapping[i].file = f /\ ~KeyClash(mapping, i)
  IN [k \in DOMAIN files |-> [file |-> files[k], symbols |-> mapping[Latest(files[k])].symbols]]

Mapped(mapping) == UNION {mapping[i].symbols : i \in DOMAIN mapping}

TargetOf(mapping, name) ==
  mapping[CHOOSE i \in DOMAIN mapping : name \in mapping[i].symbols].file

\* What decompose() raises before it writes anything, or Fine.
Fine == "fine"

Refusal(text, mapping) ==
  LET normal == Normalized(mapping) IN
  CASE \E i \in DOMAIN mapping : mapping[i].file = Init_py \/ mapping[i].symbols = {}
         -> "DecompositionError"
    [] text = Unparseable -> "DecompositionError"
    [] \E i, j \in DOMAIN normal : i # j /\ normal[i].symbols \cap normal[j].symbols # {}
         -> "ImportCollisionError"
    [] \E n \in Mapped(normal) : ~\E k \in DOMAIN text : IsDef(text[k]) /\ n \in text[k].binds
         -> "MissingASTNodeError"
    [] OTHER -> Fine

Moved(text, mapping) == {k \in DOMAIN text : IsDef(text[k]) /\ text[k].binds \subseteq Mapped(mapping)}

\* A regression: of the definitions of one name the last is taken, the one
\* _collect_definitions keeps.
BodyOfLast(text, mapping, file) ==
  Picked(text, {k \in Moved(text, mapping) :
                  /\ TargetOf(mapping, NameOf(text[k])) = file
                  /\ \A j \in DOMAIN text : j > k => ~(IsDef(text[j]) /\ text[j].binds = text[k].binds)})

Body(text, mapping, file) ==
  Picked(text, {k \in Moved(text, mapping) : TargetOf(mapping, NameOf(text[k])) = file})

HeaderImports(text) == First(Of(text, "future") \o Of(text, "import"))

FromModule(file, names) ==
  [Statement("import", names, {}) EXCEPT !.from = file]

Used(file)    == UNION {file[i].uses : i \in DOMAIN file}
Spelt(file)   == UNION {file[i].says : i \in DOMAIN file}
Dynamic(file) == \E i \in DOMAIN file : file[i].dynamic

\* resolve_cross_imports: an import for every mapped name the body refers to
\* that lives in another module.  A name in a string is not a reference.
CrossImports(body, mapping, file) ==
  LET abroad == {n \in Used(body) \cap Mapped(mapping) : TargetOf(mapping, n) # file}
      homes  == SetToSeq({TargetOf(mapping, n) : n \in abroad})
  IN [i \in DOMAIN homes |->
        FromModule(homes[i], {n \in abroad : TargetOf(mapping, n) = homes[i]})]

\* A regression: strings are not looked into.
KeepReferred(s, file) == [s EXCEPT !.binds = @ \cap Used(file)]

\* prune_dead_imports, of the imports and the body together: of an import the
\* names that are referred to or spelt by a string stay.
Keep(s, file) ==
  IF s.kind = "future" \/ "*" \in s.binds THEN s
  ELSE [s EXCEPT !.binds = @ \cap (Used(file) \cup Spelt(file))]

Pruned(imports, body) ==
  LET file == imports \o body
      kept == [i \in DOMAIN imports |-> Keep(imports[i], file)]
  IN IF Dynamic(file) THEN imports
     ELSE Picked(kept, {i \in DOMAIN kept : kept[i].binds # {}})

\* _render_module
Module(text, mapping, file, prune) ==
  LET body    == Body(text, mapping, file)
      imports == HeaderImports(text) \o CrossImports(body, mapping, file)
  IN (IF prune THEN Pruned(imports, body) ELSE imports) \o body

\* _import_anchor_line: before the first statement that is neither the
\* docstring nor an import.
Anchor(text) ==
  LET Later == {k \in DOMAIN text : ~IsImport(text[k]) /\ ~(k = 1 /\ text[k].kind = "doc")}
  IN IF Later = {} THEN Len(text) + 1 ELSE CHOOSE k \in Later : \A j \in Later : k <= j

\* _render_orchestrator_imports
Returned(mapping) ==
  [i \in DOMAIN mapping |-> FromModule(mapping[i].file, mapping[i].symbols)]

\* _build_orchestrator: the script without the moved definitions, their names
\* imported back.
Orchestrator(text, mapping) ==
  LET at == Anchor(text)
      Stay(a, b) == Picked(text, (a..b) \ Moved(text, mapping))
  IN Stay(1, at - 1) \o Returned(mapping) \o Stay(at, Len(text))

\* decompose(): the files and the order they are written in.
Decomposed(text, raw, script, prune) ==
  LET mapping == Normalized(raw)
  IN [i \in DOMAIN mapping |->
        [file |-> mapping[i].file, text |-> Module(text, mapping, mapping[i].file, prune)]]
     \o <<[file |-> Init_py, text |-> <<>>],
          [file |-> script, text |-> Orchestrator(text, mapping)]>>
=============================================================================
