---------------------------- MODULE MCTranslator ----------------------------
(***************************************************************************)
(* Two source files of one base name, three functions.  The versions: all  *)
(* hot; cold by what is imported inside; a name defined twice, the method  *)
(* hot; a cold function inside a hot one; an external library under        *)
(* another name; results that vary; a decorator; broken; Rust.             *)
(***************************************************************************)
EXTENDS TranslationPipeline

Def(name, ops) ==
  [name |-> name, inner |-> {}, signs |-> {}, imports |-> {}, calls |-> {}, top |-> TRUE,
   outcome |-> "returns", ops |-> [k \in DOMAIN ops |-> [family |-> ops[k], text |-> ""]]]

File(defs) == [language |-> "python", parses |-> TRUE, imports |-> <<>>, defs |-> defs]

Many == <<"worker", "worker", "worker", "output">>

MCVersions ==
  LET f == Def("f", <<"worker", "output">>)
      g == Def("g", Many)
  IN {File(<<f, g>>),
      File(<<[f EXCEPT !.imports = {"threading"}], g>>),
      File(<<[f EXCEPT !.signs = {"async"}], g, [f EXCEPT !.top = FALSE]>>),
      File(<<f, [g EXCEPT !.inner = {3}], [Def("h", <<>>) EXCEPT !.top = FALSE, !.signs = {"lock"}]>>),
      [File(<<[f EXCEPT !.calls = {"np"}], [g EXCEPT !.outcome = "TypeError"]>>)
         EXCEPT !.imports = <<[module |-> "json", name |-> "", as |-> "np"],
                              [module |-> "numpy", name |-> "", as |-> "np"]>>],
      File(<<[f EXCEPT !.outcome = "varies"], g>>),
      File(<<[f EXCEPT !.signs = {"jit"}]>>),
      [File(<<f>>) EXCEPT !.parses = FALSE],
      [File(<<[f EXCEPT !.signs = {"lifetime"}], g>>) EXCEPT !.language = "rust"]}

MCBase == [p \in Sources |-> "util"]
MCNames == {<<>>, <<"f", "h">>}
MCUntested == {{}, {"g"}}
MCScans == {<<"A", "B", "B">>, <<"A", "A", "B", "A", "A", "B">>}
=============================================================================
