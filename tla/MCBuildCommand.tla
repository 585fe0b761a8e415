--------------------------- MODULE MCBuildCommand ---------------------------
(***************************************************************************)
(* One Python and one other source, two destinations.                      *)
(***************************************************************************)
EXTENDS BuildCommand

Names == {"os", "x"}

Future  == Line("future", {{"annotations"}}, {}, {})
Doc     == Line("doc", {}, {}, {})
Of(kind) == Line(kind, {}, {}, {})
Spread  == Line("spread", {{"annotations", "division"}}, {}, {})
Header  == [Line("code", {}, {"f"}, {}) EXCEPT !.def = "open"]
InBody(line) == [line EXCEPT !.body = TRUE]
Import  == Line("code", {{"os"}}, {}, {})
Both    == Line("code", {{"os", "x"}}, {}, {})
UseOs   == Line("code", {}, {}, {"os"})
UseX    == Line("code", {}, {"y"}, {"x"})
\* import x; y = os
OnOne   == Line("code", {{"x"}}, {"y"}, {"os"})

\* A beginning, and what follows it; and further beginnings, the last of which
\* the insertion point is not moved past.
Beginnings == {<<>>, <<Doc, Future>>, <<Doc, Blank, Future>>}
Further ==
  {<<Of("shebang"), Blank, Doc, Future, Future>>, <<Doc, Future, Spread>>,
   <<Of("comment"), Of("string"), Future>>}
Endings ==
  {<<UseOs>>, <<Import, UseX>>, <<Both, UseOs>>, <<Both, UseX>>, <<OnOne, UseX>>,
   <<Header, InBody(Import)>>, <<Header, InBody(Both), InBody(UseOs)>>}
MCTexts == [a |-> {b \o e : b \in Beginnings, e \in Endings} \cup {b \o <<UseOs>> : b \in Further},
            b |-> {<<Import, UseOs>>}]

Entry(s, d, python, rules, mode) ==
  [source |-> s, dest |-> d, python |-> python, rules |-> rules, mode |-> mode]
All == {"remove_unused", "auto_import", "type_inference"}
MCConfigs ==
  {<<>>,
   <<Entry("a", "app", TRUE, All, "copy")>>,
   <<Entry("a", "app", TRUE, {"auto_import"}, "symlink"), Entry("b", "lib", TRUE, {}, "symlink")>>,
   <<Entry("a", "app", TRUE, {}, "symlink"), Entry("b", "app", TRUE, {}, "copy")>>,
   <<Entry("a", "app", TRUE, {}, "copy"), Entry("b", "lib", TRUE, {"remove_unused"}, "copy")>>,
   <<Entry("a", "lib", TRUE, {}, "symlink")>>}

Suite(form, cases, overall, rc) == [form |-> form, cases |-> cases, overall |-> overall, rc |-> rc]
Cases == {{}, {"said passed", "error within"}, {"said passed", "said failed"}, {"error beyond"}, {"bare"}}
MCSuites ==
  {Suite("json", c, o, rc) : c \in Cases, o \in {"absent", "passed", "failed"}, rc \in {0, 1}}
  \cup {Suite("lines", c, "absent", rc) : c \in Cases \ {{"bare"}}, rc \in {0, 1}}
  \cup {Suite(f, {}, "absent", 1) : f \in {"garbled", "no command"}}
=============================================================================
