----------------------------- MODULE CodeRepair -----------------------------
(***************************************************************************)
(* CodeAnalyser and CodeRepairer of src/context: the three rules applied   *)
(* to the Python files an ingestion copies.  A text is a sequence of lines *)
(* (a statement over several lines counts as one); of a line it is kept    *)
(* what the rules look at.                                                 *)
(***************************************************************************)
EXTENDS Naturals, SequencesExt, Picking

CONSTANTS
  Known,   \* the names of _KNOWN_IMPORTS
  Builtin  \* names that need no definition

ASSUME RepairAssumption == IsFiniteSet(Known)

\* kind:    "shebang", "comment", "blank"; "doc" for a string in triple quotes
\*          that stands by itself, "string" for another; "future", "spread" for
\*          a __future__ import on one line, over several; or "code";
\* imports: the import statements on the line, each the names it binds (those
\*          of a star import bind none the rules know of, and count as none);
\* binds, uses: names stored and loaded; quotes: names whose import statement
\*          is the text of the line though the line is inside a string;
\* def:     "open" for def f(...): without annotation or value returned,
\*          "closed" for another header, "no" for no header;
\* body:    the line belongs to the header above it.
Blank == [kind |-> "blank", imports |-> {}, binds |-> {}, uses |-> {}, quotes |-> {},
          def |-> "no", body |-> FALSE]
Unstated == {"shebang", "comment", "blank"}
Futures  == {"future", "spread"}
Kinds    == Unstated \cup Futures \cup {"doc", "string", "code"}
IsLine(line) == DOMAIN line = DOMAIN Blank /\ line.kind \in Kinds
IsText(text) == text \in Seq(Range(text)) /\ \A i \in DOMAIN text : IsLine(text[i])

Line(kind, imports, binds, uses) ==
  [Blank EXCEPT !.kind = kind, !.imports = imports, !.binds = binds, !.uses = uses]

-----------------------------------------------------------------------------
(* The analyser: three sets of names over the whole file, no scopes.       *)

Over(text, Names(_)) == UNION {Names(text[i]) : i \in DOMAIN text}

imported(text) == Over(text, LAMBDA l : UNION l.imports)
defined(text)  == Over(text, LAMBDA l : l.binds)
used(text)     == Over(text, LAMBDA l : l.uses)

undefined_names(text) == used(text) \ (defined(text) \cup imported(text) \cup Builtin)
unused_imports(text)  == imported(text) \ used(text)

-----------------------------------------------------------------------------
(* The rules.                                                              *)

\* A regression: one unused name is enough to drop a statement.
SomeUnused(statement, unused) == statement \cap unused # {}

\* Only a statement all of whose names are unused is dropped.
AllUnused(statement, unused) == statement # {} /\ statement \subseteq unused

\* It is the lines of the statement that go, with all that stands on them.
_remove_unused(text) ==
  Picked(text, {i \in DOMAIN text : ~\E s \in text[i].imports : AllUnused(s, unused_imports(text))})

\* _import_insertion_point: how many lines stay before the new ones.  A
\* shebang, blank lines, a docstring in triple quotes, and the __future__
\* imports that follow at once; a comment or another docstring ends it.
Skip(text, n, kind) ==
  CHOOSE m \in n..Len(text) :
    /\ \A i \in (n + 1)..m : text[i].kind = kind
    /\ m = Len(text) \/ text[m + 1].kind # kind

One(text, n, kind) == IF n < Len(text) /\ text[n + 1].kind = kind THEN n + 1 ELSE n

\* A regression: the __future__ imports are not looked at.
AfterDocstring(text) == One(text, Skip(text, One(text, 0, "shebang"), "blank"), "doc")

_import_insertion_point(text) ==
  LET start == Skip(text, One(text, 0, "shebang"), "blank")
  IN  Skip(text, One(text, start, "doc"), "future")

\* Of an import over several lines the first is skipped: what is inserted
\* stands inside it, does not parse and is rolled back.
Torn(text) ==
  LET at == _import_insertion_point(text) IN at < Len(text) /\ text[at + 1].kind = "spread"

_auto_import(text) ==
  LET quoted == Over(text, LAMBDA l : l.quotes)
      names  == SetToSeq((undefined_names(text) \cap Known) \ quoted)
      added  == [i \in DOMAIN names |-> Line("code", {{names[i]}}, {}, {})]
      at     == _import_insertion_point(text)
  IN  SubSeq(text, 1, at) \o added \o SubSeq(text, at + 1, Len(text))

_type_inference(text) ==
  [i \in DOMAIN text |-> IF text[i].def = "open" THEN [text[i] EXCEPT !.def = "closed"] ELSE text[i]]

\* ast.parse: each header has a body, each body a header.  (It does not mind
\* where __future__ imports stand; compiling does.)
_parses(text) ==
  \A i \in DOMAIN text :
    /\ text[i].def # "no" => i < Len(text) /\ text[i + 1].body
    /\ text[i].body => i > 1 /\ (text[i - 1].def # "no" \/ text[i - 1].body)

_apply_safely(text, edited) == IF _parses(edited) THEN edited ELSE text

repair(text, rules) ==
  LET kept     == IF "remove_unused" \in rules THEN _apply_safely(text, _remove_unused(text)) ELSE text
      imports  == IF "auto_import" \in rules /\ ~Torn(kept)
                  THEN _apply_safely(kept, _auto_import(kept)) ELSE kept
  IN  IF ~_parses(text) THEN text
      ELSE IF "type_inference" \in rules THEN _apply_safely(imports, _type_inference(imports))
      ELSE imports

-----------------------------------------------------------------------------
(* What the properties say of a text.                                      *)

\* What Python asks of a text it compiles: a __future__ import has nothing but
\* its like, blank lines, comments and the docstring before it.
Compiles(text) ==
  /\ _parses(text)
  /\ \A i \in DOMAIN text : text[i].kind \in Futures =>
       \A k \in 1..i :
         /\ text[k].kind # "code"
         /\ text[k].kind \in {"doc", "string"} => \A m \in 1..(k - 1) : text[m].kind \in Unstated

\* Names the text both binds and uses.
BoundUses(text) == used(text) \cap (imported(text) \cup defined(text))

\* The layouts the line-based edits do not survive: another statement on the
\* line of an import, and, before a __future__ import, what the insertion point
\* is not moved past - a comment, a docstring in other quotes than triple ones,
\* a blank line after what is no blank line.
Compound(line) ==
  \/ \E s, t \in line.imports : s # t
  \/ line.imports # {} /\ line.binds \cup line.uses # {}
Plain(text) ==
  /\ \A i \in DOMAIN text : ~Compound(text[i])
  /\ \A i \in DOMAIN text : text[i].kind \in Futures =>
       \A k \in 1..(i - 1) :
         /\ text[k].kind \notin {"comment", "string"}
         /\ text[k].kind = "shebang" => k = 1
         /\ text[k].kind = "blank" => \A m \in 1..k : text[m].kind \in {"blank", "shebang"}
=============================================================================
