---------------------------- MODULE RustShield ----------------------------
(***************************************************************************)
(* src/scaffold/rust_shield.py and repo_generator.py: what the shield and  *)
(* the recovery do to a Rust source.  Of a text only this is kept: what    *)
(* the author put into it, and which rewrites have been made to it.        *)
(***************************************************************************)
EXTENDS FiniteSets

\* What a source may hold:
\*   "rug"         it uses rug, and calls methods rug no longer has
\*   "pyo3"        it uses pyo3
\*   "let"         a variable, bound by a plain let, is borrowed mutably
\*   "parameter"   a parameter is borrowed mutably
\*   "namesake"    elsewhere a plain let binds the name of that parameter
\*   "index table" let x = match with integer arms, and x indexes an array
\*   "other table" the same, and x must be an i32
\*   "mismatch"    types that do not match, of something that is no table
\*   "broken"      an error of which neither runner nor shield knows a repair
Features == {"rug", "pyo3", "let", "parameter", "namesake", "index table", "other table",
             "mismatch", "broken"}

Shims == {"rug_v1_30_patch", "pyo3_usize_alignment"}
AutoShims  == {"auto"} \* compatibility_shims is None

\* Rewrites: the traits are injected, tables are annotated with usize, let
\* became let mut, of the variable or of the parameter's namesake.
Rewrites == {"traits", "usize", "mut", "mut namesake"}

Text(holds) == [holds |-> holds, made |-> {}]

detect_anchors(text) ==
  (text.holds \cap {"rug", "pyo3"}) \cup (IF "traits" \in text.made THEN {"rug"} ELSE {})

\* The sentinel keeps the traits from being injected twice.
inject_extension_traits(text) == [text EXCEPT !.made = @ \cup {"traits"}]

\* The assignments of a match whose arms are integers.
Tables(text) == text.holds \cap {"index table", "other table"}

\* All of them are annotated, whatever the variable is used for.
align_match_types(text) ==
  IF Tables(text) = {} THEN text
  ELSE [text EXCEPT !.made = @ \cup {"usize"}]

\* Every let of a name that cargo could not borrow mutably; a parameter has none.
fix_mutability(text, output) ==
  [text EXCEPT !.made = @ \cup (IF "let" \in output THEN {"mut"} ELSE {})
                          \cup (IF "parameter" \in output /\ "namesake" \in text.holds
                                THEN {"mut namesake"} ELSE {})]

\* apply(): the named shims only, or those the anchors call for.
Apply(text, shims) ==
  LET anchors == detect_anchors(text)
      wanted == IF shims # AutoShims THEN shims
                ELSE IF "rug" \in anchors THEN Shims
                ELSE IF anchors # {} THEN {"pyo3_usize_alignment"} ELSE {}
      traits == IF "rug_v1_30_patch" \in wanted THEN inject_extension_traits(text) ELSE text
  IN IF "pyo3_usize_alignment" \in wanted THEN align_match_types(traits) ELSE traits

(* What cargo finds wrong.  An unannotated index table leaves the type of  *)
(* its variable to be inferred as i32 elsewhere; an annotated table is     *)
(* wrong where an i32 is wanted.  Errors in types hide those in borrows.   *)

TypeErrors(text) ==
  {f \in text.holds :
     \/ f = "mismatch"
     \/ f = "index table" /\ "usize" \notin text.made
     \/ f = "other table" /\ "usize" \in text.made}

BorrowErrors(text) ==
  {f \in text.holds : f = "parameter" \/ (f = "let" /\ "mut" \notin text.made)}

OtherErrors(text) ==
  {f \in text.holds : f = "broken" \/ (f = "rug" /\ "traits" \notin text.made)}

Flaws(text) == TypeErrors(text) \cup BorrowErrors(text) \cup OtherErrors(text)

Diagnosed(text) ==
  IF TypeErrors(text) \cup OtherErrors(text) # {}
  THEN TypeErrors(text) \cup OtherErrors(text)
  ELSE BorrowErrors(text)

\* What cargo calls mismatched types, of a table or not.
Mismatches == {"index table", "other table", "mismatch"}

is_recoverable(output) == output \cap ({"let", "parameter"} \cup Mismatches) # {}

\* A regression: every correction is made, whatever the diagnostic.
CorrectAll(text, output) == align_match_types(fix_mutability(text, {"let", "parameter"}))

\* On any mismatch all tables are annotated, though nobody has named them.
correct_from_diagnostics(text, output) ==
  LET mutable == fix_mutability(text, output)
  IN IF output \cap Mismatches # {} THEN align_match_types(mutable) ELSE mutable
=============================================================================
