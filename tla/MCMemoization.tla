--------------------------- MODULE MCMemoization ---------------------------
(***************************************************************************)
(* An instance of Memoization: a file that "types" depends on, "unit" on   *)
(* "types", and "link" on both; the file is the source_file of "link" too. *)
(***************************************************************************)
EXTENDS Memoization, TLC

ChainDeps   == [types |-> {"a"}, unit |-> {"types"}, link |-> {"types", "unit"}]
ChainSource == [types |-> "none", unit |-> "none", link |-> "a"]

\* No code is special.
AnyCode == Permutations(Codes)
=============================================================================
