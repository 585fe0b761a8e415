------------------------------ MODULE Picking ------------------------------
(***************************************************************************)
(* Lines of a file, or functions of a module, that are kept while others  *)
(* go, as the scaffold's split, the repair of ingested files and the       *)
(* translator do it: [ln for i, ln in enumerate(lines) if i in K].         *)
(***************************************************************************)
EXTENDS Naturals, FiniteSets

\* The n-th of the positions K.
Nth(K, n) == CHOOSE k \in K : Cardinality({j \in K : j <= k}) = n

\* What stands at the positions K, in its order.
Picked(text, K) == [n \in 1..Cardinality(K) |-> text[Nth(K, n)]]
=============================================================================
