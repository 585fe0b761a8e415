----------------------------- MODULE MCDslBuild -----------------------------
(***************************************************************************)
(* An instance of DslBuild, the blocks not in the order of their names.    *)
(***************************************************************************)
EXTENDS DslBuild

Four == <<3, 1, 4, 2>>
=============================================================================
