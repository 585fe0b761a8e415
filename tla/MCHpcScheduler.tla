--------------------------- MODULE MCHpcScheduler ---------------------------
(***************************************************************************)
(* An instance of HpcScheduler: two jobs with the name main.py gives them. *)
(***************************************************************************)
EXTENDS HpcScheduler

BothBuilds == <<"aero_build", "aero_build">>
=============================================================================
