--------------------------- MODULE MCReplayLedger ---------------------------
(***************************************************************************)
(* Instances of ReplayLedger: two processes, the first with two threads.   *)
(***************************************************************************)
EXTENDS ReplayLedger

TwoAndOne == [t1 |-> "p1", t2 |-> "p1", t3 |-> "p2"]
OneAndOne == [t1 |-> "p1", t3 |-> "p2"]
=============================================================================
