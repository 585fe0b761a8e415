--------------------------- MODULE MCCoordinator ---------------------------
(***************************************************************************)
(* The instance: two ssh hosts, a cluster and the local machine, as many   *)
(* remote ones as a task has attempts; the tasks a command and a callable. *)
(***************************************************************************)
EXTENDS Coordinator

MCNames == {"host", "pod", "host2", "local"}
MCOrder == <<"host", "pod", "host2", "local">>
MCKind  == [host |-> "ssh", pod |-> "k8s", host2 |-> "ssh", local |-> "local"]

MCId   == [t \in 1..2 |-> t]
MCForm == <<"command", "func">>
=============================================================================
