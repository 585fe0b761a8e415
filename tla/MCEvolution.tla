---------------------------- MODULE MCEvolution ----------------------------
(***************************************************************************)
(* Two generations of two; trade-offs between two build objectives, and    *)
(* candidates that runtime feedback has reached beside some it has not.    *)
(***************************************************************************)
EXTENDS Evolution

Base(l, s) == [latency |-> l, size |-> s]

MCFitness == {Base(1, 3), Base(2, 1), Base(2, 3)}

MCRuntime == {[k \in {} |-> 0], [wall_time |-> 1]}
=============================================================================
