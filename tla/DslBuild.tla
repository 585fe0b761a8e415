------------------------------ MODULE DslBuild ------------------------------
(***************************************************************************)
(* A build of a block-DSL blueprint: the cycle check of                    *)
(* blueprint_lang/validator.py, the build order of build_graph.py and the  *)
(* compile loop of main.py with the exit code of error_interceptor.py.     *)
(***************************************************************************)
EXTENDS Naturals, Sequences, SequencesExt, FiniteSets

CONSTANTS
  N,            \* targets; 1..N is the order of their names
  Declared,     \* the targets in the order of their blocks
  Optional,     \* targets with optional = true
  MaxRequires   \* bound: length of a requires list

Targets == 1..N

ASSUME DslAssumption ==
  /\ N \in Nat \ {0} /\ MaxRequires \in Nat
  /\ Declared \in [1..N -> Targets] /\ {Declared[i] : i \in 1..N} = Targets
  /\ Optional \subseteq Targets

VARIABLES
  requires,  \* the requires list of each target: it may name a target twice
  pc,
  color,     \* _find_cycle
  path,      \* its stack: each node with the neighbours not looked at yet
  cycle,     \* what it returned
  degree,    \* in_degree of _topological_sort
  queue,
  order,     \* build_order
  results,   \* of _build_dsl_targets: compiled or not, in build order
  exit

check == <<color, path, cycle>>
sort  == <<degree, queue, order>>
vars  == <<requires, pc, check, sort, results, exit>>

Needs(t) == {requires[t][i] : i \in DOMAIN requires[t]}

Init ==
  /\ requires \in [Targets -> UNION {[1..n -> Targets] : n \in 0..MaxRequires}]
  /\ pc = "checking"
  /\ color = [t \in Targets |-> "white"]
  /\ path = <<>> /\ cycle = <<>>
  /\ degree = [t \in Targets |-> 0] /\ queue = <<>> /\ order = <<>>
  /\ results = <<>>
  /\ exit = 0
-----------------------------------------------------------------------------
(* _strict_blueprint_gate: depth-first search over the requires lists.     *)

Enter(t, onto) ==
  /\ color' = [color EXCEPT ![t] = "gray"]
  /\ path' = Append(onto, [node |-> t, ahead |-> requires[t]])

OnPath(t) == color[t] = "gray"

\* A regression: the search starts from the first block only.
FirstBlock == {i \in {1} : color[Declared[i]] = "white"}

Roots == {i \in 1..N : color[Declared[i]] = "white"}

StartSearch ==
  /\ pc = "checking" /\ path = <<>>
  /\ \E i \in Roots : (\A j \in Roots : i <= j) /\ Enter(Declared[i], <<>>)
  /\ UNCHANGED <<requires, pc, cycle, sort, results, exit>>

\* The next neighbour of the node on top of the stack.
Looking == pc = "checking" /\ path # <<>> /\ Last(path).ahead # <<>>
Neighbour == Head(Last(path).ahead)

\* A regression: the neighbour is looked at again and again.
Unmoved == path

Advanced == [path EXCEPT ![Len(path)].ahead = Tail(@)]

Descend ==
  /\ Looking /\ ~OnPath(Neighbour) /\ color[Neighbour] = "white"
  /\ Enter(Neighbour, Advanced)
  /\ UNCHANGED <<requires, pc, cycle, sort, results, exit>>

PassBy ==
  /\ Looking /\ ~OnPath(Neighbour) /\ color[Neighbour] = "black"
  /\ path' = Advanced
  /\ UNCHANGED <<requires, pc, color, cycle, sort, results, exit>>

\* A regression: the target that closes the loop is left out at its start.
LoopAfter(i) == Append([j \in 1..(Len(path) - i) |-> path[i + j].node], path[i].node)

Loop(i) == Append([j \in 1..(Len(path) - i + 1) |-> path[i + j - 1].node], path[i].node)

\* stack[stack.index(neighbour):] + [neighbour], and exit code 2.
FindCycle ==
  /\ Looking /\ OnPath(Neighbour)
  /\ \E i \in DOMAIN path : path[i].node = Neighbour /\ cycle' = Loop(i)
  /\ pc' = "exited" /\ exit' = 2
  /\ UNCHANGED <<requires, color, path, sort, results>>

Leave ==
  /\ pc = "checking" /\ path # <<>> /\ Last(path).ahead = <<>>
  /\ color' = [color EXCEPT ![Last(path).node] = "black"]
  /\ path' = Front(path)
  /\ UNCHANGED <<requires, pc, cycle, sort, results, exit>>
-----------------------------------------------------------------------------
(* blueprint_to_dag: Kahn's algorithm, the queue first in first out.       *)

Sorted(S) ==
  CHOOSE s \in [1..Cardinality(S) -> S] :
    \A i, j \in 1..Cardinality(S) : i < j => s[i] < s[j]

\* The dependents of t left with nothing to wait for.  A list that names t
\* twice was counted twice and is decremented twice.
Times(d, t) == Cardinality({i \in DOMAIN requires[d] : requires[d][i] = t})

\* A regression: the first requirement met releases a target.
AnyDependent(t) == {d \in Targets : t \in Needs(d) /\ d \notin Range(queue)}

Released(t) == {d \in Targets : t \in Needs(d) /\ degree[d] = Times(d, t)}

\* A regression: last in, first out.
Stacked(waiting, released) == Sorted(released) \o waiting

Enqueued(waiting, released) == waiting \o Sorted(released)

Accept ==
  /\ pc = "checking" /\ path = <<>> /\ Roots = {}
  /\ pc' = "sorting"
  /\ degree' = [t \in Targets |-> Len(requires[t])]
  /\ queue' = Sorted({t \in Targets : requires[t] = <<>>})
  /\ UNCHANGED <<requires, check, order, results, exit>>

Place ==
  /\ pc = "sorting" /\ queue # <<>>
  /\ LET t == Head(queue) IN
       /\ order' = Append(order, t)
       /\ degree' = [d \in Targets |-> degree[d] - Times(d, t)]
       /\ queue' = Enqueued(Tail(queue), Released(t))
  /\ UNCHANGED <<requires, pc, check, results, exit>>

StartCompiling ==
  /\ pc = "sorting" /\ queue = <<>>
  /\ pc' = "compiling"
  /\ UNCHANGED <<requires, check, sort, results, exit>>

\* BuildGraph.levels, the stages that render_tree and the console announce.
Placed[n \in Nat] ==
  IF n = 0 THEN {} ELSE {t \in Targets : Needs(t) \subseteq Placed[n - 1]}

Level == [n \in 1..N |-> Placed[n] \ Placed[n - 1]]
-----------------------------------------------------------------------------
(* _build_dsl_targets: every target is compiled, whatever became of the    *)
(* ones it requires.                                                       *)

Compile(compiled) ==
  /\ pc = "compiling" /\ Len(results) < Len(order)
  /\ results' = Append(results, [target |-> order[Len(results) + 1], success |-> compiled])
  /\ UNCHANGED <<requires, pc, check, sort, exit>>

\* An error that _run does not catch ends in guarded_main.
CompileRaises ==
  /\ pc = "compiling" /\ Len(results) < Len(order)
  /\ pc' = "exited" /\ exit' = 1
  /\ UNCHANGED <<requires, check, sort, results>>

\* A regression: the failures of optional targets are left out.
KeptRequired == {r \in Range(results) : r.target \notin Optional}

Kept == {r \in Range(results) : r.target \notin Optional \/ ~r.success}

Report ==
  /\ pc = "compiling" /\ Len(results) = Len(order)
  /\ pc' = "exited"
  /\ exit' = IF \A r \in Kept : r.success THEN 0 ELSE 1
  /\ UNCHANGED <<requires, check, sort, results>>

Exited == pc = "exited" /\ UNCHANGED vars

Step ==
  \/ StartSearch \/ Descend \/ PassBy \/ FindCycle \/ Leave
  \/ Accept \/ Place \/ StartCompiling
  \/ (\E compiled \in BOOLEAN : Compile(compiled)) \/ CompileRaises
  \/ Report

Next == Step \/ Exited

Spec == Init /\ [][Next]_vars

\* One thread, which nothing keeps from running.
FairSpec == Spec /\ WF_vars(Step)
-----------------------------------------------------------------------------
TypeOK ==
  /\ \A t \in Targets : Needs(t) \subseteq Targets
  /\ pc \in {"checking", "sorting", "compiling", "exited"}
  /\ color \in [Targets -> {"white", "gray", "black"}]
  /\ Len(path) <= N /\ \A i \in DOMAIN path : path[i].node \in Targets
  /\ Range(cycle) \subseteq Targets
  /\ degree \in [Targets -> 0..MaxRequires]
  /\ Range(queue) \subseteq Targets /\ Len(queue) <= N
  /\ Range(order) \subseteq Targets /\ Len(order) <= N
  /\ Len(results) <= Len(order)
  /\ exit \in 0..2

\* The build order is there and nothing is compiled yet.
OrderFixed == pc = "compiling" /\ results = <<>>

\* The loop reported is one of the requires lists, closed on itself.
CycleIsReal ==
  exit = 2 => /\ Len(cycle) > 1 /\ cycle[1] = cycle[Len(cycle)]
              /\ \A i \in 1..(Len(cycle) - 1) : cycle[i + 1] \in Needs(cycle[i])

\* No set of targets waits for itself.
AcceptedIsAcyclic ==
  OrderFixed
    => \A S \in (SUBSET Targets) \ {{}} : \E t \in S : Needs(t) \cap S = {}

\* The gate refuses cycles and nothing else: what it reports is one, and not a
\* target reached on two ways, and what gets past it has none, whatever the
\* order of the blocks from which the search starts.
OnlyCyclesAreRefused == CycleIsReal /\ AcceptedIsAcyclic

\* The order holds every target once, each after all it requires.
OrderIsTopological ==
  OrderFixed =>
    /\ Len(order) = N /\ Range(order) = Targets
    /\ \A i \in 1..N : Needs(order[i]) \subseteq {order[j] : j \in 1..(i - 1)}

\* Stage by stage.
StagesInOrder ==
  OrderFixed =>
    LET level == Level
        Stage(t) == CHOOSE n \in 1..N : t \in level[n]
    IN \A i \in 1..(N - 1) : Stage(order[i]) <= Stage(order[i + 1])

\* Every target is compiled once, after all it requires, also where a list
\* names a target twice, and in the stages that levels announces, which are
\* computed apart from the order.
CompiledAsAnnounced == OrderIsTopological /\ StagesInOrder

\* Exit code 0 means that the gate was passed and that every target, an
\* optional one too, was compiled once.
ExitZeroIsSound ==
  pc = "exited" /\ exit = 0 =>
    /\ {r.target : r \in Range(results)} = Targets /\ Len(results) = N
    /\ \A r \in Range(results) : r.success

\* The search, the sort and the loop all come to an end.
BuildEnds == <>(pc = "exited")
=============================================================================
