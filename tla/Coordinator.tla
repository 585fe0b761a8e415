---------------------------- MODULE Coordinator ----------------------------
(***************************************************************************)
(* DistributedCoordinator of src/build/distributed.py: dispatch() runs     *)
(* _run_one for every task in a thread pool, the threads sharing a health  *)
(* table (read and written under a lock), a round-robin counter (read      *)
(* outside of it) and the shared artefact cache.  A step of a task is what *)
(* its thread does between two points where other threads can be seen to   *)
(* interfere.                                                              *)
(***************************************************************************)
EXTENDS Integers, Sequences, FiniteSets

CONSTANTS
  Names,           \* names of the backends (two backends may share a name)
  Order,           \* self.backends, as the sequence of their names
  Kind,            \* class of each backend: "local", "ssh" or "k8s"
  Fallback,        \* name of the LocalBackend made when none is left
  NTasks,          \* number of tasks of a call
  Id,              \* task_id of each task
  Form,            \* what a task carries: "func", "command" or "nothing"
  Declares,        \* the tasks that name an artifact
  MaxAttempts,     \* max_attempts
  MaxDispatches,   \* bound: calls of dispatch() on one coordinator
  PutMayRaise,     \* whether the shared cache directory can be unwritable
  NodesMayVanish   \* whether a remote node can go away in mid-call

Tasks == 1..NTasks
LocalNames == {w \in Names : Kind[w] = "local"}
Slots == 1..Len(Order)

IsLocal(w) == w # Fallback => Kind[w] = "local"

ASSUME NamesAssumption ==
  /\ IsFiniteSet(Names)
  /\ Order \in Seq(Names) /\ Order # <<>>
  /\ \A w \in Names : \E i \in 1..Len(Order) : Order[i] = w
  /\ Kind \in [Names -> {"local", "ssh", "k8s"}]
  /\ Fallback \notin Names
  \* _build_backends always appends a LocalBackend
  /\ Kind[Order[Len(Order)]] = "local"

ASSUME TasksAssumption ==
  /\ NTasks \in Nat /\ MaxAttempts \in Nat \ {0} /\ MaxDispatches \in Nat
  /\ Form \in [Tasks -> {"func", "command", "nothing"}]
  /\ Declares \subseteq Tasks
  /\ DOMAIN Id = Tasks
  /\ PutMayRaise \in BOOLEAN /\ NodesMayVanish \in BOOLEAN

VARIABLES
  healthy,     \* self._healthy
  rr,          \* self._rr, the next value of the counter
  cached,      \* shared cache: age of the artefact stored under each task_id
  pc,          \* where the thread of each task is in _run_one
  attempt,     \* its loop variable
  tried,       \* its set of names not to use again
  candidates,  \* the backends it read as usable, as positions in Order
  worker,      \* the backend it chose
  last,        \* success of its last result
  artifact,    \* the file task.artifact on this machine
  pods,        \* the pod named after each task_id, in the cluster
  collected,   \* results in the order as_completed yields them
  answer,      \* how the current call ended, if it has
  dispatches   \* calls so far

shared == <<healthy, rr, cached>>
local  == <<attempt, tried, candidates, worker, last>>
files  == <<artifact, pods>>
caller == <<collected, answer, dispatches>>
vars   == <<shared, pc, local, files, caller>>

Places == {"queued", "choosing", "indexing", "running", "marking", "caching",
           "done", "error", "hung"}
Ages   == {"missing", "stale", "fresh"}
Ids    == {Id[t] : t \in Tasks}

TypeOK ==
  /\ healthy \in [Names -> BOOLEAN]
  /\ rr \in Nat
  /\ cached \in [Ids -> Ages]
  /\ pc \in [Tasks -> Places]
  /\ attempt \in [Tasks -> 0..MaxAttempts]
  /\ tried \in [Tasks -> SUBSET (Names \cup {Fallback})]
  /\ candidates \in [Tasks -> SUBSET Slots]
  /\ worker \in [Tasks -> Names \cup {Fallback}]
  /\ last \in [Tasks -> {"none", "ok", "fail"}]
  /\ artifact \in [Tasks -> Ages]
  /\ pods \in [Ids -> {"absent", "running", "late", "finished"}]
  /\ collected \in Seq(Tasks)
  /\ answer \in {"awaited", "raising", "returned", "raised"}
  /\ dispatches \in Nat

AllTasks(v) == [t \in Tasks |-> v]

\* A file an earlier build left may still be where the artefact will be.
Init ==
  /\ healthy = [w \in Names |-> TRUE]
  /\ rr = 0
  /\ cached = [k \in Ids |-> "missing"]
  /\ pc = AllTasks("queued")
  /\ attempt = AllTasks(0)
  /\ tried = AllTasks({})
  /\ candidates = AllTasks({})
  /\ worker = AllTasks(Fallback)
  /\ last = AllTasks("none")
  /\ artifact \in {a \in [Tasks -> {"missing", "stale"}] :
                    \A t \in Tasks \ Declares : a[t] = "missing"}
  /\ pods = [k \in Ids |-> "absent"]
  /\ collected = <<>>
  /\ answer = "awaited"
  /\ dispatches = 1

Goto(t, place) == pc' = [pc EXCEPT ![t] = place]
-----------------------------------------------------------------------------
(* The pool has one thread per backend and starts tasks in order.          *)

Active == {t \in Tasks : pc[t] \notin {"queued", "done", "error"}}

Start(t) ==
  /\ pc[t] = "queued"
  /\ \A u \in Tasks : u < t => pc[u] # "queued"
  /\ Cardinality(Active) < Len(Order)
  /\ attempt' = [attempt EXCEPT ![t] = 1]
  /\ Goto(t, "choosing")
  /\ UNCHANGED <<shared, tried, candidates, worker, last, files, caller>>

(* _next_worker, its locked half: the list of usable backends.             *)

\* A regression: the exclude set is not consulted.
UsableThoughTried(t) == {i \in Slots : healthy[Order[i]]}

Usable(t) == {i \in Slots : healthy[Order[i]] /\ Order[i] \notin tried[t]}

Choose(t) ==
  /\ pc[t] = "choosing"
  /\ candidates' = [candidates EXCEPT ![t] = Usable(t)]
  /\ Goto(t, "indexing")
  /\ UNCHANGED <<shared, attempt, tried, worker, last, files, caller>>

(* _next_worker, after the lock: the list may be out of date by now.       *)

Rank(i, S) == Cardinality({j \in S : j < i})

Index(t) ==
  /\ pc[t] = "indexing"
  /\ \/ /\ candidates[t] = {}
        /\ worker' = [worker EXCEPT ![t] = Fallback]
        /\ UNCHANGED rr
     \/ \E i \in candidates[t] :
          /\ Rank(i, candidates[t]) = rr % Cardinality(candidates[t])
          /\ worker' = [worker EXCEPT ![t] = Order[i]]
          /\ rr' = rr + 1
  /\ Goto(t, "running")
  /\ UNCHANGED <<healthy, cached, attempt, tried, candidates, last, files, caller>>
-----------------------------------------------------------------------------
(* worker.run_task(task).  A callable only runs locally; a pod is reported *)
(* as a success once it is created, which it can be once under its name.   *)

IsPod(w) == w # Fallback /\ Kind[w] = "k8s"

CanSucceed(w, t) ==
  /\ \/ Form[t] = "command"
     \/ Form[t] = "func" /\ IsLocal(w)
  /\ IsPod(w) => pods[Id[t]] = "absent"

\* What a success leaves in task.artifact of this machine: a local run made
\* it, an ssh run did if the directory is shared, a pod has yet to.
Produced(w, t) ==
  IF t \notin Declares THEN {artifact[t]}
  ELSE IF IsLocal(w) THEN {"fresh"}
  ELSE IF Kind[w] = "ssh" THEN {artifact[t], "fresh"}
  ELSE {artifact[t]}

RunSucceeds(t) ==
  /\ pc[t] = "running"
  /\ CanSucceed(worker[t], t)
  /\ last' = [last EXCEPT ![t] = "ok"]
  /\ \E age \in Produced(worker[t], t) : artifact' = [artifact EXCEPT ![t] = age]
  /\ pods' = IF IsPod(worker[t]) THEN [pods EXCEPT ![Id[t]] = "running"] ELSE pods
  /\ Goto(t, "caching")
  /\ UNCHANGED <<shared, attempt, tried, candidates, worker, caller>>

RunFails(t) ==
  /\ pc[t] = "running"
  /\ last' = [last EXCEPT ![t] = "fail"]
  /\ Goto(t, "marking")
  /\ UNCHANGED <<shared, attempt, tried, candidates, worker, files, caller>>

\* conn.run has no timeout: when the node goes away the call never returns.
NodeVanishes(t) ==
  /\ NodesMayVanish
  /\ pc[t] = "running"
  /\ worker[t] # Fallback /\ Kind[worker[t]] = "ssh"
  /\ Form[t] = "command"
  /\ Goto(t, "hung")
  /\ UNCHANGED <<shared, local, files, caller>>

\* The cluster runs the pod when it likes, and nobody watches it.
PodFinishes(k) ==
  /\ pods[k] \in {"running", "late"}
  /\ pods' = [pods EXCEPT ![k] = "finished"]
  /\ artifact' = [t \in Tasks |->
       IF Id[t] # k \/ t \notin Declares THEN artifact[t]
       ELSE IF pods[k] = "running" THEN "fresh" ELSE "stale"]
  /\ UNCHANGED <<shared, pc, local, caller>>

(* _mark_unhealthy, tried.add, and the turn of the loop.                   *)

\* Regressions: the local backend is not spared; the last attempt is not
\* made; the loop variable does not advance.
MarkDownAny(w)       == IF w = Fallback THEN healthy ELSE [healthy EXCEPT ![w] = FALSE]
MayRetryOnceLess(t)  == attempt[t] < MaxAttempts - 1
SameAttempt(t)       == attempt[t]

MayRetry(t)    == attempt[t] < MaxAttempts
NextAttempt(t) == attempt[t] + 1
MarkDown(w) == IF IsLocal(w) THEN healthy ELSE [healthy EXCEPT ![w] = FALSE]

Mark(t) ==
  /\ pc[t] = "marking"
  /\ healthy' = MarkDown(worker[t])
  /\ tried' = [tried EXCEPT ![t] = @ \cup {worker[t]}]
  /\ \/ /\ MayRetry(t)
        /\ attempt' = [attempt EXCEPT ![t] = NextAttempt(t)]
        /\ Goto(t, "choosing")
     \/ /\ ~MayRetry(t)
        /\ UNCHANGED attempt
        /\ Goto(t, "done")
  /\ UNCHANGED <<rr, cached, candidates, worker, last, files, caller>>

(* The tail of a successful attempt: SharedCache.put when the file exists. *)

Cache(t) ==
  /\ pc[t] = "caching"
  /\ cached' = IF t \in Declares /\ artifact[t] # "missing"
               THEN [cached EXCEPT ![Id[t]] = artifact[t]] ELSE cached
  /\ Goto(t, "done")
  /\ UNCHANGED <<healthy, rr, local, files, caller>>

CacheRaises(t) ==
  /\ pc[t] = "caching"
  /\ PutMayRaise /\ t \in Declares /\ artifact[t] # "missing"
  /\ Goto(t, "error")
  /\ UNCHANGED <<shared, local, files, caller>>
-----------------------------------------------------------------------------
(* The thread that called dispatch().                                      *)

Seen == {collected[i] : i \in 1..Len(collected)}

Collect(t) ==
  /\ answer = "awaited"
  /\ t \notin Seen
  /\ pc[t] = "done"
  /\ collected' = Append(collected, t)
  /\ UNCHANGED <<shared, pc, local, files, answer, dispatches>>

\* A regression: the pool is shut down without waiting.
NotWaited == TRUE

PoolDrained == \A t \in Tasks : pc[t] \in {"done", "error"}

\* future.result() re-raises, and leaving the with block waits for the pool.
CollectError(t) ==
  /\ answer = "awaited"
  /\ pc[t] = "error"
  /\ answer' = "raising"
  /\ UNCHANGED <<shared, pc, local, files, collected, dispatches>>

Raise ==
  /\ answer = "raising"
  /\ PoolDrained
  /\ answer' = "raised"
  /\ UNCHANGED <<shared, pc, local, files, collected, dispatches>>

Return ==
  /\ answer = "awaited"
  /\ Seen = Tasks
  /\ answer' = "returned"
  /\ UNCHANGED <<shared, pc, local, files, collected, dispatches>>

(* The stable sort of the results on the position of their task_id.        *)

Position(t) == CHOOSE i \in Tasks : Id[i] = Id[t] /\ \A j \in Tasks : Id[j] = Id[t] => j <= i

\* A regression: results are reported as they arrived.
ReportUnsorted == collected

Report ==
  LET Before(i, j) == \/ Position(collected[i]) < Position(collected[j])
                      \/ Position(collected[i]) = Position(collected[j]) /\ i < j
      Places0(j)   == Cardinality({i \in 1..Len(collected) : Before(i, j)})
  IN [k \in 1..Len(collected) |->
        collected[CHOOSE j \in 1..Len(collected) : Places0(j) = k - 1]]

\* The coordinator outlives the call: its health table is not renewed.
DispatchAgain ==
  /\ answer \in {"returned", "raised"}
  /\ dispatches < MaxDispatches
  /\ dispatches' = dispatches + 1
  /\ pc' = AllTasks("queued")
  /\ attempt' = AllTasks(0)
  /\ tried' = AllTasks({})
  /\ candidates' = AllTasks({})
  /\ worker' = AllTasks(Fallback)
  /\ last' = AllTasks("none")
  /\ artifact' = [t \in Tasks |-> IF artifact[t] = "missing" THEN "missing" ELSE "stale"]
  /\ pods' = [k \in Ids |-> IF pods[k] = "running" THEN "late" ELSE pods[k]]
  /\ collected' = <<>>
  /\ answer' = "awaited"
  /\ UNCHANGED shared

Finished ==
  /\ answer \in {"returned", "raised"}
  /\ dispatches = MaxDispatches
  /\ UNCHANGED vars

Thread(t) ==
  \/ Start(t) \/ Choose(t) \/ Index(t)
  \/ RunSucceeds(t) \/ RunFails(t) \/ NodeVanishes(t)
  \/ Mark(t) \/ Cache(t) \/ CacheRaises(t)

Main == (\E t \in Tasks : Collect(t) \/ CollectError(t)) \/ Raise \/ Return

Next ==
  \/ \E t \in Tasks : Thread(t)
  \/ \E k \in Ids : PodFinishes(k)
  \/ Main
  \/ DispatchAgain
  \/ Finished

Spec == Init /\ [][Next]_vars

\* Threads and the caller are scheduled; a cluster need not run the pod.
FairSpec == Spec /\ WF_vars(Main) /\ \A t \in Tasks : WF_vars(Thread(t))
-----------------------------------------------------------------------------
\* _run_one never gives a task back to a backend name it has failed on; only
\* the last-resort local node, made afresh each time, is used twice.
NoRepeatWorker ==
  \A t \in Tasks : pc[t] = "running" => worker[t] \notin tried[t] \ {Fallback}

\* The last-resort node of _next_worker is reached only by a task that has
\* already failed on every local backend of the pool, however many of the
\* other workers its siblings have disabled.
FallbackIsLastResort ==
  \A t \in Tasks : pc[t] = "running" /\ worker[t] = Fallback
     => LocalNames \subseteq tried[t]

\* A task that dispatch() reports as failed has either failed on every local
\* backend or on max_attempts different ones: this is what the fallback of
\* _run_one really guarantees.
FailedEverywhere ==
  \A t \in Tasks : pc[t] = "done" /\ last[t] = "fail"
     => \/ LocalNames \subseteq tried[t]
        \/ Cardinality(tried[t]) = MaxAttempts

\* With distinct task_ids the results come back in the order of the tasks,
\* each exactly once, in whatever order the workers finished.
ReportInOrder ==
  answer = "returned" => Report = [t \in Tasks |-> t]

\* Every call of dispatch() comes back, unless one of its threads is stuck in
\* a call on a host that went away: nothing else keeps it.
DispatchEnds ==
  answer = "awaited" ~> \/ answer \in {"returned", "raised"}
                        \/ \E t \in Tasks : pc[t] = "hung"

\* dispatch() decides each task once and answers only when all are decided.
Verdicts == [t \in Tasks |-> CASE pc[t] = "done"  -> last[t]
                               [] pc[t] = "error" -> "lost"
                               [] OTHER -> "pending"]
Pool == INSTANCE TaskPool WITH
          verdict <- Verdicts,
          answer  <- IF answer = "raising" THEN "awaited" ELSE answer
ImplementsTaskPool == Pool!Spec
-----------------------------------------------------------------------------
\* The parts of the inductive invariant behind the first three properties.
LocalsHealthy == \A w \in LocalNames : healthy[w]

CandidatesOK ==
  \A t \in Tasks : pc[t] = "indexing"
     => /\ \A i \in candidates[t] : Order[i] \notin tried[t]
        /\ candidates[t] = {} => LocalNames \subseteq tried[t]

WorkerOK ==
  \A t \in Tasks : pc[t] \in {"running", "marking"}
     => /\ worker[t] \notin tried[t] \ {Fallback}
        /\ worker[t] = Fallback => LocalNames \subseteq tried[t]

TriedOK == \A t \in Tasks : Fallback \in tried[t] => LocalNames \subseteq tried[t]

LastOK ==
  \A t \in Tasks :
     /\ pc[t] \in {"caching", "error"} => last[t] = "ok"
     /\ pc[t] = "marking" => last[t] = "fail"
     /\ pc[t] = "done" => last[t] \in {"ok", "fail"}

\* The attempts of a task that failed, the current one not counted.
Failures(t) == IF pc[t] = "done" /\ last[t] = "fail" THEN attempt[t] ELSE attempt[t] - 1

CountOK ==
  \A t \in Tasks :
     /\ pc[t] = "queued" => tried[t] = {}
     /\ pc[t] # "queued" => attempt[t] > 0
     /\ pc[t] # "queued" /\ Fallback \notin tried[t] => Cardinality(tried[t]) = Failures(t)
     /\ pc[t] = "done" /\ last[t] = "fail" => attempt[t] = MaxAttempts

IInv ==
  /\ TypeOK /\ LocalsHealthy /\ CandidatesOK /\ WorkerOK /\ TriedOK /\ LastOK
  /\ CountOK
=============================================================================
