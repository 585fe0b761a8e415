------------------------- MODULE CoordinatorProofs -------------------------
(***************************************************************************)
(* Proofs about Coordinator, for every pool of workers, every list of      *)
(* tasks and every value of max_attempts.                                  *)
(***************************************************************************)
EXTENDS Coordinator, FiniteSetTheorems, WellFoundedInduction, TLAPS

LEMMA PlainFacts ==
  /\ NTasks \in Nat /\ MaxAttempts \in Nat \ {0}
  /\ Fallback \notin Names
  /\ Order \in Seq(Names) /\ Slots = 1..Len(Order) /\ Len(Order) \in Nat \ {0}
  /\ \A i \in Slots : Order[i] \in Names
  /\ LocalNames \subseteq Names
  /\ \A w \in Names : IsLocal(w) <=> w \in LocalNames
  /\ IsLocal(Fallback)
  /\ \A t \in Tasks : Id[t] \in Ids
BY NamesAssumption, TasksAssumption DEF Slots, LocalNames, IsLocal, Ids

-----------------------------------------------------------------------------
(* Every step keeps every variable in its type.                            *)

LEMMA TypeInit == Init => TypeOK
BY PlainFacts DEF Init, TypeOK, AllTasks, Places, Ages, Ids

LEMMA TypeNext == TypeOK /\ [Next]_vars => TypeOK'
<1> SUFFICES ASSUME TypeOK, [Next]_vars PROVE TypeOK'
  OBVIOUS
<1> USE PlainFacts DEF Places, Ages, Goto
<1> USE DEF shared, local, files, caller
<1>1. ASSUME NEW t \in Tasks, Start(t) PROVE TypeOK'
  BY <1>1 DEF TypeOK, Start
<1>2. ASSUME NEW t \in Tasks, Choose(t) PROVE TypeOK'
  BY <1>2 DEF TypeOK, Choose, Usable
<1>3. ASSUME NEW t \in Tasks, Index(t) PROVE TypeOK'
  <2>1. worker' \in [Tasks -> Names \cup {Fallback}] /\ rr' \in Nat
    <3>1. CASE candidates[t] = {}
      <4>1. worker' = [worker EXCEPT ![t] = Fallback] /\ rr' = rr
        BY <1>3, <3>1 DEF Index
      <4>2. QED BY <4>1 DEF TypeOK
    <3>2. CASE candidates[t] # {}
      <4>1. PICK i \in candidates[t] :
              worker' = [worker EXCEPT ![t] = Order[i]] /\ rr' = rr + 1
        BY <1>3, <3>2 DEF Index
      <4>2. Order[i] \in Names
        BY DEF TypeOK
      <4>3. QED BY <4>1, <4>2 DEF TypeOK
    <3>3. QED BY <3>1, <3>2
  <2>2. /\ pc' \in [Tasks -> Places]
        /\ UNCHANGED <<healthy, cached, attempt, tried, candidates, last, files, caller>>
    BY <1>3 DEF Index, TypeOK
  <2>3. QED BY <2>1, <2>2 DEF TypeOK
<1>4. ASSUME NEW t \in Tasks, RunSucceeds(t) PROVE TypeOK'
  <2>1. Produced(worker[t], t) \subseteq Ages
    BY DEF Produced, TypeOK
  <2>2. artifact' \in [Tasks -> Ages]
    BY <1>4, <2>1 DEF TypeOK, RunSucceeds
  <2>3. pods' \in [Ids -> {"absent", "running", "late", "finished"}]
    BY <1>4 DEF TypeOK, RunSucceeds
  <2>4. QED BY <1>4, <2>2, <2>3 DEF TypeOK, RunSucceeds
<1>5. ASSUME NEW t \in Tasks, RunFails(t) PROVE TypeOK'
  BY <1>5 DEF TypeOK, RunFails
<1>6. ASSUME NEW t \in Tasks, NodeVanishes(t) PROVE TypeOK'
  BY <1>6 DEF TypeOK, NodeVanishes
<1>7. ASSUME NEW t \in Tasks, Mark(t) PROVE TypeOK'
  <2>1. attempt' \in [Tasks -> 0..MaxAttempts] /\ pc' \in [Tasks -> Places]
    <3>1. CASE MayRetry(t)
      <4>1. attempt[t] + 1 \in 0..MaxAttempts
        BY <3>1 DEF MayRetry, TypeOK
      <4>2. attempt' = [attempt EXCEPT ![t] = attempt[t] + 1]
            /\ pc' = [pc EXCEPT ![t] = "choosing"]
        BY <1>7, <3>1 DEF Mark, NextAttempt
      <4>3. QED BY <4>1, <4>2 DEF TypeOK
    <3>2. CASE ~MayRetry(t)
      BY <1>7, <3>2 DEF Mark, TypeOK
    <3>3. QED BY <3>1, <3>2
  <2>2. healthy' \in [Names -> BOOLEAN]
    BY <1>7 DEF TypeOK, Mark, MarkDown
  <2>3. tried' \in [Tasks -> SUBSET (Names \cup {Fallback})]
    BY <1>7 DEF TypeOK, Mark
  <2>4. QED BY <1>7, <2>1, <2>2, <2>3 DEF TypeOK, Mark
<1>8. ASSUME NEW t \in Tasks, Cache(t) PROVE TypeOK'
  BY <1>8 DEF TypeOK, Cache
<1>9. ASSUME NEW t \in Tasks, CacheRaises(t) PROVE TypeOK'
  BY <1>9 DEF TypeOK, CacheRaises
<1>10. ASSUME NEW k \in Ids, PodFinishes(k) PROVE TypeOK'
  BY <1>10 DEF TypeOK, PodFinishes
<1>11. ASSUME NEW t \in Tasks, Collect(t) PROVE TypeOK'
  <2>1. collected' \in Seq(Tasks)
    BY <1>11 DEF TypeOK, Collect
  <2>2. QED BY <1>11, <2>1 DEF TypeOK, Collect
<1>12. ASSUME NEW t \in Tasks, CollectError(t) PROVE TypeOK'
  BY <1>12 DEF TypeOK, CollectError
<1>13. ASSUME Raise \/ Return PROVE TypeOK'
  BY <1>13 DEF TypeOK, Raise, Return
<1>14. ASSUME DispatchAgain PROVE TypeOK'
  BY <1>14 DEF TypeOK, DispatchAgain, AllTasks
<1>15. ASSUME UNCHANGED vars PROVE TypeOK'
  BY <1>15 DEF TypeOK, vars
<1>16. QED
  BY <1>1, <1>2, <1>3, <1>4, <1>5, <1>6, <1>7, <1>8, <1>9, <1>10, <1>11,
     <1>12, <1>13, <1>14, <1>15 DEF Next, Thread, Main, Finished

\* The variables of the coordinator always have their types.
THEOREM TypeCorrect == Spec => []TypeOK
BY TypeInit, TypeNext, PTL DEF Spec
-----------------------------------------------------------------------------
(* The inductive invariant: a choice excludes what the task tried and an   *)
(* empty choice means every local backend was tried, since none is ever    *)
(* disabled; the set of tried names counts the failures until the          *)
(* last-resort node, which may repeat, is used.                            *)

LEMMA InvInit == Init => IInv
<1> SUFFICES ASSUME Init PROVE IInv
  OBVIOUS
<1>1. TypeOK
  BY TypeInit
<1>2. LocalsHealthy
  BY PlainFacts DEF Init, LocalsHealthy
<1>3. CandidatesOK /\ WorkerOK /\ TriedOK /\ LastOK /\ CountOK
  BY DEF Init, AllTasks, CandidatesOK, WorkerOK, TriedOK, LastOK, CountOK
<1>4. QED
  BY <1>1, <1>2, <1>3 DEF IInv

\* The tasks other than the one that moves keep their part of the invariant.
LEMMA OthersKept ==
  ASSUME IInv, NEW t \in Tasks,
         \A u \in Tasks \ {t} :
            /\ pc'[u] = pc[u] /\ attempt'[u] = attempt[u] /\ tried'[u] = tried[u]
            /\ candidates'[u] = candidates[u] /\ worker'[u] = worker[u]
            /\ last'[u] = last[u],
         TypeOK', LocalsHealthy',
         (pc[t] = "indexing")' =>
            /\ \A i \in candidates'[t] : Order[i] \notin tried'[t]
            /\ candidates'[t] = {} => LocalNames \subseteq tried'[t],
         pc'[t] \in {"running", "marking"} =>
            /\ worker'[t] \notin tried'[t] \ {Fallback}
            /\ worker'[t] = Fallback => LocalNames \subseteq tried'[t],
         Fallback \in tried'[t] => LocalNames \subseteq tried'[t],
         pc'[t] \in {"caching", "error"} => last'[t] = "ok",
         pc'[t] = "marking" => last'[t] = "fail",
         pc'[t] = "done" => last'[t] \in {"ok", "fail"},
         pc'[t] = "queued" => tried'[t] = {},
         pc'[t] # "queued" => attempt'[t] > 0,
         pc'[t] # "queued" /\ Fallback \notin tried'[t]
            => Cardinality(tried'[t]) = Failures(t)',
         pc'[t] = "done" /\ last'[t] = "fail" => attempt'[t] = MaxAttempts
  PROVE  IInv'
<1>1. CandidatesOK'
  BY DEF IInv, CandidatesOK
<1>2. WorkerOK'
  BY DEF IInv, WorkerOK
<1>3. TriedOK'
  BY DEF IInv, TriedOK
<1>4. LastOK'
  BY DEF IInv, LastOK
<1>5. CountOK'
  <2>1. ASSUME NEW u \in Tasks, u # t PROVE Failures(u)' = Failures(u)
    BY <2>1 DEF Failures
  <2>2. QED BY <2>1 DEF IInv, CountOK
<1>6. QED
  BY <1>1, <1>2, <1>3, <1>4, <1>5 DEF IInv

LEMMA InvNext == IInv /\ [Next]_vars => IInv'
<1> SUFFICES ASSUME IInv, [Next]_vars PROVE IInv'
  OBVIOUS
<1>0. TypeOK /\ TypeOK'
  BY TypeNext DEF IInv
<1> USE PlainFacts DEF Goto, shared, local, files, caller
<1>1. ASSUME NEW t \in Tasks, Start(t) PROVE IInv'
  <2>1. LocalsHealthy'
    BY <1>1 DEF IInv, LocalsHealthy, Start
  <2>2. tried[t] = {} /\ Cardinality({}) = 0
    BY <1>1, FS_EmptySet DEF IInv, CountOK, Start
  <2>3. /\ UNCHANGED <<tried, candidates, worker, last>>
        /\ pc'[t] = "choosing" /\ attempt'[t] = 1
        /\ \A u \in Tasks \ {t} : pc'[u] = pc[u] /\ attempt'[u] = attempt[u]
    BY <1>0, <1>1 DEF Start, TypeOK
  <2>4. Failures(t)' = 0
    BY <2>3 DEF Failures
  <2>5. tried'[t] = {} /\ Cardinality(tried'[t]) = Failures(t)'
    BY <2>2, <2>3, <2>4
  <2>6. /\ Fallback \in tried'[t] => LocalNames \subseteq tried'[t]
        /\ pc'[t] \notin {"queued", "indexing", "running", "marking", "caching", "error", "done"}
        /\ attempt'[t] > 0
    BY <2>3, <2>5
  <2>7. QED
    BY <1>0, <2>1, <2>3, <2>5, <2>6, OthersKept
<1>2. ASSUME NEW t \in Tasks, Choose(t) PROVE IInv'
  <2>1. LocalsHealthy'
    BY <1>2 DEF IInv, LocalsHealthy, Choose
  <2>2. Usable(t) = {} => LocalNames \subseteq tried[t]
    <3>1. ASSUME Usable(t) = {}, NEW w \in LocalNames PROVE w \in tried[t]
      <4>1. PICK i \in Slots : Order[i] = w
        BY NamesAssumption
      <4>2. healthy[w]
        BY DEF IInv, LocalsHealthy
      <4>3. QED BY <3>1, <4>1, <4>2 DEF Usable
    <3>2. QED BY <3>1
  <2>3. candidates'[t] = Usable(t) /\ tried' = tried
    BY <1>0, <1>2 DEF Choose, TypeOK
  <2>4. \A i \in Usable(t) : Order[i] \notin tried[t]
    BY DEF Usable
  <2>5. Failures(t)' = Failures(t)
    BY <1>0, <1>2 DEF Choose, Failures, TypeOK
  <2>6. QED
    BY <1>0, <1>2, <2>1, <2>2, <2>3, <2>4, <2>5, OthersKept, ZenonT(30)
    DEF Choose, TypeOK, IInv, TriedOK, CountOK
<1>3. ASSUME NEW t \in Tasks, Index(t) PROVE IInv'
  <2>1. LocalsHealthy'
    BY <1>3 DEF IInv, LocalsHealthy, Index
  <2>2. /\ worker'[t] \notin tried[t] \ {Fallback}
        /\ worker'[t] = Fallback => LocalNames \subseteq tried[t]
    <3>1. CASE candidates[t] = {}
      BY <1>0, <1>3, <3>1 DEF Index, TypeOK, IInv, CandidatesOK
    <3>2. CASE candidates[t] # {}
      <4>1. PICK i \in candidates[t] : worker' = [worker EXCEPT ![t] = Order[i]]
        BY <1>3, <3>2 DEF Index
      <4>2. Order[i] \in Names /\ Order[i] \notin tried[t]
        BY <1>0, <1>3 DEF Index, TypeOK, IInv, CandidatesOK
      <4>3. QED BY <1>0, <4>1, <4>2 DEF TypeOK
    <3>3. QED BY <3>1, <3>2
  <2>3. /\ \A u \in Tasks \ {t} : worker'[u] = worker[u] /\ pc'[u] = pc[u]
        /\ pc'[t] = "running" /\ pc[t] = "indexing"
        /\ UNCHANGED <<attempt, tried, candidates, last>>
    BY <1>0, <1>3 DEF Index, TypeOK
  <2>4. Failures(t)' = Failures(t)
    BY <2>3 DEF Failures
  <2>5. QED
    BY <1>0, <2>1, <2>2, <2>3, <2>4, OthersKept DEF IInv, TriedOK, CountOK
<1>4. ASSUME NEW t \in Tasks, RunSucceeds(t) PROVE IInv'
  <2>1. LocalsHealthy'
    BY <1>4 DEF IInv, LocalsHealthy, RunSucceeds
  <2>2. Failures(t)' = Failures(t)
    BY <1>0, <1>4 DEF RunSucceeds, Failures, TypeOK
  <2>3. QED
    BY <1>0, <1>4, <2>1, <2>2, OthersKept, ZenonT(30) DEF RunSucceeds, TypeOK, IInv, TriedOK, CountOK
<1>5. ASSUME NEW t \in Tasks, RunFails(t) PROVE IInv'
  <2>1. LocalsHealthy'
    BY <1>5 DEF IInv, LocalsHealthy, RunFails
  <2>2. Failures(t)' = Failures(t)
    BY <1>0, <1>5 DEF RunFails, Failures, TypeOK
  <2>3. /\ UNCHANGED <<attempt, tried, candidates, worker>>
        /\ pc[t] = "running" /\ pc'[t] = "marking" /\ last'[t] = "fail"
        /\ \A u \in Tasks \ {t} : pc'[u] = pc[u] /\ last'[u] = last[u]
    BY <1>0, <1>5 DEF RunFails, TypeOK
  <2>4. QED
    BY <1>0, <2>1, <2>2, <2>3, OthersKept DEF IInv, TriedOK, CountOK, WorkerOK
<1>6. ASSUME NEW t \in Tasks, NodeVanishes(t) PROVE IInv'
  <2>1. LocalsHealthy'
    BY <1>6 DEF IInv, LocalsHealthy, NodeVanishes
  <2>2. Failures(t)' = Failures(t)
    BY <1>0, <1>6 DEF NodeVanishes, Failures, TypeOK
  <2>3. /\ UNCHANGED local
        /\ pc[t] = "running" /\ pc'[t] = "hung"
        /\ \A u \in Tasks \ {t} : pc'[u] = pc[u]
    BY <1>0, <1>6 DEF NodeVanishes, TypeOK
  <2>4. QED
    BY <1>0, <2>1, <2>2, <2>3, OthersKept DEF IInv, TriedOK, CountOK
<1>7. ASSUME NEW t \in Tasks, Mark(t) PROVE IInv'
  <2>1. LocalsHealthy'
    BY <1>0, <1>7 DEF IInv, LocalsHealthy, Mark, MarkDown, TypeOK
  <2>2. /\ pc[t] = "marking" /\ last[t] = "fail" /\ attempt[t] > 0
        /\ worker[t] \notin tried[t] \ {Fallback}
        /\ worker[t] = Fallback => LocalNames \subseteq tried[t]
        /\ Fallback \in tried[t] => LocalNames \subseteq tried[t]
        /\ Fallback \notin tried[t] => Cardinality(tried[t]) = attempt[t] - 1
    BY <1>0, <1>7 DEF Mark, IInv, WorkerOK, LastOK, CountOK, TriedOK, Failures
  <2>3. /\ tried'[t] = tried[t] \cup {worker[t]}
        /\ UNCHANGED <<candidates, worker, last>>
        /\ \A u \in Tasks \ {t} :
             tried'[u] = tried[u] /\ attempt'[u] = attempt[u] /\ pc'[u] = pc[u]
    BY <1>0, <1>7 DEF Mark, TypeOK
  <2>4. \/ attempt[t] < MaxAttempts /\ attempt'[t] = attempt[t] + 1 /\ pc'[t] = "choosing"
        \/ attempt[t] = MaxAttempts /\ attempt'[t] = attempt[t] /\ pc'[t] = "done"
    BY <1>0, <1>7 DEF Mark, MayRetry, NextAttempt, TypeOK
  <2>5. Failures(t)' = attempt[t]
    BY <1>0, <2>2, <2>3, <2>4 DEF Failures, TypeOK
  <2>6. Fallback \notin tried'[t] => Cardinality(tried'[t]) = Failures(t)'
    <3>1. ASSUME Fallback \notin tried'[t]
          PROVE  Cardinality(tried'[t]) = attempt[t]
      <4>1. worker[t] \notin tried[t] /\ Fallback \notin tried[t]
        BY <2>2, <2>3, <3>1
      <4>2. IsFiniteSet(tried[t])
        BY <1>0, NamesAssumption, FS_Subset, FS_Union, FS_Singleton, ZenonT(30) DEF TypeOK
      <4>3. Cardinality(tried'[t]) = Cardinality(tried[t]) + 1
        BY <2>3, <4>1, <4>2, FS_AddElement
      <4>4. QED BY <1>0, <2>2, <4>1, <4>3 DEF TypeOK
    <3>2. QED BY <2>5, <3>1
  <2>7. Fallback \in tried'[t] => LocalNames \subseteq tried'[t]
    BY <2>2, <2>3
  <2>8. /\ pc'[t] \in {"choosing", "done"} /\ last'[t] = "fail" /\ attempt'[t] > 0
        /\ pc'[t] = "done" => attempt'[t] = MaxAttempts
    BY <1>0, <2>2, <2>3, <2>4 DEF TypeOK
  <2>9. QED
    BY <1>0, <2>1, <2>3, <2>6, <2>7, <2>8, OthersKept
<1>8. ASSUME NEW t \in Tasks, Cache(t) \/ CacheRaises(t) PROVE IInv'
  <2>1. LocalsHealthy'
    BY <1>8 DEF IInv, LocalsHealthy, Cache, CacheRaises
  <2>2. last[t] = "ok" /\ pc[t] = "caching"
    BY <1>8 DEF IInv, LastOK, Cache, CacheRaises
  <2>3. /\ UNCHANGED <<attempt, tried, candidates, worker, last>>
        /\ pc'[t] \in {"done", "error"}
        /\ \A u \in Tasks \ {t} : pc'[u] = pc[u]
    BY <1>0, <1>8 DEF Cache, CacheRaises, TypeOK
  <2>4. Failures(t)' = Failures(t)
    BY <2>2, <2>3 DEF Failures
  <2>5. QED
    BY <1>0, <2>1, <2>2, <2>3, <2>4, OthersKept, ZenonT(30) DEF TypeOK, IInv, TriedOK, CountOK
<1>9. ASSUME UNCHANGED <<healthy, pc, local>> PROVE IInv'
  BY <1>0, <1>9
  DEF IInv, LocalsHealthy, CandidatesOK, WorkerOK, TriedOK, LastOK, CountOK, Failures
<1>10. ASSUME DispatchAgain PROVE IInv'
  <2>1. LocalsHealthy'
    BY <1>10 DEF IInv, LocalsHealthy, DispatchAgain
  <2>2. (CandidatesOK /\ WorkerOK /\ TriedOK /\ LastOK /\ CountOK)'
    BY <1>10 DEF DispatchAgain, AllTasks, CandidatesOK, WorkerOK, TriedOK, LastOK, CountOK
  <2>3. QED BY <1>0, <2>1, <2>2 DEF IInv
<1>11. QED
  <2>1. ASSUME NEW k \in Ids, PodFinishes(k) PROVE UNCHANGED <<healthy, pc, local>>
    BY <2>1 DEF PodFinishes
  <2>2. ASSUME Main \/ Finished \/ UNCHANGED vars PROVE UNCHANGED <<healthy, pc, local>>
    BY <2>2 DEF Main, Collect, CollectError, Raise, Return, Finished, vars
  <2>3. QED
    BY <1>1, <1>2, <1>3, <1>4, <1>5, <1>6, <1>7, <1>8, <1>9, <1>10, <2>1, <2>2
    DEF Next, Thread

\* What a task has tried, where a thread may be running it, how many attempts it
\* has used and what has come of them always agree.
THEOREM InductiveInvariant == Spec => []IInv
BY InvInit, InvNext, PTL DEF Spec

\* _run_one never gives a task back to a backend name it has failed on.
THEOREM NeverRepeatsWorker == Spec => []NoRepeatWorker
<1>1. IInv => NoRepeatWorker
  BY DEF IInv, WorkerOK, NoRepeatWorker
<1>2. QED
  BY <1>1, InductiveInvariant, PTL

\* Whatever the other tasks do to the health table, the last-resort node is
\* only reached by a task that has failed on every local backend.
THEOREM FallbackComesLast == Spec => []FallbackIsLastResort
<1>1. IInv => FallbackIsLastResort
  BY DEF IInv, WorkerOK, FallbackIsLastResort
<1>2. QED
  BY <1>1, InductiveInvariant, PTL

\* A failed task failed on every local backend or max_attempts distinct ones.
THEOREM FailureIsExhaustive == Spec => []FailedEverywhere
<1>1. IInv => FailedEverywhere
  BY DEF IInv, TriedOK, CountOK, Failures, FailedEverywhere
<1>2. QED
  BY <1>1, InductiveInvariant, PTL
-----------------------------------------------------------------------------
(* The coordinator implements TaskPool: a step that settles a task is a    *)
(* Decide, the end of the call a Return or a Raise, the rest stutters.     *)

LEMMA PoolInit == Init => Pool!Init
BY DEF Init, AllTasks, Verdicts, Pool!Init

LEMMA VerdictsKept ==
  ASSUME NEW t \in Tasks, TypeOK,
         \A u \in Tasks \ {t} : pc'[u] = pc[u] /\ last'[u] = last[u],
         pc[t] \notin {"done", "error"}, pc'[t] \notin {"done", "error"}
  PROVE  Verdicts' = Verdicts
<1>1. ASSUME NEW u \in Tasks PROVE Verdicts'[u] = Verdicts[u]
  BY DEF Verdicts, TypeOK
<1>2. QED BY <1>1 DEF Verdicts

LEMMA VerdictGiven ==
  ASSUME NEW t \in Tasks, TypeOK, NEW v \in {"ok", "fail", "lost"},
         UNCHANGED <<last, answer>>, pc[t] \notin {"done", "error"},
         \/ pc' = [pc EXCEPT ![t] = "done"] /\ last[t] = v
         \/ pc' = [pc EXCEPT ![t] = "error"] /\ v = "lost"
  PROVE  Pool!Decide(t, v)
<1>1. Verdicts[t] = "pending"
  BY DEF Verdicts, TypeOK
<1>2. ASSUME NEW u \in Tasks
      PROVE  Verdicts'[u] = [Verdicts EXCEPT ![t] = v][u]
  BY DEF Verdicts, TypeOK
<1>3. Verdicts' = [Verdicts EXCEPT ![t] = v]
  BY <1>2 DEF Verdicts
<1>4. QED BY <1>1, <1>3 DEF Pool!Decide

\* Results are only collected from tasks that are done: the caller cannot
\* return before the last one is.
CollectedDone == \A t \in Seen : pc[t] = "done"

\* An exception is only on its way to the caller when a task raised it.
RaisingOK == answer = "raising" => \E t \in Tasks : pc[t] = "error"

CallerInv == IInv /\ CollectedDone /\ RaisingOK

LEMMA CallerInit == Init => CallerInv
<1>1. Init => CollectedDone /\ RaisingOK
  BY DEF Init, CollectedDone, RaisingOK, Seen
<1>2. QED BY <1>1, InvInit DEF CallerInv

LEMMA CallerNext == CallerInv /\ [Next]_vars => CallerInv'
<1> SUFFICES ASSUME CallerInv, [Next]_vars PROVE CallerInv'
  OBVIOUS
<1>0. IInv' /\ TypeOK /\ Seen \subseteq Tasks
  BY InvNext DEF CallerInv, IInv, TypeOK, Seen
<1>1. ASSUME NEW t \in Tasks, Thread(t) PROVE CallerInv'
  <2>1. pc[t] \notin {"done", "error"} /\ \A u \in Tasks \ {t} : pc'[u] = pc[u]
    BY <1>0, <1>1
    DEF TypeOK, Thread, Start, Choose, Index, RunSucceeds, RunFails, NodeVanishes,
        Mark, Cache, CacheRaises, Goto
  <2>2. UNCHANGED <<collected, answer>>
    BY <1>1
    DEF Thread, Start, Choose, Index, RunSucceeds, RunFails, NodeVanishes,
        Mark, Cache, CacheRaises, caller
  <2>3. CollectedDone'
    BY <1>0, <2>1, <2>2 DEF CallerInv, CollectedDone, Seen
  <2>4. RaisingOK'
    BY <2>1, <2>2 DEF CallerInv, RaisingOK
  <2>5. QED BY <1>0, <2>3, <2>4 DEF CallerInv
<1>2. ASSUME NEW t \in Tasks, Collect(t) PROVE CallerInv'
  <2>1. collected \in Seq(Tasks) /\ collected' = Append(collected, t) /\ pc[t] = "done"
        /\ UNCHANGED <<pc, answer>>
    BY <1>0, <1>2 DEF TypeOK, Collect
  <2>2. Seen' = Seen \cup {t}
    BY <2>1 DEF Seen
  <2>3. QED BY <1>0, <2>1, <2>2 DEF CallerInv, CollectedDone, RaisingOK
<1>3. ASSUME NEW t \in Tasks, CollectError(t) PROVE CallerInv'
  BY <1>0, <1>3 DEF CollectError, CallerInv, CollectedDone, RaisingOK, Seen
<1>4. ASSUME UNCHANGED <<pc, collected>>,
             answer' = answer \/ answer' \in {"returned", "raised"}
      PROVE  CallerInv'
  BY <1>0, <1>4 DEF CallerInv, CollectedDone, RaisingOK, Seen
<1>5. ASSUME DispatchAgain PROVE CallerInv'
  BY <1>0, <1>5 DEF DispatchAgain, CallerInv, CollectedDone, RaisingOK, Seen
<1>6. ASSUME NEW k \in Ids, PodFinishes(k) PROVE CallerInv'
  BY <1>4, <1>6 DEF PodFinishes, caller
<1>7. ASSUME Raise \/ Return \/ Finished \/ UNCHANGED vars PROVE CallerInv'
  BY <1>4, <1>7 DEF Raise, Return, Finished, vars, caller
<1>8. QED
  BY <1>1, <1>2, <1>3, <1>5, <1>6, <1>7 DEF Next, Main

LEMMA PoolNext == CallerInv /\ [Next]_vars => [Pool!Next]_(Pool!vars)
<1> SUFFICES ASSUME CallerInv, [Next]_vars PROVE [Pool!Next]_(Pool!vars)
  OBVIOUS
<1>0. TypeOK /\ LastOK
  BY DEF CallerInv, IInv
<1> USE DEF Goto, local, caller
<1>1. ASSUME NEW t \in Tasks,
             Start(t) \/ Choose(t) \/ Index(t) \/ RunSucceeds(t) \/ RunFails(t)
               \/ NodeVanishes(t)
      PROVE  UNCHANGED Pool!vars
  <2>1. /\ pc[t] \notin {"done", "error"} /\ pc'[t] \notin {"done", "error"}
        /\ \A u \in Tasks \ {t} : pc'[u] = pc[u] /\ last'[u] = last[u]
        /\ UNCHANGED answer
    BY <1>0, <1>1
    DEF TypeOK, Start, Choose, Index, RunSucceeds, RunFails, NodeVanishes
  <2>2. QED BY <1>0, <2>1, VerdictsKept DEF Pool!vars
<1>2. ASSUME NEW t \in Tasks, Mark(t)
      PROVE  UNCHANGED Pool!vars \/ Pool!Decide(t, "fail")
  <2>1. pc[t] = "marking" /\ last[t] = "fail" /\ UNCHANGED <<last, answer>>
    BY <1>0, <1>2 DEF Mark, LastOK
  <2>2. CASE pc' = [pc EXCEPT ![t] = "done"]
    BY <1>0, <2>1, <2>2, VerdictGiven
  <2>3. CASE pc' = [pc EXCEPT ![t] = "choosing"]
    <3>1. /\ pc'[t] \notin {"done", "error"}
          /\ \A u \in Tasks \ {t} : pc'[u] = pc[u] /\ last'[u] = last[u]
      BY <1>0, <2>1, <2>3 DEF TypeOK
    <3>2. QED BY <1>0, <2>1, <3>1, VerdictsKept DEF Pool!vars
  <2>4. QED BY <1>2, <2>2, <2>3 DEF Mark
<1>3. ASSUME NEW t \in Tasks, Cache(t) PROVE Pool!Decide(t, "ok")
  BY <1>0, <1>3, VerdictGiven DEF Cache, LastOK
<1>4. ASSUME NEW t \in Tasks, CacheRaises(t) PROVE Pool!Decide(t, "lost")
  BY <1>0, <1>4, VerdictGiven DEF CacheRaises
<1>5. ASSUME UNCHANGED <<pc, last, answer>> PROVE UNCHANGED Pool!vars
  BY <1>5 DEF Pool!vars, Verdicts
<1>6. ASSUME NEW t \in Tasks, CollectError(t) PROVE UNCHANGED Pool!vars
  BY <1>6 DEF CollectError, Pool!vars, Verdicts
<1>7. ASSUME Raise PROVE Pool!Raise
  <2>1. /\ \A t \in Tasks : Verdicts[t] # "pending"
        /\ \E t \in Tasks : Verdicts[t] = "lost"
    BY <1>0, <1>7 DEF Raise, PoolDrained, CallerInv, RaisingOK, LastOK, Verdicts
  <2>2. Verdicts' = Verdicts
    BY <1>7 DEF Raise, Verdicts
  <2>3. QED BY <1>7, <2>1, <2>2 DEF Raise, Pool!Raise
<1>8. ASSUME Return PROVE Pool!Return
  <2>1. \A t \in Tasks : Verdicts[t] \in {"ok", "fail"}
    BY <1>0, <1>8 DEF Return, CallerInv, CollectedDone, LastOK, Verdicts
  <2>2. Verdicts' = Verdicts
    BY <1>8 DEF Return, Verdicts
  <2>3. QED BY <1>8, <2>1, <2>2 DEF Return, Pool!Return
<1>9. ASSUME DispatchAgain PROVE Pool!AskAgain
  <2>1. Verdicts' = [t \in Tasks |-> "pending"]
    BY <1>9 DEF DispatchAgain, AllTasks, Verdicts
  <2>2. QED BY <1>9, <2>1 DEF DispatchAgain, Pool!AskAgain
<1>10. QED
  <2>1. ASSUME NEW k \in Ids, PodFinishes(k) PROVE UNCHANGED <<pc, last, answer>>
    BY <2>1 DEF PodFinishes
  <2>2. ASSUME NEW t \in Tasks, Collect(t) PROVE UNCHANGED <<pc, last, answer>>
    BY <2>2 DEF Collect
  <2>3. ASSUME Finished \/ UNCHANGED vars PROVE UNCHANGED <<pc, last, answer>>
    BY <2>3 DEF Finished, vars
  <2>4. "fail" \in Pool!Verdict \ {"pending"} /\ "ok" \in Pool!Verdict \ {"pending"}
        /\ "lost" \in Pool!Verdict \ {"pending"}
    BY DEF Pool!Verdict
  <2>5. QED
    BY <1>1, <1>2, <1>3, <1>4, <1>5, <1>6, <1>7, <1>8, <1>9, <2>1, <2>2, <2>3, <2>4
    DEF Next, Thread, Main, Pool!Next

\* For every pool and every list of tasks the coordinator decides each task
\* once and answers the caller only when all of them are decided.
THEOREM Implementation == Spec => ImplementsTaskPool
BY CallerInit, CallerNext, PoolInit, PoolNext, PTL DEF Spec, ImplementsTaskPool, Pool!Spec
-----------------------------------------------------------------------------
(* The report: what as_completed yields in any order is sorted back.       *)

N == Len(collected)

\* Each task is collected once.
CollectedOnce == \A i, j \in 1..N : collected[i] = collected[j] => i = j

LEMMA OnceNext == TypeOK /\ CollectedOnce /\ [Next]_vars => CollectedOnce'
<1> SUFFICES ASSUME TypeOK, CollectedOnce, [Next]_vars PROVE CollectedOnce'
  OBVIOUS
<1>1. CASE UNCHANGED collected
  BY <1>1 DEF CollectedOnce, N
<1>2. ASSUME NEW t \in Tasks, Collect(t) PROVE CollectedOnce'
  <2>1. /\ collected \in Seq(Tasks) /\ N \in Nat
        /\ t \notin {collected[i] : i \in 1..N} /\ collected' = Append(collected, t)
    BY <1>2 DEF TypeOK, Collect, Seen, N
  <2>2. /\ N' = N + 1 /\ collected'[N + 1] = t
        /\ \A i \in 1..N : collected'[i] = collected[i]
    BY <2>1 DEF N
  <2>3. \A i \in 1..(N + 1) : i \in 1..N \/ i = N + 1
    BY <2>1
  <2> QED BY <2>1, <2>2, <2>3 DEF CollectedOnce
<1>3. CASE DispatchAgain
  BY <1>3 DEF DispatchAgain, CollectedOnce, N
<1>4. CASE \/ \E t \in Tasks : Thread(t) \/ CollectError(t)
           \/ \E k \in Ids : PodFinishes(k)
           \/ Raise \/ Return \/ Finished \/ UNCHANGED vars
  BY <1>1, <1>4
  DEF Thread, Start, Choose, Index, RunSucceeds, RunFails, NodeVanishes, Mark, Cache,
      CacheRaises, CollectError, PodFinishes, Raise, Return, Finished, vars, caller
<1> QED BY <1>2, <1>3, <1>4 DEF Next, Main

\* When all are seen, the order of arrival is a permutation of the tasks.
ArrivalOK ==
  answer = "returned" => /\ N = NTasks
                         /\ \A t \in Tasks : \E i \in Tasks : collected[i] = t

LEMMA TasksFinite == IsFiniteSet(Tasks) /\ Cardinality(Tasks) = NTasks /\ NTasks \in Nat
<1>1. 1 \in Int /\ NTasks \in Int /\ NTasks \in Nat
  BY TasksAssumption
<1> QED BY <1>1, FS_Interval DEF Tasks

LEMMA AllArrived ==
  ASSUME TypeOK, CollectedOnce, Seen = Tasks
  PROVE  N = NTasks /\ \A t \in Tasks : \E i \in Tasks : collected[i] = t
<1>1. collected \in Seq(Tasks) /\ N \in Nat /\ DOMAIN collected = 1..N
  BY DEF TypeOK, N
<1> DEFINE D == 1..N
<1>2. IsFiniteSet(D) /\ Cardinality(D) = N
  <2>1. 1 \in Int /\ N \in Int
    BY <1>1
  <2> QED BY <1>1, <2>1, FS_Interval
<1>3. collected \in Bijection(D, Tasks)
  BY <1>1 DEF Bijection, Injection, Surjection, IsInjective, CollectedOnce, Seen, N
<1> HIDE DEF D
<1>4. Cardinality(D) = Cardinality(Tasks)
  BY <1>2, <1>3, TasksFinite, FS_Bijection DEF ExistsBijection
<1>5. N = NTasks
  BY <1>2, <1>4, TasksFinite
<1> QED BY <1>1, <1>5 DEF Seen, Tasks, N

LEMMA ArrivalNext == TypeOK /\ CollectedOnce /\ ArrivalOK /\ [Next]_vars => ArrivalOK'
<1> SUFFICES ASSUME TypeOK, CollectedOnce, ArrivalOK, [Next]_vars PROVE ArrivalOK'
  OBVIOUS
<1>1. CASE Return
  <2>1. Seen = Tasks /\ UNCHANGED collected
    BY <1>1 DEF Return
  <2> QED BY <2>1, AllArrived DEF ArrivalOK, N
<1>2. CASE UNCHANGED <<collected, answer>>
  BY <1>2 DEF ArrivalOK, N
<1>3. CASE \/ \E t \in Tasks : Collect(t) \/ CollectError(t)
           \/ Raise \/ DispatchAgain
  BY <1>3 DEF Collect, CollectError, Raise, DispatchAgain, ArrivalOK
<1>4. CASE \/ \E t \in Tasks : Thread(t)
           \/ \E k \in Ids : PodFinishes(k)
           \/ Finished \/ UNCHANGED vars
  BY <1>2, <1>4
  DEF Thread, Start, Choose, Index, RunSucceeds, RunFails, NodeVanishes, Mark, Cache,
      CacheRaises, PodFinishes, Finished, vars, caller
<1> QED BY <1>1, <1>3, <1>4 DEF Next, Main

ReportInv == TypeOK /\ CollectedOnce /\ ArrivalOK

\* What is collected holds each task once, and all of them at the end.
THEOREM ReportInvariant == Spec => []ReportInv
<1>1. Init => CollectedOnce /\ ArrivalOK
  BY DEF Init, CollectedOnce, ArrivalOK, N
<1> QED BY <1>1, OnceNext, ArrivalNext, TypeCorrect, PTL DEF Spec, ReportInv

\* The comparison of the sort, and how many come before the j-th arrival.
Before(i, j) == \/ Position(collected[i]) < Position(collected[j])
                \/ Position(collected[i]) = Position(collected[j]) /\ i < j
Place(j)     == Cardinality({i \in 1..N : Before(i, j)})

LEMMA ReportIs == Report = [k \in 1..N |-> collected[CHOOSE j \in 1..N : Place(j) = k - 1]]
BY DEF Report, Place, Before, N

\* dict: of the tasks with one task_id the last gives the position.
LEMMA PositionIs ==
  ASSUME NEW t \in Tasks
  PROVE  Position(t) \in Tasks /\ Id[Position(t)] = Id[t]
<1> DEFINE Same == {i \in Tasks : Id[i] = Id[t]}
           Back == {NTasks - i : i \in Same}
<1>1. t \in Same /\ NTasks \in Nat
  BY TasksAssumption
<1>2. \A i \in Same : i \in Nat /\ NTasks - i \in Nat
  BY <1>1 DEF Tasks
<1>3. Back \in SUBSET Nat /\ Back # {}
  BY <1>1, <1>2
<1>4. PICK d \in Back : \A e \in Back : ~(<<e, d>> \in OpToRel(<, Nat))
  BY <1>3, NatLessThanWellFounded, WFMin
<1>5. PICK i \in Same : d = NTasks - i
  BY <1>4
<1>6. ASSUME NEW j \in Same PROVE j <= i
  <2>1. NTasks - j \in Back /\ NTasks - j \in Nat /\ d \in Nat
    BY <1>2, <1>3, <1>4
  <2>2. ~(NTasks - j < d)
    BY <1>4, <2>1 DEF OpToRel
  <2> QED BY <1>1, <1>2, <1>5, <2>2
<1>7. \E p \in Tasks : Id[p] = Id[t] /\ \A j \in Tasks : Id[j] = Id[t] => j <= p
  BY <1>5, <1>6
<1> QED BY <1>7 DEF Position

LEMMA Below ==
  ASSUME NEW n \in Nat, NEW c \in 1..n
  PROVE  /\ c - 1 \in Nat /\ 1..(c - 1) \subseteq 1..n
         /\ \A d \in 1..n : d < c => d \in 1..(c - 1)
OBVIOUS

\* A call that returns has one result of every task, and if the task_ids
\* differ, in the order of the tasks.
THEOREM ReportInOrderAlways ==
  ASSUME \A t, u \in Tasks : Id[t] = Id[u] => t = u PROVE Spec => []ReportInOrder
<1>1. ReportInv => ReportInOrder
  <2> SUFFICES ASSUME ReportInv, answer = "returned" PROVE Report = [t \in Tasks |-> t]
    BY DEF ReportInOrder
  <2>1. /\ N = NTasks /\ N \in Nat /\ Tasks = 1..N
        /\ \A i \in Tasks : collected[i] \in Tasks
        /\ \A i, j \in Tasks : collected[i] = collected[j] => i = j
        /\ \A t \in Tasks : \E i \in Tasks : collected[i] = t
    <3>1. N = NTasks /\ \A t \in Tasks : \E i \in Tasks : collected[i] = t
      BY DEF ReportInv, ArrivalOK
    <3>2. NTasks \in Nat /\ Tasks = 1..N
      BY <3>1, TasksFinite DEF Tasks
    <3>3. \A i \in 1..N : collected[i] \in Tasks
      BY DEF ReportInv, TypeOK, N
    <3>4. \A i, j \in 1..N : collected[i] = collected[j] => i = j
      BY DEF ReportInv, CollectedOnce
    <3> QED BY <3>1, <3>2, <3>3, <3>4
  <2>2. \A t \in Tasks : Position(t) = t
    BY PositionIs
  <2>3. ASSUME NEW j \in Tasks PROVE Place(j) = collected[j] - 1
    <3> DEFINE A == {i \in Tasks : Before(i, j)}
               B == 1..(collected[j] - 1)
               f == [i \in A |-> collected[i]]
    <3>1. \A i \in Tasks : Before(i, j) <=> collected[i] < collected[j]
      <4> SUFFICES ASSUME NEW i \in Tasks PROVE Before(i, j) <=> collected[i] < collected[j]
        OBVIOUS
      <4>1. /\ Position(collected[i]) = collected[i] /\ Position(collected[j]) = collected[j]
            /\ collected[i] = collected[j] => i = j
        BY <2>1, <2>2
      <4>2. i \in 1..N
        BY <2>1
      <4> QED BY <4>1, <4>2 DEF Before
    <3>2. collected[j] \in 1..N
      BY <2>1
    <3>11. /\ collected[j] - 1 \in Nat /\ B \subseteq Tasks
           /\ \A d \in Tasks : d < collected[j] => d \in B
      BY <2>1, <3>2, Below
    <3>3. f \in [A -> B]
      <4>1. ASSUME NEW i \in A PROVE collected[i] \in B
        <5>1. i \in Tasks /\ collected[i] < collected[j]
          BY <3>1
        <5>2. collected[i] \in Tasks
          BY <2>1, <5>1
        <5> HIDE DEF A, B
        <5> QED BY <3>11, <5>1, <5>2
      <4> HIDE DEF A, B
      <4> QED BY <4>1
    <3>4. \A i, k \in A : f[i] = f[k] => i = k
      BY <2>1
    <3>5. \A b \in B : \E i \in A : f[i] = b
      <4> SUFFICES ASSUME NEW b \in B PROVE \E i \in A : f[i] = b
        OBVIOUS
      <4>1. b \in Tasks /\ b < collected[j]
        BY <3>2, <3>11
      <4>2. PICK i \in Tasks : collected[i] = b
        BY <2>1, <4>1
      <4>3. i \in A
        BY <3>1, <4>1, <4>2
      <4> QED BY <4>2, <4>3
    <3>6. IsFiniteSet(B) /\ Cardinality(B) = collected[j] - 1
      <4>1. 1 \in Int /\ collected[j] - 1 \in Int
        BY <3>11
      <4> QED BY <3>11, <4>1, FS_Interval, SMTT(30)
    <3>7. A \subseteq Tasks
      OBVIOUS
    <3> HIDE DEF A, B, f
    <3>8. f \in Bijection(A, B)
      BY <3>3, <3>4, <3>5 DEF Bijection, Injection, Surjection, IsInjective
    <3>9. IsFiniteSet(A)
      BY <3>7, TasksFinite, FS_Subset
    <3>10. Cardinality(A) = Cardinality(B)
      BY <3>8, <3>9, FS_Bijection DEF ExistsBijection
    <3> QED BY <2>1, <3>6, <3>10 DEF Place, A
  <2>4. ASSUME NEW k \in Tasks
        PROVE  collected[CHOOSE j \in Tasks : Place(j) = k - 1] = k
    <3>1. \A j \in Tasks : Place(j) = k - 1 <=> collected[j] = k
      BY <2>1, <2>3, SMTT(30)
    <3>2. \E j \in Tasks : Place(j) = k - 1
      BY <2>1, <3>1
    <3> QED BY <3>1, <3>2
  <2>5. Report = [k \in Tasks |-> collected[CHOOSE j \in Tasks : Place(j) = k - 1]]
    BY <2>1, ReportIs
  <2> QED BY <2>4, <2>5
<1> QED BY <1>1, ReportInvariant, PTL
\* What holds where task_ids repeat: every task is reported once, and those of
\* one task_id stand together, where its last task has its place.
ReportSorted ==
  answer = "returned" =>
    /\ \A t \in Tasks : \E k \in Tasks : Report[k] = t
    /\ \A k, m \in Tasks : k < m => Position(Report[k]) <= Position(Report[m])

LEMMA PlaceIs ==
  ASSUME N \in Nat, \A i \in 1..N : Position(collected[i]) \in Nat
  PROVE  /\ \A j \in 1..N : Place(j) \in 0..(N - 1)
         /\ \A i, j \in 1..N : Before(i, j) => Place(i) < Place(j)
         /\ \A i, j \in 1..N : i = j \/ Before(i, j) \/ Before(j, i)
<1> DEFINE D == 1..N
           First(j) == {i \in D : Before(i, j)}
<1>1. IsFiniteSet(D) /\ Cardinality(D) = N
  <2>1. 1 \in Int /\ N \in Int
    OBVIOUS
  <2> QED BY <2>1, FS_Interval
<1>2. \A j \in D : First(j) \subseteq D /\ j \in D \ First(j)
  BY DEF Before
<1>3. \A i, j, k \in D : Before(i, j) /\ Before(j, k) => Before(i, k)
  BY DEF Before
<1>4. \A i, j \in D : i = j \/ Before(i, j) \/ Before(j, i)
  BY DEF Before
<1>5. \A j \in D : Place(j) = Cardinality(First(j))
  BY DEF Place
<1>6. \A i, j \in D : Before(i, j) => First(i) \subseteq First(j) /\ i \in First(j) \ First(i)
  BY <1>2, <1>3
<1> HIDE DEF D, First
<1>7. \A j \in D : /\ IsFiniteSet(First(j)) /\ Cardinality(First(j)) \in Nat
                   /\ Cardinality(First(j)) <= N /\ Cardinality(First(j)) # N
  <2> SUFFICES ASSUME NEW j \in D
               PROVE /\ IsFiniteSet(First(j)) /\ Cardinality(First(j)) \in Nat
                     /\ Cardinality(First(j)) <= N /\ Cardinality(First(j)) # N
    OBVIOUS
  <2>1. First(j) \subseteq D /\ First(j) # D
    BY <1>2
  <2> QED BY <1>1, <2>1, FS_Subset, FS_CardinalityType
<1>8. ASSUME NEW i \in D, NEW j \in D, Before(i, j) PROVE Place(i) < Place(j)
  <2>1. First(i) \subseteq First(j) /\ First(i) # First(j)
    BY <1>6, <1>8
  <2>2. Cardinality(First(i)) <= Cardinality(First(j)) /\ Cardinality(First(i)) # Cardinality(First(j))
    BY <1>7, <2>1, FS_Subset
  <2> QED BY <1>5, <1>7, <2>2
<1>9. \A j \in D : Place(j) \in 0..(N - 1)
  BY <1>5, <1>7
<1> QED BY <1>4, <1>8, <1>9 DEF D

\* No result is lost or doubled by the sort, and none overtakes one that
\* belongs before it, whichever task_ids the tasks have.
THEOREM ReportSortedAlways == Spec => []ReportSorted
<1>1. ReportInv => ReportSorted
  <2> SUFFICES ASSUME ReportInv, answer = "returned"
               PROVE  /\ \A t \in Tasks : \E k \in Tasks : Report[k] = t
                      /\ \A k, m \in Tasks : k < m => Position(Report[k]) <= Position(Report[m])
    BY DEF ReportSorted
  <2>1. N = NTasks /\ \A t \in Tasks : \E i \in Tasks : collected[i] = t
    BY DEF ReportInv, ArrivalOK
  <2>2. N \in Nat /\ Tasks = 1..N
    BY <2>1, TasksFinite DEF Tasks
  <2>3. \A i \in 1..N : collected[i] \in Tasks
    BY DEF ReportInv, TypeOK, N
  <2>4. \A i \in 1..N : Position(collected[i]) \in Nat
    BY <2>2, <2>3, PositionIs, SMTT(30)
  <2>5. /\ \A j \in 1..N : Place(j) \in 0..(N - 1)
        /\ \A i, j \in 1..N : Before(i, j) => Place(i) < Place(j)
        /\ \A i, j \in 1..N : i = j \/ Before(i, j) \/ Before(j, i)
    BY <2>2, <2>4, PlaceIs
  <2> DEFINE D == 1..N
             R == 0..(N - 1)
             f == [j \in D |-> Place(j)]
             at == [k \in D |-> CHOOSE j \in D : Place(j) = k - 1]
  <2>6. f \in Injection(D, R)
    <3>1. ASSUME NEW i \in D, NEW j \in D, f[i] = f[j] PROVE i = j
      BY <2>2, <2>5, <3>1
    <3> QED BY <2>5, <3>1 DEF Injection, IsInjective
  <2>7. IsFiniteSet(R) /\ Cardinality(R) = Cardinality(D)
    <3>1. 0 \in Int /\ 1 \in Int /\ N \in Int /\ N - 1 \in Int
      BY <2>2
    <3>2. Cardinality(D) = N
      BY <2>2, <3>1, FS_Interval
    <3>3. IsFiniteSet(R) /\ Cardinality(R) = IF 0 > N - 1 THEN 0 ELSE N - 1 - 0 + 1
      BY <3>1, FS_Interval
    <3> QED BY <2>2, <3>2, <3>3
  <2> HIDE DEF R, f
  <2>8. f \in Surjection(D, R)
    BY <2>6, <2>7, FS_Injection
  <2>9. \A k \in D : at[k] \in D /\ Place(at[k]) = k - 1
    <3> SUFFICES ASSUME NEW k \in D PROVE at[k] \in D /\ Place(at[k]) = k - 1
      OBVIOUS
    <3>1. k - 1 \in R
      BY <2>2 DEF R
    <3>2. \E j \in D : Place(j) = k - 1
      BY <2>8, <3>1 DEF Surjection, f
    <3> QED BY <3>2
  <2>10. \A k \in D : Report[k] = collected[at[k]]
    BY ReportIs
  <2> HIDE DEF at
  <2>11. ASSUME NEW t \in Tasks PROVE \E k \in Tasks : Report[k] = t
    <3>1. PICK j \in D : collected[j] = t
      BY <2>1, <2>2
    <3>2. Place(j) \in 0..(N - 1) /\ Place(j) + 1 \in D
      BY <2>2, <2>5
    <3>3. at[Place(j) + 1] \in D /\ Place(at[Place(j) + 1]) = Place(j)
      BY <2>2, <2>9, <3>2
    <3>4. at[Place(j) + 1] = j
      BY <2>2, <2>5, <3>2, <3>3
    <3> QED BY <2>2, <2>10, <3>1, <3>2, <3>4
  <2>12. ASSUME NEW k \in D, NEW m \in D, k < m
         PROVE  Position(Report[k]) <= Position(Report[m])
    <3>1. at[k] \in D /\ at[m] \in D /\ Place(at[k]) = k - 1 /\ Place(at[m]) = m - 1
      BY <2>9
    <3>2. at[k] # at[m] /\ ~Before(at[m], at[k])
      BY <2>2, <2>5, <2>12, <3>1, SMTT(30)
    <3>3. Before(at[k], at[m])
      BY <2>5, <3>1, <3>2
    <3>4. /\ Report[k] = collected[at[k]] /\ Report[m] = collected[at[m]]
          /\ Position(collected[at[k]]) \in Nat /\ Position(collected[at[m]]) \in Nat
      BY <2>4, <2>10, <3>1
    <3> QED BY <3>3, <3>4 DEF Before
  <2> QED BY <2>2, <2>11, <2>12
<1> QED BY <1>1, ReportInvariant, PTL
=============================================================================
