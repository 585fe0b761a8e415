-------------------------- MODULE BuildCycleProofs --------------------------
(***************************************************************************)
(* The build and what it evolves: the four properties of BuildCycle, for   *)
(* any files, scores, patience and number of cycles, processes and edits,  *)
(* and the two of Evolution, for any metrics, population and number of     *)
(* generations, where the benchmarks' objectives are nested.               *)
(***************************************************************************)
EXTENDS BuildCycle, Evolution, PickingProofs, TLAPS

-----------------------------------------------------------------------------
(* The metadata dictionary.                                                *)

LEMMA UpdateKeys ==
  ASSUME NEW m, NEW n
  PROVE  /\ DOMAIN Update(m, n) = DOMAIN m \cup DOMAIN n
         /\ \A k \in DOMAIN n : Update(m, n)[k] = n[k]
         /\ \A k \in DOMAIN m \ DOMAIN n : Update(m, n)[k] = m[k]
BY DEF Update

\* A counter that has reached the patience is flagged.
Flagged(m) == m.stalled < TunerPatience \/ Has(m, "stagnant")

LEMMA TunerKeys ==
  ASSUME NEW m, NEW gen \in Generations, "stalled" \in DOMAIN m, m.stalled \in Nat,
         m.stalled < TunerPatience
  PROVE  /\ DOMAIN m \subseteq DOMAIN Tuner(m, gen)
         /\ DOMAIN Tuner(m, gen) \subseteq DOMAIN m \cup {"boost", "stalled", "stagnant"}
         /\ \A k \in DOMAIN m \ {"boost", "stalled", "stagnant"} : Tuner(m, gen)[k] = m[k]
         /\ Tuner(m, gen).stalled = Counted(gen, m.stalled)
         /\ Flagged(Tuner(m, gen))
<1> DEFINE first  == IF Has(m, "boost") THEN [boost |-> FALSE] ELSE <<>>
           n      == IF gen = "improved" THEN 0 ELSE m.stalled + 1
           second == IF gen = "late" THEN <<>>
                     ELSE [stalled |-> n, stagnant |-> n >= TunerPatience]
           mid    == Update(m, first)
           result == Update(mid, second)
<1>1. Tuner(m, gen) = result
  BY DEF Tuner
<1>2. DOMAIN first \subseteq {"boost"}
  OBVIOUS
<1>3. gen = "late" => DOMAIN second = {}
  OBVIOUS
<1>4. gen # "late" =>
        /\ DOMAIN second = {"stalled", "stagnant"}
        /\ second["stalled"] = n /\ second["stagnant"] = (n >= TunerPatience)
  OBVIOUS
<1>5. gen # "late" => n = Counted(gen, m.stalled) /\ n \in Nat
  BY DEF Counted, Generations
<1>6. /\ DOMAIN mid = DOMAIN m \cup DOMAIN first
      /\ \A k \in DOMAIN m \ DOMAIN first : mid[k] = m[k]
  <2> HIDE DEF first
  <2>1. QED BY UpdateKeys
<1>7. /\ DOMAIN result = DOMAIN mid \cup DOMAIN second
      /\ \A k \in DOMAIN second : result[k] = second[k]
      /\ \A k \in DOMAIN mid \ DOMAIN second : result[k] = mid[k]
  <2> HIDE DEF mid, second
  <2>1. QED BY UpdateKeys
<1> HIDE DEF first, n, second, mid, result
<1>8. CASE gen = "late"
  <2>1. result["stalled"] = m["stalled"]
    BY <1>2, <1>3, <1>6, <1>7, <1>8
  <2>2. QED
    BY <1>1, <1>2, <1>3, <1>6, <1>7, <1>8, <2>1 DEF Counted, Flagged
<1>9. CASE gen # "late"
  <2>1. result["stalled"] = n /\ result["stagnant"] = (n >= TunerPatience)
    BY <1>4, <1>7, <1>9
  <2>2. Flagged(result)
    <3>1. n < TunerPatience \/ n >= TunerPatience
      BY <1>5, <1>9, CycleAssumption
    <3>2. CASE n < TunerPatience
      BY <2>1, <3>2 DEF Flagged
    <3>3. CASE n >= TunerPatience
      <4>1. result["stagnant"]
        BY <2>1, <3>3, Zenon
      <4>2. "stagnant" \in DOMAIN result
        BY <1>4, <1>7, <1>9
      <4>3. QED
        BY <4>1, <4>2, Zenon DEF Flagged, Has
    <3>4. QED
      BY <3>1, <3>2, <3>3
  <2>3. QED
    BY <1>1, <1>2, <1>4, <1>5, <1>6, <1>7, <1>9, <2>1, <2>2
<1>10. QED
  BY <1>8, <1>9

\* The tuner's copy is merged last and has every key.
Merges(r, m, d, t) ==
  /\ DOMAIN t \subseteq DOMAIN r /\ \A k \in DOMAIN t : r[k] = t[k]
  /\ DOMAIN r = DOMAIN m \cup DOMAIN d \cup DOMAIN t
  /\ \A k \in DOMAIN d \ DOMAIN t : r[k] = d[k]
  /\ \A k \in DOMAIN m \ (DOMAIN d \cup DOMAIN t) : r[k] = m[k]

LEMMA MergedKeys ==
  ASSUME NEW m, NEW d, NEW t
  PROVE  Merges(Merged(m, d, t), m, d, t)
<1> DEFINE mid == Update(m, d)
<1>1. /\ DOMAIN mid = DOMAIN m \cup DOMAIN d
      /\ \A k \in DOMAIN d : mid[k] = d[k]
      /\ \A k \in DOMAIN m \ DOMAIN d : mid[k] = m[k]
  BY UpdateKeys
<1> HIDE DEF mid
<1>2. /\ DOMAIN Update(mid, t) = DOMAIN mid \cup DOMAIN t
      /\ \A k \in DOMAIN t : Update(mid, t)[k] = t[k]
      /\ \A k \in DOMAIN mid \ DOMAIN t : Update(mid, t)[k] = mid[k]
  BY UpdateKeys
<1>3. Merged(m, d, t) = Update(mid, t)
  BY DEF Merged, mid
<1>4. QED
  BY <1>1, <1>2, <1>3 DEF Merges

LEMMA JoinKeys == Join => Merges(meta', meta, decided, tuned)
BY MergedKeys DEF Join

LEMMA BeginKeys ==
  ASSUME BeginCycle
  PROVE  /\ DOMAIN meta' = DOMAIN meta \cup {"targets"}
         /\ \A k \in DOMAIN meta \ {"targets"} : meta'[k] = meta[k]
<1> DEFINE changed == Changed(meta.fingerprints, Snapshot)
           x == IF changed = {} THEN Files ELSE changed
           n == [targets |-> x]
<1>1. meta' = Update(meta, n)
  BY DEF BeginCycle
<1>2. DOMAIN n = {"targets"}
  OBVIOUS
<1> HIDE DEF n
<1>3. /\ DOMAIN meta' = DOMAIN meta \cup DOMAIN n
      /\ \A k \in DOMAIN n : meta'[k] = n[k]
      /\ \A k \in DOMAIN meta \ DOMAIN n : meta'[k] = meta[k]
  <2> HIDE DEF x
  <2>1. /\ DOMAIN Update(meta, n) = DOMAIN meta \cup DOMAIN n
        /\ \A k \in DOMAIN n : Update(meta, n)[k] = n[k]
        /\ \A k \in DOMAIN meta \ DOMAIN n : Update(meta, n)[k] = meta[k]
    BY UpdateKeys
  <2>2. QED
    BY <1>1, <2>1, Zenon
<1>4. QED
  BY <1>2, <1>3

LEMMA ScanKeys ==
  ASSUME NEW score, NEW read, Scan(score, read)
  PROVE  /\ DOMAIN meta' = DOMAIN meta \cup {"scanned", "score"}
         /\ \A k \in DOMAIN meta \ {"scanned", "score"} : meta'[k] = meta[k]
         /\ meta'["scanned"] = [f \in read |-> Content(version[f])]
<1> DEFINE x == [f \in read |-> Content(version[f])]
           n == [scanned |-> x, score |-> score]
<1>1. meta' = Update(meta, n)
  BY DEF Scan
<1>2. DOMAIN n = {"scanned", "score"} /\ n["scanned"] = x
  OBVIOUS
<1> HIDE DEF n
<1>3. /\ DOMAIN meta' = DOMAIN meta \cup DOMAIN n
      /\ \A k \in DOMAIN n : meta'[k] = n[k]
      /\ \A k \in DOMAIN meta \ DOMAIN n : meta'[k] = meta[k]
  <2> HIDE DEF x
  <2>1. /\ DOMAIN Update(meta, n) = DOMAIN meta \cup DOMAIN n
        /\ \A k \in DOMAIN n : Update(meta, n)[k] = n[k]
        /\ \A k \in DOMAIN meta \ DOMAIN n : Update(meta, n)[k] = meta[k]
    BY UpdateKeys
  <2>2. QED
    BY <1>1, <2>1, Zenon
<1>4. meta'["scanned"] = x
  <2> HIDE DEF x
  <2>1. QED BY <1>2, <1>3
<1>5. /\ DOMAIN meta' = DOMAIN meta \cup {"scanned", "score"}
      /\ \A k \in DOMAIN meta \ {"scanned", "score"} : meta'[k] = meta[k]
  BY <1>2, <1>3
<1>6. QED
  BY <1>4, <1>5

-----------------------------------------------------------------------------
(* The stagnation counter.                                                 *)

\* Before the stages are merged the counter is that of the manifest; after it
\* is what the gen made of it, and once synthesis was not called it is
\* below the patience.
CounterOK ==
  /\ manifest.stalled \in Nat /\ manifest.stalled < TunerPatience
  /\ "stalled" \in DOMAIN manifest
  /\ pc # "idle" => "stalled" \in DOMAIN meta
  /\ pc \in {"cycle", "scanning", "forked", "persisted"} => meta.stalled = manifest.stalled
  /\ pc \in {"merged", "synthesized", "checked", "persisting"} =>
       meta.stalled = Counted(record, manifest.stalled)
  /\ pc = "merged" => Flagged(meta)
  /\ pc \in {"synthesized", "checked", "persisting"} => meta.stalled < TunerPatience

TunedOK ==
  /\ pc # "forked" => tuned = Pending
  /\ tuned # Pending =>
       /\ "stalled" \in DOMAIN tuned
       /\ tuned.stalled = Counted(record, manifest.stalled)
       /\ Flagged(tuned)

CountInv == CounterOK /\ TunedOK

LEMMA CountedNat == ASSUME NEW r, NEW n \in Nat PROVE Counted(r, n) \in Nat
<1>1. CASE r = "improved"
  BY <1>1 DEF Counted
<1>2. CASE r = "stalled"
  <2>1. Counted(r, n) = n + 1
    BY <1>2 DEF Counted
  <2>2. QED
    BY <2>1
<1>3. CASE r \notin {"improved", "stalled"}
  <2>1. Counted(r, n) = n
    BY <1>3 DEF Counted
  <2>2. QED
    BY <2>1
<1>4. QED
  BY <1>1, <1>2, <1>3

LEMMA CountInit == Init => CountInv
<1> SUFFICES ASSUME Init PROVE CountInv
  OBVIOUS
<1>1. /\ manifest.stalled = 0 /\ "stalled" \in DOMAIN manifest
      /\ pc = "idle" /\ tuned = Pending
  BY DEF Init, FreshState
<1>2. QED
  BY <1>1, CycleAssumption DEF CountInv, CounterOK, TunedOK

count_vars == <<manifest, pc, meta, tuned, record>>

LEMMA CountNext == CountInv /\ [Next]_vars => CountInv'
<1> SUFFICES ASSUME CountInv, [Next]_vars PROVE CountInv'
  OBVIOUS
<1> USE DEF CountInv, CounterOK, TunedOK, Flagged, Has
<1>1. CASE UNCHANGED count_vars
  BY <1>1 DEF count_vars
<1>2. CASE Leave /\ UNCHANGED manifest
  BY <1>2 DEF Leave
<1>3. CASE StartRun
  BY <1>3 DEF StartRun, disk
<1>4. CASE BeginCycle
  <2>1. "stalled" \in DOMAIN meta' /\ meta'["stalled"] = meta["stalled"]
    BY <1>4, BeginKeys DEF BeginCycle
  <2>2. QED
    BY <1>4, <2>1 DEF BeginCycle, disk
<1>5. ASSUME NEW score \in Scores, NEW read \in SUBSET Files, Scan(score, read) PROVE CountInv'
  <2>1. "stalled" \in DOMAIN meta' /\ meta'["stalled"] = meta["stalled"]
    BY <1>5, ScanKeys DEF Scan
  <2>2. QED
    BY <1>5, <2>1 DEF Scan, disk
<1>6. ASSUME NEW gen \in Generations, Tune(gen) PROVE CountInv'
  <2>1. meta.stalled = manifest.stalled /\ "stalled" \in DOMAIN meta
    BY <1>6 DEF Tune
  <2> DEFINE t == Tuner(meta, gen)
  <2>2. /\ "stalled" \in DOMAIN t /\ Flagged(t)
        /\ t.stalled = Counted(gen, manifest.stalled)
    BY <2>1, TunerKeys
  <2> HIDE DEF t
  <2>3. tuned' = t /\ record' = gen
    BY <1>6 DEF Tune, t
  <2>4. QED
    BY <1>6, <2>2, <2>3 DEF Tune, disk
<1>7. CASE Join
  <2>1. /\ "stalled" \in DOMAIN tuned /\ Flagged(tuned)
        /\ tuned.stalled = Counted(record, manifest.stalled)
    BY <1>7 DEF Join
  <2>2. DOMAIN tuned \subseteq DOMAIN meta' /\ \A k \in DOMAIN tuned : meta'[k] = tuned[k]
    BY <1>7, JoinKeys DEF Merges
  <2>3. "stalled" \in DOMAIN meta' /\ meta'["stalled"] = tuned["stalled"]
    BY <2>1, <2>2
  <2>4. Flagged(meta')
    <3>1. CASE tuned.stalled < TunerPatience
      BY <2>3, <3>1
    <3>2. CASE Has(tuned, "stagnant")
      BY <2>2, <3>2, Zenon
    <3>3. QED
      BY <2>1, <3>1, <3>2
  <2>5. QED
    BY <1>7, <2>1, <2>3, <2>4 DEF Join, disk
<1>8. CASE NoSynthesis
  <2>1. meta.stalled < TunerPatience
    BY <1>8 DEF NoSynthesis, Signalled
  <2>2. QED
    BY <1>8, <2>1 DEF NoSynthesis, disk, memory
<1>9. CASE BoundaryHolds
  BY <1>9 DEF BoundaryHolds, disk
<1>10. CASE BeginPersist
  BY <1>10 DEF BeginPersist, memory
<1>11. CASE EndPersist
  <2>1. manifest'.stalled = meta.stalled /\ "stalled" \in DOMAIN manifest'
    BY <1>11 DEF EndPersist, StateOf
  <2>2. meta.stalled \in Nat
    BY <1>11, CountedNat DEF EndPersist
  <2>3. QED
    BY <1>11, <2>1, <2>2 DEF EndPersist, memory
<1>12. CASE NextCycle
  BY <1>12 DEF NextCycle, disk
<1>13. CASE StartFails \/ Decide \/ (\E f \in Files : Compile(f) \/ Edit(f)) \/ Finished
  BY <1>1, <1>13 DEF StartFails, Decide, Compile, Edit, Finished, disk, memory, vars, count_vars
<1>14. CASE SynthesisRaises \/ BoundaryBreached \/ EndRun \/ Crash
  BY <1>2, <1>14 DEF SynthesisRaises, BoundaryBreached, EndRun, Crash, disk
<1>15. CASE UNCHANGED vars
  BY <1>1, <1>15 DEF vars, disk, memory, count_vars
<1>16. QED
  BY <1>3, <1>4, <1>5, <1>6, <1>7, <1>8, <1>9, <1>10, <1>11, <1>12, <1>13, <1>14, <1>15
     DEF Next, RunBuild

\* The invariant of the counter: where it is on its way from the manifest over
\* the tuner's copy back to the manifest, and that no stagnation gets there.
THEOREM CountInvariant == Spec => []CountInv
BY CountInit, CountNext, PTL DEF Spec

\* No stagnation is ever persisted.
THEOREM StagnationNeverPersistedAlways == Spec => []StagnationNeverPersisted
<1>1. CountInv => StagnationNeverPersisted
  BY DEF CountInv, CounterOK, StagnationNeverPersisted
<1>2. QED
  BY <1>1, CountInvariant, PTL

\* The counter persisted is the one persisted before, moved on by the last
\* gen, over all merges and processes.
THEOREM TunerStateAccumulates == Spec => TunerStateIsCumulative
<1> DEFINE Step == pc = "persisting" /\ pc' = "persisted" =>
                     manifest'.stalled = Counted(record, manifest.stalled)
<1>1. CountInv /\ [Next]_vars => [Step]_vars
  <2> SUFFICES ASSUME CountInv, Next, pc = "persisting", pc' = "persisted"
               PROVE  manifest'.stalled = Counted(record, manifest.stalled)
    OBVIOUS
  <2>1. EndPersist
    BY DEF Next, RunBuild, StartRun, StartFails, BeginCycle, Scan, Decide, Tune, Join,
           SynthesisRaises, NoSynthesis, BoundaryHolds, BoundaryBreached, Compile, BeginPersist,
           NextCycle, EndRun, Edit, Crash, Finished, Leave
  <2>2. manifest'.stalled = meta.stalled
    BY <2>1 DEF EndPersist, StateOf
  <2>3. QED
    BY <2>2 DEF CountInv, CounterOK
<1>2. QED
  BY <1>1, CountInvariant, PTL DEF Spec, TunerStateIsCumulative
-----------------------------------------------------------------------------
(* The score.                                                              *)

NoHistory(m) == "trajectory" \in DOMAIN m /\ m.trajectory = <<>> /\ ~Has(m, "anomaly")

\* The score history is empty wherever a decision starts from.
ScoreInv ==
  /\ NoHistory(manifest)
  /\ pc # "idle" => NoHistory(meta)
  /\ pc = "idle" => meta = None
  /\ decided # Pending => ~Has(decided, "anomaly")
  /\ tuned # Pending => NoHistory(tuned)

\* One score is no plateau.
LEMMA DecisionCalm ==
  ASSUME NEW m, m.trajectory = <<>>
  PROVE  ~Has(DecisionTree(m), "anomaly")
<1> DEFINE n == [trajectory |-> KeepLast(Append(m.trajectory, m.score)),
                 stall      |-> IF Alarm(m) THEN 0 ELSE Stalls(m),
                 anomaly    |-> Alarm(m)]
           mid == Update(m, IF Alarm(m) THEN [boost |-> TRUE] ELSE <<>>)
<1>1. ~Alarm(m)
  <2>1. Append(m.trajectory, m.score) = <<m.score>>
    OBVIOUS
  <2>2. KeepLast(<<m.score>>) = <<m.score>>
    BY CycleAssumption DEF KeepLast
  <2>3. ~Flat(<<m.score>>)
    BY DEF Flat
  <2>4. QED
    BY <2>1, <2>2, <2>3, CycleAssumption DEF Alarm, Stalls
<1>2. "anomaly" \in DOMAIN n /\ n["anomaly"] = Alarm(m)
  <2> DEFINE x == KeepLast(Append(m.trajectory, m.score))
             y == IF Alarm(m) THEN 0 ELSE Stalls(m)
             z == Alarm(m)
  <2>1. n = [trajectory |-> x, stall |-> y, anomaly |-> z]
    OBVIOUS
  <2> HIDE DEF x, y, z
  <2>2. "anomaly" \in DOMAIN [trajectory |-> x, stall |-> y, anomaly |-> z]
    OBVIOUS
  <2>3. [trajectory |-> x, stall |-> y, anomaly |-> z]["anomaly"] = z
    OBVIOUS
  <2>4. QED
    BY <2>1, <2>2, <2>3 DEF z
<1> HIDE DEF n, mid
<1>3. Update(mid, n)["anomaly"] = n["anomaly"]
  <2>1. /\ DOMAIN Update(mid, n) = DOMAIN mid \cup DOMAIN n
        /\ \A k \in DOMAIN n : Update(mid, n)[k] = n[k]
        /\ \A k \in DOMAIN mid \ DOMAIN n : Update(mid, n)[k] = mid[k]
    BY UpdateKeys
  <2>2. QED
    BY <1>2, <2>1
<1>4. DecisionTree(m) = Update(mid, n)
  BY DEF DecisionTree, n, mid
<1>5. QED
  BY <1>1, <1>2, <1>3, <1>4 DEF Has

LEMMA ScoreInit == Init => ScoreInv
BY DEF Init, FreshState, ScoreInv, NoHistory, Has, None, Pending

LEMMA ScoreNext == CountInv /\ ScoreInv /\ [Next]_vars => ScoreInv'
<1> SUFFICES ASSUME CountInv, ScoreInv, [Next]_vars PROVE ScoreInv'
  OBVIOUS
<1>1. CASE UNCHANGED <<manifest, pc, meta, decided, tuned>>
  BY <1>1 DEF ScoreInv, NoHistory, Has
<1>2. CASE Leave /\ UNCHANGED manifest
  BY <1>2 DEF Leave, ScoreInv, NoHistory, Has
<1>3. CASE StartRun
  BY <1>3 DEF StartRun, disk, ScoreInv, NoHistory, Has
\* A step that keeps the score history and the flag, and drops or keeps the futures.
<1>4. ASSUME pc # "idle", pc' # "idle", manifest' = manifest, UNCHANGED <<decided, tuned>>,
             "trajectory" \in DOMAIN meta', meta'["trajectory"] = meta["trajectory"],
             Has(meta', "anomaly") <=> Has(meta, "anomaly")
      PROVE  ScoreInv'
  BY <1>4 DEF ScoreInv, NoHistory, Has
<1>5. CASE BeginCycle
  <2>1. /\ "trajectory" \in DOMAIN meta' /\ meta'["trajectory"] = meta["trajectory"]
        /\ Has(meta', "anomaly") <=> Has(meta, "anomaly")
    BY <1>5, BeginKeys DEF BeginCycle, ScoreInv, NoHistory, Has
  <2>2. QED
    BY <1>4, <1>5, <2>1 DEF BeginCycle, disk
<1>6. ASSUME NEW score \in Scores, NEW read \in SUBSET Files, Scan(score, read) PROVE ScoreInv'
  <2>1. /\ "trajectory" \in DOMAIN meta' /\ meta'["trajectory"] = meta["trajectory"]
        /\ Has(meta', "anomaly") <=> Has(meta, "anomaly")
    BY <1>6, ScanKeys DEF Scan, ScoreInv, NoHistory, Has
  <2>2. QED
    BY <1>4, <1>6, <2>1 DEF Scan, disk
<1>7. CASE Decide
  <2>1. ~Has(decided', "anomaly")
    BY <1>7, DecisionCalm DEF Decide, ScoreInv, NoHistory
  <2>2. QED
    BY <1>7, <2>1 DEF Decide, disk, ScoreInv, NoHistory, Has
<1>8. ASSUME NEW gen \in Generations, Tune(gen) PROVE ScoreInv'
  <2>1. /\ "stalled" \in DOMAIN meta /\ meta.stalled \in Nat /\ meta.stalled < TunerPatience
    BY <1>8 DEF Tune, CountInv, CounterOK
  <2>2. /\ DOMAIN meta \subseteq DOMAIN tuned'
        /\ DOMAIN tuned' \subseteq DOMAIN meta \cup {"boost", "stalled", "stagnant"}
        /\ \A k \in DOMAIN meta \ {"boost", "stalled", "stagnant"} : tuned'[k] = meta[k]
    BY <1>8, <2>1, TunerKeys DEF Tune
  <2>3. NoHistory(meta)
    BY <1>8 DEF Tune, ScoreInv
  <2>4. "trajectory" \in DOMAIN tuned' /\ tuned'["trajectory"] = <<>>
    BY <2>2, <2>3 DEF NoHistory
  <2>5. ~Has(tuned', "anomaly")
    BY <2>2, <2>3 DEF NoHistory, Has
  <2>6. QED
    BY <1>8, <2>4, <2>5 DEF Tune, disk, ScoreInv, NoHistory, Has
<1>9. CASE Join
  <2>1. /\ NoHistory(meta) /\ NoHistory(tuned) /\ ~Has(decided, "anomaly")
    BY <1>9 DEF Join, ScoreInv
  <2>2. /\ DOMAIN tuned \subseteq DOMAIN meta' /\ \A k \in DOMAIN tuned : meta'[k] = tuned[k]
        /\ DOMAIN meta' = DOMAIN meta \cup DOMAIN decided \cup DOMAIN tuned
        /\ \A k \in DOMAIN decided \ DOMAIN tuned : meta'[k] = decided[k]
        /\ \A k \in DOMAIN meta \ (DOMAIN decided \cup DOMAIN tuned) : meta'[k] = meta[k]
    BY <1>9, JoinKeys DEF Merges
  <2>3. "trajectory" \in DOMAIN meta' /\ meta'["trajectory"] = <<>>
    BY <2>1, <2>2 DEF NoHistory
  <2>4. ~Has(meta', "anomaly")
    <3>1. CASE "anomaly" \in DOMAIN tuned
      BY <2>1, <2>2, <3>1 DEF NoHistory, Has
    <3>2. CASE "anomaly" \in DOMAIN decided \ DOMAIN tuned
      BY <2>1, <2>2, <3>2 DEF Has
    <3>3. CASE "anomaly" \in DOMAIN meta \ (DOMAIN decided \cup DOMAIN tuned)
      BY <2>1, <2>2, <3>3 DEF NoHistory, Has
    <3>4. QED
      BY <2>2, <3>1, <3>2, <3>3 DEF Has
  <2>5. QED
    BY <1>9, <2>3, <2>4 DEF Join, disk, ScoreInv, NoHistory, Has
<1>10. CASE EndPersist
  <2>1. "trajectory" \in DOMAIN manifest' /\ manifest'["trajectory"] = <<>>
    BY <1>10 DEF EndPersist, StateOf, ScoreInv, NoHistory
  <2>2. ~Has(manifest', "anomaly")
    BY <1>10 DEF EndPersist, StateOf, Has
  <2>3. QED
    BY <1>10, <2>1, <2>2 DEF EndPersist, memory, ScoreInv, NoHistory, Has
<1>11. CASE BoundaryHolds
  BY <1>11 DEF BoundaryHolds, disk, ScoreInv, NoHistory, Has
<1>12. CASE NoSynthesis \/ BeginPersist
  BY <1>12 DEF NoSynthesis, BeginPersist, disk, memory, ScoreInv, NoHistory, Has
<1>13. CASE NextCycle
  BY <1>13 DEF NextCycle, disk, ScoreInv, NoHistory, Has
<1>14. CASE StartFails \/ (\E f \in Files : Compile(f) \/ Edit(f)) \/ Finished
  BY <1>1, <1>14 DEF StartFails, Compile, Edit, Finished, disk, memory, vars
<1>15. CASE SynthesisRaises \/ BoundaryBreached \/ EndRun \/ Crash
  BY <1>2, <1>15 DEF SynthesisRaises, BoundaryBreached, EndRun, Crash, disk
<1>16. CASE UNCHANGED vars
  BY <1>1, <1>16 DEF vars, disk, memory
<1>17. QED
  BY <1>3, <1>5, <1>6, <1>7, <1>8, <1>9, <1>10, <1>11, <1>12, <1>13, <1>14, <1>15, <1>16
     DEF Next, RunBuild

\* No plateau of the score is ever found, for any patience, window, scores,
\* cycles and processes.
THEOREM ScoreHistoryIsUndoneAlways == Spec => []ScoreHistoryIsUndone
<1>1. CountInv /\ ScoreInv /\ [Next]_vars => ScoreInv'
  BY ScoreNext
<1>2. ScoreInv => ScoreHistoryIsUndone
  BY DEF ScoreInv, ScoreHistoryIsUndone, NoHistory, Has, None, Pending
<1>3. QED
  BY <1>1, <1>2, ScoreInit, CountInvariant, PTL DEF Spec
-----------------------------------------------------------------------------
(* The files.                                                              *)

Numbered == [Files -> Int]

\* Fingerprints of contents no newer than the given versions.
Describes(fp, upto) ==
  \A f \in DOMAIN fp : f \in Files /\ fp[f] \in {Content(v) : v \in 0..upto[f]}

\* What the scan of this cycle may have seen of a file: once it is compiled,
\* nothing newer than its output.
Upto ==
  [f \in Files |-> IF pc \in {"checked", "persisting", "persisted"} /\ f \notin left
                   THEN outputs[f] ELSE version[f]]

AfterScan == {"forked", "merged", "synthesized", "checked", "persisting", "persisted"}

FilesOK ==
  /\ version \in Numbered /\ outputs \in Numbered
  /\ \A f \in Files : outputs[f] <= version[f] /\ version[f] >= 0
  /\ left \subseteq Files
  /\ pc \in {"persisting", "persisted"} => left = {}

RememberedOK ==
  /\ "fingerprints" \in DOMAIN manifest /\ Describes(manifest.fingerprints, outputs)
  /\ pc # "idle" => "fingerprints" \in DOMAIN meta /\ Describes(meta.fingerprints, outputs)

ScannedOK ==
  /\ pc \in AfterScan => "scanned" \in DOMAIN meta /\ Describes(meta.scanned, Upto)
  /\ tuned # Pending =>
       /\ {"fingerprints", "scanned"} \subseteq DOMAIN tuned
       /\ tuned.fingerprints = meta.fingerprints /\ tuned.scanned = meta.scanned

ScanInv == FilesOK /\ RememberedOK /\ ScannedOK

LEMMA DescribesGrows ==
  ASSUME NEW fp, NEW a \in Numbered, NEW b \in Numbered,
         \A f \in Files : a[f] <= b[f], Describes(fp, a)
  PROVE  Describes(fp, b)
<1> SUFFICES ASSUME NEW f \in DOMAIN fp
             PROVE  f \in Files /\ fp[f] \in {Content(v) : v \in 0..b[f]}
  BY DEF Describes
<1>1. f \in Files
  BY DEF Describes
<1>2. PICK v \in 0..a[f] : fp[f] = Content(v)
  BY DEF Describes
<1>3. v \in 0..b[f]
  BY <1>1, <1>2 DEF Numbered
<1>4. QED
  BY <1>1, <1>2, <1>3

LEMMA UptoNumbered == FilesOK => Upto \in Numbered
BY DEF FilesOK, Upto, Numbered

LEMMA ScanInit == Init => ScanInv
<1> SUFFICES ASSUME Init PROVE ScanInv
  OBVIOUS
<1>1. "fingerprints" \in DOMAIN manifest /\ Describes(manifest.fingerprints, outputs)
  BY DEF Init, FreshState, Describes
<1>2. QED
  BY <1>1 DEF Init, ScanInv, FilesOK, RememberedOK, ScannedOK, AfterScan, Numbered

\* The actions that touch neither files nor the compiler.
Quiet == UNCHANGED <<version, outputs>> /\ left' = {} /\ pc' = "idle"

LEMMA FilesNext == FilesOK /\ [Next]_vars => FilesOK'
<1> SUFFICES ASSUME FilesOK, [Next]_vars PROVE FilesOK'
  OBVIOUS
<1> USE DEF FilesOK, Numbered
<1>1. ASSUME NEW f \in Files, Edit(f) PROVE FilesOK'
  BY <1>1 DEF Edit, memory
<1>2. ASSUME NEW f \in Files, Compile(f) PROVE FilesOK'
  BY <1>2 DEF Compile
<1>3. CASE Quiet
  BY <1>3 DEF Quiet
<1>4. ASSUME UNCHANGED <<version, outputs, left>>,
             pc' \in {"persisting", "persisted"} => pc \in {"persisting", "persisted"} \/ left = {}
      PROVE  FilesOK'
  BY <1>4
<1>5. CASE BoundaryHolds
  BY <1>5 DEF BoundaryHolds, disk
<1>6. CASE SynthesisRaises \/ BoundaryBreached \/ EndRun \/ Crash
  BY <1>3, <1>6 DEF SynthesisRaises, BoundaryBreached, EndRun, Crash, Leave, Quiet, disk
<1>7. CASE StartRun \/ StartFails \/ BeginCycle
  BY <1>4, <1>7 DEF StartRun, StartFails, BeginCycle, disk, memory
<1>8. CASE Decide \/ Join \/ NoSynthesis
  BY <1>4, <1>8 DEF Decide, Join, NoSynthesis, disk, memory
<1>9. CASE (\E score \in Scores, read \in SUBSET Files : Scan(score, read))
           \/ (\E gen \in Generations : Tune(gen))
  BY <1>4, <1>9 DEF Scan, Tune, disk
<1>10. CASE BeginPersist \/ EndPersist \/ NextCycle
  BY <1>4, <1>10 DEF BeginPersist, EndPersist, NextCycle, Compiled, disk, memory
<1>11. CASE Finished \/ UNCHANGED vars
  BY <1>4, <1>11 DEF Finished, vars, disk, memory
<1>12. QED
  BY <1>1, <1>2, <1>5, <1>6, <1>7, <1>8, <1>9, <1>10, <1>11 DEF Next, RunBuild

\* Outputs only get newer.
LEMMA OutputsGrow ==
  FilesOK /\ [Next]_vars => \A f \in Files : outputs[f] <= outputs'[f]
<1> SUFFICES ASSUME FilesOK, [Next]_vars, NEW g \in Files PROVE outputs[g] <= outputs'[g]
  OBVIOUS
<1> USE DEF FilesOK, Numbered
<1>1. ASSUME NEW f \in Files, Compile(f) PROVE outputs[g] <= outputs'[g]
  BY <1>1 DEF Compile
<1>2. CASE outputs' = outputs
  BY <1>2
<1>3. CASE \/ StartRun \/ StartFails \/ BeginCycle
           \/ (\E score \in Scores, read \in SUBSET Files : Scan(score, read))
           \/ Decide \/ (\E gen \in Generations : Tune(gen))
           \/ Join \/ SynthesisRaises \/ NoSynthesis
  BY <1>2, <1>3 DEF StartRun, StartFails, BeginCycle, Scan, Decide, Tune, Join,
                    SynthesisRaises, NoSynthesis, disk
<1>4. CASE \/ BoundaryHolds \/ BoundaryBreached \/ BeginPersist \/ EndPersist
           \/ NextCycle \/ EndRun \/ (\E f \in Files : Edit(f)) \/ Crash \/ Finished
           \/ UNCHANGED vars
  BY <1>2, <1>4 DEF BoundaryHolds, BoundaryBreached, BeginPersist, EndPersist, NextCycle,
                    EndRun, Edit, Crash, Finished, disk, vars
<1>5. QED
  BY <1>1, <1>3, <1>4 DEF Next, RunBuild

\* A step after the scan, when it stays in the cycle, hides nothing that was seen.
LEMMA UptoGrows ==
  FilesOK /\ [Next]_vars /\ pc \in AfterScan /\ pc' \in AfterScan
    => \A f \in Files : Upto[f] <= Upto'[f]
<1> SUFFICES ASSUME FilesOK, [Next]_vars, pc \in AfterScan, pc' \in AfterScan, NEW g \in Files
             PROVE  Upto[g] <= Upto'[g]
  OBVIOUS
<1> USE DEF FilesOK, Numbered, AfterScan
<1>1. ASSUME NEW f \in Files, Compile(f) PROVE Upto[g] <= Upto'[g]
  BY <1>1 DEF Compile, Upto
<1>2. ASSUME NEW f \in Files, Edit(f) PROVE Upto[g] <= Upto'[g]
  BY <1>2 DEF Edit, Upto, memory
<1>3. CASE BoundaryHolds
  BY <1>3 DEF BoundaryHolds, disk, Upto
<1>4. CASE Decide \/ Join \/ NoSynthesis \/ (\E gen \in Generations : Tune(gen))
  BY <1>4 DEF Decide, Join, NoSynthesis, Tune, disk, memory, Upto
<1>5. CASE BeginPersist \/ EndPersist
  BY <1>5 DEF BeginPersist, EndPersist, memory, Upto
<1>6. CASE Finished \/ UNCHANGED vars
  BY <1>6 DEF Finished, vars, disk, memory, Upto
<1>7. QED
  BY <1>1, <1>2, <1>3, <1>4, <1>5, <1>6
     DEF Next, RunBuild, StartRun, StartFails, BeginCycle, Scan, SynthesisRaises,
         BoundaryBreached, NextCycle, EndRun, Crash, Leave

LEMMA RememberedNext == ScanInv /\ [Next]_vars => RememberedOK'
<1> SUFFICES ASSUME ScanInv, [Next]_vars PROVE RememberedOK'
  OBVIOUS
<1>1. FilesOK /\ RememberedOK /\ ScannedOK
  BY DEF ScanInv
<1>2. Describes(manifest.fingerprints, outputs')
  <2> DEFINE fp == manifest.fingerprints
  <2>1. Describes(fp, outputs) /\ \A f \in Files : outputs[f] <= outputs'[f]
    BY <1>1, OutputsGrow DEF RememberedOK
  <2>2. outputs \in Numbered /\ outputs' \in Numbered
    BY <1>1, FilesNext DEF FilesOK
  <2> HIDE DEF fp
  <2>3. Describes(fp, outputs')
    BY <2>1, <2>2, DescribesGrows
  <2>4. QED
    BY <2>3 DEF fp
<1>3. pc # "idle" => Describes(meta.fingerprints, outputs')
  <2> SUFFICES ASSUME pc # "idle" PROVE Describes(meta.fingerprints, outputs')
    OBVIOUS
  <2> DEFINE fp == meta.fingerprints
  <2>1. Describes(fp, outputs) /\ \A f \in Files : outputs[f] <= outputs'[f]
    BY <1>1, OutputsGrow DEF RememberedOK
  <2>2. outputs \in Numbered /\ outputs' \in Numbered
    BY <1>1, FilesNext DEF FilesOK
  <2> HIDE DEF fp
  <2>3. Describes(fp, outputs')
    BY <2>1, <2>2, DescribesGrows
  <2>4. QED
    BY <2>3 DEF fp
<1>4. ASSUME manifest' = manifest,
             pc' # "idle" => /\ pc # "idle" /\ "fingerprints" \in DOMAIN meta'
                             /\ meta'.fingerprints = meta.fingerprints
      PROVE  RememberedOK'
  BY <1>1, <1>2, <1>3, <1>4 DEF RememberedOK
<1>5. CASE StartRun
  BY <1>1, <1>2, <1>5 DEF StartRun, disk, RememberedOK
<1>6. CASE BeginCycle
  <2>1. pc # "idle" /\ "fingerprints" \in DOMAIN meta /\ Describes(meta.fingerprints, outputs)
    BY <1>1, <1>6 DEF BeginCycle, RememberedOK
  <2>2. "fingerprints" \in DOMAIN meta' /\ meta'["fingerprints"] = meta["fingerprints"]
    BY <1>6, <2>1, BeginKeys
  <2>3. manifest' = manifest
    BY <1>6 DEF BeginCycle, disk
  <2>4. QED
    BY <1>4, <2>1, <2>2, <2>3
<1>7. ASSUME NEW score \in Scores, NEW read \in SUBSET Files, Scan(score, read)
      PROVE  RememberedOK'
  <2>1. pc # "idle" /\ "fingerprints" \in DOMAIN meta
    BY <1>1, <1>7 DEF Scan, RememberedOK
  <2>2. "fingerprints" \in DOMAIN meta' /\ meta'["fingerprints"] = meta["fingerprints"]
    BY <1>7, <2>1, ScanKeys
  <2>3. manifest' = manifest /\ pc' = "forked"
    BY <1>7 DEF Scan, disk
  <2>4. QED
    BY <1>4, <2>1, <2>2, <2>3
<1>8. CASE Join
  <2>1. /\ pc # "idle" /\ "fingerprints" \in DOMAIN tuned
        /\ tuned["fingerprints"] = meta["fingerprints"]
    BY <1>1, <1>8 DEF Join, ScannedOK
  <2>2. DOMAIN tuned \subseteq DOMAIN meta' /\ \A k \in DOMAIN tuned : meta'[k] = tuned[k]
    BY <1>8, JoinKeys DEF Merges
  <2>3. "fingerprints" \in DOMAIN meta' /\ meta'["fingerprints"] = meta["fingerprints"]
    BY <2>1, <2>2
  <2>4. manifest' = manifest /\ pc' = "merged"
    BY <1>8 DEF Join, disk
  <2>5. QED
    BY <1>4, <2>1, <2>3, <2>4
<1>9. CASE EndPersist
  <2>1. pc # "idle" /\ outputs' = outputs /\ meta' = meta /\ left = {} /\ pc' = "persisted"
    BY <1>1, <1>9 DEF EndPersist, memory, FilesOK
  <2>2. "scanned" \in DOMAIN meta /\ Describes(meta.scanned, Upto)
    BY <1>1, <1>9 DEF EndPersist, ScannedOK, AfterScan
  <2>3. Upto = outputs
    BY <1>1, <1>9, <2>1 DEF EndPersist, Upto, FilesOK, Numbered
  <2>4. "fingerprints" \in DOMAIN manifest' /\ manifest'.fingerprints = meta.scanned
    BY <1>9 DEF EndPersist, StateOf
  <2>5. QED
    BY <1>1, <2>1, <2>2, <2>3, <2>4 DEF RememberedOK
<1>10. CASE Leave /\ UNCHANGED manifest
  BY <1>4, <1>10 DEF Leave
<1>11. CASE SynthesisRaises \/ BoundaryBreached \/ EndRun \/ Crash
  BY <1>10, <1>11 DEF SynthesisRaises, BoundaryBreached, EndRun, Crash, disk
<1>12. ASSUME UNCHANGED <<manifest, meta>>, pc' = "idle" \/ pc # "idle"
       PROVE  RememberedOK'
  BY <1>1, <1>4, <1>12 DEF RememberedOK
<1>13. CASE \/ StartFails \/ Decide \/ (\E gen \in Generations : Tune(gen))
            \/ NoSynthesis \/ BoundaryHolds
  BY <1>12, <1>13 DEF StartFails, Decide, Tune, NoSynthesis, BoundaryHolds, disk, memory
<1>14. CASE \/ (\E f \in Files : Compile(f) \/ Edit(f)) \/ BeginPersist \/ NextCycle \/ Finished
            \/ UNCHANGED vars
  BY <1>12, <1>14 DEF Compile, Edit, BeginPersist, NextCycle, Finished, disk, memory, vars
<1>15. QED
  BY <1>5, <1>6, <1>7, <1>8, <1>9, <1>11, <1>13, <1>14 DEF Next, RunBuild

LEMMA ScannedNext == CountInv /\ ScanInv /\ [Next]_vars => ScannedOK'
<1> SUFFICES ASSUME CountInv, ScanInv, [Next]_vars PROVE ScannedOK'
  OBVIOUS
<1>1. FilesOK /\ RememberedOK /\ ScannedOK /\ CounterOK /\ TunedOK
  BY DEF ScanInv, CountInv
<1>2. pc \in AfterScan /\ pc' \in AfterScan => Describes(meta.scanned, Upto')
  <2> SUFFICES ASSUME pc \in AfterScan, pc' \in AfterScan PROVE Describes(meta.scanned, Upto')
    OBVIOUS
  <2> DEFINE fp == meta.scanned
             a == Upto
             b == Upto'
  <2>1. Describes(fp, a) /\ \A f \in Files : a[f] <= b[f]
    BY <1>1, UptoGrows DEF ScannedOK
  <2>2. a \in Numbered /\ b \in Numbered
    <3>1. FilesOK'
      BY <1>1, FilesNext
    <3>2. b \in Numbered
      BY <3>1 DEF FilesOK, Upto, Numbered
    <3>3. QED
      BY <1>1, <3>2, UptoNumbered
  <2> HIDE DEF fp, a, b
  <2>3. Describes(fp, b)
    BY <2>1, <2>2, DescribesGrows
  <2>4. QED
    BY <2>3 DEF fp, b
\* A step that keeps what the scan found, and the tuner's copy or drops it.
<1>3. ASSUME pc' \in AfterScan =>
               /\ pc \in AfterScan
               /\ "scanned" \in DOMAIN meta' /\ meta'.scanned = meta.scanned,
             tuned' = Pending \/ UNCHANGED <<tuned, meta>>
      PROVE  ScannedOK'
  BY <1>1, <1>2, <1>3 DEF ScannedOK
<1>4. CASE Leave
  BY <1>3, <1>4 DEF Leave, AfterScan
<1>5. CASE StartRun
  BY <1>1, <1>3, <1>5 DEF StartRun, AfterScan, TunedOK
<1>6. CASE BeginCycle
  BY <1>1, <1>3, <1>6 DEF BeginCycle, AfterScan, TunedOK
<1>7. ASSUME NEW score \in Scores, NEW read \in SUBSET Files, Scan(score, read)
      PROVE  ScannedOK'
  <2>1. "scanned" \in DOMAIN meta' /\ meta'["scanned"] = [f \in read |-> Content(version[f])]
    BY <1>7, ScanKeys
  <2>2. Upto' = version /\ tuned' = Pending
    BY <1>1, <1>7 DEF Scan, Upto, FilesOK, Numbered, TunedOK, disk
  <2>3. Describes([f \in read |-> Content(version[f])], version)
    BY <1>1 DEF Describes, FilesOK, Numbered
  <2>4. QED
    BY <2>1, <2>2, <2>3 DEF ScannedOK
<1>8. ASSUME NEW gen \in Generations, Tune(gen) PROVE ScannedOK'
  <2>1. /\ "stalled" \in DOMAIN meta /\ meta.stalled \in Nat /\ meta.stalled < TunerPatience
        /\ {"fingerprints", "scanned"} \subseteq DOMAIN meta
    BY <1>1, <1>8 DEF Tune, CounterOK, RememberedOK, ScannedOK, AfterScan
  <2>2. /\ DOMAIN meta \subseteq DOMAIN tuned'
        /\ \A k \in DOMAIN meta \ {"boost", "stalled", "stagnant"} : tuned'[k] = meta[k]
    BY <1>8, <2>1, TunerKeys DEF Tune
  <2>3. /\ {"fingerprints", "scanned"} \subseteq DOMAIN tuned'
        /\ tuned'["fingerprints"] = meta["fingerprints"] /\ tuned'["scanned"] = meta["scanned"]
    BY <2>1, <2>2
  <2>4. meta' = meta /\ pc' = pc
    BY <1>8 DEF Tune
  <2>5. QED
    BY <1>1, <1>2, <2>1, <2>3, <2>4 DEF ScannedOK
<1>9. CASE Join
  <2>1. /\ pc \in AfterScan /\ "scanned" \in DOMAIN tuned
        /\ tuned["scanned"] = meta["scanned"]
    BY <1>1, <1>9 DEF Join, ScannedOK, AfterScan
  <2>2. DOMAIN tuned \subseteq DOMAIN meta' /\ \A k \in DOMAIN tuned : meta'[k] = tuned[k]
    BY <1>9, JoinKeys DEF Merges
  <2>3. "scanned" \in DOMAIN meta' /\ meta'["scanned"] = meta["scanned"]
    BY <2>1, <2>2
  <2>4. tuned' = Pending
    BY <1>9 DEF Join
  <2>5. QED
    BY <1>3, <2>1, <2>3, <2>4
<1>10. CASE SynthesisRaises \/ BoundaryBreached \/ EndRun \/ Crash
  BY <1>4, <1>10 DEF SynthesisRaises, BoundaryBreached, EndRun, Crash
<1>11. ASSUME UNCHANGED <<meta, tuned>>, pc' \in AfterScan => pc \in AfterScan
       PROVE  ScannedOK'
  BY <1>1, <1>3, <1>11 DEF ScannedOK
<1>12. CASE StartFails \/ Decide \/ NoSynthesis \/ BoundaryHolds
  BY <1>11, <1>12 DEF StartFails, Decide, NoSynthesis, BoundaryHolds, memory, AfterScan
<1>13. CASE BeginPersist \/ EndPersist \/ NextCycle
  BY <1>11, <1>13 DEF BeginPersist, EndPersist, NextCycle, memory, AfterScan
<1>14. CASE (\E f \in Files : Compile(f) \/ Edit(f)) \/ Finished \/ UNCHANGED vars
  BY <1>11, <1>14 DEF Compile, Edit, Finished, memory, vars
<1>15. QED
  BY <1>5, <1>6, <1>7, <1>8, <1>9, <1>10, <1>12, <1>13, <1>14 DEF Next, RunBuild

\* What is remembered of a file, in the process and on disk, is never newer
\* than what its output was compiled from.
THEOREM ScanInvariant == Spec => []ScanInv
<1>1. CountInv /\ ScanInv /\ [Next]_vars => ScanInv'
  <2> SUFFICES ASSUME CountInv, ScanInv, [Next]_vars PROVE ScanInv'
    OBVIOUS
  <2>1. FilesOK'
    BY FilesNext DEF ScanInv
  <2>2. QED
    BY <2>1, RememberedNext, ScannedNext DEF ScanInv
<1>2. QED
  BY <1>1, ScanInit, CountInvariant, PTL DEF Spec

\* The persisted state is never ahead of the outputs, for any edits and crashes.
THEOREM StateNeverAhead == Spec => []StateNeverAheadOfOutputs
<1>1. ScanInv => StateNeverAheadOfOutputs
  BY DEF ScanInv, RememberedOK, Describes, StateNeverAheadOfOutputs
<1>2. QED
  BY <1>1, ScanInvariant, PTL
-----------------------------------------------------------------------------
(* Dominance.                                                              *)

\* Among finitely many there is one that nothing is smaller than.
LEMMA MinimalExists ==
  ASSUME NEW S, IsFiniteSet(S), S # {}, NEW R,
         \A x \in S : <<x, x>> \notin R,
         \A x, y, z \in S : <<x, y>> \in R /\ <<y, z>> \in R => <<x, z>> \in R
  PROVE  \E m \in S : \A x \in S : <<x, m>> \notin R
<1> DEFINE Smaller(x) == {y \in S : <<y, x>> \in R}
           Counts == {Cardinality(Smaller(x)) : x \in S}
<1>1. \A x \in S : IsFiniteSet(Smaller(x)) /\ Cardinality(Smaller(x)) \in Nat
  BY FS_Subset, FS_CardinalityType
<1>3. PICK m \in S : \A x \in S : Cardinality(Smaller(m)) <= Cardinality(Smaller(x))
  <2> HIDE DEF Smaller
  <2>1. Counts \in SUBSET Nat /\ Counts # {}
    BY <1>1
  <2>2. PICK n \in Counts : \A c \in Counts : n <= c
    BY <2>1, LeastNumber
  <2>3. PICK m \in S : n = Cardinality(Smaller(m))
    OBVIOUS
  <2> QED BY <2>2, <2>3
<1>4. ASSUME NEW x \in S, <<x, m>> \in R PROVE FALSE
  <2>1. Smaller(x) \subseteq Smaller(m) /\ x \in Smaller(m) \ Smaller(x)
    BY <1>4
  <2> HIDE DEF Smaller
  <2>2. Smaller(x) # Smaller(m) /\ IsFiniteSet(Smaller(m))
    BY <1>1, <2>1
  <2>3. Cardinality(Smaller(x)) <= Cardinality(Smaller(m)) /\ Cardinality(Smaller(x)) # Cardinality(Smaller(m))
    BY <1>1, <2>1, <2>2, FS_Subset
  <2>4. Cardinality(Smaller(m)) <= Cardinality(Smaller(x))
    BY <1>3
  <2> QED BY <1>1, <2>3, <2>4
<1> QED BY <1>4

\* Of two of these candidates one has all the objectives the other has.
Comparable(D, fit) ==
  /\ \A i \in D : fit[i] \in [DOMAIN fit[i] -> Int]
  /\ \A i, j \in D : DOMAIN fit[i] \subseteq DOMAIN fit[j] \/ DOMAIN fit[j] \subseteq DOMAIN fit[i]

\* Then somebody is dominated by none of them.  Dominance is not transitive:
\* taken is the smallest set of them whose dominators are all in it.
LEMMA SomebodyLeads ==
  ASSUME NEW D, IsFiniteSet(D), D # {}, NEW fit, Comparable(D, fit)
  PROVE  \E i \in D : \A j \in D : ~is_dominant(fit[j], fit[i])
<1> DEFINE Closed == {E \in SUBSET D : E # {} /\ \A i \in E, j \in D : is_dominant(fit[j], fit[i]) => j \in E}
<1>1. \A E \in Closed : IsFiniteSet(E) /\ Cardinality(E) \in Nat /\ E # {} /\ E \subseteq D
  BY FS_Subset, FS_CardinalityType
<1>2. PICK E \in Closed : \A F \in Closed : Cardinality(E) <= Cardinality(F)
  <2> DEFINE Counts == {Cardinality(F) : F \in Closed}
  <2>1. D \in Closed
    OBVIOUS
  <2> HIDE DEF Closed
  <2>2. Counts \in SUBSET Nat /\ Counts # {}
    BY <1>1, <2>1
  <2>3. PICK n \in Counts : \A c \in Counts : n <= c
    BY <2>2, LeastNumber
  <2> QED BY <2>3
<1>3. PICK c \in E : \A x \in E : DOMAIN fit[c] \subseteq DOMAIN fit[x]
  <2> DEFINE R == {p \in E \X E : DOMAIN fit[p[1]] \subseteq DOMAIN fit[p[2]] /\ DOMAIN fit[p[1]] # DOMAIN fit[p[2]]}
  <2>1. /\ \A x \in E : <<x, x>> \notin R
        /\ \A x, y, z \in E : <<x, y>> \in R /\ <<y, z>> \in R => <<x, z>> \in R
    OBVIOUS
  <2>2. IsFiniteSet(E) /\ E # {} /\ E \subseteq D
    BY <1>1
  <2>3. \A x, y \in E : <<x, y>> \notin R => DOMAIN fit[y] \subseteq DOMAIN fit[x]
    BY <2>2 DEF Comparable
  <2> HIDE DEF R
  <2>4. PICK m \in E : \A x \in E : <<x, m>> \notin R
    BY <2>1, <2>2, MinimalExists
  <2> QED BY <2>3, <2>4
<1> DEFINE K == DOMAIN fit[c]
           R == {p \in E \X E : /\ \A k \in K : fit[p[1]][k] <= fit[p[2]][k]
                                /\ \E k \in K : fit[p[1]][k] < fit[p[2]][k]}
           M == {i \in E : \A x \in E : <<x, i>> \notin R}
<1>4. IsFiniteSet(E) /\ E # {} /\ E \subseteq D
  BY <1>1
<1>5. \A x \in E, k \in K : k \in DOMAIN fit[x] /\ fit[x][k] \in Int
  BY <1>3, <1>4 DEF Comparable
<1>6. \A x, y \in E : <<x, y>> \in R <=> /\ \A k \in K : fit[x][k] <= fit[y][k]
                                         /\ \E k \in K : fit[x][k] < fit[y][k]
  OBVIOUS
<1> HIDE DEF K, R
<1>7. M # {}
  <2>1. \A x \in E : <<x, x>> \notin R
    BY <1>5, <1>6
  <2>2. ASSUME NEW x \in E, NEW y \in E, NEW z \in E, <<x, y>> \in R, <<y, z>> \in R
        PROVE  <<x, z>> \in R
    <3>1. \A k \in K : /\ fit[x][k] \in Int /\ fit[y][k] \in Int /\ fit[z][k] \in Int
                       /\ fit[x][k] <= fit[y][k] /\ fit[y][k] <= fit[z][k]
      BY <1>5, <1>6, <2>2
    <3>2. PICK k \in K : fit[x][k] < fit[y][k]
      BY <1>6, <2>2
    <3>3. (\A l \in K : fit[x][l] <= fit[z][l]) /\ fit[x][k] < fit[z][k]
      BY <3>1, <3>2
    <3> QED BY <1>6, <3>3
  <2>3. \E m \in E : \A x \in E : <<x, m>> \notin R
    BY <1>4, <2>1, <2>2, MinimalExists
  <2> QED BY <2>3
<1>8. ASSUME NEW i \in E, NEW j \in D, is_dominant(fit[j], fit[i])
      PROVE  j \in E /\ (i = c => <<j, i>> \in R) /\ \A k \in K : fit[j][k] <= fit[i][k]
  <2>1. j \in E
    BY <1>8
  <2>2. \A k \in K : fit[j][k] <= fit[i][k]
    BY <1>5, <1>8, <2>1 DEF is_dominant
  <2>3. i = c => \E k \in K : fit[j][k] < fit[i][k]
    BY <1>8 DEF is_dominant, K
  <2> QED BY <1>6, <2>1, <2>2, <2>3
<1>9. M \in Closed
  <2> SUFFICES ASSUME NEW i \in M, NEW j \in D, is_dominant(fit[j], fit[i]) PROVE j \in M
    BY <1>4, <1>7
  <2>1. j \in E /\ i \in E /\ \A k \in K : fit[j][k] <= fit[i][k]
    BY <1>8
  <2>2. <<j, i>> \notin R
    BY <2>1
  <2>3. \A k \in K : fit[j][k] = fit[i][k]
    <3>1. \A k \in K : ~(fit[j][k] < fit[i][k])
      BY <1>6, <2>1, <2>2
    <3> QED BY <1>5, <2>1, <3>1
  <2>4. \A x \in E : <<x, j>> \in R => <<x, i>> \in R
    BY <1>6, <2>1, <2>3
  <2> QED BY <2>1, <2>4
<1>10. M = E
  <2>1. Cardinality(E) <= Cardinality(M) /\ M \subseteq E
    BY <1>2, <1>9
  <2>2. Cardinality(M) \in Nat /\ Cardinality(E) \in Nat
    BY <1>4, <2>1, FS_Subset, FS_CardinalityType
  <2> HIDE DEF M
  <2>3. Cardinality(M) = Cardinality(E)
    BY <1>4, <2>1, <2>2, FS_Subset
  <2> QED BY <1>4, <2>1, <2>3, FS_Subset
<1>11. ASSUME NEW j \in D PROVE ~is_dominant(fit[j], fit[c])
  <2>1. is_dominant(fit[j], fit[c]) => j \in E /\ <<j, c>> \in R
    BY <1>8
  <2>2. c \in M
    BY <1>10
  <2> QED BY <2>1, <2>2
<1>12. c \in D
  BY <1>4
<1> QED BY <1>11, <1>12
-----------------------------------------------------------------------------
(* What the sort returns.                                                  *)

\* A sequence of the members of a set, each of them once.
Enumerates(s, S) ==
  /\ s \in Seq(S)
  /\ \A m, n \in DOMAIN s : s[m] = s[n] => m = n
  /\ \A i \in S : \E n \in DOMAIN s : s[n] = i

Keyed(K, key) == IsFiniteSet(K) /\ K \subseteq Int /\ key \in [K -> Int]

\* What a sequence holds.
LEMMA SeqAt ==
  ASSUME NEW S, NEW s \in Seq(S)
  PROVE  Len(s) \in Nat /\ DOMAIN s = 1..Len(s) /\ \A q \in 1..Len(s) : s[q] \in S
OBVIOUS

\* Each of the keys' owners has one place, as none comes before itself and of
\* two one comes before the other.
LEMMA SortedIs ==
  ASSUME NEW K, NEW key, Keyed(K, key)
  PROVE  Enumerates(Sorted(key), K) /\ DOMAIN Sorted(key) = 1..Cardinality(K)
<1> DEFINE N == Cardinality(K)
           Before(q, p) == key[q] < key[p] \/ (key[q] = key[p] /\ q < p)
           Earlier(p) == {q \in K : Before(q, p)}
           Place(p) == Cardinality(Earlier(p))
<1>0. IsFiniteSet(K) /\ N \in Nat /\ DOMAIN key = K
  BY FS_CardinalityType DEF Keyed
<1>1. \A p \in K : p \in Int /\ key[p] \in Int
  BY DEF Keyed
<1>2. /\ \A p \in K : ~Before(p, p)
      /\ \A p, q \in K : p = q \/ Before(p, q) \/ Before(q, p)
      /\ \A p, q, r \in K : Before(p, q) /\ Before(q, r) => Before(p, r)
  BY <1>1
<1>3. Sorted(key) = [k \in 1..N |-> CHOOSE p \in K : Place(p) = k - 1]
  BY <1>0 DEF Sorted
<1> HIDE DEF Before
<1>4. ASSUME NEW p \in K PROVE Place(p) \in Nat /\ Place(p) < N /\ IsFiniteSet(Earlier(p))
  <2>1. Earlier(p) \subseteq K /\ Earlier(p) # K
    BY <1>2
  <2> HIDE DEF Earlier
  <2>2. IsFiniteSet(Earlier(p)) /\ Cardinality(Earlier(p)) \in Nat
    BY <1>0, <2>1, FS_Subset, FS_CardinalityType
  <2>3. Cardinality(Earlier(p)) <= N /\ Cardinality(Earlier(p)) # N
    BY <1>0, <2>1, FS_Subset
  <2> QED BY <1>0, <2>2, <2>3
<1>5. ASSUME NEW p \in K, NEW q \in K, Before(p, q) PROVE Place(p) < Place(q)
  <2>1. Earlier(p) \subseteq Earlier(q) /\ p \in Earlier(q) /\ p \notin Earlier(p)
    BY <1>2, <1>5
  <2>2. IsFiniteSet(Earlier(q)) /\ Place(p) \in Nat /\ Place(q) \in Nat
    BY <1>4
  <2> HIDE DEF Earlier
  <2>3. Cardinality(Earlier(p)) <= Cardinality(Earlier(q)) /\ Cardinality(Earlier(p)) # Cardinality(Earlier(q))
    BY <2>1, <2>2, FS_Subset
  <2> QED BY <2>2, <2>3
<1>6. \A p \in K : Place(p) \in 0..(N - 1)
  BY <1>0, <1>4
<1> HIDE DEF Place
<1>7. \A p, q \in K : Place(p) = Place(q) => p = q
  <2>1. \A p \in K : Place(p) \in Int
    BY <1>0, <1>6
  <2>2. \A p, q \in K : Before(p, q) => Place(p) < Place(q)
    BY <1>5
  <2> QED BY <1>2, <2>1, <2>2
<1>8. \A k \in 1..N : \E p \in K : Place(p) = k - 1
  <2> DEFINE f == [p \in K |-> Place(p)]
             R == 0..(N - 1)
  <2>1. f \in Injection(K, R)
    BY <1>6, <1>7 DEF Injection, IsInjective
  <2>2. IsFiniteSet(R) /\ Cardinality(R) = N
    <3>1. 0 \in Int /\ N - 1 \in Int
      BY <1>0
    <3>2. IsFiniteSet(0..(N - 1)) /\ Cardinality(0..(N - 1)) = IF 0 > N - 1 THEN 0 ELSE N - 1 - 0 + 1
      BY <3>1, FS_Interval
    <3> QED BY <1>0, <3>2
  <2>3. Cardinality(K) = Cardinality(R)
    BY <2>2
  <2> HIDE DEF f, R, N
  <2>4. f \in Surjection(K, R)
    BY <1>0, <2>1, <2>2, <2>3, FS_Injection
  <2>5. \A n \in R : \E p \in K : f[p] = n
    BY <2>4 DEF Surjection
  <2>6. \A k \in 1..N : k - 1 \in R
    BY <1>0 DEF R
  <2> QED BY <2>5, <2>6 DEF f
<1> DEFINE s == [k \in 1..N |-> CHOOSE p \in K : Place(p) = k - 1]
<1>9. \A k \in 1..N : s[k] \in K /\ Place(s[k]) = k - 1
  BY <1>8
<1>10. s \in Seq(K) /\ DOMAIN s = 1..N
  BY <1>0, <1>9
<1>11. \A m, n \in DOMAIN s : s[m] = s[n] => m = n
  <2>1. \A n \in 1..N : n \in Int
    OBVIOUS
  <2> HIDE DEF s
  <2> QED BY <1>9, <1>10, <2>1
<1>12. \A i \in K : \E n \in DOMAIN s : s[n] = i
  <2> SUFFICES ASSUME NEW i \in K PROVE \E n \in 1..N : s[n] = i
    BY <1>10
  <2>1. Place(i) + 1 \in 1..N /\ (Place(i) + 1) - 1 = Place(i)
    BY <1>0, <1>6
  <2>2. s[Place(i) + 1] = i
    BY <1>7, <1>9, <2>1
  <2> QED BY <2>1, <2>2
<1>13. s = Sorted(key)
  BY <1>3 DEF Place
<1> HIDE DEF s
<1>14. Enumerates(s, K)
  BY <1>10, <1>11, <1>12 DEF Enumerates
<1> QED BY <1>10, <1>13, <1>14

\* As many as there are.
LEMMA EnumeratesAll ==
  ASSUME NEW S, NEW n \in Nat, NEW s \in [1..n -> S], Enumerates(s, S)
  PROVE  IsFiniteSet(S) /\ Cardinality(S) = n
<1>1. IsFiniteSet(1..n) /\ Cardinality(1..n) = n
  <2>1. 1 \in Int /\ n \in Int
    OBVIOUS
  <2> QED BY <2>1, FS_Interval
<1>2. s \in Bijection(1..n, S)
  BY DEF Enumerates, Bijection, Injection, Surjection, IsInjective
<1>3. ExistsBijection(1..n, S)
  BY <1>2 DEF ExistsBijection
<1> QED BY <1>1, <1>3, FS_Bijection, FS_CardinalityType

\* Whatever the order of discovery, the next front is all who are in it.
LEMMA NextFrontIs ==
  ASSUME NEW pop, NEW front \in Seq(Int), NEW places, IsFiniteSet(places), places \subseteq Int
  PROVE  Enumerates(NextFront(pop, front, places), places)
<1> DEFINE dominators(i) == {p \in DOMAIN front : Dominates(pop, front[p], i)} \cup {0}
           last(i) == CHOOSE p \in dominators(i) : \A q \in dominators(i) : q <= p
           key == [i \in places |-> last(i)]
<1>1. ASSUME NEW i \in places PROVE last(i) \in Int
  <2> DEFINE K == {p \in DOMAIN front : Dominates(pop, front[p], i)}
  <2>1. DOMAIN front = 1..Len(front) /\ Len(front) \in Nat /\ K \in SUBSET (1..Len(front))
    OBVIOUS
  <2>2. dominators(i) \subseteq Int /\ 0 \in dominators(i)
    OBVIOUS
  <2>3. \E p \in dominators(i) : \A q \in dominators(i) : q <= p
    <3> HIDE DEF K
    <3>1. dominators(i) = K \cup {0}
      BY DEF K
    <3>2. CASE K = {}
      BY <3>1, <3>2
    <3>3. CASE K # {}
      <4>1. PICK p \in K : \A q \in K : q <= p
        BY <2>1, <3>3, LastPosition
      <4>2. 0 <= p
        BY <2>1
      <4> QED BY <3>1, <4>1, <4>2
    <3> QED BY <3>2, <3>3
  <2> QED BY <2>2, <2>3
<1>2. NextFront(pop, front, places) = Sorted(key)
  BY DEF NextFront
<1> HIDE DEF last
<1>3. Keyed(places, key)
  BY <1>1 DEF Keyed
<1> QED BY <1>2, <1>3, SortedIs
-----------------------------------------------------------------------------
(* The fronts.                                                             *)

\* N candidates, measured in objectives that can be compared.
Rated(pop, N) ==
  /\ N \in Nat /\ Len(pop) = N /\ DOMAIN pop = 1..N
  /\ Comparable(1..N, [i \in 1..N |-> pop[i].fitness])
  /\ \A i \in 1..N : IsFiniteSet(DOMAIN pop[i].fitness)

\* Those of some places whom nobody at these places dominates.
Heads(pop, places) == {i \in places : \A j \in places : ~Dominates(pop, j, i)}

\* The fronts hold everybody once, and each those whom nobody left dominates.
Layers(front, rest, pop, N) ==
  /\ front \in [1..N -> Seq(1..N)]
  /\ rest \in [0..N -> SUBSET (1..N)] /\ rest[0] = 1..N /\ rest[N] = {}
  /\ \A n \in 1..N : /\ Enumerates(front[n], Heads(pop, rest[n - 1]))
                     /\ rest[n] = rest[n - 1] \ Heads(pop, rest[n - 1])

\* As long as anybody is left there is a next front,
LEMMA HeadsExist ==
  ASSUME NEW pop, NEW N, Rated(pop, N), NEW R \in SUBSET (1..N), R # {}
  PROVE  Heads(pop, R) # {}
<1> DEFINE fit == [i \in 1..N |-> pop[i].fitness]
<1>1. N \in Nat /\ Comparable(1..N, fit)
  BY DEF Rated
<1>2. IsFiniteSet(R)
  BY <1>1, PositionsFinite
<1>3. \A i \in R : fit[i] = pop[i].fitness
  OBVIOUS
<1> HIDE DEF fit
<1>4. Comparable(R, fit)
  BY <1>1 DEF Comparable
<1>5. \E i \in R : \A j \in R : ~is_dominant(fit[j], fit[i])
  BY <1>2, <1>4, SomebodyLeads
<1> QED BY <1>3, <1>5 DEF Heads, Dominates

\* so that after as many fronts as there are candidates nobody is left.
LEMMA FrontsAre ==
  ASSUME NEW pop, NEW N, Rated(pop, N)
  PROVE  \E rest : Layers(Fronts(pop), rest, pop, N)
<1> DEFINE T == [front : Seq(1..N), rest : SUBSET (1..N)]
           start == [front |-> <<>>, rest |-> 1..N]
           step == [n \in 1..N |-> [t \in T |-> Peeled(pop, t)]]
           turn == CHOOSE g : g = [n \in 0..N |-> IF n = 0 THEN start ELSE Peeled(pop, g[n - 1])]
<1>1. N \in Nat /\ Len(pop) = N /\ DOMAIN pop = 1..N
  BY DEF Rated
<1>2. Fronts(pop) = [n \in 1..N |-> turn[n].front]
  BY <1>1 DEF Fronts
<1> HIDE DEF turn
<1>3. ASSUME NEW t \in T
      PROVE  /\ Peeled(pop, t) \in T
             /\ Enumerates(Peeled(pop, t).front, Heads(pop, t.rest))
             /\ Peeled(pop, t).rest = t.rest \ Heads(pop, t.rest)
  <2> DEFINE places == Heads(pop, t.rest)
             front == NextFront(pop, t.front, places)
  <2>1. t.front \in Seq(1..N) /\ t.rest \in SUBSET (1..N) /\ places \in SUBSET (1..N)
    BY DEF Heads
  <2>2. Peeled(pop, t) = [front |-> front, rest |-> t.rest \ places]
    BY DEF Peeled, Heads
  <2> HIDE DEF places
  <2>3. IsFiniteSet(places) /\ places \subseteq Int
    BY <1>1, <2>1, PositionsFinite
  <2>4. t.front \in Seq(Int)
    BY <1>1, <2>1, SeqWider
  <2>5. Enumerates(front, places)
    BY <2>3, <2>4, NextFrontIs
  <2>6. front \in Seq(1..N)
    BY <2>1, <2>5, SeqWider DEF Enumerates
  <2> HIDE DEF front
  <2> QED BY <2>1, <2>2, <2>5, <2>6 DEF places
<1>4. start \in T /\ step \in [1..N -> [T -> T]]
  <2>1. start \in T
    OBVIOUS
  <2>2. \A t \in T : Peeled(pop, t) \in T
    BY <1>3
  <2> HIDE DEF T, start
  <2> QED BY <2>1, <2>2
<1>5. Steps(N, T, start, step)
  BY <1>1, <1>4 DEF Steps
<1> HIDE DEF start
<1>6. turn = [n \in 0..N |-> IF n = 0 THEN start ELSE Peeled(pop, turn[n - 1])]
  <2>1. PICK g : Follows(g, N, T, start, step)
    <3> HIDE DEF T, step
    <3> QED BY <1>5, StepByStep
  <2> HIDE DEF T
  <2>2. ASSUME NEW n \in 0..N PROVE g[n] = IF n = 0 THEN start ELSE Peeled(pop, g[n - 1])
    <3>1. CASE n = 0
      BY <2>1, <3>1 DEF Follows
    <3>2. CASE n # 0
      <4>1. n \in 1..N /\ n - 1 \in 0..N
        BY <1>1, <3>2
      <4>2. g[n] = step[n][g[n - 1]] /\ g[n - 1] \in T
        BY <2>1, <4>1 DEF Follows
      <4> QED BY <3>2, <4>1, <4>2
    <3> QED BY <3>1, <3>2
  <2>3. g = [n \in 0..N |-> IF n = 0 THEN start ELSE Peeled(pop, g[n - 1])]
    BY <2>1, <2>2 DEF Follows
  <2> QED BY <2>3 DEF turn
<1>7. turn[0] = start /\ \A n \in 1..N : turn[n] = Peeled(pop, turn[n - 1])
  BY <1>1, <1>6
<1>8. \A n \in 0..N : turn[n] \in T
  <2> HIDE DEF T
  <2>1. \A n \in 1..N : turn[n - 1] \in T => turn[n] = step[n][turn[n - 1]]
    BY <1>7
  <2> HIDE DEF step
  <2> QED BY <1>5, <1>7, <2>1, StepsStay
<1> DEFINE rest == [n \in 0..N |-> turn[n].rest]
<1>9. ASSUME NEW n \in 1..N
      PROVE  /\ Enumerates(Fronts(pop)[n], Heads(pop, rest[n - 1]))
             /\ rest[n] = rest[n - 1] \ Heads(pop, rest[n - 1])
             /\ Fronts(pop)[n] \in Seq(1..N)
  <2>1. n - 1 \in 0..N /\ n \in 0..N
    BY <1>1
  <2>2. turn[n - 1] \in T /\ turn[n] = Peeled(pop, turn[n - 1]) /\ turn[n] \in T
    BY <1>7, <1>8, <2>1
  <2> HIDE DEF T
  <2>3. /\ Enumerates(turn[n].front, Heads(pop, turn[n - 1].rest))
        /\ turn[n].rest = turn[n - 1].rest \ Heads(pop, turn[n - 1].rest)
    BY <1>3, <2>2
  <2> QED BY <1>2, <2>1, <2>2, <2>3 DEF T
<1>10. rest \in [0..N -> SUBSET (1..N)] /\ rest[0] = 1..N
  BY <1>1, <1>7, <1>8 DEF start
<1> HIDE DEF rest
<1>11. rest[N] = {}
  <2> DEFINE C == SUBSET (1..N)
             Few(n) == Cardinality(rest[n]) <= N - n
             Many == {n \in 0..N : ~Few(n)}
  <2>1. \A n \in 0..N : rest[n] \in C /\ Cardinality(rest[n]) \in Nat /\ IsFiniteSet(rest[n])
    BY <1>1, <1>10, PositionsFinite
  <2>2. Many = {}
    <3> SUFFICES ASSUME Many # {} PROVE FALSE
      OBVIOUS
    <3>1. Many \in SUBSET Nat
      <4>1. 0..N \subseteq Nat /\ Many \subseteq 0..N
        BY <1>1
      <4> QED BY <4>1
    <3>2. PICK n \in Many : \A m \in Many : n <= m
      BY <3>1, LeastNumber
    <3>3. n \in 0..N /\ ~Few(n)
      BY <3>2
    <3>4. n # 0
      <4>1. Cardinality(1..N) <= N
        BY <1>1, PositionsFinite
      <4> QED BY <1>1, <1>10, <3>3, <4>1
    <3>5. n \in 1..N /\ n - 1 \in 0..N /\ ~(n <= n - 1)
      BY <1>1, <3>3, <3>4
    <3>6. Few(n - 1)
      <4> HIDE DEF Few
      <4> QED BY <3>2, <3>5
    <3>7. rest[n] = rest[n - 1] \ Heads(pop, rest[n - 1])
      BY <1>9, <3>5
    <3>8. CASE rest[n - 1] = {}
      <4>1. Cardinality(rest[n]) = 0
        BY <3>7, <3>8, FS_EmptySet
      <4> QED BY <1>1, <3>3, <4>1
    <3>9. CASE rest[n - 1] # {}
      <4>1. Heads(pop, rest[n - 1]) # {}
        BY <2>1, <3>5, <3>9, HeadsExist
      <4>2. rest[n] \subseteq rest[n - 1] /\ rest[n] # rest[n - 1]
        BY <3>7, <4>1 DEF Heads
      <4>3. Cardinality(rest[n]) <= Cardinality(rest[n - 1]) /\ Cardinality(rest[n]) # Cardinality(rest[n - 1])
        BY <2>1, <3>5, <4>2, FS_Subset
      <4> QED BY <1>1, <2>1, <3>3, <3>5, <3>6, <4>3
    <3> QED BY <3>8, <3>9
  <2>3. N \in 0..N
    BY <1>1
  <2>4. Cardinality(rest[N]) <= 0
    BY <1>1, <2>2, <2>3
  <2>5. Cardinality(rest[N]) = 0
    BY <2>1, <2>3, <2>4
  <2> QED BY <2>1, <2>3, <2>5, FS_EmptySet
<1>12. Fronts(pop) \in [1..N -> Seq(1..N)]
  BY <1>2, <1>9
<1> QED BY <1>9, <1>10, <1>11, <1>12 DEF Layers
-----------------------------------------------------------------------------
(* The crowding.                                                           *)

\* Distances are numbers: only what is no extreme is divided, and by no 0.
LEMMA QuotientIs == ASSUME NEW a \in Int, NEW b \in Int, b # 0 PROVE Quotient(a, b) \in Int
<1>1. CASE b < 0
  <2>1. -b \in Nat \ {0} /\ -12 * a \in Int
    BY <1>1
  <2> DEFINE c == -b
             d == -12 * a
  <2>2. Quotient(a, b) = d \div c
    BY <1>1 DEF Quotient
  <2> HIDE DEF c, d
  <2>3. c \in Nat \ {0} /\ d \in Int
    BY <2>1 DEF c, d
  <2> QED BY <2>2, <2>3
<1>2. CASE ~(b < 0)
  <2> DEFINE d == 12 * a
  <2>1. b \in Nat \ {0} /\ d \in Int
    BY <1>2
  <2>2. Quotient(a, b) = d \div b
    BY <1>2 DEF Quotient
  <2> HIDE DEF d
  <2> QED BY <2>1, <2>2
<1> QED BY <1>1, <1>2

\* Each of them is measured by finitely many numbers.
LEMMA RatedIs ==
  ASSUME NEW pop, NEW N, Rated(pop, N), NEW i \in 1..N
  PROVE  IsFiniteSet(DOMAIN pop[i].fitness) /\ \A k \in DOMAIN pop[i].fitness : pop[i].fitness[k] \in Int
<1> DEFINE fit == [j \in 1..N |-> pop[j].fitness]
<1>1. fit[i] = pop[i].fitness /\ Comparable(1..N, fit) /\ IsFiniteSet(DOMAIN pop[i].fitness)
  BY DEF Rated
<1> HIDE DEF fit
<1>2. fit[i] \in [DOMAIN fit[i] -> Int]
  BY <1>1 DEF Comparable
<1> QED BY <1>1, <1>2

LEMMA CrowdingForIs ==
  ASSUME NEW pop, NEW N, Rated(pop, N), NEW front \in Seq(1..N), NEW obj, NEW p \in 1..Len(front)
  PROVE  CrowdingFor(obj, pop, front)[p] \in Int
<1> DEFINE n == Len(front)
           Knows(q) == obj \in DOMAIN pop[front[q]].fitness
           Key(q) == IF Knows(q) THEN pop[front[q]].fitness[obj] ELSE Infinity
           Num(q) == IF Knows(q) THEN pop[front[q]].fitness[obj] ELSE 0
           key == [q \in 1..n |-> Key(q)]
           sorted == Sorted(key)
           span == Num(sorted[n]) - Num(sorted[1])
           at == CHOOSE k \in 1..n : sorted[k] = p
<1>1. n \in Nat /\ DOMAIN front = 1..n /\ p \in 1..n /\ \A q \in 1..n : front[q] \in 1..N
  BY SeqAt
<1>2. CrowdingFor(obj, pop, front)[p]
        = IF at \in {1, n} THEN Infinity
          ELSE IF span = 0 THEN 0 ELSE Quotient(Num(sorted[at + 1]) - Num(sorted[at - 1]), span)
  BY <1>1 DEF CrowdingFor
<1>3. \A q \in 1..n : Key(q) \in Int /\ Num(q) \in Int
  BY <1>1, RatedIs DEF Infinity
<1> HIDE DEF Key, Num, n
<1>4. Enumerates(sorted, 1..n) /\ DOMAIN sorted = 1..n
  <2>1. IsFiniteSet(1..n) /\ Cardinality(1..n) = n
    <3>1. 1 \in Int /\ n \in Int
      BY <1>1
    <3> QED BY <1>1, <3>1, FS_Interval
  <2>2. Keyed(1..n, key)
    BY <1>1, <1>3, <2>1 DEF Keyed
  <2> HIDE DEF key
  <2> QED BY <2>1, <2>2, SortedIs
<1> HIDE DEF key, sorted
<1>5. \A k \in 1..n : sorted[k] \in 1..n
  <2> DEFINE R == 1..n
  <2>1. sorted \in Seq(R) /\ DOMAIN sorted = R
    BY <1>4 DEF Enumerates
  <2> HIDE DEF R
  <2>2. \A r \in R : sorted[r] \in R
    BY <2>1, SeqAt
  <2> QED BY <2>2 DEF R
<1>6. at \in 1..n
  BY <1>1, <1>4 DEF Enumerates
<1> HIDE DEF at
<1>7. span \in Int
  <2>1. sorted[n] \in 1..n /\ sorted[1] \in 1..n
    BY <1>1, <1>5
  <2>2. Num(sorted[n]) \in Int /\ Num(sorted[1]) \in Int
    BY <1>3, <2>1
  <2> QED BY <2>2
<1> HIDE DEF span
<1>8. CASE at \in {1, n}
  BY <1>2, <1>8 DEF Infinity
<1>9. CASE at \notin {1, n}
  <2>1. at + 1 \in 1..n /\ at - 1 \in 1..n
    BY <1>1, <1>6, <1>9
  <2> DEFINE d == Num(sorted[at + 1]) - Num(sorted[at - 1])
  <2>2. d \in Int
    BY <1>3, <1>5, <2>1
  <2> HIDE DEF d
  <2>3. span # 0 => Quotient(d, span) \in Int
    BY <1>7, <2>2, QuotientIs
  <2> QED BY <1>2, <1>9, <2>3 DEF d
<1> QED BY <1>8, <1>9

LEMMA CrowdingIs ==
  ASSUME NEW pop, NEW N, Rated(pop, N), NEW front \in Seq(1..N)
  PROVE  Crowding(pop, front) \in [1..Len(front) -> Int]
<1> DEFINE n == Len(front)
           objectives == SetToSeq(DOMAIN pop[front[1]].fitness)
           plus(a, b) == IF Infinity \in {a, b} THEN Infinity ELSE a + b
           M == Len(objectives)
<1>1. n \in Nat
  OBVIOUS
<1> SUFFICES ASSUME NEW p \in 1..n PROVE Crowding(pop, front)[p] \in Int
  BY DEF Crowding
<1> DEFINE Added(m) == CrowdingFor(objectives[m], pop, front)[p]
           sum == CHOOSE g : g = [m \in 0..M |-> IF m = 0 THEN 0 ELSE plus(g[m - 1], Added(m))]
           step == [m \in 1..M |-> [t \in Int |-> plus(t, Added(m))]]
<1>2. Crowding(pop, front)[p] = IF n <= 2 THEN Infinity ELSE sum[M]
  BY DEF Crowding
<1> HIDE DEF sum
<1>3. CASE n <= 2
  BY <1>2, <1>3 DEF Infinity
<1>4. CASE ~(n <= 2)
  <2>1. M \in Nat
    <3>1. 1 \in 1..n
      BY <1>1, <1>4
    <3>3. front[1] \in 1..N
      BY <3>1, SeqAt
    <3>2. IsFiniteSet(DOMAIN pop[front[1]].fitness)
      BY <3>3, RatedIs
    <3> QED BY <3>2, SetToSeqSequence
  <2> HIDE DEF objectives, M
  <2>2. \A m \in 1..M : Added(m) \in Int
    BY CrowdingForIs
  <2> HIDE DEF Added
  <2>3. \A a, b \in Int : plus(a, b) \in Int
    BY DEF Infinity
  <2> HIDE DEF plus
  <2>4. Steps(M, Int, 0, step)
    BY <2>1, <2>2, <2>3 DEF Steps
  <2>5. sum = [m \in 0..M |-> IF m = 0 THEN 0 ELSE plus(sum[m - 1], Added(m))]
    <3>1. PICK g : Follows(g, M, Int, 0, step)
      <4> HIDE DEF step
      <4> QED BY <2>4, StepByStep
    <3>2. ASSUME NEW m \in 0..M PROVE g[m] = IF m = 0 THEN 0 ELSE plus(g[m - 1], Added(m))
      <4>1. CASE m = 0
        BY <3>1, <4>1 DEF Follows
      <4>2. CASE m # 0
        <5>1. m \in 1..M /\ m - 1 \in 0..M
          BY <2>1, <4>2
        <5>2. g[m] = step[m][g[m - 1]] /\ g[m - 1] \in Int
          BY <3>1, <5>1 DEF Follows
        <5> QED BY <4>2, <5>1, <5>2
      <4> QED BY <4>1, <4>2
    <3>3. g = [m \in 0..M |-> IF m = 0 THEN 0 ELSE plus(g[m - 1], Added(m))]
      BY <3>1, <3>2 DEF Follows
    <3> QED BY <3>3 DEF sum
  <2>6. sum[0] = 0 /\ \A m \in 1..M : sum[m] = plus(sum[m - 1], Added(m))
    BY <2>1, <2>5
  <2>7. \A m \in 1..M : sum[m - 1] \in Int => sum[m] = step[m][sum[m - 1]]
    BY <2>6
  <2> HIDE DEF step
  <2>8. \A m \in 0..M : sum[m] \in Int
    BY <2>4, <2>6, <2>7, StepsStay
  <2> QED BY <1>2, <1>4, <2>1, <2>8
<1> QED BY <1>3, <1>4

\* Ranking a front by them leaves nobody out.
LEMMA LeastCrowdedIs ==
  ASSUME NEW pop, NEW N, Rated(pop, N), NEW front \in Seq(1..N), NEW S, Enumerates(front, S)
  PROVE  /\ Enumerates(LeastCrowded(pop, front), S)
         /\ LeastCrowded(pop, front) \in [1..Len(front) -> S]
<1> DEFINE n == Len(front)
           cd == Crowding(pop, front)
           key == [p \in DOMAIN cd |-> -cd[p]]
           ranked == Sorted(key)
<1>1. n \in Nat /\ DOMAIN front = 1..n
  OBVIOUS
<1>2. cd \in [1..n -> Int]
  BY CrowdingIs
<1>3. LeastCrowded(pop, front) = [r \in DOMAIN ranked |-> front[ranked[r]]]
  BY DEF LeastCrowded, At
<1> HIDE DEF n, cd
<1>4. Keyed(1..n, key) /\ IsFiniteSet(1..n) /\ Cardinality(1..n) = n
  <2>1. 1 \in Int /\ n \in Int
    BY <1>1
  <2>2. IsFiniteSet(1..n) /\ Cardinality(1..n) = n
    BY <1>1, <2>1, FS_Interval
  <2>3. key \in [1..n -> Int]
    BY <1>2
  <2> QED BY <1>1, <2>2, <2>3 DEF Keyed
<1> HIDE DEF key
<1>5. Enumerates(ranked, 1..n) /\ DOMAIN ranked = 1..n
  BY <1>4, SortedIs
<1> HIDE DEF ranked
<1> DEFINE l == [r \in 1..n |-> front[ranked[r]]]
<1>6. LeastCrowded(pop, front) = l
  BY <1>3, <1>5
<1>7. \A r \in 1..n : ranked[r] \in 1..n
  <2> DEFINE R == 1..n
  <2>1. ranked \in Seq(R) /\ DOMAIN ranked = R
    BY <1>5 DEF Enumerates
  <2> HIDE DEF R
  <2>2. \A r \in R : ranked[r] \in R
    BY <2>1, SeqAt
  <2> QED BY <2>2 DEF R
<1>8. l \in [1..n -> S] /\ l \in Seq(S)
  <2>1. \A p \in 1..n : front[p] \in S
    BY <1>1 DEF Enumerates
  <2>2. l \in [1..n -> S]
    BY <1>7, <2>1
  <2> HIDE DEF l
  <2> QED BY <1>1, <2>2
<1>9. ASSUME NEW q \in 1..n, NEW r \in 1..n, l[q] = l[r] PROVE q = r
  <2>1. front[ranked[q]] = front[ranked[r]]
    BY <1>9
  <2>2. ranked[q] = ranked[r]
    BY <1>1, <1>7, <2>1 DEF Enumerates
  <2> QED BY <1>5, <2>2 DEF Enumerates
<1>10. \A i \in S : \E r \in 1..n : l[r] = i
  <2> SUFFICES ASSUME NEW i \in S PROVE \E r \in 1..n : l[r] = i
    OBVIOUS
  <2>1. PICK p \in 1..n : front[p] = i
    BY <1>1 DEF Enumerates
  <2>2. PICK r \in 1..n : ranked[r] = p
    BY <1>5 DEF Enumerates
  <2> QED BY <2>1, <2>2
<1> HIDE DEF l
<1>11. Enumerates(l, S)
  <2>1. DOMAIN l = 1..n
    BY <1>8
  <2> QED BY <1>8, <1>9, <1>10, <2>1 DEF Enumerates
<1> QED BY <1>6, <1>8, <1>11 DEF n
-----------------------------------------------------------------------------
(* The selection.                                                          *)

\* Each of them once.
Distinct(s) == \A m, n \in DOMAIN s : s[m] = s[n] => m = n

\* What is chosen while R is left: nobody of R; all others, unless there is no
\* more room; and no one who is not chosen dominates one who is.
Elite(pop, N, count, c, R) ==
  /\ c \in Seq(1..N) /\ Len(c) <= count /\ Distinct(c)
  /\ \A q \in DOMAIN c : c[q] \notin R
  /\ Len(c) = count \/ \A i \in (1..N) \ R : \E q \in DOMAIN c : c[q] = i
  /\ \A q \in DOMAIN c, j \in 1..N : (\A m \in DOMAIN c : c[m] # j) => ~Dominates(pop, j, c[q])

\* What joins it: some of the best of R, or all of them.
Joins(c, f, H, count) ==
  /\ f \in Seq(H) /\ Distinct(f) /\ Len(c) + Len(f) <= count
  /\ Len(c) + Len(f) = count \/ \A i \in H : \E q \in DOMAIN f : f[q] = i

\* Two sequences, one after the other.
LEMMA JoinedIs ==
  ASSUME NEW C, NEW c \in Seq(C), NEW H, NEW f \in Seq(H), H \subseteq C, NEW d, d = c \o f
  PROVE  /\ d \in Seq(C) /\ Len(d) = Len(c) + Len(f)
         /\ \A q \in DOMAIN c : q \in DOMAIN d /\ d[q] = c[q]
         /\ \A q \in DOMAIN f : Len(c) + q \in DOMAIN d /\ d[Len(c) + q] = f[q]
         /\ \A q \in DOMAIN d : \/ q \in DOMAIN c /\ d[q] = c[q]
                                \/ q - Len(c) \in DOMAIN f /\ d[q] = f[q - Len(c)]
<1>1. f \in Seq(C)
  BY SeqWider
<1>2. /\ Len(c) \in Nat /\ DOMAIN c = 1..Len(c)
      /\ Len(f) \in Nat /\ DOMAIN f = 1..Len(f)
  OBVIOUS
<1>3. d \in Seq(C) /\ Len(d) = Len(c) + Len(f) /\ DOMAIN d = 1..(Len(c) + Len(f))
  BY <1>1
<1>4. \A q \in 1..(Len(c) + Len(f)) : d[q] = IF q <= Len(c) THEN c[q] ELSE f[q - Len(c)]
  BY <1>1
<1>5. \A q \in DOMAIN c : q \in DOMAIN d /\ d[q] = c[q]
  BY <1>2, <1>3, <1>4
<1>6. \A q \in DOMAIN f : Len(c) + q \in DOMAIN d /\ d[Len(c) + q] = f[q]
  <2> SUFFICES ASSUME NEW q \in 1..Len(f) PROVE Len(c) + q \in 1..(Len(c) + Len(f)) /\ d[Len(c) + q] = f[q]
    BY <1>2, <1>3
  <2>1. Len(c) + q \in 1..(Len(c) + Len(f)) /\ ~(Len(c) + q <= Len(c)) /\ (Len(c) + q) - Len(c) = q
    BY <1>2
  <2> QED BY <1>4, <2>1
<1>7. \A q \in DOMAIN d : \/ q \in DOMAIN c /\ d[q] = c[q]
                          \/ q - Len(c) \in DOMAIN f /\ d[q] = f[q - Len(c)]
  BY <1>2, <1>3, <1>4
<1> QED BY <1>3, <1>5, <1>6, <1>7

\* A front, or part of the last one, joins.
LEMMA JoinedElite ==
  ASSUME NEW pop, NEW N \in Nat, NEW count \in Nat, NEW R \in SUBSET (1..N),
         NEW c, Elite(pop, N, count, c, R), NEW f, Joins(c, f, Heads(pop, R), count)
  PROVE  Elite(pop, N, count, c \o f, R \ Heads(pop, R))
<1> DEFINE H == Heads(pop, R)
           D == 1..N
           d == c \o f
<1>1. H \subseteq R /\ R \subseteq D /\ \A i \in H, j \in R : ~Dominates(pop, j, i)
  BY DEF Heads
<1>2. c \in Seq(D) /\ Len(c) \in Nat /\ DOMAIN c = 1..Len(c)
  BY DEF Elite
<1>3. f \in Seq(H) /\ Len(f) \in Nat /\ DOMAIN f = 1..Len(f)
  BY DEF Joins
<1> HIDE DEF H
<1>4. /\ d \in Seq(D) /\ Len(d) = Len(c) + Len(f)
      /\ \A q \in DOMAIN c : q \in DOMAIN d /\ d[q] = c[q]
      /\ \A q \in DOMAIN f : Len(c) + q \in DOMAIN d /\ d[Len(c) + q] = f[q]
      /\ \A q \in DOMAIN d : \/ q \in DOMAIN c /\ d[q] = c[q]
                             \/ q - Len(c) \in DOMAIN f /\ d[q] = f[q - Len(c)]
  <2>1. H \subseteq D
    BY <1>1
  <2> HIDE DEF D, d
  <2>2. d = c \o f
    BY DEF d
  <2> QED BY <1>2, <1>3, <2>1, <2>2, JoinedIs
<1> HIDE DEF d
<1>5. Len(d) <= count
  BY <1>4 DEF Joins
<1>6. \A q \in DOMAIN c : c[q] \notin R
  BY DEF Elite
<1>7. \A q \in DOMAIN f : f[q] \in H
  BY <1>3
<1>8. Distinct(d)
  <2> SUFFICES ASSUME NEW m \in DOMAIN d, NEW n \in DOMAIN d, d[m] = d[n] PROVE m = n
    BY DEF Distinct
  <2>0. DOMAIN d = 1..Len(d) /\ m \in Int /\ n \in Int
    BY <1>4
  <2>1. CASE m \in DOMAIN c /\ d[m] = c[m] /\ n \in DOMAIN c /\ d[n] = c[n]
    BY <2>1 DEF Elite, Distinct
  <2>2. CASE m \in DOMAIN c /\ d[m] = c[m] /\ n - Len(c) \in DOMAIN f /\ d[n] = f[n - Len(c)]
    BY <1>1, <1>6, <1>7, <2>2
  <2>3. CASE n \in DOMAIN c /\ d[n] = c[n] /\ m - Len(c) \in DOMAIN f /\ d[m] = f[m - Len(c)]
    BY <1>1, <1>6, <1>7, <2>3
  <2>4. CASE m - Len(c) \in DOMAIN f /\ d[m] = f[m - Len(c)] /\ n - Len(c) \in DOMAIN f /\ d[n] = f[n - Len(c)]
    <3>1. m - Len(c) = n - Len(c)
      BY <2>4 DEF Joins, Distinct
    <3> QED BY <1>2, <2>0, <3>1
  <2> QED BY <1>4, <2>1, <2>2, <2>3, <2>4
<1>9. \A q \in DOMAIN d : d[q] \notin R \ H
  BY <1>4, <1>6, <1>7
<1>10. CASE Len(c) = count
  <2>1. Len(f) = 0
    BY <1>2, <1>3, <1>10 DEF Joins
  <2>2. DOMAIN f = {}
    BY <1>3, <2>1
  <2>3. \A q \in DOMAIN d : q \in DOMAIN c /\ d[q] = c[q]
    BY <1>4, <2>2
  <2>4. \A q \in DOMAIN d, j \in D : (\A m \in DOMAIN d : d[m] # j) => ~Dominates(pop, j, d[q])
    BY <1>4, <2>3 DEF Elite
  <2>5. Len(d) = count
    BY <1>2, <1>4, <1>10, <2>1
  <2> QED BY <1>4, <1>5, <1>8, <1>9, <2>4, <2>5 DEF Elite, d, H
<1>11. CASE Len(c) # count
  <2>1. \A i \in D \ R : \E q \in DOMAIN c : c[q] = i
    BY <1>11 DEF Elite
  <2>2. Len(d) = count \/ \A i \in H : \E q \in DOMAIN f : f[q] = i
    BY <1>4 DEF Joins, H
  <2>3. Len(d) = count \/ \A i \in D \ (R \ H) : \E q \in DOMAIN d : d[q] = i
    BY <1>4, <2>1, <2>2
  <2>4. ASSUME NEW q \in DOMAIN d, NEW j \in D, \A m \in DOMAIN d : d[m] # j
        PROVE  ~Dominates(pop, j, d[q])
    <3>1. \A m \in DOMAIN c : c[m] # j
      BY <1>4, <2>4
    <3>2. CASE q \in DOMAIN c /\ d[q] = c[q]
      BY <3>1, <3>2 DEF Elite
    <3>3. CASE q - Len(c) \in DOMAIN f /\ d[q] = f[q - Len(c)]
      <4>1. j \in R
        BY <2>1, <3>1
      <4> QED BY <1>1, <1>7, <3>3, <4>1
    <3> QED BY <1>4, <3>2, <3>3
  <2> QED BY <1>4, <1>5, <1>8, <1>9, <2>3, <2>4 DEF Elite, d, H
<1> QED BY <1>10, <1>11

\* What Taken adds is such a part.
LEMMA TakenIs ==
  ASSUME NEW pop, NEW N, Rated(pop, N), NEW count \in Nat, NEW R \in SUBSET (1..N),
         NEW front \in Seq(1..N), Enumerates(front, Heads(pop, R)),
         NEW c \in Seq(1..N), Len(c) <= count
  PROVE  \E f : Taken(pop, count, c, front) = c \o f /\ Joins(c, f, Heads(pop, R), count)
<1> DEFINE H == Heads(pop, R)
           l == Ranked(pop, front)
           k == count - Len(c)
<1>1. Enumerates(l, H) /\ l \in [1..Len(front) -> H]
  <2>1. CASE use_crowding
    BY <2>1, LeastCrowdedIs DEF Ranked
  <2>2. CASE ~use_crowding
    <3>1. l = front
      BY <2>2 DEF Ranked
    <3>2. front \in Seq(H) /\ DOMAIN front = 1..Len(front)
      BY DEF Enumerates
    <3> QED BY <3>1, <3>2
  <2> QED BY <2>1, <2>2
<1> HIDE DEF H, l
<1>2. Len(c) \in Nat /\ Len(front) \in Nat
  OBVIOUS
<1>3. front \in Seq(H) /\ Distinct(front) /\ \A i \in H : \E q \in DOMAIN front : front[q] = i
  BY DEF Enumerates, Distinct, H
<1>4. CASE Len(c) + Len(front) <= count
  <2>1. Taken(pop, count, c, front) = c \o front
    BY <1>4 DEF Taken
  <2>2. Joins(c, front, H, count)
    BY <1>3, <1>4 DEF Joins
  <2> QED BY <2>1, <2>2 DEF H
<1>5. CASE ~(Len(c) + Len(front) <= count)
  <2> DEFINE f == SubSeq(l, 1, k)
  <2>1. Taken(pop, count, c, front) = c \o f
    BY <1>5 DEF Taken, l
  <2>2. l \in Seq(H) /\ Len(l) = Len(front) /\ k \in Nat /\ k <= Len(l)
    BY <1>1, <1>2, <1>5 DEF Enumerates
  <2> HIDE DEF k
  <2>3. f \in Seq(H) /\ Len(f) = k /\ DOMAIN f = 1..k /\ \A q \in 1..k : q \in DOMAIN l /\ f[q] = l[q]
    BY <2>2
  <2> HIDE DEF f
  <2>4. Distinct(f)
    BY <1>1, <2>3 DEF Enumerates, Distinct
  <2>5. Len(c) + k = count
    BY <1>2 DEF k
  <2>6. Joins(c, f, H, count)
    BY <2>3, <2>4, <2>5 DEF Joins
  <2> QED BY <2>1, <2>6 DEF H
<1> QED BY <1>4, <1>5

\* The selection keeps as many as it is asked for, each of them once, and
\* nobody it leaves out dominates one of them.
Selection(pop, N, count, chosen) ==
  /\ chosen \in [1..count -> 1..N]
  /\ \A q \in 1..count, j \in 1..N : (\A m \in 1..count : chosen[m] # j) => ~Dominates(pop, j, chosen[q])

LEMMA SelectBestIs ==
  ASSUME NEW pop, NEW N, Rated(pop, N), NEW count \in 0..N
  PROVE  \E chosen : /\ Selection(pop, N, count, chosen)
                     /\ select_best(pop, count) = [r \in 1..count |-> pop[chosen[r]]]
<1> DEFINE fronts == Fronts(pop)
           Taking(c, n) == Taken(pop, count, c, fronts[n])
           T == {c \in Seq(1..N) : Len(c) <= count}
           chosen == CHOOSE g : g = [n \in 0..N |-> IF n = 0 THEN <<>> ELSE Taking(g[n - 1], n)]
           step == [n \in 1..N |-> [c \in T |-> Taking(c, n)]]
<1>1. N \in Nat /\ count \in Nat /\ count <= N
  BY DEF Rated
<1>2. PICK rest : Layers(fronts, rest, pop, N)
  BY FrontsAre
<1>3. Len(fronts) = N
  BY <1>1, <1>2 DEF Layers
<1>4. select_best(pop, count) = At(pop, chosen[N])
  BY <1>3 DEF select_best
<1> HIDE DEF chosen, fronts
<1>5. ASSUME NEW n \in 1..N, NEW c \in T
      PROVE  \E f : Taking(c, n) = c \o f /\ Joins(c, f, Heads(pop, rest[n - 1]), count)
  <2>1. rest[n - 1] \in SUBSET (1..N) /\ fronts[n] \in Seq(1..N) /\ Enumerates(fronts[n], Heads(pop, rest[n - 1]))
    <3>1. n - 1 \in 0..N
      BY <1>1
    <3> QED BY <1>2, <3>1 DEF Layers
  <2>2. c \in Seq(1..N) /\ Len(c) <= count
    OBVIOUS
  <2> QED BY <1>1, <2>1, <2>2, TakenIs
<1>6. ASSUME NEW n \in 1..N, NEW c \in T PROVE Taking(c, n) \in T
  <2>1. PICK f : Taking(c, n) = c \o f /\ Joins(c, f, Heads(pop, rest[n - 1]), count)
    BY <1>5
  <2>2. n - 1 \in 0..N
    BY <1>1
  <2>3. Heads(pop, rest[n - 1]) \subseteq 1..N
    BY <1>2, <2>2 DEF Layers, Heads
  <2>4. f \in Seq(1..N) /\ c \in Seq(1..N) /\ Len(c) + Len(f) <= count
    BY <2>1, <2>3, SeqWider DEF Joins
  <2>5. c \o f \in Seq(1..N) /\ Len(c \o f) = Len(c) + Len(f)
    BY <2>4, Concatenated
  <2> HIDE DEF Taking
  <2> QED BY <2>1, <2>4, <2>5
<1> HIDE DEF Taking
<1>7. <<>> \in T
  BY <1>1
<1> HIDE DEF T
<1>8. Steps(N, T, <<>>, step)
  BY <1>1, <1>6, <1>7 DEF Steps
<1>9. chosen = [n \in 0..N |-> IF n = 0 THEN <<>> ELSE Taking(chosen[n - 1], n)]
  <2>1. PICK g : Follows(g, N, T, <<>>, step)
    <3> HIDE DEF step
    <3> QED BY <1>8, StepByStep
  <2>2. ASSUME NEW n \in 0..N PROVE g[n] = IF n = 0 THEN <<>> ELSE Taking(g[n - 1], n)
    <3>1. CASE n = 0
      BY <2>1, <3>1 DEF Follows
    <3>2. CASE n # 0
      <4>1. n \in 1..N /\ n - 1 \in 0..N
        BY <1>1, <3>2
      <4>2. g[n] = step[n][g[n - 1]] /\ g[n - 1] \in T
        BY <2>1, <4>1 DEF Follows
      <4> QED BY <3>2, <4>1, <4>2
    <3> QED BY <3>1, <3>2
  <2>3. g = [n \in 0..N |-> IF n = 0 THEN <<>> ELSE Taking(g[n - 1], n)]
    BY <2>1, <2>2 DEF Follows
  <2> QED BY <2>3 DEF chosen, Taking
<1>10. chosen[0] = <<>> /\ \A n \in 1..N : chosen[n] = Taking(chosen[n - 1], n)
  BY <1>1, <1>9
<1> DEFINE Right(n) == Elite(pop, N, count, chosen[n], rest[n])
           Wrong == {n \in 0..N : ~Right(n)}
<1>11. Right(0)
  <2>1. rest[0] = 1..N
    BY <1>2 DEF Layers
  <2>2. DOMAIN <<>> = {} /\ <<>> \in Seq(1..N) /\ Len(<<>>) = 0
    OBVIOUS
  <2> QED BY <1>1, <1>10, <2>1, <2>2 DEF Elite, Distinct
<1>12. ASSUME NEW n \in 1..N, Right(n - 1) PROVE Right(n)
  <2>1. n - 1 \in 0..N
    BY <1>1
  <2>2. rest[n - 1] \in SUBSET (1..N) /\ rest[n] = rest[n - 1] \ Heads(pop, rest[n - 1])
    BY <1>2, <2>1 DEF Layers
  <2>3. chosen[n - 1] \in T
    BY <1>12 DEF Elite, T
  <2>4. PICK f : /\ Taking(chosen[n - 1], n) = chosen[n - 1] \o f
                 /\ Joins(chosen[n - 1], f, Heads(pop, rest[n - 1]), count)
    BY <1>5, <2>3
  <2>5. Elite(pop, N, count, chosen[n - 1] \o f, rest[n - 1] \ Heads(pop, rest[n - 1]))
    BY <1>1, <1>12, <2>2, <2>4, JoinedElite
  <2> QED BY <1>10, <2>2, <2>4, <2>5
<1>13. Right(N)
  <2> SUFFICES ASSUME Wrong # {} PROVE FALSE
    <3>1. N \in 0..N
      BY <1>1
    <3> QED BY <3>1
  <2> HIDE DEF Right
  <2>1. Wrong \in SUBSET Nat
    <3>1. 0..N \subseteq Nat /\ Wrong \subseteq 0..N
      BY <1>1
    <3> QED BY <3>1
  <2>2. PICK n \in Wrong : \A m \in Wrong : n <= m
    BY <2>1, LeastNumber
  <2>3. n \in 1..N /\ n - 1 \in 0..N /\ ~(n <= n - 1)
    BY <1>1, <1>11, <2>2
  <2> QED BY <1>12, <2>2, <2>3
<1> DEFINE c == chosen[N]
<1>14. /\ c \in Seq(1..N) /\ Len(c) <= count /\ Distinct(c)
       /\ Len(c) = count \/ \A i \in 1..N : \E q \in DOMAIN c : c[q] = i
       /\ \A q \in DOMAIN c, j \in 1..N : (\A m \in DOMAIN c : c[m] # j) => ~Dominates(pop, j, c[q])
  <2>1. rest[N] = {}
    BY <1>2 DEF Layers
  <2> QED BY <1>13, <2>1 DEF Elite
<1> HIDE DEF c
<1>15. Len(c) \in Nat /\ DOMAIN c = 1..Len(c) /\ c \in [1..Len(c) -> 1..N]
  <2> DEFINE D == 1..N
  <2>1. c \in Seq(D)
    BY <1>14
  <2> HIDE DEF D
  <2>2. Len(c) \in Nat /\ DOMAIN c = 1..Len(c) /\ c \in [1..Len(c) -> D]
    BY <2>1
  <2> QED BY <2>2 DEF D
<1>16. Len(c) = count
  <2> SUFFICES ASSUME Len(c) # count PROVE FALSE
    OBVIOUS
  <2> DEFINE D == 1..N
  <2>1. Enumerates(c, D)
    BY <1>14 DEF Enumerates, Distinct
  <2>2. Cardinality(D) = N
    <3>1. 1 \in Int /\ N \in Int
      BY <1>1
    <3> QED BY <1>1, <3>1, FS_Interval
  <2>3. c \in [1..Len(c) -> D] /\ Len(c) \in Nat
    BY <1>15
  <2> HIDE DEF D
  <2>4. Cardinality(D) = Len(c)
    BY <2>1, <2>3, EnumeratesAll
  <2> QED BY <1>1, <1>14, <2>2, <2>4
<1>17. Selection(pop, N, count, c)
  BY <1>14, <1>15, <1>16 DEF Selection
<1>18. select_best(pop, count) = [r \in 1..count |-> pop[c[r]]]
  BY <1>4, <1>15, <1>16 DEF At, c
<1> QED BY <1>17, <1>18
\* get_best is one of them, and nobody dominates it.
LEMMA GetBestIs ==
  ASSUME NEW pop, NEW N, Rated(pop, N), N # 0
  PROVE  \E i \in 1..N : get_best(pop) = pop[i] /\ \A j \in 1..N : ~Dominates(pop, j, i)
<1> DEFINE front == Fronts(pop)[1]
           D == 1..N
           H == Heads(pop, D)
           l == LeastCrowded(pop, front)
<1>1. N \in Nat /\ 1 \in 1..N /\ 1 - 1 = 0
  BY DEF Rated
<1>2. PICK rest : Layers(Fronts(pop), rest, pop, N)
  BY FrontsAre
<1>3. front \in Seq(1..N) /\ Enumerates(front, H)
  BY <1>1, <1>2 DEF Layers
<1>4. H # {} /\ \A i \in H : i \in 1..N /\ \A j \in 1..N : ~Dominates(pop, j, i)
  <2>1. H # {}
    BY <1>1, HeadsExist
  <2> QED BY <2>1 DEF Heads
<1> HIDE DEF H, front
<1>5. l \in [1..Len(front) -> H]
  BY <1>3, LeastCrowdedIs
<1>6. Len(front) \in Nat /\ Len(front) # 0 /\ front # <<>>
  <2>1. PICK q \in DOMAIN front : TRUE
    BY <1>3, <1>4 DEF Enumerates
  <2> QED BY <1>3, <2>1
<1>7. l[1] \in H
  BY <1>5, <1>6
<1>8. get_best(pop) = pop[l[1]]
  BY <1>6 DEF get_best, front
<1> HIDE DEF l
<1> QED BY <1>4, <1>7, <1>8
-----------------------------------------------------------------------------
(* Generations.                                                            *)

\* The objectives of one benchmark are among those of another: as they are
\* where a benchmark always measures the same.
ObjectivesNested == \A r, s \in Runtime : DOMAIN r \subseteq DOMAIN s \/ DOMAIN s \subseteq DOMAIN r

Passed == {Blended(f, r) : f \in Fitness, r \in Runtime}
Failed == {[k \in DOMAIN f |-> Infinity] : f \in Fitness}

IsCandidate(x) == x.valid \in BOOLEAN /\ x = [id |-> x.id, fitness |-> x.fitness, valid |-> x.valid]

Fresh(x)    == IsCandidate(x) /\ x.fitness = Unmeasured /\ ~x.valid
Measured(x) == IsCandidate(x) /\ x.fitness \in IF x.valid THEN Passed ELSE Failed

Filled(pop) == pop \in [1..population_size -> Range(pop)]

\* Everybody has been measured from the first evaluation on, and once somebody
\* has passed, somebody who has passed is still there.
EvolutionInv ==
  /\ phase \in {"evaluate", "breed", "evaluate offspring", "select", "best", "done"}
  /\ Filled(population)
  /\ \A i \in DOMAIN population : \/ Measured(population[i])
                                  \/ phase = "evaluate" /\ Fresh(population[i])
  /\ phase = "evaluate offspring" => Filled(offspring) /\ \A i \in DOMAIN offspring : Fresh(offspring[i])
  /\ phase = "select" => Filled(offspring) /\ \A i \in DOMAIN offspring : Measured(offspring[i])
  /\ best_candidate = NoOne \/ Measured(best_candidate)
  /\ everValid \in BOOLEAN
  /\ everValid => Valid(population) \/ (phase = "select" /\ Valid(offspring))
  /\ phase = "best" => \A out \in dropped, i \in DOMAIN population :
       ~is_dominant(out.fitness, population[i].fitness)
  /\ BestIsValid

\* What is measured is comparable.
LEMMA MetricsAre ==
  ASSUME ObjectivesNested
  PROVE  /\ \A f \in Passed \cup Failed : IsFiniteSet(DOMAIN f) /\ f \in [DOMAIN f -> Int] /\ DOMAIN f # {}
         /\ \A f, g \in Passed \cup Failed : DOMAIN f \subseteq DOMAIN g \/ DOMAIN g \subseteq DOMAIN f
<1>1. /\ \A f \in Fitness : IsFiniteSet(DOMAIN f) /\ f \in [DOMAIN f -> Int] /\ DOMAIN f # {}
      /\ \A f, g \in Fitness : DOMAIN f = DOMAIN g
      /\ \A r \in Runtime : IsFiniteSet(DOMAIN r) /\ r \in [DOMAIN r -> Int]
  BY EvolutionAssumption DEF IsMetrics
<1>2. ASSUME NEW f \in Fitness, NEW r \in Runtime, NEW g, g = Blended(f, r)
      PROVE  DOMAIN g = DOMAIN f \cup DOMAIN r /\ IsFiniteSet(DOMAIN g) /\ g \in [DOMAIN g -> Int] /\ DOMAIN g # {}
  <2>1. DOMAIN g = DOMAIN f \cup DOMAIN r
    BY <1>2 DEF Blended
  <2>2. IsFiniteSet(DOMAIN g)
    <3> DEFINE A == DOMAIN f
               B == DOMAIN r
    <3>1. IsFiniteSet(A) /\ IsFiniteSet(B)
      BY <1>1
    <3> HIDE DEF A, B
    <3>2. IsFiniteSet(A \cup B)
      BY <3>1, FS_Union
    <3> QED BY <2>1, <3>2 DEF A, B
  <2>3. \A k \in DOMAIN g : g[k] \in Int
    BY <1>1, <1>2 DEF Blended
  <2>4. g = [k \in DOMAIN g |-> g[k]]
    BY <1>2 DEF Blended
  <2>5. g \in [DOMAIN g -> Int]
    BY <2>3, <2>4
  <2> QED BY <1>1, <2>1, <2>2, <2>5
<1>3. ASSUME NEW f \in Fitness, NEW g, g = [k \in DOMAIN f |-> Infinity]
      PROVE  DOMAIN g = DOMAIN f /\ IsFiniteSet(DOMAIN g) /\ g \in [DOMAIN g -> Int] /\ DOMAIN g # {}
  <2>1. DOMAIN g = DOMAIN f
    BY <1>3
  <2>2. g \in [DOMAIN f -> Int]
    BY <1>3 DEF Infinity
  <2> QED BY <1>1, <2>1, <2>2
<1>4. ASSUME NEW g \in Passed \cup Failed
      PROVE  IsFiniteSet(DOMAIN g) /\ g \in [DOMAIN g -> Int] /\ DOMAIN g # {}
  <2>1. CASE g \in Passed
    <3>1. PICK f \in Fitness, r \in Runtime : g = Blended(f, r)
      BY <2>1 DEF Passed
    <3> QED BY <1>2, <3>1
  <2>2. CASE g \in Failed
    <3>1. PICK f \in Fitness : g = [k \in DOMAIN f |-> Infinity]
      BY <2>2 DEF Failed
    <3> QED BY <1>3, <3>1
  <2> QED BY <2>1, <2>2
<1>5. ASSUME NEW f \in Passed \cup Failed
      PROVE  \E b \in Fitness : DOMAIN f = DOMAIN b \/ \E r \in Runtime : DOMAIN f = DOMAIN b \cup DOMAIN r
  BY <1>2, <1>3 DEF Passed, Failed
<1>6. ASSUME NEW f \in Passed \cup Failed, NEW g \in Passed \cup Failed
      PROVE  DOMAIN f \subseteq DOMAIN g \/ DOMAIN g \subseteq DOMAIN f
  <2>1. PICK b \in Fitness : DOMAIN f = DOMAIN b \/ \E r \in Runtime : DOMAIN f = DOMAIN b \cup DOMAIN r
    BY <1>5
  <2>2. PICK c \in Fitness : DOMAIN g = DOMAIN c \/ \E r \in Runtime : DOMAIN g = DOMAIN c \cup DOMAIN r
    BY <1>5
  <2>3. DOMAIN b = DOMAIN c
    BY <1>1
  <2> QED BY <2>1, <2>2, <2>3 DEF ObjectivesNested
<1> QED BY <1>4, <1>6

\* Whoever passed dominates whoever failed.
LEMMA PassedDominates ==
  ASSUME NEW x, NEW y, Measured(x), Measured(y), x.valid, ~y.valid
  PROVE  is_dominant(x.fitness, y.fitness)
<1>1. PICK f \in Fitness, r \in Runtime : x.fitness = Blended(f, r)
  BY DEF Measured, Passed
<1>2. PICK g \in Fitness : y.fitness = [k \in DOMAIN g |-> Infinity]
  BY DEF Measured, Failed
<1>3. /\ DOMAIN f = DOMAIN g /\ DOMAIN f # {} /\ DOMAIN f \cap DOMAIN r = {}
      /\ \A k \in DOMAIN f : f[k] \in Int /\ f[k] < Infinity
  BY EvolutionAssumption DEF IsMetrics
<1>4. DOMAIN x.fitness = DOMAIN f \cup DOMAIN r /\ DOMAIN y.fitness = DOMAIN f
  BY <1>1, <1>2, <1>3 DEF Blended
<1>5. \A k \in DOMAIN f : x.fitness[k] = f[k] /\ y.fitness[k] = Infinity
  BY <1>1, <1>2, <1>3 DEF Blended
<1>6. DOMAIN x.fitness \cap DOMAIN y.fitness = DOMAIN f
  BY <1>4
<1> QED BY <1>3, <1>5, <1>6 DEF is_dominant, Infinity

\* The optimizer's lemmas hold of what has been measured.
LEMMA MeasuredRated ==
  ASSUME ObjectivesNested, NEW N \in Nat, NEW pop, Len(pop) = N, DOMAIN pop = 1..N,
         \A i \in 1..N : Measured(pop[i])
  PROVE  Rated(pop, N)
<1> DEFINE fit == [i \in 1..N |-> pop[i].fitness]
<1>1. \A i \in 1..N : fit[i] \in Passed \cup Failed /\ fit[i] = pop[i].fitness
  BY DEF Measured
<1>2. \A i \in 1..N : IsFiniteSet(DOMAIN fit[i]) /\ fit[i] \in [DOMAIN fit[i] -> Int]
  BY <1>1, MetricsAre
<1>3. \A i, j \in 1..N : DOMAIN fit[i] \subseteq DOMAIN fit[j] \/ DOMAIN fit[j] \subseteq DOMAIN fit[i]
  BY <1>1, MetricsAre
<1> HIDE DEF fit
<1>4. Comparable(1..N, fit)
  BY <1>2, <1>3 DEF Comparable
<1> QED BY <1>1, <1>2, <1>4 DEF Rated, fit

\* A population has its size.
LEMMA FilledIs ==
  ASSUME NEW pop, Filled(pop)
  PROVE  /\ population_size \in Nat /\ population_size # 0
         /\ pop \in Seq(Range(pop)) /\ Len(pop) = population_size /\ DOMAIN pop = 1..population_size
         /\ pop # <<>>
<1>1. population_size \in Nat /\ population_size # 0
  BY EvolutionAssumption
<1>2. pop \in [1..population_size -> Range(pop)]
  BY DEF Filled
<1> DEFINE R == Range(pop)
<1> HIDE DEF R
<1>3. pop \in [1..population_size -> R]
  BY <1>2 DEF R
<1>4. pop \in Seq(R) /\ Len(pop) = population_size /\ DOMAIN pop = 1..population_size
  BY <1>1, <1>3
<1> QED BY <1>1, <1>4 DEF R

LEMMA FilledBy ==
  ASSUME NEW pop, DOMAIN pop = 1..population_size, pop = [i \in 1..population_size |-> pop[i]]
  PROVE  Filled(pop)
BY DEF Filled, Range

\* _evaluate_population
LEMMA EvaluationsAre ==
  ASSUME ObjectivesNested, NEW old, Filled(old),
         \A i \in DOMAIN old : Measured(old[i]) \/ Fresh(old[i]),
         NEW after \in Evaluations(old)
  PROVE  /\ Filled(after) /\ \A i \in DOMAIN after : Measured(after[i])
         /\ Valid(old) => Valid(after)
<1> DEFINE new == {i \in DOMAIN old : old[i].fitness = Unmeasured}
           P == IF Hook = "gate" THEN BOOLEAN ELSE {TRUE}
<1>1. PICK f \in [new -> Fitness], r \in [new -> Runtime], p \in [new -> P] :
        after = Measure(old, f, r, p)
  <2>1. Evaluations(old)
          = {Measure(old, f, r, p) : f \in [new -> Fitness], r \in [new -> Runtime], p \in [new -> P]}
    BY DEF Evaluations
  <2> HIDE DEF new, P
  <2> QED BY <2>1
<1>2. DOMAIN old = 1..population_size
  BY FilledIs
<1>3. DOMAIN after = 1..population_size /\ Filled(after)
  BY <1>1, <1>2, FilledBy DEF Measure
<1>4. \A i \in new : f[i] \in Fitness /\ r[i] \in Runtime /\ p[i] \in BOOLEAN
  OBVIOUS
<1>5. ASSUME NEW i \in DOMAIN old
      PROVE  Measured(after[i]) /\ (old[i].valid => after[i].valid)
  <2>1. CASE i \in new
    <3>1. after[i] = Evaluated(old[i], f[i], r[i], p[i])
      BY <1>1, <2>1 DEF Measure
    <3>2. ~old[i].valid /\ IsCandidate(old[i])
      <4>1. Measured(old[i]) => old[i].fitness \in Passed \cup Failed
        BY DEF Measured
      <4>2. old[i].fitness = Unmeasured
        BY <2>1
      <4>3. DOMAIN Unmeasured = {}
        BY DEF Unmeasured
      <4>4. ~Measured(old[i])
        BY <4>1, <4>2, <4>3, MetricsAre
      <4> QED BY <4>4 DEF Fresh
    <3> DEFINE g == IF p[i] THEN Blended(f[i], r[i]) ELSE [k \in DOMAIN f[i] |-> Infinity]
    <3>3. g \in IF p[i] THEN Passed ELSE Failed
      BY <1>4, <2>1 DEF Passed, Failed
    <3>4. after[i] = [old[i] EXCEPT !.fitness = g, !.valid = p[i]]
      BY <3>1 DEF Evaluated
    <3> HIDE DEF g
    <3>5. after[i] = [id |-> old[i].id, fitness |-> g, valid |-> p[i]]
      BY <3>2, <3>4 DEF IsCandidate
    <3>6. p[i] \in BOOLEAN
      BY <1>4, <2>1
    <3> QED BY <3>2, <3>3, <3>5, <3>6 DEF Measured, IsCandidate
  <2>2. CASE i \notin new
    <3>1. after[i] = old[i]
      BY <1>1, <2>2 DEF Measure
    <3>2. ~Fresh(old[i])
      BY <2>2 DEF Fresh
    <3> QED BY <3>1, <3>2
  <2> QED BY <2>1, <2>2
<1>6. Valid(old) => Valid(after)
  BY <1>2, <1>3, <1>5 DEF Valid
<1> QED BY <1>2, <1>3, <1>5, <1>6

\* Parents and children together.
Pool(pool, a, b) ==
  /\ Len(pool) = population_size + population_size /\ DOMAIN pool = 1..Len(pool)
  /\ \A i \in DOMAIN pool : \/ i \in DOMAIN a /\ pool[i] = a[i]
                            \/ i - population_size \in DOMAIN b /\ pool[i] = b[i - population_size]
  /\ \A x \in Range(a) \cup Range(b) : \E i \in DOMAIN pool : pool[i] = x

LEMMA PoolIs ==
  ASSUME NEW a, NEW b, Filled(a), Filled(b), NEW pool, pool = a \o b PROVE Pool(pool, a, b)
<1> DEFINE A == Range(a)
           B == Range(b)
           C == A \cup B
<1>1. /\ a \in Seq(A) /\ Len(a) = population_size /\ b \in Seq(B) /\ Len(b) = population_size
      /\ population_size \in Nat
      /\ \A x \in A : \E i \in DOMAIN a : a[i] = x
      /\ \A x \in B : \E i \in DOMAIN b : b[i] = x
  BY FilledIs DEF Range
<1> HIDE DEF A, B
<1>2. a \in Seq(C) /\ B \subseteq C
  BY <1>1, SeqWider
<1> HIDE DEF C
<1>3. /\ pool \in Seq(C) /\ Len(pool) = Len(a) + Len(b)
      /\ \A q \in DOMAIN a : q \in DOMAIN pool /\ pool[q] = a[q]
      /\ \A q \in DOMAIN b : Len(a) + q \in DOMAIN pool /\ pool[Len(a) + q] = b[q]
      /\ \A q \in DOMAIN pool : \/ q \in DOMAIN a /\ pool[q] = a[q]
                                \/ q - Len(a) \in DOMAIN b /\ pool[q] = b[q - Len(a)]
  <2>1. a \in Seq(C) /\ b \in Seq(B) /\ B \subseteq C /\ pool = a \o b
    BY <1>1, <1>2
  <2> QED BY ONLY <2>1, JoinedIs
<1>4. DOMAIN pool = 1..Len(pool)
  BY <1>3
<1>5. ASSUME NEW x \in A \cup B PROVE \E i \in DOMAIN pool : pool[i] = x
  <2>1. CASE x \in A
    <3>1. PICK q \in DOMAIN a : a[q] = x
      BY <1>1, <2>1
    <3> QED BY <1>3, <3>1
  <2>2. CASE x \in B
    <3>1. PICK q \in DOMAIN b : b[q] = x
      BY <1>1, <2>2
    <3> QED BY <1>3, <3>1
  <2> QED BY <2>1, <2>2
<1> QED BY <1>1, <1>3, <1>4, <1>5 DEF A, B, Pool

\* _update_population
LEMMA SelectedIs ==
  ASSUME ObjectivesNested, NEW a, NEW b, Filled(a), Filled(b),
         \A i \in DOMAIN a : Measured(a[i]), \A i \in DOMAIN b : Measured(b[i]),
         NEW kept, kept = select_best(a \o b, population_size)
  PROVE  /\ Filled(kept) /\ \A i \in DOMAIN kept : Measured(kept[i])
         /\ \A out \in (Range(a) \cup Range(b)) \ Range(kept), i \in DOMAIN kept :
              ~is_dominant(out.fitness, kept[i].fitness)
         /\ Valid(a) \/ Valid(b) => Valid(kept)
<1> DEFINE pool == a \o b
           N == Len(pool)
<1>1. /\ population_size \in Nat /\ population_size # 0
      /\ DOMAIN a = 1..population_size /\ DOMAIN b = 1..population_size
  BY FilledIs
<1>2. /\ N = population_size + population_size /\ DOMAIN pool = 1..N
      /\ \A i \in DOMAIN pool : \/ i \in DOMAIN a /\ pool[i] = a[i]
                                \/ i - population_size \in DOMAIN b /\ pool[i] = b[i - population_size]
      /\ \A x \in Range(a) \cup Range(b) : \E i \in DOMAIN pool : pool[i] = x
  <2>1. pool = a \o b
    OBVIOUS
  <2> HIDE DEF pool
  <2>2. Pool(pool, a, b)
    BY <2>1, PoolIs
  <2> QED BY <2>2 DEF Pool
<1> HIDE DEF pool
<1>3. \A i \in 1..N : Measured(pool[i])
  BY <1>2
<1>4. Rated(pool, N)
  BY <1>1, <1>2, <1>3, MeasuredRated
<1>5. PICK chosen : /\ Selection(pool, N, population_size, chosen)
                    /\ kept = [r \in 1..population_size |-> pool[chosen[r]]]
  <2>1. population_size \in 0..N
    BY <1>1, <1>2
  <2>2. kept = select_best(pool, population_size)
    BY DEF pool
  <2> QED BY <1>4, <2>1, <2>2, SelectBestIs
<1>6. \A r \in 1..population_size : chosen[r] \in 1..N /\ kept[r] = pool[chosen[r]]
  BY <1>5 DEF Selection
<1>7. DOMAIN kept = 1..population_size /\ Filled(kept)
  BY <1>5, FilledBy
<1>8. \A i \in DOMAIN kept : Measured(kept[i])
  BY <1>3, <1>6, <1>7
<1>9. ASSUME NEW out \in (Range(a) \cup Range(b)) \ Range(kept), NEW i \in DOMAIN kept
      PROVE  ~is_dominant(out.fitness, kept[i].fitness)
  <2>1. PICK j \in 1..N : pool[j] = out
    BY <1>2
  <2>2. \A m \in 1..population_size : chosen[m] # j
    BY <1>6, <1>7, <2>1 DEF Range
  <2>3. ~Dominates(pool, j, chosen[i])
    BY <1>5, <1>7, <2>2 DEF Selection
  <2> QED BY <1>6, <1>7, <2>1, <2>3 DEF Dominates
<1>10. ASSUME Valid(a) \/ Valid(b) PROVE Valid(kept)
  <2>1. PICK x \in Range(a) \cup Range(b) : x.valid /\ Measured(x)
    <3>1. CASE Valid(a)
      <4>1. PICK i \in DOMAIN a : a[i].valid
        BY <3>1 DEF Valid
      <4> QED BY <4>1 DEF Range
    <3>2. CASE Valid(b)
      <4>1. PICK i \in DOMAIN b : b[i].valid
        BY <3>2 DEF Valid
      <4> QED BY <4>1 DEF Range
    <3> QED BY <1>10, <3>1, <3>2
  <2>2. CASE x \in Range(kept)
    <3>1. PICK i \in DOMAIN kept : kept[i] = x
      BY <2>2 DEF Range
    <3> QED BY <2>1, <3>1 DEF Valid
  <2>3. CASE x \notin Range(kept)
    <3>1. 1 \in DOMAIN kept
      BY <1>1, <1>7
    <3>2. ~is_dominant(x.fitness, kept[1].fitness)
      BY <1>9, <2>3, <3>1
    <3>3. kept[1].valid
      <4>1. Measured(kept[1])
        BY <1>8, <3>1
      <4> QED BY <2>1, <3>2, <4>1, PassedDominates
    <3> QED BY <3>1, <3>3 DEF Valid
  <2> QED BY <2>2, <2>3
<1> QED BY <1>7, <1>8, <1>9, <1>10

\* One lemma to each step of the loop.
LEMMA EvolutionInit_Inv == ASSUME EvolutionInit PROVE EvolutionInv
<1>1. population = [i \in 1..population_size |-> Candidate(0, i)] /\ DOMAIN population = 1..population_size
  BY DEF EvolutionInit
<1>2. Filled(population)
  BY <1>1, FilledBy
<1>3. \A i \in DOMAIN population : Fresh(population[i])
  BY <1>1 DEF Fresh, IsCandidate, Candidate
<1>4. phase = "evaluate" /\ best_candidate = NoOne /\ everValid = FALSE
  BY DEF EvolutionInit
<1> QED BY <1>2, <1>3, <1>4 DEF EvolutionInv, BestIsValid

LEMMA Evaluate_Inv == ASSUME ObjectivesNested, EvolutionInv, Evaluate PROVE EvolutionInv'
<1>1. /\ phase = "evaluate" /\ phase' = "breed" /\ population' \in Evaluations(population)
      /\ everValid' = (everValid \/ Valid(population'))
      /\ UNCHANGED <<offspring, best_candidate, dropped>>
  BY DEF Evaluate
<1>2. /\ Filled(population')
      /\ \A i \in DOMAIN population' : Measured(population'[i])
      /\ Valid(population) => Valid(population')
  <2>1. Filled(population) /\ \A i \in DOMAIN population : Measured(population[i]) \/ Fresh(population[i])
    BY DEF EvolutionInv
  <2> QED BY <1>1, <2>1, EvaluationsAre
<1>3. everValid' \in BOOLEAN /\ (everValid' => Valid(population'))
  BY <1>1, <1>2 DEF EvolutionInv
<1> QED BY <1>1, <1>2, <1>3 DEF EvolutionInv, BestIsValid

LEMMA Breed_Inv == ASSUME EvolutionInv, Breed PROVE EvolutionInv'
<1>1. /\ phase = "breed" /\ phase' = "evaluate offspring"
      /\ UNCHANGED <<population, best_candidate, everValid, dropped>>
      /\ \E chosen : offspring' = Offspring(chosen)
  BY DEF Breed
<1>2. Filled(offspring') /\ \A i \in DOMAIN offspring' : Fresh(offspring'[i])
  <2>1. PICK chosen : offspring' = Offspring(chosen)
    BY <1>1
  <2>2. DOMAIN offspring' = 1..population_size /\ Filled(offspring')
    BY <2>1, FilledBy DEF Offspring
  <2>3. ASSUME NEW i \in 1..population_size PROVE Fresh(offspring'[i])
    <3> DEFINE new == Candidate(generation + 1, i)
               two == IF 2 * i <= Len(chosen) THEN <<chosen[2 * i - 1].id, chosen[2 * i].id>> ELSE <<>>
    <3>1. offspring'[i] = [new EXCEPT !.id = @ \o two]
      BY <2>1 DEF Offspring
    <3> HIDE DEF two
    <3>2. offspring'[i] = [id |-> new.id \o two, fitness |-> Unmeasured, valid |-> FALSE]
      BY <3>1 DEF Candidate
    <3> QED BY <3>2 DEF Fresh, IsCandidate
  <2> QED BY <2>2, <2>3
<1> QED BY <1>1, <1>2 DEF EvolutionInv, BestIsValid

LEMMA EvaluateOffspring_Inv == ASSUME ObjectivesNested, EvolutionInv, EvaluateOffspring PROVE EvolutionInv'
<1>1. /\ phase = "evaluate offspring" /\ phase' = "select" /\ offspring' \in Evaluations(offspring)
      /\ everValid' = (everValid \/ Valid(offspring'))
      /\ UNCHANGED <<population, best_candidate, dropped>>
  BY DEF EvaluateOffspring
<1>2. Filled(offspring') /\ \A i \in DOMAIN offspring' : Measured(offspring'[i])
  <2>1. Filled(offspring) /\ \A i \in DOMAIN offspring : Measured(offspring[i]) \/ Fresh(offspring[i])
    BY <1>1 DEF EvolutionInv
  <2> QED BY <1>1, <2>1, EvaluationsAre
<1>3. everValid' \in BOOLEAN /\ (everValid' => Valid(population) \/ Valid(offspring'))
  BY <1>1 DEF EvolutionInv
<1> QED BY <1>1, <1>2, <1>3 DEF EvolutionInv, BestIsValid

LEMMA Select_Inv == ASSUME ObjectivesNested, EvolutionInv, Select PROVE EvolutionInv'
<1>1. /\ phase = "select" /\ phase' = "best"
      /\ population' = select_best(population \o offspring, population_size)
      /\ dropped' = (Range(population) \cup Range(offspring)) \ Range(population')
      /\ UNCHANGED <<offspring, best_candidate, everValid>>
  BY DEF Select
<1>2. /\ Filled(population) /\ \A i \in DOMAIN population : Measured(population[i])
      /\ Filled(offspring) /\ \A i \in DOMAIN offspring : Measured(offspring[i])
  BY <1>1 DEF EvolutionInv
<1>3. /\ Filled(population') /\ \A i \in DOMAIN population' : Measured(population'[i])
      /\ \A out \in dropped', i \in DOMAIN population' : ~is_dominant(out.fitness, population'[i].fitness)
      /\ Valid(population) \/ Valid(offspring) => Valid(population')
  BY <1>1, <1>2, SelectedIs
<1>4. everValid' => Valid(population')
  BY <1>1, <1>3 DEF EvolutionInv
<1> QED BY <1>1, <1>3, <1>4 DEF EvolutionInv, BestIsValid

LEMMA UpdateBest_Inv == ASSUME ObjectivesNested, EvolutionInv, UpdateBest PROVE EvolutionInv'
<1> DEFINE current == get_best(population)
<1>1. /\ phase = "best" /\ phase' \in {"evaluate", "done"}
      /\ best_candidate' = IF population # <<>> /\ Replaces(current) THEN current ELSE best_candidate
      /\ UNCHANGED <<population, offspring, everValid, dropped>>
  BY DEF UpdateBest
<1>2. Filled(population) /\ \A i \in DOMAIN population : Measured(population[i])
  BY <1>1 DEF EvolutionInv
<1>3. /\ population_size \in Nat /\ population_size # 0 /\ population # <<>>
      /\ Len(population) = population_size /\ DOMAIN population = 1..population_size
  BY <1>2, FilledIs
<1>4. PICK i \in 1..population_size :
        current = population[i] /\ \A j \in 1..population_size : ~Dominates(population, j, i)
  <2>1. Rated(population, population_size)
    BY <1>2, <1>3, MeasuredRated
  <2> QED BY <1>3, <2>1, GetBestIs
<1> HIDE DEF current
<1>5. Measured(current)
  BY <1>2, <1>3, <1>4
<1>6. everValid => current.valid
  <2> SUFFICES ASSUME everValid PROVE current.valid
    OBVIOUS
  <2>1. PICK j \in DOMAIN population : population[j].valid
    BY <1>1 DEF EvolutionInv, Valid
  <2>2. ~is_dominant(population[j].fitness, current.fitness)
    BY <1>3, <1>4 DEF Dominates
  <2> QED BY <1>2, <1>5, <2>1, <2>2, PassedDominates
<1>7. everValid => best_candidate'.valid
  <2>1. CASE Replaces(current)
    BY <1>1, <1>3, <1>6, <2>1
  <2>2. CASE ~Replaces(current)
    <3>1. best_candidate # NoOne /\ ~is_dominant(current.fitness, best_candidate.fitness)
      BY <2>2 DEF Replaces
    <3>2. Measured(best_candidate)
      BY <3>1 DEF EvolutionInv
    <3>3. everValid => best_candidate.valid
      BY <1>5, <1>6, <3>1, <3>2, PassedDominates
    <3> QED BY <1>1, <2>2, <3>3
  <2> QED BY <2>1, <2>2
<1>8. best_candidate' = NoOne \/ Measured(best_candidate')
  BY <1>1, <1>5 DEF EvolutionInv
<1>9. everValid' => Valid(population')
  BY <1>1 DEF EvolutionInv
<1> QED BY <1>1, <1>2, <1>7, <1>8, <1>9 DEF EvolutionInv, BestIsValid

\* The invariant, where the benchmarks' objectives are nested.
THEOREM EvolutionInvariant == ASSUME ObjectivesNested PROVE EvolutionSpec => []EvolutionInv
<1>1. EvolutionInit => EvolutionInv
  BY EvolutionInit_Inv
<1>2. EvolutionInv /\ [EvolutionNext]_evolution_vars => EvolutionInv'
  <2> SUFFICES ASSUME EvolutionInv, [EvolutionNext]_evolution_vars PROVE EvolutionInv'
    OBVIOUS
  <2>1. CASE Evaluate
    BY <2>1, Evaluate_Inv
  <2>2. CASE Breed
    BY <2>2, Breed_Inv
  <2>3. CASE EvaluateOffspring
    BY <2>3, EvaluateOffspring_Inv
  <2>4. CASE Select
    BY <2>4, Select_Inv
  <2>5. CASE UpdateBest
    BY <2>5, UpdateBest_Inv
  <2>6. CASE UNCHANGED evolution_vars
    BY <2>6 DEF EvolutionInv, BestIsValid, evolution_vars, Valid, Range, Filled
  <2> QED BY <2>1, <2>2, <2>3, <2>4, <2>5, <2>6 DEF EvolutionNext
<1> QED BY <1>1, <1>2, PTL DEF EvolutionSpec

\* select_best is elitist.
THEOREM EliteSurvivesAlways == ASSUME ObjectivesNested PROVE EvolutionSpec => []EliteSurvives
<1>1. EvolutionInv => EliteSurvives
  <2>1. Filled(population) => Len(population) = population_size
    BY FilledIs
  <2> QED BY <2>1 DEF EvolutionInv, EliteSurvives
<1> QED BY <1>1, EvolutionInvariant, PTL

\* What failed validation is never the best after anything has passed it.
THEOREM BestIsValidAlways == ASSUME ObjectivesNested PROVE EvolutionSpec => []BestIsValid
<1>1. EvolutionInv => BestIsValid
  BY DEF EvolutionInv
<1> QED BY <1>1, EvolutionInvariant, PTL
=============================================================================
