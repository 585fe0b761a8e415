------------------------- MODULE BuildCommandProofs -------------------------
(***************************************************************************)
(* SourcesKept, ExitZeroIsEarned and RepairedStillRuns, for any contexts,  *)
(* texts, suites and number of builds and edits; and of the job a build    *)
(* hands to the cluster (HpcScheduler): what its handle says of it, and    *)
(* whose commands it runs, for any number of jobs, names and nodes.        *)
(***************************************************************************)
EXTENDS BuildCommand, HpcScheduler, PickingProofs, FiniteSetTheorems, SequenceTheorems, TLAPS

-----------------------------------------------------------------------------
(* Links.                                                                  *)

\* Every link there is was asked for by an entry, and the entries still to
\* come are those of a context.
LinksOK ==
  /\ link \in [Dests -> Sources \cup {NoLink}]
  /\ \A d \in Dests : link[d] # NoLink => <<link[d], d>> \in linked
  /\ entries \in Seq(Entries)

LinkInv == LinksOK /\ SourcesKept

link_vars == <<link, linked, written, entries>>

LEMMA LinksStay == ASSUME LinkInv, UNCHANGED link_vars PROVE LinkInv'
BY DEF LinkInv, LinksOK, SourcesKept, link_vars

\* A file written over changes a source only through a link.
LEMMA WriteKeepsSources ==
  ASSUME LinksOK, SourcesKept, NEW entry \in Entries, NEW text, Write(entry, text)
  PROVE  /\ SourcesKept' /\ link' = link /\ linked' = linked
<1>1. entry.dest \in Dests BY DEF Entries
<1>2. Target(entry.dest) \in Sources => <<Target(entry.dest), entry.dest>> \in linked
  <2>1. CASE link[entry.dest] = NoLink
    BY <1>1, <2>1, IngestAssumption DEF Target
  <2>2. CASE link[entry.dest] # NoLink
    BY <1>1, <2>2 DEF Target, LinksOK
  <2>3. QED BY <2>1, <2>2
<1>3. QED BY <1>2 DEF Write, SourcesKept

\* One file.
LEMMA IngestKeepsLinks == ASSUME LinkInv, IngestFile PROVE LinkInv'
<1> DEFINE entry == Head(entries)
<1>1. entry \in Entries /\ entries' \in Seq(Entries)
  BY DEF LinkInv, LinksOK, IngestFile
<1>2. CASE UNCHANGED <<disk, link, last, linked, written>>
  BY <1>1, <1>2 DEF LinkInv, LinksOK, SourcesKept
<1>3. CASE WriteRepaired(entry)
  <2>1. PICK text : Write(entry, text) BY <1>3 DEF WriteRepaired
  <2>2. SourcesKept' /\ link' = link /\ linked' = linked
    BY <1>1, <2>1, WriteKeepsSources DEF LinkInv
  <2>3. QED BY <1>1, <2>2 DEF LinkInv, LinksOK
<1>4. CASE Symlink(entry)
  <2>1. entry.dest \in Dests /\ entry.source \in Sources BY <1>1 DEF Entries
  <2>2. link' \in [Dests -> Sources \cup {NoLink}]
    BY <1>4, <2>1 DEF Symlink, LinkInv, LinksOK
  <2>3. ASSUME NEW d \in Dests, link'[d] # NoLink PROVE <<link'[d], d>> \in linked'
    BY <1>4, <2>1, <2>3 DEF Symlink, LinkInv, LinksOK
  <2>4. SourcesKept' BY <1>4 DEF Symlink, LinkInv, SourcesKept
  <2>5. QED BY <1>1, <2>2, <2>3, <2>4 DEF LinkInv, LinksOK
<1>5. CASE Copy(entry)
  <2>1. PICK text : Write(entry, text) BY <1>5 DEF Copy
  <2>2. SourcesKept' /\ link' = link /\ linked' = linked
    BY <1>1, <2>1, WriteKeepsSources DEF LinkInv
  <2>3. QED BY <1>1, <2>2 DEF LinkInv, LinksOK
<1>6. QED BY <1>2, <1>3, <1>4, <1>5 DEF IngestFile

LEMMA LinkInit == Init => LinkInv
BY DEF Init, IngestInit, LinkInv, LinksOK, SourcesKept

LEMMA LinkNext == LinkInv /\ [Next]_vars => LinkInv'
<1> SUFFICES ASSUME LinkInv, [Next]_vars PROVE LinkInv'
  OBVIOUS
<1> USE DEF ingest_vars, link_vars
<1>1. CASE Start
  <2>1. entries' \in Seq(Entries)
    <3>1. entries' = <<>> \/ entries' \in Configs BY <1>1 DEF Start
    <3>2. \A list \in Configs : list \in Seq(Entries) BY IngestAssumption
    <3>3. <<>> \in Seq(Entries) OBVIOUS
    <3>4. QED BY <3>1, <3>2, <3>3, Zenon
  <2>2. UNCHANGED <<link, linked, written>> BY <1>1 DEF Start
  <2>3. QED BY <2>1, <2>2 DEF LinkInv, LinksOK, SourcesKept
<1>2. CASE Ingest
  <2>1. CASE IngestFile BY <2>1, IngestKeepsLinks
  <2>2. CASE entries' = <<>> /\ UNCHANGED <<disk, link, last, linked, written>>
    <3>1. entries' \in Seq(Entries) BY <2>2
    <3>2. QED BY <2>2, <3>1 DEF LinkInv, LinksOK, SourcesKept
  <2>3. QED BY <1>2, <2>1, <2>2 DEF Ingest
<1>3. CASE SemanticFluidity \/ HardwareProbe \/ Polymorphization \/ Evolution
  BY <1>3, LinksStay DEF SemanticFluidity, HardwareProbe, Polymorphization, Evolution, Stage
<1>4. CASE SubmitHpc BY <1>4, LinksStay DEF SubmitHpc
<1>5. CASE LocalBuild BY <1>5, LinksStay DEF LocalBuild
<1>6. CASE RuntimeStage BY <1>6, LinksStay DEF RuntimeStage
<1>7. CASE ValidationStage BY <1>7, LinksStay DEF ValidationStage
<1>8. CASE Edit BY <1>8, LinksStay DEF Edit
<1>9. CASE Kill
  <2>1. entries' \in Seq(Entries) BY <1>9 DEF Kill
  <2>2. UNCHANGED <<link, linked, written>> BY <1>9 DEF Kill
  <2>3. QED BY <2>1, <2>2 DEF LinkInv, LinksOK, SourcesKept
<1>10. CASE UNCHANGED vars BY <1>10, LinksStay DEF vars
<1>11. QED BY <1>1, <1>2, <1>3, <1>4, <1>5, <1>6, <1>7, <1>8, <1>9, <1>10 DEF Next

\* An ingestion never changes a file outside the workspace that no entry in
\* symlink mode has linked to the path it writes, whatever contexts the builds
\* are given and wherever they are killed.
THEOREM SourcesKeptAlways == Spec => []SourcesKept
<1>1. LinkInv => SourcesKept BY DEF LinkInv
<1>2. QED BY LinkInit, LinkNext, <1>1, PTL DEF Spec
-----------------------------------------------------------------------------
(* The exit code.                                                          *)

\* What a command that got past the build has to show for it.
HasBuilt == only \/ trusted \/ (built # {} /\ (edited \/ built = {Workspace}))

\* What a suite that guards the build has to say.
Approved(s) ==
  /\ s.form # "no command"
  /\ s.overall # "passed" => s.cases \cap {"said failed", "error beyond"} = {}
  /\ s.cases = {} => s.rc = 0

\* While a command runs it has no exit code and its suite has not run; from
\* the end of the build on it has built.
RunningOK == stage # "idle" => exit = "none" /\ suite = {}
BuiltOK   == stage \in {"polymorph", "evolution", "runtime", "validation"} => HasBuilt
EndedOK   ==
  Succeeded => HasBuilt /\ (gatekeeper => \A s \in suite : ~changed /\ Approved(s))

ExitInv == RunningOK /\ BuiltOK /\ EndedOK

\* A suite that passes is one to go by: an explicit verdict aside, no case
\* failed, and one without cases ended with 0.
LEMMA PassedIsApproved == ASSUME NEW s, run(s) PROVE Approved(s)
<1>1. s.form # "no command" /\ _parse(s) BY DEF run
<1>2. AllPassed(s) => s.cases \cap {"said failed", "error beyond"} = {}
  BY DEF AllPassed, case_passed
<1>3. CASE s.form = "json" BY <1>1, <1>2, <1>3 DEF _parse, Approved
<1>4. CASE s.form # "json" BY <1>1, <1>2, <1>4 DEF _parse, Approved
<1>5. QED BY <1>3, <1>4

\* Neither the files nor what was built of them moves.
disk_vars == <<disk, link>>

LEMMA BuiltStays ==
  ASSUME HasBuilt, UNCHANGED <<disk_vars, only, built, trusted, edited>>
  PROVE  HasBuilt'
BY DEF HasBuilt, Workspace, Content, Target, disk_vars

LEMMA ExitInit == Init => ExitInv
BY DEF Init, ExitInv, RunningOK, BuiltOK, EndedOK, Succeeded

\* The stages that cannot fail the command.
LEMMA StageKeepsExit ==
  ASSUME ExitInv, NEW name, NEW next, Stage(name, next), name # "idle",
         <<name, next>> \in {<<"fluidity", "probe">>, <<"probe", "hpc">>,
                             <<"polymorph", "evolution">>, <<"evolution", "runtime">>}
  PROVE  ExitInv'
<1> USE DEF ExitInv
<1>1. stage = name /\ stage' = next /\ UNCHANGED <<disk_vars, only, exit, built, trusted, suite, edited>>
  BY DEF Stage, Goto, ingest_vars, disk_vars
<1>2. next # "idle" /\ RunningOK' /\ EndedOK'
  BY <1>1 DEF RunningOK, EndedOK, Succeeded
<1>3. BuiltOK'
  <2>1. CASE name \in {"polymorph", "evolution"}
    <3>1. HasBuilt' BY <1>1, <2>1, BuiltStays DEF BuiltOK
    <3>2. QED BY <3>1 DEF BuiltOK
  <2>2. CASE name \in {"fluidity", "probe"}
    BY <1>1, <2>2 DEF BuiltOK
  <2>3. QED BY <2>1, <2>2
<1>4. QED BY <1>2, <1>3

LEMMA ExitNext == ExitInv /\ [Next]_vars => ExitInv'
<1> SUFFICES ASSUME ExitInv, [Next]_vars PROVE ExitInv'
  OBVIOUS
<1> USE DEF ExitInv
<1>1. CASE Start
  <2>1. \/ exit' = "2" /\ stage' = "idle"
        \/ exit' = "none" /\ stage' = "ingestion"
        \/ exit' = "none" /\ stage' = "validation" /\ only'
    BY <1>1 DEF Start, Goto
  <2>2. suite' = {} BY <1>1 DEF Start
  <2>3. QED BY <2>1, <2>2 DEF RunningOK, BuiltOK, EndedOK, Succeeded, HasBuilt
<1>2. CASE Ingest
  <2>1. stage = "ingestion" /\ stage' \in {"ingestion", "fluidity"} /\ UNCHANGED <<exit, suite>>
    BY <1>2 DEF Ingest, Goto
  <2>2. QED BY <2>1 DEF RunningOK, BuiltOK, EndedOK, Succeeded
<1>3. CASE SemanticFluidity BY <1>3, StageKeepsExit DEF SemanticFluidity
<1>4. CASE HardwareProbe BY <1>4, StageKeepsExit DEF HardwareProbe
<1>5. CASE Polymorphization BY <1>5, StageKeepsExit DEF Polymorphization
<1>6. CASE Evolution BY <1>6, StageKeepsExit DEF Evolution
<1>7. CASE SubmitHpc
  <2>1. PICK end \in JobEnds :
          /\ built' = IF end = "succeeded" THEN {Workspace} ELSE built
          /\ trusted' = (end = "silent")
          /\ stage' = IF job_succeeded(end) THEN "polymorph" ELSE "local"
    BY <1>7 DEF SubmitHpc, Goto
  <2>2. stage = "hpc" /\ UNCHANGED <<disk_vars, only, exit, suite, edited>>
    BY <1>7 DEF SubmitHpc, ingest_vars, disk_vars
  <2>3. Workspace' = Workspace BY <2>2 DEF Workspace, Content, Target, disk_vars
  <2>4. stage' = "polymorph" => HasBuilt' BY <2>1, <2>3 DEF HasBuilt, job_succeeded
  <2>5. QED BY <2>1, <2>2, <2>4 DEF RunningOK, BuiltOK, EndedOK, Succeeded
<1>8. CASE LocalBuild
  <2>1. stage = "local" /\ UNCHANGED <<disk_vars, suite>>
    BY <1>8 DEF LocalBuild, ingest_vars, disk_vars
  <2>2. CASE built' = {Workspace} /\ stage' = "polymorph" /\ exit' = exit
    <3>1. Workspace' = Workspace BY <2>1 DEF Workspace, Content, Target, disk_vars
    <3>2. HasBuilt' BY <2>2, <3>1 DEF HasBuilt
    <3>3. QED BY <2>1, <2>2, <3>2 DEF RunningOK, BuiltOK, EndedOK, Succeeded
  <2>3. CASE exit' = "raised" /\ stage' = "idle"
    BY <2>3 DEF RunningOK, BuiltOK, EndedOK, Succeeded
  <2>4. QED BY <1>8, <2>2, <2>3 DEF LocalBuild, Goto
<1>9. CASE RuntimeStage
  <2>1. stage = "runtime" /\ UNCHANGED <<disk_vars, only, built, trusted, suite, edited>>
    BY <1>9 DEF RuntimeStage, ingest_vars, disk_vars
  <2>2. HasBuilt' BY <2>1, BuiltStays DEF BuiltOK
  <2>3. \/ stage' = "validation" /\ exit' = exit
        \/ stage' = "idle" /\ exit' = "raised"
    BY <1>9 DEF RuntimeStage, Goto
  <2>4. QED BY <2>1, <2>2, <2>3 DEF RunningOK, BuiltOK, EndedOK, Succeeded
<1>10. CASE ValidationStage
  <2>1. /\ stage = "validation" /\ stage' = "idle"
        /\ UNCHANGED <<disk_vars, only, built, trusted, gatekeeper, edited>>
    BY <1>10 DEF ValidationStage, Goto, ingest_vars, disk_vars
  <2>2. HasBuilt' BY <2>1, BuiltStays DEF BuiltOK
  <2>3. CASE suite' = suite
    BY <2>1, <2>2, <2>3 DEF RunningOK, BuiltOK, EndedOK, Succeeded
  <2>4. ASSUME NEW s \in Suites, suite' = {s}, changed' = FALSE,
               exit' = IF s.form = "garbled" THEN "raised" ELSE ExitCode(s)
        PROVE  ExitInv'
    <3>1. exit' = "0" /\ gatekeeper => run(s) BY <2>4 DEF ExitCode
    <3>2. exit' = "0" /\ gatekeeper => Approved(s) BY <3>1, PassedIsApproved
    <3>3. \A r \in suite' : Approved(s) => Approved(r)' BY <2>4 DEF Approved
    <3>4. QED BY <2>1, <2>2, <2>4, <3>2, <3>3 DEF RunningOK, BuiltOK, EndedOK, Succeeded
  <2>5. QED BY <1>10, <2>3, <2>4 DEF ValidationStage
<1>11. CASE Edit
  <2>1. edited' = TRUE /\ UNCHANGED <<stage, only, exit, built, trusted, suite, gatekeeper, changed>>
    BY <1>11 DEF Edit, command
  <2>2. HasBuilt => HasBuilt' BY <2>1 DEF HasBuilt
  <2>3. QED BY <2>1, <2>2 DEF RunningOK, BuiltOK, EndedOK, Succeeded, Approved
<1>12. CASE Kill
  <2>1. stage # "idle" /\ stage' = "idle" /\ exit' = exit
    BY <1>12 DEF Kill, Goto, command
  <2>2. QED BY <2>1 DEF RunningOK, BuiltOK, EndedOK, Succeeded
<1>13. CASE UNCHANGED vars
  <2>1. UNCHANGED <<stage, command, disk_vars, edited>> BY <1>13 DEF vars, ingest_vars, disk_vars
  <2>2. HasBuilt => HasBuilt' BY <2>1, BuiltStays DEF command
  <2>3. QED BY <2>1, <2>2 DEF command, RunningOK, BuiltOK, EndedOK, Succeeded, Approved
<1>14. QED
  BY <1>1, <1>2, <1>3, <1>4, <1>5, <1>6, <1>7, <1>8, <1>9, <1>10, <1>11, <1>12, <1>13 DEF Next

\* The part of ExitInv that the rest is there for, in the words of the
\* property.
LEMMA EarnedAtTheEnd == ExitInv => ExitZeroIsEarned
BY DEF ExitInv, EndedOK, ExitZeroIsEarned, HasBuilt, Approved

\* A build command that exits with 0 has built what it ingested and was
\* approved by the suite that guards it, with the exceptions the property
\* names, for any suite, number of builds and edits.
THEOREM ExitZeroIsEarnedAlways == Spec => []ExitZeroIsEarned
<1>1. QED BY ExitInit, ExitNext, EarnedAtTheEnd, PTL DEF Spec
-----------------------------------------------------------------------------
(* Repair.                                                                 *)

\* The __future__ imports stand where Python wants them.
FutureFirst(text) ==
  \A i \in DOMAIN text : text[i].kind \in Futures =>
    \A k \in 1..i :
      /\ text[k].kind # "code"
      /\ text[k].kind \in {"doc", "string"} => \A m \in 1..(k - 1) : text[m].kind \in Unstated

Bound(text) == imported(text) \cup defined(text)

\* Of what a changed text uses, what was bound still is.
StillBound(text, revised) ==
  /\ used(revised) \subseteq used(text)
  /\ Bound(text) \cap used(revised) \subseteq Bound(revised)

LEMMA NamesOf ==
  ASSUME NEW text
  PROVE  /\ \A n : n \in used(text) <=> \E i \in DOMAIN text : n \in text[i].uses
         /\ \A n : n \in defined(text) <=> \E i \in DOMAIN text : n \in text[i].binds
         /\ \A n : n \in imported(text) <=>
                     \E i \in DOMAIN text : \E s \in text[i].imports : n \in s
BY DEF used, defined, imported, Over

LEMMA ExtentsEqual ==
  ASSUME NEW a, NEW b,
         \A n : /\ n \in used(a) <=> n \in used(b)
                /\ n \in defined(a) <=> n \in defined(b)
                /\ n \in imported(a) <=> n \in imported(b)
  PROVE  used(a) = used(b) /\ defined(a) = defined(b) /\ imported(a) = imported(b)
BY DEF used, defined, imported, Over

LEMMA StillBoundOn ==
  ASSUME NEW a, NEW b, NEW c, StillBound(a, b), StillBound(b, c)
  PROVE  StillBound(a, c)
BY DEF StillBound

LEMMA StillBoundItself == ASSUME NEW a PROVE StillBound(a, a)
BY DEF StillBound

LEMMA Positions ==
  ASSUME NEW text, IsText(text)
  PROVE  /\ Len(text) \in Nat /\ DOMAIN text = 1..Len(text)
         /\ \A S : (\A i \in DOMAIN text : text[i] \in S) => text \in Seq(S)
<1>1. text \in Seq(Range(text))
  BY DEF IsText
<1> HIDE DEF Range
<1>2. Len(text) \in Nat /\ DOMAIN text = 1..Len(text) /\ text = [i \in 1..Len(text) |-> text[i]]
  BY <1>1
<1> QED BY <1>2

LEMMA TextIs ==
  ASSUME NEW n \in Nat, NEW text, text = [i \in 1..n |-> text[i]],
         \A i \in 1..n : IsLine(text[i])
  PROVE  IsText(text)
<1>1. \A i \in 1..n : text[i] \in Range(text)
  BY DEF Range
<1> QED BY <1>1 DEF IsText

\* remove_unused.  Only imports go, and none whose names are used.
LEMMA RemoveIsText == ASSUME NEW text, IsText(text) PROVE IsText(_remove_unused(text))
<1> DEFINE K == {i \in DOMAIN text : ~\E s \in text[i].imports : AllUnused(s, unused_imports(text))}
           t == Picked(text, K)
<1>1. Len(text) \in Nat /\ DOMAIN text = 1..Len(text)
  BY Positions
<1>2. K \in SUBSET (1..Len(text))
  BY <1>1
<1> HIDE DEF K
<1>3. Cardinality(K) \in Nat /\ \A n \in 1..Cardinality(K) : Nth(K, n) \in K
  BY <1>1, <1>2, NthIs
<1>4. t = [n \in 1..Cardinality(K) |-> t[n]] /\ \A n \in 1..Cardinality(K) : t[n] = text[Nth(K, n)]
  BY DEF Picked
<1>5. \A n \in 1..Cardinality(K) : IsLine(t[n])
  BY <1>1, <1>2, <1>3, <1>4 DEF IsText
<1> HIDE DEF t
<1>6. IsText(t)
  BY <1>3, <1>4, <1>5, TextIs
<1> QED BY <1>6 DEF t, K, _remove_unused

LEMMA RemoveUnused ==
  ASSUME NEW text, IsText(text), Plain(text), FutureFirst(text)
  PROVE  /\ Plain(_remove_unused(text)) /\ FutureFirst(_remove_unused(text))
         /\ StillBound(text, _remove_unused(text))
<1> DEFINE Gone(i) == \E s \in text[i].imports : AllUnused(s, unused_imports(text))
           K == {i \in DOMAIN text : ~Gone(i)}
           t == Picked(text, K)
           at(n) == Nth(K, n)
<1>1. Len(text) \in Nat /\ DOMAIN text = 1..Len(text)
  BY Positions
<1>2. K \in SUBSET (1..Len(text))
  BY <1>1
<1>3. ASSUME NEW i \in DOMAIN text \ K
      PROVE  /\ text[i].uses = {} /\ text[i].binds = {}
             /\ \A s \in text[i].imports : s \cap used(text) = {}
  <2>1. PICK s \in text[i].imports : s \subseteq unused_imports(text)
    BY <1>3 DEF AllUnused
  <2>2. ~Compound(text[i])
    BY <1>3 DEF Plain
  <2> QED BY <2>1, <2>2 DEF Compound, unused_imports
<1>4. ASSUME NEW k \in K PROVE \E n \in DOMAIN t : t[n] = text[k]
  <2> HIDE DEF K
  <2>1. Rank(K, k) \in 1..Cardinality(K) /\ Nth(K, Rank(K, k)) = k
    BY <1>1, <1>2, NthIs
  <2> QED BY <2>1 DEF Picked
<1>5. /\ Cardinality(K) \in Nat /\ DOMAIN t = 1..Cardinality(K)
      /\ \A n \in DOMAIN t : at(n) \in K /\ at(n) \in DOMAIN text /\ t[n] = text[at(n)]
  <2> HIDE DEF K
  <2> QED BY <1>1, <1>2, NthIs DEF Picked
<1>6. \A m, n \in DOMAIN t : m < n => at(m) < at(n)
  <2> HIDE DEF K
  <2> QED BY <1>1, <1>2, <1>5, NthOrder
<1>7. StillBound(text, t)
  <2>1. used(t) \subseteq used(text)
    BY <1>5, NamesOf
  <2>2. ASSUME NEW n \in used(t), n \in Bound(text) PROVE n \in Bound(t)
    <3>1. CASE n \in imported(text)
      <4>1. PICK i \in DOMAIN text : \E s \in text[i].imports : n \in s
        BY <3>1, NamesOf
      <4>2. i \in K
        BY <1>3, <2>1, <4>1
      <4>3. PICK j \in DOMAIN t : t[j] = text[i]
        BY <1>4, <4>2
      <4> HIDE DEF t
      <4> QED BY <4>1, <4>3, NamesOf DEF Bound
    <3>2. CASE n \in defined(text)
      <4>1. PICK i \in DOMAIN text : n \in text[i].binds
        BY <3>2, NamesOf
      <4>2. i \in K
        BY <1>3, <4>1
      <4>3. PICK j \in DOMAIN t : t[j] = text[i]
        BY <1>4, <4>2
      <4> HIDE DEF t
      <4> QED BY <4>1, <4>3, NamesOf DEF Bound
    <3> QED BY <2>2, <3>1, <3>2 DEF Bound
  <2> QED BY <2>1, <2>2 DEF StillBound
<1> HIDE DEF K, t, at
<1>8. \A n \in DOMAIN t : \A k \in 1..n : k \in DOMAIN t /\ (k < n \/ k = n)
  BY <1>5
<1>9. \A n \in DOMAIN t : at(n) \in Nat
  BY <1>1, <1>5
<1>10. FutureFirst(t)
  <2> SUFFICES ASSUME NEW i \in DOMAIN t, t[i].kind \in Futures, NEW k \in 1..i
               PROVE  /\ t[k].kind # "code"
                      /\ t[k].kind \in {"doc", "string"} =>
                           \A m \in 1..(k - 1) : t[m].kind \in Unstated
    BY DEF FutureFirst
  <2>1. k \in DOMAIN t /\ at(k) \in 1..at(i)
    <3>1. k \in DOMAIN t /\ (k < i \/ k = i)
      BY <1>8
    <3>2. at(k) \in Nat /\ at(i) \in Nat /\ at(k) >= 1 /\ (at(k) < at(i) \/ at(k) = at(i))
      BY <1>1, <1>5, <1>6, <1>9, <3>1
    <3> QED BY <3>1, <3>2
  <2>2. /\ text[at(k)].kind # "code"
        /\ text[at(k)].kind \in {"doc", "string"} =>
             \A m \in 1..(at(k) - 1) : text[m].kind \in Unstated
    BY <1>5, <2>1 DEF FutureFirst
  <2>3. ASSUME NEW m \in 1..(k - 1) PROVE m \in DOMAIN t /\ at(m) \in 1..(at(k) - 1)
    <3>1. m \in 1..k /\ m < k
      BY <1>5, <2>1
    <3>2. m \in DOMAIN t
      BY <1>8, <2>1, <3>1
    <3>3. at(m) \in Nat /\ at(k) \in Nat /\ at(m) >= 1 /\ at(m) < at(k)
      BY <1>1, <1>5, <1>6, <1>9, <2>1, <3>1, <3>2
    <3> QED BY <3>2, <3>3
  <2> QED BY <1>5, <2>1, <2>2, <2>3
<1>11. Plain(t)
  <2>1. \A i \in DOMAIN t : ~Compound(t[i])
    BY <1>5 DEF Plain
  <2>2. ASSUME NEW i \in DOMAIN t, t[i].kind \in Futures, NEW k \in 1..(i - 1)
        PROVE  /\ t[k].kind \notin {"comment", "string"}
               /\ t[k].kind = "shebang" => k = 1
               /\ t[k].kind = "blank" => \A m \in 1..k : t[m].kind \in {"blank", "shebang"}
    <3>1. k \in DOMAIN t /\ k < i /\ 1 \in DOMAIN t /\ (1 < k \/ 1 = k)
      <4>1. k \in 1..i /\ k < i
        BY <1>5
      <4>2. 1 \in 1..k
        BY <1>5
      <4> QED BY <1>8, <4>1, <4>2
    <3>2. at(k) < at(i) /\ at(k) \in Nat /\ at(i) \in Nat
      BY <1>6, <1>9, <3>1
    <3>3. at(k) \in 1..(at(i) - 1)
      BY <1>1, <1>5, <3>1, <3>2
    <3>4. /\ text[at(k)].kind \notin {"comment", "string"}
          /\ text[at(k)].kind = "shebang" => at(k) = 1
          /\ text[at(k)].kind = "blank" =>
               \A m \in 1..at(k) : text[m].kind \in {"blank", "shebang"}
      BY <1>5, <2>2, <3>3 DEF Plain
    <3>5. at(k) = 1 => k = 1
      <4>1. at(1) \in Nat /\ at(1) >= 1
        BY <1>1, <1>5, <3>1
      <4>2. 1 < k => at(1) < at(k)
        BY <1>6, <3>1
      <4> QED BY <3>1, <3>2, <4>1, <4>2
    <3>6. ASSUME NEW m \in 1..k PROVE m \in DOMAIN t /\ at(m) \in 1..at(k)
      <4>1. m \in DOMAIN t /\ (m < k \/ m = k)
        BY <1>8, <3>1
      <4>2. at(m) <= at(k) /\ at(m) \in Nat /\ at(m) >= 1
        BY <1>1, <1>5, <1>6, <1>9, <3>1, <4>1
      <4> QED BY <3>2, <4>1, <4>2
    <3> QED BY <1>5, <3>1, <3>4, <3>5, <3>6
  <2> QED BY <2>1, <2>2 DEF Plain
<1> QED BY <1>7, <1>10, <1>11 DEF t, K, _remove_unused

\* auto_import.  Lines are put after the __future__ imports, wherever they are.
LEMMA SkipIs ==
  ASSUME NEW text, IsText(text), NEW n \in 0..Len(text), NEW kind
  PROVE  /\ Skip(text, n, kind) \in n..Len(text)
         /\ \A i \in (n + 1)..Skip(text, n, kind) : text[i].kind = kind
         /\ Skip(text, n, kind) = Len(text) \/ text[Skip(text, n, kind) + 1].kind # kind
<1> DEFINE D == {m \in n..Len(text) : m = Len(text) \/ text[m + 1].kind # kind}
<1>1. Len(text) \in Nat
  BY Positions
<1>2. D \in SUBSET Nat /\ Len(text) \in D
  BY <1>1
<1>3. PICK m \in D : \A d \in D : m <= d
  <2> HIDE DEF D
  <2> QED BY <1>2, LeastNumber
<1>4. ASSUME NEW i \in (n + 1)..m PROVE text[i].kind = kind
  <2>1. i - 1 \in n..Len(text) /\ ~(m <= i - 1) /\ (i - 1) + 1 = i /\ i - 1 # Len(text)
    BY <1>1
  <2>2. i - 1 \notin D
    BY <1>3, <2>1
  <2> QED BY <2>1, <2>2
<1>5. \E s \in n..Len(text) :
        /\ \A i \in (n + 1)..s : text[i].kind = kind
        /\ s = Len(text) \/ text[s + 1].kind # kind
  BY <1>4
<1> QED BY <1>5 DEF Skip

\* One line is skipped where it is of the kind, else none.
LEMMA OneIs ==
  ASSUME NEW text, IsText(text), NEW n \in 0..Len(text), NEW kind
  PROVE  /\ One(text, n, kind) \in 0..Len(text) /\ n <= One(text, n, kind)
         /\ \/ One(text, n, kind) = n + 1 /\ text[n + 1].kind = kind
            \/ One(text, n, kind) = n /\ (n = Len(text) \/ text[n + 1].kind # kind)
<1>1. Len(text) \in Nat
  BY Positions
<1>2. CASE n < Len(text) /\ text[n + 1].kind = kind
  BY <1>1, <1>2 DEF One
<1>3. CASE ~(n < Len(text) /\ text[n + 1].kind = kind)
  BY <1>1, <1>3 DEF One
<1> QED BY <1>2, <1>3

LEMMA InsertionPoint ==
  ASSUME NEW text, IsText(text)
  PROVE  /\ _import_insertion_point(text) \in 0..Len(text)
         /\ Plain(text) /\ FutureFirst(text) /\ ~Torn(text) =>
              \A i \in DOMAIN text :
                text[i].kind \in Futures => i <= _import_insertion_point(text)
<1> DEFINE first == One(text, 0, "shebang")
           n     == Skip(text, first, "blank")
           after == One(text, n, "doc")
           at    == Skip(text, after, "future")
<1>1. Len(text) \in Nat /\ DOMAIN text = 1..Len(text)
  BY Positions
<1>2. /\ first \in 0..Len(text)
      /\ \/ first = 0 + 1 /\ text[0 + 1].kind = "shebang"
         \/ first = 0 /\ (0 = Len(text) \/ text[0 + 1].kind # "shebang")
  <2>1. 0 \in 0..Len(text)
    BY <1>1
  <2> QED BY <2>1, OneIs
<1> HIDE DEF first
<1>3. /\ n \in first..Len(text) /\ n \in 0..Len(text)
      /\ n = Len(text) \/ text[n + 1].kind # "blank"
  <2>1. n \in first..Len(text) /\ (n = Len(text) \/ text[n + 1].kind # "blank")
    BY <1>2, SkipIs
  <2> QED BY <1>1, <1>2, <2>1
<1> HIDE DEF n
<1>4. /\ after \in 0..Len(text) /\ n <= after
      /\ \/ after = n + 1 /\ text[n + 1].kind = "doc"
         \/ after = n /\ (n = Len(text) \/ text[n + 1].kind # "doc")
  BY <1>3, OneIs
<1> HIDE DEF after
<1>5. /\ at \in after..Len(text)
      /\ at = Len(text) \/ text[at + 1].kind # "future"
  BY <1>4, SkipIs
<1> HIDE DEF at
<1>6. /\ first \in Nat /\ n \in Nat /\ after \in Nat /\ at \in Nat
      /\ first <= n /\ n <= after /\ after <= at /\ at <= Len(text)
  <2>1. /\ first \in 0..Len(text) /\ n \in first..Len(text) /\ after \in 0..Len(text)
        /\ n <= after /\ at \in after..Len(text) /\ Len(text) \in Nat
    BY <1>1, <1>2, <1>3, <1>4, <1>5
  <2> QED BY ONLY <2>1
<1>7. _import_insertion_point(text) = at
  BY DEF _import_insertion_point, at, after, n, first
<1>8. ASSUME Plain(text), FutureFirst(text), ~Torn(text),
             NEW i \in 1..Len(text), text[i].kind \in Futures, ~(i <= at)
      PROVE  FALSE
  <2> DEFINE k == at + 1
  <2>1. k \in Nat /\ k \in 1..i /\ k \in 1..Len(text) /\ at < Len(text) /\ n < Len(text)
    BY ONLY <1>1, <1>6, <1>8
  <2>2. text[k].kind \notin Futures
    <3>1. text[k].kind # "future"
      BY <1>5, <2>1
    <3>2. text[k].kind # "spread"
      BY <1>7, <1>8, <2>1 DEF Torn
    <3> QED BY <3>1, <3>2 DEF Futures
  <2>3. k \in 1..(i - 1)
    <3>1. k # i
      BY <1>8, <2>2
    <3> QED BY ONLY <1>1, <1>8, <2>1, <3>1
  <2>4. /\ text[k].kind # "code" /\ text[k].kind \notin {"comment", "string"}
        /\ text[k].kind = "doc" => \A m \in 1..(k - 1) : text[m].kind \in Unstated
        /\ text[k].kind = "shebang" => k = 1
        /\ text[k].kind = "blank" => \A m \in 1..k : text[m].kind \in {"blank", "shebang"}
    BY <1>1, <1>8, <2>1, <2>3 DEF FutureFirst, Plain
  <2>5. text[k].kind \in Kinds
    BY <1>1, <2>1 DEF IsText, IsLine
  <2>6. n + 1 \in 1..k /\ (k # n + 1 => n + 1 \in 1..(k - 1)) /\ n + 1 <= i
    BY ONLY <1>1, <1>6, <1>8, <2>1
  <2> HIDE DEF k
  \* What ended the skipping of blank lines is none, and no shebang but the first line.
  <2>7. text[n + 1].kind # "blank"
    BY <1>3, <1>6, <2>1
  <2>8. text[n + 1].kind # "shebang"
    <3>1. ASSUME text[n + 1].kind = "shebang" PROVE FALSE
      <4>1. n + 1 \in 1..(i - 1)
        BY ONLY <1>1, <1>6, <1>8, <2>1, <2>3, <2>6
      <4>2. n + 1 = 1
        BY <1>1, <1>8, <3>1, <4>1 DEF Plain
      <4>3. first = 0 /\ n = 0
        BY ONLY <1>2, <1>6, <4>2
      <4> QED BY <1>2, <1>6, <2>1, <3>1, <4>3
    <3> QED BY <3>1
  <2>9. text[k].kind # "blank" /\ text[k].kind # "shebang"
    <3>1. text[k].kind # "blank"
      BY <2>4, <2>6, <2>7, <2>8
    <3>2. text[k].kind = "shebang" => k = n + 1
      BY ONLY <1>6, <2>1, <2>4, <2>6
    <3> QED BY <2>8, <3>1, <3>2
  <2>10. text[k].kind # "doc"
    <3>1. CASE k = n + 1
      <4>1. after = n
        BY ONLY <1>4, <1>6, <3>1 DEF k
      <4> QED BY <1>4, <1>6, <2>1, <3>1, <4>1
    <3>2. CASE k # n + 1 /\ text[k].kind = "doc"
      <4>1. text[n + 1].kind \in Unstated
        BY <2>4, <2>6, <3>2
      <4>2. text[n + 1].kind = "comment"
        BY <2>7, <2>8, <4>1 DEF Unstated
      <4>3. n + 1 \in 1..(i - 1)
        BY ONLY <1>1, <1>6, <1>8, <2>1, <2>3, <2>6
      <4> QED BY <1>1, <1>8, <4>2, <4>3 DEF Plain
    <3> QED BY <3>1, <3>2
  <2> QED BY <2>2, <2>4, <2>5, <2>9, <2>10 DEF Kinds, Unstated, Futures
<1> QED BY <1>1, <1>6, <1>7, <1>8

LEMMA Inserted ==
  ASSUME NEW S, NEW text \in Seq(S), NEW added \in Seq(S), NEW at \in 0..Len(text)
  PROVE  LET t == SubSeq(text, 1, at) \o added \o SubSeq(text, at + 1, Len(text)) IN
         /\ t \in Seq(S) /\ Len(t) = Len(text) + Len(added)
         /\ \A i \in 1..at : t[i] = text[i]
         /\ \A i \in 1..Len(added) : t[at + i] = added[i]
         /\ \A i \in (at + 1)..Len(text) : t[i + Len(added)] = text[i]
<1> DEFINE a == SubSeq(text, 1, at)
           c == SubSeq(text, at + 1, Len(text))
           t == a \o added \o c
<1>1. Len(text) \in Nat /\ Len(added) \in Nat /\ at \in Nat /\ at <= Len(text)
  OBVIOUS
<1>2. a \in Seq(S) /\ Len(a) = at /\ \A i \in 1..at : a[i] = text[i]
  BY <1>1
<1>3. /\ c \in Seq(S) /\ Len(c) = Len(text) - at
      /\ \A i \in 1..(Len(text) - at) : c[i] = text[at + i]
  BY <1>1
<1> HIDE DEF a, c
<1>4. t \in Seq(S) /\ Len(t) = Len(text) + Len(added)
  <2>1. t \in Seq(S)
    BY <1>2, <1>3
  <2>2. a \o added \in Seq(S) /\ Len(a \o added) = at + Len(added)
    BY <1>2, ConcatProperties
  <2>3. Len(t) = Len(a \o added) + Len(c)
    BY <1>3, <2>2, ConcatProperties
  <2> QED BY <1>1, <1>3, <2>1, <2>2, <2>3
<1>5. \A i \in 1..at : t[i] = text[i]
  BY <1>1, <1>2, <1>3
<1>6. \A i \in 1..Len(added) : t[at + i] = added[i]
  BY <1>1, <1>2, <1>3
<1>7. ASSUME NEW i \in (at + 1)..Len(text) PROVE t[i + Len(added)] = text[i]
  <2>1. i - at \in 1..(Len(text) - at) /\ at + (i - at) = i
    BY <1>1
  <2>2. t[i + Len(added)] = c[i - at]
    BY <1>1, <1>2, <1>3, <2>1
  <2> QED BY <1>3, <2>1, <2>2
<1> QED BY <1>4, <1>5, <1>6, <1>7 DEF t, a, c

LEMMA AutoImport ==
  ASSUME NEW text, IsText(text)
  PROVE  /\ IsText(_auto_import(text)) /\ StillBound(text, _auto_import(text))
         /\ Plain(text) /\ FutureFirst(text) /\ ~Torn(text) => FutureFirst(_auto_import(text))
<1> DEFINE missing == (undefined_names(text) \cap Known) \ Over(text, LAMBDA l : l.quotes)
           names   == SetToSeq(missing)
           added   == [i \in DOMAIN names |-> Line("code", {{names[i]}}, {}, {})]
           at      == _import_insertion_point(text)
           S       == Range(text) \cup Range(added)
           t       == SubSeq(text, 1, at) \o added \o SubSeq(text, at + 1, Len(text))
<1>1. Len(text) \in Nat /\ DOMAIN text = 1..Len(text) /\ at \in 0..Len(text)
  BY Positions, InsertionPoint
<1>2. names \in Seq(missing)
  <2>1. IsFiniteSet(missing)
    BY RepairAssumption, FS_Subset
  <2> HIDE DEF missing
  <2> QED BY <2>1, SetToSeqSequence
<1> HIDE DEF missing, names
<1>3. /\ Len(names) \in Nat /\ DOMAIN added = 1..Len(names) /\ Len(added) = Len(names)
      /\ \A i \in 1..Len(names) : added[i].kind = "code" /\ added[i].uses = {} /\ IsLine(added[i])
  <2>1. Len(names) \in Nat /\ DOMAIN names = 1..Len(names)
    BY <1>2
  <2>2. added = [i \in 1..Len(names) |-> added[i]] /\ DOMAIN added = 1..Len(names)
    BY <2>1
  <2>3. \A i \in 1..Len(names) : added[i] = Line("code", {{names[i]}}, {}, {})
    BY <2>1
  <2> HIDE DEF added
  <2>4. Len(added) = Len(names)
    BY <2>1, <2>2
  <2>5. ASSUME NEW i \in 1..Len(names)
        PROVE  added[i].kind = "code" /\ added[i].uses = {} /\ IsLine(added[i])
    <3>1. added[i] = Line("code", {{names[i]}}, {}, {})
      BY <2>3
    <3> QED BY <3>1 DEF Line, Blank, IsLine, Kinds
  <2> QED BY <2>1, <2>2, <2>4, <2>5
<1> HIDE DEF at
<1>4. added \in Seq(S) /\ text \in Seq(S)
  <2>1. \A i \in DOMAIN text : text[i] \in S
    BY DEF Range
  <2>2. \A i \in 1..Len(names) : added[i] \in S
    BY <1>3 DEF Range
  <2>3. added = [i \in 1..Len(names) |-> added[i]]
    BY <1>2
  <2> HIDE DEF S, added
  <2> QED BY <1>3, <2>1, <2>2, <2>3, Positions
<1> HIDE DEF added, S
<1>5. /\ t \in Seq(S) /\ Len(t) = Len(text) + Len(added)
      /\ \A i \in 1..at : t[i] = text[i]
      /\ \A i \in 1..Len(added) : t[at + i] = added[i]
      /\ \A i \in (at + 1)..Len(text) : t[i + Len(added)] = text[i]
  BY <1>1, <1>4, Inserted
<1> HIDE DEF t
<1> DEFINE m == Len(added)
<1>6. m \in Nat /\ Len(t) \in Nat /\ DOMAIN t = 1..Len(t) /\ Len(t) = Len(text) + m
  BY <1>1, <1>3, <1>5
<1>7. ASSUME NEW i \in DOMAIN t
      PROVE  \/ i \in 1..at /\ i \in DOMAIN text /\ t[i] = text[i]
             \/ i > at /\ i - at \in 1..m /\ t[i] = added[i - at]
             \/ i > at /\ i - m \in (at + 1)..Len(text) /\ i - m \in DOMAIN text /\ t[i] = text[i - m]
  <2>1. \/ i \in 1..at /\ i \in DOMAIN text
        \/ i > at /\ i - at \in 1..m /\ at + (i - at) = i
        \/ i > at /\ i - m \in (at + 1)..Len(text) /\ i - m \in DOMAIN text /\ (i - m) + m = i
    BY ONLY <1>1, <1>6, <1>7
  <2> QED BY <1>5, <2>1
<1>8. IsText(t)
  <2>1. \A i \in DOMAIN t : IsLine(t[i])
    BY <1>3, <1>7 DEF IsText
  <2>2. t = [i \in 1..Len(t) |-> t[i]]
    BY <1>5
  <2> QED BY <1>6, <2>1, <2>2, TextIs
<1>9. ASSUME NEW i \in DOMAIN text PROVE \E j \in DOMAIN t : t[j] = text[i]
  <2>1. \/ i \in 1..at /\ i \in DOMAIN t
        \/ i \in (at + 1)..Len(text) /\ i + m \in DOMAIN t
    BY ONLY <1>1, <1>6, <1>9
  <2> QED BY <1>5, <2>1
<1>10. StillBound(text, t)
  <2>1. used(t) \subseteq used(text)
    BY <1>3, <1>7, NamesOf
  <2>2. Bound(text) \subseteq Bound(t)
    <3>1. imported(text) \subseteq imported(t)
      BY <1>9, NamesOf
    <3>2. defined(text) \subseteq defined(t)
      BY <1>9, NamesOf
    <3> QED BY <3>1, <3>2 DEF Bound
  <2> QED BY <2>1, <2>2 DEF StillBound
<1>11. ASSUME Plain(text), FutureFirst(text), ~Torn(text) PROVE FutureFirst(t)
  <2> SUFFICES ASSUME NEW i \in DOMAIN t, t[i].kind \in Futures, NEW k \in 1..i
               PROVE  /\ t[k].kind # "code"
                      /\ t[k].kind \in {"doc", "string"} =>
                           \A j \in 1..(k - 1) : t[j].kind \in Unstated
    BY DEF FutureFirst
  <2>1. i \in 1..at /\ i \in DOMAIN text /\ t[i] = text[i]
    <3>1. \A j \in DOMAIN text : text[j].kind \in Futures => j <= at
      BY <1>11, InsertionPoint DEF at
    <3>2. ~(i > at /\ i - at \in 1..m /\ t[i] = added[i - at])
      BY <1>3 DEF Futures
    <3>3. ASSUME i - m \in (at + 1)..Len(text), i - m \in DOMAIN text, t[i] = text[i - m]
          PROVE  FALSE
      <4>1. i - m <= at
        BY <3>1, <3>3
      <4> QED BY <1>1, <1>6, <3>3, <4>1
    <3> QED BY <1>7, <3>2, <3>3
  <2>2. k \in 1..at /\ \A j \in 1..(k - 1) : j \in 1..at
    BY ONLY <1>1, <2>1
  <2>3. t[k] = text[k] /\ \A j \in 1..(k - 1) : t[j] = text[j]
    BY <1>5, <2>2
  <2> QED BY <1>11, <2>1, <2>3 DEF FutureFirst
<1>12. _auto_import(text) = t
  BY DEF _auto_import, t, added, at, names, missing
<1> QED BY <1>8, <1>10, <1>11, <1>12

\* type_inference touches nothing but headers.
LEMMA TypeInference ==
  ASSUME NEW text, IsText(text)
  PROVE  /\ IsText(_type_inference(text)) /\ StillBound(text, _type_inference(text))
         /\ FutureFirst(text) => FutureFirst(_type_inference(text))
<1> DEFINE t == _type_inference(text)
<1>1. Len(text) \in Nat /\ DOMAIN text = 1..Len(text)
  BY Positions
<1>2. DOMAIN t = DOMAIN text /\ t = [i \in 1..Len(text) |-> t[i]]
  BY <1>1 DEF _type_inference
<1>3. \A i \in DOMAIN text :
        /\ IsLine(t[i]) /\ t[i].kind = text[i].kind /\ t[i].imports = text[i].imports
        /\ t[i].binds = text[i].binds /\ t[i].uses = text[i].uses
  BY DEF _type_inference, IsText, IsLine, Blank
<1> HIDE DEF t
<1>4. IsText(t)
  BY <1>1, <1>2, <1>3, TextIs
<1>5. used(t) = used(text) /\ defined(t) = defined(text) /\ imported(t) = imported(text)
  <2>1. ASSUME NEW n
        PROVE  /\ n \in used(t) <=> n \in used(text)
               /\ n \in defined(t) <=> n \in defined(text)
               /\ n \in imported(t) <=> n \in imported(text)
    <3>1. n \in used(t) <=> n \in used(text)
      <4>1. (\E i \in DOMAIN t : n \in t[i].uses) <=> \E i \in DOMAIN text : n \in text[i].uses
        BY <1>2, <1>3
      <4> QED BY <4>1, NamesOf
    <3>2. n \in defined(t) <=> n \in defined(text)
      <4>1. (\E i \in DOMAIN t : n \in t[i].binds) <=> \E i \in DOMAIN text : n \in text[i].binds
        BY <1>2, <1>3
      <4> QED BY <4>1, NamesOf
    <3>3. n \in imported(t) <=> n \in imported(text)
      <4>1. (\E i \in DOMAIN t : \E s \in t[i].imports : n \in s)
              <=> \E i \in DOMAIN text : \E s \in text[i].imports : n \in s
        BY <1>2, <1>3
      <4> QED BY <4>1, NamesOf
    <3> QED BY <3>1, <3>2, <3>3
  <2> QED BY <2>1, ExtentsEqual
<1>6. StillBound(text, t)
  BY <1>5 DEF StillBound, Bound
<1>7. FutureFirst(text) => FutureFirst(t)
  <2>1. \A i \in DOMAIN text : \A k \in 1..i : k \in DOMAIN text /\ \A m \in 1..(k - 1) : m \in DOMAIN text
    BY <1>1
  <2>2. ASSUME FutureFirst(text), NEW i \in DOMAIN text, t[i].kind \in Futures, NEW k \in 1..i
        PROVE  /\ t[k].kind # "code"
               /\ t[k].kind \in {"doc", "string"} =>
                    \A m \in 1..(k - 1) : t[m].kind \in Unstated
    <3>1. k \in DOMAIN text /\ text[i].kind \in Futures /\ text[k].kind = t[k].kind
      BY <1>3, <2>1, <2>2
    <3>2. \A m \in 1..(k - 1) : text[m].kind = t[m].kind
      BY <1>3, <2>1
    <3> QED BY <2>2, <3>1, <3>2 DEF FutureFirst
  <2> QED BY <1>2, <2>2 DEF FutureFirst
<1> QED BY <1>4, <1>6, <1>7 DEF t

\* The three rules, one after the other, each rolled back if what it leaves
\* does not parse.
LEMMA SafelyApplied ==
  ASSUME NEW text, NEW revised, IsText(text), IsText(revised), StillBound(text, revised)
  PROVE  /\ IsText(_apply_safely(text, revised)) /\ StillBound(text, _apply_safely(text, revised))
         /\ _parses(text) => _parses(_apply_safely(text, revised))
         /\ _apply_safely(text, revised) \in {text, revised}
BY StillBoundItself DEF _apply_safely

LEMMA RepairIsText ==
  ASSUME NEW text, IsText(text), NEW rules PROVE IsText(repair(text, rules))
<1>1. \A t : IsText(t) => /\ IsText(_apply_safely(t, _remove_unused(t)))
                          /\ IsText(_apply_safely(t, _auto_import(t)))
                          /\ IsText(_apply_safely(t, _type_inference(t)))
  BY RemoveIsText, AutoImport, TypeInference DEF _apply_safely
<1> QED BY <1>1 DEF repair

LEMMA RepairKeeps ==
  ASSUME NEW text, IsText(text), _parses(text), Plain(text), FutureFirst(text), NEW rules
  PROVE  /\ _parses(repair(text, rules)) /\ FutureFirst(repair(text, rules))
         /\ StillBound(text, repair(text, rules))
<1> DEFINE kept    == IF "remove_unused" \in rules
                      THEN _apply_safely(text, _remove_unused(text)) ELSE text
           imports == IF "auto_import" \in rules /\ ~Torn(kept)
                      THEN _apply_safely(kept, _auto_import(kept)) ELSE kept
           typed   == IF "type_inference" \in rules
                      THEN _apply_safely(imports, _type_inference(imports)) ELSE imports
<1>1. IsText(kept) /\ _parses(kept) /\ Plain(kept) /\ FutureFirst(kept) /\ StillBound(text, kept)
  <2>1. CASE kept = text
    BY <2>1, StillBoundItself
  <2>2. CASE kept = _remove_unused(text) /\ _parses(kept)
    BY <2>2, RemoveIsText, RemoveUnused
  <2> QED BY <2>1, <2>2 DEF _apply_safely
<1> HIDE DEF kept
<1>2. IsText(imports) /\ _parses(imports) /\ FutureFirst(imports) /\ StillBound(kept, imports)
  <2>1. CASE imports = kept
    BY <1>1, <2>1, StillBoundItself
  <2>2. CASE imports = _auto_import(kept) /\ _parses(imports) /\ ~Torn(kept)
    BY <1>1, <2>2, AutoImport
  <2> QED BY <2>1, <2>2 DEF _apply_safely
<1> HIDE DEF imports
<1>3. _parses(typed) /\ FutureFirst(typed) /\ StillBound(imports, typed)
  <2>1. CASE typed = imports
    BY <1>2, <2>1, StillBoundItself
  <2>2. CASE typed = _type_inference(imports) /\ _parses(typed)
    BY <1>2, <2>2, TypeInference
  <2> QED BY <2>1, <2>2 DEF _apply_safely
<1> HIDE DEF typed
<1>4. StillBound(text, typed)
  BY <1>1, <1>2, <1>3, StillBoundOn
<1>5. repair(text, rules) = typed
  BY DEF repair, typed, imports, kept
<1> QED BY <1>3, <1>4, <1>5

\* What a repaired file was made from is a text, and what was written is what
\* the rules make of it.
Rules == SUBSET {"remove_unused", "auto_import", "type_inference"}
Repaired(r) == IsText(r.read) /\ \E rules \in Rules : r.wrote = repair(r.read, rules)

LEMMA RepairedRuns ==
  ASSUME NEW r, Repaired(r), Compiles(r.read), Plain(r.read)
  PROVE  Compiles(r.wrote) /\ BoundUses(r.read) \cap used(r.wrote) \subseteq BoundUses(r.wrote)
<1>1. PICK rules \in Rules : r.wrote = repair(r.read, rules)
  BY DEF Repaired
<1>2. _parses(r.read) /\ FutureFirst(r.read)
  BY DEF Compiles, FutureFirst
<1>3. _parses(r.wrote) /\ FutureFirst(r.wrote) /\ StillBound(r.read, r.wrote)
  BY <1>1, <1>2, RepairKeeps DEF Repaired
<1>4. Compiles(r.wrote)
  BY <1>3 DEF Compiles, FutureFirst
<1>5. BoundUses(r.read) \cap used(r.wrote) \subseteq BoundUses(r.wrote)
  BY <1>3 DEF StillBound, Bound, BoundUses
<1> QED BY <1>4, <1>5

Paths == Sources \cup Dests
TextOrAbsent(content) == content = Absent \/ IsText(content)

\* Every file there is is a text.
DiskOK == DOMAIN disk = Paths /\ \A p \in Paths : TextOrAbsent(disk[p])

RepairInv == LinkInv /\ DiskOK /\ \A r \in last : Repaired(r)

disk_last == <<disk, last>>

LEMMA DiskStays == ASSUME RepairInv, LinkInv', UNCHANGED disk_last PROVE RepairInv'
BY DEF RepairInv, DiskOK, disk_last

\* One path is given a content.
LEMMA DiskWritten ==
  ASSUME DiskOK, NEW path \in Paths, NEW content, TextOrAbsent(content),
         disk' = [disk EXCEPT ![path] = content]
  PROVE  DiskOK'
BY DEF DiskOK

LEMMA WriteKeepsDisk ==
  ASSUME RepairInv, NEW entry \in Entries, NEW content, TextOrAbsent(content), Write(entry, content)
  PROVE  DiskOK'
<1>1. Target(entry.dest) \in Paths
  BY DEF RepairInv, LinkInv, LinksOK, Target, Entries, Paths
<1>2. disk' = [disk EXCEPT ![Target(entry.dest)] = content]
  BY DEF Write
<1> QED BY <1>1, <1>2, DiskWritten DEF RepairInv

LEMMA IngestKeepsTexts == ASSUME RepairInv, LinkInv', IngestFile PROVE RepairInv'
<1> DEFINE entry == Head(entries)
<1>1. entry \in Entries /\ entry.source \in Paths /\ entry.dest \in Paths
  <2>1. entry \in Entries
    BY DEF RepairInv, LinkInv, LinksOK, IngestFile
  <2> HIDE DEF entry
  <2> QED BY <2>1 DEF Entries, Paths
<1> DEFINE text == disk[entry.source]
<1>2. TextOrAbsent(text)
  BY <1>1 DEF RepairInv, DiskOK
<1>3. CASE UNCHANGED <<disk, link, last, linked, written>>
  BY <1>3, DiskStays DEF disk_last
<1>4. CASE WriteRepaired(entry) /\ ~Fails(entry)
  <2>1. IsText(text)
    BY <1>2, <1>4 DEF Fails, TextOrAbsent
  <2>2. /\ Write(entry, repair(text, entry.rules))
        /\ last' = {[read |-> text, wrote |-> repair(text, entry.rules)]}
    BY <1>4 DEF WriteRepaired
  <2> HIDE DEF text, entry
  <2>3. TextOrAbsent(repair(text, entry.rules))
    BY <2>1, RepairIsText DEF TextOrAbsent
  <2>4. DiskOK'
    BY <1>1, <2>2, <2>3, WriteKeepsDisk
  <2>5. \A r \in last' : Repaired(r)
    BY <1>1, <2>1, <2>2 DEF Repaired, Entries, Rules
  <2> QED BY <2>4, <2>5 DEF RepairInv
<1>5. CASE Symlink(entry)
  <2>1. disk' = [disk EXCEPT ![entry.dest] = Absent] /\ last' = last
    BY <1>5 DEF Symlink
  <2>2. DiskOK'
    BY <1>1, <2>1, DiskWritten DEF RepairInv, TextOrAbsent
  <2> QED BY <2>1, <2>2 DEF RepairInv
<1>6. CASE Copy(entry)
  <2>1. Write(entry, text) /\ last' = last
    BY <1>6 DEF Copy
  <2>2. DiskOK'
    BY <1>1, <1>2, <2>1, WriteKeepsDisk
  <2> QED BY <2>1, <2>2 DEF RepairInv
<1> QED BY <1>3, <1>4, <1>5, <1>6 DEF IngestFile

LEMMA RepairInit == Init => RepairInv
<1> SUFFICES ASSUME Init PROVE RepairInv
  OBVIOUS
<1>1. PICK text \in [Sources -> UNION Range(Texts)] :
        /\ \A s \in Sources : text[s] \in Texts[s]
        /\ disk = [p \in Paths |-> IF p \in Sources THEN text[p] ELSE Absent]
  BY DEF Init, IngestInit, Paths
<1>2. DiskOK
  BY <1>1, IngestAssumption DEF DiskOK, TextOrAbsent
<1>3. last = {}
  BY DEF Init, IngestInit
<1> QED BY <1>2, <1>3, LinkInit DEF RepairInv

LEMMA RepairNext == RepairInv /\ [Next]_vars => RepairInv'
<1> SUFFICES ASSUME RepairInv, [Next]_vars PROVE RepairInv'
  OBVIOUS
<1> USE DEF ingest_vars, disk_last
<1>1. LinkInv'
  BY LinkNext DEF RepairInv
<1>2. CASE Start BY <1>1, <1>2, DiskStays DEF Start
<1>3. CASE Ingest
  <2>1. CASE IngestFile BY <1>1, <2>1, IngestKeepsTexts
  <2>2. CASE UNCHANGED <<disk, link, last, linked, written>> BY <1>1, <2>2, DiskStays
  <2> QED BY <1>3, <2>1, <2>2 DEF Ingest
<1>4. CASE SemanticFluidity \/ HardwareProbe \/ Polymorphization \/ Evolution
  BY <1>1, <1>4, DiskStays DEF SemanticFluidity, HardwareProbe, Polymorphization, Evolution, Stage
<1>5. CASE SubmitHpc BY <1>1, <1>5, DiskStays DEF SubmitHpc
<1>6. CASE LocalBuild BY <1>1, <1>6, DiskStays DEF LocalBuild
<1>7. CASE RuntimeStage BY <1>1, <1>7, DiskStays DEF RuntimeStage
<1>8. CASE ValidationStage BY <1>1, <1>8, DiskStays DEF ValidationStage
<1>9. CASE Edit
  <2>1. PICK s \in Sources : \E text \in Texts[s] \cup {Absent} : disk' = [disk EXCEPT ![s] = text]
    BY <1>9 DEF Edit
  <2>2. PICK text \in Texts[s] \cup {Absent} : disk' = [disk EXCEPT ![s] = text]
    BY <2>1
  <2>3. TextOrAbsent(text) /\ s \in Paths
    BY IngestAssumption DEF TextOrAbsent, Paths
  <2>4. DiskOK' /\ last' = last
    BY <1>9, <2>2, <2>3, DiskWritten DEF RepairInv, Edit
  <2> QED BY <1>1, <2>4 DEF RepairInv
<1>10. CASE Kill BY <1>1, <1>10, DiskStays DEF Kill
<1>11. CASE UNCHANGED vars BY <1>1, <1>11, DiskStays DEF vars
<1> QED BY <1>2, <1>3, <1>4, <1>5, <1>6, <1>7, <1>8, <1>9, <1>10, <1>11 DEF Next

\* A repaired file compiles if the one it was made from did, and still binds
\* all the names it uses that were bound in that, except for the two layouts that
\* are not Plain: for any files, contexts, rules and known imports.
THEOREM RepairedStillRunsAlways == Spec => []RepairedStillRuns
<1>1. RepairInv => RepairedStillRuns
  BY RepairedRuns DEF RepairInv, RepairedStillRuns
<1> QED BY RepairInit, RepairNext, <1>1, PTL DEF Spec
-----------------------------------------------------------------------------
(* The job in the cluster.                                                 *)

\* What is needed of the types.
TypesOK ==
  /\ script = [n \in Names |-> script[n]]
  /\ real \in [Jobs -> {"none"} \cup Live \cup Ends]
  /\ spooled = [j \in Jobs |-> spooled[j]]
  /\ pc = [j \in Jobs |-> pc[j]]
  /\ known \in [Jobs -> BOOLEAN]
  /\ state = [j \in Jobs |-> state[j]]
  /\ heard \in [Jobs -> BOOLEAN]

Asking == {"submitted", "accounting", "judging", "cancelling"}

\* The handle of a job that is being waited for is that of a job the cluster
\* has; a job without a handle has failed.
HandleOK(j) ==
  /\ pc[j] \in {"new", "writing", "written"} => ~known[j]
  /\ pc[j] \in Asking => known[j]
  /\ pc[j] = "cancelling" => state[j] = "TIMEOUT"
  /\ pc[j] \in Waited /\ ~known[j] => state[j] = "FAILED"

\* An answer, and what wait() then returns, is still true: a job that is over
\* does not move any more.
AnswerOK(j) ==
  known[j] /\ pc[j] \in {"judging"} \cup Waited =>
    /\ state[j] \in {"FAILED", "CANCELLED"} => real[j] = state[j]
    /\ state[j] = "COMPLETED" /\ heard[j] => real[j] = "COMPLETED"
    /\ state[j] # "NODE_FAIL"

ResultOK(j) ==
  /\ known[j] /\ pc[j] \in Waited => Terminal(state[j])
  /\ pc[j] = "building" => state[j] # "COMPLETED"

Truth(j) == HandleOK(j) /\ AnswerOK(j) /\ ResultOK(j)

TruthInv == TypesOK /\ \A j \in Jobs : Truth(j)

\* One thread at a time: what it has written is what is there.
Single == caller = "submit_many" /\ nodes = 1

AloneOK == \A i, j \in Submitting : i = j

ScriptOK ==
  \A j \in Jobs :
    /\ pc[j] = "writing" => script[Name[j]] = Nothing
    /\ pc[j] = "written" => script[Name[j]] = j

SpoolInv ==
  Single => AloneOK /\ ScriptOK /\ \A j \in Jobs : spooled[j] \in {Nothing, j}
-----------------------------------------------------------------------------
USE DEF hpc_vars, config, cluster, handle, Proceed, Become, Nothing

LEMMA TruthInit == HpcInit => TruthInv
  BY DEF HpcInit, TruthInv, TypesOK, Truth, HandleOK, AnswerOK, ResultOK, Asking, Waited, Terminal

\* A step is about one job, and leaves what is said of the others.
LEMMA OneJob ==
  ASSUME NEW j \in Jobs, TruthInv, TypesOK', Truth(j)',
         \A i \in Jobs \ {j} : /\ pc'[i] = pc[i] /\ real'[i] = real[i]
                              /\ known'[i] = known[i] /\ state'[i] = state[i]
                              /\ heard'[i] = heard[i]
  PROVE  TruthInv'
<1>1. SUFFICES ASSUME NEW i \in Jobs, i # j
               PROVE  Truth(i)'
  BY DEF TruthInv
<1>2. Truth(i)
  BY DEF TruthInv
<1>3. QED
  BY <1>1, <1>2 DEF Truth, HandleOK, AnswerOK, ResultOK, Terminal

\* An answer of squeue, sacct or qstat, or the lack of one, is noted.
LEMMA Answered ==
  ASSUME NEW j \in Jobs, NEW told \in BOOLEAN, NEW word,
         TruthInv, known[j], Answer(j, told, word), UNCHANGED <<script, cluster, known>>,
         word \in {"FAILED", "CANCELLED"} => real[j] = word,
         word = "COMPLETED" /\ told => real[j] = "COMPLETED",
         word # "NODE_FAIL"
  PROVE  TruthInv'
<1>1. TypesOK'
  BY DEF TruthInv, TypesOK, Answer
<1>2. pc'[j] = "judging" /\ state'[j] = word /\ heard'[j] = told
  BY DEF TruthInv, TypesOK, Answer
<1>3. Truth(j)'
  BY <1>2 DEF Truth, HandleOK, AnswerOK, ResultOK, Asking, Waited
<1>4. QED
  BY <1>1, <1>3, OneJob DEF TruthInv, TypesOK, Answer

LEMMA TruthNext == TruthInv /\ [HpcNext]_hpc_vars => TruthInv'
<1>1. SUFFICES ASSUME TruthInv, [HpcNext]_hpc_vars
               PROVE  TruthInv'
  OBVIOUS
<1>2. CASE UNCHANGED hpc_vars
  BY <1>1, <1>2 DEF TruthInv, TypesOK, Truth, HandleOK, AnswerOK, ResultOK, Terminal
<1>3. ASSUME NEW j \in Jobs, Client(j) \/ Progress(j)
      PROVE  TruthInv'
  <2>a. TypesOK /\ HandleOK(j) /\ AnswerOK(j) /\ ResultOK(j)
    BY <1>1 DEF TruthInv, Truth
  <2>1. CASE BeginWrite(j)
    <3>1. TypesOK' /\ Truth(j)'
      BY <2>1, <2>a DEF BeginWrite, TypesOK, Truth, HandleOK, AnswerOK, ResultOK, Asking, Waited
    <3>2. QED
      BY <1>1, <2>1, <2>a, <3>1, OneJob DEF BeginWrite, TypesOK
  <2>2. CASE EndWrite(j)
    <3>1. TypesOK' /\ Truth(j)'
      BY <2>2, <2>a DEF EndWrite, TypesOK, Truth, HandleOK, AnswerOK, ResultOK, Asking, Waited
    <3>2. QED
      BY <1>1, <2>2, <2>a, <3>1, OneJob DEF EndWrite, TypesOK
  <2>3. CASE Refused(j)
    <3>1. TypesOK' /\ Truth(j)'
      BY <2>3, <2>a DEF Refused, TypesOK, Truth, HandleOK, AnswerOK, ResultOK, Asking, Waited
    <3>2. QED
      BY <1>1, <2>3, <2>a, <3>1, OneJob DEF Refused, TypesOK
  <2>4. CASE Accepted(j)
    <3>1. TypesOK'
      BY <2>4, <2>a DEF Accepted, TypesOK, Live
    <3>2. \/ /\ pc'[j] = "submitted" /\ known'[j]
          \/ /\ pc'[j] = "ended" /\ ~known'[j] /\ state'[j] = "FAILED"
      BY <2>4, <2>a DEF Accepted, TypesOK, HandleOK
    <3>3. Truth(j)'
      BY <3>2 DEF Truth, HandleOK, AnswerOK, ResultOK, Asking, Waited
    <3>4. QED
      BY <1>1, <2>4, <2>a, <3>1, <3>3, OneJob DEF Accepted, TypesOK
  <2>5. CASE AskQueue(j)
    <3>1. known[j]
      BY <2>5, <2>a DEF AskQueue, HandleOK, Asking
    <3>2. ASSUME NEW word \in QueueSays(j), Answer(j, TRUE, Normalized(word))
          PROVE  TruthInv'
      <4>1. word = real[j] /\ word \in Live \cup {"COMPLETED"}
        BY <3>2 DEF QueueSays
      <4>2. /\ Normalized(word) \notin {"FAILED", "CANCELLED", "NODE_FAIL"}
            /\ Normalized(word) = "COMPLETED" => real[j] = "COMPLETED"
        BY <4>1 DEF Normalized, Live
      <4>3. QED
        BY <1>1, <2>5, <3>1, <3>2, <4>2, Answered DEF AskQueue
    <3>3. CASE Answer(j, FALSE, WhenSilent)
      BY <1>1, <2>5, <3>1, <3>3, Answered DEF AskQueue, WhenSilent
    <3>4. CASE Proceed(j, "accounting") /\ UNCHANGED <<state, heard>>
      <4>1. TypesOK' /\ pc'[j] = "accounting"
        BY <2>5, <2>a, <3>4 DEF AskQueue, TypesOK
      <4>2. Truth(j)'
        BY <2>5, <3>1, <4>1 DEF AskQueue, Truth, HandleOK, AnswerOK, ResultOK, Asking, Waited
      <4>3. QED
        BY <1>1, <2>5, <2>a, <3>4, <4>1, <4>2, OneJob DEF AskQueue, TypesOK
    <3>5. QED
      BY <2>5, <3>2, <3>3, <3>4 DEF AskQueue
  <2>6. CASE AskAccounting(j)
    <3>1. known[j]
      BY <2>6, <2>a DEF AskAccounting, HandleOK, Asking
    <3>2. ASSUME NEW word \in AccountingSays(j), Answer(j, TRUE, Normalized(word))
          PROVE  TruthInv'
      <4>1. /\ real[j] \in {"none"} \cup Live \cup Ends
            /\ word = real[j] \/ word \in {"CANCELLED+", "PENDING", "RUNNING"}
        BY <2>a, <3>2 DEF AccountingSays, TypesOK
      <4>2. /\ Normalized(word) \in {"FAILED", "CANCELLED"} => real[j] = Normalized(word)
            /\ Normalized(word) = "COMPLETED" => real[j] = "COMPLETED"
            /\ Normalized(word) # "NODE_FAIL"
        BY <4>1 DEF Normalized, Live, Ends
      <4>3. QED
        BY <1>1, <2>6, <3>1, <3>2, <4>2, Answered DEF AskAccounting
    <3>3. CASE Answer(j, FALSE, WhenSilent)
      BY <1>1, <2>6, <3>1, <3>3, Answered DEF AskAccounting, WhenSilent
    <3>4. QED
      BY <2>6, <3>2, <3>3 DEF AskAccounting
  <2>7. CASE Judge(j)
    <3>1. TypesOK'
      BY <2>7, <2>a DEF Judge, TypesOK
    <3>2. Truth(j)'
      BY <2>7, <2>a, <3>1
      DEF Judge, TypesOK, Truth, HandleOK, AnswerOK, ResultOK, Asking, Waited, Terminal
    <3>3. QED
      BY <1>1, <2>7, <2>a, <3>1, <3>2, OneJob DEF Judge, TypesOK
  <2>8. CASE Cancel(j)
    <3>1. TypesOK' /\ pc'[j] = "ended"
      BY <2>8, <2>a DEF Cancel, TypesOK, Live, Ends
    <3>2. known[j] /\ state[j] = "TIMEOUT"
      BY <2>8, <2>a DEF Cancel, HandleOK, AnswerOK, ResultOK, Asking
    <3>3. Truth(j)'
      BY <2>8, <3>1, <3>2
      DEF Cancel, Truth, HandleOK, AnswerOK, ResultOK, Asking, Waited, Terminal
    <3>4. QED
      BY <1>1, <2>8, <2>a, <3>1, <3>3, OneJob DEF Cancel, TypesOK
  <2>9. CASE BuildLocally(j)
    <3>1. TypesOK' /\ Truth(j)'
      BY <2>9, <2>a DEF BuildLocally, TypesOK, Truth, HandleOK, AnswerOK, ResultOK, Asking, Waited
    <3>2. QED
      BY <1>1, <2>9, <2>a, <3>1, OneJob DEF BuildLocally, TypesOK
  <2>10. CASE LocalBuildEnds(j)
    <3>1. TypesOK' /\ Truth(j)'
      BY <2>10, <2>a DEF LocalBuildEnds, TypesOK, Truth, HandleOK, AnswerOK, ResultOK, Asking, Waited
    <3>2. QED
      BY <1>1, <2>10, <2>a, <3>1, OneJob DEF LocalBuildEnds, TypesOK
  <2>11. CASE Progress(j)
    <3>1. TypesOK' /\ real[j] \in Live
      BY <2>11, <2>a DEF Progress, Moves, TypesOK, Live, Ends
    <3>2. Truth(j)'
      BY <2>11, <2>a, <3>1
      DEF Progress, Live, Truth, HandleOK, AnswerOK, ResultOK, Asking, Waited, Terminal
    <3>3. QED
      BY <1>1, <2>11, <2>a, <3>1, <3>2, OneJob DEF Progress, TypesOK
  <2>12. QED
    BY <1>3, <2>1, <2>2, <2>3, <2>4, <2>5, <2>6, <2>7, <2>8, <2>9, <2>10, <2>11 DEF Client
<1>4. QED
  BY <1>1, <1>2, <1>3 DEF HpcNext, Finished

\* What wait() tells of a job that it had an answer about is true when it is
\* told and stays true.
THEOREM TruthInvariant == HpcSpec => []TruthInv
  BY TruthInit, TruthNext, PTL DEF HpcSpec

\* A job with a handle that comes out of wait() as FAILED or CANCELLED has ended
\* so in the cluster.
THEOREM NoFalseAlarmAlways == HpcSpec => []NoFalseAlarm
<1>1. TruthInv => NoFalseAlarm
  BY DEF TruthInv, Truth, AnswerOK, NoFalseAlarm
<1>2. QED
  BY <1>1, TruthInvariant, PTL

\* A job comes out of wait() as COMPLETED although it has not only if its last
\* poll got no answer.
THEOREM SuccessUnlessSilentAlways == HpcSpec => []SuccessUnlessSilent
<1>1. TruthInv => SuccessUnlessSilent
  BY DEF TruthInv, Truth, HandleOK, AnswerOK, SuccessUnlessSilent
<1>2. QED
  BY <1>1, TruthInvariant, PTL

\* A build goes on locally beside its own job in the cluster only after wait()
\* has given the job up, or when the reply to its submission was lost.
THEOREM LocalBuildAloneAlways == HpcSpec => []LocalBuildAlone
<1>1. ASSUME TruthInv, NEW j \in Jobs, pc[j] = "building", real[j] \in Live, known[j]
      PROVE  state[j] = "TIMEOUT"
  <2>1. AnswerOK(j) /\ ResultOK(j)
    BY <1>1 DEF TruthInv, Truth
  <2>2. Terminal(state[j]) /\ state[j] \notin {"COMPLETED", "NODE_FAIL"}
    BY <1>1, <2>1 DEF AnswerOK, ResultOK, Waited
  <2>3. state[j] \notin {"FAILED", "CANCELLED"}
    BY <1>1, <2>1 DEF AnswerOK, Waited, Live
  <2>4. QED
    BY <2>2, <2>3 DEF Terminal
<1>2. TruthInv => LocalBuildAlone
  BY <1>1 DEF LocalBuildAlone
<1>3. QED
  BY <1>2, TruthInvariant, PTL
-----------------------------------------------------------------------------
\* With one thread a submission begins when no other is under way.
LEMMA OneAtATime ==
  ASSUME NEW j \in Jobs, Single, MaySubmit(j)
  PROVE  Submitting = {}
<1>1. Parallel \in {0, 1} /\ Cardinality(Submitting) < Parallel
  BY HpcAssumption DEF Single, MaySubmit, Parallel
<1>2. IsFiniteSet(Submitting)
  <2>1. IsFiniteSet(Jobs)
    BY HpcAssumption, FS_Interval DEF Jobs
  <2>2. QED
    BY <2>1, FS_Subset DEF Submitting
<1>3. Cardinality(Submitting) = 0
  BY <1>1, <1>2, FS_CardinalityType
<1>4. QED
  BY <1>2, <1>3, FS_EmptySet

LEMMA SpoolInit == HpcInit => SpoolInv
  BY DEF HpcInit, SpoolInv, AloneOK, ScriptOK, Submitting

LEMMA SpoolNext == TruthInv /\ SpoolInv /\ [HpcNext]_hpc_vars => SpoolInv'
<1>1. SUFFICES ASSUME TypesOK, SpoolInv, [HpcNext]_hpc_vars, Single'
               PROVE  (AloneOK /\ ScriptOK /\ \A j \in Jobs : spooled[j] \in {Nothing, j})'
  BY DEF SpoolInv, TruthInv
<1>2. Single
  BY <1>1 DEF Single, HpcNext, Client, Finished, Progress, BeginWrite, EndWrite, Refused,
    Accepted, AskQueue, AskAccounting, Judge, Cancel, BuildLocally, LocalBuildEnds
<1>a. AloneOK /\ ScriptOK /\ \A j \in Jobs : spooled[j] \in {Nothing, j}
  BY <1>1, <1>2 DEF SpoolInv
<1>3. CASE UNCHANGED hpc_vars
  BY <1>a, <1>3 DEF AloneOK, ScriptOK, Submitting
<1>4. ASSUME NEW j \in Jobs, Client(j) \/ Progress(j)
      PROVE  (AloneOK /\ ScriptOK /\ \A i \in Jobs : spooled[i] \in {Nothing, i})'
  <2>1. CASE BeginWrite(j)
    <3>1. Submitting = {}
      BY <1>2, <2>1, OneAtATime DEF BeginWrite
    <3>2. Submitting' \subseteq {j} /\ pc'[j] = "writing"
      BY <1>1, <2>1, <3>1 DEF BeginWrite, Submitting, TypesOK
    <3>3. script'[Name[j]] = Nothing
      BY <1>1, <2>1 DEF BeginWrite, TypesOK, Names
    <3>4. QED
      BY <1>a, <2>1, <3>2, <3>3 DEF BeginWrite, AloneOK, ScriptOK, Submitting
  <2>2. CASE EndWrite(j)
    <3>1. script[Name[j]] = Nothing /\ Submitting \subseteq {j}
      BY <1>a, <2>2 DEF EndWrite, AloneOK, ScriptOK, Submitting
    <3>2. Submitting' \subseteq {j} /\ pc'[j] = "written"
      BY <1>1, <2>2, <3>1 DEF EndWrite, Submitting, TypesOK
    <3>3. script'[Name[j]] = j
      BY <1>1, <2>2, <3>1 DEF EndWrite, TypesOK, Names
    <3>4. QED
      BY <1>a, <2>2, <3>2, <3>3 DEF EndWrite, AloneOK, ScriptOK, Submitting
  <2>3. CASE Accepted(j)
    <3>1. script[Name[j]] = j
      BY <1>a, <2>3 DEF Accepted, ScriptOK
    <3>2. \A i \in Jobs : spooled'[i] \in {spooled[i], IF i = j THEN j ELSE spooled[i]}
      BY <1>1, <2>3, <3>1 DEF Accepted, TypesOK
    <3>3. \A i \in Jobs : pc'[i] \in {"writing", "written"} => pc'[i] = pc[i]
      BY <1>1, <2>3 DEF Accepted, TypesOK
    <3>4. QED
      BY <1>a, <2>3, <3>2, <3>3 DEF Accepted, AloneOK, ScriptOK, Submitting
  <2>4. CASE /\ UNCHANGED <<script, spooled>>
             /\ \A i \in Jobs : pc'[i] \in {"writing", "written"} => pc'[i] = pc[i]
    BY <1>a, <2>4 DEF AloneOK, ScriptOK, Submitting
  <2>5. ASSUME ~BeginWrite(j), ~EndWrite(j), ~Accepted(j)
        PROVE  /\ UNCHANGED <<script, spooled>>
               /\ \A i \in Jobs : pc'[i] \in {"writing", "written"} => pc'[i] = pc[i]
    BY <1>1, <1>4, <2>5
    DEF TypesOK, Client, Progress, Refused, AskQueue, AskAccounting, Answer, Judge, Cancel,
      BuildLocally, LocalBuildEnds
  <2>6. QED
    BY <2>1, <2>2, <2>3, <2>4, <2>5
<1>5. QED
  BY <1>1, <1>3, <1>4 DEF HpcNext, Finished

\* With one node submit_many submits one job at a time, so each job runs its own
\* commands, whatever names they share.
THEOREM OwnCommandsAlways == HpcSpec => []OwnCommands
<1>1. SpoolInv => OwnCommands
  BY DEF SpoolInv, Single, OwnCommands
<1>2. QED
  BY <1>1, TruthInit, TruthNext, SpoolInit, SpoolNext, PTL DEF HpcSpec
=============================================================================
