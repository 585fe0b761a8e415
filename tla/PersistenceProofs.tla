------------------------- MODULE PersistenceProofs -------------------------
(***************************************************************************)
(* What outlives a process.  The memoization engine serves a stale source  *)
(* only if the file was edited, and edited back, around the read of it,    *)
(* and within a process nothing that was reported changed, for any keys,   *)
(* files, dependencies, edits and restarts.  The replay ledger's writers   *)
(* are alone, for any number of threads and processes, whatever is killed  *)
(* or fails.                                                               *)
(***************************************************************************)
EXTENDS Memoization, ReplayLedger, TLAPS

-----------------------------------------------------------------------------
(* Memoization: the types.                                                 *)

LEMMA StoredWith ==
  ASSUME NEW store, Stored(store), NEW k \in Keys, NEW entry \in Entries
  PROVE  Stored(With(store, k, entry))
BY DEF Stored, With

LEMMA StoredWithout ==
  ASSUME NEW store, Stored(store), NEW S
  PROVE  Stored(Without(store, S))
BY DEF Stored, Without

LEMMA StoredNothing == Stored(Nothing)
BY DEF Stored, Nothing

LEMMA StoredFound ==
  ASSUME MemoTypeOK, NEW k \in Keys
  PROVE  /\ Stored(Found(k))
         /\ k \in DOMAIN Found(k) => Found(k)[k] \in Entries
<1>1. Stored(memory) /\ Stored(disk)
  BY DEF MemoTypeOK
<1>2. Stored(Found(k))
  <2>1. CASE k \in DOMAIN memory \/ k \notin DOMAIN disk
    BY <1>1, <2>1 DEF Found
  <2>2. CASE ~(k \in DOMAIN memory \/ k \notin DOMAIN disk)
    <3>1. disk[k] \in Entries
      BY <1>1, <2>2 DEF Stored
    <3> QED BY <1>1, <2>2, <3>1, StoredWith DEF Found
  <2> QED BY <2>1, <2>2
<1> QED BY <1>2 DEF Stored

LEMMA FingerprintTyped ==
  ASSUME MemoTypeOK, NEW k \in Keys
  PROVE  Fingerprint(k) \in Fingerprints
<1>1. Source[k] # NoFile => content[Source[k]] \in Codes
  BY MemoAssumption DEF MemoTypeOK
<1> QED BY <1>1 DEF Fingerprint, Fingerprints

LEMMA AppendTyped == ASSUME NEW s \in Seq(Calls), NEW call \in Calls PROVE Append(s, call) \in Seq(Calls)
OBVIOUS

LEMMA TopTyped ==
  ASSUME MemoTypeOK, ~Idle
  PROVE  /\ Len(running) \in Nat \ {0} /\ Top \in Calls /\ Callers \in Seq(Calls)
         /\ Len(Callers) = Len(running) - 1
         /\ \A i \in 1..Len(Callers) : Callers[i] = running[i]
<1>1. running \in Seq(Calls) /\ running # <<>>
  BY DEF MemoTypeOK, Idle
<1>2. Len(running) \in Nat \ {0}
  BY <1>1
<1>3. Top \in Calls
  BY <1>1, <1>2 DEF Top
<1>4. /\ Callers \in Seq(Calls) /\ Len(Callers) = Len(running) - 1
      /\ \A i \in 1..Len(Callers) : Callers[i] = running[i]
  <2>1. /\ DOMAIN Callers = 1..(Len(running) - 1)
        /\ \A i \in 1..(Len(running) - 1) : Callers[i] = running[i]
    BY <1>1, <1>2 DEF Callers
  <2>2. Callers \in Seq(Calls)
    BY <1>1, <1>2 DEF Callers
  <2>3. Len(Callers) = Len(running) - 1
    BY <1>2, <2>1, <2>2
  <2> QED BY <2>1, <2>2, <2>3
<1> QED BY <1>2, <1>3, <1>4

LEMMA ReturnTyped ==
  ASSUME NEW k \in Keys, NEW entry \in Entries, NEW cached \in BOOLEAN,
         NEW callers \in Seq(Calls), Return(k, entry, cached, callers)
  PROVE  /\ answer' \in [key : Keys, entry : Entries, cached : BOOLEAN]
         /\ answer' = [key |-> k, entry |-> entry, cached |-> cached]
         /\ running' \in Seq(Calls) /\ Len(running') = Len(callers)
         /\ \A i \in 1..Len(callers) :
              running'[i] = IF i = Len(callers) THEN Took(callers[i], k, entry) ELSE callers[i]
<1>1. answer' = [key |-> k, entry |-> entry, cached |-> cached]
  BY DEF Return
<1>2. CASE callers = <<>>
  BY <1>1, <1>2 DEF Return
<1>3. CASE callers # <<>>
  <2> DEFINE n == Len(callers)
  <2>1. n \in Nat \ {0} /\ callers[n] \in Calls
    BY <1>3
  <2>2. Took(callers[n], k, entry) \in Calls
    BY <2>1 DEF Took, Calls, Entries
  <2>3. running' = [callers EXCEPT ![n] = Took(callers[n], k, entry)]
    BY <1>3 DEF Return
  <2> QED BY <1>1, <2>1, <2>2, <2>3
<1> QED BY <1>2, <1>3

LEMMA ComputedTyped ==
  ASSUME MemoTypeOK, NEW call \in Calls
  PROVE  Computed(call) \in Entries /\ Saved(call.key, Computed(call)) \in Entries
BY DEF Computed, Stamp, Saved, Entries, Calls, MemoTypeOK

LEMMA InvalidateTyped ==
  ASSUME MemoTypeOK, NEW x, Invalidate(x)
  PROVE  Stored(memory') /\ Stored(disk')
BY StoredWithout DEF Invalidate, MemoTypeOK

LEMMA MemoTypeInit == MemoInit => MemoTypeOK
BY MemoAssumption, StoredNothing DEF MemoInit, MemoTypeOK, Nothing

LEMMA MemoTypeNext == MemoTypeOK /\ [MemoNext]_memo_vars => MemoTypeOK'
<1> SUFFICES ASSUME MemoTypeOK, [MemoNext]_memo_vars PROVE MemoTypeOK'
  OBVIOUS
<1>0. MemoTypeOK
  OBVIOUS
<1>1. ASSUME NEW k \in Keys, MemoizeHit(k) PROVE MemoTypeOK'
  <2>1. Found(k)[k] \in Entries /\ Stored(Found(k))
    BY <1>1, StoredFound DEF MemoizeHit, Hit
  <2>2. Return(k, Found(k)[k], TRUE, running) /\ running \in Seq(Calls)
    BY <1>1 DEF MemoizeHit, MemoTypeOK
  <2>3. answer' \in [key : Keys, entry : Entries, cached : BOOLEAN] /\ running' \in Seq(Calls)
    BY <2>1, <2>2, ReturnTyped
  <2> QED BY <1>1, <2>1, <2>3 DEF MemoizeHit, MemoTypeOK
<1>2. ASSUME NEW k \in Keys, MemoizeMiss(k) PROVE MemoTypeOK'
  <2>1. Stored(Found(k))
    BY StoredFound
  <2>2. Started(k) \in Calls
    BY FingerprintTyped DEF Started, Calls
  <2>3. running' \in Seq(Calls)
    <3>1. running \in Seq(Calls) /\ running' = Append(running, Started(k))
      BY <1>2 DEF MemoizeMiss, MemoTypeOK
    <3> QED BY <2>2, <3>1, AppendTyped
  <2> QED BY <1>2, <2>1, <2>3 DEF MemoizeMiss, MemoTypeOK
<1>3. ASSUME NEW f \in Files, ComputeReads(f) PROVE MemoTypeOK'
  <2>1. Len(running) \in Nat \ {0} /\ running[Len(running)] \in Calls
    BY <1>3, TopTyped DEF ComputeReads, Top
  <2>2. ReadNow(f) \in Reads
    BY DEF ReadNow, Reads, MemoTypeOK
  <2>3. HasRead(running[Len(running)], f) \in Calls
    BY <2>1, <2>2 DEF HasRead, Calls
  <2>4. running' \in Seq(Calls)
    BY <1>3, <2>1, <2>3 DEF ComputeReads, MemoTypeOK
  <2> QED BY <1>3, <2>4 DEF ComputeReads, MemoTypeOK
<1>4. ASSUME NEW write \in Writes, MemoizePut(write) PROVE MemoTypeOK'
  <2>1. Top \in Calls /\ Callers \in Seq(Calls) /\ Top.key \in Keys
    BY <1>4, TopTyped DEF MemoizePut, Calls
  <2>2. Computed(Top) \in Entries /\ Saved(Top.key, Computed(Top)) \in Entries
    BY <2>1, ComputedTyped
  <2>3. Return(Top.key, Computed(Top), FALSE, Callers)
    BY <1>4 DEF MemoizePut
  <2>4. answer' \in [key : Keys, entry : Entries, cached : BOOLEAN] /\ running' \in Seq(Calls)
    BY <2>1, <2>2, <2>3, ReturnTyped
  <2>5. Stored(memory)' /\ Stored(disk)'
    <3>1. Stored(memory) /\ Stored(disk)
      BY DEF MemoTypeOK
    <3>2. Stored(With(memory, Top.key, Computed(Top)))
      BY <2>1, <2>2, <3>1, StoredWith
    <3>3. Stored(Copied(Top.key, Computed(Top), write))
      BY <2>1, <2>2, <3>1, StoredWith, StoredWithout DEF Copied, Writes
    <3>4. memory' = With(memory, Top.key, Computed(Top)) /\ disk' = Copied(Top.key, Computed(Top), write)
      BY <1>4 DEF MemoizePut
    <3> QED BY <3>2, <3>3, <3>4 DEF Stored
  <2>6. edges' \subseteq (Files \cup Keys) \X Keys
    BY <1>4, <2>1, MemoAssumption DEF MemoizePut, MemoTypeOK
  <2> QED BY <1>4, <2>4, <2>5, <2>6 DEF MemoizePut, MemoTypeOK
<1>5. CASE MemoizeRaises
  BY <1>5 DEF MemoizeRaises, MemoTypeOK
<1>6. ASSUME NEW f \in Files, OnFileChanged(f) PROVE MemoTypeOK'
  <2>1. Stored(memory)' /\ Stored(disk)' /\ reports' \in [Files -> 0..MaxReports]
    <3>1. CASE Invalidate(f) /\ reports[f] < MaxReports /\ reports' = [reports EXCEPT ![f] = @ + 1]
      BY <3>1, InvalidateTyped, MemoAssumption DEF MemoTypeOK, Stored
    <3>2. CASE UNCHANGED <<memory, disk, reports>>
      BY <3>2 DEF MemoTypeOK, Stored
    <3> QED BY <1>6, <3>1, <3>2 DEF OnFileChanged
  <2>2. DOMAIN known' \subseteq Files /\ \A g \in DOMAIN known' : known'[g] \in Codes
    BY <1>6 DEF OnFileChanged, MemoTypeOK, With
  <2> QED BY <1>6, <2>1, <2>2 DEF OnFileChanged, MemoTypeOK
<1>7. ASSUME NEW k \in Keys, InvalidateKey(k) PROVE MemoTypeOK'
  <2>1. Stored(memory)' /\ Stored(disk)'
    BY <1>7, InvalidateTyped DEF InvalidateKey, Stored
  <2> QED BY <1>7, <2>1 DEF InvalidateKey, MemoTypeOK
<1>8. CASE OnConfigChanged
  BY <1>8, StoredNothing DEF OnConfigChanged, MemoTypeOK, Stored
<1>9. ASSUME NEW f \in Files, NEW code \in Codes, Edit(f, code) PROVE MemoTypeOK'
  <2>1. content' \in [Files -> Codes]
    BY <1>9 DEF Edit, MemoTypeOK
  <2>2. running' \in Seq(Calls)
    <3>1. \A call \in Calls : Disturbed(call, f) \in Calls
      BY DEF Disturbed, Calls
    <3> QED BY <1>9, <3>1 DEF Edit, MemoTypeOK
  <2> QED BY <1>9, <2>1, <2>2 DEF Edit, MemoTypeOK, Stored
<1>10. CASE Restart
  BY <1>10, MemoAssumption, StoredNothing DEF Restart, MemoTypeOK, Stored, Nothing
<1>11. CASE UNCHANGED memo_vars
  BY <1>11 DEF memo_vars, MemoTypeOK, Stored
<1> QED BY <1>1, <1>2, <1>3, <1>4, <1>5, <1>6, <1>7, <1>8, <1>9, <1>10, <1>11 DEF MemoNext

\* The engine's state is what the code can hold: calls under way, entries in
\* memory and on disk, the graph, and of every value the reads it stems from.
THEOREM MemoTyped == MemoSpec => []MemoTypeOK
BY MemoTypeInit, MemoTypeNext, PTL DEF MemoSpec
-----------------------------------------------------------------------------
(* The code of the source file.                                            *)

\* An entry was computed from the code its fingerprint was taken of.
EntryOK(k, entry) ==
  Source[k] # NoFile /\ ~entry.disturbed
    => \A r \in entry.own : r.file = Source[k] => r.code = entry.fingerprint[2]

\* So will what a call computes; until it reads the source file, the file holds
\* the code of the fingerprint.
CallOK(call) ==
  LET f == Source[call.key]
  IN f # NoFile /\ ~call.disturbed
       => /\ f \notin call.got => call.fingerprint[2] = content[f]
          /\ \A r \in call.own : r.file = f => r.code = call.fingerprint[2]

StoreOK(store) == \A k \in DOMAIN store \cap Keys : EntryOK(k, store[k])

FreshInv ==
  /\ StoreOK(memory) /\ StoreOK(disk)
  /\ \A i \in 1..Len(running) : CallOK(running[i])
  /\ SourceNeverStale

LEMMA StoreWith ==
  ASSUME NEW store, NEW k, NEW entry, StoreOK(store), EntryOK(k, entry)
  PROVE  StoreOK(With(store, k, entry))
BY DEF StoreOK, With

LEMMA StoreWithout ==
  ASSUME NEW store, NEW S, StoreOK(store)
  PROVE  StoreOK(Without(store, S))
BY DEF StoreOK, Without

LEMMA StoreNothing == StoreOK(Nothing)
BY DEF StoreOK, Nothing

LEMMA StoreFound ==
  ASSUME FreshInv, NEW k \in Keys
  PROVE  StoreOK(Found(k))
<1>1. CASE k \in DOMAIN memory \/ k \notin DOMAIN disk
  BY <1>1 DEF Found, FreshInv
<1>2. CASE ~(k \in DOMAIN memory \/ k \notin DOMAIN disk)
  <2>1. EntryOK(k, disk[k])
    BY <1>2 DEF FreshInv, StoreOK
  <2>2. Found(k) = With(memory, k, disk[k])
    BY <1>2 DEF Found
  <2>3. QED
    BY <2>1, <2>2, StoreWith DEF FreshInv
<1>3. QED
  BY <1>1, <1>2

LEMMA FingerprintNow ==
  ASSUME NEW k \in Keys, Source[k] # NoFile
  PROVE  Fingerprint(k)[2] = content[Source[k]]
BY DEF Fingerprint

LEMMA ComputedOK ==
  ASSUME NEW call, CallOK(call)
  PROVE  EntryOK(call.key, Computed(call)) /\ EntryOK(call.key, Saved(call.key, Computed(call)))
BY DEF CallOK, EntryOK, Computed, Stamp, Saved

LEMMA TookOK ==
  ASSUME NEW call \in Calls, NEW k \in Keys, NEW entry, CallOK(call)
  PROVE  CallOK(Took(call, k, entry))
<1>1. /\ Took(call, k, entry).key = call.key /\ Took(call, k, entry).own = call.own
      /\ Took(call, k, entry).fingerprint = call.fingerprint
      /\ Took(call, k, entry).disturbed = call.disturbed
      /\ call.got \subseteq Took(call, k, entry).got
  BY DEF Took, Calls
<1> QED BY <1>1 DEF CallOK

LEMMA ReturnOK ==
  ASSUME NEW k \in Keys, NEW entry \in Entries, NEW cached \in BOOLEAN,
         NEW callers \in Seq(Calls), \A i \in 1..Len(callers) : CallOK(callers[i]),
         Return(k, entry, cached, callers), content' = content
  PROVE  (\A i \in 1..Len(running) : CallOK(running[i]))'
<1>1. /\ Len(running') = Len(callers)
      /\ \A i \in 1..Len(callers) :
           running'[i] = IF i = Len(callers) THEN Took(callers[i], k, entry) ELSE callers[i]
  BY ReturnTyped
<1>2. \A i \in 1..Len(callers) : callers[i] \in Calls
  OBVIOUS
<1>3. \A i \in 1..Len(callers) : CallOK(running'[i])
  BY <1>1, <1>2, TookOK
<1> QED BY <1>1, <1>3 DEF CallOK

LEMMA FreshInit == MemoInit => FreshInv
BY StoreNothing DEF MemoInit, FreshInv, SourceNeverStale

LEMMA InvalidateFresh ==
  ASSUME FreshInv, NEW x, Invalidate(x)
  PROVE  StoreOK(memory') /\ StoreOK(disk')
BY StoreWithout DEF Invalidate, FreshInv

LEMMA FreshNext == MemoTypeOK /\ FreshInv /\ [MemoNext]_memo_vars => FreshInv'
<1> SUFFICES ASSUME MemoTypeOK, FreshInv, [MemoNext]_memo_vars PROVE FreshInv'
  OBVIOUS
<1> DEFINE CallsOK == \A i \in 1..Len(running) : CallOK(running[i])
<1>1. ASSUME StoreOK(memory'), StoreOK(disk'), CallsOK', SourceNeverStale' PROVE FreshInv'
  BY <1>1 DEF FreshInv, StoreOK, EntryOK
<1>2. answer' = Nothing => SourceNeverStale'
  BY DEF SourceNeverStale
<1>3. running' = running /\ content' = content => CallsOK'
  BY DEF FreshInv, CallOK
<1>4. running' = <<>> => CallsOK'
  OBVIOUS
<1>5. ASSUME NEW k \in Keys, MemoizeHit(k) PROVE FreshInv'
  <2> DEFINE entry == Found(k)[k]
  <2>1. entry \in Entries /\ k \in DOMAIN Found(k) /\ entry.fingerprint = Fingerprint(k)
    BY <1>5, StoredFound DEF MemoizeHit, Hit
  <2>2. EntryOK(k, entry) /\ StoreOK(Found(k))
    BY <2>1, StoreFound DEF StoreOK
  <2>3. Return(k, entry, TRUE, running) /\ running \in Seq(Calls) /\ content' = content
    BY <1>5 DEF MemoizeHit, MemoTypeOK
  <2> HIDE DEF entry
  <2>4. CallsOK'
    BY <2>1, <2>3, ReturnOK DEF FreshInv
  <2>5. answer' = [key |-> k, entry |-> entry, cached |-> TRUE]
    BY <2>3 DEF Return
  <2>6. SourceNeverStale'
    <3>1. ASSUME ~entry.disturbed, NEW r \in entry.own, r.file = Source[k]
          PROVE  r.code = content[r.file]
      <4>1. r.file # NoFile
        BY <2>1, <3>1, MemoAssumption DEF Entries, Reads
      <4> QED BY <2>1, <2>2, <3>1, <4>1, FingerprintNow DEF EntryOK
    <3> QED BY <2>3, <2>5, <3>1 DEF SourceNeverStale
  <2> QED BY <1>1, <1>5, <2>2, <2>4, <2>6 DEF MemoizeHit, FreshInv
<1>6. ASSUME NEW k \in Keys, MemoizeMiss(k) PROVE FreshInv'
  <2>1. Started(k) \in Calls /\ running \in Seq(Calls)
    BY FingerprintTyped DEF Started, Calls, MemoTypeOK
  <2>2. CallOK(Started(k))
    BY FingerprintNow DEF CallOK, Started
  <2>3. running' = Append(running, Started(k)) /\ content' = content
    BY <1>6 DEF MemoizeMiss
  <2>4. \A i \in 1..Len(running') : running'[i] = Started(k) \/ (i \in 1..Len(running) /\ running'[i] = running[i])
    BY <2>1, <2>3
  <2>5. CallsOK'
    BY <2>2, <2>3, <2>4 DEF FreshInv, CallOK
  <2> QED BY <1>1, <1>2, <1>6, <2>5, StoreFound DEF MemoizeMiss, FreshInv
<1>7. ASSUME NEW f \in Files, ComputeReads(f) PROVE FreshInv'
  <2>1. Top \in Calls /\ Len(running) \in Nat \ {0} /\ running \in Seq(Calls) /\ Top = running[Len(running)]
    BY <1>7, TopTyped DEF ComputeReads, MemoTypeOK, Top
  <2>2. running' = [running EXCEPT ![Len(running)] = HasRead(Top, f)] /\ content' = content
    BY <1>7 DEF ComputeReads, Top
  <2>3. CallOK(HasRead(Top, f))
    <3>1. CallOK(Top) /\ f \notin Top.got
      BY <1>7, <2>1 DEF FreshInv, ComputeReads
    <3>2. /\ HasRead(Top, f).key = Top.key /\ HasRead(Top, f).fingerprint = Top.fingerprint
          /\ HasRead(Top, f).own = Top.own \cup {ReadNow(f)}
          /\ HasRead(Top, f).got = Top.got \cup {f} /\ HasRead(Top, f).disturbed = Top.disturbed
      BY <2>1 DEF HasRead, Calls
    <3>3. ReadNow(f).file = f /\ ReadNow(f).code = content[f]
      BY DEF ReadNow
    <3> QED BY <3>1, <3>2, <3>3 DEF CallOK
  <2>4. CallsOK'
    BY <2>1, <2>2, <2>3 DEF FreshInv, CallOK
  <2> QED BY <1>1, <1>2, <1>7, <2>4 DEF ComputeReads, FreshInv
<1>8. ASSUME NEW write \in Writes, MemoizePut(write) PROVE FreshInv'
  <2> DEFINE k == Top.key
             entry == Computed(Top)
  <2>1. /\ k \in Keys /\ Top \in Calls /\ Callers \in Seq(Calls) /\ entry \in Entries
        /\ \A i \in 1..Len(Callers) : CallOK(Callers[i])
        /\ CallOK(Top)
    <3>1. Top \in Calls /\ Callers \in Seq(Calls) /\ Len(running) \in Nat \ {0}
          /\ Len(Callers) = Len(running) - 1 /\ \A i \in 1..Len(Callers) : Callers[i] = running[i]
      BY <1>8, TopTyped DEF MemoizePut
    <3>2. \A i \in 1..Len(Callers) : i \in 1..Len(running)
      BY <3>1
    <3>3. CallOK(Top)
      BY <3>1 DEF Top, FreshInv
    <3> QED BY <3>1, <3>2, <3>3, ComputedTyped DEF FreshInv, Calls
  <2>2. EntryOK(k, entry) /\ EntryOK(k, Saved(k, entry))
    BY <2>1, ComputedOK
  <2>3. /\ memory' = With(memory, k, entry) /\ disk' = Copied(k, entry, write)
        /\ Return(k, entry, FALSE, Callers) /\ content' = content
    BY <1>8 DEF MemoizePut
  <2>4. answer' = [key |-> k, entry |-> entry, cached |-> FALSE]
    BY <2>3 DEF Return
  <2> HIDE DEF k, entry
  <2>5. CallsOK'
    BY <2>1, <2>3, ReturnOK
  <2>6. StoreOK(With(memory, k, entry))
    BY <2>2, StoreWith DEF FreshInv
  <2>7. StoreOK(Copied(k, entry, write))
    BY <2>2, StoreWith, StoreWithout DEF FreshInv, Copied, Writes
  <2>8. SourceNeverStale'
    BY <2>4 DEF SourceNeverStale
  <2> QED BY <1>1, <2>3, <2>5, <2>6, <2>7, <2>8
<1>9. CASE MemoizeRaises
  <2>1. \A i \in 1..Len(running') : i \in 1..Len(running) /\ running'[i] = running[i]
    BY <1>9 DEF MemoizeRaises, MemoTypeOK
  <2>2. CallsOK'
    BY <1>9, <2>1 DEF MemoizeRaises, FreshInv, CallOK
  <2> QED BY <1>1, <1>2, <1>9, <2>2 DEF MemoizeRaises, FreshInv
<1>10. ASSUME NEW f \in Files, OnFileChanged(f) PROVE FreshInv'
  <2>1. StoreOK(memory') /\ StoreOK(disk')
    BY <1>10, InvalidateFresh DEF OnFileChanged, FreshInv
  <2> QED BY <1>1, <1>2, <1>3, <1>10, <2>1 DEF OnFileChanged
<1>11. ASSUME NEW k \in Keys, InvalidateKey(k) PROVE FreshInv'
  BY <1>1, <1>2, <1>3, <1>11, InvalidateFresh DEF InvalidateKey
<1>12. CASE OnConfigChanged
  BY <1>1, <1>2, <1>3, <1>12, StoreNothing DEF OnConfigChanged
<1>13. ASSUME NEW f \in Files, NEW code \in Codes, Edit(f, code) PROVE FreshInv'
  <2>1. /\ Len(running) \in Nat /\ \A i \in 1..Len(running) : running[i] \in Calls
        /\ content' = [content EXCEPT ![f] = code] /\ DOMAIN content = Files
        /\ running' = [i \in 1..Len(running) |-> Disturbed(running[i], f)]
    BY <1>13 DEF Edit, MemoTypeOK
  <2>2. ASSUME NEW i \in 1..Len(running) PROVE CallOK(running[i])'
    <3> DEFINE call == running[i]
    <3>1. call \in Calls /\ CallOK(call) /\ running'[i] = Disturbed(call, f)
      BY <2>1 DEF FreshInv
    <3> HIDE DEF call
    <3>2. CASE f = Source[call.key] /\ f \notin call.got
      <4>1. running'[i].disturbed
        BY <3>1, <3>2 DEF Disturbed, Calls
      <4> QED BY <4>1 DEF CallOK
    <3>3. CASE ~(f = Source[call.key] /\ f \notin call.got)
      <4>1. running'[i] = call
        BY <3>1, <3>3 DEF Disturbed
      <4>2. content'[Source[call.key]] = content[Source[call.key]] \/ f = Source[call.key]
        BY <2>1
      <4> QED BY <3>1, <3>3, <4>1, <4>2 DEF CallOK
    <3> QED BY <3>2, <3>3
  <2>3. CallsOK'
    <3>1. Len(running') = Len(running)
      BY <2>1
    <3> QED BY <2>2, <3>1
  <2> QED BY <1>1, <1>2, <1>13, <2>3 DEF Edit, FreshInv
<1>14. CASE Restart
  BY <1>1, <1>2, <1>4, <1>14, StoreNothing DEF Restart, FreshInv
<1>15. CASE UNCHANGED memo_vars
  BY <1>1, <1>3, <1>15 DEF memo_vars, FreshInv, SourceNeverStale
<1> QED BY <1>5, <1>6, <1>7, <1>8, <1>9, <1>10, <1>11, <1>12, <1>13, <1>14, <1>15 DEF MemoNext

\* Of every entry, in memory and on disk, the fingerprint tells the code the
\* value was computed from, unless the source file was edited before it was read.
THEOREM FreshInvariant == MemoSpec => []FreshInv
BY FreshInit, FreshNext, MemoTyped, PTL DEF MemoSpec

\* A cached value is served for code that its source file does not hold only if
\* the file was edited between fingerprint and compute_fn's read of it: for any
\* keys and files, edits back and forth, reports, failing writes and restarts.
THEOREM SourceNeverStaleAlways == MemoSpec => []SourceNeverStale
<1>1. FreshInv => SourceNeverStale
  BY DEF FreshInv
<1> QED BY <1>1, FreshInvariant, PTL
-----------------------------------------------------------------------------
(* Within one process.                                                     *)

\* The file is reported to the key by the dependencies put() has recorded.
Reported(f, k) == k \in Closure(f)

AllReads(x) == x.own \cup x.taken

\* What this process has read for an entry in memory was not reported changed
\* since, and the next report will reach the entry.
EntryFresh(k, entry) ==
  /\ \A r \in AllReads(entry) : Tracked(r.file) /\ r.in = run
       => \/ Reported(r.file, k) /\ r.at = reports[r.file]
          \/ r \in entry.own /\ OnlySource(r.file, k)
  /\ entry.run = run => entry.form = "value"

\* So for what a call has read and taken, once put() has drawn its edges.
CallFresh(call) ==
  \A r \in AllReads(call) :
    /\ r.in <= run
    /\ Tracked(r.file) /\ r.in = run
         => /\ r.at = reports[r.file]
            /\ \/ r \in call.own /\ r.file \in OwnFiles(call.key)
               \/ \E d \in SubKeys(call.key) : Reported(r.file, d)

NotAhead(entry) == entry.run <= run /\ \A r \in AllReads(entry) : r.in <= run

Past(entry) == entry.run < run /\ \A r \in AllReads(entry) : r.in < run

MemoryOK == \A k \in DOMAIN memory : EntryFresh(k, memory[k]) /\ NotAhead(memory[k])

\* Only entries of earlier processes are on disk and not in memory.
DiskOK == \A k \in DOMAIN disk : NotAhead(disk[k]) /\ (k \notin DOMAIN memory => Past(disk[k]))

CallsFresh(stack) == \A i \in 1..Len(stack) : CallFresh(stack[i])

Nested(stack) == \A i \in 1..Len(stack) - 1 : stack[i + 1].key \in SubKeys(stack[i].key)

ProcessInv ==
  MemoryOK /\ DiskOK /\ CallsFresh(running) /\ Nested(running) /\ FreshUntilRestart

\* What an edge leads to from what is reached is reached.
LEMMA ReportedOn ==
  ASSUME NEW f, NEW d, NEW k \in Keys, Reported(f, d)', <<d, k>> \in edges'
  PROVE  Reported(f, k)'
<1> DEFINE Closed(S) == \A e \in edges' : e[1] \in S => e[2] \in S
<1>1. ASSUME NEW S \in SUBSET ({f} \cup Keys), f \in S, Closed(S) PROVE k \in S
  <2>1. d \in S
    BY <1>1 DEF Reported, Closure
  <2> QED BY <1>1, <2>1
<1> QED BY <1>1 DEF Reported, Closure

LEMMA ReportedFirst ==
  ASSUME NEW f, NEW k \in Keys, <<f, k>> \in edges'
  PROVE  Reported(f, k)'
BY DEF Reported, Closure

\* More edges reach no less.
LEMMA ReportedMore ==
  ASSUME edges \subseteq edges', NEW f, NEW k, Reported(f, k)
  PROVE  Reported(f, k)'
<1>1. k \in {f} \cup Keys
  BY DEF Reported, Closure
<1>2. ASSUME NEW S \in SUBSET ({f} \cup Keys), f \in S, \A e \in edges' : e[1] \in S => e[2] \in S
      PROVE  k \in S
  BY <1>2 DEF Reported, Closure
<1> QED BY <1>1, <1>2 DEF Reported, Closure

\* An entry that stays, stays fresh.
LEMMA EntryStays ==
  ASSUME NEW k, NEW entry, EntryFresh(k, entry), edges \subseteq edges',
         reports' = reports, run' = run
  PROVE  EntryFresh(k, entry)'
<1>1. ASSUME NEW f, Reported(f, k) PROVE Reported(f, k)'
  BY <1>1, ReportedMore
<1> QED BY <1>1 DEF EntryFresh, Tracked, OnlySource, SubKeys, AllReads

LEMMA CallStays ==
  ASSUME NEW call, CallFresh(call), edges \subseteq edges', reports' = reports, run' = run
  PROVE  CallFresh(call)'
<1>1. ASSUME NEW f, NEW k, Reported(f, k) PROVE Reported(f, k)'
  BY <1>1, ReportedMore
<1> QED BY <1>1 DEF CallFresh, Tracked, OwnFiles, SubKeys, AllReads

LEMMA StoresStay ==
  ASSUME ProcessInv, UNCHANGED <<memory, disk, run, reports>>, edges \subseteq edges'
  PROVE  MemoryOK' /\ DiskOK'
<1>1. ASSUME NEW k \in DOMAIN memory PROVE EntryFresh(k, memory[k])'
  <2>1. EntryFresh(k, memory[k]) /\ memory' = memory
    BY DEF ProcessInv, MemoryOK
  <2>2. \A entry : EntryFresh(k, entry) => EntryFresh(k, entry)'
    BY EntryStays
  <2> QED BY <2>1, <2>2 DEF EntryFresh
<1> QED BY <1>1 DEF ProcessInv, MemoryOK, DiskOK, NotAhead, Past

\* An eviction reaches every entry the file is reported to.
LEMMA InvalidateProcess ==
  ASSUME ProcessInv, NEW x, Invalidate(x), edges' = edges, run' = run,
         \A f : f # x => reports'[f] = reports[f]
  PROVE  MemoryOK' /\ DiskOK'
<1>1. /\ DOMAIN memory' = DOMAIN memory \ Closure(x)
      /\ \A k \in DOMAIN memory' : memory'[k] = memory[k]
      /\ DOMAIN disk' = DOMAIN disk \ (Closure(x) \cap DOMAIN memory)
      /\ \A k \in DOMAIN disk' : disk'[k] = disk[k]
  BY DEF Invalidate, Without
<1>2. ASSUME NEW k \in DOMAIN memory' PROVE EntryFresh(k, memory[k])' /\ NotAhead(memory[k])'
  <2>1. EntryFresh(k, memory[k]) /\ NotAhead(memory[k]) /\ k \notin Closure(x)
    BY <1>1 DEF ProcessInv, MemoryOK
  <2>2. ASSUME NEW f, Reported(f, k) PROVE Reported(f, k)' /\ reports'[f] = reports[f]
    <3>1. f # x
      BY <2>1, <2>2 DEF Reported
    <3> QED BY <2>2, <3>1 DEF Reported, Closure
  <2>3. \A f : Tracked(f)' <=> Tracked(f)
    BY DEF Tracked, SubKeys
  <2> QED BY <1>1, <2>1, <2>2, <2>3 DEF EntryFresh, NotAhead, OnlySource, AllReads
<1> QED BY <1>1, <1>2 DEF ProcessInv, MemoryOK, DiskOK, NotAhead, Past

\* A value that is returned leaves the calls it is returned to fresh.
LEMMA ReturnProcess ==
  ASSUME NEW k \in Keys, NEW entry \in Entries, NEW cached \in BOOLEAN,
         NEW callers \in Seq(Calls), Return(k, entry, cached, callers),
         \A i \in 1..Len(callers) : \A call : call = callers[i] => CallFresh(call)',
         Nested(callers), callers # <<>> => k \in SubKeys(callers[Len(callers)].key),
         EntryFresh(k, entry)', NotAhead(entry)'
  PROVE  CallsFresh(running)' /\ Nested(running)' /\ FreshUntilRestart'
<1>1. /\ answer' = [key |-> k, entry |-> entry, cached |-> cached]
      /\ Len(running') = Len(callers)
      /\ \A i \in 1..Len(callers) :
           running'[i] = IF i = Len(callers) THEN Took(callers[i], k, entry) ELSE callers[i]
  BY ReturnTyped
<1>2. \A i \in 1..Len(callers) : callers[i] \in Calls
  OBVIOUS
<1>3. \A call \in Calls :
        /\ Took(call, k, entry).key = call.key /\ Took(call, k, entry).own = call.own
        /\ AllReads(Took(call, k, entry)) = AllReads(call) \cup AllReads(entry)
  BY DEF Took, Calls, AllReads
<1>4. ASSUME NEW i \in 1..Len(callers), i = Len(callers), NEW r \in AllReads(entry),
             Tracked(r.file)', r.in = run'
      PROVE  r.at = reports'[r.file] /\ \E d \in SubKeys(callers[i].key) : Reported(r.file, d)'
  <2>1. k \in SubKeys(callers[i].key) /\ callers[i].key \in Keys
    BY <1>2, <1>4 DEF Calls
  <2>2. ~OnlySource(r.file, k)
    BY <1>4, <2>1 DEF Tracked, OnlySource
  <2>3. Reported(r.file, k)' /\ r.at = reports'[r.file]
    BY <1>4, <2>2 DEF EntryFresh, OnlySource
  <2> QED BY <2>1, <2>3
<1>5. ASSUME NEW i \in 1..Len(callers) PROVE CallFresh(running[i])'
  <2>1. PICK call : call = callers[i]
    OBVIOUS
  <2>2. CallFresh(call)' /\ call \in Calls
    BY <1>2, <2>1
  <2>3. CASE i # Len(callers)
    <3>1. running'[i] = call
      BY <1>1, <2>1, <2>3
    <3> QED BY <2>2, <3>1 DEF CallFresh
  <2>4. CASE i = Len(callers)
    <3>1. running'[i] = Took(call, k, entry)
      BY <1>1, <2>1, <2>4
    <3>2. /\ running'[i].key = call.key /\ running'[i].own = call.own
          /\ AllReads(running'[i]) = AllReads(call) \cup AllReads(entry)
      BY <1>3, <2>2, <3>1
    <3>3. \A r \in AllReads(entry) : r.in <= run'
      BY DEF NotAhead
    <3>4. \A r \in AllReads(entry) :
            Tracked(r.file)' /\ r.in = run'
              => r.at = reports'[r.file] /\ \E d \in SubKeys(call.key) : Reported(r.file, d)'
      BY <1>4, <2>1, <2>4
    <3> QED BY <2>2, <3>2, <3>3, <3>4 DEF CallFresh, OwnFiles, SubKeys
  <2> QED BY <2>3, <2>4
<1>6. \A i \in 1..Len(callers) : running'[i].key = callers[i].key
  BY <1>1, <1>2, <1>3
<1>7. Nested(running)'
  <2>1. Len(callers) \in Nat
    OBVIOUS
  <2>2. ASSUME NEW i \in 1..Len(callers) - 1
        PROVE  running'[i + 1].key \in SubKeys(running'[i].key)
    <3>1. i \in 1..Len(callers) /\ i + 1 \in 1..Len(callers)
      BY <2>1
    <3>2. callers[i + 1].key \in SubKeys(callers[i].key)
      BY DEF Nested
    <3>3. running'[i + 1].key = callers[i + 1].key /\ running'[i].key = callers[i].key
      BY <1>6, <3>1
    <3> QED BY <3>2, <3>3
  <2> QED BY <1>1, <2>2 DEF Nested, SubKeys
<1>8. FreshUntilRestart'
  BY <1>1 DEF FreshUntilRestart, EntryFresh, AllReads, OnlySource
<1> QED BY <1>1, <1>5, <1>7, <1>8 DEF CallsFresh

LEMMA ProcessInit == MemoInit => ProcessInv
BY DEF MemoInit, Nothing, ProcessInv, MemoryOK, DiskOK, CallsFresh, Nested, FreshUntilRestart

LEMMA FoundProcess ==
  ASSUME MemoTypeOK, ProcessInv, NEW k \in Keys, memory' = Found(k),
         UNCHANGED <<disk, edges, run, reports>>
  PROVE  /\ MemoryOK' /\ DiskOK'
         /\ \A entry : k \in DOMAIN Found(k) /\ entry = Found(k)[k]
              => EntryFresh(k, entry)' /\ NotAhead(entry)'
<1>1. \A j, entry : EntryFresh(j, entry) => EntryFresh(j, entry)'
  BY EntryStays
<1>2. CASE k \in DOMAIN memory \/ k \notin DOMAIN disk
  <2>1. memory' = memory /\ Found(k) = memory
    BY <1>2 DEF Found
  <2>2. MemoryOK' /\ DiskOK'
    BY <2>1, StoresStay
  <2>3. ASSUME NEW entry, k \in DOMAIN Found(k), entry = Found(k)[k]
        PROVE  EntryFresh(k, entry)' /\ NotAhead(entry)'
    <3>1. EntryFresh(k, entry) /\ NotAhead(entry)
      BY <2>1, <2>3 DEF ProcessInv, MemoryOK
    <3> QED BY <1>1, <3>1 DEF NotAhead
  <2> QED BY <2>2, <2>3
<1>3. CASE k \notin DOMAIN memory /\ k \in DOMAIN disk
  <2>1. /\ memory' = With(memory, k, disk[k]) /\ Found(k) = With(memory, k, disk[k])
        /\ DOMAIN memory' = DOMAIN memory \cup {k} /\ memory'[k] = disk[k]
        /\ \A j \in DOMAIN memory : memory'[j] = memory[j]
    BY <1>3 DEF Found, With
  <2>2. Past(disk[k]) /\ NotAhead(disk[k]) /\ run \in Nat /\ disk[k] \in Entries
    BY <1>3, MemoAssumption DEF ProcessInv, DiskOK, MemoTypeOK, Stored
  <2>3. disk[k].run # run /\ \A r \in AllReads(disk[k]) : r.in # run
    BY <2>2 DEF Past, Entries, AllReads, Reads
  <2>4. \A entry : entry = disk[k] => EntryFresh(k, entry)' /\ NotAhead(entry)'
    BY <2>2, <2>3 DEF EntryFresh, NotAhead, AllReads
  <2>5. ASSUME NEW j \in DOMAIN memory PROVE EntryFresh(j, memory[j])' /\ NotAhead(memory[j])'
    <3>1. EntryFresh(j, memory[j]) /\ NotAhead(memory[j]) /\ memory'[j] = memory[j]
      BY <2>1 DEF ProcessInv, MemoryOK
    <3> QED BY <1>1, <3>1 DEF EntryFresh, NotAhead
  <2>6. EntryFresh(k, memory[k])' /\ NotAhead(memory[k])'
    BY <2>1, <2>4 DEF EntryFresh, NotAhead
  <2>7. MemoryOK'
    BY <2>1, <2>5, <2>6 DEF MemoryOK
  <2>8. DiskOK'
    BY <2>1 DEF ProcessInv, DiskOK, NotAhead, Past
  <2> QED BY <2>1, <2>4, <2>7, <2>8
<1> QED BY <1>2, <1>3

LEMMA CallsStay ==
  ASSUME CallsFresh(running), edges \subseteq edges', reports' = reports, run' = run
  PROVE  \A i \in 1..Len(running) : \A call : call = running[i] => CallFresh(call)'
<1>1. \A call : CallFresh(call) => CallFresh(call)'
  BY CallStays
<1> QED BY <1>1 DEF CallsFresh

LEMMA HitProcess ==
  ASSUME MemoTypeOK, ProcessInv, NEW k \in Keys, MemoizeHit(k)
  PROVE  ProcessInv'
<1>1. /\ memory' = Found(k) /\ UNCHANGED <<content, disk, edges, known, run, reports>>
      /\ running \in Seq(Calls) /\ MayCall(k) /\ k \in DOMAIN Found(k)
      /\ Return(k, Found(k)[k], TRUE, running)
  BY DEF MemoizeHit, Hit, MemoTypeOK
<1>2. PICK entry : entry = Found(k)[k]
  OBVIOUS
<1>3. MemoryOK' /\ DiskOK' /\ EntryFresh(k, entry)' /\ NotAhead(entry)' /\ entry \in Entries
  BY <1>1, <1>2, FoundProcess, StoredFound
<1>4. running # <<>> => k \in SubKeys(running[Len(running)].key)
  BY <1>1 DEF MayCall, Idle, Top
<1>5. \A i \in 1..Len(running) : \A call : call = running[i] => CallFresh(call)'
  BY <1>1, CallsStay DEF ProcessInv
<1>6. Return(k, entry, TRUE, running) /\ Nested(running)
  BY <1>1, <1>2 DEF ProcessInv
<1>7. CallsFresh(running)' /\ Nested(running)' /\ FreshUntilRestart'
  BY <1>1, <1>3, <1>4, <1>5, <1>6, ReturnProcess
<1> QED BY <1>3, <1>7 DEF ProcessInv

LEMMA MissProcess ==
  ASSUME MemoTypeOK, ProcessInv, NEW k \in Keys, MemoizeMiss(k)
  PROVE  ProcessInv'
<1>1. /\ memory' = Found(k) /\ UNCHANGED <<content, disk, edges, known, run, reports>>
      /\ running \in Seq(Calls) /\ MayCall(k) /\ answer' = Nothing
      /\ running' = Append(running, Started(k)) /\ Started(k) \in Calls
  BY FingerprintTyped DEF MemoizeMiss, MemoTypeOK, Started, Calls
<1>2. MemoryOK' /\ DiskOK'
  BY <1>1, FoundProcess
<1>3. /\ Len(running') = Len(running) + 1 /\ Len(running) \in Nat
      /\ running'[Len(running) + 1] = Started(k)
      /\ \A i \in 1..Len(running) : running'[i] = running[i]
  BY <1>1
<1>4. \A i \in 1..Len(running) : \A call : call = running[i] => CallFresh(call)'
  BY <1>1, CallsStay DEF ProcessInv
<1>5. ASSUME NEW i \in 1..Len(running) PROVE CallFresh(running[i])'
  <2>1. PICK call : call = running[i]
    OBVIOUS
  <2> QED BY <1>3, <1>4, <2>1 DEF CallFresh
<1>6. Started(k).own = {} /\ Started(k).taken = {} /\ Started(k).key = k
  BY DEF Started
<1>7. CallsFresh(running)'
  <2>1. ASSUME NEW i \in 1..Len(running'), i \notin 1..Len(running) PROVE CallFresh(running[i])'
    <3>1. running'[i] = Started(k)
      BY <1>3, <2>1
    <3> QED BY <1>6, <3>1 DEF CallFresh, AllReads
  <2> QED BY <1>5, <2>1 DEF CallsFresh
<1>8. Nested(running)'
  <2>1. ASSUME NEW i \in 1..Len(running') - 1
        PROVE  running'[i + 1].key \in SubKeys(running'[i].key)
    <3>1. CASE i = Len(running)
      <4>1. k \in SubKeys(running[i].key)
        BY <1>1, <1>3, <3>1 DEF MayCall, Idle, Top
      <4> QED BY <1>3, <1>6, <3>1, <4>1
    <3>2. CASE i # Len(running)
      <4>1. i \in 1..Len(running) - 1 /\ i \in 1..Len(running) /\ i + 1 \in 1..Len(running)
        BY <1>3, <3>2
      <4>2. running[i + 1].key \in SubKeys(running[i].key)
        BY <4>1 DEF ProcessInv, Nested
      <4> QED BY <1>3, <4>1, <4>2
    <3> QED BY <3>1, <3>2
  <2> QED BY <2>1 DEF Nested, SubKeys
<1> QED BY <1>1, <1>2, <1>7, <1>8 DEF ProcessInv, FreshUntilRestart

LEMMA ReadsProcess ==
  ASSUME MemoTypeOK, ProcessInv, NEW f \in Files, ComputeReads(f)
  PROVE  ProcessInv'
<1>1. /\ Top \in Calls /\ Len(running) \in Nat \ {0} /\ running \in Seq(Calls)
      /\ Top = running[Len(running)] /\ f \in OwnFiles(Top.key)
      /\ running' = [running EXCEPT ![Len(running)] = HasRead(Top, f)]
      /\ UNCHANGED <<memory, disk, edges, run, reports>> /\ answer' = Nothing
  BY TopTyped DEF ComputeReads, MemoTypeOK, Top
<1>2. /\ Len(running') = Len(running)
      /\ \A i \in 1..Len(running) :
           running'[i] = IF i = Len(running) THEN HasRead(Top, f) ELSE running[i]
  BY <1>1
<1>3. /\ HasRead(Top, f).key = Top.key /\ HasRead(Top, f).own = Top.own \cup {ReadNow(f)}
      /\ HasRead(Top, f).taken = Top.taken
  BY <1>1 DEF HasRead, Calls
<1>4. ReadNow(f).file = f /\ ReadNow(f).at = reports[f] /\ ReadNow(f).in = run /\ run \in Int
  BY MemoAssumption DEF ReadNow, MemoTypeOK
<1>5. \A i \in 1..Len(running) : \A call : call = running[i] => CallFresh(call)'
  BY <1>1, CallsStay DEF ProcessInv
<1>6. ASSUME NEW i \in 1..Len(running) PROVE CallFresh(running[i])'
  <2>1. PICK call : call = running[i]
    OBVIOUS
  <2>2. CallFresh(call)'
    BY <1>5, <2>1
  <2>3. CASE i # Len(running)
    <3>1. running'[i] = call
      BY <1>2, <2>1, <2>3
    <3> QED BY <2>2, <3>1 DEF CallFresh
  <2>4. CASE i = Len(running)
    <3>1. /\ running'[i].key = call.key /\ running'[i].own = call.own \cup {ReadNow(f)}
          /\ running'[i].taken = call.taken /\ f \in OwnFiles(call.key)
      BY <1>1, <1>2, <1>3, <2>1, <2>4
    <3>2. ASSUME NEW r \in AllReads(running'[i]), r # ReadNow(f) PROVE r \in AllReads(call)
      BY <3>1, <3>2 DEF AllReads
    <3> QED BY <1>1, <1>4, <2>2, <3>1, <3>2 DEF CallFresh, OwnFiles
  <2> QED BY <2>3, <2>4
<1>7. CallsFresh(running)'
  BY <1>2, <1>6 DEF CallsFresh
<1>8. \A i \in 1..Len(running) : running'[i].key = running[i].key
  BY <1>1, <1>2, <1>3
<1>9. Nested(running)'
  <2>1. ASSUME NEW i \in 1..Len(running) - 1
        PROVE  running'[i + 1].key \in SubKeys(running'[i].key)
    <3>1. i \in 1..Len(running) /\ i + 1 \in 1..Len(running)
      BY <1>1
    <3>2. running[i + 1].key \in SubKeys(running[i].key)
      BY DEF ProcessInv, Nested
    <3> QED BY <1>8, <3>1, <3>2
  <2> QED BY <1>2, <2>1 DEF Nested, SubKeys
<1>10. MemoryOK' /\ DiskOK'
  BY <1>1, StoresStay
<1> QED BY <1>1, <1>7, <1>9, <1>10 DEF ProcessInv, FreshUntilRestart

LEMMA PutProcess ==
  ASSUME MemoTypeOK, ProcessInv, NEW write \in Writes, MemoizePut(write)
  PROVE  ProcessInv'
<1>1. PICK call, k, entry : call = Top /\ k = Top.key /\ entry = Computed(Top)
  OBVIOUS
<1>2. /\ call \in Calls /\ k \in Keys /\ entry \in Entries /\ Callers \in Seq(Calls)
      /\ Len(running) \in Nat \ {0} /\ Len(Callers) = Len(running) - 1
      /\ \A i \in 1..Len(Callers) : Callers[i] = running[i]
      /\ call = running[Len(running)] /\ k = call.key
  BY <1>1, TopTyped, ComputedTyped DEF MemoizePut, Top, Calls
<1>3. /\ memory' = With(memory, k, entry) /\ disk' = Copied(k, entry, write)
      /\ edges' = edges \cup {<<d, k>> : d \in Deps[k]}
      /\ Return(k, entry, FALSE, Callers)
      /\ UNCHANGED <<content, known, run, reports>>
  BY <1>1 DEF MemoizePut
<1>4. /\ entry.own = call.own /\ entry.taken = call.taken /\ entry.form = "value"
      /\ entry.run = run /\ AllReads(entry) = AllReads(call)
      /\ run \in Int
  BY <1>1, MemoAssumption DEF Computed, AllReads, MemoTypeOK
<1>5. CallFresh(call)
  BY <1>2 DEF ProcessInv, CallsFresh
<1>6. NotAhead(entry)' /\ NotAhead(entry)
  BY <1>3, <1>4, <1>5 DEF NotAhead, CallFresh
<1>7. EntryFresh(k, entry)'
  <2>1. ASSUME NEW r \in AllReads(entry), Tracked(r.file), r.in = run
        PROVE  \/ Reported(r.file, k)' /\ r.at = reports[r.file]
               \/ r \in entry.own /\ OnlySource(r.file, k)
    <3>1. r.at = reports[r.file]
      BY <1>4, <1>5, <2>1 DEF CallFresh
    <3>2. CASE r \in call.own /\ r.file \in OwnFiles(k)
      <4>1. CASE r.file \in Deps[k]
        BY <1>2, <1>3, <3>1, <4>1, ReportedFirst
      <4>2. CASE r.file \notin Deps[k]
        BY <1>4, <3>2, <4>2 DEF OwnFiles, OnlySource
      <4> QED BY <4>1, <4>2
    <3>3. ASSUME NEW d \in SubKeys(k), Reported(r.file, d) PROVE Reported(r.file, k)'
      <4>1. Reported(r.file, d)' /\ <<d, k>> \in edges'
        BY <1>3, <3>3, ReportedMore DEF SubKeys
      <4> QED BY <1>2, <4>1, ReportedOn
    <3> QED BY <1>2, <1>4, <1>5, <2>1, <3>1, <3>2, <3>3 DEF CallFresh
  <2>2. \A f : Tracked(f)' <=> Tracked(f)
    BY DEF Tracked, SubKeys
  <2> QED BY <1>3, <1>4, <2>1, <2>2 DEF EntryFresh, OnlySource
<1>8. /\ DOMAIN memory' = DOMAIN memory \cup {k} /\ memory'[k] = entry
      /\ \A j \in DOMAIN memory \ {k} : memory'[j] = memory[j]
  BY <1>3 DEF With
<1>9. MemoryOK'
  <2>1. \A j, e : EntryFresh(j, e) => EntryFresh(j, e)'
    BY <1>3, EntryStays
  <2>2. ASSUME NEW j \in DOMAIN memory \ {k} PROVE EntryFresh(j, memory[j])' /\ NotAhead(memory[j])'
    <3>1. EntryFresh(j, memory[j]) /\ NotAhead(memory[j]) /\ memory'[j] = memory[j]
      BY <1>8 DEF ProcessInv, MemoryOK
    <3> QED BY <1>3, <2>1, <3>1 DEF EntryFresh, NotAhead
  <2>3. EntryFresh(k, memory[k])' /\ NotAhead(memory[k])'
    BY <1>6, <1>7, <1>8 DEF EntryFresh, NotAhead
  <2> QED BY <1>8, <2>2, <2>3 DEF MemoryOK
<1>10. DiskOK'
  <2>1. /\ DOMAIN disk' \subseteq DOMAIN disk \cup {k}
        /\ \A j \in DOMAIN disk' \ {k} : disk'[j] = disk[j]
        /\ k \in DOMAIN disk' => disk'[k] \in {Saved(k, entry), disk[k]}
        /\ k \in DOMAIN disk' /\ disk'[k] # Saved(k, entry) => k \in DOMAIN disk
    BY <1>3 DEF Copied, Writes, With, Without
  <2>2. /\ Saved(k, entry).own = entry.own /\ Saved(k, entry).taken = entry.taken
        /\ Saved(k, entry).run = entry.run
    BY <1>2 DEF Saved, Entries
  <2>3. NotAhead(Saved(k, entry))
    BY <1>6, <2>2 DEF NotAhead, AllReads
  <2>4. ASSUME NEW j \in DOMAIN disk'
        PROVE  NotAhead(disk[j])' /\ (j \notin DOMAIN memory' => Past(disk[j])')
    <3>1. CASE j = k
      <4>1. NotAhead(disk'[k])
        BY <2>1, <2>3, <3>1 DEF ProcessInv, DiskOK
      <4> QED BY <1>3, <1>8, <3>1, <4>1 DEF NotAhead
    <3>2. CASE j # k
      BY <1>3, <1>8, <2>1, <3>2 DEF ProcessInv, DiskOK, NotAhead, Past
    <3> QED BY <3>1, <3>2
  <2> QED BY <2>4 DEF DiskOK
<1>11. CallsFresh(running)' /\ Nested(running)' /\ FreshUntilRestart'
  <2>1. \A i \in 1..Len(Callers) : \A c : c = Callers[i] => CallFresh(c)'
    <3>1. \A i \in 1..Len(running) : \A c : c = running[i] => CallFresh(c)'
      BY <1>3, CallsStay DEF ProcessInv
    <3>2. \A i \in 1..Len(Callers) : i \in 1..Len(running)
      BY <1>2
    <3> QED BY <1>2, <3>1, <3>2
  <2>2. Nested(Callers)
    <3>1. \A i \in 1..Len(Callers) - 1 :
            i \in 1..Len(running) - 1 /\ i \in 1..Len(Callers) /\ i + 1 \in 1..Len(Callers)
      BY <1>2
    <3> QED BY <1>2, <3>1 DEF ProcessInv, Nested
  <2>3. Callers # <<>> => k \in SubKeys(Callers[Len(Callers)].key)
    <3> SUFFICES ASSUME Callers # <<>> PROVE k \in SubKeys(Callers[Len(Callers)].key)
      OBVIOUS
    <3>1. Len(running) - 1 \in 1..Len(running) - 1 /\ Len(Callers) \in 1..Len(Callers)
      BY <1>2
    <3>2. running[Len(running) - 1 + 1].key \in SubKeys(running[Len(running) - 1].key)
      BY <3>1 DEF ProcessInv, Nested
    <3> QED BY <1>2, <3>1, <3>2
  <2> QED BY <1>2, <1>3, <1>6, <1>7, <2>1, <2>2, <2>3, ReturnProcess
<1> QED BY <1>9, <1>10, <1>11 DEF ProcessInv

\* The calls that go on when those inside them raise.
LEMMA RaisesProcess ==
  ASSUME MemoTypeOK, ProcessInv, MemoizeRaises
  PROVE  ProcessInv'
<1>1. /\ UNCHANGED <<memory, disk, edges, run, reports>> /\ answer' = Nothing
      /\ \A i \in 1..Len(running') : i \in 1..Len(running) /\ running'[i] = running[i]
      /\ \A i \in 1..Len(running') - 1 :
           i \in 1..Len(running) - 1 /\ i \in 1..Len(running') /\ i + 1 \in 1..Len(running')
  BY DEF MemoizeRaises, MemoTypeOK
<1>2. ASSUME NEW i \in 1..Len(running') PROVE CallFresh(running[i])'
  <2>1. PICK call : call = running[i]
    OBVIOUS
  <2>2. CallFresh(call)' /\ running'[i] = call
    BY <1>1, <2>1, CallsStay DEF ProcessInv
  <2> QED BY <2>2 DEF CallFresh
<1>3. CallsFresh(running)'
  BY <1>2 DEF CallsFresh
<1>4. Nested(running)'
  BY <1>1 DEF ProcessInv, Nested, SubKeys
<1>5. MemoryOK' /\ DiskOK'
  BY <1>1, StoresStay
<1> QED BY <1>1, <1>3, <1>4, <1>5 DEF ProcessInv, FreshUntilRestart

LEMMA EditProcess ==
  ASSUME MemoTypeOK, ProcessInv, NEW f \in Files, NEW code \in Codes, Edit(f, code)
  PROVE  ProcessInv'
<1>1. /\ UNCHANGED <<memory, disk, edges, run, reports>> /\ answer' = Nothing
      /\ running \in Seq(Calls) /\ running' = [i \in 1..Len(running) |-> Disturbed(running[i], f)]
  BY DEF Edit, MemoTypeOK
<1>2. /\ Len(running') = Len(running) /\ Len(running) \in Nat
      /\ \A i \in 1..Len(running) : running'[i] = Disturbed(running[i], f) /\ running[i] \in Calls
  BY <1>1
<1>3. \A call \in Calls : /\ Disturbed(call, f).key = call.key
                          /\ Disturbed(call, f).own = call.own
                          /\ Disturbed(call, f).taken = call.taken
  BY DEF Disturbed, Calls
<1>4. ASSUME NEW i \in 1..Len(running) PROVE CallFresh(running[i])'
  <2>1. PICK call : call = running[i]
    OBVIOUS
  <2>2. CallFresh(call)'
    BY <1>1, <2>1, CallsStay DEF ProcessInv
  <2>3. running'[i].key = call.key /\ running'[i].own = call.own /\ running'[i].taken = call.taken
    BY <1>2, <1>3, <2>1
  <2> QED BY <2>2, <2>3 DEF CallFresh, AllReads
<1>5. CallsFresh(running)'
  BY <1>2, <1>4 DEF CallsFresh
<1>6. Nested(running)'
  <2>1. ASSUME NEW i \in 1..Len(running) - 1
        PROVE  running'[i + 1].key \in SubKeys(running'[i].key)
    <3>1. i \in 1..Len(running) /\ i + 1 \in 1..Len(running)
      BY <1>2
    <3>2. running[i + 1].key \in SubKeys(running[i].key)
      BY DEF ProcessInv, Nested
    <3> QED BY <1>2, <1>3, <3>1, <3>2
  <2> QED BY <1>2, <2>1 DEF Nested, SubKeys
<1>7. MemoryOK' /\ DiskOK'
  BY <1>1, StoresStay
<1> QED BY <1>1, <1>5, <1>6, <1>7 DEF ProcessInv, FreshUntilRestart

\* Between calls, an eviction leaves what it does not reach.
LEMMA EvictionProcess ==
  ASSUME ProcessInv, NEW x, Idle, Invalidate(x), answer' = Nothing,
         UNCHANGED <<edges, run, running>>, \A f : f # x => reports'[f] = reports[f]
  PROVE  ProcessInv'
<1>1. MemoryOK' /\ DiskOK'
  BY InvalidateProcess
<1>2. CallsFresh(running)' /\ Nested(running)'
  BY DEF Idle, CallsFresh, Nested
<1> QED BY <1>1, <1>2 DEF ProcessInv, FreshUntilRestart

LEMMA ProcessNext == MemoTypeOK /\ ProcessInv /\ [MemoNext]_memo_vars => ProcessInv'
<1> SUFFICES ASSUME MemoTypeOK, ProcessInv, [MemoNext]_memo_vars PROVE ProcessInv'
  OBVIOUS
<1>1. ASSUME NEW f \in Files, OnFileChanged(f) PROVE ProcessInv'
  <2>1. Idle /\ answer' = Nothing /\ UNCHANGED <<edges, run, running>>
    BY <1>1 DEF OnFileChanged
  <2>2. CASE Invalidate(f) /\ reports' = [reports EXCEPT ![f] = @ + 1]
    <3>1. \A g : g # f => reports'[g] = reports[g]
      BY <2>2 DEF MemoTypeOK
    <3> QED BY <2>1, <2>2, <3>1, EvictionProcess
  <2>3. CASE UNCHANGED <<memory, disk, reports>>
    <3>1. MemoryOK' /\ DiskOK'
      BY <2>1, <2>3, StoresStay
    <3>2. CallsFresh(running)' /\ Nested(running)'
      BY <2>1 DEF Idle, CallsFresh, Nested
    <3> QED BY <2>1, <3>1, <3>2 DEF ProcessInv, FreshUntilRestart
  <2> QED BY <1>1, <2>2, <2>3 DEF OnFileChanged
<1>2. ASSUME NEW k \in Keys, InvalidateKey(k) PROVE ProcessInv'
  BY <1>2, EvictionProcess DEF InvalidateKey
<1>3. CASE OnConfigChanged
  BY <1>3 DEF OnConfigChanged, Nothing, ProcessInv, MemoryOK, DiskOK, Idle, CallsFresh, Nested,
              FreshUntilRestart
<1>4. CASE Restart
  <2>1. /\ run' = run + 1 /\ memory' = <<>> /\ disk' = disk /\ running' = <<>>
        /\ answer' = Nothing /\ run \in Int
    BY <1>4, MemoAssumption DEF Restart, Nothing, MemoTypeOK
  <2>2. ASSUME NEW k \in DOMAIN disk PROVE NotAhead(disk[k])' /\ Past(disk[k])'
    <3>1. NotAhead(disk[k]) /\ disk[k] \in Entries
      BY DEF ProcessInv, DiskOK, MemoTypeOK, Stored
    <3>2. disk[k].run \in Int /\ \A r \in AllReads(disk[k]) : r.in \in Int
      BY <3>1 DEF Entries, AllReads, Reads
    <3> QED BY <2>1, <3>1, <3>2 DEF NotAhead, Past, AllReads
  <2> QED BY <2>1, <2>2 DEF ProcessInv, MemoryOK, DiskOK, CallsFresh, Nested, FreshUntilRestart
<1>5. CASE UNCHANGED memo_vars
  <2>1. MemoryOK' /\ DiskOK'
    BY <1>5, StoresStay DEF memo_vars
  <2>2. CallsFresh(running)' /\ Nested(running)'
    BY <1>5 DEF memo_vars, ProcessInv, CallsFresh, CallFresh, Nested, SubKeys, OwnFiles, AllReads,
                Reported, Closure, Tracked
  <2>3. FreshUntilRestart'
    BY <1>5 DEF memo_vars, ProcessInv, FreshUntilRestart, Tracked, SubKeys, OnlySource
  <2> QED BY <2>1, <2>2, <2>3 DEF ProcessInv
<1> QED BY <1>1, <1>2, <1>3, <1>4, <1>5, HitProcess, MissProcess, ReadsProcess, PutProcess,
           RaisesProcess, EditProcess DEF MemoNext

\* What memory holds of this process was read since the last report that found
\* its file changed, and the next report reaches all that stems from the file;
\* so for what is being computed; what only the disk holds is of earlier
\* processes.
THEOREM ProcessInvariant == MemoSpec => []ProcessInv
BY ProcessInit, ProcessNext, MemoTyped, PTL DEF MemoSpec

\* No value is served in the process that read a Tracked file for it after a
\* report has found the file changed, however long the chain of dependencies,
\* whatever was evicted, cleared, edited back or not written, and however the
\* calls of memoize() are nested; and none is served as text.
THEOREM FreshUntilRestartAlways == MemoSpec => []FreshUntilRestart
<1>1. ProcessInv => FreshUntilRestart
  BY DEF ProcessInv
<1> QED BY <1>1, ProcessInvariant, PTL

-----------------------------------------------------------------------------
(* ReplayLedger.                                                           *)

Holder(t, mode) == [thread |-> t, mode |-> mode]

FunctionsOK ==
  /\ pc  = [t \in Threads |-> pc[t]]
  /\ job = [t \in Threads |-> job[t]]

FlockOK == flock \subseteq [thread : Threads, mode : {Shared, Exclusive}]

\* Two threads hold the file's lock at once only if both hold it shared.
Compatible ==
  \A g, h \in flock : g.thread # h.thread => g.mode = Shared /\ h.mode = Shared

\* Where a thread is tells which lock it holds, until it leaves or is killed.
HoldersOK ==
  \A t \in Threads :
     /\ pc[t] = "reading" => Holder(t, Mode(t)) \in flock
     /\ pc[t] \in {"initialising", "truncating", "writing"} => Holder(t, Exclusive) \in flock

LockInv == FunctionsOK /\ FlockOK /\ Compatible /\ HoldersOK
-----------------------------------------------------------------------------
USE DEF vars, Holder, Shared, Exclusive

\* What the invariant needs of a step that leaves the lock alone: it moves one
\* thread from a place without a lock to another, or to one whose lock it has.
LEMMA SameLock ==
  ASSUME LockInv, NEW t \in Threads, flock' = flock, FunctionsOK',
         \A u \in Threads \ {t} : pc'[u] = pc[u] /\ job'[u] = job[u],
         pc'[t] = "reading" => Holder(t, Mode(t)') \in flock,
         pc'[t] \in {"initialising", "truncating", "writing"} => Holder(t, Exclusive) \in flock
  PROVE  LockInv'
<1>1. FlockOK' /\ Compatible'
  BY DEF LockInv, FlockOK, Compatible
<1>2. HoldersOK'
  <2>1. SUFFICES ASSUME NEW u \in Threads
                 PROVE  /\ pc'[u] = "reading" => Holder(u, Mode(u)') \in flock
                        /\ pc'[u] \in {"initialising", "truncating", "writing"}
                             => Holder(u, Exclusive) \in flock
    BY DEF HoldersOK
  <2>2. CASE u = t
    BY <2>2
  <2>3. CASE u # t
    BY <2>3 DEF LockInv, HoldersOK, Mode
  <2>4. QED
    BY <2>2, <2>3
<1>3. QED
  BY <1>1, <1>2 DEF LockInv

\* Taking the lock that flock grants.
LEMMA TakeLock ==
  ASSUME LockInv, NEW t \in Threads, NEW mode \in {Shared, Exclusive},
         MayLock(t, mode), Hold(t, mode), FunctionsOK',
         \A u \in Threads \ {t} : pc'[u] = pc[u] /\ job'[u] = job[u],
         \/ pc'[t] = "reading" /\ Mode(t)' = mode
         \/ pc'[t] = "initialising" /\ mode = Exclusive
  PROVE  LockInv'
<1>1. flock' = flock \cup {Holder(t, mode)}
  BY DEF Hold
<1>2. FlockOK'
  BY <1>1 DEF LockInv, FlockOK
<1>3. Compatible'
  <2>1. SUFFICES ASSUME NEW g \in flock', NEW h \in flock', g.thread # h.thread
                 PROVE  g.mode = Shared /\ h.mode = Shared
    BY DEF Compatible
  <2>2. CASE g \in flock /\ h \in flock
    BY <2>1, <2>2 DEF LockInv, Compatible
  <2>3. CASE g = Holder(t, mode) /\ h \in flock
    BY <2>1, <2>3 DEF MayLock
  <2>4. CASE h = Holder(t, mode) /\ g \in flock
    BY <2>1, <2>4 DEF MayLock
  <2>5. QED
    BY <1>1, <2>1, <2>2, <2>3, <2>4
<1>4. HoldersOK'
  <2>1. SUFFICES ASSUME NEW u \in Threads
                 PROVE  /\ pc'[u] = "reading" => Holder(u, Mode(u)') \in flock'
                        /\ pc'[u] \in {"initialising", "truncating", "writing"}
                             => Holder(u, Exclusive) \in flock'
    BY DEF HoldersOK
  <2>2. CASE u = t
    BY <1>1, <2>2
  <2>3. CASE u # t
    BY <1>1, <2>3 DEF LockInv, HoldersOK, Mode
  <2>4. QED
    BY <2>2, <2>3
<1>5. QED
  BY <1>2, <1>3, <1>4 DEF LockInv

\* Giving the lock up, on leaving the file.
LEMMA DropLock ==
  ASSUME LockInv, NEW t \in Threads, Drop(t), FunctionsOK',
         \A u \in Threads \ {t} : pc'[u] = pc[u] /\ job'[u] = job[u],
         pc'[t] \in {"idle", "opening"}
  PROVE  LockInv'
<1>1. FlockOK' /\ Compatible'
  BY DEF LockInv, FlockOK, Compatible, Drop
<1>2. HoldersOK'
  <2>1. SUFFICES ASSUME NEW u \in Threads
                 PROVE  /\ pc'[u] = "reading" => Holder(u, Mode(u)') \in flock'
                        /\ pc'[u] \in {"initialising", "truncating", "writing"}
                             => Holder(u, Exclusive) \in flock'
    BY DEF HoldersOK
  <2>2. CASE u = t
    BY <2>2
  <2>3. CASE u # t
    BY <2>3 DEF LockInv, HoldersOK, Mode, Drop
  <2>4. QED
    BY <2>2, <2>3
<1>3. QED
  BY <1>1, <1>2 DEF LockInv
-----------------------------------------------------------------------------
LEMMA LockInit == Init => LockInv
BY DEF Init, LockInv, FunctionsOK, FlockOK, Compatible, HoldersOK

\* One step per action.
LEMMA LockNext == LockInv /\ [Next]_vars => LockInv'
<1> SUFFICES ASSUME LockInv, [Next]_vars PROVE LockInv'
  OBVIOUS
<1> USE DEF FunctionsOK, Goto
<1>1. ASSUME NEW t \in Threads, Record(t) \/ Clear(t) \/ Load(t)
      PROVE  LockInv'
  <2>1. PICK j : Begin(t, j)
    BY <1>1 DEF Record, Clear, Load
  <2>2. FunctionsOK' /\ flock' = flock /\ pc'[t] = "ensuring"
    BY <2>1 DEF Begin, LockInv
  <2>3. \A u \in Threads \ {t} : pc'[u] = pc[u] /\ job'[u] = job[u]
    BY <2>1 DEF Begin, LockInv
  <2>4. QED
    BY <2>2, <2>3, SameLock
<1>2. ASSUME NEW t \in Threads, CheckExists(t) \/ Create(t) \/ Open(t)
      PROVE  LockInv'
  <2>1. FunctionsOK' /\ flock' = flock /\ job' = job
    BY <1>2 DEF CheckExists, Create, Open, LockInv
  <2>2. pc'[t] \in {"creating", "created", "opening", "locking"}
    BY <1>2 DEF CheckExists, Create, Open, LockInv
  <2>3. \A u \in Threads \ {t} : pc'[u] = pc[u]
    BY <1>2 DEF CheckExists, Create, Open, LockInv
  <2>4. QED
    BY <2>1, <2>2, <2>3, SameLock
<1>3. ASSUME NEW t \in Threads, LockCreated(t)
      PROVE  LockInv'
  <2>1. FunctionsOK' /\ job' = job /\ pc'[t] = "initialising"
    BY <1>3 DEF LockCreated, LockInv
  <2>2. \A u \in Threads \ {t} : pc'[u] = pc[u]
    BY <1>3 DEF LockCreated, LockInv
  <2>3. MayLock(t, Exclusive) /\ Hold(t, Exclusive)
    BY <1>3 DEF LockCreated
  <2>4. QED
    BY <2>1, <2>2, <2>3, TakeLock
<1>4. ASSUME NEW t \in Threads, Initialise(t)
      PROVE  LockInv'
  <2>1. FunctionsOK' /\ job' = job /\ Drop(t) /\ pc'[t] = "opening"
    BY <1>4 DEF Initialise, LockInv
  <2>2. \A u \in Threads \ {t} : pc'[u] = pc[u]
    BY <1>4 DEF Initialise, LockInv
  <2>3. QED
    BY <2>1, <2>2, DropLock
<1>5. ASSUME NEW t \in Threads, Lock(t)
      PROVE  LockInv'
  <2>1. FunctionsOK' /\ job' = job /\ pc'[t] = "reading"
    BY <1>5 DEF Lock, LockInv
  <2>2. \A u \in Threads \ {t} : pc'[u] = pc[u]
    BY <1>5 DEF Lock, LockInv
  <2>3. MayLock(t, Mode(t)) /\ Hold(t, Mode(t))
    BY <1>5 DEF Lock
  <2>4. Mode(t) \in {Shared, Exclusive} /\ Mode(t)' = Mode(t)
    BY <2>1 DEF Mode
  <2>5. QED
    BY <2>1, <2>2, <2>3, <2>4, TakeLock
<1>6. ASSUME NEW t \in Threads, Leave(t)
      PROVE  LockInv'
  <2>1. FunctionsOK' /\ Drop(t) /\ pc'[t] = "idle"
    BY <1>6 DEF Leave, LockInv
  <2>2. \A u \in Threads \ {t} : pc'[u] = pc[u] /\ job'[u] = job[u]
    BY <1>6 DEF Leave, LockInv
  <2>3. QED
    BY <2>1, <2>2, DropLock
<1>7. ASSUME NEW t \in Threads, Read(t)
      PROVE  LockInv'
  <2>1. CASE Leave(t)
    BY <1>6, <2>1
  <2>2. CASE job[t].kind # "load" /\ Goto(t, "truncating") /\ flock' = flock /\ job' = job
    <3>1. Holder(t, Exclusive) \in flock
      BY <1>7, <2>2 DEF Read, LockInv, HoldersOK, Mode
    <3>2. FunctionsOK' /\ pc'[t] = "truncating"
      BY <2>2 DEF LockInv
    <3>3. \A u \in Threads \ {t} : pc'[u] = pc[u]
      BY <2>2 DEF LockInv
    <3>4. QED
      BY <2>2, <3>1, <3>2, <3>3, SameLock
  <2>3. QED
    BY <1>7, <2>1, <2>2 DEF Read
<1>8. ASSUME NEW t \in Threads, Truncate(t)
      PROVE  LockInv'
  <2>1. Holder(t, Exclusive) \in flock
    BY <1>8 DEF Truncate, LockInv, HoldersOK
  <2>2. FunctionsOK' /\ flock' = flock /\ job' = job /\ pc'[t] = "writing"
    BY <1>8 DEF Truncate, LockInv
  <2>3. \A u \in Threads \ {t} : pc'[u] = pc[u]
    BY <1>8 DEF Truncate, LockInv
  <2>4. QED
    BY <2>1, <2>2, <2>3, SameLock
<1>9. ASSUME NEW t \in Threads, Write(t) \/ WriteFails(t)
      PROVE  LockInv'
  BY <1>6, <1>9 DEF Write, WriteFails
<1>10. ASSUME NEW p \in Processes, Crash(p)
       PROVE  LockInv'
  <2>1. flock' = {h \in flock : Home[h.thread] # p}
    BY <1>10 DEF Crash
  <2>2. \A u \in Threads : IF Home[u] = p THEN pc'[u] = "idle"
                           ELSE pc'[u] = pc[u] /\ job'[u] = job[u]
    BY <1>10 DEF Crash
  <2>3. FunctionsOK'
    BY <1>10 DEF Crash
  <2>4. FlockOK' /\ Compatible'
    BY <2>1 DEF LockInv, FlockOK, Compatible
  <2>5. HoldersOK'
    <3>1. SUFFICES ASSUME NEW u \in Threads
                   PROVE  /\ pc'[u] = "reading" => Holder(u, Mode(u)') \in flock'
                          /\ pc'[u] \in {"initialising", "truncating", "writing"}
                               => Holder(u, Exclusive) \in flock'
      BY DEF HoldersOK
    <3>2. CASE Home[u] = p
      BY <2>2, <3>2
    <3>3. CASE Home[u] # p
      BY <2>1, <2>2, <3>3 DEF LockInv, HoldersOK, Mode
    <3>4. QED
      BY <3>2, <3>3
  <2>6. QED
    BY <2>3, <2>4, <2>5 DEF LockInv
<1>11. ASSUME UNCHANGED vars
       PROVE  LockInv'
  BY <1>11 DEF LockInv, FunctionsOK, FlockOK, Compatible, HoldersOK, Mode
<1>12. QED
  BY <1>1, <1>2, <1>3, <1>4, <1>5, <1>7, <1>8, <1>9, <1>10, <1>11
  DEF Next, Step, Finished
-----------------------------------------------------------------------------
\* The lock and the places of the threads always agree, and no two threads
\* hold the lock unless both hold it shared.
THEOREM LockInvariant == Spec => []LockInv
BY LockInit, LockNext, PTL DEF Spec

\* Between a writer's read and its write no other thread of any process reads,
\* truncates, writes or initialises the ledger.
THEOREM WritersAreAlone == Spec => []WritersAlone
<1>1. LockInv => WritersAlone
  BY DEF LockInv, HoldersOK, Compatible, WritersAlone, Mode
<1>2. QED
  BY <1>1, LockInvariant, PTL

-----------------------------------------------------------------------------
(* The ledger implements the atomic store.                                 *)

\* A thread that does nothing has no job, and no two have the same request.
JobOK(t) ==
  /\ job[t] \in Requests \cup {NoJob, [kind |-> "load"]}
  /\ pc[t] = "idle" <=> job[t] = NoJob
  /\ job[t].kind = "record" => job[t].entry.by = t
  /\ job[t].kind = "clear" => job[t].by = t

\* A writer has decoded the ledger as it is, or as it was before it truncated
\* it; it serves a request.
WriterOK(t) ==
  /\ pc[t] \in {"truncating", "writing"} => job[t] \in Requests
  /\ pc[t] = "truncating" => seen[t] = file.list
  /\ pc[t] = "writing" => file.list = <<>>

\* What is not a list is an empty one to its readers.
FileOK == \/ file \in {Absent, Empty, Garbled}
          \/ file = Json(file.list)

RefInv ==
  /\ LockInv /\ FileOK
  /\ seen = [t \in Threads |-> seen[t]] /\ calls \in [Threads -> Nat]
  /\ \A t \in Threads : JobOK(t) /\ WriterOK(t)

pending == {job[t] : t \in Threads} \cap Requests

LEMMA JobsAre ==
  /\ NoJob \notin Requests /\ [kind |-> "load"] \notin Requests
  /\ \A r \in Requests : r.kind = "record" \/ r.kind = "clear"
BY DEF Requests, NoJob

\* No two threads serve the same request.
LEMMA RequestsDiffer ==
  ASSUME NEW t \in Threads, NEW u \in Threads, JobOK(t), JobOK(u), job[t] \in Requests, job[t] = job[u]
  PROVE  t = u
BY JobsAre DEF JobOK

\* What Kept is, of whoever writes.
LEMMA KeptIs ==
  ASSUME LockInv
  PROVE  /\ \A t \in Threads : pc[t] = "writing" => Kept = seen[t]
         /\ (\A t \in Threads : pc[t] # "writing") => Kept = file.list
         /\ \A t, u \in Threads : pc[t] \in {"reading", "initialising", "truncating", "writing"}
              /\ pc[u] = "writing" => t = u
<1>1. \A t, u \in Threads : pc[t] \in {"reading", "initialising", "truncating", "writing"}
              /\ pc[u] = "writing" => t = u
  BY DEF LockInv, HoldersOK, Compatible, Mode
<1>2. ASSUME NEW t \in Threads, pc[t] = "writing" PROVE Kept = seen[t]
  BY <1>1, <1>2 DEF Kept
<1> QED BY <1>1, <1>2 DEF Kept

LEMMA KeptIsNext ==
  ASSUME LockInv'
  PROVE  /\ \A t \in Threads : pc'[t] = "writing" => Kept' = seen'[t]
         /\ (\A t \in Threads : pc'[t] # "writing") => Kept' = file'.list
<1>1. \A t, u \in Threads : pc'[t] = "writing" /\ pc'[u] = "writing" => t = u
  BY DEF LockInv, HoldersOK, Compatible, Mode
<1>2. ASSUME NEW t \in Threads, pc'[t] = "writing" PROVE Kept' = seen'[t]
  BY <1>1, <1>2 DEF Kept
<1> QED BY <1>2 DEF Kept

\* A step of one thread that writes nothing and serves nothing.
Elsewhere(t) ==
  \A u \in Threads \ {t} : pc'[u] = pc[u] /\ job'[u] = job[u] /\ seen'[u] = seen[u]

LEMMA KeptStays ==
  ASSUME RefInv, LockInv', NEW t \in Threads, Elsewhere(t), file'.list = file.list,
         pc[t] # "writing", pc'[t] # "writing"
  PROVE  Kept' = Kept
<1>1. CASE \A u \in Threads : pc[u] # "writing"
  <2>1. \A u \in Threads : pc'[u] # "writing"
    BY <1>1 DEF Elsewhere
  <2> QED BY <1>1, <2>1, KeptIs, KeptIsNext DEF RefInv
<1>2. ASSUME NEW u \in Threads, pc[u] = "writing" PROVE Kept' = Kept
  <2>1. pc'[u] = "writing" /\ seen'[u] = seen[u]
    BY <1>2 DEF Elsewhere
  <2> QED BY <1>2, <2>1, KeptIs, KeptIsNext DEF RefInv
<1> QED BY <1>1, <1>2

\* What becomes of the requests when one thread's job changes.
LEMMA PendingMoves ==
  ASSUME NEW t \in Threads, \A u \in Threads \ {t} : job'[u] = job[u]
  PROVE  /\ job'[t] = job[t] => pending' = pending
         /\ job[t] \notin Requests /\ job'[t] \notin Requests => pending' = pending
         /\ job[t] \notin Requests /\ job'[t] \in Requests => pending' = pending \cup {job'[t]}
         /\ job'[t] \notin Requests => pending' \subseteq pending
         /\ (\A u \in Threads : JobOK(u)) /\ job[t] \in Requests /\ job'[t] \notin Requests
              => pending' = pending \ {job[t]}
<1>1. \A r : r \in pending <=> r \in Requests /\ \E u \in Threads : job[u] = r
  BY DEF pending
<1>2. \A r : r \in pending' <=> r \in Requests /\ \E u \in Threads : job'[u] = r
  BY DEF pending, Requests
<1> QED BY <1>1, <1>2, RequestsDiffer

LEMMA RefInit == Init => RefInv
<1> SUFFICES ASSUME Init PROVE RefInv
  OBVIOUS
<1>1. LockInv
  BY LockInit
<1>2. FileOK
  BY DEF Init, FileOK, Json, Text, Absent
<1>3. ASSUME NEW t \in Threads PROVE JobOK(t) /\ WriterOK(t)
  BY DEF Init, JobOK, WriterOK, NoJob
<1>4. seen = [t \in Threads |-> seen[t]] /\ calls \in [Threads -> Nat]
  BY DEF Init
<1> QED BY <1>1, <1>2, <1>3, <1>4 DEF RefInv

\* The threads that do not take the step.
LEMMA OthersStay ==
  ASSUME RefInv, NEW t \in Threads, Elsewhere(t),
         \/ file'.list = file.list
         \/ pc[t] \in {"initialising", "truncating", "writing"}
  PROVE  \A u \in Threads \ {t} : JobOK(u)' /\ WriterOK(u)'
<1> SUFFICES ASSUME NEW u \in Threads \ {t} PROVE JobOK(u)' /\ WriterOK(u)'
  OBVIOUS
<1>1. pc'[u] = pc[u] /\ job'[u] = job[u] /\ seen'[u] = seen[u] /\ JobOK(u) /\ WriterOK(u)
  BY DEF Elsewhere, RefInv
<1>2. JobOK(u)'
  BY <1>1 DEF JobOK, Requests
<1>3. pc[u] \in {"truncating", "writing"} => file'.list = file.list
  BY DEF RefInv, LockInv, HoldersOK, Compatible
<1>4. WriterOK(u)'
  BY <1>1, <1>3 DEF WriterOK, Requests
<1> QED BY <1>2, <1>4

LEMMA StepKeepsRef ==
  ASSUME RefInv, LockInv', NEW t \in Threads, Elsewhere(t), FileOK',
         \/ file'.list = file.list
         \/ pc[t] \in {"initialising", "truncating", "writing"},
         seen' = [u \in Threads |-> seen'[u]], calls' \in [Threads -> Nat],
         JobOK(t)', WriterOK(t)'
  PROVE  RefInv'
BY OthersStay DEF RefInv

\* Leaving the buffer.
LEMMA LeaveKeepsRef ==
  ASSUME RefInv, LockInv', NEW t \in Threads, Leave(t), FileOK', calls' = calls,
         seen' = [seen EXCEPT ![t] = <<>>],
         file'.list = file.list \/ pc[t] = "writing"
  PROVE  RefInv'
<1>1. pc'[t] = "idle" /\ job'[t] = NoJob /\ Elsewhere(t)
  BY DEF Leave, Goto, Elsewhere, RefInv, LockInv, FunctionsOK
<1>2. JobOK(t)' /\ WriterOK(t)'
  BY <1>1 DEF JobOK, WriterOK, NoJob
<1>3. seen' = [u \in Threads |-> seen'[u]]
  BY DEF RefInv
<1> QED BY <1>1, <1>2, <1>3, StepKeepsRef DEF RefInv

\* What a call to begin is asked for.
Asked(t, j) ==
  \/ j \in Requests /\ j.kind = "record" /\ j.entry.by = t
  \/ j \in Requests /\ j.kind = "clear" /\ j.by = t
  \/ j = [kind |-> "load"]

LEMMA CallsAreAsked ==
  ASSUME RefInv, NEW t \in Threads, Record(t) \/ Clear(t) \/ Load(t)
  PROVE  \E j : Begin(t, j) /\ Asked(t, j)
<1>1. CASE Record(t)
  <2>1. PICK r \in Results :
          Begin(t, [kind |-> "record", entry |-> [result |-> r, by |-> t, nr |-> calls[t] + 1]])
    BY <1>1 DEF Record
  <2>2. calls[t] + 1 \in 1..MaxCalls
    BY <2>1, LedgerAssumption DEF Begin, RefInv
  <2> QED BY <2>1, <2>2 DEF Asked, Requests, Entry
<1>2. CASE Clear(t)
  BY <1>2 DEF Clear, Asked, Requests
<1>3. CASE Load(t)
  BY <1>3 DEF Load, Asked
<1> QED BY <1>1, <1>2, <1>3

\* One step per action.
LEMMA RefNext == RefInv /\ [Next]_vars => RefInv'
<1> SUFFICES ASSUME RefInv, [Next]_vars PROVE RefInv'
  OBVIOUS
<1>1. LockInv'
  BY LockNext DEF RefInv
<1>2. FunctionsOK /\ seen = [t \in Threads |-> seen[t]] /\ calls \in [Threads -> Nat] /\ FileOK
  BY DEF RefInv, LockInv
<1> USE DEF FunctionsOK, Goto
<1>3. ASSUME NEW t \in Threads, Record(t) \/ Clear(t) \/ Load(t) PROVE RefInv'
  <2>1. PICK j : Begin(t, j) /\ Asked(t, j)
    BY <1>3, CallsAreAsked
  <2>2. /\ pc'[t] = "ensuring" /\ job'[t] = j /\ Elsewhere(t)
        /\ calls' \in [Threads -> Nat] /\ file' = file /\ seen' = seen
    BY <1>2, <2>1 DEF Begin, Elsewhere
  <2>3. JobOK(t)' /\ WriterOK(t)'
    BY <2>1, <2>2 DEF Asked, JobOK, WriterOK, Requests, NoJob
  <2> QED BY <1>1, <1>2, <2>2, <2>3, StepKeepsRef DEF FileOK
<1>4. ASSUME NEW t \in Threads,
             CheckExists(t) \/ Create(t) \/ LockCreated(t) \/ Initialise(t) \/ Open(t) \/ Lock(t)
      PROVE  RefInv'
  <2> USE DEF CheckExists, Create, LockCreated, Initialise, Open, Lock
  <2>1. /\ pc[t] # "idle" /\ job' = job /\ seen' = seen /\ calls' = calls
        /\ pc'[t] \notin {"idle", "truncating", "writing"} /\ Elsewhere(t)
    BY <1>2, <1>4 DEF Elsewhere
  <2>2. \/ file' = file \/ (file = Absent /\ file' = Empty)
        \/ pc[t] = "initialising" /\ file' \in {Json(<<>>), Garbled}
    BY <1>4
  <2>3. FileOK' /\ (file'.list = file.list \/ pc[t] = "initialising")
    BY <1>2, <2>2 DEF FileOK, Absent, Empty, Garbled, Json, Text
  <2>4. JobOK(t)' /\ WriterOK(t)'
    BY <2>1 DEF RefInv, JobOK, WriterOK, Requests
  <2> QED BY <1>1, <1>2, <2>1, <2>3, <2>4, StepKeepsRef
<1>5. ASSUME NEW t \in Threads, Read(t) PROVE RefInv'
  <2>1. CASE Leave(t) /\ seen' = [seen EXCEPT ![t] = <<>>]
    BY <1>1, <1>2, <1>5, <2>1, LeaveKeepsRef DEF Read, FileOK
  <2>2. CASE /\ job[t].kind # "load" /\ seen' = [seen EXCEPT ![t] = file.list]
             /\ Goto(t, "truncating") /\ job' = job
    <3>1. /\ pc[t] = "reading" /\ pc'[t] = "truncating" /\ Elsewhere(t)
          /\ seen'[t] = file.list /\ seen' = [u \in Threads |-> seen'[u]]
          /\ file' = file /\ calls' = calls
      BY <1>2, <1>5, <2>2 DEF Read, Elsewhere
    <3>2. job[t] \in Requests
      BY <2>2, <3>1 DEF RefInv, JobOK
    <3>3. JobOK(t)' /\ WriterOK(t)'
      BY <2>2, <3>1, <3>2 DEF RefInv, JobOK, WriterOK, Requests
    <3> QED BY <1>1, <1>2, <3>1, <3>3, StepKeepsRef DEF FileOK
  <2> QED BY <1>5, <2>1, <2>2 DEF Read
<1>6. ASSUME NEW t \in Threads, Truncate(t) PROVE RefInv'
  <2>1. /\ pc[t] = "truncating" /\ pc'[t] = "writing" /\ job' = job /\ Elsewhere(t)
        /\ file' = Empty /\ seen' = seen /\ calls' = calls
    BY <1>2, <1>6 DEF Truncate, Elsewhere
  <2>2. FileOK' /\ file'.list = <<>>
    BY <2>1 DEF FileOK, Empty, Text
  <2>3. JobOK(t)' /\ WriterOK(t)'
    BY <2>1, <2>2 DEF RefInv, JobOK, WriterOK, Requests
  <2> QED BY <1>1, <1>2, <2>1, <2>2, <2>3, StepKeepsRef
<1>7. ASSUME NEW t \in Threads, Write(t) \/ WriteFails(t) PROVE RefInv'
  <2>1. /\ pc[t] = "writing" /\ Leave(t) /\ calls' = calls /\ seen' = [seen EXCEPT ![t] = <<>>]
        /\ file' \in {Empty, Garbled, Json(Mutated(seen[t], job[t]))}
    BY <1>7 DEF Write, WriteFails
  <2>2. FileOK'
    BY <2>1 DEF FileOK, Json, Text
  <2> QED BY <1>1, <1>2, <2>1, <2>2, LeaveKeepsRef
<1>8. ASSUME NEW p \in Processes, Crash(p) PROVE RefInv'
  <2>1. /\ seen' = [t \in Threads |-> seen'[t]] /\ calls' = calls /\ file' \in {file, Garbled}
        /\ (file' # file => \E t \in Threads : Home[t] = p /\ pc[t] = "writing")
    BY <1>8 DEF Crash
  <2>2. FileOK'
    BY <1>2, <2>1 DEF FileOK
  <2>3. ASSUME NEW t \in Threads PROVE JobOK(t)' /\ WriterOK(t)'
    <3>1. CASE Home[t] = p
      <4>1. pc'[t] = "idle" /\ job'[t] = NoJob
        BY <1>8, <3>1 DEF Crash
      <4> QED BY <4>1 DEF JobOK, WriterOK, NoJob
    <3>2. CASE Home[t] # p
      <4>1. pc'[t] = pc[t] /\ job'[t] = job[t] /\ seen'[t] = seen[t]
        BY <1>8, <3>2 DEF Crash
      <4>2. pc[t] \in {"truncating", "writing"} => file' = file
        BY <2>1, <3>2, KeptIs DEF RefInv
      <4> QED BY <4>1, <4>2 DEF RefInv, JobOK, WriterOK, Requests
    <3> QED BY <3>1, <3>2
  <2> QED BY <1>1, <1>2, <2>1, <2>2, <2>3 DEF RefInv
<1>9. ASSUME UNCHANGED vars PROVE RefInv'
  BY <1>1, <1>9 DEF RefInv, FileOK, JobOK, WriterOK, Requests
<1> QED
  BY <1>3, <1>4, <1>5, <1>6, <1>7, <1>8, <1>9 DEF Next, Step, Finished

\* Where the threads are, what each has decoded and which request it serves.
THEOREM LedgerInvariant == Spec => []RefInv
BY RefInit, RefNext, PTL DEF Spec

\* Each step of the ledger is one of the store, or none.
store_vars == <<Kept, pending, harms>>

LEMMA StoreInit == Init => Store!Init
<1> SUFFICES ASSUME Init PROVE Store!Init
  OBVIOUS
<1>1. Kept = <<>>
  BY LockInit, KeptIs DEF Init, Absent, Json, Text
<1>2. pending = {}
  BY JobsAre DEF Init, pending
<1> QED BY <1>1, <1>2 DEF Init, Store!Init, pending

LEMMA SameRanking ==
  ASSUME NEW s, NEW j PROVE Mutated(s, j) = Store!Served(s, j)
<1>1. \A e : Ranked(s, e) = Store!Insert(s, e)
  BY DEF Ranked, Store!Insert
<1>2. \A q : Cut(q) = Store!Top(q)
  BY DEF Cut, Store!Top
<1> QED BY <1>1, <1>2 DEF Mutated, Store!Served

LEMMA AccidentHappens ==
  ASSUME harms' = harms + 1, pending' \subseteq pending, Kept' \in {Kept, <<>>}
  PROVE  Store!Next
BY DEF Store!Next, Store!Accident, pending

LEMMA StoreNext == RefInv /\ [Next]_vars => [Store!Next]_store_vars
<1> SUFFICES ASSUME RefInv, [Next]_vars PROVE [Store!Next]_store_vars
  OBVIOUS
<1>1. LockInv' /\ LockInv /\ RefInv'
  BY LockNext, RefNext DEF RefInv
<1>2. FunctionsOK /\ seen = [t \in Threads |-> seen[t]] /\ calls \in [Threads -> Nat] /\ FileOK
  BY DEF RefInv, LockInv
<1> USE DEF FunctionsOK, Goto
<1>3. ASSUME NEW t \in Threads, Record(t) \/ Clear(t) \/ Load(t) PROVE [Store!Next]_store_vars
  <2>1. PICK j : Begin(t, j) /\ Asked(t, j)
    BY <1>3, CallsAreAsked
  <2>2. /\ pc[t] = "idle" /\ pc'[t] = "ensuring" /\ job'[t] = j /\ Elsewhere(t)
        /\ file' = file /\ harms' = harms
    BY <1>2, <2>1 DEF Begin, Elsewhere
  <2>3. Kept' = Kept
    BY <1>1, <2>2, KeptStays
  <2>4. job[t] = NoJob /\ \A u \in Threads : JobOK(u) /\ JobOK(u)'
    BY <1>1, <2>2 DEF RefInv, JobOK
  <2>5. CASE j \in Requests
    <3>1. pending' = pending \cup {j}
      BY <2>2, <2>4, <2>5, JobsAre, PendingMoves DEF Elsewhere
    <3>2. j \notin pending
      <4>1. ASSUME NEW u \in Threads, job[u] = j PROVE FALSE
        <5>1. u # t /\ job'[u] = j
          BY <2>2, <2>4, <2>5, <4>1, JobsAre DEF Elsewhere
        <5>2. \/ j.kind = "record" /\ j.entry.by = u /\ j.entry.by = t
              \/ j.kind = "clear" /\ j.by = u /\ j.by = t
          BY <2>1, <2>4, <2>5, <4>1, JobsAre DEF Asked, JobOK
        <5> QED BY <5>1, <5>2
      <4> QED BY <4>1 DEF pending
    <3>3. Store!Ask(j)
      BY <2>2, <2>3, <3>1, <3>2 DEF Store!Ask, pending
    <3> QED BY <2>5, <3>3 DEF Store!Next
  <2>6. CASE j \notin Requests
    <3>1. pending' = pending
      BY <2>2, <2>4, <2>6, JobsAre, PendingMoves DEF Elsewhere
    <3> QED BY <2>2, <2>3, <3>1 DEF store_vars
  <2> QED BY <2>5, <2>6
<1>4. ASSUME NEW t \in Threads, CheckExists(t) \/ Create(t) \/ LockCreated(t) \/ Open(t) \/ Lock(t)
      PROVE  [Store!Next]_store_vars
  <2> USE DEF CheckExists, Create, LockCreated, Open, Lock
  <2>1. /\ pc[t] # "writing" /\ pc'[t] # "writing" /\ Elsewhere(t) /\ job' = job /\ harms' = harms
        /\ file' = file \/ (file = Absent /\ file' = Empty)
    BY <1>2, <1>4 DEF Elsewhere
  <2>2. Kept' = Kept
    BY <1>1, <2>1, KeptStays DEF Absent, Empty, Text
  <2>3. pending' = pending
    BY <2>1, PendingMoves
  <2> QED BY <2>1, <2>2, <2>3 DEF store_vars
<1>5. ASSUME NEW t \in Threads, Initialise(t) PROVE [Store!Next]_store_vars
  <2>1. /\ pc[t] = "initialising" /\ pc'[t] = "opening" /\ Elsewhere(t) /\ job' = job
        /\ \/ file \in {Empty, Json(<<>>)} /\ file' = Json(<<>>) /\ harms' = harms
           \/ file' = Garbled /\ harms' = harms + 1
    BY <1>2, <1>5 DEF Initialise, Elsewhere
  <2>2. \A u \in Threads : pc[u] # "writing" /\ pc'[u] # "writing"
    BY <1>1, <2>1, KeptIs DEF Elsewhere
  <2>3. Kept = file.list /\ Kept' = file'.list /\ pending' = pending
    BY <1>1, <2>1, <2>2, KeptIs, KeptIsNext, PendingMoves
  <2>4. CASE file \in {Empty, Json(<<>>)} /\ file' = Json(<<>>) /\ harms' = harms
    BY <2>3, <2>4 DEF store_vars, Empty, Json, Text
  <2>5. CASE file' = Garbled /\ harms' = harms + 1
    BY <2>3, <2>5, AccidentHappens DEF Garbled, Text
  <2> QED BY <2>1, <2>4, <2>5
<1>6. ASSUME NEW t \in Threads, Read(t) PROVE [Store!Next]_store_vars
  <2>1. /\ pc[t] = "reading" /\ pc'[t] # "writing" /\ Elsewhere(t) /\ file' = file /\ harms' = harms
        /\ job' = job \/ (job[t].kind = "load" /\ job'[t] = NoJob)
    BY <1>2, <1>6 DEF Read, Leave, Elsewhere
  <2>2. Kept' = Kept
    BY <1>1, <2>1, KeptStays
  <2>3. pending' = pending
    BY <2>1, PendingMoves, JobsAre DEF Elsewhere
  <2> QED BY <2>1, <2>2, <2>3 DEF store_vars
<1>7. ASSUME NEW t \in Threads, Truncate(t) PROVE [Store!Next]_store_vars
  <2>1. /\ pc[t] = "truncating" /\ pc'[t] = "writing" /\ Elsewhere(t) /\ job' = job
        /\ seen' = seen /\ harms' = harms
    BY <1>2, <1>7 DEF Truncate, Elsewhere
  <2>2. Kept = file.list /\ Kept' = seen[t]
    BY <1>1, <2>1, KeptIs, KeptIsNext
  <2>3. pending' = pending /\ Kept' = Kept
    BY <2>1, <2>2, PendingMoves DEF RefInv, WriterOK
  <2> QED BY <2>1, <2>3 DEF store_vars
<1>8. ASSUME NEW t \in Threads, Write(t) \/ WriteFails(t) PROVE [Store!Next]_store_vars
  <2>1. pc[t] = "writing" /\ pc'[t] = "idle" /\ job'[t] = NoJob /\ Elsewhere(t)
    BY <1>2, <1>8 DEF Write, WriteFails, Leave, Elsewhere
  <2>2. Kept = seen[t] /\ Kept' = file'.list
    BY <1>1, <2>1, KeptIs, KeptIsNext DEF Elsewhere
  <2>3. job[t] \in Requests /\ \A u \in Threads : JobOK(u)
    BY <2>1 DEF RefInv, WriterOK
  <2>4. pending' = pending \ {job[t]} /\ job[t] \in pending
    <3>1. job[t] \in pending
      BY <2>3 DEF pending
    <3> QED BY <2>1, <2>3, <3>1, JobsAre, PendingMoves DEF Elsewhere
  <2>5. CASE Write(t)
    <3>1. Kept' = Store!Served(Kept, job[t]) /\ harms' = harms
      BY <2>2, <2>5, SameRanking DEF Write, Json, Text
    <3>2. PICK r \in Requests : r = job[t]
      BY <2>3
    <3>3. Store!Serve(r)
      BY <2>4, <3>1, <3>2 DEF Store!Serve, pending
    <3> QED BY <3>3 DEF Store!Next
  <2>6. CASE WriteFails(t)
    <3>1. Kept' = <<>> /\ harms' = harms + 1
      BY <2>2, <2>6 DEF WriteFails, Empty, Garbled, Text
    <3> QED BY <2>4, <3>1, AccidentHappens
  <2> QED BY <1>8, <2>5, <2>6
<1>9. ASSUME NEW p \in Processes, Crash(p) PROVE [Store!Next]_store_vars
  <2>1. /\ harms' = harms + 1 /\ file' \in {file, Garbled}
        /\ (file' # file => \E t \in Threads : Home[t] = p /\ pc[t] = "writing")
    BY <1>9 DEF Crash
  <2>2. \A t \in Threads : IF Home[t] = p THEN pc'[t] = "idle" /\ job'[t] = NoJob
                           ELSE pc'[t] = pc[t] /\ job'[t] = job[t] /\ seen'[t] = seen[t]
    BY <1>9 DEF Crash
  <2>3. pending' \subseteq pending
    BY <2>2, JobsAre DEF pending
  <2>4. Kept' \in {Kept, <<>>}
    <3>1. CASE \E t \in Threads : Home[t] # p /\ pc[t] = "writing"
      BY <1>1, <2>2, <3>1, KeptIs, KeptIsNext
    <3>2. CASE \A t \in Threads : Home[t] # p => pc[t] # "writing"
      <4>1. Kept' = file'.list
        BY <1>1, <2>2, <3>2, KeptIsNext
      <4>2. CASE \E t \in Threads : pc[t] = "writing"
        BY <2>1, <4>1, <4>2 DEF RefInv, WriterOK, Garbled, Text
      <4>3. CASE \A t \in Threads : pc[t] # "writing"
        BY <1>1, <2>1, <4>1, <4>3, KeptIs
      <4> QED BY <4>2, <4>3
    <3> QED BY <3>1, <3>2
  <2> QED BY <2>1, <2>3, <2>4, AccidentHappens
<1>10. ASSUME UNCHANGED vars PROVE [Store!Next]_store_vars
  BY <1>10 DEF store_vars, Kept, pending
<1> QED
  BY <1>3, <1>4, <1>5, <1>6, <1>7, <1>8, <1>9, <1>10 DEF Next, Step, Finished

\* Every request takes effect at one instant on the ledger as it then is, and
\* nothing is lost but by a kill, a failed write or a late initialisation:
\* the file, its locks and the system calls on it implement the atomic store.
THEOREM LedgerImplementsStore == Spec => ImplementsReplayStore
<1> USE DEF store_vars, pending
<1> QED
  BY StoreInit, StoreNext, LedgerInvariant, PTL DEF Spec, ImplementsReplayStore, Store!Spec

============================================================================
