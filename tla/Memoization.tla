---------------------------- MODULE Memoization ----------------------------
(***************************************************************************)
(* QueryCache and MemoizationEngine of src/memoization/cache_engine.py:    *)
(* entries in memory with a copy of each on disk, a dependency graph that  *)
(* is only in memory, and two ways to find an entry out of date: the       *)
(* fingerprint of a source file, and a call of on_file_changed.  One       *)
(* thread uses the engine; the files are edited, and edited back, at any   *)
(* time, also while a value is computed from them.                         *)
(***************************************************************************)
EXTENDS Integers, Sequences, FiniteSets

CONSTANTS
  Files,       \* source files
  Codes,       \* what a fingerprint keeps of a text: comments and white space
               \* are gone; a file that cannot be read counts as one code
  Keys,        \* query keys, none of them a file
  Deps,        \* dependencies each key is memoized with: files and keys
  Source,      \* source_file of each key, or NoFile
  NoFile,
  Opaque,      \* keys whose value JSON cannot hold
  MaxReports,  \* bound: reports of a process that find a file changed, per file
  MaxRestarts  \* bound: processes after the first

ASSUME MemoAssumption ==
  /\ IsFiniteSet(Files) /\ IsFiniteSet(Keys) /\ Files \cap Keys = {}
  /\ NoFile \notin Files
  /\ Deps \in [Keys -> SUBSET (Files \cup Keys)]
  /\ Source \in [Keys -> Files \cup {NoFile}]
  /\ Opaque \subseteq Keys
  /\ MaxReports \in Nat /\ MaxRestarts \in Nat

VARIABLES
  content,  \* the code each file holds
  memory,   \* QueryCache._memory
  disk,     \* storage_path
  edges,    \* _dep_graph
  known,    \* MemoizationEngine._file_fingerprints
  running,  \* the calls of memoize() that compute, each inside the compute_fn
            \* of the one before
  answer,   \* what memoize() has just returned, its key and its process
  run,      \* number of the process
  reports   \* history, for the properties only: how many reports of this
            \* process found the file changed

memo_vars == <<content, memory, disk, edges, known, running, answer, run, reports>>

Nothing == <<>>

Without(f, S)   == [x \in DOMAIN f \ S |-> f[x]]
With(f, x, v)   == [y \in DOMAIN f \cup {x} |-> IF y = x THEN v ELSE f[y]]

(* compute_fn reads the files the key names, and takes the values of the   *)
(* keys it names from calls of memoize(), in any order.  Of a value only   *)
(* this is kept: the reads it stems from, its own and those of the values  *)
(* it took.                                                                *)

OwnFiles(k) == (Deps[k] \cup {Source[k]}) \cap Files
SubKeys(k)  == Deps[k] \cap Keys

(* _compute_fingerprint: the key, and the code of the source file if any.  *)

\* A regression: the source file is left out.
KeyOnly(k) == <<k>>

Fingerprint(k) == IF Source[k] = NoFile THEN <<k>> ELSE <<k, content[Source[k]]>>

MemoInit ==
  /\ content \in [Files -> Codes]
  /\ memory = Nothing /\ disk = Nothing
  /\ edges = {} /\ known = Nothing
  /\ running = <<>> /\ answer = Nothing
  /\ run = 0 /\ reports = [f \in Files |-> 0]
-----------------------------------------------------------------------------
(* QueryCache.                                                             *)

\* A regression: the disk is asked first.
FoundOnDisk(k) == IF k \in DOMAIN disk THEN With(memory, k, disk[k]) ELSE memory

\* get(): a copy found on disk is taken into memory.
Found(k) ==
  IF k \in DOMAIN memory \/ k \notin DOMAIN disk THEN memory
  ELSE With(memory, k, disk[k])

\* _save_to_disk writes str(value) for what JSON cannot hold.
Saved(k, entry) == IF k \in Opaque THEN [entry EXCEPT !.form = "text"] ELSE entry

\* nx.descendants of the graph that put() built since the process started.

\* A regression: only direct dependents are invalidated.
DirectOnly(x) == {x} \cup {k \in Keys : <<x, k>> \in edges}

Closure(x) ==
  LET Closed(S) == \A e \in edges : e[1] \in S => e[2] \in S
  IN {y \in {x} \cup Keys : \A S \in SUBSET ({x} \cup Keys) : x \in S /\ Closed(S) => y \in S}

\* invalidate(): a copy on disk goes only with the one in memory.
Invalidate(x) ==
  LET evicted == Closure(x) \cap DOMAIN memory
  IN /\ memory' = Without(memory, evicted)
     /\ disk' = Without(disk, evicted)
-----------------------------------------------------------------------------
(* MemoizationEngine.memoize().                                            *)

Hit(k) == k \in DOMAIN Found(k) /\ Found(k)[k].fingerprint = Fingerprint(k)

Idle    == running = <<>>
Top     == running[Len(running)]
Callers == SubSeq(running, 1, Len(running) - 1)

\* By a caller outside, or by the compute_fn that runs; not by one that is
\* itself computed for the key, which would not end.
MayCall(k) ==
  \/ Idle
  \/ /\ ~Idle /\ k \in SubKeys(Top.key) \ Top.got
     /\ \A i \in 1..Len(running) : running[i].key # k

Took(call, k, entry) ==
  [call EXCEPT !.taken = @ \cup entry.own \cup entry.taken, !.got = @ \cup {k}]

\* The value goes to who called: the compute_fn of the call it is inside, if any.
Return(k, entry, cached, callers) ==
  /\ answer' = [key |-> k, entry |-> entry, cached |-> cached]
  /\ running' = IF callers = <<>> THEN <<>>
                ELSE [callers EXCEPT ![Len(callers)] = Took(@, k, entry)]

MemoizeHit(k) ==
  /\ MayCall(k) /\ Hit(k)
  /\ memory' = Found(k)
  /\ Return(k, Found(k)[k], TRUE, running)
  /\ UNCHANGED <<content, disk, edges, known, run, reports>>

Started(k) == [key |-> k, fingerprint |-> Fingerprint(k), own |-> {}, taken |-> {}, got |-> {},
               disturbed |-> FALSE]

\* The fingerprint is taken before compute_fn runs.
MemoizeMiss(k) ==
  /\ MayCall(k) /\ ~Hit(k)
  /\ memory' = Found(k)
  /\ running' = Append(running, Started(k))
  /\ answer' = Nothing
  /\ UNCHANGED <<content, disk, edges, known, run, reports>>

ReadNow(f) == [file |-> f, code |-> content[f], at |-> reports[f], in |-> run]

HasRead(call, f) == [call EXCEPT !.own = @ \cup {ReadNow(f)}, !.got = @ \cup {f}]

ComputeReads(f) ==
  /\ ~Idle /\ f \in OwnFiles(Top.key) \ Top.got
  /\ running' = [running EXCEPT ![Len(running)] = HasRead(@, f)]
  /\ answer' = Nothing
  /\ UNCHANGED <<content, memory, disk, edges, known, run, reports>>

\* Writing the copy: done, or cut short (the file is there and get() cannot
\* read it), or the file could not be opened and holds what it did before.
Writes == {"done", "cut short", "not opened"}

Copied(k, entry, write) ==
  CASE write = "done"       -> With(disk, k, Saved(k, entry))
    [] write = "cut short"  -> Without(disk, {k})
    [] write = "not opened" -> disk

\* A regression: what is stored has the fingerprint of when it is stored.
LateFingerprint(call) == Fingerprint(call.key)

Stamp(call) == call.fingerprint

Computed(call) == [own |-> call.own, taken |-> call.taken, form |-> "value", run |-> run,
                   fingerprint |-> Stamp(call), disturbed |-> call.disturbed]

\* compute_fn is done: put(), under the fingerprint taken at the call.
MemoizePut(write) ==
  /\ ~Idle /\ Top.got = OwnFiles(Top.key) \cup SubKeys(Top.key)
  /\ memory' = With(memory, Top.key, Computed(Top))
  /\ disk' = Copied(Top.key, Computed(Top), write)
  /\ edges' = edges \cup {<<d, Top.key>> : d \in Deps[Top.key]}
  /\ Return(Top.key, Computed(Top), FALSE, Callers)
  /\ UNCHANGED <<content, known, run, reports>>

\* compute_fn raises, and so do those it runs in, up to the one that catches it.
MemoizeRaises ==
  /\ \E n \in 0..Len(running) - 1 : running' = SubSeq(running, 1, n)
  /\ answer' = Nothing
  /\ UNCHANGED <<content, memory, disk, edges, known, run, reports>>

ChangedSinceReport(f) == ~(f \in DOMAIN known /\ known[f] = content[f])

OnFileChanged(f) ==
  /\ Idle
  /\ known' = With(known, f, content[f])
  /\ \/ /\ ChangedSinceReport(f) /\ reports[f] < MaxReports
        /\ reports' = [reports EXCEPT ![f] = @ + 1]
        /\ Invalidate(f)
     \/ ~ChangedSinceReport(f) /\ UNCHANGED <<memory, disk, reports>>
  /\ answer' = Nothing
  /\ UNCHANGED <<content, edges, running, run>>

InvalidateKey(k) ==
  /\ Idle
  /\ Invalidate(k)
  /\ answer' = Nothing
  /\ UNCHANGED <<content, edges, known, running, run, reports>>

OnConfigChanged ==
  /\ Idle
  /\ memory' = Nothing /\ disk' = Nothing /\ edges' = {}
  /\ answer' = Nothing
  /\ UNCHANGED <<content, known, running, run, reports>>

\* History, for the properties only.
Disturbed(call, f) ==
  IF f = Source[call.key] /\ f \notin call.got THEN [call EXCEPT !.disturbed = TRUE] ELSE call

Edit(f, code) ==
  /\ content' = [content EXCEPT ![f] = code]
  /\ running' = [i \in 1..Len(running) |-> Disturbed(running[i], f)]
  /\ answer' = Nothing
  /\ UNCHANGED <<memory, disk, edges, known, run, reports>>

Restart ==
  /\ run < MaxRestarts
  /\ run' = run + 1
  /\ memory' = Nothing /\ edges' = {} /\ known' = Nothing
  /\ running' = <<>> /\ answer' = Nothing
  /\ reports' = [f \in Files |-> 0]
  /\ UNCHANGED <<content, disk>>

MemoNext ==
  \/ \E k \in Keys : MemoizeHit(k) \/ MemoizeMiss(k) \/ InvalidateKey(k)
  \/ \E write \in Writes : MemoizePut(write)
  \/ MemoizeRaises
  \/ \E f \in Files : ComputeReads(f) \/ OnFileChanged(f)
  \/ \E f \in Files : \E code \in Codes \ {content[f]} : Edit(f, code)
  \/ OnConfigChanged
  \/ Restart

MemoSpec == MemoInit /\ [][MemoNext]_memo_vars
-----------------------------------------------------------------------------
Reads        == [file : Files, code : Codes, at : 0..MaxReports, in : 0..MaxRestarts]
Fingerprints == {<<k>> : k \in Keys} \cup Keys \X Codes
Entries      == [own : SUBSET Reads, taken : SUBSET Reads, form : {"value", "text"},
                 run : 0..MaxRestarts, fingerprint : Fingerprints, disturbed : BOOLEAN]
Calls        == [key : Keys, fingerprint : Fingerprints, own : SUBSET Reads, taken : SUBSET Reads,
                 got : SUBSET (Files \cup Keys), disturbed : BOOLEAN]

Stored(store) == DOMAIN store \subseteq Keys /\ \A k \in DOMAIN store : store[k] \in Entries

MemoTypeOK ==
  /\ content \in [Files -> Codes]
  /\ Stored(memory) /\ Stored(disk)
  /\ edges \subseteq (Files \cup Keys) \X Keys
  /\ DOMAIN known \subseteq Files /\ \A f \in DOMAIN known : known[f] \in Codes
  /\ running \in Seq(Calls)
  /\ answer # Nothing => answer \in [key : Keys, entry : Entries, cached : BOOLEAN]
  /\ run \in 0..MaxRestarts
  /\ reports \in [Files -> 0..MaxReports]

\* A cached value is served for code that its source file does not hold only if
\* the file was edited after the fingerprint was taken and before compute_fn
\* read it, and edited back since: never otherwise, whether or not a change was
\* reported, whatever is edited and edited back, also while the value was
\* computed, and across restarts.
SourceNeverStale ==
  answer # Nothing /\ answer.cached /\ ~answer.entry.disturbed
    => \A r \in answer.entry.own : r.file = Source[answer.key] => r.code = content[r.file]

\* What no key another key depends on has as its source file without naming
\* it as a dependency too: put() draws no edge from a source_file, and the
\* fingerprint of a key does not see that of the keys it depends on.
Tracked(f) == \A k \in Keys : \A d \in SubKeys(k) : Source[d] = f => f \in Deps[d]

\* The one file of a key no edge leads from.
OnlySource(f, k) == f = Source[k] /\ f \notin Deps[k]

\* Within a process, a value is not served any more once a report has found a
\* file changed that this process read for it, directly or for a value it
\* took through any chain of dependencies, whatever was evicted, not written,
\* cleared or computed again meanwhile: unless the file is not Tracked, or it
\* is the value's own source_file and no dependency, where SourceNeverStale
\* holds instead.  And the disk, which holds the text of what JSON cannot,
\* answers for later processes only.
FreshUntilRestart ==
  answer # Nothing
    => LET entry == answer.entry
       IN /\ \A r \in entry.own \cup entry.taken :
                Tracked(r.file) /\ r.in = run
                  => \/ r.at = reports[r.file]
                     \/ r \in entry.own /\ OnlySource(r.file, answer.key)
          /\ entry.run = run => entry.form = "value"
=============================================================================
