---------------------------- MODULE ReplayLedger ----------------------------
(***************************************************************************)
(* The ledger file of builder_brains/experience_replay.py, shared by the   *)
(* threads of several processes.  A thread holds the lock of its process's *)
(* buffer for the whole of an operation and an advisory flock on the file  *)
(* for the read, or for the read-modify-write, in the middle of it.  Every *)
(* system call is a step of its own.                                       *)
(***************************************************************************)
EXTENDS Naturals, Sequences, FiniteSets

CONSTANTS
  Threads,    \* threads that use the ledger
  Processes,  \* processes, each with one ExperienceReplayBuffer
  Home,       \* the process of each thread
  Results,    \* results a trajectory can have
  MaxSize,    \* max_size
  MaxCalls,   \* bound: operations of each thread
  MayCrash,   \* whether a process can be killed
  MayBeFull   \* whether a write can fail for lack of space

ASSUME LedgerAssumption ==
  /\ IsFiniteSet(Threads) /\ Home \in [Threads -> Processes]
  /\ Results \subseteq Nat
  /\ MaxSize \in Nat \ {0} /\ MaxCalls \in Nat
  /\ MayCrash \in BOOLEAN /\ MayBeFull \in BOOLEAN

VARIABLES
  file,    \* the ledger file: its form, and the list when it holds one
  owner,   \* the thread in each buffer's re-entrant lock
  flock,   \* the threads holding the advisory lock, with their modes
  pc,      \* where each thread is
  job,     \* the operation it is in
  seen,    \* the list it has decoded
  calls,   \* operations it has begun
  dead,    \* processes that were killed
  harms    \* history, for the refinement only: kills, failed writes, and late
           \* initialisations so far

vars == <<file, owner, flock, pc, job, seen, calls, dead, harms>>

Text(form, list) == [form |-> form, list |-> list]
Absent     == Text("absent", <<>>)
Empty      == Text("empty", <<>>)
Garbled    == Text("garbled", <<>>)
Json(list) == Text("list", list)

Nobody == "nobody"

Entry == [result : Results, by : Threads, nr : 1..MaxCalls]

Lists == UNION {[1..n -> Entry] : n \in 0..MaxSize}

Shared    == "LOCK_SH"
Exclusive == "LOCK_EX"

NoJob    == [kind |-> "none"]
Requests == [kind : {"record"}, entry : Entry] \cup [kind : {"clear"}, by : Threads]

\* record_trajectory: append, sort by result in reverse, cut to max_size.

\* A regression: the list is sorted but not cut.
Uncut(s) == s

Cut(s) == SubSeq(s, 1, IF Len(s) < MaxSize THEN Len(s) ELSE MaxSize)

Ranked(s, e) ==
  LET NotBelow(x) == x.result >= e.result
      Below(x)    == x.result < e.result
  IN SelectSeq(s, NotBelow) \o <<e>> \o SelectSeq(s, Below)

Mutated(s, j) == IF j.kind = "record" THEN Cut(Ranked(s, j.entry)) ELSE <<>>

TypeOK ==
  /\ file \in {Absent, Empty, Garbled} \cup [form : {"list"}, list : Lists]
  /\ owner \in [Processes -> Threads \cup {Nobody}]
  /\ \A h \in flock : h.thread \in Threads /\ h.mode \in {Shared, Exclusive}
  /\ pc \in [Threads -> {"idle", "ensuring", "creating", "created", "initialising",
                         "opening", "locking", "reading", "truncating", "writing"}]
  /\ job \in [Threads -> Requests \cup {NoJob, [kind |-> "load"]}]
  /\ seen \in [Threads -> Lists]
  /\ calls \in [Threads -> 0..MaxCalls]
  /\ dead \subseteq Processes
  /\ harms \in Nat

Init ==
  /\ file \in {Absent, Json(<<>>)}
  /\ owner = [p \in Processes |-> Nobody]
  /\ flock = {}
  /\ pc = [t \in Threads |-> "idle"]
  /\ job = [t \in Threads |-> NoJob]
  /\ seen = [t \in Threads |-> <<>>]
  /\ calls = [t \in Threads |-> 0]
  /\ dead = {}
  /\ harms = 0

Goto(t, place) == pc' = [pc EXCEPT ![t] = place]
-----------------------------------------------------------------------------
(* Entering the buffer, and _ensure_file.                                  *)

Begin(t, j) ==
  /\ pc[t] = "idle" /\ Home[t] \notin dead
  /\ calls[t] < MaxCalls
  /\ owner[Home[t]] = Nobody
  /\ owner' = [owner EXCEPT ![Home[t]] = t]
  /\ calls' = [calls EXCEPT ![t] = @ + 1]
  /\ job' = [job EXCEPT ![t] = j]
  /\ Goto(t, "ensuring")
  /\ UNCHANGED <<file, flock, seen, dead, harms>>

Record(t) ==
  \E r \in Results :
     Begin(t, [kind |-> "record", entry |-> [result |-> r, by |-> t, nr |-> calls[t] + 1]])

Clear(t) == Begin(t, [kind |-> "clear", by |-> t])
Load(t)  == Begin(t, [kind |-> "load"])

CheckExists(t) ==
  /\ pc[t] = "ensuring"
  /\ Goto(t, IF file = Absent THEN "creating" ELSE "opening")
  /\ UNCHANGED <<file, owner, flock, job, seen, calls, dead, harms>>

\* O_CREAT | O_EXCL: of two creators one goes on as if the file had existed.
Create(t) ==
  /\ pc[t] = "creating"
  /\ \/ /\ file = Absent
        /\ file' = Empty
        /\ Goto(t, "created")
     \/ /\ file # Absent
        /\ UNCHANGED file
        /\ Goto(t, "opening")
  /\ UNCHANGED <<owner, flock, job, seen, calls, dead, harms>>

\* A regression: shared locks do not keep an exclusive one out.
FreeOfExclusive(t, mode) ==
  \A h \in flock : h.thread # t => h.mode = Shared

MayLock(t, mode) ==
  \A h \in flock : h.thread # t => mode = Shared /\ h.mode = Shared

Hold(t, mode) == flock' = flock \cup {[thread |-> t, mode |-> mode]}
Drop(t)       == flock' = {h \in flock : h.thread # t}

LockCreated(t) ==
  /\ pc[t] = "created"
  /\ MayLock(t, Exclusive)
  /\ Hold(t, Exclusive)
  /\ Goto(t, "initialising")
  /\ UNCHANGED <<file, owner, job, seen, calls, dead, harms>>

\* "[]" is written over the first two bytes of whatever is there by now.
Initialise(t) ==
  /\ pc[t] = "initialising"
  /\ \/ /\ file \in {Empty, Json(<<>>)}
        /\ file' = Json(<<>>)
        /\ UNCHANGED harms
     \/ /\ file \notin {Empty, Json(<<>>)}
        /\ file' = Garbled
        /\ harms' = harms + 1
  /\ Drop(t)
  /\ Goto(t, "opening")
  /\ UNCHANGED <<owner, job, seen, calls, dead>>
-----------------------------------------------------------------------------
(* _load_all and _mutate_ledger.  What _parse_ledger cannot decode is an   *)
(* empty ledger to it.                                                     *)

\* A regression: writers lock as readers do.
ReadersMode(t) == Shared

Mode(t) == IF job[t].kind = "load" THEN Shared ELSE Exclusive

Open(t) ==
  /\ pc[t] = "opening"
  /\ Goto(t, "locking")
  /\ UNCHANGED <<file, owner, flock, job, seen, calls, dead, harms>>

Lock(t) ==
  /\ pc[t] = "locking"
  /\ MayLock(t, Mode(t))
  /\ Hold(t, Mode(t))
  /\ Goto(t, "reading")
  /\ UNCHANGED <<file, owner, job, seen, calls, dead, harms>>

Leave(t) ==
  /\ Drop(t)
  /\ owner' = [owner EXCEPT ![Home[t]] = Nobody]
  /\ job' = [job EXCEPT ![t] = NoJob]
  /\ Goto(t, "idle")

Read(t) ==
  /\ pc[t] = "reading"
  /\ \/ /\ job[t].kind = "load"
        /\ seen' = [seen EXCEPT ![t] = <<>>]
        /\ Leave(t)
     \/ /\ job[t].kind # "load"
        /\ seen' = [seen EXCEPT ![t] = file.list]
        /\ Goto(t, "truncating")
        /\ UNCHANGED <<owner, flock, job>>
  /\ UNCHANGED <<file, calls, dead, harms>>

Truncate(t) ==
  /\ pc[t] = "truncating"
  /\ file' = Empty
  /\ Goto(t, "writing")
  /\ UNCHANGED <<owner, flock, job, seen, calls, dead, harms>>

Write(t) ==
  /\ pc[t] = "writing"
  /\ file' = Json(Mutated(seen[t], job[t]))
  /\ seen' = [seen EXCEPT ![t] = <<>>]
  /\ Leave(t)
  /\ UNCHANGED <<calls, dead, harms>>

\* os.write raises, or writes less than it was given and nobody looks.
WriteFails(t) ==
  /\ MayBeFull
  /\ pc[t] = "writing"
  /\ file' \in {Empty, Garbled}
  /\ seen' = [seen EXCEPT ![t] = <<>>]
  /\ Leave(t)
  /\ harms' = harms + 1
  /\ UNCHANGED <<calls, dead>>

\* The kernel drops the flocks of a process that is killed.
Crash(p) ==
  /\ MayCrash
  /\ p \notin dead
  /\ dead' = dead \cup {p}
  /\ flock' = {h \in flock : Home[h.thread] # p}
  /\ owner' = [owner EXCEPT ![p] = Nobody]
  /\ pc' = [t \in Threads |-> IF Home[t] = p THEN "idle" ELSE pc[t]]
  /\ job' = [t \in Threads |-> IF Home[t] = p THEN NoJob ELSE job[t]]
  /\ seen' = [t \in Threads |-> IF Home[t] = p THEN <<>> ELSE seen[t]]
  /\ file' \in IF \E t \in Threads : Home[t] = p /\ pc[t] = "writing"
               THEN {file, Garbled} ELSE {file}
  /\ harms' = harms + 1
  /\ UNCHANGED calls

Finished ==
  /\ \A t \in Threads : pc[t] = "idle" /\ (calls[t] = MaxCalls \/ Home[t] \in dead)
  /\ UNCHANGED vars

Step(t) ==
  \/ Record(t) \/ Clear(t) \/ Load(t)
  \/ CheckExists(t) \/ Create(t) \/ LockCreated(t) \/ Initialise(t)
  \/ Open(t) \/ Lock(t) \/ Read(t) \/ Truncate(t) \/ Write(t) \/ WriteFails(t)

Next == (\E t \in Threads : Step(t)) \/ (\E p \in Processes : Crash(p)) \/ Finished

Spec == Init /\ [][Next]_vars
-----------------------------------------------------------------------------
\* While a writer is between its read and its write, no other thread of any
\* process is reading or writing the file, so no reader decodes a truncated
\* ledger and no update is lost to another.
WritersAlone ==
  \A t, u \in Threads :
     t # u /\ pc[t] \in {"truncating", "writing"}
       => pc[u] \notin {"reading", "truncating", "writing", "initialising"}

\* Operations of threads and processes take effect one after the other, and
\* only a kill, a failed write or a late initialisation loses anything: the
\* list that a writer has truncated counts as the ledger until the next one is
\* written, and that one is made from exactly the ledger as it was.
Kept ==
  IF \E t \in Threads : pc[t] = "writing"
  THEN seen[CHOOSE t \in Threads : pc[t] = "writing"]
  ELSE file.list
Store == INSTANCE ReplayStore WITH
           entries <- Kept,
           pending <- {job[t] : t \in Threads} \cap Requests
ImplementsReplayStore == Store!Spec

\* The module's docstring: with the locks, cooperating processes cannot
\* corrupt the file.  (No process is killed and no write fails here.)
NeverCorrupted == file # Garbled
=============================================================================
