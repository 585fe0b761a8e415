---------------------------- MODULE ReplayStore ----------------------------
(***************************************************************************)
(* What experience_replay.py promises the engines that share its ledger:   *)
(* every request to record a trajectory, or to clear, takes effect at one  *)
(* instant on the ledger as it then is, whatever other threads and         *)
(* processes do, and only the best trajectories are kept.  Nothing is lost *)
(* but by a counted accident, after which the ledger may start afresh.     *)
(***************************************************************************)
EXTENDS Naturals, Sequences

CONSTANTS Requests, MaxSize

VARIABLES
  entries,   \* the trajectories kept, best first
  pending,   \* requests made and not yet served
  harms      \* accidents so far

Top(s) == SubSeq(s, 1, IF Len(s) < MaxSize THEN Len(s) ELSE MaxSize)

\* The sort is stable: a newcomer goes after its equals.
Insert(s, e) ==
  LET Above(x) == x.result >= e.result
      Below(x) == x.result < e.result
  IN SelectSeq(s, Above) \o <<e>> \o SelectSeq(s, Below)

Served(s, r) == IF r.kind = "record" THEN Top(Insert(s, r.entry)) ELSE <<>>

Init == entries = <<>> /\ pending = {} /\ harms = 0

Ask(r) ==
  /\ r \notin pending
  /\ pending' = pending \cup {r}
  /\ UNCHANGED <<entries, harms>>

Serve(r) ==
  /\ r \in pending
  /\ pending' = pending \ {r}
  /\ entries' = Served(entries, r)
  /\ UNCHANGED harms

Accident ==
  /\ harms' = harms + 1
  /\ pending' \in SUBSET pending
  /\ entries' \in {entries, <<>>}

Next == (\E r \in Requests : Ask(r) \/ Serve(r)) \/ Accident

Spec == Init /\ [][Next]_<<entries, pending, harms>>
=============================================================================
