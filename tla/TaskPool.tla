------------------------------ MODULE TaskPool ------------------------------
(***************************************************************************)
(* What src/build/distributed.py promises its callers, with no workers,    *)
(* threads or retries in sight: a call to dispatch() decides every task    *)
(* once and then answers.  It answers with a report when every verdict is  *)
(* known, and with an exception only when the verdict of a task was lost   *)
(* to one.  The coordinator may then be asked again.                       *)
(***************************************************************************)
CONSTANT Tasks

VARIABLES
  verdict,   \* [Tasks -> Verdict]: what became of each task of this call
  answer     \* "awaited" until the call comes back

Verdict == {"pending", "ok", "fail", "lost"}

TypeOK ==
  /\ verdict \in [Tasks -> Verdict]
  /\ answer \in {"awaited", "returned", "raised"}

Init ==
  /\ verdict = [t \in Tasks |-> "pending"]
  /\ answer = "awaited"

Decide(t, v) ==
  /\ verdict[t] = "pending"
  /\ verdict' = [verdict EXCEPT ![t] = v]
  /\ UNCHANGED answer

Return ==
  /\ answer = "awaited"
  /\ \A t \in Tasks : verdict[t] \in {"ok", "fail"}
  /\ answer' = "returned"
  /\ UNCHANGED verdict

Raise ==
  /\ answer = "awaited"
  /\ \A t \in Tasks : verdict[t] # "pending"
  /\ \E t \in Tasks : verdict[t] = "lost"
  /\ answer' = "raised"
  /\ UNCHANGED verdict

AskAgain ==
  /\ answer # "awaited"
  /\ verdict' = [t \in Tasks |-> "pending"]
  /\ answer' = "awaited"

Next ==
  \/ \E t \in Tasks, v \in Verdict \ {"pending"} : Decide(t, v)
  \/ Return
  \/ Raise
  \/ AskAgain

vars == <<verdict, answer>>

Spec == Init /\ [][Next]_vars
=============================================================================
