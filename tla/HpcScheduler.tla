---------------------------- MODULE HpcScheduler ----------------------------
(***************************************************************************)
(* HPCScheduler of src/hpc/scheduler.py against a cluster that runs the    *)
(* jobs on its own and whose commands may fail, lag or lie low.  It is     *)
(* called by submit_many, which submits from a thread pool and then waits  *)
(* for the jobs in turn, or by several "build" commands of main.py on one  *)
(* workspace, each with a job of its own, which build locally when their   *)
(* job did not succeed.                                                    *)
(***************************************************************************)
EXTENDS Naturals, FiniteSets

CONSTANTS
  NJobs,     \* jobs asked for
  Name,      \* name of each job, that of its script too
  MaxNodes,  \* bound: the nodes setting
  MaxPolls   \* bound: polls that fit into the timeout of wait()

Jobs == 1..NJobs

ASSUME HpcAssumption ==
  /\ NJobs \in Nat \ {0} /\ MaxNodes \in Nat \ {0} /\ MaxPolls \in Nat
  /\ DOMAIN Name = Jobs

VARIABLES
  scheduler,  \* "slurm" or "pbs"
  caller,     \* "submit_many" or "build"
  nodes,      \* the nodes setting, to which submit_many limits its threads
              \* (a build makes a line of its script of it, no more)
  script,     \* the file <name>.sh: whose commands it holds
  real,       \* the job in the cluster
  spooled,    \* whose commands the cluster's job runs
  pc,
  known,      \* whether job_id was parsed
  state,      \* HPCJob.state
  polls,      \* polls of wait() so far
  heard       \* history, for the properties only: was the last poll answered

config  == <<scheduler, caller, nodes>>
cluster == <<real, spooled>>
handle  == <<known, state>>
hpc_vars == <<config, script, cluster, pc, handle, polls, heard>>

Nothing == 0
Mixed   == NJobs + 1
Names   == {Name[j] : j \in Jobs}

Live == {"PENDING", "RUNNING", "SUSPENDED", "COMPLETING"}
Ends == {"COMPLETED", "FAILED", "CANCELLED"}

HpcInit ==
  /\ scheduler \in {"slurm", "pbs"} /\ caller \in {"submit_many", "build"}
  /\ nodes \in IF caller = "build" THEN {1} ELSE 1..MaxNodes
  /\ script = [n \in Names |-> Nothing]
  /\ real = [j \in Jobs |-> "none"] /\ spooled = [j \in Jobs |-> Nothing]
  /\ pc = [j \in Jobs |-> "new"]
  /\ known = [j \in Jobs |-> FALSE] /\ state = [j \in Jobs |-> "UNKNOWN"]
  /\ polls = [j \in Jobs |-> 0] /\ heard = [j \in Jobs |-> TRUE]

Proceed(j, place) == pc' = [pc EXCEPT ![j] = place]

Become(j, s) == state' = [state EXCEPT ![j] = s]
-----------------------------------------------------------------------------
(* The cluster.  A job that is over has left the queue; how it ended is    *)
(* for the accounting to tell, which may be behind, and which cuts what it *)
(* says to ten characters: "CANCELLED by 7" is "CANCELLED+".               *)

Moves == [PENDING    |-> {"RUNNING", "CANCELLED"},
          RUNNING    |-> {"SUSPENDED", "COMPLETING"},
          SUSPENDED  |-> {"RUNNING"},
          COMPLETING |-> Ends]

Progress(j) ==
  /\ real[j] \in Live
  /\ \E s \in Moves[real[j]] : real' = [real EXCEPT ![j] = s]
  /\ UNCHANGED <<config, script, spooled, pc, handle, polls, heard>>

QueueSays(j) == {real[j]} \cap (IF scheduler = "pbs" THEN Live \cup {"COMPLETED"} ELSE Live)

AccountingSays(j) ==
  {real[j]}
    \cup (IF real[j] = "CANCELLED" THEN {"CANCELLED+"} ELSE {})
    \cup (IF real[j] = "PENDING" THEN {} ELSE {"PENDING", "RUNNING"})
-----------------------------------------------------------------------------
(* submit(), in a thread of submit_many or in a process of its own.        *)

\* A regression: as many threads as jobs.
OneEach == NJobs

Parallel == IF nodes < NJobs THEN nodes ELSE NJobs

Submitting == {j \in Jobs : pc[j] \in {"writing", "written"}}

MaySubmit(j) ==
  caller = "submit_many" =>
    /\ Cardinality(Submitting) < Parallel
    /\ \A i \in 1..(j - 1) : pc[i] # "new"

\* write_text empties the script before it fills it.
BeginWrite(j) ==
  /\ pc[j] = "new" /\ MaySubmit(j)
  /\ script' = [script EXCEPT ![Name[j]] = Nothing]
  /\ Proceed(j, "writing")
  /\ UNCHANGED <<config, cluster, handle, polls, heard>>

\* What another has written since is overwritten as far as this one reaches.
EndWrite(j) ==
  /\ pc[j] = "writing"
  /\ \E held \in {j} \cup (IF script[Name[j]] = Nothing THEN {} ELSE {Mixed}) :
       script' = [script EXCEPT ![Name[j]] = held]
  /\ Proceed(j, "written")
  /\ UNCHANGED <<config, cluster, handle, polls, heard>>

\* No scheduler command, an unwritable script, or a refusal of the cluster.
Refused(j) ==
  /\ \/ pc[j] = "new" /\ MaySubmit(j)
     \/ pc[j] \in {"writing", "written"}
  /\ Become(j, "FAILED")
  /\ Proceed(j, "ended")
  /\ UNCHANGED <<config, script, cluster, known, polls, heard>>

\* The cluster copies the script; its reply may be lost.
Accepted(j) ==
  /\ pc[j] = "written"
  /\ real' = [real EXCEPT ![j] = "PENDING"]
  /\ spooled' = [spooled EXCEPT ![j] = script[Name[j]]]
  /\ \/ known' = [known EXCEPT ![j] = TRUE] /\ Become(j, "PENDING") /\ Proceed(j, "submitted")
     \/ UNCHANGED known /\ Become(j, "FAILED") /\ Proceed(j, "ended")
  /\ UNCHANGED <<config, script, polls, heard>>
-----------------------------------------------------------------------------
(* wait(): status() asks the queue and, with slurm, the accounting.        *)

Waited == {"ended", "building", "left"}

\* submit_many waits for one job after the other, when all are submitted.
MayWait(j) ==
  caller = "submit_many" =>
    /\ \A i \in Jobs : pc[i] \notin {"new", "writing", "written"}
    /\ \A i \in 1..(j - 1) : pc[i] \in Waited

\* A regression: a job at its end is taken for ended.
NormalizedTooSoon(word) == IF word = "COMPLETING" THEN "COMPLETED" ELSE word

Normalized(word) == IF word = "COMPLETING" THEN "RUNNING" ELSE word

\* A regression: no answer is a failure.
FailedWhenSilent == "FAILED"

WhenSilent == "COMPLETED"

Answer(j, told, s) ==
  /\ heard' = [heard EXCEPT ![j] = told]
  /\ Become(j, s)
  /\ Proceed(j, "judging")

AskQueue(j) ==
  /\ pc[j] = "submitted" /\ MayWait(j)
  /\ \/ \E word \in QueueSays(j) : Answer(j, TRUE, Normalized(word))
     \/ /\ scheduler = "slurm"
        /\ Proceed(j, "accounting")
        /\ UNCHANGED <<state, heard>>
     \/ /\ scheduler = "pbs"
        /\ Answer(j, FALSE, WhenSilent)
  /\ UNCHANGED <<config, script, cluster, known, polls>>

AskAccounting(j) ==
  /\ pc[j] = "accounting"
  /\ \/ \E word \in AccountingSays(j) : Answer(j, TRUE, Normalized(word))
     \/ Answer(j, FALSE, WhenSilent)
  /\ UNCHANGED <<config, script, cluster, known, polls>>

\* A regression: whatever is neither pending nor running is over.
NotActive(s) == s \notin {"PENDING", "RUNNING"}

Terminal(s) == s \in {"COMPLETED", "FAILED", "CANCELLED", "TIMEOUT", "NODE_FAIL"}

\* A regression: the clock is not looked at.
NeverExpires(j) == {FALSE}

Expires(j) == IF polls[j] = MaxPolls THEN {TRUE} ELSE BOOLEAN

Judge(j) ==
  /\ pc[j] = "judging"
  /\ \/ /\ Terminal(state[j])
        /\ Proceed(j, "ended")
        /\ polls' = [polls EXCEPT ![j] = 0]
        /\ UNCHANGED state
     \/ /\ ~Terminal(state[j]) /\ TRUE \in Expires(j)
        /\ Become(j, "TIMEOUT")
        /\ Proceed(j, "cancelling")
        /\ polls' = [polls EXCEPT ![j] = 0]
     \/ /\ ~Terminal(state[j]) /\ FALSE \in Expires(j)
        /\ polls' = [polls EXCEPT ![j] = IF @ = MaxPolls THEN @ ELSE @ + 1]
        /\ Proceed(j, "submitted")
        /\ UNCHANGED state
  /\ UNCHANGED <<config, script, cluster, known, heard>>

\* Nobody looks whether the job was cancelled, or whether scancel is there.
Cancel(j) ==
  /\ pc[j] = "cancelling"
  /\ \/ UNCHANGED real
     \/ /\ real[j] \in Live
        /\ real' = [real EXCEPT ![j] = IF @ = "PENDING" THEN "CANCELLED" ELSE "COMPLETING"]
  /\ Proceed(j, "ended")
  /\ UNCHANGED <<config, script, spooled, handle, polls, heard>>
-----------------------------------------------------------------------------
(* _maybe_submit_hpc_build of main.py, and what build_command makes of it. *)

BuildLocally(j) ==
  /\ caller = "build" /\ pc[j] = "ended"
  /\ Proceed(j, IF state[j] = "COMPLETED" THEN "left" ELSE "building")
  /\ UNCHANGED <<config, script, cluster, handle, polls, heard>>

LocalBuildEnds(j) ==
  /\ pc[j] = "building"
  /\ Proceed(j, "left")
  /\ UNCHANGED <<config, script, cluster, handle, polls, heard>>

Done == \A j \in Jobs : pc[j] = (IF caller = "build" THEN "left" ELSE "ended")

Finished == Done /\ UNCHANGED hpc_vars

Client(j) ==
  \/ BeginWrite(j) \/ EndWrite(j) \/ Refused(j) \/ Accepted(j)
  \/ AskQueue(j) \/ AskAccounting(j) \/ Judge(j) \/ Cancel(j)
  \/ BuildLocally(j) \/ LocalBuildEnds(j)

HpcNext == (\E j \in Jobs : Client(j) \/ Progress(j)) \/ Finished

HpcSpec == HpcInit /\ [][HpcNext]_hpc_vars

\* Threads and processes are scheduled and the scheduler's commands return; the
\* cluster need not ever run a job.
HpcFairSpec == HpcSpec /\ \A j \in Jobs : WF_hpc_vars(Client(j))
-----------------------------------------------------------------------------
Places == {"new", "writing", "written", "submitted", "accounting", "judging",
           "cancelling"} \cup Waited

TypeOK ==
  /\ scheduler \in {"slurm", "pbs"} /\ caller \in {"submit_many", "build"}
  /\ nodes \in 1..MaxNodes
  /\ script \in [Names -> Jobs \cup {Nothing, Mixed}]
  /\ real \in [Jobs -> {"none"} \cup Live \cup Ends]
  /\ spooled \in [Jobs -> Jobs \cup {Nothing, Mixed}]
  /\ pc \in [Jobs -> Places]
  /\ known \in [Jobs -> BOOLEAN]
  /\ state \in [Jobs -> {"UNKNOWN", "PENDING", "RUNNING", "SUSPENDED", "COMPLETED", "FAILED",
                         "CANCELLED", "CANCELLED+", "TIMEOUT"}]
  /\ polls \in [Jobs -> 0..MaxPolls]
  /\ heard \in [Jobs -> BOOLEAN]

\* A job that was submitted and comes out of wait() as FAILED or CANCELLED has
\* ended so in the cluster: the two queries, which see it at different times and
\* may each fail, never make a failure of a job that runs or has succeeded.
NoFalseAlarm ==
  \A j \in Jobs :
    known[j] /\ pc[j] \in Waited /\ state[j] \in {"FAILED", "CANCELLED"}
      => real[j] = state[j]

\* A job comes out of wait() as COMPLETED although it has not only if its last
\* poll got no answer at all.
SuccessUnlessSilent ==
  \A j \in Jobs : pc[j] \in Waited /\ state[j] = "COMPLETED" /\ heard[j]
    => real[j] = "COMPLETED"

\* A build goes on locally beside its own job in the cluster only after wait()
\* has given the job up, or when the reply to its submission was lost.
LocalBuildAlone ==
  \A j \in Jobs : pc[j] = "building" /\ real[j] \in Live
    => state[j] = "TIMEOUT" \/ ~known[j]

\* With the default of one node submit_many submits one job at a time, so each
\* runs its own commands even if they share a name and hence a script.
OwnCommands ==
  caller = "submit_many" /\ nodes = 1
    => \A j \in Jobs : spooled[j] \in {Nothing, j}

\* submit_many and build come back whatever becomes of the jobs, provided that
\* the scheduler's commands do.
WaitEnds == <>Done
=============================================================================
