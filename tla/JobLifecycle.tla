---------------------------- MODULE JobLifecycle ----------------------------
(***************************************************************************)
(* What the job table promises to a client of the API: a job is accepted   *)
(* once, is claimed by at most one worker, writes at most one row of       *)
(* pipeline_runs, and closes once with a verdict nobody changes.           *)
(* PipelineJobs implements this module with a single service instance.     *)
(***************************************************************************)
EXTENDS Naturals, JobStatus

CONSTANTS
  Jobs,     \* job ids
  Configs,  \* experiment files a job can ask for
  Persist,  \* Configs -> BOOLEAN: does the request ask for a run record?
  None

VARIABLES
  status,   \* pipeline_jobs.status
  config,   \* pipeline_jobs.config_path
  runs      \* rows of pipeline_runs each job has written

vars == <<status, config, runs>>

Init ==
  /\ status = [j \in Jobs |-> "none"]
  /\ config = [j \in Jobs |-> None]
  /\ runs   = [j \in Jobs |-> 0]

Become(j, s) == status' = [status EXCEPT ![j] = s]

Accept(j, c) ==
  /\ status[j] = "none"
  /\ Become(j, "queued")
  /\ config' = [config EXCEPT ![j] = c]
  /\ UNCHANGED runs

Claim(j) ==
  /\ status[j] = "queued"
  /\ Become(j, "running")
  /\ UNCHANGED <<config, runs>>

\* A job nobody has claimed is cancelled on the spot; a claimed one is asked to stop.
Cancel(j) ==
  /\ \/ status[j] = "queued"  /\ Become(j, "cancelled")
     \/ status[j] = "running" /\ Become(j, "cancellation_requested")
  /\ UNCHANGED <<config, runs>>

\* The run is written before the verdict, and once.
Record(j) ==
  /\ status[j] \in InProgress
  /\ Persist[config[j]]
  /\ runs[j] = 0
  /\ runs' = [runs EXCEPT ![j] = 1]
  /\ UNCHANGED <<status, config>>

\* A job is called completed only once its run is on record.
Conclude(j, verdict) ==
  /\ status[j] \in InProgress
  /\ verdict \in {"completed", "cancelled"} /\ Persist[config[j]] => runs[j] = 1
  /\ Become(j, verdict)
  /\ UNCHANGED <<config, runs>>

\* The claim itself failed: the job never ran.
Abandon(j) ==
  /\ status[j] = "queued"
  /\ Become(j, "failed")
  /\ UNCHANGED <<config, runs>>

\* A restarted service closes everything its predecessor was executing.
Orphan(J) ==
  /\ \A j \in J : status[j] \in InProgress
  /\ status' = [j \in Jobs |-> IF j \in J THEN "failed" ELSE status[j]]
  /\ UNCHANGED <<config, runs>>

Next ==
  \/ \E j \in Jobs :
       \/ \E c \in Configs : Accept(j, c)
       \/ Claim(j)
       \/ Cancel(j)
       \/ Record(j)
       \/ \E verdict \in Terminal : Conclude(j, verdict)
       \/ Abandon(j)
  \/ \E J \in SUBSET Jobs : Orphan(J)

Spec == Init /\ [][Next]_vars
=============================================================================
