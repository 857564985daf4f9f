---------------------------- MODULE PipelineJobs ----------------------------
(***************************************************************************)
(* The asynchronous pipeline jobs of the model service: the pipeline_jobs  *)
(* table (storage.py), the service instances that accept, execute, cancel  *)
(* and recover jobs (api.py), and the run lock that keeps two runs of one  *)
(* experiment apart (pipeline.py).                                         *)
(*                                                                         *)
(* Every database transaction is one step.  A handler that makes several   *)
(* transactions is several actions, and those of other actors may fall     *)
(* between them.  What the stages compute is left out: a run ends with any *)
(* report its cancellation checks allow.                                   *)
(***************************************************************************)
EXTENDS Naturals, FiniteSets, JobStatus

CONSTANTS
  Jobs,        \* job ids
  Configs,     \* experiment files
  Keys,        \* run-lock keys
  KeyOf,       \* Configs -> Keys: files that name one experiment id share a key
  Persist,     \* Configs -> BOOLEAN: the request's "persist" flag
  Instances,   \* service processes, by the slot they are deployed in
  WorkerIds,   \* values of WORKER_ID, host name and process id
  Clients,     \* requests in flight at one time
  Workers,     \* SETTINGS.pipeline_workers
  MaxStops,    \* bound on the shutdowns and kills of a process
  MaxFaults,   \* bound on the exceptions raised by the store or the file system
  None

ASSUME KeyAssumption     == KeyOf \in [Configs -> Keys]
ASSUME PersistAssumption == Persist \in [Configs -> BOOLEAN]
ASSUME BoundAssumption   == MaxStops \in Nat /\ MaxFaults \in Nat /\ Workers \in Nat \ {0}
ASSUME NoneAssumption ==
  /\ None \notin Configs \cup WorkerIds \cup Instances \cup Clients
  /\ None \notin Instances \X Jobs
  /\ Clients \cap (Instances \X Jobs) = {}

VARIABLES
  status, config, owner,  \* pipeline_jobs: status, config_path, worker_id
  beat,                   \* heartbeat_at against the cutoff: "fresh" or "stale"
  runs,                   \* how many pipeline_runs rows each job wrote
  audit,                  \* audit_events: <<job, pipeline.job.* action>>
  phase, wid,             \* each process and its WORKER_ID
  sel,                    \* orphan ids a starting process holds in memory
  pc, report, seen,       \* _run_pipeline_job per process and job; seen: _cancelled
  tlock, flock,           \* the held _PIPELINE_LOCKS of each process; each file lock's holder
  req,                    \* POST /api/pipelines/run in flight
  stops, faults           \* how often a process stopped, an exception rose

table == <<status, config, owner, beat, runs, audit>>
procs == <<phase, wid, sel>>
tasks == <<pc, report, seen>>
locks == <<tlock, flock>>
env   == <<req, stops, faults>>
vars  == <<table, procs, tasks, locks, env>>

Phases  == {"down", "starting", "selected", "auditing", "up", "draining"}
Steps   == {"idle", "pending", "claimed", "start", "flock", "stage", "record",
            "reread", "finish", "audit", "fail", "failaudit"}
Runners == (Instances \X Jobs) \cup Clients
Requests == [step: {"idle", "checked", "sync_start", "sync_flock", "sync_stage"},
             at: Instances \cup {None}, config: Configs \cup {None}]
Idle    == [step |-> "idle", at |-> None, config |-> None]

\* Job ids are handed out once; a request is answered when it is idle again.
Unused(j)   == status[j] = "none"
Key(j)      == KeyOf[config[j]]
Busy(i)     == {j \in Jobs : pc[i][j] \notin {"idle", "pending"}}
FreeThread(i) == Cardinality(Busy(i)) < Workers

Init ==
  /\ status = [j \in Jobs |-> "none"]
  /\ config = [j \in Jobs |-> None]
  /\ owner  = [j \in Jobs |-> None]
  /\ beat   = [j \in Jobs |-> "stale"]
  /\ runs   = [j \in Jobs |-> 0]
  /\ audit  = {}
  /\ phase  = [i \in Instances |-> "down"]
  /\ wid    = [i \in Instances |-> None]
  /\ sel    = [i \in Instances |-> {}]
  /\ pc     = [i \in Instances |-> [j \in Jobs |-> "idle"]]
  /\ report = [i \in Instances |-> [j \in Jobs |-> None]]
  /\ seen   = [i \in Instances |-> [j \in Jobs |-> FALSE]]
  /\ tlock  = {}
  /\ flock  = [k \in Keys |-> None]
  /\ req    = [r \in Clients |-> Idle]
  /\ stops = 0
  /\ faults  = 0

Goto(i, j, step) == pc' = [pc EXCEPT ![i][j] = step]

\* The task returns: its thread keeps nothing of the job.
Return(i, j) ==
  /\ Goto(i, j, "idle")
  /\ report' = [report EXCEPT ![i][j] = None]
  /\ seen'   = [seen EXCEPT ![i][j] = FALSE]

-----------------------------------------------------------------------------
(***************************************************************************)
(* Requests.                                                               *)
(***************************************************************************)

\* Bound: no request is let in that would find the ids used up.
Room == Cardinality({j \in Jobs : Unused(j)}) > Cardinality({r \in Clients : req[r].step = "checked"})

\* Mutant: only a running job counts.
HasRunning(c) == \E j \in Jobs : config[j] = c /\ status[j] = "running"

\* has_active_pipeline_job
HasActive(c) == \E j \in Jobs : config[j] = c /\ status[j] \in Active

\* _queue_pipeline_job up to its check; a config with an active job gets a 409.
Submit(r, i, c) ==
  /\ phase[i] = "up"
  /\ req[r].step = "idle"
  /\ ~HasActive(c)
  /\ Room
  /\ req' = [req EXCEPT ![r] = [step |-> "checked", at |-> i, config |-> c]]
  /\ UNCHANGED <<table, procs, tasks, locks, stops, faults>>

\* retry_pipeline_job queues a new job for the request of a closed one.
Retry(r, i, j) ==
  /\ status[j] \in Terminal
  /\ Submit(r, i, config[j])

\* create_pipeline_job, then EXECUTOR.submit.
Insert(r, j) ==
  /\ req[r].step = "checked"
  /\ Unused(j)
  /\ status' = [status EXCEPT ![j] = "queued"]
  /\ config' = [config EXCEPT ![j] = req[r].config]
  /\ Goto(req[r].at, j, "pending")
  /\ req' = [req EXCEPT ![r] = Idle]
  /\ UNCHANGED <<owner, beat, runs, audit, procs, report, seen, locks, stops, faults>>

\* Mutant: read the status, then write without a guard on it.
CancelUnguarded(i, j) ==
  /\ phase[i] = "up"
  /\ status[j] # "none"
  /\ status' = [status EXCEPT ![j] =
                  IF status[j] = "queued" THEN "cancelled" ELSE "cancellation_requested"]
  /\ UNCHANGED <<config, owner, beat, runs, audit, procs, tasks, locks, env>>

\* request_pipeline_job_cancel, one guarded UPDATE.
Cancel(i, j) ==
  /\ phase[i] = "up"
  /\ status[j] \in {"queued", "running"}
  /\ status' = [status EXCEPT ![j] =
                  IF status[j] = "queued" THEN "cancelled" ELSE "cancellation_requested"]
  /\ UNCHANGED <<config, owner, beat, runs, audit, procs, tasks, locks, env>>

\* POST /api/pipelines/run without "async": the request's own thread runs the
\* pipeline, with no job and no look at the job table.
SyncRequest(r, i, c) ==
  /\ phase[i] = "up"
  /\ req[r].step = "idle"
  /\ req' = [req EXCEPT ![r] = [step |-> "sync_start", at |-> i, config |-> c]]
  /\ UNCHANGED <<table, procs, tasks, locks, stops, faults>>

-----------------------------------------------------------------------------
(***************************************************************************)
(* The run lock: a lock of the process, then the lock file.  Neither waits.*)
(***************************************************************************)

\* The lock is refused: run_experiment_pipeline returns a failed report.
Refused(i, j) ==
  /\ report' = [report EXCEPT ![i][j] = "failed"]
  /\ Goto(i, j, "record")
  /\ UNCHANGED seen

TakeThreadLock(i, j) ==
  /\ pc[i][j] = "start"
  /\ \/ /\ <<i, Key(j)>> \notin tlock
        /\ tlock' = tlock \cup {<<i, Key(j)>>}
        /\ Goto(i, j, "flock")
        /\ UNCHANGED <<report, seen>>
     \/ /\ <<i, Key(j)>> \in tlock
        /\ Refused(i, j)
        /\ UNCHANGED tlock
  /\ UNCHANGED <<table, procs, flock, env>>

\* Mutant: the file is opened and never locked.
TakeFileUnlocked(i, j) ==
  /\ pc[i][j] = "flock"
  /\ flock' = [flock EXCEPT ![Key(j)] = <<i, j>>]
  /\ Goto(i, j, "stage")
  /\ UNCHANGED <<table, procs, report, seen, tlock, env>>

TakeFileLock(i, j) ==
  /\ pc[i][j] = "flock"
  /\ \/ /\ flock[Key(j)] = None
        /\ flock' = [flock EXCEPT ![Key(j)] = <<i, j>>]
        /\ Goto(i, j, "stage")
        /\ UNCHANGED <<report, seen, tlock>>
     \/ /\ flock[Key(j)] # None
        /\ Refused(i, j)
        /\ tlock' = tlock \ {<<i, Key(j)>>}
        /\ UNCHANGED flock
  /\ UNCHANGED <<table, procs, env>>

\* Mutant: thread_lock.release() is forgotten.
ReleaseFileOnly(i, k) ==
  /\ flock' = [flock EXCEPT ![k] = None]
  /\ UNCHANGED tlock

\* The finally of _pipeline_run_lock.
Release(i, k) ==
  /\ tlock' = tlock \ {<<i, k>>}
  /\ flock' = [flock EXCEPT ![k] = None]

\* The same three steps for a synchronous run; a refused one is answered.
SyncThreadLock(r) ==
  LET i == req[r].at
      k == KeyOf[req[r].config]
  IN  /\ req[r].step = "sync_start"
      /\ \/ /\ <<i, k>> \notin tlock
            /\ tlock' = tlock \cup {<<i, k>>}
            /\ req' = [req EXCEPT ![r].step = "sync_flock"]
         \/ /\ <<i, k>> \in tlock
            /\ req' = [req EXCEPT ![r] = Idle]
            /\ UNCHANGED tlock
      /\ UNCHANGED <<table, procs, tasks, flock, stops, faults>>

SyncFileLock(r) ==
  LET i == req[r].at
      k == KeyOf[req[r].config]
  IN  /\ req[r].step = "sync_flock"
      /\ \/ /\ flock[k] = None
            /\ flock' = [flock EXCEPT ![k] = r]
            /\ req' = [req EXCEPT ![r].step = "sync_stage"]
            /\ UNCHANGED tlock
         \/ /\ flock[k] # None
            /\ req' = [req EXCEPT ![r] = Idle]
            /\ tlock' = tlock \ {<<i, k>>}
            /\ UNCHANGED flock
      /\ UNCHANGED <<table, procs, tasks, stops, faults>>

SyncFinish(r) ==
  /\ req[r].step = "sync_stage"
  /\ Release(req[r].at, KeyOf[req[r].config])
  /\ req' = [req EXCEPT ![r] = Idle]
  /\ UNCHANGED <<table, procs, tasks, stops, faults>>

-----------------------------------------------------------------------------
(***************************************************************************)
(* _run_pipeline_job, on a thread of the executor.                         *)
(***************************************************************************)

\* Mutant: the UPDATE lacks AND status = 'queued'.
ClaimUnguarded(i, j) ==
  /\ pc[i][j] = "pending"
  /\ FreeThread(i)
  /\ status' = [status EXCEPT ![j] = "running"]
  /\ owner'  = [owner EXCEPT ![j] = wid[i]]
  /\ beat'   = [beat EXCEPT ![j] = "fresh"]
  /\ Goto(i, j, "claimed")
  /\ UNCHANGED <<config, runs, audit, procs, report, seen, locks, env>>

\* claim_pipeline_job: its UPDATE succeeds only for a queued job ...
Claim(i, j) ==
  /\ pc[i][j] = "pending"
  /\ FreeThread(i)
  /\ IF status[j] = "queued"
     THEN /\ status' = [status EXCEPT ![j] = "running"]
          /\ owner'  = [owner EXCEPT ![j] = wid[i]]
          /\ beat'   = [beat EXCEPT ![j] = "fresh"]
     ELSE UNCHANGED <<status, owner, beat>>
  /\ Goto(i, j, "claimed")
  /\ UNCHANGED <<config, runs, audit, procs, report, seen, locks, env>>

\* Mutant: the result of the claim is not looked at.
ProceedAnyway(i, j) ==
  /\ pc[i][j] = "claimed"
  /\ Goto(i, j, "start")
  /\ UNCHANGED <<table, procs, report, seen, locks, env>>

\* ... and its result is the row as a later SELECT finds it.
Proceed(i, j) ==
  /\ pc[i][j] = "claimed"
  /\ status[j] = "running"
  /\ Goto(i, j, "start")
  /\ UNCHANGED <<table, procs, report, seen, locks, env>>

Skip(i, j) ==
  /\ pc[i][j] = "claimed"
  /\ status[j] # "running"
  /\ Return(i, j)
  /\ UNCHANGED <<table, procs, locks, env>>

\* _CancelCheck: one SELECT and the heartbeat.  Merged: the heartbeat changes
\* nothing a check reads.
Poll(i, j) ==
  /\ pc[i][j] = "stage"
  /\ ~seen[i][j]
  /\ seen' = [seen EXCEPT ![i][j] = status[j] = "cancellation_requested"]
  /\ beat' = IF owner[j] = wid[i] /\ status[j] \in InProgress
             THEN [beat EXCEPT ![j] = "fresh"] ELSE beat
  /\ UNCHANGED <<status, config, owner, runs, audit, procs, pc, report, locks, env>>

\* The stages end and the lock is released.  A run that saw the request stops
\* as cancelled, or as failed when a preparation step reports it that way.
FinishStages(i, j) ==
  /\ pc[i][j] = "stage"
  /\ \E result \in IF seen[i][j] THEN {"cancelled", "failed"} ELSE {"completed", "failed"} :
       report' = [report EXCEPT ![i][j] = result]
  /\ Goto(i, j, "record")
  /\ Release(i, Key(j))
  /\ UNCHANGED <<table, procs, seen, env>>

\* record_pipeline_run and the rows of pipeline_artifacts.
RecordRun(i, j) ==
  /\ pc[i][j] = "record"
  /\ runs' = IF Persist[config[j]] THEN [runs EXCEPT ![j] = @ + 1] ELSE runs
  /\ Goto(i, j, "reread")
  /\ UNCHANGED <<status, config, owner, beat, audit, procs, report, seen, locks, env>>

\* Mutant: the status that was read is written back as the verdict.
RereadAsVerdict(i, j) ==
  /\ pc[i][j] = "reread"
  /\ report' = [report EXCEPT ![i][j] =
                  IF status[j] = "cancellation_requested" THEN status[j] ELSE @]
  /\ Goto(i, j, "finish")
  /\ UNCHANGED <<table, procs, seen, locks, env>>

\* Mutant: the row is not read again.
RereadNothing(i, j) ==
  /\ pc[i][j] = "reread"
  /\ Goto(i, j, "finish")
  /\ UNCHANGED <<table, procs, report, seen, locks, env>>

\* A second look at the row decides the verdict.
Reread(i, j) ==
  /\ pc[i][j] = "reread"
  /\ report' = [report EXCEPT ![i][j] =
                  IF status[j] = "cancellation_requested" THEN "cancelled" ELSE @]
  /\ Goto(i, j, "finish")
  /\ UNCHANGED <<table, procs, seen, locks, env>>

\* Mutant: the UPDATE lacks AND status NOT IN (...).
CloseAlways(j, verdict) == status' = [status EXCEPT ![j] = verdict]

\* complete_pipeline_job and fail_pipeline_job leave a closed row alone.
Close(j, verdict) ==
  status' = IF status[j] \in Terminal THEN status ELSE [status EXCEPT ![j] = verdict]

Finish(i, j) ==
  /\ pc[i][j] = "finish"
  /\ Close(j, report[i][j])
  /\ Goto(i, j, "audit")
  /\ UNCHANGED <<config, owner, beat, runs, audit, procs, report, seen, locks, env>>

AuditOutcome(i, j) ==
  /\ pc[i][j] = "audit"
  /\ audit' = audit \cup {<<j, report[i][j]>>}
  /\ Return(i, j)
  /\ UNCHANGED <<status, config, owner, beat, runs, procs, locks, env>>

\* The except clause: fail_pipeline_job, then the audit event.
FailJob(i, j) ==
  /\ pc[i][j] = "fail"
  /\ Close(j, "failed")
  /\ Goto(i, j, "failaudit")
  /\ UNCHANGED <<config, owner, beat, runs, audit, procs, report, seen, locks, env>>

AuditFailure(i, j) ==
  /\ pc[i][j] = "failaudit"
  /\ audit' = audit \cup {<<j, "failed">>}
  /\ Return(i, j)
  /\ UNCHANGED <<status, config, owner, beat, runs, procs, locks, env>>

\* An exception anywhere in the try goes to the handler ...
Raise(i, j) ==
  /\ faults < MaxFaults
  /\ pc[i][j] \notin {"idle", "fail", "failaudit"}
  /\ pc[i][j] = "pending" => FreeThread(i)
  /\ faults' = faults + 1
  /\ Goto(i, j, "fail")
  /\ CASE pc[i][j] = "stage" -> Release(i, Key(j))
       [] pc[i][j] = "flock" -> /\ tlock' = tlock \ {<<i, Key(j)>>}
                                /\ UNCHANGED flock
       [] OTHER              -> UNCHANGED locks
  /\ UNCHANGED <<table, procs, report, seen, req, stops>>

\* ... except that ensure_dir runs before the lock's own try: when it raises,
\* nobody releases the lock of the process.
RaiseInLockDir(i, j) ==
  /\ faults < MaxFaults
  /\ pc[i][j] = "flock"
  /\ faults' = faults + 1
  /\ Goto(i, j, "fail")
  /\ UNCHANGED <<table, procs, report, seen, locks, req, stops>>

\* A synchronous run leaks it too; its request is answered with an error.
SyncRaiseInLockDir(r) ==
  /\ faults < MaxFaults
  /\ req[r].step = "sync_flock"
  /\ faults' = faults + 1
  /\ req' = [req EXCEPT ![r] = Idle]
  /\ UNCHANGED <<table, procs, tasks, locks, stops>>

\* An exception in the handler is stored in a Future nobody reads.
RaiseInHandler(i, j) ==
  /\ faults < MaxFaults
  /\ pc[i][j] \in {"fail", "failaudit"}
  /\ faults' = faults + 1
  /\ Return(i, j)
  /\ UNCHANGED <<table, procs, locks, req, stops>>

-----------------------------------------------------------------------------
(***************************************************************************)
(* Processes: _recover_jobs_on_startup, shutdown and death.                *)
(***************************************************************************)

Start(i) ==
  /\ phase[i] = "down"
  /\ phase' = [phase EXCEPT ![i] = "starting"]
  /\ \E w \in WorkerIds :
       /\ \A k \in Instances : phase[k] # "down" => wid[k] # w
       /\ wid' = [wid EXCEPT ![i] = w]
  /\ UNCHANGED <<table, sel, tasks, locks, env>>

\* Mutant: only jobs without a pulse count.
OrphanedIfStale(i, j) == status[j] \in InProgress /\ beat[j] = "stale"

\* Mutant: a job that was asked to stop does not count.
OrphanedIfRunning(i, j) ==
  /\ status[j] = "running"
  /\ owner[j] \in {wid[i], None} \/ beat[j] = "stale"

\* recover_orphaned_jobs: the jobs of this worker id, and those without a pulse ...
Orphaned(i, j) ==
  /\ status[j] \in InProgress
  /\ owner[j] \in {wid[i], None} \/ beat[j] = "stale"

SelectOrphans(i) ==
  /\ phase[i] = "starting"
  /\ phase' = [phase EXCEPT ![i] = "selected"]
  /\ sel'   = [sel EXCEPT ![i] = {j \in Jobs : Orphaned(i, j)}]
  /\ UNCHANGED <<table, wid, tasks, locks, env>>

\* ... then an UPDATE of those ids, whatever their status is by now.
FailOrphans(i) ==
  /\ phase[i] = "selected"
  /\ phase'  = [phase EXCEPT ![i] = "auditing"]
  /\ status' = [j \in Jobs |-> IF j \in sel[i] THEN "failed" ELSE status[j]]
  /\ UNCHANGED <<config, owner, beat, runs, audit, wid, sel, tasks, locks, env>>

AuditOrphan(i, j) ==
  /\ phase[i] = "auditing"
  /\ j \in sel[i]
  /\ audit' = audit \cup {<<j, "orphaned">>}
  /\ sel'   = [sel EXCEPT ![i] = @ \ {j}]
  /\ UNCHANGED <<status, config, owner, beat, runs, phase, wid, tasks, locks, env>>

\* Mutant: queued jobs are left to the process that accepted them.
ResubmitNothing(i) ==
  /\ phase[i] = "auditing"
  /\ sel[i] = {}
  /\ phase' = [phase EXCEPT ![i] = "up"]
  /\ UNCHANGED <<table, wid, sel, tasks, locks, env>>

\* Every queued job of the table goes to this process's executor.
Resubmit(i) ==
  /\ phase[i] = "auditing"
  /\ sel[i] = {}
  /\ phase' = [phase EXCEPT ![i] = "up"]
  /\ pc' = [pc EXCEPT ![i] = [j \in Jobs |-> IF status[j] = "queued" THEN "pending" ELSE "idle"]]
  /\ UNCHANGED <<table, wid, sel, report, seen, locks, env>>

\* A failing recovery is logged and the service starts without it.
RaiseInRecovery(i) ==
  /\ faults < MaxFaults
  /\ phase[i] \in {"starting", "selected", "auditing"}
  /\ faults' = faults + 1
  /\ phase'  = [phase EXCEPT ![i] = "up"]
  /\ sel'    = [sel EXCEPT ![i] = {}]
  /\ UNCHANGED <<table, wid, tasks, locks, req, stops>>

\* EXECUTOR.shutdown(wait=False, cancel_futures=True), after the last request.
Shutdown(i) ==
  /\ phase[i] = "up"
  /\ \A r \in Clients : req[r].at # i
  /\ stops < MaxStops
  /\ stops' = stops + 1
  /\ phase' = [phase EXCEPT ![i] = "draining"]
  /\ pc' = [pc EXCEPT ![i] = [j \in Jobs |-> IF pc[i][j] = "pending" THEN "idle" ELSE pc[i][j]]]
  /\ UNCHANGED <<table, wid, sel, report, seen, locks, req, faults>>

\* The process goes away, and with it its threads, locks and requests.
Vanish(i) ==
  /\ phase'  = [phase EXCEPT ![i] = "down"]
  /\ wid'    = [wid EXCEPT ![i] = None]
  /\ sel'    = [sel EXCEPT ![i] = {}]
  /\ pc'     = [pc EXCEPT ![i] = [j \in Jobs |-> "idle"]]
  /\ report' = [report EXCEPT ![i] = [j \in Jobs |-> None]]
  /\ seen'   = [seen EXCEPT ![i] = [j \in Jobs |-> FALSE]]
  /\ tlock'  = {lock \in tlock : lock[1] # i}
  /\ flock'  = [k \in Keys |->
                 IF \/ \E j \in Jobs : flock[k] = <<i, j>>
                    \/ \E r \in Clients : flock[k] = r /\ req[r].at = i
                 THEN None ELSE flock[k]]
  /\ req'    = [r \in Clients |-> IF req[r].at = i THEN Idle ELSE req[r]]

\* The interpreter exits once the running tasks have returned.
Exit(i) ==
  /\ phase[i] = "draining"
  /\ Busy(i) = {}
  /\ Vanish(i)
  /\ UNCHANGED <<table, stops, faults>>

Crash(i) ==
  /\ stops < MaxStops
  /\ phase[i] # "down"
  /\ stops' = stops + 1
  /\ Vanish(i)
  /\ UNCHANGED <<table, faults>>

\* 120 seconds pass without a heartbeat: a check needs a stage that polls, so a
\* live worker can miss it too.
HeartbeatExpires(j) ==
  /\ status[j] \in InProgress
  /\ beat[j] = "fresh"
  /\ beat' = [beat EXCEPT ![j] = "stale"]
  /\ UNCHANGED <<status, config, owner, runs, audit, procs, tasks, locks, env>>

-----------------------------------------------------------------------------

RequestStep ==
  \/ \E r \in Clients, i \in Instances :
       \/ \E c \in Configs : Submit(r, i, c) \/ SyncRequest(r, i, c)
       \/ \E j \in Jobs : Retry(r, i, j)
  \/ \E r \in Clients, j \in Jobs : Insert(r, j)
  \/ \E i \in Instances, j \in Jobs : Cancel(i, j)
  \/ \E r \in Clients :
       SyncThreadLock(r) \/ SyncFileLock(r) \/ SyncFinish(r) \/ SyncRaiseInLockDir(r)

\* What the thread of a job does of its own accord.
TaskStep(i, j) ==
  \/ Claim(i, j) \/ Proceed(i, j) \/ Skip(i, j)
  \/ TakeThreadLock(i, j) \/ TakeFileLock(i, j)
  \/ FinishStages(i, j) \/ RecordRun(i, j) \/ Reread(i, j)
  \/ Finish(i, j) \/ AuditOutcome(i, j)
  \/ FailJob(i, j) \/ AuditFailure(i, j)

RecoveryStep(i) ==
  \/ SelectOrphans(i) \/ FailOrphans(i) \/ Resubmit(i)
  \/ \E j \in Jobs : AuditOrphan(i, j)

Fault(i) ==
  \/ \E j \in Jobs : Raise(i, j) \/ RaiseInLockDir(i, j) \/ RaiseInHandler(i, j)
  \/ RaiseInRecovery(i)

Next ==
  \/ RequestStep
  \/ \E i \in Instances, j \in Jobs : TaskStep(i, j) \/ Poll(i, j)
  \/ \E i \in Instances :
       Start(i) \/ RecoveryStep(i) \/ Shutdown(i) \/ Exit(i) \/ Crash(i) \/ Fault(i)
  \/ \E j \in Jobs : HeartbeatExpires(j)

Spec == Init /\ [][Next]_vars

(***************************************************************************)
(* The operating system runs every thread, a stage ends (each external     *)
(* command has a deadline), and the supervisor restarts a process that is  *)
(* gone.  Nobody has to send a request, poll, crash or shut down.          *)
(***************************************************************************)
Fairness ==
  /\ \A i \in Instances, j \in Jobs : WF_vars(TaskStep(i, j))
  /\ \A i \in Instances : WF_vars(RecoveryStep(i)) /\ WF_vars(Start(i)) /\ WF_vars(Exit(i))
  /\ \A r \in Clients : WF_vars(SyncThreadLock(r)) /\ WF_vars(SyncFileLock(r)) /\ WF_vars(SyncFinish(r))

FairSpec == Spec /\ Fairness
-----------------------------------------------------------------------------
(***************************************************************************)
(* Properties of every deployment.                                         *)
(***************************************************************************)

\* Every variable keeps its type: the statuses, steps and lock holders are the
\* ones the code can store.
TypeOK ==
  /\ status \in [Jobs -> Statuses]
  /\ config \in [Jobs -> Configs \cup {None}]
  /\ owner  \in [Jobs -> WorkerIds \cup {None}]
  /\ beat   \in [Jobs -> {"fresh", "stale"}]
  /\ runs   \in [Jobs -> Nat]
  /\ audit  \subseteq Jobs \X (Terminal \cup {"orphaned"})
  /\ phase  \in [Instances -> Phases]
  /\ wid    \in [Instances -> WorkerIds \cup {None}]
  /\ sel    \in [Instances -> SUBSET Jobs]
  /\ pc     \in [Instances -> [Jobs -> Steps]]
  /\ report \in [Instances -> [Jobs -> Terminal \cup {None}]]
  /\ seen   \in [Instances -> [Jobs -> BOOLEAN]]
  /\ tlock  \subseteq Instances \X Keys
  /\ flock  \in [Keys -> Runners \cup {None}]
  /\ req    \in [Clients -> Requests]
  /\ stops  \in Nat
  /\ faults \in Nat

\* x is inside _run_experiment_pipeline_unlocked with the lock of k.
OnStage(x, k) ==
  \/ \E i \in Instances, j \in Jobs :
       x = <<i, j>> /\ pc[i][j] = "stage" /\ Key(j) = k
  \/ x \in Clients /\ req[x].step = "sync_stage" /\ KeyOf[req[x].config] = k

\* Two runs that share an experiment id never execute stages at the same time,
\* whichever process, thread or synchronous request they belong to
\* (_pipeline_run_lock).
RunLockExclusive ==
  \A k \in Keys : \A x, y \in Runners : OnStage(x, k) /\ OnStage(y, k) => x = y

\* A job is claimed once: worker_id never changes hands (claim_pipeline_job).
ClaimedOnce == [][\A j \in Jobs : owner[j] # None => owner'[j] = owner[j]]_vars

\* Steps of a task whose claim_pipeline_job returned a running row.
Executing == {"start", "flock", "stage", "record", "reread", "finish", "audit"}

\* A job cancelled while it was queued is never executed, by no process, however
\* the cancellation races the claims (request_pipeline_job_cancel against
\* claim_pipeline_job and the resubmission at startup).
CancelledInQueueNeverRuns ==
  \A j \in Jobs : status[j] = "cancelled" /\ owner[j] = None =>
    runs[j] = 0 /\ \A i \in Instances : pc[i][j] \notin Executing

-----------------------------------------------------------------------------
(***************************************************************************)
(* Properties of one instance.                                             *)
(***************************************************************************)

\* With one instance the service keeps the promise of JobLifecycle through
\* crashes, restarts and exceptions: one claim, one run record, one verdict.
Lifecycle == INSTANCE JobLifecycle
LifecycleSpec == Lifecycle!Spec

\* Nothing reopens a closed job (the comment at TERMINAL_JOB_STATUSES).
TerminalIsFinal == [][\A j \in Jobs : status[j] \in Terminal => status'[j] = status[j]]_vars

\* The audit trail agrees with the table: an outcome that was audited is the
\* status of the row, and no job has two outcomes, as long as no exception rises:
\* one after the verdict is audited as a failure of a job that is closed already.
AuditMatchesOutcome ==
  faults = 0 => \A event \in audit :
    status[event[1]] = IF event[2] = "orphaned" THEN "failed" ELSE event[2]

\* A configuration has at most one job that is queued or in progress, because
\* two of them overwrite each other's artifacts (_queue_pipeline_job).
OneActivePerConfig ==
  \A j, k \in Jobs :
    status[j] \in Active /\ status[k] \in Active /\ config[j] = config[k] => j = k

\* The lock of a process is held only while a run of that experiment is on its
\* way to the stages or in them, so a refusal means what its message says; as
\* long as no exception rises (RaiseInLockDir leaks it).
ThreadLockHasHolder ==
  faults = 0 => \A i \in Instances, k \in Keys : <<i, k>> \in tlock =>
    \/ \E j \in Jobs : pc[i][j] \in {"flock", "stage"} /\ Key(j) = k
    \/ \E r \in Clients : /\ req[r].step \in {"sync_flock", "sync_stage"}
                          /\ req[r].at = i /\ KeyOf[req[r].config] = k

\* Every queued job is taken up, or cancelled, eventually: also those whose
\* process died before it could.
QueuedIsServed == \A j \in Jobs : status[j] = "queued" ~> status[j] # "queued"

\* A job that got past its claim is closed eventually, by its thread or, when
\* the process died, by the next start.
ExecutedIsClosed ==
  \A i \in Instances, j \in Jobs : pc[i][j] = "start" ~> status[j] \in Terminal

\* "DB state must converge": what a starting process finds in progress is closed
\* eventually (_recover_jobs_on_startup).
OrphansConverge ==
  \A i \in Instances, j \in Jobs :
    phase[i] = "starting" /\ status[j] \in InProgress ~> status[j] \in Terminal

\* A cancellation accepted before the verdict is decided is honoured, also when
\* no stage looked at it: the job never ends as completed.
CancelIsHonoured ==
  \A i \in Instances, j \in Jobs :
    [](pc[i][j] \in {"start", "flock", "stage", "record", "reread"}
         /\ status[j] = "cancellation_requested" => [](status[j] # "completed"))

-----------------------------------------------------------------------------
(***************************************************************************)
(* What the documentation says and the code does not do.                   *)
(***************************************************************************)

\* Only the worker that claimed a job executes it.
ExclusiveExecution ==
  \A j \in Jobs : \A i, k \in Instances :
    pc[i][j] \in Executing /\ pc[k][j] \in Executing => i = k
=============================================================================
