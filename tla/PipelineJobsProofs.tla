------------------------- MODULE PipelineJobsProofs -------------------------
(***************************************************************************)
(* Theorems about PipelineJobs, for every number of jobs, configurations,  *)
(* instances, requests and threads, and every bound on stops and faults.   *)
(*                                                                         *)
(*   TypeInv    types, and what the other parts need to know of ids,       *)
(*              phases and reports                                         *)
(*   Locked     a run in its stages holds the lock file of its experiment  *)
(*   Claims     a job is owned from its claim on, and touched only then    *)
(*   Selected   with one instance, recovery's selection stays in progress  *)
(*   Checked    with one request at a time, what _queue_pipeline_job       *)
(*              checked is still true when it inserts                      *)
(*   Audited    with one instance and no exception, what is about to be    *)
(*              audited is what the table says                             *)
(*   Honoured   with one instance, a request of cancellation stays on the  *)
(*              row until it is closed, and no verdict completes it        *)
(*                                                                         *)
(* Each is shown to be preserved by every action, in that order.           *)
(***************************************************************************)
EXTENDS PipelineJobs, TLAPS

-----------------------------------------------------------------------------
(***************************************************************************)
(* The inductive invariant.                                                *)
(***************************************************************************)

\* A job id in use names a configuration.
Known ==
  /\ \A j \in Jobs : status[j] # "none" => config[j] \in Configs
  /\ \A i \in Instances, j \in Jobs : pc[i][j] # "idle" => status[j] # "none"
  /\ \A i \in Instances : \A j \in sel[i] : status[j] # "none"

\* Tasks belong to a live process, requests to one that is up.
Served ==
  /\ \A i \in Instances, j \in Jobs : pc[i][j] # "idle" => phase[i] \in {"up", "draining"}
  /\ \A i \in Instances : phase[i] # "down" => wid[i] # None
  /\ \A r \in Clients : req[r].step # "idle" =>
       req[r].at \in Instances /\ req[r].config \in Configs /\ phase[req[r].at] = "up"

\* A run past its stages has a report.
Reported ==
  \A i \in Instances, j \in Jobs :
    pc[i][j] \in {"record", "reread", "finish", "audit"} => report[i][j] \in Terminal

TypeInv == TypeOK /\ Known /\ Served /\ Reported

\* A run in its stages holds the file lock of its experiment.
Locked == \A k \in Keys, x \in Runners : OnStage(x, k) => flock[k] = x

\* worker_id is set by the claim, and nothing happens to a job before it.
Claims ==
  /\ \A j \in Jobs : status[j] \in {"none", "queued"} => owner[j] = None
  /\ \A j \in Jobs : status[j] \in InProgress => owner[j] # None
  /\ \A j \in Jobs : owner[j] = None =>
       runs[j] = 0 /\ \A i \in Instances : pc[i][j] \notin Executing

\* What a starting process has selected is still in progress.
Selected == \A i \in Instances : phase[i] = "selected" => \A j \in sel[i] : status[j] \in InProgress

\* A request that passed the check would pass it again.
Checked == \A r \in Clients : req[r].step = "checked" => ~HasActive(req[r].config)

-----------------------------------------------------------------------------
(***************************************************************************)
(* Types, ids, phases and reports.                                         *)
(***************************************************************************)

\* What the actions store has its type.
LEMMA RequestTyped ==
  ASSUME TypeOK, NEW r \in Clients, NEW s \in {"sync_flock", "sync_stage"}
  PROVE  [req EXCEPT ![r].step = s] \in [Clients -> Requests]
<1>1. req \in [Clients -> Requests]
  BY DEF TypeOK
<1>2. [req[r] EXCEPT !.step = s] \in Requests
  BY <1>1 DEF Requests
<1> QED
  BY <1>1, <1>2

LEMMA ReleaseTyped ==
  ASSUME TypeOK, NEW i, NEW k, Release(i, k)
  PROVE  tlock' \subseteq Instances \X Keys /\ flock' \in [Keys -> Runners \cup {None}]
BY DEF TypeOK, Release

LEMMA WorkerKnown ==
  ASSUME TypeOK, Served, NEW i \in Instances, NEW j \in Jobs, pc[i][j] # "idle"
  PROVE  wid[i] \in WorkerIds
<1>1. wid[i] \in WorkerIds \cup {None} /\ wid[i] # None
  BY DEF TypeOK, Served
<1> QED
  BY <1>1

LEMMA ClaimTyped ==
  ASSUME TypeOK, Served, NEW i \in Instances, NEW j \in Jobs, Claim(i, j)
  PROVE  TypeOK'
<1>1. pc[i][j] = "pending"
  BY DEF Claim
<1>2. wid[i] \in WorkerIds
  BY <1>1, WorkerKnown
<1>3. CASE status[j] = "queued"
  BY <1>2, <1>3 DEF Claim, Goto, TypeOK, Statuses, Active, InProgress, Steps, procs, locks, env
<1>4. CASE status[j] # "queued"
  BY <1>4 DEF Claim, Goto, TypeOK, Steps, procs, locks, env
<1> QED
  BY <1>3, <1>4

\* Every action keeps the types, and the ids, phases and reports in order.
LEMMA TypeStep == TypeInv /\ [Next]_vars => TypeInv'
<1> SUFFICES ASSUME TypeInv, [Next]_vars
             PROVE  TypeInv'
  OBVIOUS
<1> USE NoneAssumption DEF TypeInv, TypeOK, Known, Served, Reported,
      Statuses, Active, InProgress, Terminal, Phases, Steps, Requests, Idle, table, procs, tasks, locks, env, Runners
<1>1. ASSUME NEW r \in Clients, NEW i \in Instances, NEW c \in Configs, Submit(r, i, c)
      PROVE  TypeInv'
  BY <1>1 DEF Submit, Room
<1>2. ASSUME NEW r \in Clients, NEW i \in Instances, NEW c \in Configs, SyncRequest(r, i, c)
      PROVE  TypeInv'
  BY <1>2 DEF SyncRequest
<1>3. ASSUME NEW r \in Clients, NEW i \in Instances, NEW j \in Jobs, Retry(r, i, j)
      PROVE  TypeInv'
  BY <1>3 DEF Retry, Submit
<1>4. ASSUME NEW r \in Clients, NEW j \in Jobs, Insert(r, j)
      PROVE  TypeInv'
  BY <1>4 DEF Insert, Unused, Goto
<1>5. ASSUME NEW i \in Instances, NEW j \in Jobs, Cancel(i, j)
      PROVE  TypeInv'
  BY <1>5 DEF Cancel
<1>6. ASSUME NEW r \in Clients, SyncThreadLock(r)
      PROVE  TypeInv'
  <2> DEFINE i == req[r].at
             k == KeyOf[req[r].config]
  <2>1. i \in Instances /\ k \in Keys
    BY <1>6, KeyAssumption DEF SyncThreadLock
  <2>2. CASE tlock' = tlock \cup {<<i, k>>} /\ req' = [req EXCEPT ![r].step = "sync_flock"]
    <3>1. req' \in [Clients -> Requests]
      BY <2>2, RequestTyped
    <3>2. tlock' \subseteq Instances \X Keys
      BY <2>1, <2>2
    <3>3. TypeOK'
      BY <1>6, <3>1, <3>2 DEF SyncThreadLock
    <3>4. Served'
      BY <1>6, <2>2 DEF SyncThreadLock
    <3> QED
      BY <1>6, <3>3, <3>4 DEF SyncThreadLock
  <2>3. CASE tlock' = tlock /\ req' = [req EXCEPT ![r] = Idle]
    BY <1>6, <2>3 DEF SyncThreadLock
  <2> QED
    BY <1>6, <2>2, <2>3 DEF SyncThreadLock
<1>7. ASSUME NEW r \in Clients, SyncFileLock(r)
      PROVE  TypeInv'
  <2> DEFINE i == req[r].at
             k == KeyOf[req[r].config]
  <2>1. i \in Instances /\ k \in Keys
    BY <1>7, KeyAssumption DEF SyncFileLock
  <2>2. CASE UNCHANGED tlock /\ flock' = [flock EXCEPT ![k] = r] /\ req' = [req EXCEPT ![r].step = "sync_stage"]
    <3>1. req' \in [Clients -> Requests]
      BY <2>2, RequestTyped
    <3>2. TypeOK'
      BY <1>7, <2>2, <3>1 DEF SyncFileLock, Runners
    <3>3. Served'
      BY <1>7, <2>2 DEF SyncFileLock
    <3> QED
      BY <1>7, <3>2, <3>3 DEF SyncFileLock
  <2>3. CASE UNCHANGED flock /\ tlock' = tlock \ {<<i, k>>} /\ req' = [req EXCEPT ![r] = Idle]
    BY <1>7, <2>3 DEF SyncFileLock
  <2> QED
    BY <1>7, <2>2, <2>3 DEF SyncFileLock
<1>8. ASSUME NEW r \in Clients, SyncFinish(r)
      PROVE  TypeInv'
  <2>1. req' = [req EXCEPT ![r] = Idle]
    BY <1>8 DEF SyncFinish
  <2>2. TypeOK'
    BY <1>8, <2>1, ReleaseTyped DEF SyncFinish
  <2> QED
    BY <1>8, <2>1, <2>2 DEF SyncFinish
<1>9. ASSUME NEW r \in Clients, SyncRaiseInLockDir(r)
      PROVE  TypeInv'
  BY <1>9 DEF SyncRaiseInLockDir
<1>10. ASSUME NEW i \in Instances, NEW j \in Jobs, Claim(i, j)
      PROVE  TypeInv'
  <2>1. TypeOK'
    BY <1>10, ClaimTyped
  <2>2. Known'
    BY <1>10 DEF Claim, Goto
  <2>3. Served' /\ Reported'
    BY <1>10 DEF Claim, Goto
  <2> QED
    BY <2>1, <2>2, <2>3
<1>11. ASSUME NEW i \in Instances, NEW j \in Jobs, Proceed(i, j)
      PROVE  TypeInv'
  BY <1>11 DEF Proceed, Goto
<1>12. ASSUME NEW i \in Instances, NEW j \in Jobs, Skip(i, j)
      PROVE  TypeInv'
  BY <1>12 DEF Skip, Return, Goto
<1>13. ASSUME NEW i \in Instances, NEW j \in Jobs, TakeThreadLock(i, j)
      PROVE  TypeInv'
  <2>1. Key(j) \in Keys
    BY <1>13, KeyAssumption DEF TakeThreadLock, Key
  <2>2. CASE tlock' = tlock \cup {<<i, Key(j)>>} /\ Goto(i, j, "flock") /\ UNCHANGED <<report, seen>>
    <3>1. TypeOK'
      BY <1>13, <2>1, <2>2 DEF TakeThreadLock, Goto
    <3>2. Known' /\ Served' /\ Reported'
      BY <1>13, <2>2 DEF TakeThreadLock, Goto
    <3> QED
      BY <3>1, <3>2
  <2>3. CASE UNCHANGED tlock /\ Refused(i, j)
    <3>1. TypeOK'
      BY <1>13, <2>3 DEF TakeThreadLock, Refused, Goto
    <3>2. Known' /\ Served' /\ Reported'
      BY <1>13, <2>3 DEF TakeThreadLock, Refused, Goto
    <3> QED
      BY <3>1, <3>2
  <2> QED
    BY <1>13, <2>2, <2>3 DEF TakeThreadLock
<1>14. ASSUME NEW i \in Instances, NEW j \in Jobs, TakeFileLock(i, j)
      PROVE  TypeInv'
  <2>1. Key(j) \in Keys
    BY <1>14, KeyAssumption DEF TakeFileLock, Key
  <2>2. CASE flock' = [flock EXCEPT ![Key(j)] = <<i, j>>] /\ Goto(i, j, "stage") /\ UNCHANGED <<report, seen, tlock>>
    <3>1. TypeOK'
      BY <1>14, <2>1, <2>2 DEF TakeFileLock, Goto, Runners
    <3>2. Known' /\ Served' /\ Reported'
      BY <1>14, <2>2 DEF TakeFileLock, Goto
    <3> QED
      BY <3>1, <3>2
  <2>3. CASE tlock' = tlock \ {<<i, Key(j)>>} /\ UNCHANGED flock /\ Refused(i, j)
    <3>1. TypeOK'
      BY <1>14, <2>3 DEF TakeFileLock, Refused, Goto
    <3>2. Known' /\ Served' /\ Reported'
      BY <1>14, <2>3 DEF TakeFileLock, Refused, Goto
    <3> QED
      BY <3>1, <3>2
  <2> QED
    BY <1>14, <2>2, <2>3 DEF TakeFileLock
<1>15. ASSUME NEW i \in Instances, NEW j \in Jobs, FinishStages(i, j)
      PROVE  TypeInv'
  <2>1. PICK result \in Terminal : report' = [report EXCEPT ![i][j] = result]
    BY <1>15 DEF FinishStages
  <2>2. TypeOK'
    BY <1>15, <2>1 DEF FinishStages, Goto, Release
  <2>3. Known' /\ Served' /\ Reported'
    BY <1>15, <2>1 DEF FinishStages, Goto
  <2> QED
    BY <2>2, <2>3
<1>16. ASSUME NEW i \in Instances, NEW j \in Jobs, RecordRun(i, j)
      PROVE  TypeInv'
  BY <1>16 DEF RecordRun, Goto
<1>17. ASSUME NEW i \in Instances, NEW j \in Jobs, Reread(i, j)
      PROVE  TypeInv'
  BY <1>17 DEF Reread, Goto
<1>18. ASSUME NEW i \in Instances, NEW j \in Jobs, Finish(i, j)
      PROVE  TypeInv'
  BY <1>18 DEF Finish, Goto, Close
<1>19. ASSUME NEW i \in Instances, NEW j \in Jobs, AuditOutcome(i, j)
      PROVE  TypeInv'
  BY <1>19 DEF AuditOutcome, Return, Goto
<1>20. ASSUME NEW i \in Instances, NEW j \in Jobs, FailJob(i, j)
      PROVE  TypeInv'
  BY <1>20 DEF FailJob, Goto, Close
<1>21. ASSUME NEW i \in Instances, NEW j \in Jobs, AuditFailure(i, j)
      PROVE  TypeInv'
  BY <1>21 DEF AuditFailure, Return, Goto
<1>22. ASSUME NEW i \in Instances, NEW j \in Jobs, Poll(i, j)
      PROVE  TypeInv'
  BY <1>22 DEF Poll
<1>23. ASSUME NEW i \in Instances, NEW j \in Jobs, Raise(i, j)
      PROVE  TypeInv'
  <2>1. TypeOK'
    <3>1. CASE pc[i][j] = "stage"
      BY <1>23, <3>1, ReleaseTyped DEF Raise, Goto
    <3>2. CASE pc[i][j] = "flock"
      BY <1>23, <3>2 DEF Raise, Goto
    <3>3. CASE pc[i][j] \notin {"stage", "flock"}
      BY <1>23, <3>3 DEF Raise, Goto
    <3> QED
      BY <3>1, <3>2, <3>3
  <2>2. Known' /\ Served' /\ Reported'
    BY <1>23 DEF Raise, Goto
  <2> QED
    BY <2>1, <2>2
<1>24. ASSUME NEW i \in Instances, NEW j \in Jobs, RaiseInLockDir(i, j)
      PROVE  TypeInv'
  BY <1>24 DEF RaiseInLockDir, Goto
<1>25. ASSUME NEW i \in Instances, NEW j \in Jobs, RaiseInHandler(i, j)
      PROVE  TypeInv'
  BY <1>25 DEF RaiseInHandler, Return, Goto
<1>26. ASSUME NEW i \in Instances, Start(i)
      PROVE  TypeInv'
  BY <1>26 DEF Start
<1>27. ASSUME NEW i \in Instances, SelectOrphans(i)
      PROVE  TypeInv'
  BY <1>27 DEF SelectOrphans, Orphaned
<1>28. ASSUME NEW i \in Instances, FailOrphans(i)
      PROVE  TypeInv'
  <2>1. \A j \in Jobs : status'[j] # "none" <=> status[j] # "none"
    BY <1>28 DEF FailOrphans
  <2>2. TypeOK' /\ Served' /\ Reported'
    BY <1>28 DEF FailOrphans
  <2>3. Known'
    BY <1>28, <2>1 DEF FailOrphans
  <2> QED
    BY <2>2, <2>3
<1>29. ASSUME NEW i \in Instances, Resubmit(i)
      PROVE  TypeInv'
  BY <1>29 DEF Resubmit
<1>30. ASSUME NEW i \in Instances, RaiseInRecovery(i)
      PROVE  TypeInv'
  BY <1>30 DEF RaiseInRecovery
<1>31. ASSUME NEW i \in Instances, Shutdown(i)
      PROVE  TypeInv'
  BY <1>31 DEF Shutdown
<1>32. ASSUME NEW i \in Instances, Exit(i)
      PROVE  TypeInv'
  BY <1>32 DEF Exit, Vanish
<1>33. ASSUME NEW i \in Instances, Crash(i)
      PROVE  TypeInv'
  BY <1>33 DEF Crash, Vanish
<1>34. ASSUME NEW i \in Instances, NEW j \in Jobs, AuditOrphan(i, j)
      PROVE  TypeInv'
  BY <1>34 DEF AuditOrphan
<1>35. ASSUME NEW j \in Jobs, HeartbeatExpires(j)
      PROVE  TypeInv'
  BY <1>35 DEF HeartbeatExpires
<1>36. CASE UNCHANGED vars
  BY <1>36 DEF vars
<1> QED
  BY <1>1, <1>2, <1>3, <1>4, <1>5, <1>6, <1>7, <1>8, <1>9, <1>10, <1>11, <1>12,
     <1>13, <1>14, <1>15, <1>16, <1>17, <1>18, <1>19, <1>20, <1>21, <1>22, <1>23, <1>24,
     <1>25, <1>26, <1>27, <1>28, <1>29, <1>30, <1>31, <1>32, <1>33, <1>34, <1>35, <1>36
     DEF Next, RequestStep, TaskStep, RecoveryStep, Fault

\* TypeCorrect, with what is needed to prove it.
LEMMA TypeInvariance == Spec => []TypeInv
<1>1. Init => TypeInv
  BY NoneAssumption DEF Init, TypeInv, TypeOK, Known, Served, Reported,
     Statuses, Phases, Steps, Requests, Idle
<1> QED
  BY <1>1, TypeStep, PTL DEF Spec

\* Every variable keeps its type, whatever the deployment.
THEOREM TypeCorrect == Spec => []TypeOK
BY TypeInvariance, PTL DEF TypeInv

-----------------------------------------------------------------------------
(***************************************************************************)
(* The run lock.                                                           *)
(***************************************************************************)

\* A run that leaves its stages releases the lock it holds, and only that.
LEMMA LockReleased ==
  ASSUME TypeOK, Locked, NEW i \in Instances, NEW j \in Jobs, Key(j) \in Keys,
         pc[i][j] = "stage", NEW step \in Steps \ {"stage"}, Goto(i, j, step),
         Release(i, Key(j)), UNCHANGED <<config, req>>
  PROVE  Locked'
<1>1. <<i, j>> \in Runners /\ OnStage(<<i, j>>, Key(j))
  BY DEF OnStage, Runners
<1>2. flock[Key(j)] = <<i, j>>
  BY <1>1 DEF Locked
<1>3. ASSUME NEW k \in Keys, NEW x \in Runners, OnStage(x, k)'
      PROVE  flock'[k] = x
  <2>1. OnStage(x, k) /\ x # <<i, j>>
    BY <1>3, NoneAssumption DEF OnStage, TypeOK, Key, Goto
  <2>2. flock[k] = x /\ k # Key(j)
    BY <1>2, <2>1 DEF Locked
  <2> QED
    BY <2>2 DEF Release, TypeOK
<1> QED
  BY <1>3 DEF Locked

\* The same for a synchronous run.
LEMMA SyncLockReleased ==
  ASSUME TypeOK, Served, Locked, NEW r \in Clients, SyncFinish(r)
  PROVE  Locked'
<1> DEFINE h == KeyOf[req[r].config]
<1>1. h \in Keys /\ r \in Runners /\ OnStage(r, h)
  BY KeyAssumption DEF SyncFinish, Served, OnStage, Runners
<1>2. flock[h] = r
  BY <1>1 DEF Locked
<1>3. ASSUME NEW k \in Keys, NEW x \in Runners, OnStage(x, k)'
      PROVE  flock'[k] = x
  <2>1. OnStage(x, k) /\ x # r
    BY <1>3, NoneAssumption DEF OnStage, TypeOK, Key, SyncFinish, Idle, table, tasks
  <2>2. flock[k] = x /\ k # h
    BY <1>2, <2>1 DEF Locked
  <2> QED
    BY <2>2 DEF Release, SyncFinish, TypeOK
<1> QED
  BY <1>3 DEF Locked

\* A process that dies frees its own locks and leaves those of others.
LEMMA LockVanished ==
  ASSUME TypeOK, Locked, NEW i \in Instances, Vanish(i), UNCHANGED table
  PROVE  Locked'
<1>1. ASSUME NEW k \in Keys, NEW x \in Runners, OnStage(x, k)'
      PROVE  flock'[k] = x
  <2>1. OnStage(x, k)
    BY <1>1 DEF OnStage, Vanish, TypeOK, Key, table, Idle
  <2>2. flock[k] = x
    BY <2>1 DEF Locked
  <2>3. \A j \in Jobs : x # <<i, j>>
    BY <1>1, NoneAssumption DEF OnStage, Vanish, TypeOK
  <2>4. \A r \in Clients : x = r => req[r].at # i
    BY <1>1, NoneAssumption DEF OnStage, Vanish, Idle
  <2> QED
    BY <2>2, <2>3, <2>4 DEF Vanish
<1> QED
  BY <1>1 DEF Locked

\* The file lock is taken only when it is free.
LEMMA LockTaken ==
  ASSUME TypeOK, Locked, NEW i \in Instances, NEW j \in Jobs, TakeFileLock(i, j)
  PROVE  Locked'
<1>1. pc[i][j] = "flock"
  BY DEF TakeFileLock
<1>2. CASE flock[Key(j)] = None /\ flock' = [flock EXCEPT ![Key(j)] = <<i, j>>] /\ Goto(i, j, "stage")
  <2>1. ASSUME NEW k \in Keys, NEW x \in Runners, OnStage(x, k)'
        PROVE  flock'[k] = x
    <3>1. CASE x = <<i, j>>
      BY <1>1, <1>2, <2>1, <3>1, NoneAssumption
         DEF OnStage, Goto, TypeOK, Key, TakeFileLock, table, Runners
    <3>2. CASE x # <<i, j>>
      <4>1. OnStage(x, k)
        BY <1>2, <2>1, <3>2 DEF OnStage, Goto, TypeOK, Key, TakeFileLock, table, env
      <4>2. flock[k] = x /\ x # None
        BY <4>1, NoneAssumption DEF Locked, Runners
      <4> QED
        BY <1>2, <4>2 DEF TypeOK
    <3> QED
      BY <3>1, <3>2
  <2> QED
    BY <2>1 DEF Locked
<1>3. CASE UNCHANGED flock /\ Refused(i, j)
  <2>1. \A k \in Keys, x \in Runners : OnStage(x, k)' => OnStage(x, k)
    BY <1>1, <1>3 DEF OnStage, TakeFileLock, Key, table, env, Refused, Goto, TypeOK
  <2> QED
    BY <1>3, <2>1 DEF Locked
<1> QED
  BY <1>2, <1>3 DEF TakeFileLock

LEMMA SyncLockTaken ==
  ASSUME TypeOK, Locked, NEW r \in Clients, SyncFileLock(r)
  PROVE  Locked'
<1> DEFINE h == KeyOf[req[r].config]
<1>1. req[r].step = "sync_flock"
  BY DEF SyncFileLock
<1>2. CASE flock[h] = None /\ flock' = [flock EXCEPT ![h] = r] /\ req' = [req EXCEPT ![r].step = "sync_stage"]
  <2>1. ASSUME NEW k \in Keys, NEW x \in Runners, OnStage(x, k)'
        PROVE  flock'[k] = x
    <3>1. CASE x = r
      BY <1>1, <1>2, <2>1, <3>1, NoneAssumption
         DEF OnStage, TypeOK, Requests, SyncFileLock
    <3>2. CASE x # r
      <4>1. OnStage(x, k)
        BY <1>2, <2>1, <3>2 DEF OnStage, TypeOK, Requests, Key, SyncFileLock, table, tasks
      <4>2. flock[k] = x /\ x # None
        BY <4>1, NoneAssumption DEF Locked, Runners
      <4> QED
        BY <1>2, <4>2 DEF TypeOK
    <3> QED
      BY <3>1, <3>2
  <2> QED
    BY <2>1 DEF Locked
<1>3. CASE UNCHANGED flock /\ req' = [req EXCEPT ![r] = Idle]
  <2>1. \A k \in Keys, x \in Runners : OnStage(x, k)' => OnStage(x, k)
    BY <1>1, <1>3 DEF OnStage, SyncFileLock, Key, table, tasks, Idle, TypeOK
  <2> QED
    BY <1>3, <2>1 DEF Locked
<1> QED
  BY <1>2, <1>3 DEF SyncFileLock

\* Every action keeps the runs in their stages in possession of their locks.
LEMMA LockStep == TypeInv /\ Locked /\ [Next]_vars => Locked'
<1> SUFFICES ASSUME TypeInv, Locked, [Next]_vars
             PROVE  Locked'
  OBVIOUS
<1> USE DEF TypeInv, TypeOK, Known, Locked, OnStage, Key, Idle, table, procs, tasks, locks, env
<1>1. ASSUME NEW r \in Clients, NEW i \in Instances, NEW c \in Configs, Submit(r, i, c)
      PROVE  Locked'
  BY <1>1 DEF Submit, Room
<1>2. ASSUME NEW r \in Clients, NEW i \in Instances, NEW c \in Configs, SyncRequest(r, i, c)
      PROVE  Locked'
  BY <1>2 DEF SyncRequest
<1>3. ASSUME NEW r \in Clients, NEW i \in Instances, NEW j \in Jobs, Retry(r, i, j)
      PROVE  Locked'
  BY <1>3 DEF Retry, Submit
<1>4. ASSUME NEW r \in Clients, NEW j \in Jobs, Insert(r, j)
      PROVE  Locked'
  BY <1>4 DEF Insert, Unused, Goto
<1>5. ASSUME NEW i \in Instances, NEW j \in Jobs, Cancel(i, j)
      PROVE  Locked'
  BY <1>5 DEF Cancel
<1>6. ASSUME NEW r \in Clients, SyncThreadLock(r)
      PROVE  Locked'
  <2>1. req[r].step = "sync_start" /\ UNCHANGED <<config, pc, flock>>
    BY <1>6 DEF SyncThreadLock
  <2>2. \A q \in Clients : req'[q].step = "sync_stage" => req'[q] = req[q]
    BY <1>6, <2>1 DEF SyncThreadLock, Requests
  <2> QED
    BY <2>1, <2>2
<1>7. ASSUME NEW r \in Clients, SyncFileLock(r)
      PROVE  Locked'
  BY <1>7, SyncLockTaken
<1>8. ASSUME NEW r \in Clients, SyncFinish(r)
      PROVE  Locked'
  BY <1>8, SyncLockReleased
<1>9. ASSUME NEW r \in Clients, SyncRaiseInLockDir(r)
      PROVE  Locked'
  BY <1>9 DEF SyncRaiseInLockDir
<1>10. ASSUME NEW i \in Instances, NEW j \in Jobs, Claim(i, j)
      PROVE  Locked'
  BY <1>10 DEF Claim, Goto
<1>11. ASSUME NEW i \in Instances, NEW j \in Jobs, Proceed(i, j)
      PROVE  Locked'
  BY <1>11 DEF Proceed, Goto
<1>12. ASSUME NEW i \in Instances, NEW j \in Jobs, Skip(i, j)
      PROVE  Locked'
  BY <1>12 DEF Skip, Return, Goto
<1>13. ASSUME NEW i \in Instances, NEW j \in Jobs, TakeThreadLock(i, j)
      PROVE  Locked'
  <2>1. CASE Goto(i, j, "flock")
    BY <1>13, <2>1 DEF TakeThreadLock, Goto
  <2>2. CASE Refused(i, j)
    BY <1>13, <2>2 DEF TakeThreadLock, Refused, Goto
  <2> QED
    BY <1>13, <2>1, <2>2 DEF TakeThreadLock
<1>14. ASSUME NEW i \in Instances, NEW j \in Jobs, TakeFileLock(i, j)
      PROVE  Locked'
  BY <1>14, LockTaken
<1>15. ASSUME NEW i \in Instances, NEW j \in Jobs, FinishStages(i, j)
      PROVE  Locked'
  <2>1. Key(j) \in Keys
    BY <1>15, KeyAssumption DEF FinishStages
  <2> QED
    BY <1>15, <2>1, LockReleased DEF FinishStages, Steps
<1>16. ASSUME NEW i \in Instances, NEW j \in Jobs, RecordRun(i, j)
      PROVE  Locked'
  BY <1>16 DEF RecordRun, Goto
<1>17. ASSUME NEW i \in Instances, NEW j \in Jobs, Reread(i, j)
      PROVE  Locked'
  BY <1>17 DEF Reread, Goto
<1>18. ASSUME NEW i \in Instances, NEW j \in Jobs, Finish(i, j)
      PROVE  Locked'
  BY <1>18 DEF Finish, Goto, Close
<1>19. ASSUME NEW i \in Instances, NEW j \in Jobs, AuditOutcome(i, j)
      PROVE  Locked'
  BY <1>19 DEF AuditOutcome, Return, Goto
<1>20. ASSUME NEW i \in Instances, NEW j \in Jobs, FailJob(i, j)
      PROVE  Locked'
  BY <1>20 DEF FailJob, Goto, Close
<1>21. ASSUME NEW i \in Instances, NEW j \in Jobs, AuditFailure(i, j)
      PROVE  Locked'
  BY <1>21 DEF AuditFailure, Return, Goto
<1>22. ASSUME NEW i \in Instances, NEW j \in Jobs, Poll(i, j)
      PROVE  Locked'
  BY <1>22 DEF Poll
<1>23. ASSUME NEW i \in Instances, NEW j \in Jobs, Raise(i, j)
      PROVE  Locked'
  <2>1. CASE pc[i][j] = "stage"
    <3>1. Key(j) \in Keys
      BY <2>1, KeyAssumption
    <3> QED
      BY <1>23, <2>1, <3>1, LockReleased DEF Raise, Steps
  <2>2. CASE pc[i][j] # "stage"
    BY <1>23, <2>2 DEF Raise, Goto
  <2> QED
    BY <2>1, <2>2
<1>24. ASSUME NEW i \in Instances, NEW j \in Jobs, RaiseInLockDir(i, j)
      PROVE  Locked'
  BY <1>24 DEF RaiseInLockDir, Goto
<1>25. ASSUME NEW i \in Instances, NEW j \in Jobs, RaiseInHandler(i, j)
      PROVE  Locked'
  BY <1>25 DEF RaiseInHandler, Return, Goto
<1>26. ASSUME NEW i \in Instances, Start(i)
      PROVE  Locked'
  BY <1>26 DEF Start
<1>27. ASSUME NEW i \in Instances, SelectOrphans(i)
      PROVE  Locked'
  BY <1>27 DEF SelectOrphans, Orphaned
<1>28. ASSUME NEW i \in Instances, FailOrphans(i)
      PROVE  Locked'
  BY <1>28 DEF FailOrphans
<1>29. ASSUME NEW i \in Instances, Resubmit(i)
      PROVE  Locked'
  BY <1>29 DEF Resubmit
<1>30. ASSUME NEW i \in Instances, RaiseInRecovery(i)
      PROVE  Locked'
  BY <1>30 DEF RaiseInRecovery
<1>31. ASSUME NEW i \in Instances, Shutdown(i)
      PROVE  Locked'
  BY <1>31 DEF Shutdown
<1>32. ASSUME NEW i \in Instances, Exit(i)
      PROVE  Locked'
  BY <1>32, LockVanished DEF Exit
<1>33. ASSUME NEW i \in Instances, Crash(i)
      PROVE  Locked'
  BY <1>33, LockVanished DEF Crash
<1>34. ASSUME NEW i \in Instances, NEW j \in Jobs, AuditOrphan(i, j)
      PROVE  Locked'
  BY <1>34 DEF AuditOrphan
<1>35. ASSUME NEW j \in Jobs, HeartbeatExpires(j)
      PROVE  Locked'
  BY <1>35 DEF HeartbeatExpires
<1>36. CASE UNCHANGED vars
  BY <1>36 DEF vars
<1> QED
  BY <1>1, <1>2, <1>3, <1>4, <1>5, <1>6, <1>7, <1>8, <1>9, <1>10, <1>11, <1>12,
     <1>13, <1>14, <1>15, <1>16, <1>17, <1>18, <1>19, <1>20, <1>21, <1>22, <1>23, <1>24,
     <1>25, <1>26, <1>27, <1>28, <1>29, <1>30, <1>31, <1>32, <1>33, <1>34, <1>35, <1>36
     DEF Next, RequestStep, TaskStep, RecoveryStep, Fault

LEMMA LockInvariance == Spec => [](TypeInv /\ Locked)
<1>1. Init => Locked
  BY DEF Init, Locked, OnStage, Idle
<1> QED
  BY <1>1, TypeInvariance, LockStep, PTL DEF Spec

\* Two runs that share an experiment id never execute stages at the same time, for
\* any number of processes, threads and requests (_pipeline_run_lock).
THEOREM StagesExclusive == Spec => []RunLockExclusive
<1>1. Locked => RunLockExclusive
  BY DEF Locked, RunLockExclusive
<1> QED
  BY <1>1, LockInvariance, PTL

-----------------------------------------------------------------------------
(***************************************************************************)
(* The lock of the process, as long as no exception rises.                 *)
(***************************************************************************)

InLock   == {"flock", "stage"}
SyncLock == {"sync_flock", "sync_stage"}

Holder(i, k) ==
  \/ \E j \in Jobs : pc[i][j] \in InLock /\ Key(j) = k
  \/ \E r \in Clients : req[r].step \in SyncLock /\ req[r].at = i /\ KeyOf[req[r].config] = k

\* Unless an exception rises, whoever has the lock of a process keeps it or lets go of it.
HoldersStay == faults' = 0 =>
  /\ faults = 0
  /\ tlock' \subseteq tlock
  /\ \A i \in Instances, j \in Jobs : pc[i][j] \in InLock =>
       \/ pc'[i][j] \in InLock /\ config'[j] = config[j]
       \/ <<i, Key(j)>> \notin tlock'
  /\ \A r \in Clients : req[r].step \in SyncLock =>
       \/ /\ req'[r].step \in SyncLock
          /\ req'[r].at = req[r].at /\ req'[r].config = req[r].config
       \/ <<req[r].at, KeyOf[req[r].config]>> \notin tlock'

LEMMA HeldIfHolders ==
  ASSUME faults' = 0 => \A i \in Instances, k \in Keys : <<i, k>> \in tlock' => Holder(i, k)'
  PROVE  ThreadLockHasHolder'
BY DEF ThreadLockHasHolder, Holder, InLock, SyncLock

LEMMA HolderKept ==
  ASSUME ThreadLockHasHolder, HoldersStay
  PROVE  ThreadLockHasHolder'
<1>1. ASSUME faults' = 0, NEW i \in Instances, NEW k \in Keys, <<i, k>> \in tlock'
      PROVE  Holder(i, k)'
  <2>1. Holder(i, k)
    BY <1>1 DEF ThreadLockHasHolder, HoldersStay, Holder, InLock, SyncLock
  <2>2. ASSUME NEW j \in Jobs, pc[i][j] \in InLock, Key(j) = k
        PROVE  pc'[i][j] \in InLock /\ Key(j)' = k
    BY <1>1, <2>2 DEF HoldersStay, Key
  <2>3. ASSUME NEW r \in Clients, req[r].step \in SyncLock, req[r].at = i, KeyOf[req[r].config] = k
        PROVE  req'[r].step \in SyncLock /\ req'[r].at = i /\ KeyOf[req'[r].config] = k
    BY <1>1, <2>3 DEF HoldersStay
  <2> QED
    BY <2>1, <2>2, <2>3 DEF Holder
<1> QED
  BY <1>1, HeldIfHolders

\* A run that takes the lock of its process is its holder; the others stay.
LEMMA ThreadLockTaken ==
  ASSUME TypeOK, ThreadLockHasHolder, NEW i \in Instances, NEW j \in Jobs, TakeThreadLock(i, j)
  PROVE  ThreadLockHasHolder'
<1>0. faults = 0 => \A p \in Instances, k \in Keys : <<p, k>> \in tlock => Holder(p, k)
  BY DEF ThreadLockHasHolder, Holder, InLock, SyncLock
<1> USE DEF TypeOK, InLock, SyncLock, Steps, table, procs, env
<1>1. CASE Refused(i, j) /\ UNCHANGED tlock
  <2>1. HoldersStay
    BY <1>1 DEF HoldersStay, TakeThreadLock, Refused, Goto, Key
  <2> QED
    BY <2>1, HolderKept
<1>2. CASE tlock' = tlock \cup {<<i, Key(j)>>} /\ Goto(i, j, "flock")
  <2>1. faults' = faults /\ req' = req /\ config' = config
    BY <1>2 DEF TakeThreadLock
  <2>2. \A p \in Instances, q \in Jobs : pc[p][q] \in InLock => pc'[p][q] \in InLock
    BY <1>2 DEF Goto
  <2>3. pc'[i][j] \in InLock
    BY <1>2 DEF Goto
  <2>4. ASSUME faults' = 0, NEW p \in Instances, NEW k \in Keys, <<p, k>> \in tlock'
        PROVE  Holder(p, k)'
    <3>1. CASE p = i /\ k = Key(j)
      BY <2>1, <2>3, <3>1 DEF Key, Holder
    <3>2. CASE <<p, k>> \in tlock
      <4>1. Holder(p, k)
        BY <1>0, <2>1, <2>4, <3>2, Zenon
      <4>2. ASSUME NEW q \in Jobs, pc[p][q] \in InLock, Key(q) = k
            PROVE  pc'[p][q] \in InLock /\ Key(q)' = k
        BY <2>1, <2>2, <4>2 DEF Key
      <4>3. ASSUME NEW r \in Clients, req[r].step \in SyncLock, req[r].at = p, KeyOf[req[r].config] = k
            PROVE  req'[r].step \in SyncLock /\ req'[r].at = p /\ KeyOf[req'[r].config] = k
        BY <2>1, <2>2, <4>3
      <4> HIDE DEF InLock, SyncLock, TypeOK
      <4> QED
        BY <4>1, <4>2, <4>3, Zenon DEF Holder
    <3> QED
      BY <1>2, <2>4, <3>1, <3>2
  <2> QED
    BY <2>4, HeldIfHolders
<1> QED
  BY <1>1, <1>2 DEF TakeThreadLock

\* The same for a synchronous run.
LEMMA SyncThreadLockTaken ==
  ASSUME TypeOK, ThreadLockHasHolder, NEW r \in Clients, SyncThreadLock(r)
  PROVE  ThreadLockHasHolder'
<1>0. faults = 0 => \A p \in Instances, k \in Keys : <<p, k>> \in tlock => Holder(p, k)
  BY DEF ThreadLockHasHolder, Holder, InLock, SyncLock
<1> USE DEF TypeOK, InLock, SyncLock, Requests, Idle, table, procs, tasks
<1> DEFINE h == <<req[r].at, KeyOf[req[r].config]>>
<1>1. CASE req' = [req EXCEPT ![r] = Idle] /\ UNCHANGED tlock
  <2>1. HoldersStay
    BY <1>1 DEF HoldersStay, SyncThreadLock, Key
  <2> QED
    BY <2>1, HolderKept
<1>2. CASE tlock' = tlock \cup {h} /\ req' = [req EXCEPT ![r].step = "sync_flock"]
  <2>1. faults' = faults /\ pc' = pc /\ config' = config
    BY <1>2 DEF SyncThreadLock
  <2>2. \A q \in Clients : /\ req[q].step \in SyncLock => req'[q].step \in SyncLock
                           /\ req'[q].at = req[q].at /\ req'[q].config = req[q].config
    BY <1>2
  <2>3. req'[r].step \in SyncLock
    BY <1>2
  <2>4. ASSUME faults' = 0, NEW p \in Instances, NEW k \in Keys, <<p, k>> \in tlock'
        PROVE  Holder(p, k)'
    <3>1. CASE <<p, k>> = h
      BY <2>2, <2>3, <3>1 DEF Holder
    <3>2. CASE <<p, k>> \in tlock
      <4>1. Holder(p, k)
        BY <1>0, <2>1, <2>4, <3>2, Zenon
      <4>2. ASSUME NEW q \in Jobs, pc[p][q] \in InLock, Key(q) = k
            PROVE  pc'[p][q] \in InLock /\ Key(q)' = k
        BY <2>1, <2>2, <4>2 DEF Key
      <4>3. ASSUME NEW q \in Clients, req[q].step \in SyncLock, req[q].at = p, KeyOf[req[q].config] = k
            PROVE  req'[q].step \in SyncLock /\ req'[q].at = p /\ KeyOf[req'[q].config] = k
        BY <2>1, <2>2, <4>3
      <4> HIDE DEF InLock, SyncLock, TypeOK
      <4> QED
        BY <4>1, <4>2, <4>3, Zenon DEF Holder
    <3> QED
      BY <1>2, <2>4, <3>1, <3>2
  <2> QED
    BY <2>4, HeldIfHolders
<1> QED
  BY <1>1, <1>2 DEF SyncThreadLock

\* A task that is not in the lock lets the holders be.
LEMMA OutsideStays ==
  ASSUME TypeOK, NEW i \in Instances, NEW j \in Jobs, NEW step, Goto(i, j, step),
         pc[i][j] \notin InLock, UNCHANGED <<config, tlock, req, faults>>
  PROVE  HoldersStay
<1>1. \A p \in Instances, q \in Jobs : pc[p][q] \in InLock => pc'[p][q] = pc[p][q]
  BY DEF TypeOK, Goto
<1> QED
  BY <1>1 DEF HoldersStay

\* Every other action keeps the holders or lets go of the lock.
LEMMA HoldersStep ==
  ASSUME TypeInv, [Next]_vars,
         \A i \in Instances, j \in Jobs : ~TakeThreadLock(i, j),
         \A r \in Clients : ~SyncThreadLock(r)
  PROVE  HoldersStay
<1> USE DEF TypeInv, TypeOK, Known, Served, HoldersStay, InLock, SyncLock, Key, Idle, Requests,
      table, procs, tasks, locks, env
<1>1. ASSUME NEW r \in Clients, NEW i \in Instances, NEW c \in Configs,
             Submit(r, i, c) \/ SyncRequest(r, i, c)
      PROVE  HoldersStay
  BY <1>1 DEF Submit, SyncRequest
<1>2. ASSUME NEW r \in Clients, NEW i \in Instances, NEW j \in Jobs, Retry(r, i, j)
      PROVE  HoldersStay
  BY <1>2 DEF Retry, Submit
<1>3. ASSUME NEW r \in Clients, NEW j \in Jobs, Insert(r, j)
      PROVE  HoldersStay
  BY <1>3 DEF Insert, Unused, Goto
<1>4. ASSUME NEW i \in Instances, NEW j \in Jobs, Cancel(i, j)
      PROVE  HoldersStay
  BY <1>4 DEF Cancel
<1>5. ASSUME NEW r \in Clients, SyncFileLock(r)
      PROVE  HoldersStay
  <2>1. CASE req' = [req EXCEPT ![r].step = "sync_stage"] /\ UNCHANGED tlock
    BY <1>5, <2>1 DEF SyncFileLock
  <2>2. CASE req' = [req EXCEPT ![r] = Idle] /\ tlock' = tlock \ {<<req[r].at, KeyOf[req[r].config]>>}
    BY <1>5, <2>2 DEF SyncFileLock
  <2> QED
    BY <1>5, <2>1, <2>2 DEF SyncFileLock
<1>6. ASSUME NEW r \in Clients, SyncFinish(r)
      PROVE  HoldersStay
  BY <1>6 DEF SyncFinish, Release
<1>7. ASSUME NEW r \in Clients, SyncRaiseInLockDir(r)
      PROVE  HoldersStay
  BY <1>7 DEF SyncRaiseInLockDir
<1>8. ASSUME NEW i \in Instances, NEW j \in Jobs, Claim(i, j) \/ Proceed(i, j)
      PROVE  HoldersStay
  BY <1>8, OutsideStays DEF Claim, Proceed
<1>9. ASSUME NEW i \in Instances, NEW j \in Jobs, Skip(i, j)
      PROVE  HoldersStay
  BY <1>9, OutsideStays DEF Skip, Return
<1>10. ASSUME NEW i \in Instances, NEW j \in Jobs, TakeFileLock(i, j)
       PROVE  HoldersStay
  <2>1. CASE Goto(i, j, "stage") /\ UNCHANGED tlock
    BY <1>10, <2>1 DEF TakeFileLock, Goto
  <2>2. CASE Refused(i, j) /\ tlock' = tlock \ {<<i, Key(j)>>}
    BY <1>10, <2>2 DEF TakeFileLock, Refused, Goto
  <2> QED
    BY <1>10, <2>1, <2>2 DEF TakeFileLock
<1>11. ASSUME NEW i \in Instances, NEW j \in Jobs, FinishStages(i, j)
       PROVE  HoldersStay
  BY <1>11 DEF FinishStages, Goto, Release
<1>12. ASSUME NEW i \in Instances, NEW j \in Jobs, RecordRun(i, j) \/ Reread(i, j)
       PROVE  HoldersStay
  BY <1>12, OutsideStays DEF RecordRun, Reread
<1>13. ASSUME NEW i \in Instances, NEW j \in Jobs, Finish(i, j) \/ FailJob(i, j)
       PROVE  HoldersStay
  BY <1>13, OutsideStays DEF Finish, FailJob
<1>14. ASSUME NEW i \in Instances, NEW j \in Jobs, AuditOutcome(i, j) \/ AuditFailure(i, j)
       PROVE  HoldersStay
  BY <1>14, OutsideStays DEF AuditOutcome, AuditFailure, Return
<1>15. ASSUME NEW i \in Instances, NEW j \in Jobs, Poll(i, j)
       PROVE  HoldersStay
  BY <1>15 DEF Poll
<1>16. ASSUME NEW i \in Instances, Fault(i)
       PROVE  HoldersStay
  <2>1. faults' = faults + 1
    BY <1>16 DEF Fault, Raise, RaiseInLockDir, RaiseInHandler, RaiseInRecovery
  <2> QED
    BY <2>1
<1>17. ASSUME NEW i \in Instances, Start(i) \/ SelectOrphans(i) \/ FailOrphans(i)
       PROVE  HoldersStay
  BY <1>17 DEF Start, SelectOrphans, FailOrphans
<1>18. ASSUME NEW i \in Instances, Resubmit(i)
       PROVE  HoldersStay
  <2>1. \A j \in Jobs : pc[i][j] = "idle"
    BY <1>18 DEF Resubmit
  <2> QED
    BY <1>18, <2>1 DEF Resubmit
<1>19. ASSUME NEW i \in Instances, Shutdown(i)
       PROVE  HoldersStay
  BY <1>19 DEF Shutdown
<1>20. ASSUME NEW i \in Instances, Exit(i) \/ Crash(i)
       PROVE  HoldersStay
  BY <1>20 DEF Exit, Crash, Vanish
<1>21. ASSUME NEW i \in Instances, NEW j \in Jobs, AuditOrphan(i, j)
       PROVE  HoldersStay
  BY <1>21 DEF AuditOrphan
<1>22. ASSUME NEW j \in Jobs, HeartbeatExpires(j)
       PROVE  HoldersStay
  BY <1>22 DEF HeartbeatExpires
<1>23. CASE UNCHANGED vars
  BY <1>23 DEF vars
<1>24. RequestStep => HoldersStay
  BY <1>1, <1>2, <1>3, <1>4, <1>5, <1>6, <1>7 DEF RequestStep
<1>25. ASSUME NEW i \in Instances, NEW j \in Jobs, TaskStep(i, j)
       PROVE  HoldersStay
  BY <1>8, <1>9, <1>10, <1>11, <1>12, <1>13, <1>14, <1>25 DEF TaskStep
<1>26. ASSUME NEW i \in Instances, RecoveryStep(i)
       PROVE  HoldersStay
  BY <1>17, <1>18, <1>21, <1>26 DEF RecoveryStep
<1> QED
  BY <1>15, <1>16, <1>17, <1>19, <1>20, <1>22, <1>23, <1>24, <1>25, <1>26 DEF Next

\* As long as no exception rises, the lock of a process is held only while a run of its
\* experiment is on its way to the stages or in them, so a refusal means what its
\* message says (_pipeline_run_lock).
THEOREM ThreadLockHeld == Spec => []ThreadLockHasHolder
<1>1. Init => ThreadLockHasHolder
  BY DEF Init, ThreadLockHasHolder
<1>2. TypeInv /\ ThreadLockHasHolder /\ [Next]_vars => ThreadLockHasHolder'
  BY HoldersStep, HolderKept, ThreadLockTaken, SyncThreadLockTaken DEF TypeInv
<1> QED
  BY <1>1, <1>2, TypeInvariance, PTL DEF Spec

-----------------------------------------------------------------------------
(***************************************************************************)
(* Claims.                                                                 *)
(***************************************************************************)

\* Every action leaves a job without an owner untouched, and an owned one owned.
LEMMA ClaimStep == TypeInv /\ Claims /\ [Next]_vars => Claims'
<1> SUFFICES ASSUME TypeInv, Claims, [Next]_vars
             PROVE  Claims'
  OBVIOUS
<1> USE NoneAssumption DEF TypeInv, TypeOK, Reported, Claims, Executing,
      Statuses, Active, InProgress, Terminal, Steps, table, procs, tasks, locks, env
<1>1. ASSUME NEW r \in Clients, NEW i \in Instances, NEW c \in Configs, Submit(r, i, c)
      PROVE  Claims'
  BY <1>1 DEF Submit, Room
<1>2. ASSUME NEW r \in Clients, NEW i \in Instances, NEW c \in Configs, SyncRequest(r, i, c)
      PROVE  Claims'
  BY <1>2 DEF SyncRequest
<1>3. ASSUME NEW r \in Clients, NEW i \in Instances, NEW j \in Jobs, Retry(r, i, j)
      PROVE  Claims'
  BY <1>3 DEF Retry, Submit
<1>4. ASSUME NEW r \in Clients, NEW j \in Jobs, Insert(r, j)
      PROVE  Claims'
  BY <1>4 DEF Insert, Unused, Goto
<1>5. ASSUME NEW i \in Instances, NEW j \in Jobs, Cancel(i, j)
      PROVE  Claims'
  BY <1>5 DEF Cancel
<1>6. ASSUME NEW r \in Clients, SyncThreadLock(r)
      PROVE  Claims'
  BY <1>6 DEF SyncThreadLock
<1>7. ASSUME NEW r \in Clients, SyncFileLock(r)
      PROVE  Claims'
  BY <1>7 DEF SyncFileLock
<1>8. ASSUME NEW r \in Clients, SyncFinish(r)
      PROVE  Claims'
  BY <1>8 DEF SyncFinish, Release
<1>9. ASSUME NEW r \in Clients, SyncRaiseInLockDir(r)
      PROVE  Claims'
  BY <1>9 DEF SyncRaiseInLockDir
<1>10. ASSUME NEW i \in Instances, NEW j \in Jobs, Claim(i, j)
      PROVE  Claims'
  <2>1. wid[i] \in WorkerIds
    BY <1>10, WorkerKnown DEF Claim
  <2>2. CASE status[j] = "queued"
    <3>1. status' = [status EXCEPT ![j] = "running"] /\ owner' = [owner EXCEPT ![j] = wid[i]]
      BY <1>10, <2>2 DEF Claim
    <3>2. owner'[j] # None
      BY <2>1, <3>1
    <3>3. \A k \in Jobs \ {j} : status'[k] = status[k] /\ owner'[k] = owner[k]
      BY <3>1
    <3>4. \A k \in Jobs, a \in Instances : pc'[a][k] \in Executing => pc[a][k] \in Executing
      BY <1>10 DEF Claim, Goto
    <3> QED
      BY <1>10, <3>1, <3>2, <3>3, <3>4 DEF Claim
  <2>3. CASE status[j] # "queued"
    BY <1>10, <2>3 DEF Claim, Goto
  <2> QED
    BY <2>2, <2>3
<1>11. ASSUME NEW i \in Instances, NEW j \in Jobs, Proceed(i, j)
      PROVE  Claims'
  BY <1>11 DEF Proceed, Goto
<1>12. ASSUME NEW i \in Instances, NEW j \in Jobs, Skip(i, j)
      PROVE  Claims'
  BY <1>12 DEF Skip, Return, Goto
<1>13. ASSUME NEW i \in Instances, NEW j \in Jobs, TakeThreadLock(i, j)
      PROVE  Claims'
  <2>1. CASE Goto(i, j, "flock")
    BY <1>13, <2>1 DEF TakeThreadLock, Goto
  <2>2. CASE Refused(i, j)
    BY <1>13, <2>2 DEF TakeThreadLock, Refused, Goto
  <2> QED
    BY <1>13, <2>1, <2>2 DEF TakeThreadLock
<1>14. ASSUME NEW i \in Instances, NEW j \in Jobs, TakeFileLock(i, j)
      PROVE  Claims'
  <2>1. CASE Goto(i, j, "stage")
    BY <1>14, <2>1 DEF TakeFileLock, Goto
  <2>2. CASE Refused(i, j)
    BY <1>14, <2>2 DEF TakeFileLock, Refused, Goto
  <2> QED
    BY <1>14, <2>1, <2>2 DEF TakeFileLock
<1>15. ASSUME NEW i \in Instances, NEW j \in Jobs, FinishStages(i, j)
      PROVE  Claims'
  BY <1>15 DEF FinishStages, Goto, Release
<1>16. ASSUME NEW i \in Instances, NEW j \in Jobs, RecordRun(i, j)
      PROVE  Claims'
  BY <1>16 DEF RecordRun, Goto
<1>17. ASSUME NEW i \in Instances, NEW j \in Jobs, Reread(i, j)
      PROVE  Claims'
  BY <1>17 DEF Reread, Goto
<1>18. ASSUME NEW i \in Instances, NEW j \in Jobs, Finish(i, j)
      PROVE  Claims'
  <2>1. /\ owner' = owner /\ runs' = runs
        /\ \A k \in Jobs, a \in Instances : pc'[a][k] \in Executing => pc[a][k] \in Executing
    BY <1>18 DEF Finish, Goto
  <2>2. owner[j] # None
    BY <1>18 DEF Finish
  <2>3. \A k \in Jobs : status'[k] = status[k] \/ (k = j /\ status'[k] \in Terminal)
    BY <1>18 DEF Finish, Close
  <2> QED
    BY <2>1, <2>2, <2>3
<1>19. ASSUME NEW i \in Instances, NEW j \in Jobs, AuditOutcome(i, j)
      PROVE  Claims'
  BY <1>19 DEF AuditOutcome, Return, Goto
<1>20. ASSUME NEW i \in Instances, NEW j \in Jobs, FailJob(i, j)
      PROVE  Claims'
  BY <1>20 DEF FailJob, Goto, Close
<1>21. ASSUME NEW i \in Instances, NEW j \in Jobs, AuditFailure(i, j)
      PROVE  Claims'
  BY <1>21 DEF AuditFailure, Return, Goto
<1>22. ASSUME NEW i \in Instances, NEW j \in Jobs, Poll(i, j)
      PROVE  Claims'
  BY <1>22 DEF Poll
<1>23. ASSUME NEW i \in Instances, NEW j \in Jobs, Raise(i, j)
      PROVE  Claims'
  BY <1>23 DEF Raise, Goto, Release
<1>24. ASSUME NEW i \in Instances, NEW j \in Jobs, RaiseInLockDir(i, j)
      PROVE  Claims'
  BY <1>24 DEF RaiseInLockDir, Goto
<1>25. ASSUME NEW i \in Instances, NEW j \in Jobs, RaiseInHandler(i, j)
      PROVE  Claims'
  BY <1>25 DEF RaiseInHandler, Return, Goto
<1>26. ASSUME NEW i \in Instances, Start(i)
      PROVE  Claims'
  BY <1>26 DEF Start
<1>27. ASSUME NEW i \in Instances, SelectOrphans(i)
      PROVE  Claims'
  BY <1>27 DEF SelectOrphans, Orphaned
<1>28. ASSUME NEW i \in Instances, FailOrphans(i)
      PROVE  Claims'
  BY <1>28 DEF FailOrphans
<1>29. ASSUME NEW i \in Instances, Resubmit(i)
      PROVE  Claims'
  BY <1>29 DEF Resubmit
<1>30. ASSUME NEW i \in Instances, RaiseInRecovery(i)
      PROVE  Claims'
  BY <1>30 DEF RaiseInRecovery
<1>31. ASSUME NEW i \in Instances, Shutdown(i)
      PROVE  Claims'
  BY <1>31 DEF Shutdown
<1>32. ASSUME NEW i \in Instances, Exit(i)
      PROVE  Claims'
  BY <1>32 DEF Exit, Vanish
<1>33. ASSUME NEW i \in Instances, Crash(i)
      PROVE  Claims'
  BY <1>33 DEF Crash, Vanish
<1>34. ASSUME NEW i \in Instances, NEW j \in Jobs, AuditOrphan(i, j)
      PROVE  Claims'
  BY <1>34 DEF AuditOrphan
<1>35. ASSUME NEW j \in Jobs, HeartbeatExpires(j)
      PROVE  Claims'
  BY <1>35 DEF HeartbeatExpires
<1>36. CASE UNCHANGED vars
  BY <1>36 DEF vars
<1> QED
  BY <1>1, <1>2, <1>3, <1>4, <1>5, <1>6, <1>7, <1>8, <1>9, <1>10, <1>11, <1>12,
     <1>13, <1>14, <1>15, <1>16, <1>17, <1>18, <1>19, <1>20, <1>21, <1>22, <1>23, <1>24,
     <1>25, <1>26, <1>27, <1>28, <1>29, <1>30, <1>31, <1>32, <1>33, <1>34, <1>35, <1>36
     DEF Next, RequestStep, TaskStep, RecoveryStep, Fault

LEMMA ClaimInvariance == Spec => [](TypeInv /\ Claims)
<1>1. Init => Claims
  BY DEF Init, Claims, InProgress, Executing
<1> QED
  BY <1>1, TypeInvariance, ClaimStep, PTL DEF Spec

\* A job cancelled while it was queued is executed by no process, whatever races
\* the cancellation (request_pipeline_job_cancel, claim_pipeline_job).
THEOREM CancelledStaysUntouched == Spec => []CancelledInQueueNeverRuns
<1>1. Claims => CancelledInQueueNeverRuns
  BY DEF Claims, CancelledInQueueNeverRuns
<1> QED
  BY <1>1, ClaimInvariance, PTL

\* worker_id never changes hands (claim_pipeline_job).
THEOREM OwnerIsFinal == Spec => ClaimedOnce
<1>1. TypeInv /\ Claims /\ [Next]_vars => [\A j \in Jobs : owner[j] # None => owner'[j] = owner[j]]_vars
  <2> SUFFICES ASSUME TypeInv, Claims, Next, NEW j \in Jobs, owner[j] # None
               PROVE  owner'[j] = owner[j]
    OBVIOUS
  <2>1. ASSUME NEW i \in Instances, NEW k \in Jobs, Claim(i, k)
        PROVE  owner'[j] = owner[j]
    BY <2>1 DEF Claim, Claims, TypeInv, TypeOK
  <2>2. RequestStep => UNCHANGED owner
    BY DEF RequestStep, Submit, Retry, Insert, Cancel, SyncRequest, SyncThreadLock,
       SyncFileLock, SyncFinish, SyncRaiseInLockDir, table
  <2>3. ASSUME NEW i \in Instances, NEW k \in Jobs, TaskStep(i, k) \/ Poll(i, k)
        PROVE  Claim(i, k) \/ UNCHANGED owner
    BY <2>3 DEF TaskStep, Poll, Proceed, Skip, TakeThreadLock, TakeFileLock, FinishStages,
       RecordRun, Reread, Finish, AuditOutcome, FailJob, AuditFailure, table
  <2>4. ASSUME NEW i \in Instances
        PROVE  Start(i) \/ RecoveryStep(i) \/ Shutdown(i) \/ Exit(i) \/ Crash(i) \/ Fault(i)
                 => UNCHANGED owner
    BY DEF Start, RecoveryStep, SelectOrphans, FailOrphans, Resubmit, AuditOrphan, Shutdown,
       Exit, Crash, Fault, Raise, RaiseInLockDir, RaiseInHandler, RaiseInRecovery, table
  <2> QED
    BY <2>1, <2>2, <2>3, <2>4 DEF Next, HeartbeatExpires
<1> QED
  BY <1>1, ClaimInvariance, PTL DEF Spec, ClaimedOnce

-----------------------------------------------------------------------------
(***************************************************************************)
(* One instance: nothing reopens a closed job.                             *)
(***************************************************************************)

SingleInstance == \A a, b \in Instances : a = b

\* Where a task is at work nothing is selected: recovery was done before.
LEMMA NobodySelects ==
  ASSUME SingleInstance, Served, NEW i \in Instances, NEW j \in Jobs, pc[i][j] # "idle"
  PROVE  \A k \in Instances : phase[k] # "selected"
BY DEF SingleInstance, Served

\* Between the two statements of recover_orphaned_jobs nobody else is there.
LEMMA SelectedStep ==
  ASSUME SingleInstance
  PROVE  TypeInv /\ Selected /\ [Next]_vars => Selected'
<1> SUFFICES ASSUME TypeInv, Selected, [Next]_vars
             PROVE  Selected'
  OBVIOUS
<1> USE DEF TypeInv, TypeOK, Served, Selected, SingleInstance,
      InProgress, Terminal, Phases, Steps, table, procs, tasks, locks, env
<1>1. ASSUME NEW r \in Clients, NEW i \in Instances, NEW c \in Configs, Submit(r, i, c)
      PROVE  Selected'
  BY <1>1 DEF Submit, Room
<1>2. ASSUME NEW r \in Clients, NEW i \in Instances, NEW c \in Configs, SyncRequest(r, i, c)
      PROVE  Selected'
  BY <1>2 DEF SyncRequest
<1>3. ASSUME NEW r \in Clients, NEW i \in Instances, NEW j \in Jobs, Retry(r, i, j)
      PROVE  Selected'
  BY <1>3 DEF Retry, Submit
<1>4. ASSUME NEW r \in Clients, NEW j \in Jobs, Insert(r, j)
      PROVE  Selected'
  BY <1>4 DEF Insert, Unused, Goto
<1>5. ASSUME NEW i \in Instances, NEW j \in Jobs, Cancel(i, j)
      PROVE  Selected'
  BY <1>5 DEF Cancel
<1>6. ASSUME NEW r \in Clients, SyncThreadLock(r)
      PROVE  Selected'
  BY <1>6 DEF SyncThreadLock
<1>7. ASSUME NEW r \in Clients, SyncFileLock(r)
      PROVE  Selected'
  BY <1>7 DEF SyncFileLock
<1>8. ASSUME NEW r \in Clients, SyncFinish(r)
      PROVE  Selected'
  BY <1>8 DEF SyncFinish, Release
<1>9. ASSUME NEW r \in Clients, SyncRaiseInLockDir(r)
      PROVE  Selected'
  BY <1>9 DEF SyncRaiseInLockDir
<1>10. ASSUME NEW i \in Instances, NEW j \in Jobs, Claim(i, j)
      PROVE  Selected'
  <2>1. \A k \in Instances : phase[k] # "selected"
    <3>1. pc[i][j] # "idle"
      BY <1>10 DEF Claim
    <3> HIDE DEF TypeOK, Served, SingleInstance
    <3> QED
      BY <3>1, NobodySelects
  <2>2. phase' = phase
    BY <1>10 DEF Claim
  <2> HIDE DEF TypeInv, SingleInstance
  <2> QED
    BY <2>1, <2>2
<1>11. ASSUME NEW i \in Instances, NEW j \in Jobs, Proceed(i, j)
      PROVE  Selected'
  BY <1>11 DEF Proceed, Goto
<1>12. ASSUME NEW i \in Instances, NEW j \in Jobs, Skip(i, j)
      PROVE  Selected'
  BY <1>12 DEF Skip, Return, Goto
<1>13. ASSUME NEW i \in Instances, NEW j \in Jobs, TakeThreadLock(i, j)
      PROVE  Selected'
  BY <1>13 DEF TakeThreadLock, Goto, Refused
<1>14. ASSUME NEW i \in Instances, NEW j \in Jobs, TakeFileLock(i, j)
      PROVE  Selected'
  BY <1>14 DEF TakeFileLock, Goto, Refused
<1>15. ASSUME NEW i \in Instances, NEW j \in Jobs, FinishStages(i, j)
      PROVE  Selected'
  BY <1>15 DEF FinishStages, Goto, Release
<1>16. ASSUME NEW i \in Instances, NEW j \in Jobs, RecordRun(i, j)
      PROVE  Selected'
  BY <1>16 DEF RecordRun, Goto
<1>17. ASSUME NEW i \in Instances, NEW j \in Jobs, Reread(i, j)
      PROVE  Selected'
  BY <1>17 DEF Reread, Goto
<1>18. ASSUME NEW i \in Instances, NEW j \in Jobs, Finish(i, j)
      PROVE  Selected'
  <2>1. \A k \in Instances : phase[k] # "selected"
    <3>1. pc[i][j] # "idle"
      BY <1>18 DEF Finish
    <3> HIDE DEF TypeOK, Served, SingleInstance
    <3> QED
      BY <3>1, NobodySelects
  <2>2. phase' = phase
    BY <1>18 DEF Finish
  <2> HIDE DEF TypeInv, SingleInstance
  <2> QED
    BY <2>1, <2>2
<1>19. ASSUME NEW i \in Instances, NEW j \in Jobs, AuditOutcome(i, j)
      PROVE  Selected'
  BY <1>19 DEF AuditOutcome, Return, Goto
<1>20. ASSUME NEW i \in Instances, NEW j \in Jobs, FailJob(i, j)
      PROVE  Selected'
  <2>1. \A k \in Instances : phase[k] # "selected"
    <3>1. pc[i][j] # "idle"
      BY <1>20 DEF FailJob
    <3> HIDE DEF TypeOK, Served, SingleInstance
    <3> QED
      BY <3>1, NobodySelects
  <2>2. phase' = phase
    BY <1>20 DEF FailJob
  <2> HIDE DEF TypeInv, SingleInstance
  <2> QED
    BY <2>1, <2>2
<1>21. ASSUME NEW i \in Instances, NEW j \in Jobs, AuditFailure(i, j)
      PROVE  Selected'
  BY <1>21 DEF AuditFailure, Return, Goto
<1>22. ASSUME NEW i \in Instances, NEW j \in Jobs, Poll(i, j)
      PROVE  Selected'
  BY <1>22 DEF Poll
<1>23. ASSUME NEW i \in Instances, NEW j \in Jobs, Raise(i, j)
      PROVE  Selected'
  BY <1>23 DEF Raise, Goto, Release
<1>24. ASSUME NEW i \in Instances, NEW j \in Jobs, RaiseInLockDir(i, j)
      PROVE  Selected'
  BY <1>24 DEF RaiseInLockDir, Goto
<1>25. ASSUME NEW i \in Instances, NEW j \in Jobs, RaiseInHandler(i, j)
      PROVE  Selected'
  BY <1>25 DEF RaiseInHandler, Return, Goto
<1>26. ASSUME NEW i \in Instances, Start(i)
      PROVE  Selected'
  BY <1>26 DEF Start
<1>27. ASSUME NEW i \in Instances, SelectOrphans(i)
      PROVE  Selected'
  BY <1>27 DEF SelectOrphans, Orphaned
<1>28. ASSUME NEW i \in Instances, FailOrphans(i)
      PROVE  Selected'
  BY <1>28 DEF FailOrphans
<1>29. ASSUME NEW i \in Instances, Resubmit(i)
      PROVE  Selected'
  BY <1>29 DEF Resubmit
<1>30. ASSUME NEW i \in Instances, RaiseInRecovery(i)
      PROVE  Selected'
  BY <1>30 DEF RaiseInRecovery
<1>31. ASSUME NEW i \in Instances, Shutdown(i)
      PROVE  Selected'
  BY <1>31 DEF Shutdown
<1>32. ASSUME NEW i \in Instances, Exit(i)
      PROVE  Selected'
  BY <1>32 DEF Exit, Vanish
<1>33. ASSUME NEW i \in Instances, Crash(i)
      PROVE  Selected'
  BY <1>33 DEF Crash, Vanish
<1>34. ASSUME NEW i \in Instances, NEW j \in Jobs, AuditOrphan(i, j)
      PROVE  Selected'
  BY <1>34 DEF AuditOrphan
<1>35. ASSUME NEW j \in Jobs, HeartbeatExpires(j)
      PROVE  Selected'
  BY <1>35 DEF HeartbeatExpires
<1>36. CASE UNCHANGED vars
  BY <1>36 DEF vars
<1> QED
  BY <1>1, <1>2, <1>3, <1>4, <1>5, <1>6, <1>7, <1>8, <1>9, <1>10, <1>11, <1>12,
     <1>13, <1>14, <1>15, <1>16, <1>17, <1>18, <1>19, <1>20, <1>21, <1>22, <1>23, <1>24,
     <1>25, <1>26, <1>27, <1>28, <1>29, <1>30, <1>31, <1>32, <1>33, <1>34, <1>35, <1>36
     DEF Next, RequestStep, TaskStep, RecoveryStep, Fault

LEMMA SelectedInvariance ==
  ASSUME SingleInstance
  PROVE  Spec => [](TypeInv /\ Selected)
<1>1. Init => Selected
  BY DEF Init, Selected
<1> QED
  BY <1>1, TypeInvariance, SelectedStep, PTL DEF Spec

\* The guards of the updates hold back tasks and requests, and recovery, which has none,
\* selects and updates before either exist.
LEMMA ClosedStays ==
  ASSUME TypeInv, Selected, Next, NEW c \in Jobs, status[c] \in Terminal
  PROVE  status'[c] = status[c]
<1>1. RequestStep => status'[c] = status[c]
  BY DEF RequestStep, Submit, Retry, Insert, Cancel, SyncRequest, SyncThreadLock,
     SyncFileLock, SyncFinish, SyncRaiseInLockDir, table, TypeInv, TypeOK, Terminal, Unused
<1>2. ASSUME NEW i \in Instances, NEW j \in Jobs, TaskStep(i, j) \/ Poll(i, j)
      PROVE  status'[c] = status[c]
  <2>1. CASE Claim(i, j)
    BY <2>1 DEF Claim, TypeInv, TypeOK, Terminal
  <2>2. CASE Finish(i, j) \/ FailJob(i, j)
    BY <2>2 DEF Finish, FailJob, Close, TypeInv, TypeOK
  <2>3. CASE ~Claim(i, j) /\ ~Finish(i, j) /\ ~FailJob(i, j)
    BY <1>2, <2>3 DEF TaskStep, Poll, Proceed, Skip, TakeThreadLock, TakeFileLock,
       FinishStages, RecordRun, Reread, AuditOutcome, AuditFailure, table
  <2> QED
    BY <2>1, <2>2, <2>3
<1>3. ASSUME NEW i \in Instances, FailOrphans(i)
      PROVE  status'[c] = status[c]
  BY <1>3 DEF FailOrphans, Selected, InProgress, Terminal
<1>4. ASSUME NEW i \in Instances
      PROVE  Start(i) \/ Shutdown(i) \/ Exit(i) \/ Crash(i) \/ Fault(i)
               \/ (RecoveryStep(i) /\ ~FailOrphans(i)) => UNCHANGED status
  BY DEF Start, RecoveryStep, SelectOrphans, Resubmit, AuditOrphan, Shutdown,
     Exit, Crash, Fault, Raise, RaiseInLockDir, RaiseInHandler, RaiseInRecovery, table
<1> QED
  BY <1>1, <1>2, <1>3, <1>4 DEF Next, HeartbeatExpires

\* With one instance nothing reopens a closed job (TERMINAL_JOB_STATUSES).
THEOREM ClosedIsFinal ==
  ASSUME SingleInstance
  PROVE  Spec => TerminalIsFinal
<1>1. TypeInv /\ Selected /\ [Next]_vars =>
        [\A j \in Jobs : status[j] \in Terminal => status'[j] = status[j]]_vars
  BY ClosedStays
<1> QED
  BY <1>1, SelectedInvariance, PTL DEF Spec, TerminalIsFinal

-----------------------------------------------------------------------------
(***************************************************************************)
(* One instance: an accepted cancellation decides the verdict.             *)
(***************************************************************************)

\* The request is on the row, or the row is closed by it or as failed, and no task is
\* about to store another verdict.
Honoured(j) ==
  /\ status[j] \in {"cancellation_requested", "cancelled", "failed"}
  /\ status[j] = "cancellation_requested" =>
       \A i \in Instances : pc[i][j] = "finish" => report[i][j] # "completed"

\* Nothing but the verdicts that are left takes the request from the row.
LEMMA HonouredStatus ==
  ASSUME TypeInv, NEW j \in Jobs, Honoured(j), [Next]_vars
  PROVE  /\ status'[j] \in {"cancellation_requested", "cancelled", "failed"}
         /\ status'[j] = "cancellation_requested" => status[j] = "cancellation_requested"
<1> DEFINE Kept == /\ status'[j] \in {"cancellation_requested", "cancelled", "failed"}
                   /\ status'[j] = "cancellation_requested" => status[j] = "cancellation_requested"
<1>1. status'[j] = status[j] => Kept
  BY DEF Honoured
<1>2. RequestStep => status'[j] = status[j]
  BY DEF RequestStep, Submit, Retry, Insert, Cancel, SyncRequest, SyncThreadLock,
     SyncFileLock, SyncFinish, SyncRaiseInLockDir, table, TypeInv, TypeOK, Unused, Honoured
<1>3. ASSUME NEW i \in Instances, NEW k \in Jobs, TaskStep(i, k) \/ Poll(i, k)
      PROVE  Kept
  <2>1. CASE Claim(i, k)
    BY <1>1, <2>1 DEF Claim, TypeInv, TypeOK, Honoured
  <2>2. CASE Finish(i, k)
    <3>1. CASE k # j \/ status[j] \in Terminal
      BY <1>1, <2>2, <3>1 DEF Finish, Close, TypeInv, TypeOK
    <3>2. CASE k = j /\ status[j] \notin Terminal
      <4>1. report[i][j] \in {"cancelled", "failed"}
        BY <2>2, <3>2 DEF Finish, Honoured, TypeInv, Reported, Terminal
      <4>2. status'[j] = report[i][j]
        BY <2>2, <3>2 DEF Finish, Close, TypeInv, TypeOK
      <4> QED
        BY <4>1, <4>2
    <3> QED
      BY <3>1, <3>2
  <2>3. CASE FailJob(i, k)
    BY <1>1, <2>3 DEF FailJob, Close, TypeInv, TypeOK
  <2>4. CASE ~Claim(i, k) /\ ~Finish(i, k) /\ ~FailJob(i, k)
    BY <1>1, <1>3, <2>4 DEF TaskStep, Poll, Proceed, Skip, TakeThreadLock, TakeFileLock,
       FinishStages, RecordRun, Reread, AuditOutcome, AuditFailure, table
  <2> QED
    BY <2>1, <2>2, <2>3, <2>4
<1>4. ASSUME NEW i \in Instances, FailOrphans(i)
      PROVE  Kept
  BY <1>1, <1>4 DEF FailOrphans
<1>5. ASSUME NEW i \in Instances
      PROVE  Start(i) \/ Shutdown(i) \/ Exit(i) \/ Crash(i) \/ Fault(i)
               \/ (RecoveryStep(i) /\ ~FailOrphans(i)) => UNCHANGED status
  BY DEF Start, RecoveryStep, SelectOrphans, Resubmit, AuditOrphan, Shutdown,
     Exit, Crash, Fault, Raise, RaiseInLockDir, RaiseInHandler, RaiseInRecovery, table
<1>6. UNCHANGED vars => UNCHANGED status
  BY DEF vars, table
<1> HIDE DEF Kept
<1>7. Kept
  BY <1>1, <1>2, <1>3, <1>4, <1>5, <1>6 DEF Next, HeartbeatExpires
<1> QED
  BY <1>7 DEF Kept

\* A task comes to its verdict by reading the row, and keeps it.
LEMMA VerdictRead ==
  ASSUME TypeInv, NEW j \in Jobs, NEW i \in Instances, [Next]_vars, pc'[i][j] = "finish"
  PROVE  \/ Reread(i, j)
         \/ pc[i][j] = "finish" /\ report'[i][j] = report[i][j]
<1> DEFINE Kept == Reread(i, j) \/ (pc[i][j] = "finish" /\ report'[i][j] = report[i][j])
<1>1. /\ pc \in [Instances -> [Jobs -> Steps]]
      /\ report \in [Instances -> [Jobs -> Terminal \cup {None}]]
  BY DEF TypeInv, TypeOK
<1>2. ASSUME NEW a \in Instances, NEW k \in Jobs, NEW step, Goto(a, k, step)
      PROVE  pc'[i][j] = IF a = i /\ k = j THEN step ELSE pc[i][j]
  BY <1>1, <1>2 DEF Goto
<1>3. ASSUME NEW a \in Instances, NEW k \in Jobs, NEW verdict,
             report' = [report EXCEPT ![a][k] = verdict]
      PROVE  report'[i][j] = IF a = i /\ k = j THEN verdict ELSE report[i][j]
  BY <1>1, <1>3
<1>4. UNCHANGED pc /\ UNCHANGED report => Kept
  OBVIOUS
<1>5. ASSUME NEW a \in Instances, NEW k \in Jobs, NEW step, Goto(a, k, step), step # "finish",
             report'[i][j] = report[i][j] \/ (a = i /\ k = j)
      PROVE  Kept
  BY <1>2, <1>5
<1>6. ASSUME NEW a \in Instances, NEW k \in Jobs, Return(a, k)
      PROVE  Kept
  BY <1>3, <1>5, <1>6 DEF Return
<1>7. ASSUME NEW a \in Instances, NEW k \in Jobs, NEW verdict, NEW step, step # "finish",
             Goto(a, k, step), report' = [report EXCEPT ![a][k] = verdict]
      PROVE  Kept
  BY <1>3, <1>5, <1>7
<1>8. ASSUME NEW a \in Instances, NEW k \in Jobs, TaskStep(a, k) \/ Poll(a, k)
      PROVE  Kept
  <2>1. CASE Reread(a, k)
    <3>1. CASE a = i /\ k = j
      BY <2>1, <3>1
    <3>2. CASE ~(a = i /\ k = j)
      <4>1. pc'[i][j] = pc[i][j]
        BY <1>2, <2>1, <3>2 DEF Reread
      <4>2. report'[i][j] = report[i][j]
        BY <1>1, <2>1, <3>2 DEF Reread
      <4> QED
        BY <4>1, <4>2
    <3> QED
      BY <3>1, <3>2
  <2> HIDE DEF Kept
  <2>2. CASE Claim(a, k) \/ Proceed(a, k) \/ RecordRun(a, k) \/ Finish(a, k) \/ FailJob(a, k)
    <3>1. UNCHANGED report /\ \E step \in {"claimed", "start", "reread", "audit", "failaudit"} : Goto(a, k, step)
      BY <2>2 DEF Claim, Proceed, RecordRun, Finish, FailJob
    <3> QED
      BY <1>5, <3>1
  <2>3. CASE Skip(a, k) \/ AuditOutcome(a, k) \/ AuditFailure(a, k)
    BY <1>6, <2>3 DEF Skip, AuditOutcome, AuditFailure
  <2>4. CASE TakeThreadLock(a, k)
    BY <1>5, <1>7, <2>4 DEF TakeThreadLock, Refused
  <2>5. CASE TakeFileLock(a, k)
    BY <1>5, <1>7, <2>5 DEF TakeFileLock, Refused
  <2>6. CASE FinishStages(a, k)
    BY <1>7, <2>6 DEF FinishStages
  <2>7. CASE Poll(a, k)
    BY <1>4, <2>7 DEF Poll
  <2> QED
    BY <1>8, <2>1, <2>2, <2>3, <2>4, <2>5, <2>6, <2>7 DEF TaskStep
<1>9. ASSUME NEW a \in Instances, Fault(a)
      PROVE  Kept
  <2>1. ASSUME NEW k \in Jobs, Raise(a, k) \/ RaiseInLockDir(a, k)
        PROVE  Kept
    BY <1>5, <2>1 DEF Raise, RaiseInLockDir
  <2>2. ASSUME NEW k \in Jobs, RaiseInHandler(a, k)
        PROVE  Kept
    BY <1>6, <2>2 DEF RaiseInHandler
  <2>3. CASE RaiseInRecovery(a)
    BY <1>4, <2>3 DEF RaiseInRecovery, tasks
  <2> QED
    BY <1>9, <2>1, <2>2, <2>3 DEF Fault
<1>10. ASSUME NEW a \in Instances, RecoveryStep(a) \/ Start(a)
       PROVE  Kept
  <2>1. CASE Resubmit(a)
    <3>1. pc' = [pc EXCEPT ![a] = [k \in Jobs |-> IF status[k] = "queued" THEN "pending" ELSE "idle"]]
      BY <2>1 DEF Resubmit
    <3>2. pc'[i][j] = pc[i][j]
      BY <1>1, <3>1
    <3> QED
      BY <2>1, <3>2 DEF Resubmit
  <2>2. CASE ~Resubmit(a)
    BY <1>4, <1>10, <2>2 DEF Start, RecoveryStep, SelectOrphans, FailOrphans, AuditOrphan, tasks
  <2> QED
    BY <2>1, <2>2
<1>11. ASSUME NEW a \in Instances, Shutdown(a)
       PROVE  Kept
  <2>1. pc' = [pc EXCEPT ![a] = [k \in Jobs |-> IF pc[a][k] = "pending" THEN "idle" ELSE pc[a][k]]]
    BY <1>11 DEF Shutdown
  <2>2. pc'[i][j] = pc[i][j]
    BY <1>1, <2>1
  <2> QED
    BY <1>11, <2>2 DEF Shutdown
<1>12. ASSUME NEW a \in Instances, Vanish(a)
       PROVE  Kept
  <2>1. /\ pc' = [pc EXCEPT ![a] = [k \in Jobs |-> "idle"]]
        /\ report' = [report EXCEPT ![a] = [k \in Jobs |-> None]]
    BY <1>12 DEF Vanish
  <2>2. a # i
    BY <1>1, <2>1
  <2> QED
    BY <1>1, <2>1, <2>2
<1> HIDE DEF Kept
<1>13. RequestStep => Kept
  <2>1. ASSUME NEW r \in Clients, NEW k \in Jobs, Insert(r, k)
        PROVE  Kept
    <3>1. req[r].at \in Instances
      BY <2>1 DEF Insert, TypeInv, Served
    <3> QED
      BY <1>5, <2>1, <3>1 DEF Insert
  <2>2. ASSUME RequestStep
        PROVE  (\E r \in Clients, k \in Jobs : Insert(r, k)) \/ (UNCHANGED pc /\ UNCHANGED report)
    BY <2>2 DEF RequestStep, Submit, Retry, Cancel, SyncRequest, SyncThreadLock, SyncFileLock,
       SyncFinish, SyncRaiseInLockDir, tasks
  <2> QED
    BY <1>4, <2>1, <2>2
<1>14. ASSUME NEW k \in Jobs, HeartbeatExpires(k)
       PROVE  Kept
  BY <1>4, <1>14 DEF HeartbeatExpires, tasks
<1>15. UNCHANGED vars => Kept
  BY <1>4 DEF vars, tasks
<1>16. Kept
  BY <1>8, <1>9, <1>10, <1>11, <1>12, <1>13, <1>14, <1>15 DEF Next, Exit, Crash
<1> QED
  BY <1>16 DEF Kept

LEMMA HonouredStep ==
  ASSUME NEW j \in Jobs
  PROVE  TypeInv /\ Honoured(j) /\ [Next]_vars => Honoured(j)'
<1> SUFFICES ASSUME TypeInv, Honoured(j), [Next]_vars
             PROVE  Honoured(j)'
  OBVIOUS
<1>1. ASSUME status'[j] = "cancellation_requested", NEW i \in Instances, pc'[i][j] = "finish"
      PROVE  report'[i][j] # "completed"
  <2>1. status[j] = "cancellation_requested"
    BY <1>1, HonouredStatus
  <2>2. CASE Reread(i, j)
    BY <2>1, <2>2 DEF Reread, TypeInv, TypeOK
  <2>3. CASE pc[i][j] = "finish" /\ report'[i][j] = report[i][j]
    BY <2>1, <2>3 DEF Honoured
  <2> QED
    BY <1>1, <2>2, <2>3, VerdictRead
<1> QED
  BY <1>1, HonouredStatus DEF Honoured

\* With one instance a cancellation that _run_pipeline_job can still read when it looks at
\* the row a second time is honoured: the job never ends as completed.
THEOREM CancellationsHonoured ==
  ASSUME SingleInstance
  PROVE  Spec => CancelIsHonoured
<1> SUFFICES ASSUME NEW i \in Instances, NEW j \in Jobs
             PROVE  Spec => [](pc[i][j] \in {"start", "flock", "stage", "record", "reread"}
                                 /\ status[j] = "cancellation_requested"
                               => [](status[j] # "completed"))
  BY DEF CancelIsHonoured
<1>1. pc[i][j] \in {"start", "flock", "stage", "record", "reread"}
        /\ status[j] = "cancellation_requested" => Honoured(j)
  BY DEF Honoured, SingleInstance
<1>2. Honoured(j) => status[j] # "completed"
  BY DEF Honoured
<1>3. TypeInv /\ Honoured(j) /\ [Next]_vars => Honoured(j)'
  BY HonouredStep
<1> QED
  BY <1>1, <1>2, <1>3, TypeInvariance, PTL DEF Spec

-----------------------------------------------------------------------------
(***************************************************************************)
(* One request at a time: one active job per configuration.                *)
(***************************************************************************)

SingleClient == \A a, b \in Clients : a = b

\* Only an insert makes a job active, and the one request there is has checked
\* its configuration.
LEMMA CheckedStep ==
  ASSUME SingleClient
  PROVE  TypeInv /\ Checked /\ OneActivePerConfig /\ [Next]_vars => Checked' /\ OneActivePerConfig'
<1> SUFFICES ASSUME TypeInv, Checked, OneActivePerConfig, [Next]_vars
             PROVE  Checked' /\ OneActivePerConfig'
  OBVIOUS
<1> USE DEF TypeInv, TypeOK, Checked, OneActivePerConfig, HasActive, SingleClient,
      Active, InProgress, Terminal, Statuses, Requests, Idle, table, procs, tasks, locks, env
<1>1. ASSUME NEW r \in Clients, NEW i \in Instances, NEW c \in Configs, Submit(r, i, c)
      PROVE  Checked' /\ OneActivePerConfig'
  BY <1>1 DEF Submit, Room
<1>2. ASSUME NEW r \in Clients, NEW i \in Instances, NEW c \in Configs, SyncRequest(r, i, c)
      PROVE  Checked' /\ OneActivePerConfig'
  BY <1>2 DEF SyncRequest
<1>3. ASSUME NEW r \in Clients, NEW i \in Instances, NEW j \in Jobs, Retry(r, i, j)
      PROVE  Checked' /\ OneActivePerConfig'
  BY <1>3 DEF Retry, Submit
<1>4. ASSUME NEW r \in Clients, NEW j \in Jobs, Insert(r, j)
      PROVE  Checked' /\ OneActivePerConfig'
  BY <1>4 DEF Insert, Unused, Goto
<1>5. ASSUME NEW i \in Instances, NEW j \in Jobs, Cancel(i, j)
      PROVE  Checked' /\ OneActivePerConfig'
  BY <1>5 DEF Cancel
<1>6. ASSUME NEW r \in Clients, SyncThreadLock(r)
      PROVE  Checked' /\ OneActivePerConfig'
  BY <1>6 DEF SyncThreadLock
<1>7. ASSUME NEW r \in Clients, SyncFileLock(r)
      PROVE  Checked' /\ OneActivePerConfig'
  BY <1>7 DEF SyncFileLock
<1>8. ASSUME NEW r \in Clients, SyncFinish(r)
      PROVE  Checked' /\ OneActivePerConfig'
  BY <1>8 DEF SyncFinish, Release
<1>9. ASSUME NEW r \in Clients, SyncRaiseInLockDir(r)
      PROVE  Checked' /\ OneActivePerConfig'
  BY <1>9 DEF SyncRaiseInLockDir
<1>10. ASSUME NEW i \in Instances, NEW j \in Jobs, Claim(i, j)
      PROVE  Checked' /\ OneActivePerConfig'
  <2>1. \A k \in Jobs : status'[k] \in Active => status[k] \in Active
    BY <1>10 DEF Claim
  <2> QED
    BY <1>10, <2>1 DEF Claim
<1>11. ASSUME NEW i \in Instances, NEW j \in Jobs, Proceed(i, j)
      PROVE  Checked' /\ OneActivePerConfig'
  BY <1>11 DEF Proceed, Goto
<1>12. ASSUME NEW i \in Instances, NEW j \in Jobs, Skip(i, j)
      PROVE  Checked' /\ OneActivePerConfig'
  BY <1>12 DEF Skip, Return, Goto
<1>13. ASSUME NEW i \in Instances, NEW j \in Jobs, TakeThreadLock(i, j)
      PROVE  Checked' /\ OneActivePerConfig'
  BY <1>13 DEF TakeThreadLock, Goto, Refused
<1>14. ASSUME NEW i \in Instances, NEW j \in Jobs, TakeFileLock(i, j)
      PROVE  Checked' /\ OneActivePerConfig'
  BY <1>14 DEF TakeFileLock, Goto, Refused
<1>15. ASSUME NEW i \in Instances, NEW j \in Jobs, FinishStages(i, j)
      PROVE  Checked' /\ OneActivePerConfig'
  BY <1>15 DEF FinishStages, Goto, Release
<1>16. ASSUME NEW i \in Instances, NEW j \in Jobs, RecordRun(i, j)
      PROVE  Checked' /\ OneActivePerConfig'
  BY <1>16 DEF RecordRun, Goto
<1>17. ASSUME NEW i \in Instances, NEW j \in Jobs, Reread(i, j)
      PROVE  Checked' /\ OneActivePerConfig'
  BY <1>17 DEF Reread, Goto
<1>18. ASSUME NEW i \in Instances, NEW j \in Jobs, Finish(i, j)
      PROVE  Checked' /\ OneActivePerConfig'
  <2>1. report[i][j] \in Terminal
    BY <1>18 DEF Finish, Reported
  <2>2. \A k \in Jobs : status'[k] \in Active => status[k] \in Active
    BY <1>18, <2>1 DEF Finish, Close
  <2> QED
    BY <1>18, <2>2 DEF Finish
<1>19. ASSUME NEW i \in Instances, NEW j \in Jobs, AuditOutcome(i, j)
      PROVE  Checked' /\ OneActivePerConfig'
  BY <1>19 DEF AuditOutcome, Return, Goto
<1>20. ASSUME NEW i \in Instances, NEW j \in Jobs, FailJob(i, j)
      PROVE  Checked' /\ OneActivePerConfig'
  BY <1>20 DEF FailJob, Goto, Close
<1>21. ASSUME NEW i \in Instances, NEW j \in Jobs, AuditFailure(i, j)
      PROVE  Checked' /\ OneActivePerConfig'
  BY <1>21 DEF AuditFailure, Return, Goto
<1>22. ASSUME NEW i \in Instances, NEW j \in Jobs, Poll(i, j)
      PROVE  Checked' /\ OneActivePerConfig'
  BY <1>22 DEF Poll
<1>23. ASSUME NEW i \in Instances, NEW j \in Jobs, Raise(i, j)
      PROVE  Checked' /\ OneActivePerConfig'
  BY <1>23 DEF Raise, Goto, Release
<1>24. ASSUME NEW i \in Instances, NEW j \in Jobs, RaiseInLockDir(i, j)
      PROVE  Checked' /\ OneActivePerConfig'
  BY <1>24 DEF RaiseInLockDir, Goto
<1>25. ASSUME NEW i \in Instances, NEW j \in Jobs, RaiseInHandler(i, j)
      PROVE  Checked' /\ OneActivePerConfig'
  BY <1>25 DEF RaiseInHandler, Return, Goto
<1>26. ASSUME NEW i \in Instances, Start(i)
      PROVE  Checked' /\ OneActivePerConfig'
  BY <1>26 DEF Start
<1>27. ASSUME NEW i \in Instances, SelectOrphans(i)
      PROVE  Checked' /\ OneActivePerConfig'
  BY <1>27 DEF SelectOrphans, Orphaned
<1>28. ASSUME NEW i \in Instances, FailOrphans(i)
      PROVE  Checked' /\ OneActivePerConfig'
  BY <1>28 DEF FailOrphans
<1>29. ASSUME NEW i \in Instances, Resubmit(i)
      PROVE  Checked' /\ OneActivePerConfig'
  BY <1>29 DEF Resubmit
<1>30. ASSUME NEW i \in Instances, RaiseInRecovery(i)
      PROVE  Checked' /\ OneActivePerConfig'
  BY <1>30 DEF RaiseInRecovery
<1>31. ASSUME NEW i \in Instances, Shutdown(i)
      PROVE  Checked' /\ OneActivePerConfig'
  BY <1>31 DEF Shutdown
<1>32. ASSUME NEW i \in Instances, Exit(i)
      PROVE  Checked' /\ OneActivePerConfig'
  BY <1>32 DEF Exit, Vanish
<1>33. ASSUME NEW i \in Instances, Crash(i)
      PROVE  Checked' /\ OneActivePerConfig'
  BY <1>33 DEF Crash, Vanish
<1>34. ASSUME NEW i \in Instances, NEW j \in Jobs, AuditOrphan(i, j)
      PROVE  Checked' /\ OneActivePerConfig'
  BY <1>34 DEF AuditOrphan
<1>35. ASSUME NEW j \in Jobs, HeartbeatExpires(j)
      PROVE  Checked' /\ OneActivePerConfig'
  BY <1>35 DEF HeartbeatExpires
<1>36. CASE UNCHANGED vars
  BY <1>36 DEF vars
<1> QED
  BY <1>1, <1>2, <1>3, <1>4, <1>5, <1>6, <1>7, <1>8, <1>9, <1>10, <1>11, <1>12,
     <1>13, <1>14, <1>15, <1>16, <1>17, <1>18, <1>19, <1>20, <1>21, <1>22, <1>23, <1>24,
     <1>25, <1>26, <1>27, <1>28, <1>29, <1>30, <1>31, <1>32, <1>33, <1>34, <1>35, <1>36
     DEF Next, RequestStep, TaskStep, RecoveryStep, Fault

\* With one request at a time a configuration has at most one job that is queued
\* or in progress, for any number of instances (_queue_pipeline_job).
THEOREM SerialRequestsOneActive ==
  ASSUME SingleClient
  PROVE  Spec => []OneActivePerConfig
<1>1. Init => Checked /\ OneActivePerConfig
  BY DEF Init, Checked, OneActivePerConfig, Idle, Active, InProgress
<1> QED
  BY <1>1, TypeInvariance, CheckedStep, PTL DEF Spec

-----------------------------------------------------------------------------
(***************************************************************************)
(* One instance: the service implements JobLifecycle.                      *)
(***************************************************************************)

\* How far the one task of a job is, against the row of the job.
Executed ==
  \A i \in Instances, j \in Jobs :
    /\ pc[i][j] = "pending" => status[j] \notin InProgress
    /\ pc[i][j] = "claimed" /\ status[j] \in InProgress => runs[j] = 0
    /\ pc[i][j] \in {"start", "flock", "stage", "record"} => status[j] \in InProgress /\ runs[j] = 0
    /\ pc[i][j] \in {"reread", "finish"} =>
         status[j] \in InProgress /\ (Persist[config[j]] => runs[j] = 1)

\* With one instance nobody but its task moves a job that is in progress to a
\* closed state or writes its run.
LEMMA ExecutedStep ==
  ASSUME SingleInstance
  PROVE  TypeInv /\ Claims /\ Executed /\ [Next]_vars => Executed'
<1> SUFFICES ASSUME TypeInv, Claims, Executed, [Next]_vars
             PROVE  Executed'
  OBVIOUS
<1> USE PersistAssumption DEF TypeInv, TypeOK, Served, Known, Executed, SingleInstance,
      InProgress, Terminal, Phases, Steps, table, procs, tasks, locks, env
<1>1. ASSUME NEW r \in Clients, NEW i \in Instances, NEW c \in Configs, Submit(r, i, c)
      PROVE  Executed'
  BY <1>1 DEF Submit, Room
<1>2. ASSUME NEW r \in Clients, NEW i \in Instances, NEW c \in Configs, SyncRequest(r, i, c)
      PROVE  Executed'
  BY <1>2 DEF SyncRequest
<1>3. ASSUME NEW r \in Clients, NEW i \in Instances, NEW j \in Jobs, Retry(r, i, j)
      PROVE  Executed'
  BY <1>3 DEF Retry, Submit
<1>4. ASSUME NEW r \in Clients, NEW j \in Jobs, Insert(r, j)
      PROVE  Executed'
  BY <1>4 DEF Insert, Unused, Goto
<1>5. ASSUME NEW i \in Instances, NEW j \in Jobs, Cancel(i, j)
      PROVE  Executed'
  BY <1>5 DEF Cancel
<1>6. ASSUME NEW r \in Clients, SyncThreadLock(r)
      PROVE  Executed'
  BY <1>6 DEF SyncThreadLock
<1>7. ASSUME NEW r \in Clients, SyncFileLock(r)
      PROVE  Executed'
  BY <1>7 DEF SyncFileLock
<1>8. ASSUME NEW r \in Clients, SyncFinish(r)
      PROVE  Executed'
  BY <1>8 DEF SyncFinish, Release
<1>9. ASSUME NEW r \in Clients, SyncRaiseInLockDir(r)
      PROVE  Executed'
  BY <1>9 DEF SyncRaiseInLockDir
<1>10. ASSUME NEW i \in Instances, NEW j \in Jobs, Claim(i, j)
      PROVE  Executed'
  <2>1. CASE status[j] = "queued"
    <3>1. runs[j] = 0
      BY <2>1, NoneAssumption DEF Claims
    <3> QED
      BY <1>10, <2>1, <3>1 DEF Claim, Goto
  <2>2. CASE status[j] # "queued"
    BY <1>10, <2>2 DEF Claim, Goto
  <2> QED
    BY <2>1, <2>2
<1>11. ASSUME NEW i \in Instances, NEW j \in Jobs, Proceed(i, j)
      PROVE  Executed'
  BY <1>11 DEF Proceed, Goto
<1>12. ASSUME NEW i \in Instances, NEW j \in Jobs, Skip(i, j)
      PROVE  Executed'
  BY <1>12 DEF Skip, Return, Goto
<1>13. ASSUME NEW i \in Instances, NEW j \in Jobs, TakeThreadLock(i, j)
      PROVE  Executed'
  BY <1>13 DEF TakeThreadLock, Goto, Refused
<1>14. ASSUME NEW i \in Instances, NEW j \in Jobs, TakeFileLock(i, j)
      PROVE  Executed'
  BY <1>14 DEF TakeFileLock, Goto, Refused
<1>15. ASSUME NEW i \in Instances, NEW j \in Jobs, FinishStages(i, j)
      PROVE  Executed'
  BY <1>15 DEF FinishStages, Goto, Release
<1>16. ASSUME NEW i \in Instances, NEW j \in Jobs, RecordRun(i, j)
      PROVE  Executed'
  BY <1>16 DEF RecordRun, Goto
<1>17. ASSUME NEW i \in Instances, NEW j \in Jobs, Reread(i, j)
      PROVE  Executed'
  BY <1>17 DEF Reread, Goto
<1>18. ASSUME NEW i \in Instances, NEW j \in Jobs, Finish(i, j)
      PROVE  Executed'
  BY <1>18 DEF Finish, Goto, Close
<1>19. ASSUME NEW i \in Instances, NEW j \in Jobs, AuditOutcome(i, j)
      PROVE  Executed'
  BY <1>19 DEF AuditOutcome, Return, Goto
<1>20. ASSUME NEW i \in Instances, NEW j \in Jobs, FailJob(i, j)
      PROVE  Executed'
  BY <1>20 DEF FailJob, Goto, Close
<1>21. ASSUME NEW i \in Instances, NEW j \in Jobs, AuditFailure(i, j)
      PROVE  Executed'
  BY <1>21 DEF AuditFailure, Return, Goto
<1>22. ASSUME NEW i \in Instances, NEW j \in Jobs, Poll(i, j)
      PROVE  Executed'
  BY <1>22 DEF Poll
<1>23. ASSUME NEW i \in Instances, NEW j \in Jobs, Raise(i, j)
      PROVE  Executed'
  BY <1>23 DEF Raise, Goto, Release
<1>24. ASSUME NEW i \in Instances, NEW j \in Jobs, RaiseInLockDir(i, j)
      PROVE  Executed'
  BY <1>24 DEF RaiseInLockDir, Goto
<1>25. ASSUME NEW i \in Instances, NEW j \in Jobs, RaiseInHandler(i, j)
      PROVE  Executed'
  BY <1>25 DEF RaiseInHandler, Return, Goto
<1>26. ASSUME NEW i \in Instances, Start(i)
      PROVE  Executed'
  BY <1>26 DEF Start
<1>27. ASSUME NEW i \in Instances, SelectOrphans(i)
      PROVE  Executed'
  BY <1>27 DEF SelectOrphans, Orphaned
<1>28. ASSUME NEW i \in Instances, FailOrphans(i)
      PROVE  Executed'
  BY <1>28 DEF FailOrphans
<1>29. ASSUME NEW i \in Instances, Resubmit(i)
      PROVE  Executed'
  BY <1>29 DEF Resubmit
<1>30. ASSUME NEW i \in Instances, RaiseInRecovery(i)
      PROVE  Executed'
  BY <1>30 DEF RaiseInRecovery
<1>31. ASSUME NEW i \in Instances, Shutdown(i)
      PROVE  Executed'
  BY <1>31 DEF Shutdown
<1>32. ASSUME NEW i \in Instances, Exit(i)
      PROVE  Executed'
  BY <1>32 DEF Exit, Vanish
<1>33. ASSUME NEW i \in Instances, Crash(i)
      PROVE  Executed'
  BY <1>33 DEF Crash, Vanish
<1>34. ASSUME NEW i \in Instances, NEW j \in Jobs, AuditOrphan(i, j)
      PROVE  Executed'
  BY <1>34 DEF AuditOrphan
<1>35. ASSUME NEW j \in Jobs, HeartbeatExpires(j)
      PROVE  Executed'
  BY <1>35 DEF HeartbeatExpires
<1>36. CASE UNCHANGED vars
  BY <1>36 DEF vars
<1> QED
  BY <1>1, <1>2, <1>3, <1>4, <1>5, <1>6, <1>7, <1>8, <1>9, <1>10, <1>11, <1>12,
     <1>13, <1>14, <1>15, <1>16, <1>17, <1>18, <1>19, <1>20, <1>21, <1>22, <1>23, <1>24,
     <1>25, <1>26, <1>27, <1>28, <1>29, <1>30, <1>31, <1>32, <1>33, <1>34, <1>35, <1>36
     DEF Next, RequestStep, TaskStep, RecoveryStep, Fault

LEMMA ExecutedInvariance ==
  ASSUME SingleInstance
  PROVE  Spec => [](TypeInv /\ Executed)
<1>1. Init => Executed
  BY DEF Init, Executed
<1> QED
  BY <1>1, ClaimInvariance, ExecutedStep, PTL DEF Spec

\* Without exceptions: a verdict is stored before it is audited, and so is recovery's.
Audited == faults = 0 =>
  /\ \A i \in Instances, j \in Jobs : /\ pc[i][j] = "audit" => status[j] = report[i][j]
                                      /\ pc[i][j] \notin {"fail", "failaudit"}
  /\ \A i \in Instances : phase[i] = "auditing" => \A j \in sel[i] : status[j] = "failed"

\* A step that takes nobody to an audit, nor changes what is about to be audited.
Unaudited ==
  /\ \A i \in Instances, j \in Jobs :
       /\ pc'[i][j] = "audit" => pc[i][j] = "audit" /\ report'[i][j] = report[i][j]
       /\ pc'[i][j] \in {"fail", "failaudit"} => pc[i][j] \in {"fail", "failaudit"}
  /\ \A i \in Instances : phase'[i] = "auditing" => phase[i] = "auditing" /\ sel'[i] \subseteq sel[i]

\* What is about to be audited is closed and so does not change any more.
LEMMA AuditedKept ==
  ASSUME TypeInv, Selected, Audited, Next, faults = 0, Unaudited
  PROVE  Audited'
<1>1. ASSUME NEW i \in Instances, NEW j \in Jobs, pc'[i][j] = "audit"
      PROVE  status'[j] = report'[i][j]
  <2>1. pc[i][j] = "audit" /\ report'[i][j] = report[i][j] /\ status[j] = report[i][j]
    BY <1>1 DEF Unaudited, Audited
  <2>2. status[j] \in Terminal
    BY <2>1 DEF TypeInv, Reported
  <2> QED
    BY <2>1, <2>2, ClosedStays
<1>2. ASSUME NEW i \in Instances, NEW j \in sel'[i], phase'[i] = "auditing"
      PROVE  status'[j] = "failed"
  <2>1. j \in Jobs /\ status[j] = "failed"
    BY <1>2 DEF Unaudited, Audited, TypeInv, TypeOK
  <2> QED
    BY <2>1, ClosedStays DEF Terminal
<1> QED
  BY <1>1, <1>2 DEF Audited, Unaudited

\* So is what has been audited.
LEMMA OutcomeKept ==
  ASSUME TypeInv, Selected, Next, faults = 0, AuditMatchesOutcome, NEW e \in audit
  PROVE  status'[e[1]] = IF e[2] = "orphaned" THEN "failed" ELSE e[2]
<1>1. e[1] \in Jobs /\ e[2] \in Terminal \cup {"orphaned"}
  BY DEF TypeInv, TypeOK
<1>2. status[e[1]] = IF e[2] = "orphaned" THEN "failed" ELSE e[2]
  BY DEF AuditMatchesOutcome
<1>3. status[e[1]] \in Terminal
  BY <1>1, <1>2 DEF Terminal
<1> QED
  BY <1>1, <1>2, <1>3, ClosedStays

\* Each step keeps what is about to be audited in step with the table.
LEMMA AuditedStep ==
  ASSUME SingleInstance, TypeInv, Selected, Executed, Audited, Next
  PROVE  Audited'
<1> SUFFICES ASSUME faults' = 0
             PROVE  Audited'
  BY DEF Audited
<1> DEFINE Calm == faults = 0 /\ Unaudited
<1>1. Calm => Audited'
  BY AuditedKept
<1>2. ASSUME NEW i \in Instances, Fault(i)
      PROVE  FALSE
  BY <1>2 DEF Fault, Raise, RaiseInLockDir, RaiseInHandler, RaiseInRecovery, TypeInv, TypeOK
<1>3. RequestStep => Calm
  <2>1. ASSUME NEW r \in Clients, NEW j \in Jobs, Insert(r, j)
        PROVE  Calm
    BY <2>1 DEF Insert, Goto, Unaudited, TypeInv, TypeOK, procs
  <2>2. CASE faults' = faults /\ UNCHANGED <<procs, tasks>>
    BY <2>2 DEF Unaudited, procs, tasks
  <2>3. ASSUME NEW r \in Clients
        PROVE  SyncThreadLock(r) \/ SyncFileLock(r) \/ SyncFinish(r) \/ SyncRaiseInLockDir(r) =>
                 faults' = faults /\ UNCHANGED <<procs, tasks>>
    BY DEF SyncThreadLock, SyncFileLock, SyncFinish, SyncRaiseInLockDir, TypeInv, TypeOK
  <2> QED
    BY <2>1, <2>2, <2>3 DEF RequestStep, Submit, Retry, Cancel, SyncRequest, env
<1>4. ASSUME NEW i \in Instances, NEW j \in Jobs, TaskStep(i, j) \/ Poll(i, j)
      PROVE  Audited'
  <2>0. faults = 0 /\ UNCHANGED procs
    BY <1>4 DEF TaskStep, Poll, Claim, Proceed, Skip, TakeThreadLock, TakeFileLock,
       FinishStages, RecordRun, Reread, Finish, AuditOutcome, FailJob, AuditFailure, env
  <2>1. CASE Finish(i, j)
    <3>1. status[j] \in InProgress /\ report[i][j] \in Terminal
      BY <2>1 DEF Finish, Executed, TypeInv, Reported
    <3>2. status' = [status EXCEPT ![j] = report[i][j]]
      BY <2>1, <3>1 DEF Finish, Close, InProgress, Terminal
    <3>3. report' = report /\ UNCHANGED procs /\ pc' = [pc EXCEPT ![i][j] = "audit"]
      BY <2>1 DEF Finish, Goto
    <3>4. ASSUME NEW k \in Instances, NEW q \in Jobs
          PROVE  /\ pc'[k][q] = "audit" => status'[q] = report'[k][q]
                 /\ pc'[k][q] \notin {"fail", "failaudit"}
      BY <2>0, <3>2, <3>3 DEF SingleInstance, Audited, TypeInv, TypeOK
    <3>5. ASSUME NEW k \in Instances, phase'[k] = "auditing"
          PROVE  FALSE
      BY <2>1, <3>3, <3>5 DEF Finish, SingleInstance, TypeInv, Served, procs
    <3> QED
      BY <3>4, <3>5 DEF Audited
  <2>2. CASE FailJob(i, j) \/ AuditFailure(i, j)
    BY <2>0, <2>2 DEF FailJob, AuditFailure, Audited
  <2>3. CASE /\ \E step \in Steps \ {"audit", "fail", "failaudit"} : Goto(i, j, step)
             /\ \A k \in Instances, q \in Jobs : k # i \/ q # j => report'[k][q] = report[k][q]
    BY <1>1, <2>0, <2>3 DEF Goto, Unaudited, procs, TypeInv, TypeOK
  <2>4. CASE Poll(i, j)
    BY <1>1, <2>0, <2>4 DEF Poll, Unaudited, procs
  <2>5. CASE Claim(i, j) \/ Proceed(i, j) \/ RecordRun(i, j)
    BY <2>3, <2>5 DEF Claim, Proceed, RecordRun, Steps
  <2>6. CASE Skip(i, j) \/ AuditOutcome(i, j)
    BY <2>3, <2>6 DEF Skip, AuditOutcome, Return, Steps, TypeInv, TypeOK
  <2>7. CASE TakeThreadLock(i, j) \/ TakeFileLock(i, j)
    BY <2>3, <2>7 DEF TakeThreadLock, TakeFileLock, Refused, Steps, TypeInv, TypeOK
  <2>8. CASE FinishStages(i, j) \/ Reread(i, j)
    BY <2>3, <2>8 DEF FinishStages, Reread, Steps, TypeInv, TypeOK
  <2> QED
    BY <1>4, <2>1, <2>2, <2>4, <2>5, <2>6, <2>7, <2>8 DEF TaskStep
<1>5. ASSUME NEW i \in Instances, FailOrphans(i)
      PROVE  Audited'
  <2>1. UNCHANGED <<tasks, sel>> /\ faults = 0 /\ \A k \in Instances : k = i
    BY <1>5 DEF FailOrphans, SingleInstance, env
  <2>2. \A k \in Instances, j \in Jobs : pc[k][j] = "idle"
    BY <1>5, <2>1 DEF FailOrphans, TypeInv, Served
  <2>3. \A j \in sel[i] : status'[j] = "failed"
    BY <1>5 DEF FailOrphans, TypeInv, TypeOK
  <2> QED
    BY <2>1, <2>2, <2>3 DEF Audited, tasks
<1>6. ASSUME NEW i \in Instances, RecoveryStep(i), ~FailOrphans(i)
      PROVE  Calm
  <2>1. CASE SelectOrphans(i)
    BY <2>1 DEF SelectOrphans, Unaudited, TypeInv, TypeOK, tasks, env
  <2>2. CASE Resubmit(i)
    BY <2>2 DEF Resubmit, Unaudited, TypeInv, TypeOK, env
  <2>3. ASSUME NEW j \in Jobs, AuditOrphan(i, j)
        PROVE  Calm
    BY <2>3 DEF AuditOrphan, Unaudited, TypeInv, TypeOK, tasks, env
  <2> QED
    BY <1>6, <2>1, <2>2, <2>3 DEF RecoveryStep
<1>7. ASSUME NEW i \in Instances, Start(i) \/ Shutdown(i)
      PROVE  Calm
  BY <1>7 DEF Start, Shutdown, Unaudited, TypeInv, TypeOK, tasks, env
<1>8. ASSUME NEW i \in Instances, Exit(i) \/ Crash(i)
      PROVE  Calm
  <2>1. Vanish(i) /\ faults' = faults
    BY <1>8 DEF Exit, Crash
  <2>2. ASSUME NEW k \in Instances, NEW j \in Jobs
        PROVE  pc'[k][j] = "idle" \/ (pc'[k][j] = pc[k][j] /\ report'[k][j] = report[k][j])
    BY <2>1 DEF Vanish, TypeInv, TypeOK
  <2>3. ASSUME NEW k \in Instances
        PROVE  phase'[k] = "down" \/ (phase'[k] = phase[k] /\ sel'[k] = sel[k])
    BY <2>1 DEF Vanish, TypeInv, TypeOK
  <2> QED
    BY <2>1, <2>2, <2>3 DEF Unaudited
<1>9. ASSUME NEW j \in Jobs, HeartbeatExpires(j)
      PROVE  Calm
  BY <1>9 DEF HeartbeatExpires, Unaudited, procs, tasks, env
<1> QED
  BY <1>1, <1>2, <1>3, <1>4, <1>5, <1>6, <1>7, <1>8, <1>9 DEF Next

\* Only outcomes that agree with the table are written to the audit trail.
LEMMA OutcomeStep ==
  ASSUME SingleInstance, TypeInv, Selected, Audited, AuditMatchesOutcome, [Next]_vars
  PROVE  AuditMatchesOutcome'
<1>1. CASE UNCHANGED vars
  BY <1>1 DEF vars, table, env, AuditMatchesOutcome
<1>2. CASE Next /\ faults' # 0
  BY <1>2 DEF AuditMatchesOutcome
<1>3. CASE Next /\ faults' = 0
  <2>1. faults = 0 /\ audit' \subseteq audit \cup
          {e \in Jobs \X (Terminal \cup {"orphaned"}) :
             status'[e[1]] = IF e[2] = "orphaned" THEN "failed" ELSE e[2]}
    <3> DEFINE Right == {e \in Jobs \X (Terminal \cup {"orphaned"}) :
                           status'[e[1]] = IF e[2] = "orphaned" THEN "failed" ELSE e[2]}
    <3>1. ASSUME NEW i \in Instances, NEW j \in Jobs, AuditOutcome(i, j)
          PROVE  faults = 0 /\ audit' \subseteq audit \cup Right
      <4>1. faults' = faults /\ status' = status /\ audit' = audit \cup {<<j, report[i][j]>>}
        BY <3>1 DEF AuditOutcome, env
      <4>2. status[j] = report[i][j] /\ report[i][j] \in Terminal
        BY <1>3, <3>1, <4>1 DEF AuditOutcome, Audited, TypeInv, Reported
      <4> QED
        BY <1>3, <4>1, <4>2 DEF Terminal
    <3>2. ASSUME NEW i \in Instances, NEW j \in Jobs, AuditOrphan(i, j)
          PROVE  faults = 0 /\ audit' \subseteq audit \cup Right
      <4>1. faults' = faults /\ status' = status /\ audit' = audit \cup {<<j, "orphaned">>}
        BY <3>2 DEF AuditOrphan, env
      <4>2. status[j] = "failed"
        BY <1>3, <3>2, <4>1 DEF AuditOrphan, Audited
      <4> QED
        BY <1>3, <4>1, <4>2
    <3>3. ASSUME NEW i \in Instances, NEW j \in Jobs, AuditFailure(i, j)
          PROVE  FALSE
      BY <1>3, <3>3 DEF AuditFailure, Audited, env
    <3>4. ASSUME NEW i \in Instances, Fault(i)
          PROVE  FALSE
      BY <1>3, <3>4 DEF Fault, Raise, RaiseInLockDir, RaiseInHandler, RaiseInRecovery, TypeInv, TypeOK
    <3>5. RequestStep => faults = 0 /\ audit' = audit
      <4>1. ASSUME NEW r \in Clients
            PROVE  SyncThreadLock(r) \/ SyncFileLock(r) \/ SyncFinish(r) \/ SyncRaiseInLockDir(r) =>
                     faults = 0 /\ audit' = audit
        BY <1>3 DEF SyncThreadLock, SyncFileLock, SyncFinish, SyncRaiseInLockDir, TypeInv, TypeOK, table
      <4> QED
        BY <1>3, <4>1 DEF RequestStep, Submit, Retry, Insert, Cancel, SyncRequest, table, env
    <3>6. ASSUME NEW i \in Instances, NEW j \in Jobs, TaskStep(i, j) \/ Poll(i, j),
                 ~AuditOutcome(i, j), ~AuditFailure(i, j)
          PROVE  faults = 0 /\ audit' = audit
      BY <1>3, <3>6 DEF TaskStep, Poll, Claim, Proceed, Skip, TakeThreadLock, TakeFileLock,
         FinishStages, RecordRun, Reread, Finish, FailJob, table, env
    <3>7. ASSUME NEW i \in Instances,
                 Start(i) \/ SelectOrphans(i) \/ FailOrphans(i) \/ Resubmit(i)
                   \/ Shutdown(i) \/ Exit(i) \/ Crash(i)
          PROVE  faults = 0 /\ audit' = audit
      BY <1>3, <3>7 DEF Start, SelectOrphans, FailOrphans, Resubmit, Shutdown, Exit, Crash, table, env
    <3>8. ASSUME NEW j \in Jobs, HeartbeatExpires(j)
          PROVE  faults = 0 /\ audit' = audit
      BY <1>3, <3>8 DEF HeartbeatExpires, env
    <3> QED
      BY <1>3, <3>1, <3>2, <3>3, <3>4, <3>5, <3>6, <3>7, <3>8 DEF Next, RecoveryStep
  <2> QED
    BY <1>3, <2>1, OutcomeKept DEF AuditMatchesOutcome
<1> QED
  BY <1>1, <1>2, <1>3

\* With one instance, and as long as no exception rises, the audit trail agrees with the
\* table for good: what _run_pipeline_job and the recovery audit is what they have stored.
THEOREM AuditAgrees ==
  ASSUME SingleInstance
  PROVE  Spec => []AuditMatchesOutcome
<1>1. Init => Audited /\ AuditMatchesOutcome
  BY DEF Init, Audited, AuditMatchesOutcome
<1>2. TypeInv /\ Selected /\ Executed /\ Audited /\ AuditMatchesOutcome /\ [Next]_vars
        => Audited' /\ AuditMatchesOutcome'
  <2>1. CASE UNCHANGED vars
    BY <2>1 DEF vars, table, procs, tasks, env, Audited, AuditMatchesOutcome
  <2> QED
    BY <2>1, AuditedStep, OutcomeStep
<1> QED
  BY <1>1, <1>2, SelectedInvariance, ExecutedInvariance, PTL DEF Spec

\* A verdict that closes an open row is one JobLifecycle allows.
LEMMA CloseConcludes ==
  ASSUME TypeOK, NEW j \in Jobs, NEW verdict \in Terminal, Close(j, verdict),
         status[j] \in InProgress, UNCHANGED <<config, runs>>,
         verdict # "failed" /\ Persist[config[j]] => runs[j] = 1
  PROVE  Lifecycle!Conclude(j, verdict)
BY DEF Close, Lifecycle!Conclude, Lifecycle!Become, Lifecycle!InProgress, Terminal, InProgress

\* Each step of the service is a step of JobLifecycle or leaves its variables alone.
LEMMA LifecycleStep ==
  ASSUME SingleInstance
  PROVE  TypeInv /\ Selected /\ Executed /\ [Next]_vars => [Lifecycle!Next]_(Lifecycle!vars)
<1> SUFFICES ASSUME TypeInv, Selected, Executed, Next
             PROVE  Lifecycle!Next \/ UNCHANGED <<status, config, runs>>
  BY DEF vars, table, Lifecycle!vars
<1> DEFINE Step == Lifecycle!Next \/ UNCHANGED <<status, config, runs>>
<1>1. RequestStep => Step
  <2>1. ASSUME NEW r \in Clients, NEW j \in Jobs, Insert(r, j)
        PROVE  Step
    <3>1. req[r].config \in Configs
      BY <2>1 DEF Insert, TypeInv, Served
    <3>2. Lifecycle!Accept(j, req[r].config)
      BY <2>1 DEF Insert, Unused, Lifecycle!Accept, Lifecycle!Become
    <3> QED
      BY <3>1, <3>2 DEF Lifecycle!Next
  <2>2. ASSUME NEW i \in Instances, NEW j \in Jobs, Cancel(i, j)
        PROVE  Step
    <3>1. Lifecycle!Cancel(j)
      BY <2>2 DEF Cancel, Lifecycle!Cancel, Lifecycle!Become
    <3> QED
      BY <3>1 DEF Lifecycle!Next
  <2> QED
    BY <2>1, <2>2 DEF RequestStep, Submit, Retry, SyncRequest, SyncThreadLock,
       SyncFileLock, SyncFinish, SyncRaiseInLockDir, table
<1>2. ASSUME NEW i \in Instances, NEW j \in Jobs, TaskStep(i, j) \/ Poll(i, j)
      PROVE  Step
  <2>1. CASE Claim(i, j)
    <3>1. CASE status[j] = "queued"
      <4>1. Lifecycle!Claim(j)
        BY <2>1, <3>1 DEF Claim, Lifecycle!Claim, Lifecycle!Become
      <4> QED
        BY <4>1 DEF Lifecycle!Next
    <3>2. CASE status[j] # "queued"
      BY <2>1, <3>2 DEF Claim
    <3> QED
      BY <3>1, <3>2
  <2>2. CASE RecordRun(i, j)
    <3>1. status[j] \in InProgress /\ runs[j] = 0 /\ UNCHANGED <<status, config>>
      BY <2>2 DEF RecordRun, Executed
    <3>2. CASE Persist[config[j]]
      <4>1. Lifecycle!Record(j)
        BY <2>2, <3>1, <3>2 DEF RecordRun, Lifecycle!Record,
           Lifecycle!InProgress, InProgress, TypeInv, TypeOK
      <4> QED
        BY <4>1 DEF Lifecycle!Next
    <3>3. CASE ~Persist[config[j]]
      BY <2>2, <3>3 DEF RecordRun
    <3> QED
      BY <3>2, <3>3
  <2>3. CASE Finish(i, j)
    <3>1. status[j] \in InProgress /\ (Persist[config[j]] => runs[j] = 1) /\ report[i][j] \in Terminal
      BY <2>3 DEF Finish, Executed, TypeInv, Reported
    <3>2. Lifecycle!Conclude(j, report[i][j])
      BY <2>3, <3>1, CloseConcludes DEF Finish, TypeInv
    <3> QED
      BY <3>1, <3>2 DEF Lifecycle!Next, Lifecycle!Terminal, Terminal
  <2>4. CASE FailJob(i, j)
    <3>1. Close(j, "failed") /\ UNCHANGED <<config, runs>> /\ status[j] # "none"
      BY <2>4 DEF FailJob, TypeInv, Known
    <3>2. CASE status[j] \in InProgress
      <4>1. Lifecycle!Conclude(j, "failed")
        BY <3>1, <3>2, CloseConcludes DEF TypeInv, Terminal
      <4> QED
        BY <4>1 DEF Lifecycle!Next, Lifecycle!Terminal
    <3>3. CASE status[j] = "queued"
      <4>1. Lifecycle!Abandon(j)
        BY <3>1, <3>3 DEF Close, Lifecycle!Abandon, Lifecycle!Become, Terminal
      <4> QED
        BY <4>1 DEF Lifecycle!Next
    <3>4. CASE status[j] \in Terminal
      BY <3>1, <3>4 DEF Close
    <3> QED
      BY <3>1, <3>2, <3>3, <3>4 DEF TypeInv, TypeOK, Statuses, Active
  <2>5. CASE ~Claim(i, j) /\ ~RecordRun(i, j) /\ ~Finish(i, j) /\ ~FailJob(i, j)
    BY <1>2, <2>5 DEF TaskStep, Poll, Proceed, Skip, TakeThreadLock, TakeFileLock,
       FinishStages, Reread, AuditOutcome, AuditFailure, table
  <2> QED
    BY <2>1, <2>2, <2>3, <2>4, <2>5
<1>3. ASSUME NEW i \in Instances, FailOrphans(i)
      PROVE  Step
  <2>1. sel[i] \in SUBSET Jobs
    BY DEF TypeInv, TypeOK
  <2>2. Lifecycle!Orphan(sel[i])
    BY <1>3 DEF FailOrphans, Selected, Lifecycle!Orphan,
       Lifecycle!InProgress, InProgress
  <2> QED
    BY <2>1, <2>2 DEF Lifecycle!Next
<1>4. ASSUME NEW i \in Instances
      PROVE  Start(i) \/ Shutdown(i) \/ Exit(i) \/ Crash(i) \/ Fault(i)
               \/ (RecoveryStep(i) /\ ~FailOrphans(i)) => Step
  BY DEF Start, RecoveryStep, SelectOrphans, Resubmit, AuditOrphan, Shutdown,
     Exit, Crash, Fault, Raise, RaiseInLockDir, RaiseInHandler, RaiseInRecovery, table
<1> QED
  BY <1>1, <1>2, <1>3, <1>4 DEF Next, HeartbeatExpires

\* With one instance the table, the executor and the recovery together keep what
\* JobLifecycle promises a client: one claim, one run record, one verdict.
THEOREM ImplementsLifecycle ==
  ASSUME SingleInstance
  PROVE  Spec => LifecycleSpec
<1>1. Init => Lifecycle!Init
  BY DEF Init, Lifecycle!Init
<1> QED
  BY <1>1, SelectedInvariance, ExecutedInvariance, LifecycleStep, PTL
     DEF Spec, LifecycleSpec, Lifecycle!Spec

=============================================================================
