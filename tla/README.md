# Verification of scenara-model

TLA+ models of the model service (`src/src/scenara_model`), TLC runs on small
instances, and TLAPS proofs. Paths below are relative to the repository root,
`src/`; `api.py`, `storage.py`, `pipeline.py` and so on are files of
`src/scenara_model/`.

## 1. The system

The service is a FastAPI application with a SQL metadata store (SQLite or
PostgreSQL). An experiment file describes a pipeline: fetch or prepare a
dataset, train, evaluate, export, bundle, package, validate. Jobs run pipelines
on a thread pool inside the service process; several service processes may share
one database and one artifacts directory. Packages are registered, approved and
rolled out to tenants; "Core", another system, reports deployments back over a
signed webhook.

| Component | Code | State | Operations | Interacts with |
|---|---|---|---|---|
| Pipeline jobs | `api.py` 49-62, 145-200, 567-714, 969-990; `storage.py` 16, 532-710 | table `pipeline_jobs`, the executor's queue, the memory of each task | submit, retry, cancel, claim, heartbeat, re-read, complete, fail, recover, resubmit, shutdown | run lock, stages, `pipeline_runs`, audit |
| Run lock | `pipeline.py` 28-90 | `_PIPELINE_LOCKS` of a process, one lock file per experiment id | acquire without waiting, release | jobs, synchronous requests, CLI |
| Pipeline stages and commands | `pipeline.py` 93-488, `adapters/*` | a report, child processes, artifact files | run stage, poll command, cancel, time out | jobs (cancellation, logs), packages |
| Job logs | `api.py` 567-600, 945-956, `adapters/local_tasks.py` 200-260, `storage.py` 712-801 | a buffer per job, `pipeline_job_logs` | append (reader threads), flush, follow, purge | commands, the management console |
| Packages and digests | `packaging/*`, `utils.py`, `trust.py`, `model_card.py` | package directory, digest cache of each process | create, validate | stages, registry |
| Registry, approvals, rollouts | `api.py` 1160-1278, `storage.py` 942-1054, `contracts.py` | `model_registry`, `release_approvals`, `deployment_rollouts` | register, approve, reject, roll out | packages, decision files |
| Deployment feedback | `api.py` 1282-1342, `storage.py` 1056-1161, `deployment_feedback.py` | `deployment_feedback_events`, `deployment_feedback_state` | receive, deduplicate, judge, apply | Core's outbox |
| Dataset intake | `api.py` 1063-1157, `data_platform.py`, `dataset_versions.py`, `datasets/` | files under `artifacts/remote-datasets`, `dataset_versions` | fetch with retries, verify, register | scenara-data, stages |
| Sessions and maintenance | `api.py` 72-142, 170-192, 340-369, 752-794, `auth.py`, `cli.py` 201-224, `storage.py` 1178-1251 | `users`, `auth_sessions`, `LOGIN_THROTTLE` of each process | bootstrap, log in, log out, expire, purge, set password | every endpoint |
| Metadata store connections | `storage.py` 420-450 | a connection per operation, or one shared in-memory connection | connect, commit, roll back | all of the above |

What is hard here is not any single function. A handler makes two to six
database transactions, and between any two of them another thread, another
process, a cancellation, a restart or an exception may come. No test in
`tests/` interleaves them. `PROJECT.json`, "hazards", lists each such place with
its line and the property that covers it.

What makes each component correct:

* jobs: claimed once, recorded once, closed once, never reopened; cancelled in
  the queue means never executed; queued work survives a restart; the audit
  trail tells the same story as the table;
* run lock: two runs that share an experiment id never overlap; a refusal is
  true;
* stages: a stage runs only if its predecessors succeeded; a cancellation is seen
  at the next poll; an artifact of an earlier run is never taken for this one's;
* logs: every line is written once, before the event that ends its stage;
* commands: none outlives its run or its deadline, none blocks on its output;
* packages: a strict validation that passes has seen card, labels and digest of one model;
* registry: nothing is rolled out that was not validated with provenance and then approved;
* feedback: one verdict per event, a state that only moves forward along Core's path;
* intake: what is registered for a reference is the manifest the reference names; a torn
  download does not last;
* sessions: a session dies with its password; guessing is bounded; at most one generated
  password is told;
* log feed: a client that follows a log gets what is stored, once and in order.

## 2. Modules

| Module | Models | Proofs |
|---|---|---|
| `JobStatus` | the status values of `pipeline_jobs` | |
| `JobLifecycle` | abstract: what the job table promises a client | |
| `PipelineJobs` | job table, service processes, executor tasks, recovery, run lock | `PipelineJobsProofs` |
| `DeploymentFeedback` | the webhook's consumer and Core's outbox | `DeploymentFeedbackProofs` |
| `StageCommand` | the external commands of a run, their output and the log buffer | `StageCommandProofs` |
| `ExperimentRun` | the stages of an experiment, its files, the package made of them, and who else writes there | `ExperimentRunProofs` |
| `LogFeed` | abstract: what a job's log promises to a client that follows it | |
| `JobLogFeed` | buffer, batches, transactions on three kinds of store, the client, purge; implements `LogFeed` | `ServicesProofs` |
| `Sessions` | bootstrap, throttle, logins, sessions, `user set-password` | `SessionsProofs` |
| `DatasetIntake` | fetching, checking and registering dataset versions | `DatasetIntakeProofs` |
| `ModelCard` | `validate_model_card` as a function | |
| `PackageStore` | a package file by file, its creators and validations, the digest caches, registration | `ServicesProofs` |
| `ReleaseGate` | registry, approvals, rollouts | `ReleaseGateProofs` |
| `MCPipelineJobs`, `MCDeploymentFeedback`, `MCStageCommand`, `MCExperimentRun` | instances for TLC | |
| `MCServices` | the last five state machines side by side, an instance for TLC | `ServicesProofs` |

`MCServices` puts the last five state machines into one instance. They share no variable
and no lock, so interleaving them would show nothing: a behaviour is one of a single
service, chosen at the start.

Mutants (operators marked `Mutant:` beside the operator they distort) are used to
test the properties: with the mutant in place of the operator, TLC must find the
property violated.

### PipelineJobs

| Variable | Code |
|---|---|
| `status`, `config`, `owner`, `beat` | columns `status`, `config_path`, `worker_id`, and whether `heartbeat_at` is older than 120 s |
| `runs`, `audit` | number of `pipeline_runs` rows of a job; `audit_events` about jobs |
| `phase`, `wid` | a process in its life (`lifespan`, `_recover_jobs_on_startup`) and its `WORKER_ID` (host name and process id) |
| `sel` | the ids `recover_orphaned_jobs` has selected and not yet dealt with |
| `pc`, `report`, `seen` | where the task of a job is in `_run_pipeline_job`, the status of its report, `_cancelled` of its `_CancelCheck` |
| `tlock`, `flock` | `_PIPELINE_LOCKS`, the locked files |
| `req` | one `POST /api/pipelines/run` in flight |

Every database transaction is one action. `claim_pipeline_job` is two actions
(`Claim`, then `Proceed` or `Skip`), because its UPDATE and the SELECT that
returns the row are separate transactions; likewise the check and the insert of
`_queue_pipeline_job` (`Submit`, `Insert`), the re-read and the verdict
(`Reread`, `Finish`), the selection and the update of the recovery
(`SelectOrphans`, `FailOrphans`).

Abstractions:

* what the stages compute: `FinishStages` ends with any report the cancellation
  checks allow;
* the executor's queue is a set with `Workers` threads: any pending task may be
  next, which allows more orders than first-in first-out;
* insert and `EXECUTOR.submit` are one action: between them nothing of the
  process can observe the difference, and a crash loses the queue either way;
* the poll's SELECT and its heartbeat UPDATE are one action: the heartbeat
  changes nothing a check reads;
* time is only "the heartbeat has expired", which may happen to any job in
  progress: a check needs a stage that polls, so live workers miss it too;
* a job's logs and artifact rows, the run records of synchronous requests, and
  list and detail reads, which change nothing;
* a CLI run of a pipeline behaves like a synchronous request of another instance.

Bounds: `MaxStops` (shutdowns and kills), `MaxFaults` (exceptions of the store or
the file system), `Room` (no request is let in when the job ids are used up).

### DeploymentFeedback

`core`, `emitted`, `event` are Core's side: the release status of each version and
the events numbered by emission. `answered` is the outbox's memory. `log` and
`state` are the two tables, `handler` what each process holds between its SELECTs
and its write, `raced` a history variable: some write replaced a state other than
the one its verdict was computed from. The two SELECTs of
`record_deployment_feedback_event` are one action (`Read`); the write is a later
one (`Write`), refused by the primary key when another process was first
(`Collide`) or undone (`Abort`). Requests with a bad signature, age or envelope,
and an `event_id` reused for another payload, write nothing and are left out. One
scope (tenant, project, capability) stands for all, because scopes share no row.
Core emits each event after the previous one, with time stamps that do not run
backwards, and may deliver in any order and any number of times: this is how
`docs/部署反馈消费说明.md` describes the outbox.

### StageCommand

| Variable | Code |
|---|---|
| `step`, `event`, `at` | where the worker thread is in `event_sink`, `_run_external_command` or `_terminate_process_tree`; the stage event it is recording; its command |
| `result` | what `_finalize` returned for a command, `raised` if an exception left the loop instead |
| `tree`, `termed`, `killed`, `deaf` | the live processes of each command, those SIGTERM and SIGKILL were sent to, those that ignore SIGTERM |
| `written`, `read`, `reader` | the pipe of each stream: lines in, lines out; its `_StreamCollector` |
| `pending`, `hand` | `_JobLogBuffer._pending`, and the batch a reader has taken and not yet written |
| `stored`, `dropped`, `events` | rows of `pipeline_job_logs`, lines lost to a failing store, stage events |
| `requested`, `expired` | the row says `cancellation_requested`; the deadline is over |
| `late` | history: a `join` gave up |

`PipelineJobs` takes the stages of a run as one step; `StageCommand` looks inside
it, with no other run beside it. A line is a number, a batch a set of lines: the
order of lines within a log is not modelled (two readers write their batches
outside the lock, so the code does not promise it). A reader writes its batch in a
step of its own; the worker's `flush` is one step, because nobody else sees its
batch. Each stage has one command (some stages run two or none; the code around
each is the same). `Poll` is one round that ends the loop; a round that goes on
changes nothing. `Start` comes after the stage's event, so the check before the
first stage is left to `PipelineJobs`. Every live process holds its end of the
pipes. Signals are those of POSIX; the fallbacks for Windows and for a group that
cannot be signalled are left out, and so is the copy of the output kept for the
report.

### ExperimentRun

| Variable | Code |
|---|---|
| `work` | the experiment file (profile, commands, declared products, `reuse_existing`, kind of adapter), who turns up, how much goes wrong |
| `product` | `training.produced_checkpoint`, `export.produced_onnx`, `evaluation.produced_metrics` |
| `output`, `report` | the exported ONNX under `experiments/local_runs/<id>`, the three reports beside it |
| `package` | the ONNX and the model card of the package |
| `lock` | the run lock, by its holder |
| `pc`, `stage`, `draft`, `before`, `result`, `card` | where a caller is and its locals: the report it is about to write, the fingerprint taken before the command, the stage payloads, the card |
| `cmd` | the stage's external command, which may outlive its caller |
| `cancel` | the job of a pipeline has a cancellation request; each look may still miss it, for `_CancelCheck` remembers its answer for three seconds |
| `disturbed`, `settled`, `faults` | history: someone else wrote while a caller was at work; nothing was written since a pipeline's evaluation completed; exceptions and crashes so far |

Where `StageCommand` looks at how a command runs, `ExperimentRun` looks at what it
leaves. A file is known by who wrote it (`by`) and by the training run its content goes
back to (`model`): an export goes back to the checkpoint it read, metrics to the ONNX
they were measured on, and a file of `Foreign` to nothing of the experiment. Three kinds
of callers meet: pipelines (jobs, synchronous requests, the command line), which hold
the run lock; scripts that run one stage; requests to create a package. `POST
/api/packages/create` exports, or takes any ONNX file of the workspace (`work.onnx`:
none, the exported one, a foreign one) and asks nobody whose it is: `CreatedIsCoherent`
says that checkpoint and metrics of the card then still go back to one run, and that the
ONNX does if it is the experiment's, while a foreign one stands beside another model's
evidence. Each caller runs once. The three stages share their actions (`Begin`,
`Settle`, `Check`, `Report`, ...) and differ in them where `adapters/local_tasks.py`
does. A result keeps its status, the source it claims (`external_command`, `measured`,
...) and the one file its provenance names.

Abstractions: dataset preparation, preflight, manifests, metric contracts, ONNX loading
and the package's validation are refusals that may happen (`Refuse`, `RejectContent`,
`Distrust`, `Reject`); a command may write its product any number of times, or not at
all, and end well or badly; the product and the exported file are two files; uploads
into the experiment's directories are left out, so whoever writes there is a caller or
its command; an evaluation that finds no ONNX and exports first is left out, for a
pipeline has always exported; the file is copied and its digest taken in one step, and
labels, examples and the digest cache are left to `PackageStore`.

### LogFeed and JobLogFeed

`LogFeed` says what a client may rely on: batches continue each stream where the last
batch left it, are published whole or dropped, and the client, who joins at the end or
at the beginning, gets every later line in the order of publication, without gap or
repetition, except lines removed before it asked. `JobLogFeed` is the code: `pending`
and `taken` are `_JobLogBuffer._pending` and the batch a thread took out of it under the
lock and stores outside; `logRow` the table by id; `writer` whoever may write, that is
SQLite's write lock or the lock of the shared in-memory connection; `since` and
`delivered` the client, who pages with `since_id` after a first request with or without
`tail`. `FailBatch` is an exception of the store: `_write` swallows it, the connection
of a file rolls back, the shared one does not, so that the next commit stores a part of
the batch (`feedForgiving`). `EndProcess` is the death of the process between any two
steps. `PurgeLogs` deletes rows by a time that was read before the INSERT. The
refinement maps the rows ever committed, by id, to `feedPublished`, the batches of all
threads to `feedHeld`, and every line that was logged and is not in the buffer to
`feedTaken`; the positions of `LogFeed` are ids and may have gaps.

`FollowsFeed` holds of the two SQLite stores. With `"postgres"` in `Stores` TLC refutes
it: an id is drawn from a sequence at the INSERT, a transaction with a smaller id may be
committed later, and a client that has passed it never gets the row. One executor and
one process write a job's log, but the reader threads and the executor of it are enough.

### Sessions

A password is the number of its invention; `password` is the row of the administrator.
`server` is a process in `_bootstrap_admin_user` (count, create, announce: three
actions, for the count and the INSERT are two transactions and the announcement comes
after the audit event); `failures`, `blocked` are its `_LoginThrottle`; `login` a thread
between `retry_after`, the SELECT of the row, `verify_password` and the INSERT of the
session; `bearer` a request between `auth_middleware` and its endpoint; `operator` a run
of `user set-password`, whose UPDATE of the password and UPDATE of the sessions are two
transactions. Time is that a lockout or a session may end. History: `opened` (the
password of a session), `covered` (the password at the last revocation), `slipped`
(sessions whose login had read an older row). Refused requests write audit events only,
which are left out, as are the Core mode and the static token.

### DatasetIntake

A file is an inode: `stored` and `temp` map names to inodes, `content` says what an
inode holds, `request` where a request is. `write_bytes` truncates what has the
temporary name, `os.replace` moves what has it by then: both threads of one process use
one name, because it holds the process id only. A file that was cut off anywhere is
"torn": it may lack rows and still be in order. `POST /api/uploads` opens whatever file
of the workspace has the name, in place, and writes it chunk by chunk (`BeginUpload`,
`WriteUpload`); too many bytes, and it removes the name (`RefuseUpload`). A version's
file stands for any file a reference request's `manifest_path` may name; the temporary
names are written by fetches only. Digest check (`CheckDigest`) and row count
(`CountRows`) are two reads. A training configuration is checked by the same function
and stands as a kind of request. `stale` remembers whose file was written with something
else between its two reads; `RowIsVerified` speaks of the other rows, and without that
condition TLC refutes it. All versions belong to one dataset id, hence one row.

### ModelCard and PackageStore

`ModelCard` reduces a card to the digest it names and the set of its defects, one per
issue code, and translates which checks look at which. `PackageStore` is one package
under `create_model_package` (copy, digest without cache, labels, card, examples, each
a step, any of which may be the last) and `validate_model_package` (existence, stat,
digest, card, labels, examples, each a read at its time). A file is known by the
creation that wrote it. `digests` is `_DIGEST_CACHE` per process: a stat, perhaps a hit,
else a read cached under the stat's signature. `check[v].calm` says that nothing was
written while `v` was at work; `overlapped`, `torn`, `broken`, `installed` are history.
`register_model` reads the card a second time for the metrics (`UpsertModel`).

A card may be handed in as it is, naming any model's digest: that is what
`sha256_mismatch` exists for. `VerdictIsSound` says that it takes two faults to deceive
a strict validation. The faults are a creation that broke off, a stale cache (a model
replaced between stat and read, or two contents of one size and modification time) and a
card of another model; with two of them TLC finds a counterexample, whichever two they
are. Two creations that broke off mask one another: labels of the first, model of the
second, a card that names its digest. A card that names B, beside a model A and its
labels, is the card of B once a creation of B has broken off after the model. A model
with such a card passes if the cache answers with the digest the card names. A stale
cache and a creation broken off are as bad. Two creations at once mix their files, and
need no fault.

### ReleaseGate

`grade` is what a validation of a model's package would say now (fails, passes, passes
with provenance), `registry`, `approvals`, `rollouts` are the tables, `clerk` a thread
that serves one of three requests and what it has read so far. Packages and the
decision file may be rewritten between any two steps (`RewritePackage`,
`RewriteDecision`): `record_release_approval` validates the file and reads it again.
`proven` remembers models once registered after a strict validation, `swapped` that a
decision file changed between its two reads. Stages beyond "smoke" differ in nothing the
gate asks for and are one.

## 3. Runs

| Run | Instance | Shows |
|---|---|---|
| `jobs_single` | 1 process, 2 jobs, 2 configurations of one experiment (one without run record), 1 request at a time, 2 threads, 1 stop or crash, 2 exceptions | `LifecycleSpec`, `TerminalIsFinal`, `OneActivePerConfig`, `AuditMatchesOutcome`, `ThreadLockHasHolder` |
| `jobs_cluster` | 2 processes, 1 job, 2 requests at a time, 1 stop or crash, 1 exception | `TypeOK`, `RunLockExclusive`, `CancelledInQueueNeverRuns`, `ClaimedOnce` |
| `jobs_restart` | 1 process with a stable worker id, 2 jobs, 1 stop or crash, fair | `QueuedIsServed`, `ExecutedIsClosed`, `OrphansConverge`, `CancelIsHonoured` |
| `feedback` | 2 processes, 2 versions, 3 events, fair | `TypeOK`, `StateFromApplied`, `LatestUnlessRaced`, `PathUnlessRaced`, `VerdictIsFinal`, `EveryEventIsAnswered` |
| `command` | 2 commands, the first with a helper and 2 lines, pipes of 1 line, batches of 2, 1 exception, fair | `TypeOK`, `LinesAccounted`, `EventsInOrder`, `CommandsEndInRun`, `SignalledTreeEnds`, `ExpiredIsOver`, `PipesDrain` |
| `stages` | pairs of a pipeline with a second one, a script or a package request, which exports or is handed the experiment's ONNX or a foreign one, 1 exception or crash; two pipelines and a package request that is handed either ONNX; two baselines with `reuse_existing`; one pipeline in each of 512 configurations | `TypeOK`, `OwnEvidence`, `LockShieldsRun`, `CreatedIsCoherent`, `ReportTellsOnnx`, `PackagedAfterStages` |
| `services` | one of: 5 logins of 2 threads; 2 commands, 2 logins, 2 sessions; a restart, a session, a request, a command; up to 3 of 6 dataset requests with up to 2 uploads, 2 process ids, 1 retry, 1 death; 4 log lines of 3 threads, pages of 2, file and memory; 2 overlapping creations, or 3 in a row of which 2 break off, or of which 1 does and 1 brings another's card, 1 registration that is repeated; 2 models, 2 clerks, 1 or 2 of each row, 1 rewrite | `ServicesTypeOK`, `LockoutBounds`, `SessionsFollowPassword`, `RowIsVerified`, `DownloadsSettle`, `VerdictIsSound`, `RolloutsAreVetted`, `FollowsFeed` |
| `jobs_twin_requests` | 1 process, 2 requests | finding: `OneActivePerConfig` fails |
| `jobs_second_executor` | 2 processes | finding: `ExclusiveExecution` fails |
| `jobs_late_recovery` | 2 processes | finding: `TerminalIsFinal` fails |
| `feedback_two_consumers` | 2 processes | finding: `NeverGoesBack` fails |
| `stages_undeclared` | 2 pipelines, an export command without `produced_onnx` | finding: `ProductionIsFresh` fails |

Why the bounds are enough. Two jobs meet at every shared thing: a configuration, a run
lock, a thread, a recovery's selection; a third adds no new pair. One stop lets a
process leave any of its steps half done and its successor find it. Two exceptions reach
every handler and the handler of the handler. Two processes are what the races need: one
acts between two transactions of the other. Three events are the least with a
predecessor, a successor and an event between. In `command`, a second line meets a full
pipe and fills a batch that holds a line of each stream, and the second command comes
while readers or helpers of the first may be left. In `stages`, an earlier run leaves
every file the later one might take for its own, a second caller comes between any two
steps, and one cut leaves a command behind. In `services` each machine has bounds of its
own, held in a variable that is chosen at the start (`load`, `group`, `plan`, `scope`),
so that a behaviour that is long in one direction is short in the others. Two threads
are enough to pass the throttle together and five logins to count beyond it, also after
a reset. Two fetches of one process and one of another share, and do not share, a
temporary file; uploads come between any two reads of a request. Four lines make two
batches that overtake each other and a page that ends between them. Three creations in a
row, two of them broken off, are the least in which two leftovers mask one another; two
contents share a signature, and one card names the model that another creation copies
before it breaks off. Deadlock is not checked in `services`, because every machine stops
when its bound is used up. The safety theorems below hold without bounds.

Fairness (`jobs_restart`). Threads and request handlers that can step do
(`WF(TaskStep)`, the `Sync` actions): the operating system schedules them, locks
never wait, and a stage ends because each external command has a deadline. A
starting process goes on with its recovery, a draining one exits, and a process
that is gone is started again: the compose files say `restart: unless-stopped`.
Nothing obliges anyone to send a request, cancel, poll, crash, raise or let a
heartbeat expire. In `feedback`, the outbox delivers what is unanswered again and
again, a handler finishes, and a write that is tried infinitely often is committed
once: strong fairness, because `Abort` may undo a try. In `command`, the worker thread and
each reader thread are scheduled, and a process that was sent a signal it does not
ignore dies; no process has to end or print, and no cancellation or deadline has to
come.

### Findings

1. *Two active jobs for one configuration* (`jobs_twin_requests`): check and insert
   are separate transactions.
2. *A job executed by two processes* (`jobs_second_executor`): a worker whose claim
   missed looks at the re-read status only, and "running" is also what the other
   worker's claim leaves. The run lock then refuses one of them, whose refusal
   closes the job as failed while the other still runs it.
3. *A completed job becomes failed* (`jobs_late_recovery`): the recovery's UPDATE
   does not repeat the conditions of its SELECT.
4. *An older deployment event lands last* (`feedback_two_consumers`): the verdict is
   computed from a state another process may replace before the write.
5. *A production package holds another run's ONNX* (`stages_undeclared`): without a
   declared `produced_onnx` a command that writes nothing is believed because the
   target of an earlier run exists, and the trust gate does not ask for the
   declaration. The same holds of metrics read from a file no command was asked to
   make. Adapters that require external artifacts refuse both before they start.

Limits the passing runs mark out. `CancelIsHonoured` covers a cancellation up to the
re-read; one that falls between the re-read and the verdict is accepted and the job
still completes. `ExecutedIsClosed` begins after the claim's SELECT; a cancellation
between the claim's UPDATE and that SELECT makes the worker skip its own job, and only
the next restart closes it. `OrphansConverge` needs a stable worker id; with another
process id a restart within 120 s leaves fresh orphans in progress.
`ThreadLockHasHolder` and `AuditMatchesOutcome` exclude exceptions: one from
`ensure_dir` leaks the thread lock (`RaiseInLockDir`), one after the verdict adds a
failure to the audit trail of a closed job. An event that overtakes its predecessor, the
first event of a second version, and the second of two events within a millisecond are
judged rejected or stale for good: the properties of `feedback` say what remains true
then. `EventsInOrder` stops at a join that gave up and at an exception of the
cancellation check; the latter also leaves the command running after the run lock is
released (`CommandsEndInRun`, `RaiseInCheck`). `SignalledTreeEnds` stops at a helper
that ignores SIGTERM, which nobody looks at once the leader is gone, although
`docs/架构设计.md` says that the whole tree is ended. `OwnEvidence` needs a run nobody
writes beside. The run lock sees to that among pipelines (`LockShieldsRun`); scripts and
`POST /api/packages/create` do not take it, although `docs/架构设计.md`:100 says that the
command line, the synchronous API and workers cannot overwrite one directory together,
and neither does a command left by a run that was cut off. `CreatedIsCoherent` begins
with files nobody wrote since an evaluation completed: a package request after a
retraining that was not evaluated joins the new checkpoint to the old metrics. Nor does
a handed-over ONNX have to be the experiment's, although `docs/架构设计.md`:91 says that all
three stages of a production package were run by external commands and :95 that the card
records the origin of its ONNX: the card's digest is then of the foreign file, its
metrics and checkpoint of the experiment's. `LockShieldsRun` reads "nothing was cut off"
as no exception and no crash; a helper that ignores SIGTERM and outlives its leader
(`SignalledTreeEnds`) is a command that outlives its run too. `RowIsVerified` stops
where an upload, or a fetch of another version, writes the file between the digest check
and the count. `VerdictIsSound` stops at two faults and at two creations at once.
`SessionsFollowPassword` exempts a login that overtook the change of the password and
the window between the command's two UPDATEs. `RolloutsAreVetted` speaks of an approval
and a validation at some time, not of the latest. In `feedback` events are a millisecond
apart; that equal time stamps are handled is `LatestApplied`'s to say. `ReportTellsOnnx`
excludes exceptions and crashes, which leave a new file beside an old report.

## 4. Proofs

`PipelineJobsProofs`, for any sets of jobs, configurations, keys, processes,
worker ids and requests, any number of threads, and any bound on stops and faults;
assumptions are those of `PipelineJobs` (the constants' types; `None` and the
runners are distinct), plus the ones named:

| Theorem | Property | Needs |
|---|---|---|
| `TypeCorrect` | `TypeOK` | |
| `StagesExclusive` | `RunLockExclusive` | |
| `CancelledStaysUntouched` | `CancelledInQueueNeverRuns` | |
| `OwnerIsFinal` | `ClaimedOnce` | |
| `ClosedIsFinal` | `TerminalIsFinal` | one process |
| `ThreadLockHeld` | `ThreadLockHasHolder` | |
| `AuditAgrees` | `AuditMatchesOutcome` | one process |
| `SerialRequestsOneActive` | `OneActivePerConfig` | one request at a time |
| `ImplementsLifecycle` | `LifecycleSpec` (refinement of `JobLifecycle`) | one process |
| `CancellationsHonoured` | `CancelIsHonoured` | one process |

Argument. `TypeOK` is not inductive: `Finish` stores a report, so a run past its
stages must have one (`Reported`); `TakeThreadLock` stores a key, so an id in use
must name a configuration (`Known`); a claim stores the worker id of its process,
so tasks belong to live processes (`Served`). `TypeInv` is the four together. A
run in its stages holds the lock file of its experiment (`Locked`): a lock is
taken only when free and released only by its holder or its holder's death, and
exclusion follows because a file has one holder. `Claims` says that a job without
an owner is untouched and one in progress has an owner; the two theorems about
claims follow from it. With one process, `Selected` says that what recovery has
selected is still in progress when it is updated, because neither tasks nor
requests exist before recovery is done; this is the fact that fails with two
processes (finding 3). `Executed` ties the step of a job's one task to its row; the
refinement maps each action to one of `JobLifecycle` or to a stutter. With one
request at a time, `Checked` says that what `Submit` found is still true at
`Insert`; with two it fails (finding 1). `ThreadLockHasHolder` is inductive by itself:
every action but the two that take a thread's lock leaves each holder where it is, or
frees its lock (`HoldersStay`). `Audited` says that what is about to be audited is what
the table says; it is a closed job, so it stays so until the audit is written.
`CancelIsHonoured` speaks of the rest of a behaviour. `Honoured` is what lasts from a
cancellation before the re-read: the request is on the row, or the row is closed other
than by a completion, and a task that holds a verdict while the request is on the row
holds another one than "completed". With two processes the other one may run the same job
(finding 2) and hold a completion already.

`DeploymentFeedbackProofs`, for any versions, statuses, processes and number of events:
`FeedbackTypes` (`TypeOK`), `StateIsApplied`, `LatestApplied`, `AppliedPath`,
`VerdictOnce`, and, with one process, `SingleNeverGoesBack`. The invariant adds to the
properties that tables and handlers speak of emitted events only (`Emitted`) and that
Core's time stamps are monotone (`Monotone`): then an event newer by time stamp is newer
by emission, and the state is always the last applied event.

`StageCommandProofs`, for any number of commands, helpers, lines and failures of the
store, pipes and batches of any size: `TypeCorrect`, `LinesAreAccounted`,
`LogInOrder`, `LeadersEnd`. That a flush before the closing event finds every line
rests on three facts. A line is read after it is printed (`PipesOrdered`). A reader
that is not open has read everything, holds nothing, and its command has no live
process left to print (`ReadersQuiet`). And the worker passes the joins with all
readers of past commands ended unless a join gave up (`ReadersJoined`), while
commands to come have none yet (`ReadersToCome`), so no reader has a line in hand
when the flush comes. `OrderInv` adds what keeps the log complete afterwards.
`LeadersWatched` says that a live leader is the one being polled, was sent SIGKILL,
or was left by the exception.

`SessionsProofs`, for any processes, login threads (finitely many), clients, tokens,
commands and workloads: `SessionSafety`, `LockoutHolds` (`LockoutBounds`),
`SessionsFollow` (`SessionsFollowPassword`), `OnePasswordTold`, `EndedSessionsStayEnded`.
The throttle's bound is not inductive. What is (`AttemptsBounded`) bounds the
failures plus the logins of that client that have passed the check and not yet been
counted by the threshold less one plus the threads of the process: passing the check
needs a free thread, and counting moves one from the second to the first. Its
cardinalities are what makes the proof long. `PasswordsInOrder` says that a password in
force or covered by a session was invented before, and that none was before there is a
row, so that a new password differs from every earlier one; `OneBootstrap` that only
the process that made the row has a password to announce, the first.

`DatasetIntakeProofs`, for any requests, kinds, uploads, versions, process ids, retries and
deaths: `IntakeSafety`, `RowsAreVerified` (`RowIsVerified`), `DownloadsDoSettle`
(`DownloadsSettle`). `Fresh` and `Distinct` say that every inode in use has been counted
and that no two names stand for one; `Owned` that whoever fetches into an inode that has a
name writes the version of that name. What a fetch has made, and no upload has opened
(`Untouched`), holds its version or a part of it (`Pure`), and `Whole` that it has a writer
that will make it whole (`Mending`) unless somebody died: this is why a torn file heals.
`Unshared` says that without sharing a writer's temporary name still leads to its inode
and nobody else writes there, so what is published is complete and stays so. `Vouched`
carries the digest check's answer to the count and to the row: what a request that is not
in `stale` finds at its path is what it checked, or a part of it after sharing (`Good`).
Each write is either of the version the request names or puts the request into `stale`
(`VouchedKept`).

`ReleaseGateProofs`, for any models, clerks and bounds: `ReleaseTypes`, `VettedRollouts`
(`RolloutsAreVetted`). `StageIsProven` says that a model registered beyond "smoke" was
once validated strictly, `RecordsAreSound` that an approval names such a model and was
valid unless its file was swapped, `ClerkSound` that what a clerk has read is still true
in the sense the gate needs: `proven` and `approvals` only grow and no entry is
deleted, so facts read one after the other hold together at the insert (`Grows`).

`ExperimentRunProofs`, for any pipelines, scripts, creators, workloads and number of
faults: `TypeCorrect`, `LockShields` (`LockShieldsRun`), `PackagesFollowStages`
(`PackagedAfterStages`), `PackagesHoldOwnEvidence` (`OwnEvidence`), `ReportsTell`
(`ReportTellsOnnx`), `CreatedCardsCohere` (`CreatedIsCoherent`). A call ends with
the status of its last stage, so `TypeOK` needs `Concluded`: a caller past a stage
has a verdict. `ShieldInv` joins the lock (an active pipeline holds it) to the
commands (one that runs is waited for, until something is cut off): then whoever
writes is the holder, and nobody else is at work. `OrderInv` says that a pipeline in
a stage has completed those before it. `OnItsOwn` follows one run: while its command
runs, the product is the one found before or its own, so a product that passes the
freshness test is its own, the export made of it goes back to this run, and so do
the metrics measured on that; steps of others either leave the files alone or mark
the run as disturbed. A card names its writer (`Signed`), so what holds when it is
written holds as long as it lies there. `TellsInv` says that the export report describes
the exported file except while somebody is in an export, and that every export ends in a
report. Here the fingerprint and the report are taken in one step, so the proof
does not need the condition that nobody overlapped; the code takes two, and the property
keeps the condition. `CoherentInv` joins a pipeline to the package request that
follows it. The pipeline leaves on disk the reports it has gone by (`Filed`), so when it
completes the checkpoint, the exported file and both reports go back to it
(`OneModel`). The request's own export keeps `OneModel`, because it reads the checkpoint
of that run (`ModelKept`), everyone else's step marks the request as disturbed, and what it
has loaded is still what lies there (`Believes`). What the request packages is the file of
`OneModel`, or the foreign one it was handed.

`ServicesProofs` has three parts.

*Packages*: `PackageTypes`, `VerdictsAreSound` (`VerdictIsSound`), for any creations,
validations, contents, signatures and processes. The invariant `PackageInv` follows the
three files through any number of creations. `InOrder` says what an undisturbed creation
has put in place at each of its steps. `CardFits` says that a card names its own model
unless it is misnamed, `Follows` whose labels lie beside whose card: as long as no creation
broke off, both are of one, made for the model; after one broke off, the labels are the
card's or were made for the very content that is the model now (`Matched`), and this is all
that is true. `CacheIsTrue` says that a cached digest belongs to its signature unless a
model was replaced between stat and read, `CalmHolds` that what a validation nobody
disturbed has seen still lies there, and `CheckHolds` what each of its reads has
established. The verdict has two arguments. If no creation broke off, model, labels and card
are of one creation whatever the digest is; then the cache is true, or the card names its
own model and the comparison betrays the cache. If one broke off, there is no other fault: the
digest is true, the card that names it is of the model, and so are the labels.

*The log*: `LogTypes` and `NothingIsTwice` on all three stores; on the SQLite stores
`LogIsFeed` (`FollowsFeed`, the refinement of `LogFeed`) and `NothingIsMissed`, for any threads, numbers of lines and
page limits. `LogInv` says that on SQLite only the writer has inserted anything
(`OneInserts`), that its open rows are the last ones of the table and the beginning of its
batch, and that every row below them is settled (`OpenRowsLast`): so a commit publishes
at the end, a rollback gives back the last ids, and on the shared connection the rows of a
failed batch are a beginning of it. `BufferOrdered` and `BatchesApart` say that the lines of
the buffer go on where the batches of their streams left off and that no line is in two
batches, which is what makes a batch taken under the lock continue the feed. The steps
map to steps of `LogFeed` or to stutters (an `INSERT` stutters, a `COMMIT` is `Publish`,
an answer is `Join` or `Deliver`). `NothingIsMissed` is drawn from the feed's actions, not
from the code's: with `ClientInv` a client that joins and follows has each stored row
between the first and the last it got, once and in ascending order. Both
theorems assume `"postgres" \notin Stores`; on PostgreSQL TLC refutes `FollowsFeed`
(section 2). What remains there is `LinesOnce`: a committed line is in one row and no client
gets it twice. Its invariant `OnceInv` adds that rows stand for lines that have left the
buffer and that what is left of a batch is in no row yet; `Forward` that the client moves
over committed rows only.

*The services together*: `EachServiceRuns` says that a behaviour of `MCServices` is one of
each of the five machines, so that what is proved of each holds of the specification
TLC runs: `ServicesTypes` (`ServicesTypeOK`) and `ServicesKeepTheirPromises`
(`LockoutBounds`, `SessionsFollowPassword`, `RowIsVerified`, `DownloadsSettle`,
`VerdictIsSound`, `RolloutsAreVetted`).

Only model-checked: everything under fairness (`QueuedIsServed`,
`ExecutedIsClosed`, `OrphansConverge`, `EveryEventIsAnswered`, `SignalledTreeEnds`,
`ExpiredIsOver`, `PipesDrain`), which is out of the prover's reach. Every invariant and
every other action or temporal property of the passing runs is a theorem, some under the
condition on the number of processes or requests given above.

## 5. Plan

1. The stages `PipelineJobs` takes in one step: `ExperimentRun` refines the report
   `FinishStages` may give; liveness of a run (every run ends) under fair commands.
2. The life of the store itself: initialization by several processes, journal modes, the
   reset of an empty database, the pool.

Not modelled: the object store behind an upload, settings and naming (no state of their
own), the static token and the Core mode of authentication (checks of headers),
downloads of single files, uploads of other files than manifests, error analysis,
templates and other listings (one read or one write), experiments and their index (one
upsert), `artifact_bundle.py`, the frontend, scripts, migrations and deployment files
(views, or run by an operator with the service stopped). Of what is modelled, audit
events other than those of jobs are left out: each comes after its row, and its loss is
promised nowhere not to happen.
