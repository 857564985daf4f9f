----------------------------- MODULE JobLogFeed -----------------------------
(***************************************************************************)
(* The log of one pipeline job: the two threads that pump a command's      *)
(* output and the executor share _JobLogBuffer and store batches through   *)
(* connect(); a client follows the log with tail and since_id, and the     *)
(* maintenance loop deletes old rows (api.py, local_tasks.py, storage.py). *)
(*                                                                         *)
(* A batch is taken under the buffer's lock and stored after it, so one    *)
(* thread's batch may overtake another's.  The store is one of:            *)
(*   file      SQLite, a connection per thread, one writer at a time       *)
(*   memory    SQLite, one connection behind a lock, which never rolls back*)
(*   postgres  ids come from a sequence when a row is inserted             *)
(***************************************************************************)
EXTENDS Naturals, Sequences

CONSTANTS
  Stores,     \* which stores: a subset of {"file", "memory", "postgres"}
  Pumps,      \* the threads that read a stream each
  Executor,   \* the thread that runs the job
  Emits,      \* bound: how many lines each thread has to log
  PageLimit,  \* limit of the client's requests
  NoThread

Loggers == Pumps \cup {Executor}

ASSUME JobLogAssumption ==
  /\ Stores \subseteq {"file", "memory", "postgres"}
  /\ Executor \notin Pumps
  /\ NoThread \notin Loggers
  /\ Emits \in [Loggers -> Nat]
  /\ PageLimit \in Nat \ {0}

VARIABLES
  store,     \* the kind of store
  emitted,   \* each thread: how many of its lines it has logged
  pending,   \* _JobLogBuffer._pending: lines <<thread, n>>
  taken,     \* each thread: the batch it is storing
  inserted,  \* each thread: how many lines of it are inserted
  logRow,    \* pipeline_job_logs by id: [line, state]
  writer,    \* who may write: SQLite's write lock, or the lock of the shared connection
  since,     \* the client: the id of the last line it has
  delivered, \* the client: the ids it has got
  alive      \* the process runs

logVars == <<store, emitted, pending, taken, inserted, logRow, writer, since, delivered, alive>>
clientVars == <<since, delivered>>

JobLogInit ==
  /\ store     \in Stores
  /\ emitted   = [t \in Loggers |-> 0]
  /\ pending   = <<>>
  /\ taken     = [t \in Loggers |-> <<>>]
  /\ inserted  = [t \in Loggers |-> 0]
  /\ logRow    = <<>>
  /\ writer    = NoThread
  /\ since     = 0
  /\ delivered = <<>>
  /\ alive     = TRUE

CanLog(t)   == alive /\ taken[t] = <<>> /\ emitted[t] < Emits[t]
NextLine(t) == <<t, emitted[t] + 1>>

\* add() below max_entries and max_interval.
AddLine(t) ==
  /\ CanLog(t)
  /\ t \in Pumps
  /\ pending' = Append(pending, NextLine(t))
  /\ emitted' = [emitted EXCEPT ![t] = @ + 1]
  /\ UNCHANGED <<store, taken, inserted, logRow, writer, clientVars, alive>>

\* add() that finds the buffer due takes it along.
AddAndTake(t) ==
  /\ CanLog(t)
  /\ t \in Pumps
  /\ taken' = [taken EXCEPT ![t] = Append(pending, NextLine(t))]
  /\ emitted' = [emitted EXCEPT ![t] = @ + 1]
  /\ pending' = <<>>
  /\ UNCHANGED <<store, inserted, logRow, writer, clientVars, alive>>

\* flush(): before an event of the pipeline and when the job is over.
TakeBuffer ==
  /\ alive
  /\ taken[Executor] = <<>>
  /\ pending # <<>>
  /\ taken' = [taken EXCEPT ![Executor] = pending]
  /\ pending' = <<>>
  /\ UNCHANGED <<store, emitted, inserted, logRow, writer, clientVars, alive>>

\* record_pipeline_job_log: a batch of one.
LogEvent ==
  /\ CanLog(Executor)
  /\ taken' = [taken EXCEPT ![Executor] = <<NextLine(Executor)>>]
  /\ emitted' = [emitted EXCEPT ![Executor] = @ + 1]
  /\ UNCHANGED <<store, pending, inserted, logRow, writer, clientVars, alive>>

-----------------------------------------------------------------------------
(* connect() around the INSERTs of a batch. *)

OpenRow(line) == [line |-> line, state |-> "open"]

\* Mutant: connections write whenever they like, whatever the store.
InsertUnlocked(t) ==
  /\ alive
  /\ inserted[t] < Len(taken[t])
  /\ logRow' = Append(logRow, OpenRow(taken[t][inserted[t] + 1]))
  /\ inserted' = [inserted EXCEPT ![t] = @ + 1]
  /\ UNCHANGED <<store, emitted, pending, taken, writer, clientVars, alive>>

InsertRow(t) ==
  /\ alive
  /\ inserted[t] < Len(taken[t])
  /\ store # "postgres" => writer \in {NoThread, t}
  /\ logRow' = Append(logRow, OpenRow(taken[t][inserted[t] + 1]))
  /\ inserted' = [inserted EXCEPT ![t] = @ + 1]
  /\ writer' = IF store = "postgres" THEN writer ELSE t
  /\ UNCHANGED <<store, emitted, pending, taken, clientVars, alive>>

Mine(t, i)   == logRow[i].state = "open" /\ \E j \in DOMAIN taken[t] : taken[t][j] = logRow[i].line
SettleAs(t, state) ==
  [i \in DOMAIN logRow |-> IF Mine(t, i) THEN [logRow[i] EXCEPT !.state = state] ELSE logRow[i]]
Release(t) ==
  /\ taken' = [taken EXCEPT ![t] = <<>>]
  /\ inserted' = [inserted EXCEPT ![t] = 0]
  /\ writer' = IF writer = t THEN NoThread ELSE writer

Commit(t) ==
  /\ alive
  /\ taken[t] # <<>>
  /\ inserted[t] = Len(taken[t])
  /\ logRow' = SettleAs(t, "stored")
  /\ Release(t)
  /\ UNCHANGED <<store, emitted, pending, clientVars, alive>>

\* A transaction of SQLite that is undone gives back its ids, the last ones.
Undone(t) == SubSeq(logRow, 1, Len(logRow) - inserted[t])

\* The INSERT, the lock or the commit fails, and the batch is dropped.  What the shared
\* connection has inserted is stored by whoever commits next, before anyone can look.
FailBatch(t) ==
  /\ alive
  /\ taken[t] # <<>>
  /\ logRow' = CASE store = "file"     -> IF writer = t THEN Undone(t) ELSE logRow
                 [] store = "memory"   -> SettleAs(t, "stored")
                 [] store = "postgres" -> SettleAs(t, "gone")
  /\ Release(t)
  /\ UNCHANGED <<store, emitted, pending, clientVars, alive>>

\* The process dies; a store in its memory would die with it.
EndProcess ==
  /\ alive
  /\ store # "memory"
  /\ alive' = FALSE
  /\ pending' = <<>>
  /\ taken' = [t \in Loggers |-> <<>>]
  /\ inserted' = [t \in Loggers |-> 0]
  /\ logRow' = IF store = "file" /\ writer # NoThread THEN Undone(writer)
               ELSE [i \in DOMAIN logRow |->
                       IF logRow[i].state = "open" THEN [logRow[i] EXCEPT !.state = "gone"]
                       ELSE logRow[i]]
  /\ writer' = NoThread
  /\ UNCHANGED <<store, emitted, clientVars>>

-----------------------------------------------------------------------------
(* The client, and the maintenance loop. *)

\* A reader of the shared connection waits for its lock.
CanRead == store = "memory" => writer = NoThread

Stored == {i \in DOMAIN logRow : logRow[i].state = "stored"}

\* ORDER BY id: the page lists the ids, from the smallest on.
ById(page, ids) ==
  /\ {page[k] : k \in DOMAIN page} = ids
  /\ \A j, k \in DOMAIN page : j < k => page[j] < page[k]

\* since_id, and no since_id at first: the oldest rows after it.
PollSince ==
  \E n \in 1 .. PageLimit : \E page \in [1 .. n -> Stored] :
    /\ CanRead
    /\ ById(page, {i \in Stored : since < i /\ i <= page[n]})
    /\ n < PageLimit => \A i \in Stored : i <= page[n]
    /\ since' = page[n]
    /\ delivered' = delivered \o page
    /\ UNCHANGED <<store, emitted, pending, taken, inserted, logRow, writer, alive>>

\* tail: the newest rows, in ascending order; PollSince if all fit into a page.
PollTail ==
  \E page \in [1 .. PageLimit -> Stored] :
    /\ CanRead
    /\ since = 0
    /\ ById(page, {i \in Stored : page[1] <= i})
    /\ since' = page[PageLimit]
    /\ delivered' = page
    /\ UNCHANGED <<store, emitted, pending, taken, inserted, logRow, writer, alive>>

\* purge_old_records: a time in the past divides the rows, and created_at was set
\* before the INSERT, so the older row need not have the smaller id.
PurgeLogs ==
  /\ \E old \in SUBSET Stored :
       logRow' = [i \in DOMAIN logRow |->
                    IF i \in old THEN [logRow[i] EXCEPT !.state = "purged"] ELSE logRow[i]]
  /\ store # "postgres" => writer = NoThread
  /\ UNCHANGED <<store, emitted, pending, taken, inserted, writer, clientVars, alive>>

JobLogNext ==
  \/ \E t \in Loggers :
       \/ AddLine(t)
       \/ AddAndTake(t)
       \/ InsertRow(t)
       \/ Commit(t)
       \/ FailBatch(t)
  \/ TakeBuffer
  \/ LogEvent
  \/ EndProcess
  \/ PollSince
  \/ PollTail
  \/ PurgeLogs

JobLogSpec == JobLogInit /\ [][JobLogNext]_logVars

-----------------------------------------------------------------------------

\* Every variable keeps its type.
JobLogTypeOK ==
  /\ store     \in Stores
  /\ emitted   \in [Loggers -> Nat]
  /\ pending   \in Seq(Pumps \X Nat)
  /\ taken     \in [Loggers -> Seq(Loggers \X Nat)]
  /\ inserted  \in [Loggers -> Nat]
  /\ logRow    \in Seq([line: Loggers \X Nat, state: {"open", "stored", "gone", "purged"}])
  /\ writer    \in Loggers \cup {NoThread}
  /\ since     \in Nat
  /\ delivered \in Seq(Nat)
  /\ alive     \in BOOLEAN

\* Rows committed at some time, and the lines that no longer wait in the buffer.
Published == {i \in DOMAIN logRow : logRow[i].state \in {"stored", "purged"}}
Batched   == (UNION {{<<t, n>> : n \in 1 .. emitted[t]} : t \in Loggers})
             \ {pending[k] : k \in DOMAIN pending}

Feed == INSTANCE LogFeed WITH
  feedTaken     <- Batched,
  feedHeld      <- {taken[t] : t \in Loggers} \ {<<>>},
  feedPublished <- [i \in Published |-> logRow[i].line],
  feedRemoved   <- Published \ Stored,
  feedPosition  <- since,
  feedDelivered <- delivered,
  feedForgiving <- store = "memory"

\* On SQLite the log is the feed that LogFeed promises: batches are stored whole although
\* threads interleave, fail and die, and since_id misses no row, because ids appear in
\* the order of the commits.  Not so on PostgreSQL.
FollowsFeed == Feed!FeedSpec
=============================================================================
