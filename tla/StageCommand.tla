---------------------------- MODULE StageCommand ----------------------------
(***************************************************************************)
(* The external commands of one pipeline run (_run_external_command and    *)
(* _StreamCollector in adapters/local_tasks.py) and the buffer that takes  *)
(* their output to pipeline_job_logs (_JobLogBuffer in api.py).            *)
(*                                                                         *)
(* A worker thread, the runner, starts one command per stage and polls it. *)
(* A command is a tree of processes; two reader threads take its output    *)
(* line by line and share the buffer with the runner, which empties it     *)
(* before every stage event.  The batch is written after the buffer's lock *)
(* is released, by whoever took it.                                        *)
(***************************************************************************)
EXTENDS Naturals, FiniteSets

CONSTANTS
  NCommands,   \* commands of the run, one per stage
  MaxLines,    \* bound on the lines each command prints
  Capacity,    \* lines that fit in a pipe
  BatchSize,   \* _JobLogBuffer max_entries
  Leader,      \* the process Popen starts
  Helpers,     \* processes each command forks: data loaders, torchrun ranks
  MaxFaults,   \* bound on the exceptions raised by the store
  None

Commands == 1..NCommands
Streams  == {"stdout", "stderr"}
Procs(c) == {Leader} \cup Helpers[c]
Forked   == UNION {Procs(c) : c \in Commands}
Lines    == Commands \X Streams \X Nat

ASSUME BoundAssumption  == NCommands \in Nat \ {0} /\ MaxLines \in [Commands -> Nat] /\ MaxFaults \in Nat
ASSUME BatchAssumption  == Capacity \in Nat \ {0} /\ BatchSize \in Nat \ {0}
ASSUME LeaderAssumption == \A c \in Commands : Leader \notin Helpers[c]

VARIABLES
  step, event,     \* the runner: where it is, and the event it is about to record
  at,              \* its command
  result,          \* what each command came to
  tree,            \* the live processes of each command
  termed, killed,  \* the processes SIGTERM and SIGKILL were sent to
  deaf,            \* those of the group that ignore SIGTERM
  written, read,   \* how many lines of each stream went into the pipe, and out of it
  reader,          \* the _StreamCollector of each stream
  pending,         \* _JobLogBuffer._pending
  hand,            \* the batch a reader has taken and not yet written
  stored, dropped, \* lines in pipeline_job_logs, and lines the store failed to take
  events,          \* stage events in pipeline_job_logs
  requested,       \* the job's row says cancellation_requested
  expired,         \* the deadline of the polled command is over
  late,            \* history: a join gave up before its reader had ended
  faults

runner  == <<step, event, at, result>>
group   == <<tree, termed, killed, deaf>>
pipes   == <<written, read, reader>>
buffer  == <<pending, hand>>
logs    == <<stored, dropped, events>>
env     == <<requested, expired, late, faults>>
vars    == <<runner, group, pipes, buffer, logs, env>>

Results == {"ok", "failed", "cancelled", "timeout", "raised"}
Steps   == {"flush", "event", "check", "start", "poll",
            "term", "wait", "wait2", "join_stdout", "join_stderr", "done"}
Events  == {"started", "ended", "last"}

Init ==
  /\ step = "flush" /\ event = "started" /\ at = 1
  /\ result = [c \in Commands |-> None]
  /\ tree   = [c \in Commands |-> {}]
  /\ termed = [c \in Commands |-> {}]
  /\ killed = [c \in Commands |-> {}]
  /\ deaf = {}
  /\ written = [c \in Commands |-> [s \in Streams |-> 0]]
  /\ read    = [c \in Commands |-> [s \in Streams |-> 0]]
  /\ reader  = [c \in Commands |-> [s \in Streams |-> "none"]]
  /\ pending = {}
  /\ hand = [c \in Commands |-> [s \in Streams |-> {}]]
  /\ stored = {} /\ dropped = {} /\ events = {}
  /\ requested = FALSE /\ expired = FALSE
  /\ late = FALSE
  /\ faults = 0

Goto(s) == step' = s /\ UNCHANGED event

\* event_sink begins with a flush.
Emit(e) == step' = "flush" /\ event' = e

-----------------------------------------------------------------------------
(***************************************************************************)
(* event_sink: flush the buffer, then record the event.                    *)
(***************************************************************************)

\* Mutant: the batch is written and the buffer not emptied.
FlushCopy ==
  /\ step = "flush"
  /\ stored' = stored \cup pending
  /\ Goto(IF event = "last" THEN "done" ELSE "event")
  /\ UNCHANGED <<at, result, group, pipes, buffer, dropped, events, env>>

\* _JobLogBuffer.flush: the runner takes everything and writes it, in one transaction
\* or not at all.  One step: between the two nobody else looks at its batch.
Flush ==
  /\ step = "flush"
  /\ \/ /\ stored' = stored \cup pending
        /\ UNCHANGED <<dropped, faults>>
     \/ /\ faults < MaxFaults /\ pending # {}
        /\ faults'  = faults + 1
        /\ dropped' = dropped \cup pending
        /\ UNCHANGED stored
  /\ pending' = {}
  /\ Goto(IF event = "last" THEN "done" ELSE "event")
  /\ UNCHANGED <<at, result, group, pipes, hand, events, requested, expired, late>>

\* Mutant: the next stage is begun whether there is one or not.
RecordEventAlwaysNext ==
  /\ step = "event"
  /\ events' = events \cup {<<at, event>>}
  /\ \/ event = "started" /\ Goto("start")
     \/ event = "ended" /\ result[at] = "ok" /\ Goto("check")
     \/ event = "ended" /\ result[at] # "ok" /\ Emit("last")
  /\ UNCHANGED <<at, result, group, pipes, buffer, stored, dropped, env>>

\* A stage that did not complete ends the run; the task's finally flushes once more.
RecordEvent ==
  /\ step = "event"
  /\ events' = events \cup {<<at, event>>}
  /\ \/ event = "started" /\ Goto("start")
     \/ /\ event = "ended"
        /\ IF result[at] = "ok" /\ at < NCommands THEN Goto("check") ELSE Emit("last")
  /\ UNCHANGED <<at, result, group, pipes, buffer, stored, dropped, env>>

\* Between two stages: the run goes on, or the check has seen the cancellation.
Check ==
  /\ step = "check"
  /\ \/ at' = at + 1 /\ Emit("started")
     \/ requested /\ UNCHANGED at /\ Emit("last")
  /\ UNCHANGED <<result, group, pipes, buffer, logs, env>>

\* The store fails at the event or at this check: the exception ends the run.
RaiseBetween ==
  /\ step \in {"event", "check"}
  /\ faults < MaxFaults
  /\ faults' = faults + 1
  /\ Emit("last")
  /\ UNCHANGED <<at, result, group, pipes, buffer, logs, requested, expired, late>>

-----------------------------------------------------------------------------
(***************************************************************************)
(* _run_external_command.                                                  *)
(***************************************************************************)

Conclude(verdict) == result' = [result EXCEPT ![at] = verdict]

\* The check before the start, then Popen and the two collectors, or OSError.  A
\* throttled check answers no.
Start ==
  /\ step = "start"
  /\ \/ /\ tree'   = [tree EXCEPT ![at] = Procs(at)]
        /\ reader' = [reader EXCEPT ![at] = [s \in Streams |-> "open"]]
        /\ Goto("poll")
        /\ UNCHANGED result
     \/ /\ \/ Conclude("failed")
           \/ requested /\ Conclude("cancelled")
        /\ Emit("ended")
        /\ UNCHANGED <<tree, reader>>
  /\ UNCHANGED <<at, termed, killed, deaf, written, read, buffer, logs, env>>

\* Mutant: the deadline is not looked at.
PollWithoutDeadline ==
  /\ step = "poll"
  /\ \/ /\ Leader \notin tree[at]
        /\ \E verdict \in {"ok", "failed"} : Conclude(verdict)
        /\ Goto("join_stdout")
     \/ /\ Leader \in tree[at]
        /\ requested /\ Conclude("cancelled")
        /\ Goto("term")
  /\ expired' = FALSE
  /\ UNCHANGED <<at, group, pipes, buffer, logs, requested, late, faults>>

\* A round of the loop that ends it: the leader has ended, with some exit code, or a
\* check has seen the cancellation, or the deadline is over.
Poll ==
  /\ step = "poll"
  /\ \/ /\ Leader \notin tree[at]
        /\ \E verdict \in {"ok", "failed"} : Conclude(verdict)
        /\ Goto("join_stdout")
     \/ /\ Leader \in tree[at]
        /\ \/ requested /\ Conclude("cancelled")
           \/ expired /\ Conclude("timeout")
        /\ Goto("term")
  /\ expired' = FALSE
  /\ UNCHANGED <<at, group, pipes, buffer, logs, requested, late, faults>>

\* The store fails under should_cancel (_CancelCheck catches KeyError only): the
\* exception leaves the loop, and _run_stage_safely makes a failed stage of it.
RaiseInCheck ==
  /\ step \in {"start", "poll"}
  /\ faults < MaxFaults
  /\ faults' = faults + 1
  /\ Conclude("raised")
  /\ Emit("ended")
  /\ expired' = FALSE
  /\ UNCHANGED <<at, group, pipes, buffer, logs, requested, late>>

-----------------------------------------------------------------------------
(***************************************************************************)
(* _terminate_process_tree (POSIX) and _finalize.                          *)
(***************************************************************************)

\* Mutant: process.terminate() reaches the leader alone.
TerminateLeader ==
  /\ step = "term"
  /\ IF Leader \notin tree[at]
     THEN Goto("join_stdout") /\ UNCHANGED <<termed, deaf>>
     ELSE /\ termed' = [termed EXCEPT ![at] = {Leader}]
          /\ deaf' \in SUBSET {Leader}
          /\ Goto("wait")
  /\ UNCHANGED <<at, result, tree, killed, pipes, buffer, logs, env>>

\* SIGTERM to the group; some of it may ignore it.  A leader that has just ended is
\* left alone, and its helpers with it.
Terminate ==
  /\ step = "term"
  /\ IF Leader \notin tree[at]
     THEN Goto("join_stdout") /\ UNCHANGED <<termed, deaf>>
     ELSE /\ termed' = [termed EXCEPT ![at] = tree[at]]
          /\ deaf' \in SUBSET tree[at]
          /\ Goto("wait")
  /\ UNCHANGED <<at, result, tree, killed, pipes, buffer, logs, env>>

\* Mutant: a leader that does not answer SIGTERM is left alone.
WaitOnce ==
  /\ step = "wait"
  /\ Goto("join_stdout")
  /\ UNCHANGED <<at, result, group, pipes, buffer, logs, env>>

\* wait(timeout=5) looks at the leader only; SIGKILL is for one that outlives it.
Wait ==
  /\ step = "wait"
  /\ IF Leader \notin tree[at]
     THEN Goto("join_stdout") /\ UNCHANGED killed
     ELSE killed' = [killed EXCEPT ![at] = tree[at]] /\ Goto("wait2")
  /\ UNCHANGED <<at, result, tree, termed, deaf, pipes, buffer, logs, env>>

\* The second wait is given up after five seconds too.
WaitAfterKill ==
  /\ step = "wait2"
  /\ Goto("join_stdout")
  /\ UNCHANGED <<at, result, group, pipes, buffer, logs, env>>

Joined(s) == IF s = "stdout" THEN Goto("join_stderr") ELSE Emit("ended")

\* Mutant: the readers are not joined.
JoinNothing(s) ==
  /\ step = IF s = "stdout" THEN "join_stdout" ELSE "join_stderr"
  /\ Joined(s)
  /\ UNCHANGED <<at, result, group, pipes, buffer, logs, env>>

\* join(5.0): the reader has ended, or the runner goes on without it.
Join(s) ==
  /\ step = IF s = "stdout" THEN "join_stdout" ELSE "join_stderr"
  /\ late' = (late \/ reader[at][s] # "closed")
  /\ Joined(s)
  /\ UNCHANGED <<at, result, group, pipes, buffer, logs, requested, expired, faults>>

-----------------------------------------------------------------------------
(***************************************************************************)
(* The processes of a command, and the readers of its output.              *)
(***************************************************************************)

Full(c, s) == written[c][s] - read[c][s] = Capacity

\* A live process prints a line; with a full pipe it is blocked.
Output(c, s) ==
  /\ tree[c] # {}
  /\ written[c]["stdout"] + written[c]["stderr"] < MaxLines[c]
  /\ ~Full(c, s)
  /\ written' = [written EXCEPT ![c][s] = @ + 1]
  /\ UNCHANGED <<runner, group, read, reader, buffer, logs, env>>

\* A process ends of its own accord, in whatever order ...
Exit(c, p) ==
  /\ p \in tree[c]
  /\ tree' = [tree EXCEPT ![c] = @ \ {p}]
  /\ UNCHANGED <<runner, termed, killed, deaf, pipes, buffer, logs, env>>

\* ... or by the signal sent to the group.
Die(c, p) ==
  /\ p \in killed[c] \cup (termed[c] \ deaf)
  /\ Exit(c, p)

\* Mutant: the output is read once the command is over.
ReadAfterwards(c, s) ==
  /\ reader[c][s] = "open" /\ hand[c][s] = {}
  /\ read[c][s] < written[c][s]
  /\ step \in {"join_stdout", "join_stderr"}
  /\ read' = [read EXCEPT ![c][s] = @ + 1]
  /\ pending' = {}
  /\ hand' = [hand EXCEPT ![c][s] = pending \cup {<<c, s, read[c][s] + 1>>}]
  /\ UNCHANGED <<runner, group, written, reader, logs, env>>

\* _pump and _JobLogBuffer.add: the line goes to the buffer; the reader takes the
\* whole buffer when it has BatchSize lines, or when a second has passed.
Read(c, s) ==
  /\ reader[c][s] = "open" /\ hand[c][s] = {}
  /\ read[c][s] < written[c][s]
  /\ read' = [read EXCEPT ![c][s] = @ + 1]
  /\ LET lines == pending \cup {<<c, s, read[c][s] + 1>>}
     IN  \/ /\ Cardinality(lines) < BatchSize
            /\ pending' = lines
            /\ UNCHANGED hand
         \/ /\ pending' = {}
            /\ hand' = [hand EXCEPT ![c][s] = lines]
  /\ UNCHANGED <<runner, group, written, reader, logs, env>>

\* _write, outside the lock; a failure is logged and the batch is gone.
Write(c, s) ==
  /\ hand[c][s] # {}
  /\ \/ /\ stored' = stored \cup hand[c][s]
        /\ UNCHANGED <<dropped, faults>>
     \/ /\ faults < MaxFaults
        /\ faults'  = faults + 1
        /\ dropped' = dropped \cup hand[c][s]
        /\ UNCHANGED stored
  /\ hand' = [hand EXCEPT ![c][s] = {}]
  /\ UNCHANGED <<runner, group, pipes, pending, events, requested, expired, late>>

\* readline returns "" once the pipe is empty and nobody holds its other end.
Close(c, s) ==
  /\ reader[c][s] = "open" /\ hand[c][s] = {}
  /\ read[c][s] = written[c][s]
  /\ tree[c] = {}
  /\ reader' = [reader EXCEPT ![c][s] = "closed"]
  /\ UNCHANGED <<runner, group, written, read, buffer, logs, env>>

-----------------------------------------------------------------------------

\* request_pipeline_job_cancel, by another thread or process.
Request ==
  /\ ~requested
  /\ requested' = TRUE
  /\ UNCHANGED <<runner, group, pipes, buffer, logs, expired, late, faults>>

\* The deadline passes.
Expire ==
  /\ step = "poll"
  /\ ~expired
  /\ expired' = TRUE
  /\ UNCHANGED <<runner, group, pipes, buffer, logs, requested, late, faults>>

Runner ==
  \/ Flush \/ RecordEvent \/ Check
  \/ Start \/ Poll
  \/ Terminate \/ Wait \/ WaitAfterKill
  \/ \E s \in Streams : Join(s)

Reader(c, s) == Read(c, s) \/ Write(c, s) \/ Close(c, s)

\* The run is over; what it started may still be there.
Finished ==
  /\ step = "done"
  /\ UNCHANGED vars

Next ==
  \/ Runner \/ RaiseBetween \/ RaiseInCheck
  \/ \E c \in Commands, s \in Streams : Output(c, s) \/ Reader(c, s)
  \/ \E c \in Commands, p \in Forked : Exit(c, p) \/ Die(c, p)
  \/ Request \/ Expire
  \/ Finished

Spec == Init /\ [][Next]_vars

(***************************************************************************)
(* Threads are scheduled and a signalled process that does not ignore the  *)
(* signal dies.  No process has to end by itself or to print, nobody has   *)
(* to cancel, and no deadline has to pass.                                 *)
(***************************************************************************)
Fairness ==
  /\ WF_vars(Runner)
  /\ \A s \in Streams : WF_vars(\E c \in Commands : Reader(c, s))
  /\ WF_vars(\E c \in Commands, p \in Forked : Die(c, p))

FairSpec == Spec /\ Fairness
-----------------------------------------------------------------------------

RunnerType ==
  /\ step \in Steps /\ event \in Events /\ at \in Commands
  /\ result \in [Commands -> Results \cup {None}]
GroupType ==
  /\ tree   \in [Commands -> SUBSET Forked]
  /\ termed \in [Commands -> SUBSET Forked]
  /\ killed \in [Commands -> SUBSET Forked]
  /\ deaf \subseteq Forked
PipeType ==
  /\ written \in [Commands -> [Streams -> Nat]]
  /\ read    \in [Commands -> [Streams -> Nat]]
  /\ reader  \in [Commands -> [Streams -> {"none", "open", "closed"}]]
LogType ==
  /\ pending \subseteq Lines
  /\ hand \in [Commands -> [Streams -> SUBSET Lines]]
  /\ stored \subseteq Lines /\ dropped \subseteq Lines
  /\ events \subseteq Commands \X Events
EnvType ==
  /\ requested \in BOOLEAN /\ expired \in BOOLEAN
  /\ late \in BOOLEAN
  /\ faults \in Nat

\* Every variable keeps its type: results, signals and lines are those the code
\* can produce.
TypeOK == RunnerType /\ GroupType /\ PipeType /\ LogType /\ EnvType

InHand == UNION {hand[c][s] : c \in Commands, s \in Streams}

\* Every line that was read is in one place: waiting, in one reader's hands, stored, or
\* lost to a failing store; none is lost or written twice, however the readers and the
\* runner take turns at the buffer (_JobLogBuffer.add, flush, _write).
LinesAccounted ==
  /\ \A c \in Commands, s \in Streams : \A n \in 1..MaxLines[c] :
       n <= read[c][s] <=> <<c, s, n>> \in pending \cup InHand \cup stored \cup dropped
  /\ pending \cap (InHand \cup stored \cup dropped) = {}
  /\ InHand \cap (stored \cup dropped) = {}
  /\ stored \cap dropped = {}
  /\ \A c, d \in Commands, s, t \in Streams :
       <<c, s>> # <<d, t>> => hand[c][s] \cap hand[d][t] = {}

\* "Keeps the order of events": the output of a stage is stored before the event that
\* ends it, so a reader of the log never meets a line of a stage that is over.  Not so
\* when a join gave up on a reader or the check raised (_finalize, event_sink).
EventsInOrder ==
  ~late => \A c \in Commands :
    <<c, "ended">> \in events /\ result[c] # "raised" =>
      \A s \in Streams : \A n \in 1..written[c][s] : <<c, s, n>> \in stored \cup dropped

\* When the run is over, and its lock is released, the leaders of its commands are
\* gone, unless the check raised in the middle of one (RaiseInCheck) or one outlived
\* SIGKILL by five seconds.
CommandsEndInRun ==
  step = "done" => \A c \in Commands :
    Leader \in tree[c] => result[c] = "raised" \/ Leader \in killed[c]

\* "Ends the whole process tree": a group that was signalled dies out, as long as
\* its helpers obey SIGTERM; only a leader that does not brings on the SIGKILL
\* (_terminate_process_tree).
SignalledTreeEnds ==
  (\E c \in Commands : termed[c] # {}) /\ deaf \subseteq {Leader}
    ~> \A c \in Commands : termed[c] # {} => tree[c] = {}

\* A command that is past its deadline is given up, also when its processes ignore
\* every signal and keep its output open.
ExpiredIsOver == expired /\ step = "poll" ~> step \in {"flush", "done"}

\* "No pipe deadlock": the readers keep up with running commands, so again and
\* again no pipe is full and no process of a command blocked.
PipesDrain == []<>(\A c \in Commands, s \in Streams : ~Full(c, s))
=============================================================================
