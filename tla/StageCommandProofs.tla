------------------------- MODULE StageCommandProofs -------------------------
(***************************************************************************)
(* Proofs about StageCommand, for any number of commands, any processes,   *)
(* any output and any number of failures of the store.                     *)
(***************************************************************************)
EXTENDS StageCommand, TLAPS

\* Nothing is read that was not printed, and the bound on output is kept.
PipesOrdered ==
  \A c \in Commands : /\ written[c]["stdout"] + written[c]["stderr"] <= MaxLines[c]
                      /\ \A s \in Streams : read[c][s] <= written[c][s]

\* A reader that has not started or has ended has nothing to do, for good.
ReadersQuiet ==
  \A c \in Commands, s \in Streams :
    /\ reader[c][s] = "none" => tree[c] = {} /\ written[c][s] = 0 /\ hand[c][s] = {}
    /\ reader[c][s] = "closed" =>
         tree[c] = {} /\ read[c][s] = written[c][s] /\ hand[c][s] = {}

\* Between two stages the last one completed, and there is another.
BetweenStages == step = "check" => event = "ended" /\ result[at] = "ok" /\ at < NCommands

\* Commands to come have no reader.
NotStarted(c) == c > at \/ (c = at /\ event = "started" /\ step \in {"flush", "event", "start"})
ReadersToCome == \A c \in Commands, s \in Streams : NotStarted(c) => reader[c][s] = "none"

Over == step \in {"flush", "event", "check"} /\ event = "ended" /\ result[at] # "raised"

\* Unless a join gave up, the readers of past commands have ended.
ReadersJoined ==
  ~late => /\ \A c \in Commands, s \in Streams : c < at => reader[c][s] # "open"
           /\ step = "join_stderr" => reader[at]["stdout"] = "closed"
           /\ Over => \A s \in Streams : reader[at][s] # "open"

\* A command has ended for the log before the next one starts, or for the last time; and
\* the next one starts before it ends.
EndedIsPast ==
  /\ \A c \in Commands : <<c, "ended">> \in events =>
       c < at \/ (c = at /\ (event = "last" \/ (event = "ended" /\ step = "check")))
  /\ event = "last" => step \in {"flush", "done"}
  /\ event = "ended" => step \in {"flush", "event", "check"}

Kept(c) == \A s \in Streams : \A n \in 1..written[c][s] : <<c, s, n>> \in stored \cup dropped

\* EventsInOrder, and what makes it last: nobody is left to read for that command.
OrderInv ==
  ~late => /\ \A c \in Commands : <<c, "ended">> \in events /\ result[c] # "raised" =>
                Kept(c) /\ \A s \in Streams : reader[c][s] # "open"
           /\ Over /\ step = "event" => Kept(at)

\* A leader that is alive is being watched, or was killed, or was left by RaiseInCheck.
LeadersWatched ==
  \A c \in Commands : Leader \in tree[c] =>
    \/ result[c] = "raised" \/ Leader \in killed[c]
    \/ c = at /\ step \in {"poll", "term", "wait"}

IInv ==
  /\ TypeOK /\ BetweenStages /\ PipesOrdered /\ ReadersQuiet /\ ReadersToCome /\ ReadersJoined
  /\ EndedIsPast /\ LinesAccounted /\ OrderInv /\ LeadersWatched
-----------------------------------------------------------------------------

\* Which actions change which variables.
Moves ==
  /\ \/ UNCHANGED runner \/ RaiseBetween \/ RaiseInCheck
     \/ Flush \/ RecordEvent \/ Check \/ Start \/ Poll \/ Terminate \/ Wait \/ WaitAfterKill
     \/ \E s \in Streams : Join(s)
  /\ UNCHANGED tree \/ Start \/ \E c \in Commands, p \in Forked : Exit(c, p)
  /\ UNCHANGED <<termed, deaf>> \/ Terminate
  /\ UNCHANGED killed \/ Wait
  /\ UNCHANGED written \/ \E c \in Commands, s \in Streams : Output(c, s)
  /\ UNCHANGED <<read, pending, hand, stored, dropped>> \/ Flush
     \/ \E c \in Commands, s \in Streams : Read(c, s) \/ Write(c, s)
  /\ UNCHANGED reader \/ Start \/ \E c \in Commands, s \in Streams : Close(c, s)
  /\ UNCHANGED events \/ RecordEvent
  /\ UNCHANGED late \/ \E s \in Streams : Join(s)

LEMMA WhoMoves ==
  ASSUME [Next]_vars
  PROVE  Moves
<1>1. ASSUME Flush PROVE Moves
  BY <1>1 DEF Moves, Flush, group, pipes, buffer, logs, env
<1>2. ASSUME RecordEvent PROVE Moves
  BY <1>2 DEF Moves, RecordEvent, group, pipes, buffer, logs, env
<1>3. ASSUME RaiseBetween PROVE Moves
  BY <1>3 DEF Moves, RaiseBetween, group, pipes, buffer, logs, env
<1>4. ASSUME Start PROVE Moves
  BY <1>4 DEF Moves, Start, group, pipes, buffer, logs, env
<1>5. ASSUME Poll PROVE Moves
  BY <1>5 DEF Moves, Poll, group, pipes, buffer, logs, env
<1>6. ASSUME RaiseInCheck PROVE Moves
  BY <1>6 DEF Moves, RaiseInCheck, group, pipes, buffer, logs, env
<1>7. ASSUME Terminate PROVE Moves
  BY <1>7 DEF Moves, Terminate, group, pipes, buffer, logs, env
<1>8. ASSUME Wait PROVE Moves
  BY <1>8 DEF Moves, Wait, group, pipes, buffer, logs, env
<1>9. ASSUME WaitAfterKill PROVE Moves
  BY <1>9 DEF Moves, WaitAfterKill, group, pipes, buffer, logs, env
<1>10. ASSUME NEW s \in Streams, Join(s) PROVE Moves
  BY <1>10 DEF Moves, Join, group, pipes, buffer, logs, env
<1>11. ASSUME NEW c \in Commands, NEW s \in Streams, Output(c, s) PROVE Moves
  BY <1>11 DEF Moves, Output, group, pipes, buffer, logs, env
<1>12. ASSUME NEW c \in Commands, NEW p \in Forked, Exit(c, p) PROVE Moves
  BY <1>12 DEF Moves, Exit, group, pipes, buffer, logs, env
<1>13. ASSUME NEW c \in Commands, NEW s \in Streams, Read(c, s) PROVE Moves
  BY <1>13 DEF Moves, Read, group, pipes, buffer, logs, env
<1>14. ASSUME NEW c \in Commands, NEW s \in Streams, Write(c, s) PROVE Moves
  BY <1>14 DEF Moves, Write, group, pipes, buffer, logs, env
<1>15. ASSUME NEW c \in Commands, NEW s \in Streams, Close(c, s) PROVE Moves
  BY <1>15 DEF Moves, Close, group, pipes, buffer, logs, env
<1>16. ASSUME Request PROVE Moves
  BY <1>16 DEF Moves, Request, group, pipes, buffer, logs, env
<1>17. ASSUME Expire PROVE Moves
  BY <1>17 DEF Moves, Expire, group, pipes, buffer, logs, env
<1>18. ASSUME UNCHANGED vars PROVE Moves
  BY <1>18 DEF Moves, vars, group, pipes, buffer, logs, env
<1>19. ASSUME Check PROVE Moves
  BY <1>19 DEF Moves, Check, group, pipes, buffer, logs, env
<1> QED
  BY <1>1, <1>2, <1>3, <1>4, <1>5, <1>6, <1>7, <1>8, <1>9, <1>10, <1>11, <1>12, <1>13,
     <1>14, <1>15, <1>16, <1>17, <1>18, <1>19
  DEF Next, Runner, Reader, Die, Finished

-----------------------------------------------------------------------------
\* Types.

LEMMA RunnerTypeKept ==
  ASSUME RunnerType, BetweenStages, [Next]_vars
  PROVE  RunnerType'
<1> USE DEF RunnerType, Steps, Events
<1>1. ASSUME Flush PROVE RunnerType'
  BY <1>1 DEF Flush, Goto
<1>2. ASSUME RecordEvent PROVE RunnerType'
  BY <1>2 DEF RecordEvent, Goto, Emit
<1>3. ASSUME RaiseBetween PROVE RunnerType'
  BY <1>3 DEF RaiseBetween, Emit
<1>4. ASSUME Start PROVE RunnerType'
  BY <1>4 DEF Start, Goto, Emit, Conclude, Results
<1>5. ASSUME Poll PROVE RunnerType'
  BY <1>5 DEF Poll, Goto, Conclude, Results
<1>6. ASSUME RaiseInCheck PROVE RunnerType'
  BY <1>6 DEF RaiseInCheck, Emit, Conclude, Results
<1>7. ASSUME Terminate \/ Wait \/ WaitAfterKill PROVE RunnerType'
  BY <1>7 DEF Terminate, Wait, WaitAfterKill, Goto
<1>8. ASSUME NEW s \in Streams, Join(s) PROVE RunnerType'
  BY <1>8 DEF Join, Joined, Goto, Emit
<1>9. ASSUME UNCHANGED runner PROVE RunnerType'
  BY <1>9 DEF runner
<1>10. ASSUME Check PROVE RunnerType'
  <2>1. at + 1 \in Commands
    BY <1>10, BoundAssumption DEF Check, BetweenStages, Commands
  <2> QED  BY <1>10, <2>1 DEF Check, Emit
<1> QED
  BY <1>1, <1>2, <1>3, <1>4, <1>5, <1>6, <1>7, <1>8, <1>9, <1>10, WhoMoves DEF Moves

LEMMA BetweenKept ==
  ASSUME RunnerType, BetweenStages, [Next]_vars
  PROVE  BetweenStages'
<1> USE DEF BetweenStages
<1>1. ASSUME Flush \/ RecordEvent \/ RaiseBetween \/ Check PROVE BetweenStages'
  BY <1>1 DEF Flush, RecordEvent, RaiseBetween, Check, Goto, Emit
<1>2. ASSUME Start \/ Poll \/ RaiseInCheck PROVE BetweenStages'
  BY <1>2 DEF Start, Poll, RaiseInCheck, Goto, Emit
<1>3. ASSUME Terminate \/ Wait \/ WaitAfterKill PROVE BetweenStages'
  BY <1>3 DEF Terminate, Wait, WaitAfterKill, Goto
<1>4. ASSUME NEW s \in Streams, Join(s) PROVE BetweenStages'
  BY <1>4 DEF Join, Joined, Goto, Emit
<1>5. ASSUME UNCHANGED runner PROVE BetweenStages'
  BY <1>5 DEF runner
<1> QED  BY <1>1, <1>2, <1>3, <1>4, <1>5, WhoMoves DEF Moves

LEMMA GroupTypeKept ==
  ASSUME RunnerType, GroupType, [Next]_vars
  PROVE  GroupType'
<1>1. tree' \in [Commands -> SUBSET Forked]
  <2>1. ASSUME Start PROVE tree' \in [Commands -> SUBSET Forked]
    BY <2>1 DEF Start, GroupType, RunnerType, Forked
  <2>2. ASSUME NEW c \in Commands, NEW p \in Forked, Exit(c, p)
        PROVE  tree' \in [Commands -> SUBSET Forked]
    BY <2>2 DEF Exit, GroupType
  <2> QED  BY <2>1, <2>2, WhoMoves DEF Moves, GroupType
<1>2. termed' \in [Commands -> SUBSET Forked] /\ deaf' \subseteq Forked
  BY WhoMoves DEF Moves, Terminate, GroupType, RunnerType
<1>3. killed' \in [Commands -> SUBSET Forked]
  BY WhoMoves DEF Moves, Wait, GroupType, RunnerType
<1> QED  BY <1>1, <1>2, <1>3 DEF GroupType

LEMMA PipeTypeKept ==
  ASSUME RunnerType, PipeType, [Next]_vars
  PROVE  PipeType'
<1>1. written' \in [Commands -> [Streams -> Nat]]
  <2>1. ASSUME NEW c \in Commands, NEW s \in Streams, Output(c, s)
        PROVE  written' \in [Commands -> [Streams -> Nat]]
    BY <2>1 DEF Output, PipeType
  <2> QED  BY <2>1, WhoMoves DEF Moves, PipeType
<1>2. read' \in [Commands -> [Streams -> Nat]]
  <2>1. ASSUME NEW c \in Commands, NEW s \in Streams, Read(c, s)
        PROVE  read' \in [Commands -> [Streams -> Nat]]
    BY <2>1 DEF Read, PipeType
  <2>2. ASSUME NEW c \in Commands, NEW s \in Streams, Write(c, s) PROVE UNCHANGED read
    BY <2>2 DEF Write, pipes
  <2> QED  BY <2>1, <2>2, WhoMoves DEF Moves, Flush, pipes, PipeType
<1>3. reader' \in [Commands -> [Streams -> {"none", "open", "closed"}]]
  <2>1. ASSUME NEW c \in Commands, NEW s \in Streams, Close(c, s)
        PROVE  reader' \in [Commands -> [Streams -> {"none", "open", "closed"}]]
    BY <2>1 DEF Close, PipeType
  <2>2. ASSUME Start PROVE reader' \in [Commands -> [Streams -> {"none", "open", "closed"}]]
    BY <2>2 DEF Start, PipeType, RunnerType
  <2> QED  BY <2>1, <2>2, WhoMoves DEF Moves, PipeType
<1> QED  BY <1>1, <1>2, <1>3 DEF PipeType

LEMMA LogTypeKept ==
  ASSUME RunnerType, PipeType, LogType, [Next]_vars
  PROVE  LogType'
<1> DEFINE Place == /\ pending \subseteq Lines
                    /\ hand \in [Commands -> [Streams -> SUBSET Lines]]
                    /\ stored \subseteq Lines /\ dropped \subseteq Lines
<1>1. Place'
  <2>1. ASSUME Flush PROVE Place'
    BY <2>1 DEF Flush, LogType
  <2>2. ASSUME NEW c \in Commands, NEW s \in Streams, Read(c, s) PROVE Place'
    <3>1. <<c, s, read[c][s] + 1>> \in Lines
      BY DEF PipeType, Lines
    <3>2. pending \cup {<<c, s, read[c][s] + 1>>} \subseteq Lines
      BY <3>1 DEF LogType
    <3> QED  BY <2>2, <3>2 DEF Read, LogType, logs
  <2>3. ASSUME NEW c \in Commands, NEW s \in Streams, Write(c, s) PROVE Place'
    BY <2>3 DEF Write, LogType
  <2> QED  BY <2>1, <2>2, <2>3, WhoMoves DEF Moves, LogType
<1>2. events' \subseteq Commands \X Events
  BY WhoMoves DEF Moves, RecordEvent, LogType, RunnerType
<1> QED  BY <1>1, <1>2 DEF LogType

LEMMA EnvTypeKept ==
  ASSUME EnvType, [Next]_vars
  PROVE  EnvType'
<1> USE DEF EnvType, env
<1>1. faults' \in Nat
  <2>1. faults' = faults \/ faults' = faults + 1
    <3>1. ASSUME Runner PROVE UNCHANGED faults \/ faults' = faults + 1
      BY <3>1 DEF Runner, Flush, RecordEvent, Check, Start, Poll, Terminate, Wait,
         WaitAfterKill,
                  Join
    <3>2. ASSUME RaiseBetween \/ RaiseInCheck \/ Request \/ Expire
          PROVE  UNCHANGED faults \/ faults' = faults + 1
      BY <3>2 DEF RaiseBetween, RaiseInCheck, Request, Expire
    <3>3. ASSUME NEW c \in Commands, NEW s \in Streams, Output(c, s) \/ Reader(c, s)
          PROVE  UNCHANGED faults \/ faults' = faults + 1
      BY <3>3 DEF Output, Reader, Read, Write, Close
    <3>4. ASSUME NEW c \in Commands, NEW p \in Forked, Exit(c, p) PROVE UNCHANGED faults
      BY <3>4 DEF Exit
    <3> QED  BY <3>1, <3>2, <3>3, <3>4 DEF Next, Die, Finished, vars
  <2> QED  BY <2>1
<1>2. requested' \in BOOLEAN /\ expired' \in BOOLEAN /\ late' \in BOOLEAN
  <2>1. ASSUME Flush \/ RecordEvent \/ Check \/ Start \/ Poll
        PROVE  requested' \in BOOLEAN /\ expired' \in BOOLEAN /\ late' \in BOOLEAN
    BY <2>1, Zenon DEF Flush, RecordEvent, Check, Start, Poll
  <2>2. ASSUME Terminate \/ Wait \/ WaitAfterKill
        PROVE  requested' \in BOOLEAN /\ expired' \in BOOLEAN /\ late' \in BOOLEAN
    BY <2>2, Zenon DEF Terminate, Wait, WaitAfterKill
  <2>3. ASSUME NEW s \in Streams, Join(s)
        PROVE  requested' \in BOOLEAN /\ expired' \in BOOLEAN /\ late' \in BOOLEAN
    BY <2>3, Zenon DEF Join
  <2>4. ASSUME RaiseBetween \/ RaiseInCheck \/ Request \/ Expire
        PROVE  requested' \in BOOLEAN /\ expired' \in BOOLEAN /\ late' \in BOOLEAN
    BY <2>4, Zenon DEF RaiseBetween, RaiseInCheck, Request, Expire
  <2>5. ASSUME NEW c \in Commands, NEW s \in Streams, Output(c, s) \/ Reader(c, s)
        PROVE  requested' \in BOOLEAN /\ expired' \in BOOLEAN /\ late' \in BOOLEAN
    BY <2>5, Zenon DEF Output, Reader, Read, Write, Close
  <2>6. ASSUME NEW c \in Commands, NEW p \in Forked, Exit(c, p)
        PROVE  requested' \in BOOLEAN /\ expired' \in BOOLEAN /\ late' \in BOOLEAN
    BY <2>6 DEF Exit
  <2> QED
    BY <2>1, <2>2, <2>3, <2>4, <2>5, <2>6 DEF Next, Runner, Die, Finished, vars
<1> QED  BY <1>1, <1>2

LEMMA TypesKept ==
  ASSUME TypeOK, BetweenStages, [Next]_vars
  PROVE  TypeOK'
BY RunnerTypeKept, GroupTypeKept, PipeTypeKept, LogTypeKept, EnvTypeKept DEF TypeOK

-----------------------------------------------------------------------------
\* Pipes and readers.

LEMMA OrderKept ==
  ASSUME TypeOK, PipesOrdered, [Next]_vars
  PROVE  PipesOrdered'
<1> USE DEF PipesOrdered, TypeOK, PipeType, Streams
<1>1. ASSUME NEW c \in Commands, NEW s \in Streams, Output(c, s) PROVE PipesOrdered'
  <2>1. /\ written' = [written EXCEPT ![c][s] = @ + 1]
        /\ written[c]["stdout"] + written[c]["stderr"] < MaxLines[c]
        /\ UNCHANGED read
    BY <1>1 DEF Output
  <2>2. MaxLines[c] \in Nat
    BY BoundAssumption
  <2>3. ASSUME NEW d \in Commands, d # c PROVE written'[d] = written[d]
    BY <2>1, <2>3
  <2>4. \A t \in Streams : written'[c][t] = IF t = s THEN written[c][t] + 1 ELSE written[c][t]
    BY <2>1
  <2>5. \A t \in Streams : written[c][t] \in Nat /\ read[c][t] \in Nat
    OBVIOUS
  <2>6. written'[c]["stdout"] + written'[c]["stderr"] <= MaxLines[c]
    BY <2>1, <2>2, <2>4, <2>5
  <2>7. \A t \in Streams : read[c][t] <= written'[c][t]
    BY <2>4, <2>5
  <2> QED  BY <2>1, <2>3, <2>6, <2>7
<1>2. ASSUME NEW c \in Commands, NEW s \in Streams, Read(c, s) PROVE PipesOrdered'
  <2>1. /\ read' = [read EXCEPT ![c][s] = @ + 1]
        /\ read[c][s] < written[c][s]
        /\ UNCHANGED written
    BY <1>2 DEF Read
  <2>2. \A t \in Streams : written[c][t] \in Nat /\ read[c][t] \in Nat
    OBVIOUS
  <2>3. \A t \in Streams : read'[c][t] = IF t = s THEN read[c][t] + 1 ELSE read[c][t]
    BY <2>1
  <2>4. \A t \in Streams : read'[c][t] <= written[c][t]
    BY <2>1, <2>2, <2>3
  <2>5. ASSUME NEW d \in Commands, d # c PROVE read'[d] = read[d]
    BY <2>1, <2>5
  <2> QED  BY <2>1, <2>4, <2>5
<1>3. ASSUME UNCHANGED <<written, read>> PROVE PipesOrdered'
  BY <1>3
<1> QED
  BY <1>1, <1>2, <1>3, WhoMoves DEF Moves, Flush, Write, pipes

LEMMA QuietKept ==
  ASSUME TypeOK, PipesOrdered, ReadersQuiet, ReadersToCome, [Next]_vars
  PROVE  ReadersQuiet'
<1> USE DEF ReadersQuiet, TypeOK, PipeType, GroupType, LogType
<1>1. ASSUME Start PROVE ReadersQuiet'
  <2>1. UNCHANGED <<written, read, hand>>
    BY <1>1 DEF Start, buffer
  <2>2. CASE UNCHANGED <<tree, reader>>
    BY <2>1, <2>2
  <2>3. CASE /\ tree'   = [tree EXCEPT ![at] = Procs(at)]
             /\ reader' = [reader EXCEPT ![at] = [s \in Streams |-> "open"]]
    BY <2>1, <2>3 DEF RunnerType
  <2> QED  BY <1>1, <2>2, <2>3 DEF Start
<1>2. ASSUME NEW c \in Commands, NEW s \in Streams, Output(c, s) PROVE ReadersQuiet'
  <2>1. tree[c] # {} /\ UNCHANGED <<tree, read, reader, hand>>
    BY <1>2 DEF Output, group, buffer
  <2>2. \A t \in Streams : reader'[c][t] \notin {"none", "closed"}
    BY <2>1
  <2>3. ASSUME NEW d \in Commands, d # c PROVE written'[d] = written[d]
    BY <1>2, <2>3 DEF Output
  <2>4. ASSUME NEW d \in Commands, NEW t \in Streams, d # c, reader'[d][t] = "none"
        PROVE  tree'[d] = {} /\ written'[d][t] = 0 /\ hand'[d][t] = {}
    BY <2>1, <2>3, <2>4
  <2>5. ASSUME NEW d \in Commands, NEW t \in Streams, d # c, reader'[d][t] = "closed"
        PROVE  tree'[d] = {} /\ read'[d][t] = written'[d][t] /\ hand'[d][t] = {}
    BY <2>1, <2>3, <2>5
  <2> QED  BY <2>2, <2>4, <2>5
<1>3. ASSUME NEW c \in Commands, NEW p \in Forked, Exit(c, p) PROVE ReadersQuiet'
  BY <1>3 DEF Exit, pipes, buffer
<1>4. ASSUME NEW c \in Commands, NEW s \in Streams, Read(c, s) PROVE ReadersQuiet'
  <2>1. reader[c][s] = "open" /\ UNCHANGED <<tree, written, reader>>
    BY <1>4 DEF Read, group
  <2>2. \A d \in Commands, t \in Streams : <<d, t>> # <<c, s>> =>
          read'[d][t] = read[d][t] /\ hand'[d][t] = hand[d][t]
    BY <1>4 DEF Read
  <2> QED  BY <2>1, <2>2
<1>5. ASSUME NEW c \in Commands, NEW s \in Streams, Write(c, s) PROVE ReadersQuiet'
  <2>1. UNCHANGED <<tree, written, read, reader>>
    BY <1>5 DEF Write, group, pipes
  <2>2. \A d \in Commands, t \in Streams : hand[d][t] = {} => hand'[d][t] = {}
    BY <1>5 DEF Write
  <2> QED  BY <2>1, <2>2
<1>6. ASSUME NEW c \in Commands, NEW s \in Streams, Close(c, s) PROVE ReadersQuiet'
  BY <1>6 DEF Close, group, buffer
<1>7. ASSUME UNCHANGED <<tree, written, read, reader, hand>> PROVE ReadersQuiet'
  BY <1>7
<1> QED
  BY <1>1, <1>2, <1>3, <1>4, <1>5, <1>6, <1>7, WhoMoves DEF Moves, Flush, group, pipes

LEMMA ToComeKept ==
  ASSUME TypeOK, ReadersToCome, [Next]_vars
  PROVE  ReadersToCome'
<1> USE DEF TypeOK, RunnerType, PipeType, ReadersToCome, NotStarted
<1>1. ASSUME Check PROVE ReadersToCome'
  <2>1. UNCHANGED reader
    BY <1>1 DEF Check, pipes
  <2>2. ASSUME NEW c \in Commands, NotStarted(c)' PROVE NotStarted(c)
    <3>1. at \in Nat /\ c \in Nat
      BY BoundAssumption DEF Commands
    <3> QED  BY <1>1, <2>2, <3>1 DEF Check, Emit
  <2> QED  BY <2>1, <2>2
<1>2. ASSUME Start PROVE ReadersToCome'
  <2>1. at' = at /\ (step' = "poll" \/ event' = "ended")
    BY <1>2 DEF Start, Goto, Emit
  <2>2. ASSUME NEW c \in Commands, NotStarted(c)' PROVE c > at /\ c # at
    <3>1. c \in Nat /\ at \in Nat
      BY BoundAssumption DEF Commands
    <3> QED  BY <2>1, <2>2, <3>1
  <2>3. ASSUME NEW c \in Commands, c # at PROVE reader'[c] = reader[c]
    BY <1>2, <2>3 DEF Start
  <2> QED  BY <2>2, <2>3
<1>3. ASSUME Flush \/ RecordEvent \/ RaiseBetween PROVE ReadersToCome'
  BY <1>3 DEF Flush, RecordEvent, RaiseBetween, Goto, Emit, pipes
<1>4. ASSUME Poll \/ RaiseInCheck PROVE ReadersToCome'
  BY <1>4 DEF Poll, RaiseInCheck, Goto, Emit, pipes
<1>5. ASSUME Terminate \/ Wait \/ WaitAfterKill PROVE ReadersToCome'
  BY <1>5 DEF Terminate, Wait, WaitAfterKill, Goto, pipes
<1>6. ASSUME NEW s \in Streams, Join(s) PROVE ReadersToCome'
  BY <1>6 DEF Join, Joined, Goto, Emit, pipes
<1>7. ASSUME NEW c \in Commands, NEW s \in Streams, Close(c, s) PROVE ReadersToCome'
  BY <1>7 DEF Close, runner
<1>8. ASSUME UNCHANGED <<runner, reader>> PROVE ReadersToCome'
  BY <1>8 DEF runner
<1> QED
  BY <1>1, <1>2, <1>3, <1>4, <1>5, <1>6, <1>7, <1>8, WhoMoves DEF Moves

LEMMA EndedKept ==
  ASSUME TypeOK, EndedIsPast, [Next]_vars
  PROVE  EndedIsPast'
<1> USE DEF TypeOK, RunnerType, EndedIsPast, Events
<1>1. ASSUME RecordEvent PROVE EndedIsPast'
  <2>1. CASE event = "started"
    BY <1>1, <2>1 DEF RecordEvent, Goto
  <2>2. CASE event = "ended"
    <3>1. \A c \in Commands : <<c, "ended">> \in events' => c < at \/ c = at
      BY <1>1, <2>2 DEF RecordEvent
    <3> QED  BY <1>1, <2>2, <3>1 DEF RecordEvent, Emit, Goto
  <2> QED  BY <1>1, <2>1, <2>2 DEF RecordEvent
<1>2. ASSUME Check PROVE EndedIsPast'
  <2>1. at \in Nat /\ \A c \in Commands : c \in Nat
    BY BoundAssumption DEF Commands
  <2>2. CASE at' = at + 1
    <3>1. \A c \in Commands : <<c, "ended">> \in events' => c < at'
      BY <1>2, <2>1, <2>2 DEF Check, logs
    <3> QED  BY <1>2, <2>1, <2>2, <3>1 DEF Check, Emit
  <2>3. CASE at' = at
    BY <1>2, <2>1, <2>3 DEF Check, Emit, logs
  <2> QED  BY <1>2, <2>2, <2>3 DEF Check
<1>3. ASSUME Flush PROVE EndedIsPast'
  BY <1>3 DEF Flush, Goto
<1>4. ASSUME RaiseBetween PROVE EndedIsPast'
  BY <1>4 DEF RaiseBetween, Emit, logs
<1>5. ASSUME Start \/ Poll \/ RaiseInCheck PROVE EndedIsPast'
  BY <1>5 DEF Start, Poll, RaiseInCheck, Goto, Emit, logs
<1>6. ASSUME Terminate \/ Wait \/ WaitAfterKill PROVE EndedIsPast'
  BY <1>6 DEF Terminate, Wait, WaitAfterKill, Goto, logs
<1>7. ASSUME NEW s \in Streams, Join(s) PROVE EndedIsPast'
  BY <1>7 DEF Join, Joined, Goto, Emit, logs
<1>8. ASSUME UNCHANGED <<runner, events>> PROVE EndedIsPast'
  BY <1>8 DEF runner
<1> QED
  BY <1>1, <1>2, <1>3, <1>4, <1>5, <1>6, <1>7, <1>8, WhoMoves DEF Moves

LEMMA JoinedKept ==
  ASSUME TypeOK, BetweenStages, ReadersToCome, EndedIsPast, ReadersJoined, [Next]_vars
  PROVE  ReadersJoined'
<1> USE DEF TypeOK, RunnerType, EndedIsPast, ReadersJoined, Over
<1>1. ASSUME Check PROVE ReadersJoined'
  <2>1. UNCHANGED <<reader, late>> /\ event' # "ended" /\ step' # "join_stderr"
    BY <1>1 DEF Check, Emit, pipes, env
  <2>2. ~late => \A s \in Streams : reader[at][s] # "open"
    BY <1>1 DEF Check, BetweenStages
  <2>3. \A c \in Commands : c < at' => c < at \/ c = at
    BY <1>1, BoundAssumption DEF Check, Commands
  <2> QED  BY <2>1, <2>2, <2>3
<1>2. ASSUME Start PROVE ReadersJoined'
  <2>1. UNCHANGED <<at, late>> /\ event = "started"
    BY <1>2 DEF Start, env, Events
  <2>2. \A s \in Streams : reader[at][s] = "none"
    BY <1>2, <2>1 DEF Start, ReadersToCome, NotStarted
  <2>3. ASSUME NEW c \in Commands, c < at PROVE reader'[c] = reader[c]
    <3>1. c # at
      BY <2>3, BoundAssumption DEF Commands
    <3> QED  BY <1>2, <3>1 DEF Start, PipeType
  <2>4. CASE step' = "poll"
    BY <1>2, <2>1, <2>3, <2>4 DEF Start, Goto, Emit
  <2>5. CASE step' # "poll"
    BY <1>2, <2>1, <2>2, <2>5 DEF Start, Goto, Emit
  <2> QED  BY <2>4, <2>5
<1>3. ASSUME Flush \/ RecordEvent \/ RaiseBetween PROVE ReadersJoined'
  BY <1>3 DEF Flush, RecordEvent, RaiseBetween, Goto, Emit, pipes, env
<1>4. ASSUME Poll \/ RaiseInCheck PROVE ReadersJoined'
  BY <1>4 DEF Poll, RaiseInCheck, Goto, Emit, Conclude, pipes
<1>5. ASSUME Terminate \/ Wait \/ WaitAfterKill PROVE ReadersJoined'
  BY <1>5 DEF Terminate, Wait, WaitAfterKill, Goto, pipes, env
<1>6. ASSUME NEW s \in Streams, Join(s) PROVE ReadersJoined'
  BY <1>6 DEF Join, Joined, Goto, Emit, pipes, Streams
<1>7. ASSUME NEW c \in Commands, NEW s \in Streams, Close(c, s) PROVE ReadersJoined'
  BY <1>7 DEF Close, PipeType, runner, env
<1>8. ASSUME UNCHANGED <<runner, reader, late>> PROVE ReadersJoined'
  BY <1>8 DEF runner
<1> QED
  BY <1>1, <1>2, <1>3, <1>4, <1>5, <1>6, <1>7, <1>8, WhoMoves DEF Moves

LEMMA WatchedKept ==
  ASSUME TypeOK, ReadersQuiet, ReadersToCome, EndedIsPast, LeadersWatched, [Next]_vars
  PROVE  LeadersWatched'
<1> USE DEF TypeOK, RunnerType, GroupType, LeadersWatched
<1>1. ASSUME Start PROVE LeadersWatched'
  <2>1. UNCHANGED <<at, killed>> /\ step = "start" /\ event = "started"
    BY <1>1 DEF Start, EndedIsPast, Events
  <2>2. tree[at] = {}
    BY <2>1 DEF ReadersToCome, NotStarted, ReadersQuiet, Streams
  <2>3. ASSUME NEW c \in Commands, c # at PROVE tree'[c] = tree[c] /\ result'[c] = result[c]
    BY <1>1, <2>3 DEF Start, Conclude
  <2>4. step' = "poll" \/ tree'[at] = {}
    BY <1>1, <2>2 DEF Start, Goto
  <2> QED  BY <2>1, <2>3, <2>4
<1>2. ASSUME Flush \/ RecordEvent \/ RaiseBetween \/ Check PROVE LeadersWatched'
  BY <1>2 DEF Flush, RecordEvent, RaiseBetween, Check, Goto, Emit, group
<1>3. ASSUME Poll \/ RaiseInCheck PROVE LeadersWatched'
  BY <1>3 DEF Poll, RaiseInCheck, Goto, Emit, Conclude, group
<1>4. ASSUME Terminate \/ Wait \/ WaitAfterKill PROVE LeadersWatched'
  BY <1>4 DEF Terminate, Wait, WaitAfterKill, Goto, group
<1>5. ASSUME NEW s \in Streams, Join(s) PROVE LeadersWatched'
  BY <1>5 DEF Join, Joined, Goto, Emit, group
<1>6. ASSUME NEW c \in Commands, NEW p \in Forked, Exit(c, p) PROVE LeadersWatched'
  BY <1>6 DEF Exit, runner
<1>7. ASSUME UNCHANGED <<runner, tree, killed>> PROVE LeadersWatched'
  BY <1>7 DEF runner
<1> QED
  BY <1>1, <1>2, <1>3, <1>4, <1>5, <1>6, <1>7, WhoMoves DEF Moves

-----------------------------------------------------------------------------
\* Lines.

LEMMA AccountedKept ==
  ASSUME TypeOK, PipesOrdered, LinesAccounted, [Next]_vars
  PROVE  LinesAccounted'
<1> USE DEF LinesAccounted
<1>1. ASSUME Flush PROVE LinesAccounted'
  <2>1. UNCHANGED <<read, hand>> /\ pending' = {} /\ InHand' = InHand
    BY <1>1 DEF Flush, pipes, InHand
  <2>2. \/ stored' = stored \cup pending /\ dropped' = dropped
        \/ dropped' = dropped \cup pending /\ stored' = stored
    BY <1>1 DEF Flush
  <2> QED  BY <2>1, <2>2
<1>2. ASSUME NEW c \in Commands, NEW s \in Streams, Read(c, s) PROVE LinesAccounted'
  <2> DEFINE line == <<c, s, read[c][s] + 1>>
  <2>1. /\ read' = [read EXCEPT ![c][s] = @ + 1]
        /\ read[c][s] < written[c][s] /\ hand[c][s] = {}
        /\ UNCHANGED <<stored, dropped>>
    BY <1>2 DEF Read, logs
  <2>2. read[c][s] \in Nat /\ read[c][s] + 1 \in 1..MaxLines[c]
    <3>1. written[c]["stdout"] \in Nat /\ written[c]["stderr"] \in Nat /\ read[c][s] \in Nat
      BY DEF TypeOK, PipeType, Streams
    <3>2. written[c]["stdout"] + written[c]["stderr"] <= MaxLines[c] /\ MaxLines[c] \in Nat
      BY BoundAssumption DEF PipesOrdered
    <3>3. written[c][s] <= MaxLines[c]
      BY <3>1, <3>2 DEF Streams
    <3> QED  BY <2>1, <3>1, <3>2, <3>3 DEF Streams
  <2>3. line \notin pending \cup InHand \cup stored \cup dropped
    BY <2>2
  <2>4. ASSUME NEW d \in Commands, NEW t \in Streams, NEW n \in 1..MaxLines[d]
        PROVE  n <= read'[d][t] <=> n <= read[d][t] \/ <<d, t, n>> = line
    <3>1. CASE <<d, t>> = <<c, s>>
      <4>1. d = c /\ t = s /\ read'[c][s] = read[c][s] + 1
        BY <2>1, <3>1 DEF TypeOK, PipeType
      <4>2. n \in Nat
        BY BoundAssumption
      <4> QED  BY <2>2, <4>1, <4>2
    <3>2. CASE <<d, t>> # <<c, s>>
      BY <2>1, <3>2 DEF TypeOK, PipeType
    <3> QED  BY <3>1, <3>2
  <2>5. CASE pending' = pending \cup {line} /\ hand' = hand
    <3>1. InHand' = InHand
      BY <2>5 DEF InHand
    <3> QED  BY <2>1, <2>3, <2>4, <2>5, <3>1
  <2>6. CASE pending' = {} /\ hand' = [hand EXCEPT ![c][s] = pending \cup {line}]
    <3>1. \A d \in Commands, t \in Streams :
            hand'[d][t] = IF <<d, t>> = <<c, s>> THEN pending \cup {line} ELSE hand[d][t]
      BY <2>6 DEF TypeOK, LogType
    <3>2. InHand' = InHand \cup pending \cup {line}
      BY <2>1, <3>1 DEF InHand
    <3>3. ASSUME NEW d \in Commands, NEW t \in Streams
          PROVE  hand[d][t] \cap (pending \cup {line}) = {}
      BY <2>3 DEF InHand
    <3> HIDE DEF line
    <3>4. \A d, e \in Commands, t, u \in Streams :
            <<d, t>> # <<e, u>> => hand'[d][t] \cap hand'[e][u] = {}
      BY <3>1, <3>3
    <3> QED  BY <2>1, <2>3, <2>4, <2>6, <3>2, <3>4
  <2> QED  BY <1>2, <2>5, <2>6 DEF Read
<1>3. ASSUME NEW c \in Commands, NEW s \in Streams, Write(c, s) PROVE LinesAccounted'
  <2>1. UNCHANGED <<read, pending>>
    BY <1>3 DEF Write, pipes
  <2>2. \A d \in Commands, t \in Streams :
          hand'[d][t] = IF <<d, t>> = <<c, s>> THEN {} ELSE hand[d][t]
    BY <1>3 DEF Write, TypeOK, LogType
  <2>3. InHand' = InHand \ hand[c][s] /\ hand[c][s] \subseteq InHand
    BY <2>2 DEF InHand
  <2>4. \/ stored' = stored \cup hand[c][s] /\ dropped' = dropped
        \/ dropped' = dropped \cup hand[c][s] /\ stored' = stored
    BY <1>3 DEF Write
  <2> QED  BY <2>1, <2>2, <2>3, <2>4
<1>4. ASSUME UNCHANGED <<read, pending, hand, stored, dropped>> PROVE LinesAccounted'
  BY <1>4 DEF InHand
<1> QED
  BY <1>1, <1>2, <1>3, <1>4, WhoMoves DEF Moves

\* A command that is over for its readers has no live process and nothing in hand.
LEMMA NotOpen ==
  ASSUME TypeOK, PipesOrdered, ReadersQuiet,
         NEW c \in Commands, NEW s \in Streams, reader[c][s] # "open"
  PROVE  tree[c] = {} /\ read[c][s] = written[c][s] /\ hand[c][s] = {}
<1>1. read[c][s] \in Nat /\ written[c][s] \in Nat /\ read[c][s] <= written[c][s]
  BY DEF TypeOK, PipeType, PipesOrdered
<1>2. CASE reader[c][s] = "none"
  BY <1>1, <1>2 DEF ReadersQuiet
<1>3. CASE reader[c][s] = "closed"
  BY <1>3 DEF ReadersQuiet
<1> QED  BY <1>2, <1>3 DEF TypeOK, PipeType

\* The flush before the event that ends a command finds all its lines.
LEMMA FlushKeeps ==
  ASSUME TypeOK, PipesOrdered, ReadersQuiet, ReadersToCome, ReadersJoined, LinesAccounted,
         ~late, Over, Flush
  PROVE  Kept(at)'
<1>1. ASSUME NEW c \in Commands, NEW s \in Streams PROVE reader[c][s] # "open"
  <2>1. CASE c <= at
    <3>1. c < at \/ c = at
      BY <2>1, BoundAssumption DEF Commands, TypeOK, RunnerType
    <3> QED  BY <3>1 DEF ReadersJoined
  <2>2. CASE c > at
    BY <2>2 DEF ReadersToCome, NotStarted
  <2> QED  BY <2>1, <2>2, BoundAssumption DEF Commands, TypeOK, RunnerType
<1>2. InHand = {}
  BY <1>1, NotOpen DEF InHand
<1>3. ASSUME NEW s \in Streams, NEW n \in 1..written[at][s]
      PROVE  <<at, s, n>> \in pending \cup stored \cup dropped
  <2>1. at \in Commands /\ n <= read[at][s]
    BY <1>1, NotOpen DEF TypeOK, RunnerType, PipeType
  <2>2. n \in 1..MaxLines[at]
    <3>1. written[at]["stdout"] \in Nat /\ written[at]["stderr"] \in Nat
      BY DEF TypeOK, RunnerType, PipeType, Streams
    <3>2. written[at]["stdout"] + written[at]["stderr"] <= MaxLines[at] /\ MaxLines[at] \in Nat
      BY <2>1, BoundAssumption DEF PipesOrdered
    <3>3. written[at][s] <= MaxLines[at]
      BY <3>1, <3>2 DEF Streams
    <3> QED  BY <3>1, <3>2, <3>3 DEF Streams
  <2> QED  BY <1>2, <2>1, <2>2 DEF LinesAccounted
<1>4. pending \subseteq stored' \cup dropped' /\ stored \subseteq stored' /\ dropped \subseteq dropped'
  BY DEF Flush
<1> QED  BY <1>3, <1>4 DEF Kept, Flush, pipes

LEMMA LogKept ==
  ASSUME TypeOK, PipesOrdered, ReadersQuiet, ReadersToCome, ReadersJoined, EndedIsPast,
         LinesAccounted, OrderInv, [Next]_vars
  PROVE  OrderInv'
<1> USE DEF TypeOK, RunnerType, OrderInv
<1> DEFINE Ended(c) == <<c, "ended">> \in events /\ result[c] # "raised"
           Settled(c) == Kept(c) /\ \A s \in Streams : reader[c][s] # "open"
<1>1. ASSUME Flush PROVE OrderInv'
  <2>1. UNCHANGED <<at, event, result, written, reader, events, late>>
    BY <1>1 DEF Flush, Goto, pipes
  <2>2. stored \cup dropped \subseteq stored' \cup dropped'
    BY <1>1 DEF Flush
  <2>3. ASSUME NEW c \in Commands, Kept(c) PROVE Kept(c)'
    BY <2>1, <2>2, <2>3 DEF Kept
  <2>4. ASSUME ~late, Over', step' = "event" PROVE Kept(at)'
    BY <1>1, <2>1, <2>4, FlushKeeps DEF Over, Flush
  <2> QED  BY <2>1, <2>3, <2>4
<1>2. ASSUME RecordEvent PROVE OrderInv'
  BY <1>2 DEF RecordEvent, Goto, Emit, Kept, Over, ReadersJoined, pipes, env
<1>3. ASSUME Check PROVE OrderInv'
  BY <1>3 DEF Check, Emit, Kept, Over, pipes, logs, env
<1>4. ASSUME Start PROVE OrderInv'
  <2>1. UNCHANGED <<at, written, stored, dropped, events, late>> /\ event = "started" /\ step' # "event"
    BY <1>4 DEF Start, Goto, Emit, logs, env, EndedIsPast, Events
  <2>2. ASSUME NEW c \in Commands, <<c, "ended">> \in events
        PROVE  c # at /\ result'[c] = result[c] /\ reader'[c] = reader[c]
    <3>1. c # at
      BY <2>1, <2>2, BoundAssumption DEF EndedIsPast, Commands
    <3> QED  BY <1>4, <3>1 DEF Start, Conclude, PipeType
  <2> QED  BY <2>1, <2>2 DEF Kept, Over
<1>5. ASSUME Poll \/ RaiseInCheck PROVE OrderInv'
  <2>1. /\ UNCHANGED <<at, written, reader, stored, dropped, events, late>>
        /\ step \in {"start", "poll"} /\ step' # "event"
    BY <1>5 DEF Poll, RaiseInCheck, Goto, Emit, pipes, logs
  <2>2. ASSUME NEW c \in Commands, <<c, "ended">> \in events PROVE result'[c] = result[c]
    <3>1. c # at
      BY <2>1, <2>2, BoundAssumption DEF EndedIsPast, Commands
    <3> QED  BY <1>5, <3>1 DEF Poll, RaiseInCheck, Conclude
  <2> QED  BY <2>1, <2>2 DEF Kept, Over
<1>6. ASSUME RaiseBetween PROVE OrderInv'
  BY <1>6 DEF RaiseBetween, Emit, Kept, Over, pipes, logs
<1>7. ASSUME Terminate \/ Wait \/ WaitAfterKill PROVE OrderInv'
  BY <1>7 DEF Terminate, Wait, WaitAfterKill, Goto, Kept, Over, pipes, logs, env
<1>8. ASSUME NEW s \in Streams, Join(s) PROVE OrderInv'
  BY <1>8 DEF Join, Joined, Goto, Emit, Kept, Over, pipes, logs
<1>9. ASSUME NEW c \in Commands, NEW s \in Streams, Output(c, s) PROVE OrderInv'
  <2>1. UNCHANGED <<step, event, at, result, reader, stored, dropped, events, late>> /\ tree[c] # {}
    BY <1>9 DEF Output, runner, logs, env
  <2>2. ASSUME NEW d \in Commands, \A t \in Streams : reader[d][t] # "open"
        PROVE  written'[d] = written[d]
    <3>1. d # c
      BY <2>1, <2>2, NotOpen DEF Streams
    <3> QED  BY <1>9, <3>1 DEF Output
  <2> QED  BY <2>1, <2>2 DEF Kept, Over, ReadersJoined
<1>10. ASSUME NEW c \in Commands, NEW s \in Streams, Read(c, s) \/ Write(c, s) PROVE OrderInv'
  <2>1. UNCHANGED <<step, event, at, result, written, reader, events, late>>
    BY <1>10 DEF Read, Write, runner, pipes, logs, env
  <2>2. stored \cup dropped \subseteq stored' \cup dropped'
    BY <1>10 DEF Read, Write, logs
  <2> QED  BY <2>1, <2>2 DEF Kept, Over
<1>11. ASSUME NEW c \in Commands, NEW s \in Streams, Close(c, s) PROVE OrderInv'
  <2>1. UNCHANGED <<step, event, at, result, written, stored, dropped, events, late>>
    BY <1>11 DEF Close, runner, logs, env
  <2>2. \A d \in Commands, t \in Streams : reader[d][t] # "open" => reader'[d][t] # "open"
    BY <1>11 DEF Close, PipeType
  <2> QED  BY <2>1, <2>2 DEF Kept, Over
<1>12. ASSUME UNCHANGED <<step, event, at, result, written, reader, stored, dropped, events, late>>
       PROVE  OrderInv'
  BY <1>12 DEF Kept, Over
<1> QED
  BY <1>1, <1>2, <1>3, <1>4, <1>5, <1>6, <1>7, <1>8, <1>9, <1>10, <1>11, <1>12,
     WhoMoves
  DEF Moves, runner

-----------------------------------------------------------------------------
\* The invariant, and what follows from it.

LEMMA InitInv == Init => IInv
<1> SUFFICES ASSUME Init PROVE IInv
  OBVIOUS
<1> USE DEF Init
<1>1. 1 \in Commands
  BY BoundAssumption DEF Commands
<1>2. TypeOK
  <2>1. RunnerType
    BY <1>1 DEF RunnerType, Steps, Events
  <2>2. GroupType /\ PipeType
    BY DEF GroupType, PipeType
  <2>3. LogType /\ EnvType
    BY DEF LogType, EnvType
  <2> QED  BY <2>1, <2>2, <2>3 DEF TypeOK
<1>3. PipesOrdered
  BY BoundAssumption DEF PipesOrdered, Streams
<1>4. ReadersQuiet /\ ReadersToCome
  BY DEF ReadersQuiet, ReadersToCome
<1>5. BetweenStages /\ ReadersJoined /\ EndedIsPast /\ OrderInv /\ LeadersWatched
  BY DEF BetweenStages, ReadersJoined, EndedIsPast, OrderInv, LeadersWatched, Over
<1>6. LinesAccounted
  <2>1. InHand = {}
    BY DEF InHand
  <2>2. \A c \in Commands : MaxLines[c] \in Nat
    BY BoundAssumption
  <2> QED  BY <2>1, <2>2 DEF LinesAccounted
<1> QED  BY <1>2, <1>3, <1>4, <1>5, <1>6 DEF IInv

LEMMA NextInv == IInv /\ [Next]_vars => IInv'
BY TypesKept, BetweenKept, OrderKept, QuietKept, ToComeKept, JoinedKept, EndedKept,
   WatchedKept,
   AccountedKept, LogKept DEF IInv, TypeOK

LEMMA Inductive == Spec => []IInv
BY InitInv, NextInv, PTL DEF Spec

\* The types are kept, for any number of commands and of failures of the store.
THEOREM TypeCorrect == Spec => []TypeOK
<1>1. IInv => TypeOK
  BY DEF IInv
<1> QED  BY <1>1, Inductive, PTL

\* However the readers, the runner and a failing store take turns at the buffer, every
\* line that was read is in exactly one place.
THEOREM LinesAreAccounted == Spec => []LinesAccounted
<1>1. IInv => LinesAccounted
  BY DEF IInv
<1> QED  BY <1>1, Inductive, PTL

\* The output of a stage is stored before the event that ends it, unless a join gave up
\* or the check raised.
THEOREM LogInOrder == Spec => []EventsInOrder
<1>1. IInv => EventsInOrder
  BY DEF IInv, OrderInv, EventsInOrder, Kept
<1> QED  BY <1>1, Inductive, PTL

\* A run that is over has left no leader alive but those of the two named cases.
THEOREM LeadersEnd == Spec => []CommandsEndInRun
<1>1. IInv => CommandsEndInRun
  BY DEF IInv, LeadersWatched, CommandsEndInRun
<1> QED  BY <1>1, Inductive, PTL
=============================================================================
