------------------------- MODULE ExperimentRunProofs -------------------------
(***************************************************************************)
(* What holds of the stages of an experiment for any pipelines, scripts,   *)
(* creators, workloads and number of faults.                               *)
(***************************************************************************)
EXTENDS ExperimentRun, TLAPS

\* The actions of one caller, without those that end the behaviour.
Step(a) ==
  \/ Start(a) \/ Work(a) \/ CommandWrites(a) \/ CommandEnds(a)
  \/ RaiseInStage(a) \/ RaiseInPackage(a) \/ Crash(a) \/ Cancel(a)

(***************************************************************************)
(* Types.                                                                  *)
(***************************************************************************)

\* A caller past a stage has its verdict, one with a product to check or to report has
\* completed so far, and one that waits has started its command.
Concluded(a) ==
  /\ pc[a] = "next" => result[a][stage[a]].status \in {"completed", "failed", "cancelled"}
  /\ pc[a] \in {"check", "copy", "report"} => draft[a].status = "completed"
  /\ pc[a] = "command" => cmd[a] # "none"

\* TypeOK is not inductive: a call ends with the status of its last stage.
TypeInv == TypeOK /\ \A a \in Callers : Concluded(a)

\* The values files and results are made of.
LEMMA Made ==
  /\ NoFile \in File /\ NoCard \in Card
  /\ \A a \in Owner, b \in Owner : [by |-> a, model |-> b] \in File
  /\ \A s \in Statuses, o \in Sources, f \in File :
       [status |-> s, source |-> o, file |-> f] \in Result
  /\ \A s \in Statuses : Unmade(s) \in Result /\ Unmade(s).status = s
BY DEF NoFile, NoCard, File, Card, Owner, Result, Unmade, Statuses, Sources

\* A result with another file.
LEMMA RefiledResult == \A r \in Result, f \in File : [r EXCEPT !.file = f] \in Result
BY DEF Result

\* Initial states are typed.
LEMMA TypeInit == Init => TypeOK
<1> SUFFICES ASSUME Init PROVE TypeOK
  OBVIOUS
<1> USE DEF Init
<1>1. /\ work \in Workload /\ faults \in 0..work.faults
      /\ disturbed \in [Callers -> BOOLEAN] /\ settled \in BOOLEAN
  <2>1. work \in Workload
    BY WorkloadAssumption
  <2>2. work.faults \in Nat
    BY <2>1 DEF Workload
  <2>3. faults \in 0..work.faults
    BY <2>2
  <2>4. disturbed \in [Callers -> BOOLEAN] /\ settled \in BOOLEAN
    OBVIOUS
  <2> QED BY <2>1, <2>3, <2>4
<1>2. /\ product \in [Stages -> File] /\ output \in File
      /\ report \in [Stages -> Result] /\ package \in [onnx : File, card : Card]
  BY Made DEF Statuses
<1>3. /\ before \in [Callers -> File] /\ draft \in [Callers -> Result]
      /\ result \in [Callers -> [Stages -> Result]] /\ card \in [Callers -> Card]
  BY Made DEF Statuses
<1>4. /\ pc \in [Callers -> Steps] /\ stage \in [Callers -> Stages]
      /\ cmd \in [Callers -> {"none", "running", "ok", "failed", "cancelled"}]
      /\ lock \in Pipelines \cup {None} /\ cancel \subseteq Pipelines
  BY DEF Steps, Stages
<1> QED BY <1>1, <1>2, <1>3, <1>4 DEF TypeOK

\* A stage's report is written: Conclude keeps types.
LEMMA TypeConclude ==
  ASSUME TypeOK, NEW a \in Callers, NEW r \in Result, Conclude(a, r)
  PROVE  TypeOK'
<1> USE DEF TypeOK, Conclude, Touch, Goto
<1>1. report' \in [Stages -> Result] /\ result' \in [Callers -> [Stages -> Result]]
  OBVIOUS
<1>2. /\ cmd' \in [Callers -> {"none", "running", "ok", "failed", "cancelled"}]
      /\ before' \in [Callers -> File] /\ draft' \in [Callers -> Result]
  BY Made DEF Statuses
<1>3. pc' \in [Callers -> Steps]
  BY DEF Steps
<1>4. disturbed' \in [Callers -> BOOLEAN] /\ settled' \in BOOLEAN /\ faults' \in 0..work'.faults
  BY DEF Ended, Active
<1> QED BY <1>1, <1>2, <1>3, <1>4

\* A call ends: Finish keeps the types of what it changes.
LEMMA TypeFinish ==
  ASSUME TypeOK, NEW a \in Callers, NEW o \in Outcomes, Finish(a, o),
         disturbed' \in [Callers -> BOOLEAN], settled' \in BOOLEAN, faults' \in 0..work.faults
  PROVE  TypeOK'
<1> USE DEF TypeOK, Finish, Goto, files
<1>1. pc' \in [Callers -> Steps] /\ lock' \in Pipelines \cup {None} /\ cancel' \subseteq Pipelines
  BY DEF Steps
<1>2. /\ before' \in [Callers -> File] /\ draft' \in [Callers -> Result]
      /\ result' \in [Callers -> [Stages -> Result]] /\ card' \in [Callers -> Card]
  BY Made DEF Statuses
<1> QED BY <1>1, <1>2

\* Each action of a stage keeps types.
LEMMA TypeStage == ASSUME TypeOK, NEW a \in Callers, Stage(a) PROVE TypeOK'
<1> USE Made DEF Statuses
<1>1. CASE StopAtStart(a)
  BY <1>1, TypeConclude DEF StopAtStart
<1>2. CASE Refuse(a)
  BY <1>2, TypeConclude DEF Refuse
<1>3. CASE Begin(a)
  <2>1. before' \in [Callers -> File] /\ pc' \in [Callers -> Steps]
    BY <1>3 DEF Begin, TypeOK, Goto, Steps, InStage
  <2>2. cmd' \in [Callers -> {"none", "running", "ok", "failed", "cancelled"}]
    BY <1>3 DEF Begin, TypeOK
  <2> QED BY <1>3, <2>1, <2>2 DEF Begin, TypeOK, files, past
<1>4. CASE TrainLocally(a)
  <2>1. draft' \in [Callers -> Result] /\ pc' \in [Callers -> Steps]
    BY <1>4 DEF TrainLocally, TypeOK, Goto, Steps, InStage
  <2> QED BY <1>4, <2>1 DEF TrainLocally, TypeOK, files, past
<1>5. CASE ReuseOnnx(a)
  <2>1. draft' \in [Callers -> Result] /\ pc' \in [Callers -> Steps]
    BY <1>5 DEF ReuseOnnx, TypeOK, Goto, Steps, InStage, Sources
  <2> QED BY <1>5, <2>1 DEF ReuseOnnx, TypeOK, files, past
<1>6. CASE SynthesizeOnnx(a)
  <2>1. draft' \in [Callers -> Result] /\ pc' \in [Callers -> Steps]
    BY <1>6 DEF SynthesizeOnnx, TypeOK, Goto, Steps, InStage, Sources
  <2>2. output' \in File /\ disturbed' \in [Callers -> BOOLEAN] /\ settled' \in BOOLEAN
    BY <1>6 DEF SynthesizeOnnx, TypeOK, Owner, Touch, Active, Ended
  <2> QED BY <1>6, <2>1, <2>2 DEF SynthesizeOnnx, TypeOK, Touch
<1>7. CASE Settle(a)
  <2>1. CASE pc[a] = "command" /\ cmd[a] # "running" /\ cmd[a] # "ok" /\ Conclude(a, Unmade(cmd[a]))
    <3>1. cmd[a] = "none" \/ cmd[a] \in {"failed", "cancelled"}
      BY <2>1 DEF TypeOK
    <3> QED BY <2>1, <3>1, TypeConclude
  <2>2. CASE Conclude(a, Unmade("cancelled"))
    BY <2>2, TypeConclude
  <2>3. CASE /\ draft' = [draft EXCEPT ![a] =
                  [status |-> "completed", source |-> "external_command", file |-> NoFile]]
             /\ Goto(a, "check")
             /\ UNCHANGED <<work, files, lock, stage, cmd, before, result, card, cancel, past>>
    <3>1. draft' \in [Callers -> Result] /\ pc' \in [Callers -> Steps]
      BY <2>3 DEF TypeOK, Goto, Steps, InStage, Sources
    <3> QED BY <2>3, <3>1 DEF TypeOK, files, past
  <2> QED BY <1>7, <2>1, <2>2, <2>3 DEF Settle
<1>8. CASE Check(a)
  <2>1. draft' \in [Callers -> Result]
    <3>1. PICK f \in File : draft' = [draft EXCEPT ![a] = [draft[a] EXCEPT !.file = f]]
      BY <1>8 DEF Check, TypeOK, Stages
    <3>2. [draft[a] EXCEPT !.file = f] \in Result
      BY RefiledResult DEF TypeOK
    <3> QED BY <3>1, <3>2 DEF TypeOK
  <2>2. pc' \in [Callers -> Steps]
    BY <1>8 DEF Check, TypeOK, Goto, Steps, InStage
  <2> QED BY <1>8, <2>1, <2>2 DEF Check, TypeOK, files, past
<1>9. CASE RejectProduct(a)
  BY <1>9, TypeConclude DEF RejectProduct
<1>10. CASE Copy(a)
  <2>1. output' \in File /\ pc' \in [Callers -> Steps]
    BY <1>10 DEF Copy, TypeOK, Goto, Steps, InStage, Stages
  <2>2. disturbed' \in [Callers -> BOOLEAN] /\ settled' \in BOOLEAN
    BY <1>10 DEF Copy, TypeOK, Touch, Active, Ended
  <2> QED BY <1>10, <2>1, <2>2 DEF Copy, TypeOK, Touch
<1>11. CASE ReadMetrics(a)
  <2>1. product["evaluation"] \in File /\ [by |-> a, model |-> None] \in File
    BY DEF TypeOK, Stages, Owner
  <2>2. draft' \in [Callers -> Result]
    BY <1>11, <2>1 DEF ReadMetrics, TypeOK, Sources
  <2>3. pc' \in [Callers -> Steps]
    BY <1>11 DEF ReadMetrics, TypeOK, Goto, Steps, InStage
  <2> QED BY <1>11, <2>2, <2>3 DEF ReadMetrics, TypeOK, files, past
<1>12. CASE RejectContent(a)
  BY <1>12, TypeConclude DEF RejectContent
<1>13. CASE StopBeforeReport(a)
  BY <1>13, TypeConclude DEF StopBeforeReport
<1>14. CASE Report(a)
  <2>1. draft[a] \in Result /\ [draft[a] EXCEPT !.file = output] \in Result
    BY RefiledResult DEF TypeOK
  <2> QED BY <1>14, <2>1, TypeConclude DEF Report
<1> QED
  BY <1>1, <1>2, <1>3, <1>4, <1>5, <1>6, <1>7, <1>8, <1>9, <1>10, <1>11, <1>12, <1>13, <1>14 DEF Stage

\* Each action between stages keeps types.
LEMMA TypeOrder == ASSUME TypeOK, NEW a \in Callers, Concluded(a), Order(a) PROVE TypeOK'
<1> USE Made DEF Statuses, Outcomes
<1>0. UNCHANGED past => /\ disturbed' \in [Callers -> BOOLEAN] /\ settled' \in BOOLEAN
                        /\ faults' \in 0..work.faults
  BY DEF past, TypeOK
<1>1. CASE StopBeforeTraining(a)
  BY <1>0, <1>1, TypeFinish DEF StopBeforeTraining
<1>2. CASE Advance(a)
  <2>1. pc' \in [Callers -> Steps] /\ stage' \in [Callers -> Stages]
    <3>1. /\ pc' = [pc EXCEPT ![a] = "begin"] \/ pc' = [pc EXCEPT ![a] = "gate"]
          /\ stage' = [stage EXCEPT ![a] = Following(stage[a])] \/ stage' = stage
      BY <1>2 DEF Advance, TypeOK, Goto
    <3>2. Following(stage[a]) \in Stages
      BY DEF Following, Stages
    <3>3. /\ pc \in [Callers -> Steps] /\ stage \in [Callers -> Stages]
          /\ "begin" \in Steps /\ "gate" \in Steps
      BY DEF TypeOK, Steps, InStage
    <3> QED BY <3>1, <3>2, <3>3
  <2>2. settled' \in BOOLEAN
    BY <1>2 DEF Advance, TypeOK, Settled
  <2> QED BY <1>2, <2>1, <2>2 DEF Advance, TypeOK, files
<1>3. CASE Stop(a)
  <2>1. /\ disturbed' \in [Callers -> BOOLEAN] /\ faults' \in 0..work.faults
        /\ settled' \in BOOLEAN
    BY <1>3 DEF Stop, TypeOK, Settled
  <2>2. PICK o \in Outcomes : Finish(a, o)
    BY <1>3 DEF Stop, Concluded
  <2> QED BY <2>1, <2>2, TypeFinish
<1>4. CASE ScriptEnds(a)
  BY <1>0, <1>4, TypeFinish DEF ScriptEnds, Concluded
<1>5. CASE Exported(a)
  <2>1. CASE Finish(a, "failed")
    BY <1>0, <1>5, <2>1, TypeFinish DEF Exported
  <2>2. CASE Goto(a, "load") /\ stage' = [stage EXCEPT ![a] = "training"]
             /\ UNCHANGED <<work, files, lock, cmd, before, draft, result, card, cancel>>
             /\ UNCHANGED past
    <3>1. pc' \in [Callers -> Steps] /\ stage' \in [Callers -> Stages]
      BY <2>2 DEF TypeOK, Goto, Steps, Stages
    <3> QED BY <1>0, <2>2, <3>1 DEF TypeOK, files
  <2> QED BY <1>5, <2>1, <2>2 DEF Exported
<1> QED BY <1>1, <1>2, <1>3, <1>4, <1>5 DEF Order

\* Each action of packaging keeps types.
LEMMA TypePackaging == ASSUME TypeOK, NEW a \in Callers, Packaging(a) PROVE TypeOK'
<1> USE DEF Outcomes
<1>0. UNCHANGED past => /\ disturbed' \in [Callers -> BOOLEAN] /\ settled' \in BOOLEAN
                        /\ faults' \in 0..work.faults
  BY DEF past, TypeOK
<1>1. CASE Load(a)
  <2>1. result' \in [Callers -> [Stages -> Result]]
    BY <1>1 DEF Load, TypeOK
  <2>2. pc' \in [Callers -> Steps] /\ stage' \in [Callers -> Stages]
    <3>1. \/ pc' = [pc EXCEPT ![a] = "gate"] /\ UNCHANGED stage
          \/ stage' = [stage EXCEPT ![a] = Following(stage[a])] /\ UNCHANGED pc
      BY <1>1 DEF Load, TypeOK, Goto
    <3>2. Following(stage[a]) \in Stages
      BY DEF Following, Stages
    <3>3. /\ pc \in [Callers -> Steps] /\ stage \in [Callers -> Stages] /\ "gate" \in Steps
      BY DEF TypeOK, Steps
    <3> QED BY <3>1, <3>2, <3>3
  <2> QED BY <1>1, <2>1, <2>2 DEF Load, TypeOK, files, past
<1>2. CASE BuildCard(a)
  <2>1. /\ result[a]["training"].file \in File /\ result[a]["evaluation"].file \in File
    BY DEF TypeOK, Stages, Result
  <2>2. card' \in [Callers -> Card]
    BY <1>2, <2>1, Made DEF BuildCard, TypeOK, Card, Owner
  <2>3. pc' \in [Callers -> Steps]
    BY <1>2 DEF BuildCard, TypeOK, Goto, Steps
  <2> QED BY <1>2, <2>2, <2>3 DEF BuildCard, TypeOK, files, past
<1>3. CASE Distrust(a)
  BY <1>0, <1>3, TypeFinish DEF Distrust
<1>4. CASE PlaceModel(a)
  <2>0. Onnx(a) \in File
    BY Made DEF TypeOK, Onnx, Owner
  <2>1. package' \in [onnx : File, card : Card]
    BY <1>4, <2>0 DEF PlaceModel, TypeOK
  <2>2. [card[a] EXCEPT !.sha = Onnx(a)] \in Card
    BY <2>0 DEF TypeOK, Card
  <2>3. card' \in [Callers -> Card] /\ pc' \in [Callers -> Steps]
    BY <1>4, <2>2 DEF PlaceModel, TypeOK, Goto, Steps
  <2>4. disturbed' \in [Callers -> BOOLEAN]
    BY <1>4 DEF PlaceModel, TypeOK, Disturb, Active, Ended
  <2> QED BY <1>4, <2>1, <2>3, <2>4 DEF PlaceModel, TypeOK, Disturb
<1>5. CASE WriteCard(a)
  <2>1. package' \in [onnx : File, card : Card]
    BY <1>5 DEF WriteCard, TypeOK
  <2>2. pc' \in [Callers -> Steps]
    BY <1>5 DEF WriteCard, TypeOK, Goto, Steps
  <2>3. disturbed' \in [Callers -> BOOLEAN]
    BY <1>5 DEF WriteCard, TypeOK, Disturb, Active, Ended
  <2> QED BY <1>5, <2>1, <2>2, <2>3 DEF WriteCard, TypeOK, Disturb
<1>6. CASE Accept(a)
  BY <1>0, <1>6, TypeFinish DEF Accept
<1>7. CASE Reject(a)
  BY <1>0, <1>7, TypeFinish DEF Reject
<1> QED BY <1>1, <1>2, <1>3, <1>4, <1>5, <1>6, <1>7 DEF Packaging

\* Each action of one caller keeps types.
LEMMA TypeStep == ASSUME TypeOK, NEW a \in Callers, Concluded(a), Step(a) PROVE TypeOK'
<1>0. UNCHANGED past => /\ disturbed' \in [Callers -> BOOLEAN] /\ settled' \in BOOLEAN
                        /\ faults' \in 0..work.faults
  BY DEF past, TypeOK
<1>1. CASE Start(a)
  <2>1. CASE StartPipeline(a)
    <3>1. settled' \in BOOLEAN /\ lock' \in Pipelines \cup {None}
      BY <2>1 DEF StartPipeline, TypeOK
    <3>2. "begin" \in Steps /\ "failed" \in Steps
      BY DEF Steps, InStage, Outcomes
    <3>3. pc' \in [Callers -> Steps]
      BY <2>1, <3>2 DEF StartPipeline, TypeOK, Goto
    <3> QED BY <2>1, <3>1, <3>3 DEF StartPipeline, TypeOK, files
  <2>2. CASE StartScript(a)
    <3>1. PICK s \in Stages : stage' = [stage EXCEPT ![a] = s]
      BY <2>2, Zenon DEF StartScript
    <3>2. pc' \in [Callers -> Steps]
      BY <2>2 DEF StartScript, TypeOK, Goto, Steps, InStage
    <3>3. stage' \in [Callers -> Stages] /\ settled' = FALSE
      BY <2>2, <3>1 DEF StartScript, TypeOK
    <3> QED BY <2>2, <3>2, <3>3 DEF StartScript, TypeOK, files
  <2>3. CASE StartCreator(a)
    <3>0. "begin" \in Steps /\ "load" \in Steps
      BY DEF Steps, InStage
    <3>1. pc' \in [Callers -> Steps]
      BY <2>3, <3>0 DEF StartCreator, TypeOK, Goto
    <3>2. stage' \in [Callers -> Stages] /\ disturbed' \in [Callers -> BOOLEAN]
      BY <2>3 DEF StartCreator, TypeOK, Stages
    <3> QED BY <2>3, <3>1, <3>2 DEF StartCreator, TypeOK, files
  <2> QED BY <1>1, <2>1, <2>2, <2>3 DEF Start
<1>2. CASE Work(a)
  BY <1>2, TypeStage, TypeOrder, TypePackaging DEF Work
<1>3. CASE CommandWrites(a)
  <2>1. PICK m \in Owner : \/ output' = [by |-> a, model |-> m] /\ UNCHANGED product
                          \/ /\ product' = [product EXCEPT ![stage[a]] = [by |-> a, model |-> m]]
                             /\ UNCHANGED output
    <3>1. stage[a] \in Stages /\ product["training"].model \in Owner /\ output.model \in Owner
      BY DEF TypeOK, Stages, File
    <3> QED BY <1>3, <3>1 DEF CommandWrites, Owner, Stages
  <2>2. product' \in [Stages -> File] /\ output' \in File
    <3>1. a \in Owner /\ [by |-> a, model |-> m] \in File
      BY Made DEF Owner
    <3>2. product \in [Stages -> File] /\ output \in File /\ stage[a] \in Stages
      BY DEF TypeOK
    <3> QED BY <2>1, <3>1, <3>2
  <2>3. disturbed' \in [Callers -> BOOLEAN] /\ settled' \in BOOLEAN
    BY <1>3 DEF CommandWrites, TypeOK, Touch, Active, Ended
  <2> QED BY <1>3, <2>2, <2>3 DEF CommandWrites, TypeOK, Touch, caller
<1>4. CASE CommandEnds(a)
  BY <1>4 DEF CommandEnds, TypeOK, files, past
<1>5. CASE RaiseInStage(a)
  <2>1. result' \in [Callers -> [Stages -> Result]]
    BY <1>5, Made DEF RaiseInStage, TypeOK, Statuses
  <2>2. pc' \in [Callers -> Steps]
    BY <1>5 DEF RaiseInStage, TypeOK, Goto, Steps
  <2>3. faults' \in 0..work.faults
    BY <1>5 DEF RaiseInStage, TypeOK, Workload
  <2> QED BY <1>5, <2>1, <2>2, <2>3 DEF RaiseInStage, TypeOK, files
<1>6. CASE RaiseInPackage(a)
  BY <1>0, <1>6, TypeFinish DEF RaiseInPackage, Outcomes
<1>7. CASE Crash(a)
  <2>1. faults' \in 0..work.faults
    BY <1>7 DEF Crash, TypeOK, Workload
  <2> QED BY <1>7, <2>1, TypeFinish DEF Crash, Outcomes, TypeOK
<1>8. CASE Cancel(a)
  BY <1>8 DEF Cancel, TypeOK, files, caller, past
<1> QED BY <1>1, <1>2, <1>3, <1>4, <1>5, <1>6, <1>7, <1>8 DEF Step

\* A step of one caller leaves the others where they are.
LEMMA Others ==
  ASSUME TypeOK, NEW a \in Callers, Step(a), NEW b \in Callers, b # a
  PROVE  /\ pc'[b] = pc[b] /\ stage'[b] = stage[b] /\ cmd'[b] = cmd[b]
         /\ before'[b] = before[b] /\ draft'[b] = draft[b]
         /\ result'[b] = result[b] /\ card'[b] = card[b]
<1> USE DEF TypeOK, Goto
<1>1. CASE Start(a)
  BY <1>1 DEF Start, StartPipeline, StartScript, StartCreator
<1>2. CASE Stage(a)
  <2>1. CASE \E r \in Result : Conclude(a, r)
    BY <2>1 DEF Conclude
  <2>2. CASE StopAtStart(a) \/ Refuse(a) \/ RejectProduct(a) \/ RejectContent(a) \/ StopBeforeReport(a)
    BY <2>1, <2>2, Made DEF StopAtStart, Refuse, RejectProduct, RejectContent, StopBeforeReport, Statuses
  <2>3. CASE Report(a)
    BY <2>3 DEF Report, Conclude
  <2>4. CASE Settle(a)
    BY <2>4 DEF Settle, Conclude
  <2>5. CASE Begin(a) \/ TrainLocally(a) \/ ReuseOnnx(a) \/ SynthesizeOnnx(a)
    BY <2>5 DEF Begin, TrainLocally, ReuseOnnx, SynthesizeOnnx
  <2>6. CASE Check(a) \/ Copy(a) \/ ReadMetrics(a)
    BY <2>6 DEF Check, Copy, ReadMetrics
  <2> QED BY <1>2, <2>2, <2>3, <2>4, <2>5, <2>6 DEF Stage
<1>3. CASE Order(a)
  <2>1. CASE Advance(a)
    BY <2>1 DEF Advance
  <2>2. CASE Exported(a)
    BY <2>2 DEF Exported, Finish
  <2>3. CASE StopBeforeTraining(a) \/ Stop(a) \/ ScriptEnds(a)
    BY <2>3 DEF StopBeforeTraining, Stop, ScriptEnds, Finish
  <2> QED BY <1>3, <2>1, <2>2, <2>3 DEF Order
<1>4. CASE Packaging(a)
  BY <1>4 DEF Packaging, Load, BuildCard, Distrust, PlaceModel, WriteCard, Accept, Reject, Finish
<1>5. CASE CommandWrites(a) \/ CommandEnds(a) \/ Cancel(a)
  BY <1>5 DEF CommandWrites, CommandEnds, Cancel, caller
<1>6. CASE RaiseInStage(a) \/ RaiseInPackage(a) \/ Crash(a)
  BY <1>6 DEF RaiseInStage, RaiseInPackage, Crash, Finish
<1> QED BY <1>1, <1>2, <1>3, <1>4, <1>5, <1>6 DEF Step, Work

\* What a caller knows of its stage goes on to hold.
LEMMA ConcludedStep ==
  ASSUME TypeOK, NEW a \in Callers, Concluded(a), Step(a) PROVE Concluded(a)'
<1> USE DEF TypeOK, Concluded, Goto
<1>1. CASE Start(a)
  BY <1>1 DEF Start, StartPipeline, StartScript, StartCreator
<1>2. CASE \E r \in Result : r.status \in {"completed", "failed", "cancelled"} /\ Conclude(a, r)
  BY <1>2 DEF Conclude
<1>3. CASE \/ StopAtStart(a) \/ Refuse(a) \/ RejectProduct(a) \/ RejectContent(a) \/ StopBeforeReport(a)
           \/ Report(a)
  <2>1. CASE Report(a)
    <3>1. /\ draft[a] \in Result /\ draft[a].status = "completed"
          /\ [draft[a] EXCEPT !.file = output] \in Result
          /\ [draft[a] EXCEPT !.file = output].status = "completed"
      BY <2>1, RefiledResult DEF Report, Result
    <3> QED BY <1>2, <2>1, <3>1 DEF Report
  <2>2. CASE \E s \in {"failed", "cancelled"} : Conclude(a, Unmade(s))
    BY <1>2, <2>2, Made DEF Statuses
  <2> QED BY <1>3, <2>1, <2>2 DEF StopAtStart, Refuse, RejectProduct, RejectContent, StopBeforeReport
<1>4. CASE Settle(a)
  <2>1. CASE Conclude(a, Unmade(cmd[a])) /\ cmd[a] # "ok" /\ cmd[a] # "running" /\ pc[a] = "command"
    <3>1. cmd[a] \in {"failed", "cancelled"}
      BY <2>1
    <3> QED BY <1>2, <2>1, <3>1, Made DEF Statuses
  <2>2. CASE Conclude(a, Unmade("cancelled"))
    BY <1>2, <2>2, Made DEF Statuses
  <2> QED BY <1>4, <2>1, <2>2 DEF Settle
<1>5. CASE Begin(a) \/ TrainLocally(a) \/ ReuseOnnx(a) \/ SynthesizeOnnx(a)
  BY <1>5, Made DEF Begin, TrainLocally, ReuseOnnx, SynthesizeOnnx, Statuses
<1>6. CASE Check(a) \/ Copy(a) \/ ReadMetrics(a)
  BY <1>6 DEF Check, Copy, ReadMetrics, Result
<1>7. CASE Order(a)
  BY <1>7 DEF Order, Advance, Exported, StopBeforeTraining, Stop, ScriptEnds, Finish
<1>8. CASE Packaging(a)
  BY <1>8 DEF Packaging, Load, BuildCard, Distrust, PlaceModel, WriteCard, Accept, Reject, Finish
<1>9. CASE CommandWrites(a) \/ CommandEnds(a) \/ Cancel(a)
  BY <1>9 DEF CommandWrites, CommandEnds, Cancel, caller
<1>10. CASE RaiseInStage(a) \/ RaiseInPackage(a) \/ Crash(a)
  BY <1>10, Made DEF RaiseInStage, RaiseInPackage, Crash, Finish, Statuses
<1> QED BY <1>1, <1>3, <1>4, <1>5, <1>6, <1>7, <1>8, <1>9, <1>10 DEF Step, Work, Stage

\* A step of the specification is a step of one caller or changes nothing.
LEMMA NextIsStep ==
  [Next]_vars => (\E a \in Callers : Step(a)) \/ UNCHANGED vars
BY DEF Next, Step, Done

\* TypeInv is inductive.
LEMMA TypeInvStep == TypeInv /\ [Next]_vars => TypeInv'
<1> SUFFICES ASSUME TypeInv, [Next]_vars PROVE TypeInv'
  OBVIOUS
<1>1. CASE UNCHANGED vars
  BY <1>1 DEF vars, files, caller, past, TypeInv, TypeOK, Concluded
<1>2. ASSUME NEW a \in Callers, Step(a) PROVE TypeInv'
  <2>1. TypeOK' /\ Concluded(a)'
    BY <1>2, TypeStep, ConcludedStep DEF TypeInv
  <2>2. ASSUME NEW b \in Callers, b # a PROVE Concluded(b)'
    BY <1>2, <2>2, Others DEF TypeInv, Concluded
  <2> QED BY <2>1, <2>2 DEF TypeInv
<1> QED BY <1>1, <1>2, NextIsStep

\* Nothing is concluded at the start.
LEMMA TypeInvInit == Init => TypeInv
BY TypeInit DEF Init, TypeInv, Concluded

\* The variables of an experiment's callers and files keep their types.
THEOREM TypeCorrect == Spec => []TypeOK
<1>1. TypeInv => TypeOK
  BY DEF TypeInv
<1> QED BY <1>1, TypeInvInit, TypeInvStep, PTL DEF Spec

(***************************************************************************)
(* The run lock and who writes beside whom.                                *)
(***************************************************************************)

\* An active pipeline holds the run lock.
Holds(a) == (a \in Pipelines /\ Active(a)) => lock = a

\* A caller whose command runs is waiting for it.
Waits(a) == cmd[a] = "running" => pc[a] = "command"

\* Only pipelines are at work and nothing was cut off.
Shielded == work.callers \subseteq Pipelines /\ faults = 0

\* LockShieldsRun, strengthened: whoever is at work is a pipeline and waits for its command.
ShieldInv ==
  /\ \A a \in Callers : Holds(a)
  /\ Shielded => \A a \in Callers :
       ~disturbed[a] /\ Waits(a) /\ (pc[a] # "idle" => a \in Pipelines)

\* A step takes the lock when it is free, gives up one's own, or leaves it alone.
LEMMA LockStep ==
  ASSUME TypeOK, NEW a \in Callers, Concluded(a), Holds(a), Step(a)
  PROVE  /\ lock' # lock => lock \in {a, None}
         /\ Holds(a)'
<1> USE DEF TypeOK, Holds, Active, Ended, Goto, Outcomes
<1>1. CASE Start(a)
  BY <1>1, CallerAssumption DEF Start, StartPipeline, StartScript, StartCreator
<1>2. CASE \E o \in Outcomes : Finish(a, o)
  BY <1>2 DEF Finish
<1>3. CASE UNCHANGED lock /\ pc[a] # "idle" /\ pc[a] \notin Outcomes
  BY <1>3
<1>4. CASE UNCHANGED <<lock, pc>>
  BY <1>4
<1>5. CASE Stage(a)
  BY <1>3, <1>5 DEF Stage, StopAtStart, Refuse, Begin, TrainLocally, ReuseOnnx, SynthesizeOnnx,
     Settle, Check, RejectProduct, Copy, ReadMetrics, RejectContent, StopBeforeReport, Report, Conclude
<1>6. CASE Order(a)
  <2>1. CASE StopBeforeTraining(a) \/ Stop(a) \/ ScriptEnds(a)
    BY <1>2, <2>1 DEF StopBeforeTraining, Stop, ScriptEnds, Concluded
  <2>2. CASE Advance(a)
    BY <1>3, <2>2 DEF Advance
  <2>3. CASE Exported(a)
    BY <1>2, <1>3, <2>3 DEF Exported
  <2> QED BY <1>6, <2>1, <2>2, <2>3 DEF Order
<1>7. CASE Packaging(a)
  BY <1>2, <1>3, <1>7 DEF Packaging, Load, BuildCard, Distrust, PlaceModel, WriteCard, Accept, Reject
<1>8. CASE CommandWrites(a) \/ CommandEnds(a) \/ Cancel(a)
  BY <1>4, <1>8 DEF CommandWrites, CommandEnds, Cancel, caller
<1>9. CASE RaiseInStage(a)
  BY <1>3, <1>9 DEF RaiseInStage, InStage
<1>10. CASE RaiseInPackage(a) \/ Crash(a)
  BY <1>2, <1>10 DEF RaiseInPackage, Crash
<1> QED BY <1>1, <1>5, <1>6, <1>7, <1>8, <1>9, <1>10 DEF Step, Work

\* Who disturbs another is at work, or its command is; who is disturbed stays so.
LEMMA DisturbStep ==
  ASSUME TypeOK, NEW a \in Callers, Step(a), NEW b \in Callers
  PROVE  /\ disturbed'[b] =>
              \/ disturbed[b]
              \/ (b = a /\ a \in Creators \cap work.callers)
              \/ (b # a /\ Active(b) /\ (Active(a) \/ cmd[a] = "running"))
         /\ (b # a /\ Active(b)) =>
              disturbed'[b] \/ UNCHANGED files
         /\ (disturbed[b] /\ (b \notin Creators \/ pc[b] # "idle")) => disturbed'[b]
         /\ faults' \in {faults, faults + 1}
         /\ work' = work
<1> DEFINE Writes ==
      /\ disturbed' = [x \in Callers |-> disturbed[x] \/ (x # a /\ Active(x))]
      /\ Active(a) \/ cmd[a] = "running"
      Reads == UNCHANGED <<disturbed, product, output, report, package>>
      Counts == faults' \in {faults, faults + 1} /\ work' = work
<1>0. pc[a] \in InStage \cup {"next", "load", "gate", "place", "card", "validate"} => Active(a)
  BY DEF Active, Ended, Outcomes, InStage
<1>1. CASE Counts /\ Writes
  <2>1. disturbed'[b] <=> (disturbed[b] \/ (b # a /\ Active(b)))
    BY <1>1, Zenon
  <2> QED BY <1>1, <2>1, Zenon
<1>2. CASE Counts /\ Reads
  <2>1. disturbed' = disturbed /\ UNCHANGED files
    BY <1>2 DEF files
  <2> QED BY <1>2, <2>1, Zenon
<1>3. CASE StartPipeline(a) \/ StartScript(a)
  BY <1>2, <1>3 DEF StartPipeline, StartScript, files
<1>4. CASE StartCreator(a)
  <2>1. /\ disturbed' = [disturbed EXCEPT ![a] = ~settled] /\ a \in Creators \cap work.callers
        /\ pc[a] = "idle" /\ UNCHANGED <<files, faults, work>>
    BY <1>4 DEF StartCreator, files
  <2>2. b # a => disturbed'[b] = disturbed[b]
    BY <2>1 DEF TypeOK
  <2>3. UNCHANGED files /\ faults' = faults /\ work' = work
    BY <2>1
  <2>4. b = a => b \in Creators /\ pc[b] = "idle"
    BY <2>1
  <2> QED BY <2>1, <2>2, <2>3, <2>4, Zenon
<1>5. CASE \E o : Finish(a, o) /\ UNCHANGED disturbed /\ faults' \in {faults, faults + 1}
  BY <1>2, <1>5 DEF Finish, files
<1>6. CASE Stage(a)
  <2>1. CASE \E r : Conclude(a, r) /\ pc[a] \in InStage
    BY <1>0, <1>1, <2>1 DEF Conclude, Touch
  <2>2. CASE StopAtStart(a) \/ Refuse(a) \/ RejectProduct(a)
    BY <2>1, <2>2 DEF StopAtStart, Refuse, RejectProduct, InStage
  <2>3. CASE RejectContent(a) \/ StopBeforeReport(a) \/ Report(a)
    BY <2>1, <2>3 DEF RejectContent, StopBeforeReport, Report, InStage
  <2>4. CASE Settle(a)
    <3>1. CASE UNCHANGED <<work, files, past>>
      BY <1>2, <3>1 DEF files, past
    <3> QED BY <2>1, <2>4, <3>1 DEF Settle, InStage
  <2>5. CASE Begin(a) \/ TrainLocally(a) \/ ReuseOnnx(a) \/ Check(a) \/ ReadMetrics(a)
    BY <1>2, <2>5 DEF Begin, TrainLocally, ReuseOnnx, Check, ReadMetrics, files, past
  <2>6. CASE SynthesizeOnnx(a) \/ Copy(a)
    BY <1>0, <1>1, <2>6 DEF SynthesizeOnnx, Copy, Touch, InStage
  <2> QED BY <1>6, <2>2, <2>3, <2>4, <2>5, <2>6 DEF Stage
<1>7. CASE Order(a)
  BY <1>2, <1>5, <1>7
     DEF Order, StopBeforeTraining, Advance, Stop, ScriptEnds, Exported, files, past
<1>8. CASE Packaging(a)
  <2>1. CASE PlaceModel(a) \/ WriteCard(a)
    BY <1>0, <1>1, <2>1 DEF PlaceModel, WriteCard, Disturb
  <2>2. CASE Load(a) \/ BuildCard(a)
    BY <1>2, <2>2 DEF Load, BuildCard, files, past
  <2>3. CASE Distrust(a) \/ Accept(a) \/ Reject(a)
    BY <1>5, <2>3 DEF Distrust, Accept, Reject, past
  <2> QED BY <1>8, <2>1, <2>2, <2>3 DEF Packaging
<1>9. CASE CommandWrites(a)
  BY <1>1, <1>9 DEF CommandWrites, Touch
<1>10. CASE CommandEnds(a) \/ Cancel(a) \/ RaiseInStage(a)
  BY <1>2, <1>10 DEF CommandEnds, Cancel, RaiseInStage, files, past
<1>11. CASE RaiseInPackage(a) \/ Crash(a)
  BY <1>5, <1>11 DEF RaiseInPackage, Crash, past
<1> QED
  BY <1>3, <1>4, <1>6, <1>7, <1>8, <1>9, <1>10, <1>11 DEF Step, Start, Work

\* Unless it is cut off, a caller leaves no command behind; only those invited start.
LEMMA WaitStep ==
  ASSUME TypeOK, NEW a \in Callers, Waits(a), Step(a), faults' = faults
  PROVE  /\ Waits(a)'
         /\ (pc[a] = "idle" /\ pc'[a] # "idle") => a \in work.callers
<1> USE DEF TypeOK, Waits, Goto
<1>1. CASE Start(a)
  BY <1>1 DEF Start, StartPipeline, StartScript, StartCreator
<1>2. CASE Stage(a)
  BY <1>2 DEF Stage, StopAtStart, Refuse, Begin, TrainLocally, ReuseOnnx, SynthesizeOnnx,
     Settle, Check, RejectProduct, Copy, ReadMetrics, RejectContent, StopBeforeReport, Report, Conclude
<1>3. CASE Order(a)
  BY <1>3 DEF Order, StopBeforeTraining, Advance, Stop, ScriptEnds, Exported, Finish
<1>4. CASE Packaging(a)
  BY <1>4 DEF Packaging, Load, BuildCard, Distrust, PlaceModel, WriteCard, Accept, Reject, Finish
<1>5. CASE CommandWrites(a) \/ CommandEnds(a) \/ Cancel(a)
  BY <1>5 DEF CommandWrites, CommandEnds, Cancel, caller
<1>6. CASE RaiseInPackage(a)
  BY <1>6 DEF RaiseInPackage, Finish
<1>7. faults \in Nat
  BY DEF Workload
<1> QED BY <1>1, <1>2, <1>3, <1>4, <1>5, <1>6, <1>7 DEF Step, Work, RaiseInStage, Crash

\* ShieldInv is inductive.
LEMMA ShieldStep == TypeInv /\ ShieldInv /\ [Next]_vars => ShieldInv'
<1> SUFFICES ASSUME TypeInv, ShieldInv, [Next]_vars PROVE ShieldInv'
  OBVIOUS
<1>1. CASE UNCHANGED vars
  BY <1>1 DEF vars, files, caller, past, ShieldInv, Shielded, Holds, Waits, Active, Ended
<1>2. ASSUME NEW a \in Callers, Step(a) PROVE ShieldInv'
  <2> USE DEF TypeInv
  <2>1. ASSUME NEW b \in Callers PROVE Holds(b)'
    <3>1. CASE b = a
      BY <1>2, <3>1, LockStep DEF ShieldInv
    <3>2. CASE b # a
      <4>1. pc'[b] = pc[b]
        BY <1>2, <3>2, Others
      <4>2. lock' # lock => lock \in {a, None}
        BY <1>2, LockStep DEF ShieldInv
      <4> QED BY <4>1, <4>2, <3>2, CallerAssumption DEF ShieldInv, Holds, Active, Ended
    <3> QED BY <3>1, <3>2
  <2>2. ASSUME Shielded', NEW b \in Callers
        PROVE  ~disturbed'[b] /\ Waits(b)' /\ (pc'[b] # "idle" => b \in Pipelines)
    <3>1. Shielded /\ faults' = faults
      <4>1. faults' \in {faults, faults + 1} /\ work' = work /\ faults \in Nat
        BY <1>2, DisturbStep DEF TypeOK, Workload
      <4> QED BY <2>2, <4>1 DEF Shielded
    <3>2. \A x \in Callers : ~disturbed[x] /\ Waits(x) /\ Holds(x) /\ (pc[x] # "idle" => x \in Pipelines)
      BY <3>1 DEF ShieldInv
    <3>3. Waits(a)' /\ ((pc[a] = "idle" /\ pc'[a] # "idle") => a \in Pipelines)
      BY <1>2, <3>1, <3>2, WaitStep DEF Shielded
    <3>4. a \notin Creators \cap work.callers
      BY <3>1, CallerAssumption DEF Shielded
    <3>5. ~disturbed'[b]
      <4>1. ~(b # a /\ Active(b) /\ (Active(a) \/ cmd[a] = "running"))
        BY <3>2 DEF Waits, Holds, Active, Ended, Outcomes
      <4> QED BY <1>2, <3>2, <3>4, <4>1, DisturbStep
    <3>6. Waits(b)' /\ (pc'[b] # "idle" => b \in Pipelines)
      BY <1>2, <3>2, <3>3, Others DEF Waits
    <3> QED BY <3>5, <3>6
  <2> QED BY <2>1, <2>2 DEF ShieldInv
<1> QED BY <1>1, <1>2, NextIsStep

\* While callers are pipelines and nothing is cut off, nobody writes beside a run.
THEOREM LockShields == Spec => []LockShieldsRun
<1>1. Init => ShieldInv
  BY DEF Init, ShieldInv, Holds, Waits, Active
<1>2. ShieldInv => LockShieldsRun
  BY DEF ShieldInv, Shielded, LockShieldsRun
<1> QED BY <1>1, <1>2, TypeInvInit, TypeInvStep, ShieldStep, PTL DEF Spec

(***************************************************************************)
(* What the export report says of the exported file.                       *)
(***************************************************************************)

\* A caller on its way to the report of an export.
Exporting(a) == stage[a] = "export" /\ pc[a] \in InStage

Tells == report["export"].source = "external_command" => report["export"].file = output

\* ReportTellsOnnx, strengthened: while nothing was cut off, commands are waited for, and
\* a report that does not tell the file is about to be replaced.
TellsInv == faults = 0 =>
  /\ \A a \in Callers : Waits(a) /\ (pc[a] = "copy" => stage[a] = "export")
  /\ Tells \/ \E a \in Callers : Exporting(a)

\* Who writes the exported file is exporting, and stays so until its report is there.
LEMMA ExportStep ==
  ASSUME TypeOK, NEW a \in Callers, Waits(a), pc[a] = "copy" => stage[a] = "export",
         Step(a), faults' = faults
  PROVE  /\ (Tells \/ Exporting(a)) => (Tells' \/ Exporting(a)')
         /\ pc'[a] = "copy" => stage'[a] = "export"
<1> USE DEF TypeOK, Goto
<1> DEFINE Copies == pc'[a] = "copy" => stage'[a] = "export"
<1>0. stage[a] \in {"training", "export", "evaluation"} /\ faults \in Nat
  BY DEF Stages, Workload
<1>1. CASE Copies /\ UNCHANGED <<output, report>> /\ ~Exporting(a)
  BY <1>1 DEF Tells
<1>2. CASE Copies /\ Exporting(a)'
  BY <1>2
<1>3. CASE \E s \in Statuses : Conclude(a, Unmade(s))
  <2>1. PICK s \in Statuses : Conclude(a, Unmade(s))
    BY <1>3
  <2>2. CASE stage[a] = "export"
    BY <2>1, <2>2 DEF Conclude, Unmade, Tells
  <2>3. CASE stage[a] # "export"
    BY <1>0, <2>1, <2>3 DEF Conclude, Tells, Exporting, Stages
  <2> QED BY <2>2, <2>3
<1>4. CASE Report(a)
  <2>1. CASE stage[a] = "export" /\ draft[a].source = "external_command"
    <3>1. report'["export"] = [draft[a] EXCEPT !.file = output] /\ output' = output /\ pc'[a] = "next"
      BY <1>4, <2>1 DEF Report, Conclude, Stages
    <3>2. report'["export"].file = output
      BY <3>1 DEF Result
    <3> QED BY <3>1, <3>2 DEF Tells
  <2>2. CASE stage[a] = "export" /\ draft[a].source # "external_command"
    BY <1>4, <2>2 DEF Report, Conclude, Stages, Tells
  <2>3. CASE stage[a] # "export"
    BY <1>0, <1>4, <2>3 DEF Report, Conclude, Tells, Exporting, Stages
  <2> QED BY <2>1, <2>2, <2>3
<1>5. CASE /\ stage' = stage /\ pc'[a] \in InStage /\ (pc'[a] = "copy" => stage[a] = "export")
           /\ stage[a] # "export" => pc[a] \in InStage /\ UNCHANGED <<output, report>>
  BY <1>1, <1>2, <1>5 DEF Exporting
<1>6. CASE UNCHANGED <<output, report>> /\ ~Exporting(a) /\ pc'[a] \notin {"copy"}
  BY <1>1, <1>6
<1>7. CASE Start(a)
  BY <1>6, <1>7 DEF Start, StartPipeline, StartScript, StartCreator, files, Exporting, InStage
<1>8. CASE Stage(a)
  <2>1. CASE StopAtStart(a) \/ Refuse(a) \/ RejectProduct(a) \/ RejectContent(a) \/ StopBeforeReport(a)
    BY <1>3, <2>1 DEF StopAtStart, Refuse, RejectProduct, RejectContent, StopBeforeReport, Statuses
  <2>2. CASE Begin(a) \/ TrainLocally(a) \/ ReuseOnnx(a) \/ SynthesizeOnnx(a)
    BY <1>5, <2>2 DEF Begin, TrainLocally, ReuseOnnx, SynthesizeOnnx, files, InStage
  <2>3. CASE Check(a) \/ Copy(a) \/ ReadMetrics(a)
    BY <1>5, <2>3 DEF Check, Copy, ReadMetrics, files, InStage
  <2>4. CASE Settle(a)
    <3>1. CASE UNCHANGED <<files, stage>> /\ Goto(a, "check") /\ pc[a] = "command"
      BY <1>5, <3>1 DEF files, InStage
    <3>2. CASE \E s \in {"none", "failed", "cancelled"} : Conclude(a, Unmade(s))
      BY <1>3, <3>2 DEF Statuses
    <3> QED BY <2>4, <3>1, <3>2 DEF Settle
  <2> QED BY <1>4, <1>8, <2>1, <2>2, <2>3, <2>4 DEF Stage
<1>9. CASE Order(a)
  <2>1. pc[a] = "next" \/ stage[a] = "training"
    BY <1>9 DEF Order, StopBeforeTraining, Advance, Stop, ScriptEnds, Exported
  <2>2. UNCHANGED <<output, report>> /\ pc'[a] # "copy"
    BY <1>9 DEF Order, StopBeforeTraining, Advance, Stop, ScriptEnds, Exported, Finish, files, Result, Statuses
  <2> QED BY <1>6, <2>1, <2>2 DEF Exporting, InStage
<1>10. CASE Packaging(a)
  <2>1. pc[a] \notin InStage
    BY <1>10 DEF Packaging, Load, BuildCard, Distrust, PlaceModel, WriteCard, Accept, Reject, InStage
  <2>2. UNCHANGED <<output, report>> /\ pc'[a] # "copy"
    BY <1>10 DEF Packaging, Load, BuildCard, Distrust, PlaceModel, WriteCard, Accept, Reject, Finish, files
  <2> QED BY <1>6, <2>1, <2>2 DEF Exporting
<1>11. CASE CommandWrites(a)
  <2>1. pc[a] = "command" /\ pc' = pc /\ stage' = stage /\ report' = report
    BY <1>11 DEF CommandWrites, Waits, caller
  <2>2. stage[a] # "export" => output' = output
    BY <1>11 DEF CommandWrites
  <2> QED BY <1>5, <2>1, <2>2 DEF InStage
<1>12. CASE CommandEnds(a) \/ Cancel(a)
  <2>1. UNCHANGED <<output, report, pc, stage>>
    BY <1>12 DEF CommandEnds, Cancel, caller, files
  <2> QED BY <2>1 DEF Tells, Exporting
<1>13. CASE RaiseInPackage(a)
  BY <1>6, <1>13 DEF RaiseInPackage, Finish, files, Exporting, InStage
<1> QED
  BY <1>0, <1>7, <1>8, <1>9, <1>10, <1>11, <1>12, <1>13 DEF Step, Work, RaiseInStage, Crash

\* TellsInv is inductive.
LEMMA TellsStep == TypeInv /\ TellsInv /\ [Next]_vars => TellsInv'
<1> SUFFICES ASSUME TypeInv, TellsInv, [Next]_vars, faults' = 0 PROVE TellsInv'
  BY DEF TellsInv
<1>1. CASE UNCHANGED vars
  BY <1>1 DEF vars, files, caller, past, TellsInv, Tells, Exporting, Waits
<1>2. ASSUME NEW a \in Callers, Step(a) PROVE TellsInv'
  <2>1. TypeOK /\ faults = 0 /\ faults' = faults
    <3>1. faults' \in {faults, faults + 1} /\ faults \in Nat
      BY <1>2, DisturbStep DEF TypeInv, TypeOK, Workload
    <3> QED BY <3>1 DEF TypeInv
  <2>2. \A b \in Callers : Waits(b) /\ (pc[b] = "copy" => stage[b] = "export")
    BY <2>1 DEF TellsInv
  <2>3. Waits(a)'
    BY <1>2, <2>1, <2>2, WaitStep
  <2>4. /\ (Tells \/ Exporting(a)) => (Tells' \/ Exporting(a)')
        /\ pc'[a] = "copy" => stage'[a] = "export"
    BY <1>2, <2>1, <2>2, ExportStep
  <2>5. ASSUME NEW b \in Callers, b # a
        PROVE  pc'[b] = pc[b] /\ stage'[b] = stage[b] /\ cmd'[b] = cmd[b]
    BY <1>2, <2>1, <2>5, Others
  <2>6. \A b \in Callers : Waits(b)' /\ (pc'[b] = "copy" => stage'[b] = "export")
    BY <2>2, <2>3, <2>4, <2>5 DEF Waits
  <2>7. \A b \in Callers : (b # a /\ Exporting(b)) => Exporting(b)'
    BY <2>5 DEF Exporting
  <2>8. Tells \/ \E b \in Callers : Exporting(b)
    BY <2>1 DEF TellsInv
  <2> QED BY <1>2, <2>4, <2>6, <2>7, <2>8 DEF TellsInv
<1> QED BY <1>1, <1>2, NextIsStep

\* While nothing is cut off, once nobody is at work the export report on disk, if it is an
\* external command's, describes the exported file on disk (write_json after every export).
THEOREM ReportsTell == Spec => []ReportTellsOnnx
<1>1. Init => TellsInv
  BY DEF Init, TellsInv, Waits, Tells, Unmade, Stages
<1>2. TellsInv => ReportTellsOnnx
  BY DEF TellsInv, ReportTellsOnnx, Tells, Exporting, Active, Ended, Outcomes, InStage
<1> QED BY <1>1, <1>2, TypeInvInit, TypeInvStep, TellsStep, PTL DEF Spec

(***************************************************************************)
(* The order of stages.                                                    *)
(***************************************************************************)

\* A pipeline begins with training, goes on from completed stages only, and leaves the
\* reports on disk to the creators.
InOrder(a) == a \in Pipelines =>
  /\ pc[a] = "idle" => stage[a] = "training"
  /\ pc[a] # "load"
  /\ (Active(a) /\ stage[a] # "training") => result[a]["training"].status = "completed"
  /\ (Active(a) /\ stage[a] = "evaluation") => result[a]["export"].status = "completed"
  /\ pc[a] \in {"gate", "place", "card", "validate"} =>
       stage[a] = "evaluation" /\ result[a]["evaluation"].status = "completed"
  /\ pc[a] = "read" => stage[a] = "evaluation"
  /\ pc[a] = "copy" => stage[a] = "export"

\* A pipeline's own steps keep the order.
LEMMA InOrderStep ==
  ASSUME TypeOK, NEW a \in Callers, Concluded(a), InOrder(a), Step(a) PROVE InOrder(a)'
<1> SUFFICES ASSUME a \in Pipelines PROVE InOrder(a)'
  BY DEF InOrder
<1> USE CallerAssumption DEF TypeOK, InOrder, Active, Ended, Outcomes, Goto
<1>0. stage[a] \in {"training", "export", "evaluation"}
  BY DEF Stages
<1>1. CASE \E o \in Outcomes : Finish(a, o)
  BY <1>1 DEF Finish
<1>2. CASE Start(a)
  BY <1>2 DEF Start, StartPipeline, StartScript, StartCreator
<1>3. CASE Stage(a)
  <2>1. CASE \E r \in Result : Conclude(a, r) /\ pc[a] \in InStage
    <3>1. PICK r \in Result : Conclude(a, r) /\ pc[a] \in InStage
      BY <2>1
    <3>2. \A s \in Stages : s # stage[a] => result'[a][s] = result[a][s]
      BY <3>1 DEF Conclude
    <3> QED BY <1>0, <3>1, <3>2 DEF Conclude, InStage, Stages
  <2>2. CASE StopAtStart(a) \/ Refuse(a) \/ RejectProduct(a)
    BY <2>1, <2>2, Made DEF StopAtStart, Refuse, RejectProduct, InStage, Statuses
  <2>3. CASE RejectContent(a) \/ StopBeforeReport(a)
    BY <2>1, <2>3, Made DEF RejectContent, StopBeforeReport, InStage, Statuses
  <2>4. CASE Report(a)
    <3>1. draft[a] \in Result /\ [draft[a] EXCEPT !.file = output] \in Result
      BY RefiledResult
    <3> QED BY <2>1, <2>4, <3>1 DEF Report, InStage
  <2>5. CASE Settle(a)
    <3>1. CASE Conclude(a, Unmade(cmd[a])) /\ cmd[a] # "ok" /\ cmd[a] # "running" /\ pc[a] = "command"
      <4>1. cmd[a] \in {"failed", "cancelled"}
        BY <3>1 DEF Concluded
      <4> QED BY <2>1, <3>1, <4>1, Made DEF Statuses, InStage
    <3>2. CASE Conclude(a, Unmade("cancelled")) /\ pc[a] = "command"
      BY <2>1, <3>2, Made DEF Statuses, InStage
    <3> QED BY <2>5, <3>1, <3>2 DEF Settle
  <2>6. CASE Begin(a) \/ TrainLocally(a) \/ ReuseOnnx(a) \/ SynthesizeOnnx(a)
    BY <2>6 DEF Begin, TrainLocally, ReuseOnnx, SynthesizeOnnx
  <2>7. CASE Check(a) \/ Copy(a) \/ ReadMetrics(a)
    BY <2>7 DEF Check, Copy, ReadMetrics
  <2> QED BY <1>3, <2>2, <2>3, <2>4, <2>5, <2>6, <2>7 DEF Stage
<1>4. CASE Order(a)
  <2>1. CASE Advance(a)
    BY <1>0, <2>1 DEF Advance, Following
  <2>2. CASE StopBeforeTraining(a) \/ Stop(a) \/ ScriptEnds(a)
    BY <1>1, <2>2 DEF StopBeforeTraining, Stop, ScriptEnds, Concluded
  <2>3. CASE Exported(a)
    BY <2>3 DEF Exported
  <2> QED BY <1>4, <2>1, <2>2, <2>3 DEF Order
<1>5. CASE Packaging(a)
  <2>1. CASE Distrust(a) \/ Accept(a) \/ Reject(a)
    BY <1>1, <2>1 DEF Distrust, Accept, Reject
  <2>2. CASE Load(a) \/ BuildCard(a) \/ PlaceModel(a) \/ WriteCard(a)
    BY <2>2 DEF Load, BuildCard, PlaceModel, WriteCard
  <2> QED BY <1>5, <2>1, <2>2 DEF Packaging
<1>6. CASE CommandWrites(a) \/ CommandEnds(a) \/ Cancel(a)
  BY <1>6 DEF CommandWrites, CommandEnds, Cancel, caller
<1>7. CASE RaiseInStage(a)
  <2>1. \A s \in Stages : s # stage[a] => result'[a][s] = result[a][s]
    BY <1>7 DEF RaiseInStage
  <2> QED BY <1>0, <1>7, <2>1 DEF RaiseInStage, InStage, Stages
<1>8. CASE RaiseInPackage(a) \/ Crash(a)
  BY <1>1, <1>8 DEF RaiseInPackage, Crash
<1> QED BY <1>2, <1>3, <1>4, <1>5, <1>6, <1>7, <1>8 DEF Step, Work

\* The order of every caller is kept.
OrderInv == \A a \in Callers : InOrder(a)

LEMMA OrderInvStep == TypeInv /\ OrderInv /\ [Next]_vars => OrderInv'
<1> SUFFICES ASSUME TypeInv, OrderInv, [Next]_vars PROVE OrderInv'
  OBVIOUS
<1>1. CASE UNCHANGED vars
  BY <1>1 DEF vars, files, caller, past, OrderInv, InOrder, Active, Ended
<1>2. ASSUME NEW a \in Callers, Step(a) PROVE OrderInv'
  <2>1. InOrder(a)'
    BY <1>2, InOrderStep DEF TypeInv, OrderInv
  <2>2. ASSUME NEW b \in Callers, b # a PROVE InOrder(b)'
    BY <1>2, <2>2, Others DEF TypeInv, OrderInv, InOrder, Active, Ended
  <2> QED BY <2>1, <2>2 DEF OrderInv
<1> QED BY <1>1, <1>2, NextIsStep

LEMMA OrderInvInit == Init => OrderInv
BY DEF Init, OrderInv, InOrder, Active

\* Only placing the model and writing the card change the package.
LEMMA PackageStep ==
  ASSUME NEW a \in Callers, Step(a), package' # package
  PROVE  PlaceModel(a) \/ WriteCard(a)
<1>1. ~Start(a)
  BY DEF Start, StartPipeline, StartScript, StartCreator, files
<1>2. ~(\E r : Conclude(a, r)) /\ ~(\E o : Finish(a, o))
  BY DEF Conclude, Finish, files
<1>3. ~Stage(a)
  BY <1>2 DEF Stage, StopAtStart, Refuse, Begin, TrainLocally, ReuseOnnx, SynthesizeOnnx,
     Settle, Check, RejectProduct, Copy, ReadMetrics, RejectContent, StopBeforeReport, Report, files
<1>4. ~Order(a)
  BY <1>2 DEF Order, StopBeforeTraining, Advance, Stop, ScriptEnds, Exported, files
<1>5. ~(CommandWrites(a) \/ CommandEnds(a) \/ RaiseInStage(a) \/ RaiseInPackage(a) \/ Crash(a) \/ Cancel(a))
  BY <1>2 DEF CommandWrites, CommandEnds, RaiseInStage, RaiseInPackage, Crash, Cancel, files
<1> QED
  BY <1>1, <1>2, <1>3, <1>4, <1>5
     DEF Step, Work, Packaging, Load, BuildCard, Distrust, Accept, Reject, files

\* Only a run whose three stages completed writes to the package.
THEOREM PackagesFollowStages == Spec => PackagedAfterStages
<1>1. TypeInv /\ OrderInv /\ [Next]_vars =>
        [package' # package =>
           \E a \in Callers : /\ pc[a] \in {"place", "card"}
                              /\ a \in Pipelines => \A s \in Stages : result[a][s].status = "completed"]_vars
  <2> SUFFICES ASSUME TypeInv, OrderInv, [Next]_vars, package' # package
               PROVE  \E a \in Callers :
                        /\ pc[a] \in {"place", "card"}
                        /\ a \in Pipelines => \A s \in Stages : result[a][s].status = "completed"
    OBVIOUS
  <2>1. PICK a \in Callers : PlaceModel(a) \/ WriteCard(a)
    BY NextIsStep, PackageStep DEF vars, files
  <2>2. pc[a] \in {"place", "card"}
    BY <2>1 DEF PlaceModel, WriteCard
  <2>3. Active(a)
    BY <2>2 DEF Active, Ended, Outcomes
  <2>4. a \in Pipelines => \A s \in Stages : result[a][s].status = "completed"
    BY <2>2, <2>3 DEF OrderInv, InOrder, Stages
  <2> QED BY <2>2, <2>4
<1> QED BY <1>1, TypeInvInit, TypeInvStep, OrderInvInit, OrderInvStep, PTL DEF Spec, PackagedAfterStages

(***************************************************************************)
(* Whose evidence a package holds.                                         *)
(***************************************************************************)

Own(a) == [by |-> a, model |-> a]

\* How far a pipeline whose stages all declare their products has come on its own: what
\* the current stage is about to accept is new, what the stages before it left is its own.
OnItsOwn(a) ==
  /\ stage[a] # "training" => /\ product["training"] = Own(a)
                              /\ result[a]["training"].file = Own(a)
  /\ stage[a] = "evaluation" => output = Own(a)
  /\ pc[a] # "local"
  /\ pc[a] \in {"command", "check"} => product[stage[a]] \in {before[a], Own(a)}
  /\ pc[a] = "copy" => product["export"] = Own(a)
  /\ pc[a] = "read" => product["evaluation"] = Own(a)
  /\ (pc[a] = "report" /\ stage[a] = "training") =>
       product["training"] = Own(a) /\ draft[a].file = Own(a)
  /\ (pc[a] = "report" /\ stage[a] = "export") => output = Own(a)
  /\ (pc[a] = "report" /\ stage[a] = "evaluation") => draft[a].file = Own(a)
  /\ (pc[a] = "next" /\ result[a][stage[a]].status = "completed") =>
       /\ stage[a] = "training" => /\ product["training"] = Own(a)
                                   /\ result[a]["training"].file = Own(a)
       /\ stage[a] = "export" => output = Own(a)
       /\ stage[a] = "evaluation" => result[a]["evaluation"].file = Own(a)
  /\ pc[a] = "gate" => result[a]["evaluation"].file = Own(a)
  /\ pc[a] \in {"place", "card", "validate"} =>
       card[a].checkpoint = Own(a) /\ card[a].metrics = Own(a)
  /\ pc[a] \in {"card", "validate"} => card[a].sha = Own(a)

\* A card that is about to be written names its writer.
Signed(a) == pc[a] \in {"place", "card"} => card[a].by = a

\* OwnEvidence, strengthened by the way a run comes to it.
EvidenceInv ==
  /\ \A a \in Callers : Signed(a)
  /\ Evidenced => \A a \in Pipelines : (~disturbed[a] /\ Active(a)) => OnItsOwn(a)
  /\ OwnEvidence

\* With every product declared, what a stage accepts is not what it found before.
LEMMA AcceptsOwn ==
  ASSUME TypeOK, Evidenced, NEW a \in Callers, OnItsOwn(a), pc[a] = "check", Produced(a)
  PROVE  product[stage[a]] = Own(a)
<1>1. stage[a] \in config.produced
  BY DEF TypeOK, Evidenced
<1>2. Fresh(before[a], product[stage[a]])
  BY <1>1 DEF Produced
<1>3. product[stage[a]] \in {before[a], Own(a)}
  BY DEF OnItsOwn
<1> QED BY <1>2, <1>3 DEF Fresh

\* A run's own steps keep it on its own.
LEMMA OwnStep ==
  ASSUME TypeOK, Evidenced, NEW a \in Pipelines, Concluded(a), InOrder(a), InOrder(a)',
         Active(a) => OnItsOwn(a), Step(a), Active(a)'
  PROVE  OnItsOwn(a)'
<1> USE CallerAssumption DEF TypeOK, Goto
<1>0. /\ a \in Callers
      /\ stage[a] \in {"training", "export", "evaluation"}
      /\ config.command = Stages /\ config.produced = Stages
  BY DEF Stages, Callers, Evidenced
<1>1. CASE Start(a)
  <2>1. pc'[a] = "begin" /\ stage'[a] = "training"
    BY <1>0, <1>1 DEF Start, StartPipeline, StartScript, StartCreator, InOrder, Active, Ended, Outcomes
  <2> QED BY <2>1 DEF OnItsOwn
<1>2. ~(\E o \in Outcomes : Finish(a, o))
  BY <1>0 DEF Finish, Active, Ended
<1>3. CASE pc[a] \in InStage /\ Stage(a)
  <2>1. OnItsOwn(a)
    BY <1>3 DEF Active, Ended, Outcomes, InStage
  <2>2. CASE \E s \in {"failed", "cancelled"} : Conclude(a, Unmade(s))
    <3>1. PICK s \in {"failed", "cancelled"} : Conclude(a, Unmade(s))
      BY <2>2
    <3>2. /\ pc'[a] = "next" /\ result'[a][stage[a]].status = s /\ stage' = stage
          /\ product' = product /\ output' = output
          /\ \A t \in Stages : t # stage[a] => result'[a][t] = result[a][t]
      BY <1>0, <3>1, Made DEF Conclude, Stages, Statuses
    <3> QED BY <1>0, <2>1, <3>2 DEF OnItsOwn, Stages, Own
  <2>3. CASE Begin(a)
    BY <1>0, <2>1, <2>3 DEF Begin, OnItsOwn, files, Own
  <2>4. CASE Settle(a)
    <3>1. cmd[a] \in {"ok", "failed", "cancelled"}
      BY <1>0, <2>4 DEF Settle, Concluded
    <3>2. CASE pc[a] = "command" /\ cmd[a] = "ok" /\ Goto(a, "check") /\ UNCHANGED <<files, stage, before, result>>
      BY <1>0, <2>1, <3>2 DEF OnItsOwn, files, Own
    <3> QED BY <2>2, <2>4, <3>1, <3>2 DEF Settle
  <2>5. CASE Check(a)
    <3>1. product[stage[a]] = Own(a)
      BY <1>0, <2>1, <2>5, AcceptsOwn DEF Check
    <3>2. stage[a] = "training" => draft'[a].file = Own(a)
      BY <1>0, <2>5, <3>1 DEF Check, Result, Stages
    <3> QED BY <1>0, <2>1, <2>5, <3>1, <3>2 DEF Check, OnItsOwn, files, Own, Stages
  <2>6. CASE Copy(a)
    BY <1>0, <2>1, <2>6 DEF Copy, OnItsOwn, InOrder, Own
  <2>7. CASE ReadMetrics(a)
    BY <1>0, <2>1, <2>7 DEF ReadMetrics, OnItsOwn, InOrder, files, Own, Stages
  <2>8. CASE Report(a)
    <3>1. PICK r \in {draft[a], [draft[a] EXCEPT !.file = output]} :
            Conclude(a, r) /\ (stage[a] # "export" => r = draft[a])
      BY <2>8 DEF Report
    <3>2. /\ pc'[a] = "next" /\ result'[a][stage[a]] = r /\ stage' = stage
          /\ product' = product /\ output' = output
          /\ \A t \in Stages : t # stage[a] => result'[a][t] = result[a][t]
      BY <1>0, <3>1 DEF Conclude, Stages
    <3> QED BY <1>0, <2>1, <2>8, <3>1, <3>2 DEF Report, OnItsOwn, Own, Stages
  <2>9. ~(TrainLocally(a) \/ ReuseOnnx(a) \/ SynthesizeOnnx(a))
    BY <2>1 DEF OnItsOwn, TrainLocally, ReuseOnnx, SynthesizeOnnx
  <2> QED
    BY <1>3, <2>2, <2>3, <2>4, <2>5, <2>6, <2>7, <2>8, <2>9
       DEF Stage, StopAtStart, Refuse, RejectProduct, RejectContent, StopBeforeReport
<1>4. CASE Order(a)
  <2>1. Advance(a) /\ OnItsOwn(a)
    <3>1. Advance(a)
      BY <1>0, <1>2, <1>4 DEF Order, StopBeforeTraining, Stop, ScriptEnds, Exported, Concluded, Outcomes
    <3>2. Active(a)
      BY <3>1 DEF Advance, Active, Ended, Outcomes
    <3> QED BY <3>1, <3>2
  <2> QED BY <1>0, <2>1 DEF Advance, OnItsOwn, Following, files, Own
<1>5. CASE Packaging(a)
  <2>1. OnItsOwn(a)
    BY <1>5 DEF Packaging, Load, BuildCard, Distrust, PlaceModel, WriteCard, Accept, Reject,
                Active, Ended, Outcomes
  <2>2. CASE BuildCard(a)
    BY <1>0, <2>1, <2>2 DEF BuildCard, OnItsOwn, InOrder, files, Own
  <2>3. CASE PlaceModel(a)
    <3>0. Onnx(a) = output
      BY DEF Onnx, HandedForeign
    <3>1. card'[a] = [card[a] EXCEPT !.sha = output] /\ output = Own(a) /\ card[a] \in Card
      BY <1>0, <2>1, <2>3, <3>0 DEF PlaceModel, OnItsOwn, InOrder
    <3>2. /\ card'[a].checkpoint = card[a].checkpoint /\ card'[a].metrics = card[a].metrics
          /\ card'[a].sha = Own(a)
      BY <3>1 DEF Card
    <3> QED BY <1>0, <2>1, <2>3, <3>2 DEF PlaceModel, OnItsOwn, Own
  <2>4. CASE WriteCard(a)
    BY <1>0, <2>1, <2>4 DEF WriteCard, OnItsOwn, Own
  <2> QED
    BY <1>0, <1>2, <1>5, <2>2, <2>3, <2>4
       DEF Packaging, Load, Distrust, Accept, Reject, InOrder, Outcomes
<1>6. CASE CommandWrites(a)
  <2>1. OnItsOwn(a)
    BY <1>6 DEF CommandWrites, caller, Active, Ended
  <2>2. /\ output' = output /\ pc' = pc /\ stage' = stage /\ before' = before /\ draft' = draft
        /\ result' = result /\ card' = card
    BY <1>0, <1>6 DEF CommandWrites, caller, Stages
  <2>3. product' = [product EXCEPT ![stage[a]] = Own(a)]
    BY <1>0, <1>6, <2>1 DEF CommandWrites, OnItsOwn, Own, Stages
  <2>4. \A s \in Stages : product'[s] = IF s = stage[a] THEN Own(a) ELSE product[s]
    BY <1>0, <2>3
  <2> QED BY <1>0, <2>1, <2>2, <2>4 DEF OnItsOwn, Stages, Own
<1>7. CASE CommandEnds(a) \/ Cancel(a)
  BY <1>7 DEF CommandEnds, Cancel, caller, files, OnItsOwn, Own, Active, Ended
<1>8. CASE RaiseInStage(a)
  <2>1. OnItsOwn(a)
    BY <1>8 DEF RaiseInStage, Active, Ended, Outcomes, InStage
  <2>2. /\ pc'[a] = "next" /\ result'[a][stage[a]].status = "failed" /\ stage' = stage
        /\ product' = product /\ output' = output
        /\ \A t \in Stages : t # stage[a] => result'[a][t] = result[a][t]
    BY <1>0, <1>8, Made DEF RaiseInStage, files, Stages, Statuses
  <2> QED BY <1>0, <2>1, <2>2 DEF OnItsOwn, Stages, Own
<1>9. ~(RaiseInPackage(a) \/ Crash(a))
  BY <1>2 DEF RaiseInPackage, Crash, Outcomes
<1>10. Stage(a) => pc[a] \in InStage
  BY DEF Stage, StopAtStart, Refuse, Begin, TrainLocally, ReuseOnnx, SynthesizeOnnx,
     Settle, Check, RejectProduct, Copy, ReadMetrics, RejectContent, StopBeforeReport, Report, InStage
<1> QED BY <1>1, <1>3, <1>4, <1>5, <1>6, <1>7, <1>8, <1>9, <1>10 DEF Step, Work

\* Every card to be written is signed.
LEMMA SignedStep == ASSUME TypeOK, NEW a \in Callers, Signed(a), Step(a) PROVE Signed(a)'
<1> USE DEF TypeOK, Signed, Goto
<1>1. CASE PlaceModel(a)
  <2>1. card[a] \in Card /\ card'[a] = [card[a] EXCEPT !.sha = Onnx(a)]
    BY <1>1 DEF PlaceModel
  <2> QED BY <1>1, <2>1 DEF PlaceModel, Card
<1>2. CASE BuildCard(a)
  BY <1>2 DEF BuildCard
<1>3. CASE WriteCard(a)
  BY <1>3 DEF WriteCard
<1>4. CASE card'[a] = card[a] /\ (pc'[a] = pc[a] \/ pc'[a] \notin {"place", "card"})
  BY <1>4
<1>5. CASE \E o \in {"none", "completed", "failed", "cancelled", "crashed"} : Finish(a, o)
  BY <1>5 DEF Finish
<1>6. CASE Start(a)
  BY <1>4, <1>6 DEF Start, StartPipeline, StartScript, StartCreator
<1>7. CASE Stage(a)
  <2>1. CASE \E r : Conclude(a, r)
    BY <1>4, <2>1 DEF Conclude
  <2>2. CASE Begin(a) \/ TrainLocally(a) \/ ReuseOnnx(a) \/ SynthesizeOnnx(a) \/ Check(a) \/ Copy(a) \/ ReadMetrics(a)
    BY <1>4, <2>2 DEF Begin, TrainLocally, ReuseOnnx, SynthesizeOnnx, Check, Copy, ReadMetrics
  <2>3. CASE Settle(a)
    BY <1>4, <2>1, <2>3 DEF Settle
  <2> QED
    BY <1>7, <2>1, <2>2, <2>3
       DEF Stage, StopAtStart, Refuse, RejectProduct, RejectContent, StopBeforeReport, Report
<1>8. CASE Order(a)
  <2>1. CASE Advance(a)
    BY <1>4, <2>1 DEF Advance
  <2>2. CASE Exported(a)
    BY <1>4, <1>5, <2>2 DEF Exported
  <2>3. CASE StopBeforeTraining(a) \/ Stop(a) \/ ScriptEnds(a)
    <3>1. PICK o : Finish(a, o) /\ o \in Statuses
      BY <2>3 DEF StopBeforeTraining, Stop, ScriptEnds, Statuses, Result
    <3> QED BY <1>5, <3>1 DEF Statuses
  <2> QED BY <1>8, <2>1, <2>2, <2>3 DEF Order
<1>9. CASE Load(a) \/ Distrust(a) \/ Accept(a) \/ Reject(a)
  <2>1. CASE Load(a)
    BY <1>4, <2>1 DEF Load
  <2> QED BY <1>5, <1>9, <2>1 DEF Distrust, Accept, Reject
<1>10. CASE CommandWrites(a) \/ CommandEnds(a) \/ Cancel(a) \/ RaiseInStage(a)
  <2>1. CASE RaiseInStage(a)
    BY <1>4, <2>1 DEF RaiseInStage
  <2> QED BY <1>4, <1>10, <2>1 DEF CommandWrites, CommandEnds, Cancel, caller
<1>11. CASE RaiseInPackage(a) \/ Crash(a)
  BY <1>5, <1>11 DEF RaiseInPackage, Crash
<1> QED BY <1>1, <1>2, <1>3, <1>6, <1>7, <1>8, <1>9, <1>10, <1>11 DEF Step, Work, Packaging

\* EvidenceInv is inductive.
LEMMA EvidenceStep ==
  TypeInv /\ OrderInv /\ OrderInv' /\ EvidenceInv /\ [Next]_vars => EvidenceInv'
<1> SUFFICES ASSUME TypeInv, OrderInv, OrderInv', EvidenceInv, [Next]_vars PROVE EvidenceInv'
  OBVIOUS
<1>1. CASE UNCHANGED vars
  BY <1>1 DEF vars, files, caller, past, EvidenceInv, OwnEvidence, Evidenced, config, Signed,
              OnItsOwn, Active, Ended
<1>2. ASSUME NEW a \in Callers, Step(a) PROVE EvidenceInv'
  <2>0. TypeOK /\ work' = work /\ (Evidenced' <=> Evidenced)
    BY <1>2, DisturbStep DEF TypeInv, Evidenced, config
  <2>1. ASSUME NEW b \in Callers PROVE Signed(b)'
    <3>1. CASE b = a
      BY <1>2, <2>0, <3>1, SignedStep DEF EvidenceInv
    <3>2. CASE b # a
      BY <1>2, <2>0, <3>2, Others DEF EvidenceInv, Signed
    <3> QED BY <3>1, <3>2
  <2>2. ASSUME NEW b \in Pipelines, Evidenced, ~disturbed'[b], Active(b)' PROVE OnItsOwn(b)'
    <3>1. b \in Callers /\ ~disturbed[b]
      BY <1>2, <2>0, <2>2, DisturbStep, CallerAssumption DEF Callers
    <3>2. CASE b = a
      BY <1>2, <2>0, <2>2, <3>1, <3>2, OwnStep DEF EvidenceInv, OrderInv, TypeInv
    <3>3. CASE b # a
      <4>1. /\ pc'[b] = pc[b] /\ stage'[b] = stage[b] /\ before'[b] = before[b]
            /\ draft'[b] = draft[b] /\ result'[b] = result[b] /\ card'[b] = card[b]
        BY <1>2, <2>0, <3>1, <3>3, Others
      <4>2. Active(b)
        BY <2>2, <4>1 DEF Active, Ended
      <4>3. product' = product /\ output' = output
        BY <1>2, <2>0, <2>2, <3>1, <3>3, <4>2, DisturbStep DEF files
      <4>4. OnItsOwn(b)
        BY <2>2, <3>1, <4>2 DEF EvidenceInv
      <4> QED BY <4>1, <4>3, <4>4 DEF OnItsOwn, Own
    <3> QED BY <3>2, <3>3
  <2>3. OwnEvidence'
    <3> DEFINE b == package'.card.by
    <3> SUFFICES ASSUME Evidenced, b \in Pipelines, ~disturbed'[b]
                 PROVE  /\ package'.card.checkpoint = Own(b) /\ package'.card.metrics = Own(b)
                        /\ package'.card.sha = Own(b)
      BY <2>0 DEF OwnEvidence, Own
    <3>1. b \in Callers /\ ~disturbed[b]
      BY <1>2, <2>0, DisturbStep, CallerAssumption DEF Callers
    <3>2. CASE package'.card = package.card
      BY <3>1, <3>2 DEF EvidenceInv, OwnEvidence, Own
    <3>3. CASE package'.card # package.card
      <4>1. WriteCard(a)
        BY <1>2, <2>0, <3>3, PackageStep DEF PlaceModel, TypeOK
      <4>2. package'.card = card[a] /\ pc[a] = "card" /\ Active(a)
        BY <2>0, <4>1 DEF WriteCard, TypeOK, Active, Ended, Outcomes
      <4>3. b = a
        BY <4>2 DEF EvidenceInv, Signed
      <4>4. OnItsOwn(a)
        BY <3>1, <4>2, <4>3 DEF EvidenceInv
      <4> QED BY <4>2, <4>3, <4>4 DEF OnItsOwn
    <3> QED BY <3>2, <3>3
  <2> QED BY <2>0, <2>1, <2>2, <2>3 DEF EvidenceInv
<1> QED BY <1>1, <1>2, NextIsStep

\* A package made by an undisturbed run holds the evidence of that very run.
THEOREM PackagesHoldOwnEvidence == Spec => []OwnEvidence
<1>1. Init => EvidenceInv
  BY CallerAssumption DEF Init, EvidenceInv, OwnEvidence, Signed, Active, NoCard, Callers
<1>2. EvidenceInv => OwnEvidence
  BY DEF EvidenceInv
<1> QED
  BY <1>1, <1>2, TypeInvInit, TypeInvStep, OrderInvInit, OrderInvStep, EvidenceStep, PTL DEF Spec

(***************************************************************************)
(* What a package request makes of the files a pipeline left.              *)
(***************************************************************************)

\* A pipeline's reports are on disk as soon as it goes by them, and so is its product.
Filed(a) ==
  /\ stage[a] # "training" => report["training"].file = result[a]["training"].file
  /\ (pc[a] = "report" /\ stage[a] = "export") => product["export"] = Own(a)
  /\ (pc[a] = "next" /\ stage[a] = "export" /\ result[a]["export"].status = "completed") =>
       product["export"] = Own(a)
  /\ stage[a] = "evaluation" => product["export"] = Own(a)
  /\ (pc[a] = "next" /\ result[a][stage[a]].status = "completed") =>
       report[stage[a]] = result[a][stage[a]]

\* All evidence goes back to the training run of the checkpoint, and so will an export.
OneModel ==
  LET m == product["training"].model
  IN /\ product["export"].model = m /\ output.model = m
     /\ report["training"].file.model = m /\ report["evaluation"].file.model = m

\* A creator runs no stage but the export, and has done with it when it loads.
Exports(a) ==
  /\ pc[a] = "idle" => stage[a] = "training"
  /\ pc[a] \in InStage \cup {"next"} => stage[a] = "export" /\ pc[a] # "read"
  /\ cmd[a] = "running" =>
       /\ stage[a] = "export"
       /\ pc[a] \in InStage \cup Outcomes \/ (pc[a] = "next" /\ result[a]["export"].status # "completed")
  /\ Evidenced => pc[a] # "local"

\* What a creator nobody disturbed has read is still there.
Believes(a) ==
  /\ (pc[a] = "load" /\ stage[a] # "training") => result[a]["training"] = report["training"]
  /\ pc[a] = "gate" => /\ result[a]["training"] = report["training"]
                       /\ result[a]["evaluation"] = report["evaluation"]
  /\ pc[a] \in {"place", "card"} => /\ card[a].checkpoint = report["training"].file
                                    /\ card[a].metrics = report["evaluation"].file
  /\ pc[a] = "card" => card[a].sha = Onnx(a)

Undisturbed(a) == Active(a) /\ ~disturbed[a]

\* CreatedIsCoherent, strengthened by what a creator relies on.
CoherentInv ==
  /\ \A a \in Creators : Exports(a)
  /\ \A a \in Callers : Signed(a)
  /\ Evidenced => \A a \in Pipelines : Undisturbed(a) => (OnItsOwn(a) /\ Filed(a))
  /\ (Evidenced /\ (settled \/ \E a \in Creators : Undisturbed(a))) => OneModel
  /\ Evidenced => \A a \in Creators : Undisturbed(a) => Believes(a)
  /\ \A a \in Callers : pc[a] = "idle" => package.card.by # a
  /\ CreatedIsCoherent

\* A step that begins an execution is a start, and none goes back before it.
LEMMA BeginsByStart ==
  ASSUME TypeOK, NEW a \in Callers, Step(a)
  PROVE  /\ pc'[a] = "idle" => pc[a] = "idle"
         /\ (pc[a] = "idle" /\ pc'[a] # "idle") => Start(a)
         /\ Ended(a) => pc'[a] = pc[a]
<1> USE DEF TypeOK, Goto, Ended, Outcomes
<1>1. CASE Start(a)
  BY <1>1 DEF Start, StartPipeline, StartScript, StartCreator
<1>2. CASE Stage(a)
  BY <1>2 DEF Stage, StopAtStart, Refuse, Begin, TrainLocally, ReuseOnnx, SynthesizeOnnx,
     Settle, Check, RejectProduct, Copy, ReadMetrics, RejectContent, StopBeforeReport, Report, Conclude
<1>3. CASE Order(a)
  BY <1>3 DEF Order, StopBeforeTraining, Advance, Stop, ScriptEnds, Exported, Finish, Result, Statuses
<1>4. CASE Packaging(a)
  BY <1>4 DEF Packaging, Load, BuildCard, Distrust, PlaceModel, WriteCard, Accept, Reject, Finish
<1>5. CASE CommandWrites(a) \/ CommandEnds(a) \/ Cancel(a)
  BY <1>5 DEF CommandWrites, CommandEnds, Cancel, caller
<1>6. CASE RaiseInStage(a) \/ RaiseInPackage(a) \/ Crash(a)
  BY <1>6 DEF RaiseInStage, RaiseInPackage, Crash, Finish, Active, InStage
<1> QED BY <1>1, <1>2, <1>3, <1>4, <1>5, <1>6 DEF Step, Work

\* Whoever is no creator unsettles what it writes; a completed pipeline settles it.
LEMMA SettledStep ==
  ASSUME TypeOK, NEW a \in Callers, Step(a)
  PROVE  /\ settled' => \/ settled
                        \/ /\ Settled(a) /\ pc[a] = "next" /\ UNCHANGED files
                           /\ result[a]["evaluation"].status = "completed"
         /\ a \notin Creators => ~settled' \/ UNCHANGED <<product, output, report>>
<1> DEFINE Writes == settled' = (settled /\ a \in Creators)
           Reads  == settled' = settled /\ UNCHANGED <<product, output, report>>
<1>1. CASE Writes \/ Reads
  <2>1. CASE Writes
    BY <2>1
  <2>2. CASE Reads
    BY <2>2, ZenonT(20)
  <2> QED BY <1>1, <2>1, <2>2
<1>2. CASE Start(a)
  BY <1>1, <1>2 DEF Start, StartPipeline, StartScript, StartCreator, files
<1>3. CASE Stage(a)
  <2>1. CASE \E r : Conclude(a, r)
    BY <1>1, <2>1 DEF Conclude, Touch
  <2>2. CASE Begin(a) \/ TrainLocally(a) \/ ReuseOnnx(a) \/ Check(a) \/ ReadMetrics(a)
    BY <1>1, <2>2 DEF Begin, TrainLocally, ReuseOnnx, Check, ReadMetrics, files, past
  <2>3. CASE SynthesizeOnnx(a) \/ Copy(a)
    BY <1>1, <2>3 DEF SynthesizeOnnx, Copy, Touch
  <2>4. CASE Settle(a)
    BY <1>1, <2>1, <2>4 DEF Settle, files, past
  <2> QED
    BY <1>3, <2>1, <2>2, <2>3, <2>4
       DEF Stage, StopAtStart, Refuse, RejectProduct, RejectContent, StopBeforeReport, Report
<1>4. CASE Advance(a) \/ Stop(a)
  <2>1. UNCHANGED files /\ pc[a] = "next"
    BY <1>4 DEF Advance, Stop, Finish
  <2>2. settled' => settled \/ (Settled(a) /\ result[a][stage[a]].status = "completed")
    BY <1>4 DEF Advance, Stop
  <2> QED BY <2>1, <2>2 DEF files, Settled
<1>5. CASE StopBeforeTraining(a) \/ ScriptEnds(a) \/ Exported(a)
  BY <1>1, <1>5 DEF StopBeforeTraining, ScriptEnds, Exported, Finish, files, past
<1>6. CASE Packaging(a)
  BY <1>1, <1>6 DEF Packaging, Load, BuildCard, Distrust, PlaceModel, WriteCard, Accept, Reject,
     Finish, Disturb, files, past
<1>7. CASE CommandWrites(a) \/ CommandEnds(a) \/ Cancel(a)
  BY <1>1, <1>7 DEF CommandWrites, CommandEnds, Cancel, Touch, files, past
<1>8. CASE RaiseInStage(a) \/ RaiseInPackage(a) \/ Crash(a)
  BY <1>1, <1>8 DEF RaiseInStage, RaiseInPackage, Crash, Finish, files, past
<1> QED BY <1>2, <1>3, <1>4, <1>5, <1>6, <1>7, <1>8 DEF Step, Work, Order

\* A creator's own steps keep it to the export.
LEMMA ExportsStep ==
  ASSUME TypeOK, NEW a \in Creators, Concluded(a), Exports(a), Step(a)
  PROVE  Exports(a)'
<1> USE CallerAssumption DEF TypeOK, Exports, Goto
<1>0. /\ a \in Callers /\ a \notin Pipelines /\ a \notin Scripts /\ work' = work
      /\ (Evidenced' <=> Evidenced) /\ (Evidenced => config.command = Stages)
  BY DisturbStep DEF Callers, Evidenced, config
<1>1. CASE \E o \in Outcomes : Finish(a, o)
  BY <1>0, <1>1 DEF Finish, Outcomes, InStage
<1>2. CASE Start(a)
  BY <1>0, <1>2 DEF Start, StartPipeline, StartScript, StartCreator, InStage, Outcomes
<1>3. CASE Stage(a)
  <2>1. CASE \E r : Conclude(a, r) /\ pc[a] \in InStage
    BY <1>0, <2>1 DEF Conclude, InStage
  <2>2. CASE StopAtStart(a) \/ Refuse(a) \/ RejectProduct(a) \/ RejectContent(a) \/ StopBeforeReport(a) \/ Report(a)
    BY <2>1, <2>2 DEF StopAtStart, Refuse, RejectProduct, RejectContent, StopBeforeReport, Report, InStage
  <2>3. CASE Settle(a)
    <3>1. CASE UNCHANGED <<work, stage, cmd, result>> /\ pc[a] = "command" /\ cmd[a] # "running" /\ Goto(a, "check")
      BY <1>0, <3>1 DEF InStage
    <3> QED BY <2>1, <2>3, <3>1 DEF Settle, InStage
  <2>4. CASE Begin(a)
    BY <1>0, <2>4 DEF Begin, InStage, Stages
  <2>5. CASE TrainLocally(a) \/ ReuseOnnx(a) \/ SynthesizeOnnx(a) \/ Copy(a)
    BY <1>0, <2>5 DEF TrainLocally, ReuseOnnx, SynthesizeOnnx, Copy, InStage
  <2>6. CASE Check(a)
    BY <1>0, <2>6 DEF Check, InStage
  <2>7. ~ReadMetrics(a)
    BY DEF ReadMetrics, InStage
  <2> QED BY <1>3, <2>2, <2>3, <2>4, <2>5, <2>6, <2>7 DEF Stage
<1>4. CASE Order(a)
  <2>1. Exported(a)
    BY <1>0, <1>4 DEF Order, StopBeforeTraining, Advance, Stop, ScriptEnds, Exported
  <2>2. CASE Goto(a, "load") /\ result[a]["export"].status = "completed"
    BY <1>0, <2>1, <2>2 DEF Exported, InStage, Outcomes
  <2> QED BY <1>1, <2>1, <2>2 DEF Exported, Outcomes
<1>5. CASE Packaging(a)
  <2>1. CASE Distrust(a) \/ Accept(a) \/ Reject(a)
    BY <1>1, <2>1 DEF Distrust, Accept, Reject, Outcomes
  <2>2. CASE Load(a) \/ BuildCard(a) \/ PlaceModel(a) \/ WriteCard(a)
    BY <1>0, <2>2 DEF Load, BuildCard, PlaceModel, WriteCard, InStage, Outcomes
  <2> QED BY <1>5, <2>1, <2>2 DEF Packaging
<1>6. CASE CommandWrites(a) \/ Cancel(a)
  BY <1>0, <1>6 DEF CommandWrites, Cancel, caller
<1>7. CASE CommandEnds(a)
  BY <1>0, <1>7 DEF CommandEnds
<1>8. CASE RaiseInStage(a)
  <2>1. result'[a]["export"].status # "completed" /\ pc'[a] = "next"
    BY <1>0, <1>8, Made DEF RaiseInStage, Statuses
  <2> QED BY <1>0, <1>8, <2>1 DEF RaiseInStage, InStage
<1>9. CASE RaiseInPackage(a) \/ Crash(a)
  BY <1>1, <1>9 DEF RaiseInPackage, Crash, Outcomes
<1> QED BY <1>2, <1>3, <1>4, <1>5, <1>6, <1>7, <1>8, <1>9 DEF Step, Work

\* A run's own steps file what it goes by.
LEMMA FiledStep ==
  ASSUME TypeOK, Evidenced, NEW a \in Pipelines, Concluded(a), InOrder(a), InOrder(a)',
         Active(a) => OnItsOwn(a) /\ Filed(a), Step(a), Active(a)'
  PROVE  Filed(a)'
<1> USE CallerAssumption DEF TypeOK, Goto
<1>0. /\ a \in Callers
      /\ stage[a] \in {"training", "export", "evaluation"}
      /\ config.command = Stages /\ config.produced = Stages
  BY DEF Stages, Callers, Evidenced
<1>1. CASE Start(a)
  <2>1. pc'[a] = "begin" /\ stage'[a] = "training"
    BY <1>0, <1>1 DEF Start, StartPipeline, StartScript, StartCreator, InOrder, Active, Ended, Outcomes
  <2> QED BY <2>1 DEF Filed
<1>2. ~(\E o \in Outcomes : Finish(a, o))
  BY <1>0 DEF Finish, Active, Ended
<1>3. CASE pc[a] \in InStage /\ Stage(a)
  <2>1. OnItsOwn(a) /\ Filed(a)
    BY <1>3 DEF Active, Ended, Outcomes, InStage
  <2>2. ASSUME NEW r \in Result, Conclude(a, r),
               (stage[a] = "export" /\ r.status = "completed") => product["export"] = Own(a)
        PROVE  Filed(a)'
    <3>1. /\ pc'[a] = "next" /\ result'[a][stage[a]] = r /\ report'[stage[a]] = r /\ stage' = stage
          /\ product' = product
          /\ \A t \in Stages : t # stage[a] => result'[a][t] = result[a][t] /\ report'[t] = report[t]
      BY <1>0, <2>2 DEF Conclude, Stages
    <3> QED BY <1>0, <2>1, <2>2, <3>1 DEF Filed, Stages, Own
  <2>3. CASE \E s \in {"failed", "cancelled"} : Conclude(a, Unmade(s))
    BY <2>2, <2>3, Made DEF Statuses
  <2>4. CASE Report(a)
    <3>1. PICK r \in Result : Conclude(a, r)
      BY <1>0, <2>4, RefiledResult DEF Report
    <3> QED BY <2>1, <2>2, <2>4, <3>1 DEF Report, Filed
  <2>5. CASE Begin(a) \/ Check(a) \/ ReadMetrics(a)
    BY <1>0, <2>1, <2>5 DEF Begin, Check, ReadMetrics, InOrder, Filed, files, Own, Stages
  <2>6. CASE Copy(a)
    BY <1>0, <2>1, <2>6 DEF Copy, OnItsOwn, Filed, Own
  <2>7. CASE Settle(a)
    <3>1. cmd[a] \in {"ok", "failed", "cancelled"}
      BY <1>0, <2>7 DEF Settle, Concluded
    <3>2. CASE Goto(a, "check") /\ UNCHANGED <<files, stage, result>>
      BY <1>0, <2>1, <3>2 DEF Filed, files, Own
    <3> QED BY <2>3, <2>7, <3>1, <3>2 DEF Settle
  <2>8. ~(TrainLocally(a) \/ ReuseOnnx(a) \/ SynthesizeOnnx(a))
    BY <2>1 DEF OnItsOwn, TrainLocally, ReuseOnnx, SynthesizeOnnx
  <2> QED
    BY <1>3, <2>3, <2>4, <2>5, <2>6, <2>7, <2>8
       DEF Stage, StopAtStart, Refuse, RejectProduct, RejectContent, StopBeforeReport
<1>4. CASE Order(a)
  <2>1. Advance(a) /\ Filed(a)
    <3>1. Advance(a)
      BY <1>0, <1>2, <1>4 DEF Order, StopBeforeTraining, Stop, ScriptEnds, Exported, Concluded, Outcomes
    <3>2. Active(a)
      BY <3>1 DEF Advance, Active, Ended, Outcomes
    <3> QED BY <3>1, <3>2
  <2> QED BY <1>0, <2>1 DEF Advance, Filed, Following, files, Own
<1>5. CASE Packaging(a)
  <2>1. Filed(a)
    BY <1>5 DEF Packaging, Load, BuildCard, Distrust, PlaceModel, WriteCard, Accept, Reject,
                Active, Ended, Outcomes
  <2>2. CASE BuildCard(a) \/ PlaceModel(a) \/ WriteCard(a)
    BY <1>0, <2>1, <2>2 DEF BuildCard, PlaceModel, WriteCard, Filed, files, Own
  <2> QED
    BY <1>0, <1>2, <1>5, <2>2 DEF Packaging, Load, Distrust, Accept, Reject, InOrder, Outcomes
<1>6. CASE CommandWrites(a)
  <2>1. OnItsOwn(a) /\ Filed(a)
    BY <1>6 DEF CommandWrites, caller, Active, Ended
  <2>2. report' = report /\ pc' = pc /\ stage' = stage /\ result' = result
    BY <1>0, <1>6 DEF CommandWrites, caller
  <2>3. product' = [product EXCEPT ![stage[a]] = Own(a)]
    BY <1>0, <1>6, <2>1 DEF CommandWrites, OnItsOwn, Own, Stages
  <2>4. \A s \in Stages : product'[s] = IF s = stage[a] THEN Own(a) ELSE product[s]
    BY <1>0, <2>3
  <2> QED BY <1>0, <2>1, <2>2, <2>4 DEF Filed, Stages, Own
<1>7. CASE CommandEnds(a) \/ Cancel(a)
  BY <1>7 DEF CommandEnds, Cancel, caller, files, Filed, Own, Active, Ended
<1>8. CASE RaiseInStage(a)
  <2>1. Filed(a)
    BY <1>8 DEF RaiseInStage, Active, Ended, Outcomes, InStage
  <2>2. /\ pc'[a] = "next" /\ result'[a][stage[a]].status = "failed" /\ stage' = stage
        /\ product' = product /\ report' = report
        /\ \A t \in Stages : t # stage[a] => result'[a][t] = result[a][t]
    BY <1>0, <1>8, Made DEF RaiseInStage, files, Stages, Statuses
  <2> QED BY <1>0, <2>1, <2>2 DEF Filed, Stages, Own
<1>9. ~(RaiseInPackage(a) \/ Crash(a))
  BY <1>2 DEF RaiseInPackage, Crash, Outcomes
<1>10. Stage(a) => pc[a] \in InStage
  BY DEF Stage, StopAtStart, Refuse, Begin, TrainLocally, ReuseOnnx, SynthesizeOnnx,
     Settle, Check, RejectProduct, Copy, ReadMetrics, RejectContent, StopBeforeReport, Report, InStage
<1> QED BY <1>1, <1>3, <1>4, <1>5, <1>6, <1>7, <1>8, <1>9, <1>10 DEF Step, Work

\* A creator's own steps leave all evidence with the training run it was with.
LEMMA ModelKept ==
  ASSUME TypeOK, Evidenced, NEW a \in Creators, Exports(a), OneModel, Step(a)
  PROVE  OneModel'
<1> USE DEF TypeOK, Goto
<1>0. /\ a \in Callers /\ a \notin Pipelines /\ a \notin Scripts
      /\ config.command = Stages /\ config.produced = Stages /\ pc[a] # "local"
      /\ pc[a] \in InStage \/ cmd[a] = "running" => stage[a] = "export"
  BY CallerAssumption DEF Callers, Evidenced, Exports
<1>1. CASE UNCHANGED <<product, output, report>>
  BY <1>1 DEF OneModel
<1>2. CASE pc[a] \in InStage /\ \E r : Conclude(a, r)
  <2>1. /\ product' = product /\ output' = output
        /\ report'["training"] = report["training"] /\ report'["evaluation"] = report["evaluation"]
    BY <1>0, <1>2 DEF Conclude, Stages
  <2> QED BY <2>1 DEF OneModel
<1>3. CASE Stage(a)
  <2>1. CASE Begin(a) \/ Check(a) \/ ReadMetrics(a)
    BY <1>1, <2>1 DEF Begin, Check, ReadMetrics, files
  <2>2. CASE Copy(a)
    BY <1>0, <2>2 DEF Copy, OneModel
  <2>3. CASE Settle(a)
    BY <1>1, <1>2, <2>3 DEF Settle, files, InStage
  <2>4. ~(TrainLocally(a) \/ ReuseOnnx(a) \/ SynthesizeOnnx(a))
    BY <1>0 DEF TrainLocally, ReuseOnnx, SynthesizeOnnx
  <2> QED
    BY <1>2, <1>3, <2>1, <2>2, <2>3, <2>4
       DEF Stage, StopAtStart, Refuse, RejectProduct, RejectContent, StopBeforeReport, Report, InStage
<1>4. CASE CommandWrites(a)
  <2>1. /\ product' = [product EXCEPT !["export"] = [by |-> a, model |-> product["training"].model]]
        /\ output' = output /\ report' = report
    BY <1>0, <1>4 DEF CommandWrites, Stages
  <2>2. /\ product'["training"] = product["training"]
        /\ product'["export"].model = product["training"].model
    BY <2>1 DEF Stages
  <2> QED BY <2>1, <2>2 DEF OneModel
<1>5. CASE Start(a) \/ Order(a)
  BY <1>1, <1>5 DEF Start, StartPipeline, StartScript, StartCreator, Order, StopBeforeTraining,
     Advance, Stop, ScriptEnds, Exported, Finish, files
<1>6. CASE Packaging(a)
  BY <1>1, <1>6 DEF Packaging, Load, BuildCard, Distrust, PlaceModel, WriteCard, Accept, Reject, Finish, files
<1>7. CASE CommandEnds(a) \/ RaiseInStage(a) \/ RaiseInPackage(a) \/ Crash(a) \/ Cancel(a)
  BY <1>1, <1>7 DEF CommandEnds, RaiseInStage, RaiseInPackage, Crash, Cancel, Finish, files
<1> QED BY <1>3, <1>4, <1>5, <1>6, <1>7 DEF Step, Work

\* A creator's own steps leave what it has read.
LEMMA BelievesStep ==
  ASSUME TypeOK, Evidenced, NEW a \in Creators, Exports(a), Active(a) => Believes(a), Step(a), Active(a)'
  PROVE  Believes(a)'
<1> USE DEF TypeOK, Goto
<1>0. /\ a \in Callers /\ a \notin Pipelines /\ a \notin Scripts
      /\ pc[a] = "idle" => stage[a] = "training"
      /\ cmd[a] = "running" => pc[a] \notin {"load", "gate", "place", "card"}
  BY CallerAssumption DEF Callers, Exports, InStage, Outcomes
<1>1. CASE pc'[a] \notin {"load", "gate", "place", "card"}
  BY <1>1 DEF Believes
<1>2. ~(\E o \in Outcomes : Finish(a, o))
  BY <1>0 DEF Finish, Active, Ended
<1>3. CASE Start(a)
  BY <1>0, <1>3 DEF Start, StartPipeline, StartScript, StartCreator, Believes
<1>4. CASE Stage(a)
  BY <1>0, <1>1, <1>4 DEF Stage, StopAtStart, Refuse, Begin, TrainLocally, ReuseOnnx, SynthesizeOnnx,
     Settle, Check, RejectProduct, Copy, ReadMetrics, RejectContent, StopBeforeReport, Report, Conclude
<1>5. CASE Order(a)
  <2>1. Exported(a)
    BY <1>0, <1>5 DEF Order, StopBeforeTraining, Advance, Stop, ScriptEnds, Exported
  <2> QED BY <1>0, <1>2, <2>1 DEF Exported, Believes, Outcomes
<1>6. CASE Packaging(a)
  <2>1. Believes(a)
    BY <1>6 DEF Packaging, Load, BuildCard, Distrust, PlaceModel, WriteCard, Accept, Reject,
                Active, Ended, Outcomes
  <2>2. CASE Load(a)
    <3>1. /\ result'[a][stage[a]] = report[stage[a]] /\ report' = report
          /\ \A s \in Stages : s # stage[a] => result'[a][s] = result[a][s]
      BY <1>0, <2>2 DEF Load, files
    <3>2. CASE stage[a] = "evaluation"
      BY <1>0, <2>1, <2>2, <3>1, <3>2 DEF Load, Believes, Stages
    <3>3. CASE stage[a] # "evaluation"
      BY <1>0, <2>1, <2>2, <3>1, <3>3 DEF Load, Believes, Stages
    <3> QED BY <3>2, <3>3
  <2>3. CASE BuildCard(a)
    BY <1>0, <2>1, <2>3 DEF BuildCard, Believes, files
  <2>4. CASE PlaceModel(a)
    <3>1. card'[a] = [card[a] EXCEPT !.sha = Onnx(a)] /\ card[a] \in Card
      BY <1>0, <2>4 DEF PlaceModel
    <3>2. /\ card'[a].checkpoint = card[a].checkpoint /\ card'[a].metrics = card[a].metrics
          /\ card'[a].sha = Onnx(a)
      BY <3>1 DEF Card
    <3>3. Onnx(a)' = Onnx(a)
      BY <2>4 DEF PlaceModel, Onnx, HandedForeign
    <3> QED BY <1>0, <2>1, <2>4, <3>2, <3>3 DEF PlaceModel, Believes
  <2>5. CASE WriteCard(a)
    BY <1>0, <1>1, <2>5 DEF WriteCard
  <2> QED
    BY <1>2, <1>6, <2>2, <2>3, <2>4, <2>5 DEF Packaging, Distrust, Accept, Reject, Outcomes
<1>7. CASE CommandWrites(a)
  BY <1>0, <1>1, <1>7 DEF CommandWrites, caller
<1>8. CASE CommandEnds(a) \/ Cancel(a)
  BY <1>8 DEF CommandEnds, Cancel, caller, files, Believes, Onnx, HandedForeign, Active, Ended
<1>9. CASE RaiseInStage(a)
  BY <1>0, <1>1, <1>9 DEF RaiseInStage
<1>10. ~(RaiseInPackage(a) \/ Crash(a))
  BY <1>2 DEF RaiseInPackage, Crash, Outcomes
<1> QED BY <1>3, <1>4, <1>5, <1>6, <1>7, <1>8, <1>9, <1>10 DEF Step, Work

\* CoherentInv is inductive.
LEMMA CoherentStep ==
  TypeInv /\ OrderInv /\ OrderInv' /\ CoherentInv /\ [Next]_vars => CoherentInv'
<1> SUFFICES ASSUME TypeInv, OrderInv, OrderInv', CoherentInv, [Next]_vars PROVE CoherentInv'
  OBVIOUS
<1> DEFINE Kept(b) == /\ pc'[b] = pc[b] /\ stage'[b] = stage[b] /\ cmd'[b] = cmd[b]
                      /\ before'[b] = before[b] /\ draft'[b] = draft[b]
                      /\ result'[b] = result[b] /\ card'[b] = card[b]
<1>0. Creators \subseteq Callers /\ Pipelines \subseteq Callers /\ Creators \cap Pipelines = {}
  BY CallerAssumption DEF Callers
<1>1. CASE UNCHANGED vars
  BY <1>1 DEF vars, files, caller, past, CoherentInv, CreatedIsCoherent, Evidenced, config,
     Signed, OnItsOwn, Filed, Own, OneModel, Exports, Believes, Onnx, HandedForeign, Undisturbed,
     Active, Ended
<1>2. ASSUME NEW a \in Callers, Step(a) PROVE CoherentInv'
  <2>0. /\ TypeOK /\ Concluded(a) /\ InOrder(a) /\ InOrder(a)'
        /\ Evidenced' <=> Evidenced
    BY <1>2, DisturbStep DEF TypeInv, OrderInv, Evidenced, config
  <2>1. ASSUME NEW b \in Callers, b # a PROVE Kept(b)
    BY <1>2, <2>0, <2>1, Others
  <2>2. ASSUME NEW b \in Callers, Undisturbed(b)', pc[b] # "idle" PROVE Undisturbed(b)
    <3>1. Active(b)
      BY <1>2, <2>0, <2>1, <2>2, BeginsByStart DEF Undisturbed, Active, Ended
    <3> QED BY <1>2, <2>0, <2>2, <3>1, DisturbStep DEF Undisturbed
  <2>3. ASSUME NEW b \in Callers, b # a, Undisturbed(b)' PROVE Undisturbed(b) /\ UNCHANGED files /\ Kept(b)
    <3>1. Active(b) /\ pc[b] # "idle"
      BY <2>1, <2>3 DEF Undisturbed, Active, Ended
    <3> QED BY <1>2, <2>0, <2>1, <2>2, <2>3, <3>1, DisturbStep DEF Undisturbed
  <2>4. ASSUME NEW b \in Creators PROVE Exports(b)'
    BY <1>0, <1>2, <2>0, <2>1, <2>4, ExportsStep DEF CoherentInv, Exports
  <2>5. ASSUME NEW b \in Callers PROVE Signed(b)'
    BY <1>2, <2>0, <2>1, <2>5, SignedStep DEF CoherentInv, Signed
  <2>6. ASSUME Evidenced, NEW b \in Pipelines, Undisturbed(b)' PROVE OnItsOwn(b)' /\ Filed(b)'
    <3>1. CASE b = a
      <4>1. Active(a) => OnItsOwn(a) /\ Filed(a)
        BY <1>0, <2>2, <2>6, <3>1 DEF CoherentInv, Active
      <4> QED BY <1>2, <2>0, <2>6, <3>1, <4>1, OwnStep, FiledStep DEF Undisturbed
    <3>2. CASE b # a
      <4>1. Undisturbed(b) /\ UNCHANGED files /\ Kept(b)
        BY <1>0, <2>3, <2>6, <3>2
      <4>2. OnItsOwn(b) /\ Filed(b)
        BY <2>6, <4>1 DEF CoherentInv
      <4> QED BY <4>1, <4>2 DEF OnItsOwn, Filed, Own, files
    <3> QED BY <3>1, <3>2
  <2>7. ASSUME Evidenced, settled' PROVE OneModel'
    <3>1. CASE settled /\ a \in Creators
      BY <1>2, <2>0, <2>7, <3>1, ModelKept DEF CoherentInv
    <3>2. CASE settled /\ a \notin Creators
      BY <1>2, <2>0, <2>7, <3>2, SettledStep DEF CoherentInv, OneModel
    <3>3. CASE ~settled
      <4>1. /\ Settled(a) /\ pc[a] = "next" /\ UNCHANGED files
            /\ result[a]["evaluation"].status = "completed"
        BY <1>2, <2>0, <2>7, <3>3, SettledStep
      <4>2. a \in Pipelines /\ stage[a] = "evaluation" /\ Undisturbed(a)
        BY <4>1 DEF Settled, Undisturbed, Active, Ended, Outcomes
      <4>3. OnItsOwn(a) /\ Filed(a)
        BY <2>7, <4>2 DEF CoherentInv
      <4>4. /\ product["training"] = Own(a) /\ product["export"] = Own(a) /\ output = Own(a)
            /\ report["training"].file = Own(a) /\ report["evaluation"].file = Own(a)
        BY <4>1, <4>2, <4>3 DEF OnItsOwn, Filed
      <4> QED BY <4>1, <4>4 DEF OneModel, Own, files
    <3> QED BY <3>1, <3>2, <3>3
  <2>8. ASSUME Evidenced, NEW b \in Creators, Undisturbed(b)' PROVE OneModel'
    <3>1. CASE b # a
      <4>1. Undisturbed(b) /\ UNCHANGED files
        BY <1>0, <2>3, <2>8, <3>1
      <4>2. OneModel
        BY <2>8, <4>1 DEF CoherentInv
      <4> QED BY <4>1, <4>2 DEF OneModel, files
    <3>2. CASE b = a /\ pc[a] # "idle"
      BY <1>2, <2>0, <2>2, <2>8, <3>2, ModelKept DEF CoherentInv
    <3>3. CASE b = a /\ pc[a] = "idle"
      <4>1. StartCreator(a)
        BY <1>0, <1>2, <2>0, <2>8, <3>3, BeginsByStart, CallerAssumption
           DEF Undisturbed, Active, Start, StartPipeline, StartScript
      <4>2. settled /\ UNCHANGED files
        BY <2>0, <2>8, <3>3, <4>1 DEF StartCreator, Undisturbed, TypeOK
      <4>3. OneModel
        BY <2>8, <4>2 DEF CoherentInv
      <4> QED BY <4>2, <4>3 DEF OneModel, files
    <3> QED BY <3>1, <3>2, <3>3
  <2>9. ASSUME Evidenced, NEW b \in Creators, Undisturbed(b)' PROVE Believes(b)'
    <3>1. CASE b = a
      <4>1. Active(a) => Believes(a)
        BY <1>0, <2>2, <2>9, <3>1 DEF CoherentInv, Active
      <4> QED BY <1>2, <2>0, <2>9, <3>1, <4>1, BelievesStep DEF CoherentInv, Undisturbed
    <3>2. CASE b # a
      <4>1. Undisturbed(b) /\ UNCHANGED files /\ Kept(b)
        BY <1>0, <2>3, <2>9, <3>2
      <4>2. Believes(b)
        BY <2>9, <4>1 DEF CoherentInv
      <4>3. Onnx(b)' = Onnx(b)
        BY <1>2, <2>0, <4>1, DisturbStep DEF Onnx, HandedForeign, files
      <4> QED BY <4>1, <4>2, <4>3 DEF Believes, files
    <3> QED BY <3>1, <3>2
  <2>10. \/ package'.card = package.card
         \/ WriteCard(a) /\ package'.card = card[a] /\ card[a].by = a /\ Active(a) /\ pc'[a] = "validate"
    <3>1. CASE package' = package
      BY <3>1
    <3>2. CASE PlaceModel(a)
      BY <2>0, <3>2 DEF PlaceModel, TypeOK
    <3>3. CASE WriteCard(a)
      BY <2>0, <3>3 DEF WriteCard, CoherentInv, Signed, TypeOK, Goto, Active, Ended, Outcomes
    <3> QED BY <1>2, <3>1, <3>2, <3>3, PackageStep
  <2>11. ASSUME NEW b \in Callers, pc'[b] = "idle" PROVE package'.card.by # b
    <3>1. pc[b] = "idle"
      BY <1>2, <2>0, <2>1, <2>11, BeginsByStart
    <3> QED BY <2>10, <2>11, <3>1 DEF CoherentInv
  <2>12. CreatedIsCoherent'
    <3> DEFINE b == package'.card.by
    <3>0. work' = work
      BY <1>2, <2>0, DisturbStep
    <3> SUFFICES ASSUME Evidenced, b \in Creators, ~disturbed'[b]
                 PROVE  /\ package'.card.checkpoint.model = package'.card.metrics.model
                        /\ package'.card.sha.model = IF HandedForeign(b) THEN Foreign
                                                     ELSE package'.card.metrics.model
      BY <2>0, <3>0 DEF CreatedIsCoherent, HandedForeign
    <3>1. CASE package'.card = package.card
      <4>1. pc[b] # "idle" /\ b \in Callers
        BY <1>0, <3>1 DEF CoherentInv
      <4>2. ~disturbed[b]
        BY <1>2, <2>0, <4>1, DisturbStep
      <4> QED BY <3>1, <4>2 DEF CoherentInv, CreatedIsCoherent
    <3>2. CASE WriteCard(a) /\ package'.card = card[a] /\ card[a].by = a /\ Active(a)
      <4>1. a \in Creators /\ Undisturbed(a) /\ pc[a] = "card"
        <5>1. b = a
          BY <3>2
        <5>2. pc[a] = "card" /\ ~disturbed[a]
          BY <1>2, <2>0, <3>2, <5>1, DisturbStep DEF WriteCard
        <5> QED BY <3>2, <5>1, <5>2 DEF Undisturbed
      <4>2. OneModel /\ Believes(a)
        BY <4>1 DEF CoherentInv
      <4>3. package'.card = card[a] /\ b = a
        BY <3>2
      <4> QED BY <4>1, <4>2, <4>3 DEF OneModel, Believes, Onnx
    <3> QED BY <2>10, <3>1, <3>2
  <2> QED BY <2>0, <2>4, <2>5, <2>6, <2>7, <2>8, <2>9, <2>11, <2>12 DEF CoherentInv
<1> QED BY <1>1, <1>2, NextIsStep

\* The checkpoint and the metrics on a card POST /api/packages/create writes go back to one
\* training run, as long as nothing was started since a pipeline's evaluation completed; so
\* does the ONNX, unless the request handed over one that is none of the experiment's.
THEOREM CreatedCardsCohere == Spec => []CreatedIsCoherent
<1>1. Init => CoherentInv
  BY CallerAssumption DEF Init, CoherentInv, CreatedIsCoherent, Signed, Exports, Undisturbed,
     Active, Outcomes, InStage, NoCard, Callers
<1>2. CoherentInv => CreatedIsCoherent
  BY DEF CoherentInv
<1> QED
  BY <1>1, <1>2, TypeInvInit, TypeInvStep, OrderInvInit, OrderInvStep, CoherentStep, PTL DEF Spec

==============================================================================
