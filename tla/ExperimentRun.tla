---------------------------- MODULE ExperimentRun ----------------------------
(***************************************************************************)
(* What a run leaves in the directories of one experiment: the stages of   *)
(* LocalTaskAdapter (adapters/local_tasks.py), the order pipeline.py takes *)
(* them in, and the package made from their results (trust.py,             *)
(* model_card.py, create_package_from_experiment).                         *)
(*                                                                         *)
(* Three kinds of caller share the files: pipelines, which hold the run    *)
(* lock; the scripts that run one stage; and POST /api/packages/create,    *)
(* which exports, or is handed any ONNX file of the workspace, and trusts  *)
(* the reports it finds on disk.  The last two take no lock.  A file is    *)
(* known by the caller whose command wrote it and by the training run its  *)
(* content goes back to.  Uploads into the directories are left out.       *)
(***************************************************************************)
EXTENDS Naturals

CONSTANTS
  Pipelines,  \* executions of run_experiment_pipeline
  Scripts,    \* executions of scripts/train.py, export_onnx.py and evaluate.py
  Creators,   \* executions of POST /api/packages/create
  Workloads,  \* a configuration, the callers that turn up, the faults that strike
  Foreign,    \* whoever made an ONNX file that is none of the experiment's
  None

Callers == Pipelines \cup Scripts \cup Creators
Stages  == {"training", "export", "evaluation"}

\* A configuration: package.profile; whether its adapter requires external artifacts;
\* the stages with a command; those that declare the file it produces; reuse_existing.
ConfigType == [profile : {"production", "smoke"}, requires : BOOLEAN,
               command : SUBSET Stages, produced : SUBSET Stages, reuse : BOOLEAN]

\* The onnx_path of a package request: none, the experiment's exported ONNX, another file.
Handed == {"nothing", "exported", "foreign"}

Workload == [config : ConfigType, callers : SUBSET Callers, faults : Nat,
             onnx : [Creators -> Handed]]

ASSUME CallerAssumption ==
  /\ Pipelines \cap Scripts = {} /\ Pipelines \cap Creators = {} /\ Scripts \cap Creators = {}
  /\ None \notin Callers /\ Foreign \notin Callers \cup {None}

ASSUME WorkloadAssumption == Workloads \subseteq Workload

\* A faults budget bounds the exceptions and crashes of a behaviour.
VARIABLES
  work,       \* the workload
  product,    \* the checkpoint, the produced ONNX and the produced metrics
  output,     \* the exported ONNX in the experiment's directory
  report,     \* train.report.json, export.report.json, eval.report.json
  package,    \* the packaged ONNX and its model card
  lock,       \* the pipeline that holds the run lock
  pc, stage,  \* where each caller is, and in which stage
  cmd,        \* its external command
  before,     \* fingerprint of the stage's product before the command
  draft,      \* the result it is about to report
  result,     \* its stage payloads
  card,       \* the model card it has built
  cancel,     \* pipelines whose job has a cancellation request
  disturbed,  \* history: someone else wrote among the files while the caller was active
  settled,    \* history: nothing was written since a pipeline completed, but by creators
  faults      \* stages cut off by an exception, and crashes

config == work.config

files  == <<product, output, report, package>>
caller == <<pc, stage, cmd, before, draft, result, card>>
past   == <<disturbed, settled, faults>>
vars   == <<work, files, lock, caller, cancel, past>>

Owner    == Callers \cup {None, Foreign}
File     == [by : Owner, model : Owner]
NoFile   == [by |-> None, model |-> None]
Sources  == {"none", "external_command", "reused", "synthetic_baseline", "measured", "declared"}
Statuses == {"none", "completed", "failed", "cancelled"}
Result   == [status : Statuses, source : Sources, file : File]
Card     == [by : Owner, checkpoint : File, metrics : File, sha : File]
Outcomes == {"completed", "failed", "cancelled", "crashed"}
InStage  == {"begin", "local", "command", "check", "copy", "read", "report"}
Steps    == {"idle", "next", "load", "gate", "place", "card", "validate"} \cup InStage \cup Outcomes

Unmade(s) == [status |-> s, source |-> "none", file |-> NoFile]
NoCard    == [by |-> None, checkpoint |-> NoFile, metrics |-> NoFile, sha |-> NoFile]
Ended(a)  == pc[a] \in Outcomes
Active(a) == pc[a] # "idle" /\ ~Ended(a)
Following(s) == IF s = "training" THEN "export" ELSE "evaluation"

\* Every stage is a command that declares what it produces: the evidence a production
\* package needs (docs/架构设计.md:91).
Evidenced == config.profile = "production" /\ config.command = Stages /\ config.produced = Stages

Init ==
  /\ work \in Workloads
  /\ product = [s \in Stages |-> NoFile]
  /\ output  = NoFile
  /\ report  = [s \in Stages |-> Unmade("none")]
  /\ package = [onnx |-> NoFile, card |-> NoCard]
  /\ lock = None
  /\ pc = [a \in Callers |-> "idle"]
  /\ stage = [a \in Callers |-> "training"]
  /\ cmd = [a \in Callers |-> "none"]
  /\ before = [a \in Callers |-> NoFile]
  /\ draft = [a \in Callers |-> Unmade("none")]
  /\ result = [a \in Callers |-> [s \in Stages |-> Unmade("none")]]
  /\ card = [a \in Callers |-> NoCard]
  /\ cancel = {}
  /\ disturbed = [a \in Callers |-> FALSE]
  /\ settled = FALSE /\ faults = 0

Goto(a, step) == pc' = [pc EXCEPT ![a] = step]

\* History: caller a writes a file.
Touch(a) ==
  /\ disturbed' = [x \in Callers |-> disturbed[x] \/ (x # a /\ Active(x))]
  /\ settled' = (settled /\ a \in Creators)
  /\ UNCHANGED faults

-----------------------------------------------------------------------------
(***************************************************************************)
(* One stage: LocalTaskAdapter.train, .export and .evaluate.               *)
(***************************************************************************)

\* write_json of the stage's report, and the AdapterResult returned.
Conclude(a, r) ==
  /\ report' = [report EXCEPT ![stage[a]] = r]
  /\ result' = [result EXCEPT ![a][stage[a]] = r]
  /\ cmd' = [cmd EXCEPT ![a] = "none"]
  /\ before' = [before EXCEPT ![a] = NoFile]
  /\ draft' = [draft EXCEPT ![a] = Unmade("none")]
  /\ Goto(a, "next")
  /\ Touch(a)
  /\ UNCHANGED <<work, product, output, package, lock, stage, card, cancel>>

\* The stage's own look at should_cancel.  _CancelCheck remembers its answer for three
\* seconds, so a request may go unseen; only pipelines are given a should_cancel.
StopAtStart(a) ==
  /\ pc[a] = "begin" /\ a \in cancel
  /\ Conclude(a, Unmade("cancelled"))

\* Preflight issues of an adapter that requires external artifacts; the data
\* preparation and preflight commands may fail for any configuration.
Refuse(a) == pc[a] = "begin" /\ Conclude(a, Unmade("failed"))

Begin(a) ==
  /\ pc[a] = "begin"
  /\ config.requires => stage[a] \in config.command \cap config.produced
  /\ before' = [before EXCEPT ![a] = product[stage[a]]]
  /\ IF stage[a] \in config.command
       THEN cmd' = [cmd EXCEPT ![a] = "running"] /\ Goto(a, "command")
       ELSE /\ UNCHANGED cmd
            /\ Goto(a, IF stage[a] = "evaluation" THEN "read" ELSE "local")
  /\ UNCHANGED <<work, files, lock, stage, draft, result, card, cancel, past>>

\* Training without a command.
TrainLocally(a) ==
  /\ pc[a] = "local" /\ stage[a] = "training"
  /\ draft' = [draft EXCEPT ![a] = Unmade("completed")]
  /\ Goto(a, "report")
  /\ UNCHANGED <<work, files, lock, stage, cmd, before, result, card, cancel, past>>

\* export.reuse_existing without a command.
ReuseOnnx(a) ==
  /\ pc[a] = "local" /\ stage[a] = "export" /\ config.reuse /\ output # NoFile
  /\ draft' = [draft EXCEPT ![a] = [status |-> "completed", source |-> "reused", file |-> NoFile]]
  /\ Goto(a, "report")
  /\ UNCHANGED <<work, files, lock, stage, cmd, before, result, card, cancel, past>>

\* The synthetic baseline.
SynthesizeOnnx(a) ==
  /\ pc[a] = "local" /\ stage[a] = "export" /\ ~(config.reuse /\ output # NoFile)
  /\ output' = [by |-> a, model |-> None]
  /\ draft' = [draft EXCEPT ![a] =
                 [status |-> "completed", source |-> "synthetic_baseline", file |-> NoFile]]
  /\ Goto(a, "report")
  /\ Touch(a)
  /\ UNCHANGED <<work, product, report, package, lock, stage, cmd, before, result, card, cancel>>

\* The command reads what the stage before it left and writes its product; an export
\* command that declares none writes the target itself.  It may outlive its caller.
CommandWrites(a) ==
  LET model == CASE stage[a] = "training"   -> a
                 [] stage[a] = "export"     -> product["training"].model
                 [] stage[a] = "evaluation" -> output.model
      made  == [by |-> a, model |-> model]
  IN /\ cmd[a] = "running"
     /\ IF stage[a] = "export" /\ "export" \notin config.produced
          THEN output' = made /\ UNCHANGED product
          ELSE product' = [product EXCEPT ![stage[a]] = made] /\ UNCHANGED output
     /\ Touch(a)
     /\ UNCHANGED <<work, report, package, lock, caller, cancel>>

CommandEnds(a) ==
  /\ cmd[a] = "running"
  /\ \E r \in {"ok", "failed"} \cup (IF a \in cancel THEN {"cancelled"} ELSE {}) :
       cmd' = [cmd EXCEPT ![a] = r]
  /\ UNCHANGED <<work, files, lock, pc, stage, before, draft, result, card, cancel, past>>

\* A training command that failed is reported as cancelled if the request is seen by then.
Settle(a) ==
  /\ pc[a] = "command" /\ cmd[a] # "running"
  /\ \/ /\ cmd[a] = "ok"
        /\ draft' = [draft EXCEPT ![a] =
                       [status |-> "completed", source |-> "external_command", file |-> NoFile]]
        /\ Goto(a, "check")
        /\ UNCHANGED <<work, files, lock, stage, cmd, before, result, card, cancel, past>>
     \/ cmd[a] # "ok" /\ Conclude(a, Unmade(cmd[a]))
     \/ cmd[a] # "ok" /\ stage[a] = "training" /\ a \in cancel /\ Conclude(a, Unmade("cancelled"))

\* Mutant: any product will do.
Present(old, new) == new # NoFile

\* _artifact_is_fresh: every write changes the digest or the time.
Fresh(old, new) == new # NoFile /\ new # old

\* Whether the stage accepts what its command left.
Produced(a) ==
  IF stage[a] \in config.produced
    THEN Fresh(before[a], product[stage[a]])
    ELSE stage[a] = "export" => output # NoFile

Check(a) ==
  /\ pc[a] = "check" /\ Produced(a)
  /\ draft' = [draft EXCEPT ![a].file =
                 IF stage[a] = "training" /\ "training" \in config.produced
                 THEN product["training"] ELSE NoFile]
  /\ Goto(a, CASE stage[a] = "evaluation" -> "read"
               [] stage[a] = "export" /\ "export" \in config.produced -> "copy"
               [] OTHER -> "report")
  /\ UNCHANGED <<work, files, lock, stage, cmd, before, result, card, cancel, past>>

\* The product is missing or is the one found before the command.
RejectProduct(a) == pc[a] = "check" /\ ~Produced(a) /\ Conclude(a, Unmade("failed"))

\* _atomic_copy_file of the produced ONNX.
Copy(a) ==
  /\ pc[a] = "copy"
  /\ output' = product["export"]
  /\ Goto(a, "report")
  /\ Touch(a)
  /\ UNCHANGED <<work, product, report, package, lock, stage, cmd, before, draft, result, card, cancel>>

\* Mutant: the declared file is read before the command.
ReadEarly(a) ==
  /\ pc[a] = "read"
  /\ "evaluation" \in config.produced => product["evaluation"] # NoFile
  /\ draft' = [draft EXCEPT ![a] =
       IF "evaluation" \in config.produced
       THEN [status |-> "completed", source |-> "measured", file |-> before[a]]
       ELSE [status |-> "completed", source |-> "declared", file |-> [by |-> a, model |-> None]]]
  /\ Goto(a, "report")
  /\ UNCHANGED <<work, files, lock, stage, cmd, before, result, card, cancel, past>>

\* _read_produced_metrics; without a declared file the configuration's own numbers.
ReadMetrics(a) ==
  /\ pc[a] = "read"
  /\ "evaluation" \in config.produced => product["evaluation"] # NoFile
  /\ draft' = [draft EXCEPT ![a] =
       IF "evaluation" \in config.produced
       THEN [status |-> "completed", source |-> "measured", file |-> product["evaluation"]]
       ELSE [status |-> "completed", source |-> "declared", file |-> [by |-> a, model |-> None]]]
  /\ Goto(a, "report")
  /\ UNCHANGED <<work, files, lock, stage, cmd, before, result, card, cancel, past>>

\* An ONNX that does not load, metrics that are missing or break their contract.
RejectContent(a) ==
  /\ \/ pc[a] = "read"
     \/ pc[a] = "report" /\ stage[a] = "evaluation"
     \/ pc[a] = "report" /\ stage[a] = "export" /\ draft[a].source # "synthetic_baseline"
  /\ Conclude(a, Unmade("failed"))

\* Mutant: a cancelled stage leaves the report of an earlier run.
StopSilently(a) ==
  /\ \/ pc[a] = "read"
     \/ pc[a] = "check" /\ stage[a] = "training"
     \/ pc[a] = "report" /\ stage[a] # "evaluation"
  /\ a \in cancel
  /\ result' = [result EXCEPT ![a][stage[a]] = Unmade("cancelled")]
  /\ Goto(a, "next")
  /\ UNCHANGED <<work, files, lock, stage, cmd, before, draft, card, cancel, past>>

StopBeforeReport(a) ==
  /\ \/ pc[a] = "read"
     \/ pc[a] = "check" /\ stage[a] = "training"
     \/ pc[a] = "report" /\ stage[a] # "evaluation"
  /\ a \in cancel
  /\ Conclude(a, Unmade("cancelled"))

\* The report of a finished stage; an external export's holds the target's fingerprint.
Report(a) ==
  /\ pc[a] = "report"
  /\ Conclude(a, IF draft[a].source = "external_command" /\ stage[a] = "export"
                 THEN [draft[a] EXCEPT !.file = output] ELSE draft[a])

-----------------------------------------------------------------------------
(***************************************************************************)
(* The order of stages: _run_experiment_pipeline_unlocked, a script's one  *)
(* stage, and the export of create_package_from_experiment.                *)
(***************************************************************************)

\* The call returns, or its process dies: the lock is free and its locals are gone.
Finish(a, outcome) ==
  /\ Goto(a, outcome)
  /\ lock' = IF lock = a THEN None ELSE lock
  /\ before' = [before EXCEPT ![a] = NoFile]
  /\ draft' = [draft EXCEPT ![a] = Unmade("none")]
  /\ result' = [result EXCEPT ![a] = [s \in Stages |-> Unmade("none")]]
  /\ card' = [card EXCEPT ![a] = NoCard]
  /\ cancel' = cancel \ {a}
  /\ UNCHANGED <<work, files, stage, cmd>>

Settled(a) == a \in Pipelines /\ stage[a] = "evaluation" /\ ~disturbed[a]

\* Mutant: a pipeline that finds the lock taken runs all the same.
StartUnlocked(a) ==
  /\ a \in Pipelines \cap work.callers /\ pc[a] = "idle"
  /\ lock' = a /\ Goto(a, "begin") /\ settled' = FALSE
  /\ UNCHANGED <<work, files, stage, cmd, before, draft, result, card, cancel, disturbed, faults>>

\* A pipeline takes the run lock or reports that one is active.
StartPipeline(a) ==
  /\ a \in Pipelines \cap work.callers /\ pc[a] = "idle"
  /\ \/ lock = None /\ lock' = a /\ Goto(a, "begin") /\ settled' = FALSE
     \/ lock # None /\ Goto(a, "failed") /\ UNCHANGED <<lock, settled>>
  /\ UNCHANGED <<work, files, stage, cmd, before, draft, result, card, cancel, disturbed, faults>>

\* A script runs one stage; evaluation of an experiment without an ONNX exports first
\* and is left out.
StartScript(a) ==
  /\ a \in Scripts \cap work.callers /\ pc[a] = "idle"
  /\ \E s \in Stages : (s = "evaluation" => output # NoFile) /\ stage' = [stage EXCEPT ![a] = s]
  /\ Goto(a, "begin") /\ settled' = FALSE
  /\ UNCHANGED <<work, files, lock, cmd, before, draft, result, card, cancel, disturbed, faults>>

\* POST /api/packages/create exports unless it is handed an ONNX file.
StartCreator(a) ==
  /\ a \in Creators \cap work.callers /\ pc[a] = "idle"
  /\ IF work.onnx[a] = "nothing"
       THEN stage' = [stage EXCEPT ![a] = "export"] /\ Goto(a, "begin")
       ELSE Goto(a, "load") /\ UNCHANGED stage
  /\ disturbed' = [disturbed EXCEPT ![a] = ~settled]
  /\ UNCHANGED <<work, files, lock, cmd, before, draft, result, card, cancel, settled, faults>>

\* Mutant: a stage that did not complete does not end the run.
AdvanceAnyway(a) ==
  /\ pc[a] = "next" /\ a \in Pipelines
  /\ IF stage[a] # "evaluation"
       THEN Goto(a, "begin") /\ stage' = [stage EXCEPT ![a] = Following(@)]
       ELSE Goto(a, "gate") /\ UNCHANGED stage
  /\ settled' = (settled \/ Settled(a))
  /\ UNCHANGED <<work, files, lock, cmd, before, draft, result, card, cancel, disturbed, faults>>

\* Mutant: the package is taken for one more stage.
AdvanceToPackage(a) ==
  /\ pc[a] = "next" /\ a \in Pipelines /\ result[a][stage[a]].status = "completed"
  /\ stage' = [stage EXCEPT ![a] = IF @ = "evaluation" THEN "package" ELSE Following(@)]
  /\ Goto(a, IF stage[a] = "evaluation" THEN "gate" ELSE "begin")
  /\ settled' = (settled \/ Settled(a))
  /\ UNCHANGED <<work, files, lock, cmd, before, draft, result, card, cancel, disturbed, faults>>

\* The next stage, or the package if one was asked for.
Advance(a) ==
  /\ pc[a] = "next" /\ a \in Pipelines /\ result[a][stage[a]].status = "completed"
  /\ IF stage[a] # "evaluation"
       THEN Goto(a, "begin") /\ stage' = [stage EXCEPT ![a] = Following(@)]
       ELSE Goto(a, "gate") /\ UNCHANGED stage
  /\ settled' = (settled \/ Settled(a))
  /\ UNCHANGED <<work, files, lock, cmd, before, draft, result, card, cancel, disturbed, faults>>

\* The look at should_cancel before training.
StopBeforeTraining(a) ==
  /\ pc[a] = "begin" /\ a \in Pipelines \cap cancel /\ stage[a] = "training"
  /\ Finish(a, "cancelled")
  /\ UNCHANGED past

\* A failed or cancelled stage ends the run; so does a cancellation seen after a stage
\* that completed, and the last stage of a run without a package.
Stop(a) ==
  /\ pc[a] = "next" /\ a \in Pipelines
  /\ LET status == result[a][stage[a]].status
     IN \/ status # "completed" /\ Finish(a, status)
        \/ status = "completed" /\ a \in cancel /\ Finish(a, "cancelled")
        \/ status = "completed" /\ stage[a] = "evaluation" /\ Finish(a, "completed")
  /\ settled' = (settled \/ (Settled(a) /\ result[a][stage[a]].status = "completed"))
  /\ UNCHANGED <<disturbed, faults>>

ScriptEnds(a) ==
  /\ pc[a] = "next" /\ a \in Scripts
  /\ Finish(a, result[a][stage[a]].status)
  /\ UNCHANGED past

Exported(a) ==
  /\ pc[a] = "next" /\ a \in Creators
  /\ IF result[a]["export"].status = "completed"
       THEN /\ Goto(a, "load") /\ stage' = [stage EXCEPT ![a] = "training"]
            /\ UNCHANGED <<work, files, lock, cmd, before, draft, result, card, cancel>>
       ELSE Finish(a, "failed")
  /\ UNCHANGED past

-----------------------------------------------------------------------------
(***************************************************************************)
(* The package: create_package_from_experiment.  Labels, examples and the  *)
(* writing of the package's own files in detail are left out.              *)
(***************************************************************************)

\* load_stage_reports, one file at a time.
Load(a) ==
  /\ pc[a] = "load"
  /\ result' = [result EXCEPT ![a][stage[a]] = report[stage[a]]]
  /\ IF stage[a] = "evaluation"
       THEN Goto(a, "gate") /\ UNCHANGED stage
       ELSE stage' = [stage EXCEPT ![a] = Following(@)] /\ UNCHANGED pc
  /\ UNCHANGED <<work, files, lock, cmd, before, draft, card, cancel, past>>

\* validate_package_trust.  Thresholds, manifests and licenses may add further issues.
Trusted(r) ==
  config.profile = "production" =>
    /\ \A s \in Stages : r[s].status = "completed"
    /\ r["training"].source = "external_command" /\ r["training"].file # NoFile
    /\ r["export"].source = "external_command"
    /\ r["evaluation"].source = "measured"

\* build_model_card_data.
BuildCard(a) ==
  /\ pc[a] = "gate" /\ Trusted(result[a])
  /\ card' = [card EXCEPT ![a] = [by |-> a, checkpoint |-> result[a]["training"].file,
                                  metrics |-> result[a]["evaluation"].file, sha |-> NoFile]]
  /\ Goto(a, "place")
  /\ UNCHANGED <<work, files, lock, stage, cmd, before, draft, result, cancel, past>>

Distrust(a) ==
  /\ pc[a] = "gate"
  /\ Finish(a, "failed")
  /\ UNCHANGED past

\* History: caller a writes to the package, not to the experiment's own files.
Disturb(a) ==
  /\ disturbed' = [x \in Callers |-> disturbed[x] \/ (x # a /\ Active(x))]
  /\ UNCHANGED <<settled, faults>>

\* A package request was handed an ONNX that is not the experiment's.
HandedForeign(a) == a \in Creators /\ work.onnx[a] = "foreign"

\* The ONNX to package: nobody asks whose it is.
Onnx(a) == IF HandedForeign(a) THEN [by |-> Foreign, model |-> Foreign] ELSE output

\* create_model_package: the ONNX is copied and its digest taken for the card.
PlaceModel(a) ==
  /\ pc[a] = "place" /\ Onnx(a) # NoFile
  /\ package' = [package EXCEPT !.onnx = Onnx(a)]
  /\ card' = [card EXCEPT ![a].sha = Onnx(a)]
  /\ Goto(a, "card")
  /\ Disturb(a)
  /\ UNCHANGED <<work, product, output, report, lock, stage, cmd, before, draft, result, cancel>>

WriteCard(a) ==
  /\ pc[a] = "card"
  /\ package' = [package EXCEPT !.card = card[a]]
  /\ Goto(a, "validate")
  /\ Disturb(a)
  /\ UNCHANGED <<work, product, output, report, lock, stage, cmd, before, draft, result, card, cancel>>

\* validate_model_package with a strict hash; it may find other issues.
Accept(a) ==
  /\ pc[a] = "validate" /\ package.card.sha = package.onnx
  /\ Finish(a, "completed")
  /\ UNCHANGED past

Reject(a) ==
  /\ pc[a] = "validate"
  /\ Finish(a, "failed")
  /\ UNCHANGED past

-----------------------------------------------------------------------------
(***************************************************************************)
(* What may go wrong.                                                      *)
(***************************************************************************)

\* _run_stage_safely: an exception becomes a failed payload, and no report is written.
\* A command that was being waited for may go on.
RaiseInStage(a) ==
  /\ pc[a] \in InStage
  /\ result' = [result EXCEPT ![a][stage[a]] = Unmade("failed")]
  /\ Goto(a, "next")
  /\ faults < work.faults /\ faults' = faults + 1
  /\ UNCHANGED <<work, files, lock, stage, cmd, before, draft, card, cancel, disturbed, settled>>

RaiseInPackage(a) ==
  /\ pc[a] \in {"load", "place", "card", "validate"}
  /\ Finish(a, "failed")
  /\ UNCHANGED past

\* The process ends; the operating system frees its lock and its command goes on.
Crash(a) ==
  /\ Active(a)
  /\ Finish(a, "crashed")
  /\ faults < work.faults /\ faults' = faults + 1
  /\ UNCHANGED <<disturbed, settled>>

Cancel(a) ==
  /\ a \in Pipelines /\ Active(a) /\ a \notin cancel
  /\ cancel' = cancel \cup {a}
  /\ UNCHANGED <<work, files, lock, caller, past>>

Done ==
  /\ \A a \in work.callers : Ended(a) /\ cmd[a] # "running"
  /\ UNCHANGED vars

-----------------------------------------------------------------------------
Start(a) == StartPipeline(a) \/ StartScript(a) \/ StartCreator(a)

Stage(a) ==
  \/ StopAtStart(a) \/ Refuse(a) \/ Begin(a)
  \/ TrainLocally(a) \/ ReuseOnnx(a) \/ SynthesizeOnnx(a)
  \/ Settle(a) \/ Check(a) \/ RejectProduct(a) \/ Copy(a)
  \/ ReadMetrics(a) \/ RejectContent(a) \/ StopBeforeReport(a) \/ Report(a)

Order(a) == StopBeforeTraining(a) \/ Advance(a) \/ Stop(a) \/ ScriptEnds(a) \/ Exported(a)

Packaging(a) ==
  \/ Load(a) \/ BuildCard(a) \/ Distrust(a)
  \/ PlaceModel(a) \/ WriteCard(a) \/ Accept(a) \/ Reject(a)

Work(a) == Stage(a) \/ Order(a) \/ Packaging(a)

Next ==
  \/ \E a \in Callers :
       \/ Start(a) \/ Work(a)
       \/ CommandWrites(a) \/ CommandEnds(a)
       \/ RaiseInStage(a) \/ RaiseInPackage(a) \/ Crash(a) \/ Cancel(a)
  \/ Done

Spec == Init /\ [][Next]_vars

-----------------------------------------------------------------------------
(***************************************************************************)
(* Properties.                                                             *)
(***************************************************************************)

TypeOK ==
  /\ work \in Workload
  /\ product \in [Stages -> File] /\ output \in File
  /\ report \in [Stages -> Result]
  /\ package \in [onnx : File, card : Card]
  /\ lock \in Pipelines \cup {None}
  /\ pc \in [Callers -> Steps] /\ stage \in [Callers -> Stages]
  /\ cmd \in [Callers -> {"none", "running", "ok", "failed", "cancelled"}]
  /\ before \in [Callers -> File] /\ draft \in [Callers -> Result]
  /\ result \in [Callers -> [Stages -> Result]] /\ card \in [Callers -> Card]
  /\ cancel \subseteq Pipelines
  /\ disturbed \in [Callers -> BOOLEAN] /\ settled \in BOOLEAN /\ faults \in 0..work.faults

\* The card of a pipeline's package names the checkpoint, the metrics and the ONNX of that
\* very run, whatever earlier runs left behind, unless someone else wrote among the files
\* while it ran: a script, a creator, or the command of a run that died.
OwnEvidence ==
  LET a == package.card.by
      own == [by |-> a, model |-> a]
  IN (Evidenced /\ a \in Pipelines /\ ~disturbed[a]) =>
       /\ package.card.checkpoint = own
       /\ package.card.metrics = own
       /\ package.card.sha = own

\* The run lock gives a pipeline the files to itself: while callers are pipelines only and
\* nothing was cut off, so that no command outlives its run, nobody writes beside one (a
\* helper that outlives the command it was started by is left to StageCommand).
LockShieldsRun ==
  (work.callers \subseteq Pipelines /\ faults = 0) => \A a \in Callers : ~disturbed[a]

\* POST /api/packages/create believes the reports on disk.  When nothing was started since
\* a pipeline's evaluation completed, the checkpoint on its card and the metrics measured
\* go back to one training run; so does the packaged ONNX, exported again or handed over,
\* but not one that is none of the experiment's: its card shows another model's evidence.
CreatedIsCoherent ==
  LET c == package.card
  IN (Evidenced /\ c.by \in Creators /\ ~disturbed[c.by]) =>
       /\ c.checkpoint.model = c.metrics.model
       /\ c.sha.model = IF HandedForeign(c.by) THEN Foreign ELSE c.metrics.model

\* While no caller is at work the export report on disk, if it says that an external
\* export completed, describes the exported ONNX on disk: neither a failure nor a
\* cancellation after the copy leaves the report of an earlier run beside a newer file.
\* Exceptions, crashes and callers that overlapped may.
ReportTellsOnnx ==
  (/\ faults = 0 /\ \A a \in Callers : ~Active(a) /\ ~disturbed[a]
   /\ report["export"].source = "external_command")
  => report["export"].file = output

\* Only a run whose three stages completed writes to the package.
PackagedAfterStages ==
  [][package' # package =>
       \E a \in Callers : /\ pc[a] \in {"place", "card"}
                          /\ a \in Pipelines => \A s \in Stages : result[a][s].status = "completed"]_vars

\* The same of every production package, however its stages are configured.  The
\* architecture's production gate (docs/架构设计.md:91) has each of the three products
\* declared and newly made; validate_package_trust asks it of the checkpoint only.
ProductionIsFresh ==
  LET a == package.card.by
  IN (config.profile = "production" /\ a \in Pipelines /\ ~disturbed[a]) =>
       \A f \in {package.card.checkpoint, package.card.metrics, package.card.sha} :
         f = [by |-> a, model |-> a]

=============================================================================
