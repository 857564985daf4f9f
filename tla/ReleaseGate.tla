----------------------------- MODULE ReleaseGate -----------------------------
(***************************************************************************)
(* The way of a model to its rollout: the registry entry after a           *)
(* validation of its package, approval records, rollout records (api.py,   *)
(* contracts.py, storage.py).  A request reads files and rows one by one   *)
(* and writes its row at the end; packages, decision files and rows change *)
(* meanwhile.  Rows of approvals and rollouts are only ever added.         *)
(***************************************************************************)
EXTENDS Naturals, Sequences, FiniteSets

CONSTANTS
  Models,       \* ids of models
  Clerks,       \* threads that serve the requests
  Window,       \* list_release_approvals(limit=500)
  Scopes,       \* bounds: the models and clerks there are, how many rows of each table are
                \* written, how often packages and decision files change
  NoModel

ASSUME ReleaseAssumption ==
  /\ NoModel \notin Models
  /\ Window \in Nat
  /\ Scopes \subseteq [models: SUBSET Models, clerks: SUBSET Clerks, approvals: Nat,
                       rewrites: Nat, entries: Nat, rollouts: Nat]

VARIABLES
  scope,     \* the bounds of this behaviour
  grade,     \* each model's package: what its validation would say now
  registry,  \* model_registry: each model's stage; a stage beyond "smoke" stands for all
  decision,  \* the decision file: the model it names, whether it is valid
  approvals, \* release_approvals by id
  rollouts,  \* deployment_rollouts
  clerk,     \* each thread: its request, its step and what it has read
  proven,    \* history: models registered after a validation with strict_provenance
  swapped,   \* history: a decision file changed under the request that was recording it
  rewrites, entries

releaseVars == <<scope, grade, registry, decision, approvals, rollouts, clerk, proven, swapped,
                 rewrites, entries>>

Stages       == {"smoke", "beyond"}
Statuses     == {"pending", "approved", "rejected"}
Environments == {"development", "staging", "production"}

ClerkIdle == [step |-> "idle", model |-> NoModel, stage |-> "smoke", status |-> "pending",
              valid |-> FALSE, environment |-> "development", target |-> NoModel]

ReleaseInit ==
  /\ scope    \in Scopes
  /\ grade    \in [Models -> {"none"} \cup Stages]
  /\ \A m \in Models \ scope.models : grade[m] = "none"
  /\ registry  = [m \in Models |-> "none"]
  /\ decision \in [model: scope.models, valid: BOOLEAN]
  /\ approvals = <<>>
  /\ rollouts  = {}
  /\ clerk     = [q \in Clerks |-> ClerkIdle]
  /\ proven    = {}
  /\ swapped   = FALSE
  /\ rewrites  = 0
  /\ entries   = 0

Turns(q, step)    == clerk' = [clerk EXCEPT ![q].step = step]
Rests(q)          == clerk' = [clerk EXCEPT ![q] = ClerkIdle]

\* create_model_package, and whoever edits files of the workspace.
RewritePackage(m) ==
  /\ rewrites < scope.rewrites
  /\ \E g \in {"none", "smoke", "beyond"} \ {grade[m]} : grade' = [grade EXCEPT ![m] = g]
  /\ rewrites' = rewrites + 1
  /\ UNCHANGED <<scope, registry, decision, approvals, rollouts, clerk, proven, swapped, entries>>

RewriteDecision ==
  /\ rewrites < scope.rewrites
  /\ decision' \in [model: scope.models, valid: BOOLEAN] \ {decision}
  /\ swapped' = (swapped \/ \E q \in Clerks : clerk[q].step = "decided")
  /\ rewrites' = rewrites + 1
  /\ UNCHANGED <<scope, grade, registry, approvals, rollouts, clerk, proven, entries>>

-----------------------------------------------------------------------------
(* register_model *)

\* strict_provenance unless the stage is "smoke".
ValidatePackage(q, m, stage) ==
  /\ clerk[q].step = "idle"
  /\ grade[m] # "none"
  /\ stage # "smoke" => grade[m] = "beyond"
  /\ clerk' = [clerk EXCEPT ![q].step = "validated", ![q].model = m, ![q].stage = stage]
  /\ UNCHANGED <<scope, grade, registry, decision, approvals, rollouts, proven, swapped, rewrites, entries>>

UpsertEntry(q) ==
  /\ clerk[q].step = "validated"
  /\ entries < scope.entries
  /\ entries' = entries + 1
  /\ registry' = [registry EXCEPT ![clerk[q].model] = clerk[q].stage]
  /\ proven' = IF clerk[q].stage = "smoke" THEN proven ELSE proven \cup {clerk[q].model}
  /\ Rests(q)
  /\ UNCHANGED <<scope, grade, decision, approvals, rollouts, swapped, rewrites>>

-----------------------------------------------------------------------------
(* record_release_approval reads the decision file twice. *)

ValidateDecision(q, status) ==
  /\ clerk[q].step = "idle"
  /\ Len(approvals) < scope.approvals
  /\ decision.valid
  /\ clerk' = [clerk EXCEPT ![q].step = "decided", ![q].status = status]
  /\ UNCHANGED <<scope, grade, registry, decision, approvals, rollouts, proven, swapped, rewrites, entries>>

ReadDecision(q) ==
  /\ clerk[q].step = "decided"
  /\ clerk' = [clerk EXCEPT ![q].step = "read", ![q].model = decision.model, ![q].valid = decision.valid]
  /\ UNCHANGED <<scope, grade, registry, decision, approvals, rollouts, proven, swapped, rewrites, entries>>

\* Mutant: a model of the stage "smoke" may be approved.
CheckRegistered(q) ==
  /\ clerk[q].step = "read"
  /\ registry[clerk[q].model] # "none"
  /\ Turns(q, "checked")
  /\ UNCHANGED <<scope, grade, registry, decision, approvals, rollouts, proven, swapped, rewrites, entries>>

CheckStage(q) ==
  /\ clerk[q].step = "read"
  /\ registry[clerk[q].model] # "none"
  /\ clerk[q].status = "approved" => registry[clerk[q].model] # "smoke"
  /\ Turns(q, "checked")
  /\ UNCHANGED <<scope, grade, registry, decision, approvals, rollouts, proven, swapped, rewrites, entries>>

InsertApproval(q) ==
  /\ clerk[q].step = "checked"
  /\ approvals' = Append(approvals, [model |-> clerk[q].model, status |-> clerk[q].status,
                                     valid |-> clerk[q].valid, proven |-> clerk[q].model \in proven])
  /\ Rests(q)
  /\ UNCHANGED <<scope, grade, registry, decision, rollouts, proven, swapped, rewrites, entries>>

-----------------------------------------------------------------------------
(* create_deployment_rollout: nothing is asked of a development environment. *)

Gated(environment) == environment \in {"staging", "production"}

AskRollout(q, m, environment, target) ==
  /\ clerk[q].step = "idle"
  /\ Cardinality(rollouts) < scope.rollouts
  /\ clerk' = [clerk EXCEPT ![q].step = IF Gated(environment) THEN "asked" ELSE "cleared",
                            ![q].model = m, ![q].environment = environment, ![q].target = target]
  /\ UNCHANGED <<scope, grade, registry, decision, approvals, rollouts, proven, swapped, rewrites, entries>>

CheckModel(q) ==
  /\ clerk[q].step = "asked"
  /\ registry[clerk[q].model] \notin {"none", "smoke"}
  /\ Turns(q, "registered")
  /\ UNCHANGED <<scope, grade, registry, decision, approvals, rollouts, proven, swapped, rewrites, entries>>

\* The newest records; one approved is enough, whatever came after it.
Newest == {approvals[i] : i \in {k \in DOMAIN approvals : k + Window > Len(approvals)}}

CheckApproval(q) ==
  /\ clerk[q].step = "registered"
  /\ \E a \in Newest : a.model = clerk[q].model /\ a.status = "approved"
  /\ Turns(q, IF clerk[q].environment = "production" THEN "approved" ELSE "cleared")
  /\ UNCHANGED <<scope, grade, registry, decision, approvals, rollouts, proven, swapped, rewrites, entries>>

CheckTarget(q) ==
  /\ clerk[q].step = "approved"
  /\ clerk[q].target # NoModel
  /\ registry[clerk[q].target] # "none"
  /\ Turns(q, "cleared")
  /\ UNCHANGED <<scope, grade, registry, decision, approvals, rollouts, proven, swapped, rewrites, entries>>

InsertRollout(q) ==
  /\ clerk[q].step = "cleared"
  /\ rollouts' = rollouts \cup {[model |-> clerk[q].model, environment |-> clerk[q].environment,
                                 target |-> clerk[q].target]}
  /\ Rests(q)
  /\ UNCHANGED <<scope, grade, registry, decision, approvals, proven, swapped, rewrites, entries>>

\* A check answers 400, or the thread fails.
RefuseRelease(q) ==
  /\ clerk[q].step # "idle"
  /\ Rests(q)
  /\ UNCHANGED <<scope, grade, registry, decision, approvals, rollouts, proven, swapped, rewrites, entries>>

ReleaseNext ==
  \/ \E m \in scope.models : RewritePackage(m)
  \/ RewriteDecision
  \/ \E q \in scope.clerks :
       \/ \E m \in scope.models, s \in Stages : ValidatePackage(q, m, s)
       \/ UpsertEntry(q)
       \/ \E s \in Statuses : ValidateDecision(q, s)
       \/ ReadDecision(q)
       \/ CheckStage(q)
       \/ InsertApproval(q)
       \/ \E m \in scope.models, e \in Environments, t \in scope.models \cup {NoModel} :
             AskRollout(q, m, e, t)
       \/ CheckModel(q)
       \/ CheckApproval(q)
       \/ CheckTarget(q)
       \/ InsertRollout(q)
       \/ RefuseRelease(q)

ReleaseSpec == ReleaseInit /\ [][ReleaseNext]_releaseVars

-----------------------------------------------------------------------------

ClerkSteps == {"idle", "validated", "decided", "read", "checked", "asked", "registered",
               "approved", "cleared"}
ClerkStates == [step: ClerkSteps, model: Models \cup {NoModel}, stage: Stages, status: Statuses,
                valid: BOOLEAN, environment: Environments, target: Models \cup {NoModel}]
Approvals == [model: Models \cup {NoModel}, status: Statuses, valid: BOOLEAN, proven: BOOLEAN]

\* Every variable keeps its type.
ReleaseTypeOK ==
  /\ scope     \in Scopes
  /\ grade     \in [Models -> {"none"} \cup Stages]
  /\ registry  \in [Models -> {"none"} \cup Stages]
  /\ decision  \in [model: Models, valid: BOOLEAN]
  /\ approvals \in Seq(Approvals)
  /\ rollouts  \subseteq [model: Models \cup {NoModel}, environment: Environments,
                          target: Models \cup {NoModel}]
  /\ clerk     \in [Clerks -> ClerkStates]
  /\ proven    \subseteq Models \cup {NoModel}
  /\ swapped   \in BOOLEAN
  /\ rewrites  \in Nat
  /\ entries   \in Nat

\* Whatever packages, stages and decision files become in between, a model goes to
\* staging or production only after a package of it passed the validation with
\* provenance, an approval was recorded after that, on a valid decision unless its file
\* was swapped, and for production there is a registered model to go back to.
RolloutsAreVetted ==
  \A r \in rollouts : Gated(r.environment) =>
    /\ \E i \in DOMAIN approvals :
         /\ approvals[i].model = r.model
         /\ approvals[i].status = "approved"
         /\ approvals[i].proven
         /\ approvals[i].valid \/ swapped
    /\ r.environment = "production" => r.target \in Models /\ registry[r.target] # "none"
=============================================================================
