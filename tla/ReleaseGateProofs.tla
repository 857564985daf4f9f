-------------------------- MODULE ReleaseGateProofs --------------------------
(***************************************************************************)
(* Theorems about ReleaseGate, for all models, threads and bounds.         *)
(***************************************************************************)
EXTENDS ReleaseGate, TLAPS

\* A stage beyond smoke is the result of a strict validation.
StageIsProven == \A m \in Models : registry[m] = "beyond" => m \in proven

\* The record that clears a rollout of m, and that there is one.
Clears(a, m) ==
  /\ a.model = m
  /\ a.status = "approved"
  /\ a.proven
  /\ (a.valid \/ swapped)

Cleared(m) == \E i \in 1 .. Len(approvals) : Clears(approvals[i], m)

\* Records are of proven models and, unless a file was swapped, of valid decisions.
RecordsAreSound ==
  \A i \in 1 .. Len(approvals) :
    /\ approvals[i].status = "approved" => approvals[i].proven
    /\ (approvals[i].valid \/ swapped)

\* What the request of thread q has established at each step.
ClerkSound(q) ==
  /\ clerk[q].step \notin {"idle", "decided"} => clerk[q].model \in Models
  /\ clerk[q].step = "decided" => (decision.valid \/ swapped)
  /\ clerk[q].step \in {"read", "checked"} => (clerk[q].valid \/ swapped)
  /\ clerk[q].step = "checked" /\ clerk[q].status = "approved" => clerk[q].model \in proven
  /\ clerk[q].step \in {"approved", "cleared"} /\ Gated(clerk[q].environment) =>
       Cleared(clerk[q].model)
  /\ clerk[q].step = "cleared" /\ clerk[q].environment = "production" =>
       clerk[q].target \in Models /\ registry[clerk[q].target] # "none"

\* What RolloutsAreVetted rests on.
ReleaseInv ==
  /\ ReleaseTypeOK
  /\ StageIsProven
  /\ RecordsAreSound
  /\ \A q \in Clerks : ClerkSound(q)
  /\ RolloutsAreVetted

-----------------------------------------------------------------------------

LEMMA ReleaseInitInv == ReleaseInit => ReleaseInv
<1> SUFFICES ASSUME ReleaseInit
             PROVE  ReleaseInv
  OBVIOUS
<1>1. ClerkIdle \in ClerkStates
  BY DEF ClerkIdle, ClerkStates, ClerkSteps, Stages, Statuses, Environments
<1>2. scope.models \subseteq Models
  BY ReleaseAssumption DEF ReleaseInit
<1>3. ReleaseTypeOK
  <2>1. clerk \in [Clerks -> ClerkStates] /\ decision \in [model: Models, valid: BOOLEAN]
    BY <1>1, <1>2 DEF ReleaseInit
  <2>2. approvals \in Seq(Approvals)
    BY DEF ReleaseInit
  <2>3. /\ grade \in [Models -> {"none"} \cup Stages]
        /\ registry \in [Models -> {"none"} \cup Stages]
    BY DEF ReleaseInit
  <2> QED
    BY <2>1, <2>2, <2>3 DEF ReleaseInit, ReleaseTypeOK
<1> QED
  BY <1>3 DEF ReleaseInit, ReleaseInv, StageIsProven, RecordsAreSound, ClerkSound,
              RolloutsAreVetted, ClerkIdle

\* A thread that takes its next step keeps the rest of its state.
LEMMA StepsOn ==
  ASSUME NEW c \in ClerkStates, NEW step \in ClerkSteps
  PROVE  [c EXCEPT !.step = step] \in ClerkStates
BY DEF ClerkStates

\* Every action keeps the types.
LEMMA ReleaseTypeKept ==
  ASSUME ReleaseTypeOK, [ReleaseNext]_releaseVars
  PROVE  ReleaseTypeOK'
<1> USE ReleaseAssumption DEF ReleaseTypeOK
<1>1. ClerkIdle \in ClerkStates
  BY DEF ClerkIdle, ClerkStates, ClerkSteps, Stages, Statuses, Environments
<1>2. scope.models \subseteq Models /\ scope.clerks \subseteq Clerks
  OBVIOUS
<1>3. \A q \in Clerks : clerk[q] \in ClerkStates
  OBVIOUS
<1>4. CASE UNCHANGED releaseVars
  BY <1>4 DEF releaseVars
<1>5. ASSUME NEW m \in scope.models, RewritePackage(m)
      PROVE  ReleaseTypeOK'
  <2>1. grade' \in [Models -> {"none"} \cup Stages] /\ rewrites' \in Nat
    BY <1>2, <1>5 DEF RewritePackage, Stages
  <2> QED
    BY <1>5, <2>1 DEF RewritePackage
<1>6. CASE RewriteDecision
  BY <1>2, <1>6 DEF RewriteDecision
<1>7. ASSUME NEW q \in scope.clerks, NEW m \in scope.models, NEW s \in Stages, ValidatePackage(q, m, s)
      PROVE  ReleaseTypeOK'
  <2>1. clerk' \in [Clerks -> ClerkStates]
    <3> DEFINE c == [[[clerk[q] EXCEPT !.step = "validated"] EXCEPT !.model = m] EXCEPT !.stage = s]
    <3>1. clerk' = [clerk EXCEPT ![q] = c]
      BY <1>2, <1>7 DEF ValidatePackage
    <3>2. [clerk[q] EXCEPT !.step = "validated"] \in ClerkStates
      BY <1>2, <1>3, StepsOn DEF ClerkSteps
    <3>3. [[clerk[q] EXCEPT !.step = "validated"] EXCEPT !.model = m] \in ClerkStates
      BY <1>2, <3>2 DEF ClerkStates
    <3>4. c \in ClerkStates
      BY <3>3 DEF ClerkStates
    <3> QED
      BY <3>1, <3>4
  <2> QED
    BY <1>7, <2>1 DEF ValidatePackage
<1>8. ASSUME NEW q \in scope.clerks, UpsertEntry(q)
      PROVE  ReleaseTypeOK'
  <2>1. clerk' \in [Clerks -> ClerkStates]
    BY <1>1, <1>8 DEF UpsertEntry, Rests
  <2>2. clerk[q].stage \in Stages
    BY <1>2, <1>3 DEF ClerkStates
  <2>3. /\ registry' \in [Models -> {"none"} \cup Stages]
        /\ entries' \in Nat
    <3>1. clerk[q].stage \in {"none"} \cup Stages
      BY <2>2
    <3>2. registry' \in [Models -> {"none"} \cup Stages]
      BY <1>8, <3>1, Zenon DEF UpsertEntry
    <3>3. entries' \in Nat
      BY <1>8 DEF UpsertEntry
    <3> QED
      BY <3>2, <3>3
  <2>4. clerk[q].model \in Models \cup {NoModel}
    BY <1>2, <1>3 DEF ClerkStates
  <2> QED
    BY <1>8, <2>1, <2>3, <2>4 DEF UpsertEntry
<1>9. ASSUME NEW q \in scope.clerks, NEW s \in Statuses, ValidateDecision(q, s)
      PROVE  ReleaseTypeOK'
  <2>1. clerk' \in [Clerks -> ClerkStates]
    <3> DEFINE c == [[clerk[q] EXCEPT !.step = "decided"] EXCEPT !.status = s]
    <3>1. clerk' = [clerk EXCEPT ![q] = c]
      BY <1>2, <1>9 DEF ValidateDecision
    <3>2. [clerk[q] EXCEPT !.step = "decided"] \in ClerkStates
      BY <1>2, <1>3, StepsOn DEF ClerkSteps
    <3>3. c \in ClerkStates
      BY <3>2 DEF ClerkStates
    <3> QED
      BY <3>1, <3>3
  <2> QED
    BY <1>9, <2>1 DEF ValidateDecision
<1>10. ASSUME NEW q \in scope.clerks, ReadDecision(q)
       PROVE  ReleaseTypeOK'
  <2>1. clerk' \in [Clerks -> ClerkStates]
    <3> DEFINE c == [[[clerk[q] EXCEPT !.step = "read"] EXCEPT !.model = decision.model]
                       EXCEPT !.valid = decision.valid]
    <3>1. clerk' = [clerk EXCEPT ![q] = c]
      BY <1>2, <1>10 DEF ReadDecision
    <3>2. [clerk[q] EXCEPT !.step = "read"] \in ClerkStates
      BY <1>2, <1>3, StepsOn DEF ClerkSteps
    <3>3. decision.model \in Models \cup {NoModel} /\ decision.valid \in BOOLEAN
      OBVIOUS
    <3>4. [[clerk[q] EXCEPT !.step = "read"] EXCEPT !.model = decision.model] \in ClerkStates
      BY <3>2, <3>3 DEF ClerkStates
    <3>5. c \in ClerkStates
      BY <3>3, <3>4 DEF ClerkStates
    <3> QED
      BY <3>1, <3>5
  <2> QED
    BY <1>10, <2>1 DEF ReadDecision
<1>11. ASSUME NEW q \in scope.clerks, CheckStage(q)
       PROVE  ReleaseTypeOK'
  <2>1. clerk' \in [Clerks -> ClerkStates]
    <3> DEFINE k == "checked"
    <3>1. k \in ClerkSteps
      BY DEF ClerkSteps
    <3>2. clerk' = [clerk EXCEPT ![q] = [clerk[q] EXCEPT !.step = k]]
      BY <1>11 DEF CheckStage, Turns
    <3> HIDE DEF k
    <3> QED
      BY <1>2, <1>3, <3>1, <3>2, StepsOn
  <2> QED
    BY <1>11, <2>1 DEF CheckStage
<1>12. ASSUME NEW q \in scope.clerks, CheckModel(q)
       PROVE  ReleaseTypeOK'
  <2>1. clerk' \in [Clerks -> ClerkStates]
    <3> DEFINE k == "registered"
    <3>1. k \in ClerkSteps
      BY DEF ClerkSteps
    <3>2. clerk' = [clerk EXCEPT ![q] = [clerk[q] EXCEPT !.step = k]]
      BY <1>12 DEF CheckModel, Turns
    <3> HIDE DEF k
    <3> QED
      BY <1>2, <1>3, <3>1, <3>2, StepsOn
  <2> QED
    BY <1>12, <2>1 DEF CheckModel
<1>13. ASSUME NEW q \in scope.clerks, CheckApproval(q)
       PROVE  ReleaseTypeOK'
  <2>1. clerk' \in [Clerks -> ClerkStates]
    <3> DEFINE k == IF clerk[q].environment = "production" THEN "approved" ELSE "cleared"
    <3>1. k \in ClerkSteps
      BY DEF ClerkSteps
    <3>2. clerk' = [clerk EXCEPT ![q] = [clerk[q] EXCEPT !.step = k]]
      BY <1>13 DEF CheckApproval, Turns
    <3> HIDE DEF k
    <3> QED
      BY <1>2, <1>3, <3>1, <3>2, StepsOn
  <2> QED
    BY <1>13, <2>1 DEF CheckApproval
<1>14. ASSUME NEW q \in scope.clerks, CheckTarget(q)
       PROVE  ReleaseTypeOK'
  <2>1. clerk' \in [Clerks -> ClerkStates]
    <3> DEFINE k == "cleared"
    <3>1. k \in ClerkSteps
      BY DEF ClerkSteps
    <3>2. clerk' = [clerk EXCEPT ![q] = [clerk[q] EXCEPT !.step = k]]
      BY <1>14 DEF CheckTarget, Turns
    <3> HIDE DEF k
    <3> QED
      BY <1>2, <1>3, <3>1, <3>2, StepsOn
  <2> QED
    BY <1>14, <2>1 DEF CheckTarget
<1>15. ASSUME NEW q \in scope.clerks, InsertApproval(q)
       PROVE  ReleaseTypeOK'
  <2>1. clerk' \in [Clerks -> ClerkStates]
    BY <1>1, <1>15 DEF InsertApproval, Rests
  <2>2. [model |-> clerk[q].model, status |-> clerk[q].status, valid |-> clerk[q].valid,
         proven |-> clerk[q].model \in proven] \in Approvals
    BY <1>2, <1>3 DEF ClerkStates, Approvals
  <2>3. approvals' \in Seq(Approvals)
    BY <1>15, <2>2 DEF InsertApproval
  <2> QED
    BY <1>15, <2>1, <2>3 DEF InsertApproval
<1>16. ASSUME NEW q \in scope.clerks, NEW m \in scope.models, NEW e \in Environments,
              NEW t \in scope.models \cup {NoModel}, AskRollout(q, m, e, t)
       PROVE  ReleaseTypeOK'
  <2>1. clerk' \in [Clerks -> ClerkStates]
    <3> DEFINE k == IF Gated(e) THEN "asked" ELSE "cleared"
               c == [[[[clerk[q] EXCEPT !.step = k] EXCEPT !.model = m]
                       EXCEPT !.environment = e] EXCEPT !.target = t]
    <3>1. clerk' = [clerk EXCEPT ![q] = c]
      BY <1>2, <1>16 DEF AskRollout
    <3>2. k \in ClerkSteps
      BY DEF ClerkSteps
    <3>3. [clerk[q] EXCEPT !.step = k] \in ClerkStates
      <4> HIDE DEF k
      <4> QED
        BY <1>2, <1>3, <3>2, StepsOn
    <3> HIDE DEF k
    <3>4. [[clerk[q] EXCEPT !.step = k] EXCEPT !.model = m] \in ClerkStates
      BY <1>2, <3>3 DEF ClerkStates
    <3>5. [[[clerk[q] EXCEPT !.step = k] EXCEPT !.model = m] EXCEPT !.environment = e] \in ClerkStates
      BY <3>4 DEF ClerkStates
    <3>6. c \in ClerkStates
      BY <1>2, <3>5 DEF ClerkStates
    <3> QED
      BY <3>1, <3>6
  <2> QED
    BY <1>16, <2>1 DEF AskRollout
<1>17. ASSUME NEW q \in scope.clerks, InsertRollout(q)
       PROVE  ReleaseTypeOK'
  <2>1. clerk' \in [Clerks -> ClerkStates]
    BY <1>1, <1>17 DEF InsertRollout, Rests
  <2>2. [model |-> clerk[q].model, environment |-> clerk[q].environment, target |-> clerk[q].target]
          \in [model: Models \cup {NoModel}, environment: Environments, target: Models \cup {NoModel}]
    BY <1>2, <1>3 DEF ClerkStates
  <2> QED
    BY <1>17, <2>1, <2>2 DEF InsertRollout
<1>18. ASSUME NEW q \in scope.clerks, RefuseRelease(q)
       PROVE  ReleaseTypeOK'
  <2>1. clerk' \in [Clerks -> ClerkStates]
    BY <1>1, <1>18 DEF RefuseRelease, Rests
  <2> QED
    BY <1>18, <2>1 DEF RefuseRelease
<1> QED
  BY <1>4, <1>5, <1>6, <1>7, <1>8, <1>9, <1>10, <1>11, <1>12, <1>13, <1>14, <1>15, <1>16, <1>17, <1>18 DEF ReleaseNext

-----------------------------------------------------------------------------
(* What no step takes back. *)

Grows ==
  /\ swapped => swapped'
  /\ proven \subseteq proven'
  /\ Len(approvals) <= Len(approvals')
  /\ \A i \in 1 .. Len(approvals) : approvals'[i] = approvals[i]
  /\ \A m \in Models : registry[m] # "none" => registry'[m] # "none"

\* No step takes an approval, a proof or a registration back.
LEMMA NothingTakenBack ==
  ASSUME ReleaseTypeOK, [ReleaseNext]_releaseVars
  PROVE  Grows
<1> USE ReleaseAssumption
<1>1. CASE UNCHANGED <<registry, approvals, proven>> /\ (swapped => swapped')
  BY <1>1 DEF Grows, ReleaseTypeOK
<1>2. ASSUME NEW q \in Clerks, UpsertEntry(q)
      PROVE  Grows
  <2>1. clerk[q].stage \in Stages
    BY DEF ReleaseTypeOK, ClerkStates
  <2>2. \A m \in Models : registry[m] # "none" => registry'[m] # "none"
    BY <1>2, <2>1 DEF UpsertEntry, ReleaseTypeOK, Stages
  <2> QED
    BY <1>2, <2>2 DEF UpsertEntry, Grows, ReleaseTypeOK
<1>3. ASSUME NEW q \in Clerks, InsertApproval(q)
      PROVE  Grows
  BY <1>3 DEF InsertApproval, Grows, ReleaseTypeOK
<1>4. CASE RewriteDecision
  BY <1>4, <1>1 DEF RewriteDecision
<1>5. scope.clerks \subseteq Clerks
  BY DEF ReleaseTypeOK
<1>6. UNCHANGED releaseVars => Grows
  BY <1>1 DEF releaseVars
<1>7. ASSUME NEW m, RewritePackage(m)
      PROVE  Grows
  BY <1>7, <1>1 DEF RewritePackage
<1>8. ASSUME NEW q, NEW m, NEW s, ValidatePackage(q, m, s)
      PROVE  Grows
  BY <1>8, <1>1 DEF ValidatePackage
<1>9. ASSUME NEW q, NEW s, ValidateDecision(q, s)
      PROVE  Grows
  BY <1>9, <1>1 DEF ValidateDecision
<1>10. ASSUME NEW q, ReadDecision(q)
      PROVE  Grows
  BY <1>10, <1>1 DEF ReadDecision
<1>11. ASSUME NEW q, CheckStage(q)
      PROVE  Grows
  BY <1>11, <1>1 DEF CheckStage
<1>12. ASSUME NEW q, NEW m, NEW e, NEW t, AskRollout(q, m, e, t)
      PROVE  Grows
  BY <1>12, <1>1 DEF AskRollout
<1>13. ASSUME NEW q, CheckModel(q)
      PROVE  Grows
  BY <1>13, <1>1 DEF CheckModel
<1>14. ASSUME NEW q, CheckApproval(q)
      PROVE  Grows
  BY <1>14, <1>1 DEF CheckApproval
<1>15. ASSUME NEW q, CheckTarget(q)
      PROVE  Grows
  BY <1>15, <1>1 DEF CheckTarget
<1>16. ASSUME NEW q, InsertRollout(q)
      PROVE  Grows
  BY <1>16, <1>1 DEF InsertRollout
<1>17. ASSUME NEW q, RefuseRelease(q)
      PROVE  Grows
  BY <1>17, <1>1 DEF RefuseRelease
<1> QED
  BY <1>2, <1>3, <1>4, <1>5, <1>6, <1>7, <1>8, <1>9, <1>10, <1>11, <1>12, <1>13, <1>14, <1>15, <1>16, <1>17 DEF ReleaseNext

\* A thread that does not move stays sound while the others go on.
LEMMA RestingStaysSound ==
  ASSUME ReleaseInv, ReleaseTypeOK', Grows, NEW q \in Clerks, clerk'[q] = clerk[q],
         clerk[q].step = "decided" => (decision' = decision \/ swapped')
  PROVE  ClerkSound(q)'
<1>1. ClerkSound(q)
  BY DEF ReleaseInv
<1>2. ASSUME NEW m, Cleared(m)
      PROVE  Cleared(m)'
  <2>1. PICK i \in 1 .. Len(approvals) : Clears(approvals[i], m)
    BY <1>2 DEF Cleared
  <2>2. Len(approvals) \in Nat /\ Len(approvals') \in Nat
    BY DEF ReleaseInv, ReleaseTypeOK
  <2>3. i \in 1 .. Len(approvals') /\ Clears(approvals[i], m)'
    BY <2>1, <2>2 DEF Clears, Grows
  <2> QED
    BY <2>3 DEF Cleared
<1> QED
  BY <1>1, <1>2 DEF ClerkSound, Grows

\* Every step keeps the invariant.
LEMMA ReleaseStep ==
  ASSUME ReleaseInv, [ReleaseNext]_releaseVars
  PROVE  ReleaseInv'
<1> USE ReleaseAssumption
<1>1. ReleaseTypeOK' /\ Grows
  BY ReleaseTypeKept, NothingTakenBack DEF ReleaseInv
<1>2. scope.models \subseteq Models /\ scope.clerks \subseteq Clerks
  BY DEF ReleaseInv, ReleaseTypeOK
<1>3. \A q \in Clerks : ClerkSound(q) /\ clerk[q] \in ClerkStates
  BY DEF ReleaseInv, ReleaseTypeOK
<1>4. ASSUME rollouts' = rollouts
      PROVE  RolloutsAreVetted'
  <2>1. ASSUME NEW r \in rollouts, Gated(r.environment)
        PROVE  (\E i \in DOMAIN approvals : Clears(approvals[i], r.model))'
    <3>1. PICK i \in DOMAIN approvals : Clears(approvals[i], r.model)
      BY <2>1 DEF ReleaseInv, RolloutsAreVetted, Clears
    <3>2. i \in DOMAIN approvals'
      BY <1>1, <3>1 DEF ReleaseInv, ReleaseTypeOK, Grows
    <3>3. i \in 1 .. Len(approvals)
      BY <3>1 DEF ReleaseInv, ReleaseTypeOK
    <3>4. Clears(approvals[i], r.model)'
      BY <1>1, <3>1, <3>3 DEF Grows, Clears
    <3> QED
      BY <3>2, <3>4
  <2> QED
    BY <1>1, <1>4, <2>1 DEF ReleaseInv, RolloutsAreVetted, Grows, Clears
<1>5. ASSUME approvals' = approvals
      PROVE  RecordsAreSound'
  BY <1>1, <1>5 DEF ReleaseInv, RecordsAreSound, Grows
<1>6. ASSUME registry' = registry
      PROVE  StageIsProven'
  BY <1>1, <1>6 DEF ReleaseInv, StageIsProven, Grows
<1>7. ASSUME NEW q \in Clerks, decision' = decision, ClerkSound(q)',
             \A p \in Clerks \ {q} : clerk'[p] = clerk[p]
      PROVE  \A p \in Clerks : ClerkSound(p)'
  BY <1>1, <1>7, RestingStaysSound
<1>8. ASSUME NEW q \in Clerks, Rests(q)
      PROVE  ClerkSound(q)' /\ \A p \in Clerks \ {q} : clerk'[p] = clerk[p]
  <2>1. clerk'[q] = ClerkIdle
    BY <1>8 DEF Rests, ReleaseInv, ReleaseTypeOK
  <2> QED
    BY <1>8, <2>1 DEF Rests, ReleaseInv, ReleaseTypeOK, ClerkSound, ClerkIdle
<1>9. CASE UNCHANGED releaseVars
  BY <1>9, <1>1, <1>4, <1>5, <1>6, RestingStaysSound DEF ReleaseInv, releaseVars
<1>10. ASSUME NEW m, RewritePackage(m)
       PROVE  ReleaseInv'
  BY <1>10, <1>1, <1>4, <1>5, <1>6, RestingStaysSound DEF ReleaseInv, RewritePackage
<1>11. CASE RewriteDecision
  <2>1. \A q \in Clerks : ClerkSound(q)'
    BY <1>11, <1>1, RestingStaysSound DEF RewriteDecision
  <2> QED
    BY <1>11, <1>1, <1>4, <1>5, <1>6, <2>1 DEF ReleaseInv, RewriteDecision
<1>12. ASSUME NEW q \in Clerks, NEW m \in Models, NEW s, ValidatePackage(q, m, s)
       PROVE  ReleaseInv'
  <2>1. \A p \in Clerks \ {q} : clerk'[p] = clerk[p]
    BY <1>12 DEF ValidatePackage, ReleaseInv, ReleaseTypeOK
  <2>2. ClerkSound(q)'
    BY <1>12, <1>3 DEF ValidatePackage, ReleaseInv, ReleaseTypeOK, ClerkSound
  <2> QED
    BY <1>12, <1>1, <1>4, <1>5, <1>6, <1>7, <2>1, <2>2 DEF ReleaseInv, ValidatePackage
<1>13. ASSUME NEW q \in Clerks, NEW s, ValidateDecision(q, s)
       PROVE  ReleaseInv'
  <2>1. \A p \in Clerks \ {q} : clerk'[p] = clerk[p]
    BY <1>13 DEF ValidateDecision, ReleaseInv, ReleaseTypeOK
  <2>2. ClerkSound(q)'
    BY <1>13, <1>3 DEF ValidateDecision, ReleaseInv, ReleaseTypeOK, ClerkSound
  <2> QED
    BY <1>13, <1>1, <1>4, <1>5, <1>6, <1>7, <2>1, <2>2 DEF ReleaseInv, ValidateDecision
<1>14. ASSUME NEW q \in Clerks, ReadDecision(q)
       PROVE  ReleaseInv'
  <2>1. \A p \in Clerks \ {q} : clerk'[p] = clerk[p]
    BY <1>14 DEF ReadDecision, ReleaseInv, ReleaseTypeOK
  <2>2. ClerkSound(q)'
    BY <1>14, <1>3 DEF ReadDecision, ReleaseInv, ReleaseTypeOK, ClerkSound
  <2> QED
    BY <1>14, <1>1, <1>4, <1>5, <1>6, <1>7, <2>1, <2>2 DEF ReleaseInv, ReadDecision
<1>15. ASSUME NEW q \in Clerks, CheckStage(q)
       PROVE  ReleaseInv'
  <2>1. \A p \in Clerks \ {q} : clerk'[p] = clerk[p]
    BY <1>15 DEF CheckStage, Turns, ReleaseInv, ReleaseTypeOK
  <2>3. clerk[q].status = "approved" => clerk[q].model \in proven
    BY <1>3, <1>15 DEF CheckStage, ClerkSound, ReleaseInv, ReleaseTypeOK, StageIsProven, Stages
  <2>2. ClerkSound(q)'
    BY <1>15, <1>3, <2>3 DEF CheckStage, Turns, ReleaseInv, ReleaseTypeOK, ClerkSound, Stages
  <2> QED
    BY <1>15, <1>1, <1>4, <1>5, <1>6, <1>7, <2>1, <2>2 DEF ReleaseInv, CheckStage
<1>16. ASSUME NEW q \in Clerks, NEW m \in Models, NEW e, NEW t, AskRollout(q, m, e, t)
       PROVE  ReleaseInv'
  <2>1. \A p \in Clerks \ {q} : clerk'[p] = clerk[p]
    BY <1>16 DEF AskRollout, ReleaseInv, ReleaseTypeOK
  <2>2. ClerkSound(q)'
    BY <1>16, <1>3 DEF AskRollout, ReleaseInv, ReleaseTypeOK, ClerkSound, Gated
  <2> QED
    BY <1>16, <1>1, <1>4, <1>5, <1>6, <1>7, <2>1, <2>2 DEF ReleaseInv, AskRollout
<1>17. ASSUME NEW q \in Clerks, CheckModel(q)
       PROVE  ReleaseInv'
  <2>1. \A p \in Clerks \ {q} : clerk'[p] = clerk[p]
    BY <1>17 DEF CheckModel, Turns, ReleaseInv, ReleaseTypeOK
  <2>2. ClerkSound(q)'
    BY <1>17, <1>3 DEF CheckModel, Turns, ReleaseInv, ReleaseTypeOK, ClerkSound
  <2> QED
    BY <1>17, <1>1, <1>4, <1>5, <1>6, <1>7, <2>1, <2>2 DEF ReleaseInv, CheckModel
<1>18. ASSUME NEW q \in Clerks, CheckApproval(q)
       PROVE  ReleaseInv'
  <2>1. \A p \in Clerks \ {q} : clerk'[p] = clerk[p]
    BY <1>18 DEF CheckApproval, Turns, ReleaseInv, ReleaseTypeOK
  <2>3. Cleared(clerk[q].model)
    BY <1>18 DEF CheckApproval, Newest, Cleared, Clears, ReleaseInv, ReleaseTypeOK, RecordsAreSound
  <2>2. ClerkSound(q)'
    BY <1>18, <1>3, <2>3 DEF CheckApproval, Turns, ReleaseInv, ReleaseTypeOK, ClerkSound, Cleared, Clears
  <2> QED
    BY <1>18, <1>1, <1>4, <1>5, <1>6, <1>7, <2>1, <2>2 DEF ReleaseInv, CheckApproval
<1>19. ASSUME NEW q \in Clerks, CheckTarget(q)
       PROVE  ReleaseInv'
  <2>1. \A p \in Clerks \ {q} : clerk'[p] = clerk[p]
    BY <1>19 DEF CheckTarget, Turns, ReleaseInv, ReleaseTypeOK
  <2>3. clerk[q].target \in Models
    BY <1>3, <1>19 DEF CheckTarget, ClerkStates
  <2>2. ClerkSound(q)'
    <3>1. clerk'[q] = [clerk[q] EXCEPT !.step = "cleared"]
      BY <1>19 DEF CheckTarget, Turns, ReleaseInv, ReleaseTypeOK
    <3>2. clerk[q].model \in Models /\ (Gated(clerk[q].environment) => Cleared(clerk[q].model))
      BY <1>3, <1>19 DEF CheckTarget, ClerkSound
    <3>3. Cleared(clerk[q].model)' <=> Cleared(clerk'[q].model)
      BY <1>19 DEF CheckTarget, Cleared, Clears
    <3>4. /\ clerk'[q].step = "cleared"
          /\ clerk'[q].model = clerk[q].model
          /\ clerk'[q].environment = clerk[q].environment
          /\ clerk'[q].target = clerk[q].target
      BY <1>3, <3>1 DEF ClerkStates
    <3> QED
      BY <1>19, <2>3, <3>2, <3>3, <3>4 DEF CheckTarget, ClerkSound, Cleared, Clears
  <2> QED
    BY <1>19, <1>1, <1>4, <1>5, <1>6, <1>7, <2>1, <2>2 DEF ReleaseInv, CheckTarget
<1>20. ASSUME NEW q \in Clerks, UpsertEntry(q)
       PROVE  ReleaseInv'
  <2>1. \A p \in Clerks : ClerkSound(p)'
    BY <1>20, <1>7, <1>8 DEF UpsertEntry
  <2>2. clerk[q].step = "validated" /\ clerk[q].model \in Models /\ clerk[q].stage \in Stages
    BY <1>3, <1>20 DEF UpsertEntry, ClerkSound, ClerkStates
  <2>3. StageIsProven'
    BY <1>20, <2>2 DEF UpsertEntry, StageIsProven, Stages, ReleaseInv, ReleaseTypeOK
  <2> QED
    BY <1>20, <1>1, <1>4, <1>5, <2>3, <2>1 DEF ReleaseInv, UpsertEntry
<1>21. ASSUME NEW q \in Clerks, InsertApproval(q)
       PROVE  ReleaseInv'
  <2>1. \A p \in Clerks : ClerkSound(p)'
    BY <1>21, <1>7, <1>8 DEF InsertApproval
  <2>2. RecordsAreSound'
    <3> DEFINE a == [model |-> clerk[q].model, status |-> clerk[q].status,
                     valid |-> clerk[q].valid, proven |-> clerk[q].model \in proven]
    <3>1. approvals' = Append(approvals, a) /\ swapped' = swapped
      BY <1>21 DEF InsertApproval
    <3>2. (a.status = "approved" => a.proven) /\ (a.valid \/ swapped)
      BY <1>3, <1>21 DEF InsertApproval, ClerkSound
    <3>3. approvals \in Seq(Approvals)
      BY DEF ReleaseInv, ReleaseTypeOK
    <3>4. \A i \in 1 .. Len(approvals') : approvals'[i] = IF i <= Len(approvals) THEN approvals[i] ELSE a
      BY <3>1, <3>3
    <3>5. ASSUME NEW i \in 1 .. Len(approvals')
          PROVE  (approvals'[i].status = "approved" => approvals'[i].proven)
                 /\ (approvals'[i].valid \/ swapped)
      <4> HIDE DEF a
      <4>1. CASE i <= Len(approvals)
        BY <3>3, <3>4, <3>5, <4>1 DEF ReleaseInv, RecordsAreSound
      <4>2. CASE ~(i <= Len(approvals))
        BY <3>2, <3>4, <3>5, <4>2
      <4> QED
        BY <4>1, <4>2
    <3> QED
      BY <3>1, <3>5 DEF RecordsAreSound
  <2> QED
    BY <1>21, <1>1, <1>4, <1>6, <2>2, <2>1 DEF ReleaseInv, InsertApproval
<1>22. ASSUME NEW q \in Clerks, InsertRollout(q)
       PROVE  ReleaseInv'
  <2>1. \A p \in Clerks : ClerkSound(p)'
    BY <1>22, <1>7, <1>8 DEF InsertRollout
  <2>2. RolloutsAreVetted'
    BY <1>3, <1>22 DEF InsertRollout, RolloutsAreVetted, ClerkSound, Cleared, Clears, ReleaseInv,
                       ReleaseTypeOK, Gated
  <2> QED
    BY <1>22, <1>1, <1>5, <1>6, <2>2, <2>1 DEF ReleaseInv, InsertRollout
<1>23. ASSUME NEW q \in Clerks, RefuseRelease(q)
       PROVE  ReleaseInv'
  <2>1. \A p \in Clerks : ClerkSound(p)'
    BY <1>23, <1>7, <1>8 DEF RefuseRelease
  <2> QED
    BY <1>23, <1>1, <1>4, <1>5, <1>6, <2>1 DEF ReleaseInv, RefuseRelease
<1> QED
  BY <1>2, <1>9, <1>10, <1>11, <1>12, <1>13, <1>14, <1>15, <1>16, <1>17, <1>18, <1>19, <1>20, <1>21,
     <1>22, <1>23
     DEF ReleaseNext

\* The types of every reachable state.
THEOREM ReleaseTypes == ReleaseSpec => []ReleaseTypeOK
<1>1. ReleaseInv /\ [ReleaseNext]_releaseVars => ReleaseInv'
  BY ReleaseStep
<1> QED
  BY <1>1, ReleaseInitInv, PTL DEF ReleaseSpec, ReleaseInv

\* No rollout reaches staging or production without its validation, its approval after
\* that, and for production its way back, however requests and file changes interleave.
THEOREM VettedRollouts == ReleaseSpec => []RolloutsAreVetted
<1>1. ReleaseInv /\ [ReleaseNext]_releaseVars => ReleaseInv'
  BY ReleaseStep
<1> QED
  BY <1>1, ReleaseInitInv, PTL DEF ReleaseSpec, ReleaseInv

=============================================================================
