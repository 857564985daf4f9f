--------------------------- MODULE ServicesProofs ---------------------------
(***************************************************************************)
(* Theorems about PackageStore, JobLogFeed and the services together, for  *)
(* all values of the constants.                                            *)
(*                                                                         *)
(*   PackageInv  a creation that nobody disturbs knows what it has put in  *)
(*               place; labels and card follow one another; the caches     *)
(*               are true; what a calm validation has read still lies there*)
(*   LogInv      one thread inserts at a time; its rows are the last ones; *)
(*               buffer and batches continue the streams                   *)
(*   ClientInv   the client moves forward, and has every stored row from   *)
(*               the first one it got to the id it has come to             *)
(*   OnceInv     each line is in one row that was not undone, on any store *)
(***************************************************************************)
EXTENDS MCServices, SessionsProofs, DatasetIntakeProofs, ReleaseGateProofs, SequenceTheorems, TLAPS

-----------------------------------------------------------------------------
(* PackageStore *)

\* Steps of a creation: the model is in place, its digest is known, so are the labels.
Copied   == {"copied", "stated", "hashed", "labelled", "carded"}
Hashed   == {"hashed", "labelled", "carded"}
Labelled == {"labelled", "carded"}

\* Steps of a validation: what it has read.
Digested  == {"digested", "carded", "labelled", "passed", "valid", "registered"}
CardRead  == {"carded", "labelled", "passed", "valid", "registered"}
NamesRead == {"labelled", "passed", "valid", "registered"}

\* What a creation has seen and put in place is there.
CreationKnows(c) ==
  /\ creation[c].step \in Copied => model # Nothing
  /\ creation[c].step = "stated" => creation[c].truth \in installed
  /\ creation[c].step \in Hashed => creation[c].digest \in Contents

\* What a validation has stat'ed was in place.
CheckKnows(v) ==
  /\ check[v].step = "found" => model # Nothing
  /\ check[v].step \in {"stated"} \cup Digested => check[v].truth \in installed

PackageTyped ==
  /\ PackageTypeOK
  /\ model \in installed \cup {Nothing}
  /\ model = Nothing => installed = {}
  /\ \A c \in Creators : CreationKnows(c)
  /\ \A v \in Checks : CheckKnows(v)

OneAtWork == ~overlapped => \A c, d \in Creators : Creating(c) /\ Creating(d) => c = d

\* What a creation that nobody disturbs has established at each step.
InOrder(c) ==
  /\ creation[c].step \in Copied   => model = Recipe[c].content
  /\ creation[c].step \in Hashed   => creation[c].digest = Recipe[c].content
  /\ creation[c].step \in Labelled => labels = c

\* A card names no digest or the one of the model it came with, unless it was handed in
\* naming another.
CardFits ==
  card.by \in Creators =>
    Misnamed(card.by) \/ card.card.digest \in {NoDigest, Recipe[card.by].content}

\* The labels are those of the card's creation, or were made for the model.
Matched ==
  \/ labels = card.by
  \/ labels \in Creators /\ Recipe[labels].content = model

\* No creation is between model and labels.
Labelling == \E c \in Creators : creation[c].step \in {"copied", "stated", "hashed"}

\* If at most one creation breaks off, the labels fit when none is between model and labels;
\* as long as none did, they were made for the model then, and are the card's when none is
\* between labels and card.
Follows ==
  /\ broken <= 1 /\ ~Labelling => Matched
  /\ broken = 0 /\ ~Labelling /\ model # Nothing => labels \in Creators /\ Recipe[labels].content = model
  /\ broken = 0 /\ (\A c \in Creators : creation[c].step # "labelled") => labels = card.by

Serial == ~overlapped => (\A c \in Creators : InOrder(c)) /\ CardFits /\ Follows

\* A digest is cached under the signature of its content, unless a model was replaced.
CacheIsTrue ==
  ~torn => \A p \in Processes :
             \/ digests[p].digest = Nothing
             \/ /\ digests[p].digest \in installed
                /\ digests[p].signature = Signature[digests[p].digest]

\* Nothing changes while a validation is calm.
CalmHolds(v) ==
  check[v].calm /\ check[v].step \notin Resting =>
    /\ \A c \in Creators : creation[c].step \notin Copied
    /\ check[v].step # "found"  => check[v].truth = model
    /\ check[v].step \in CardRead => check[v].card = card.by

\* What each read of a validation has established: the digest is that of the model if no
\* cache is stale; the card names it, unless it was handed in naming another; card and labels
\* are those of the model if no creation broke off, or, the labels, with one fault at most.
DigestHolds(v) ==
  ~StaleCache /\ check[v].step \in Digested => check[v].digest = check[v].truth
CardHolds(v) ==
  check[v].step \in CardRead /\ Asks[v].hash /\ Asks[v].sidecars =>
    /\ check[v].card \in Creators
    /\ Misnamed(check[v].card) \/ Recipe[check[v].card].content = check[v].digest
OwnHolds(v) ==
  broken = 0 /\ check[v].calm /\ check[v].step \in CardRead /\ Asks[v].hash /\ Asks[v].sidecars =>
    Recipe[check[v].card].content = check[v].truth
NamesHold(v) ==
  \/ broken = 0
  \/ broken <= 1 /\ ~StaleCache /\ ~Misnamed(check[v].card)
  => (check[v].calm /\ check[v].step \in NamesRead /\ Asks[v].hash /\ Asks[v].sidecars =>
        check[v].labels \in Creators /\ Recipe[check[v].labels].content = check[v].truth)

ReadsHold(v) == DigestHolds(v) /\ CardHolds(v) /\ OwnHolds(v) /\ NamesHold(v)

CheckHolds(v) == ~overlapped => ReadsHold(v)

PackageInv ==
  /\ PackageTyped
  /\ OneAtWork
  /\ Serial
  /\ CacheIsTrue
  /\ \A v \in Checks : CalmHolds(v) /\ CheckHolds(v)

-----------------------------------------------------------------------------
(* What the pieces of an action do. *)

LEMMA ProcessesKnown ==
  /\ \A c \in Creators : Recipe[c].process \in Processes
  /\ \A v \in Checks : Asks[v].process \in Processes
BY DEF Processes

LEMMA RecipeFacts ==
  ASSUME NEW c \in Creators
  PROVE  /\ Recipe[c].content \in Contents
         /\ Recipe[c].digest \in Contents \cup {NoDigest}
         /\ Recipe[c].defects \subseteq Defects
         /\ c # Nothing
BY PackageAssumption DEF Recipes

\* A creation that goes on to its next step keeps the rest of its state.
LEMMA GoesOn ==
  ASSUME PackageTypeOK, NEW c \in Creators, NEW s \in CreationSteps, GoesTo(c, s)
  PROVE  /\ creation' \in [Creators -> CreationStates]
         /\ creation'[c].step = s
         /\ creation'[c].truth = creation[c].truth
         /\ creation'[c].digest = creation[c].digest
         /\ \A d \in Creators \ {c} : creation'[d] = creation[d]
BY DEF PackageTypeOK, GoesTo, CreationStates

\* A file that changes takes the calm from the validations at work, and nothing else.
LEMMA Disturbed ==
  ASSUME PackageTypeOK, Disturb
  PROVE  /\ check' \in [Checks -> CheckStates]
         /\ \A v \in Checks :
              /\ check'[v].step = check[v].step
              /\ check'[v].truth = check[v].truth
              /\ check'[v].digest = check[v].digest
              /\ check'[v].card = check[v].card
              /\ check'[v].labels = check[v].labels
              /\ check[v].step \in Resting => check'[v] = check[v]
              /\ check[v].step \notin Resting => ~check'[v].calm
<1>1. check' \in [Checks -> CheckStates]
  <2>1. \A v \in Checks : /\ check[v] \in CheckStates
                         /\ [check[v] EXCEPT !.calm = FALSE] \in CheckStates
    BY DEF PackageTypeOK, CheckStates
  <2> QED
    BY <2>1 DEF Disturb
<1>2. ASSUME NEW v \in Checks
      PROVE  /\ check'[v].step = check[v].step
             /\ check'[v].truth = check[v].truth
             /\ check'[v].digest = check[v].digest
             /\ check'[v].card = check[v].card
             /\ check'[v].labels = check[v].labels
             /\ check[v].step \in Resting => check'[v] = check[v]
             /\ check[v].step \notin Resting => ~check'[v].calm
  BY DEF PackageTypeOK, Disturb, CheckStates
<1> QED
  BY <1>1, <1>2


\* Validation v is now at k, and the others are where they were.
Moved(v, k) ==
  /\ k \in CheckStates
  /\ check' \in [Checks -> CheckStates]
  /\ check'[v] = k
  /\ \A u \in Checks \ {v} : check'[u] = check[u]

LEMMA MovesOn ==
  ASSUME PackageTypeOK, NEW v \in Checks, NEW k \in CheckStates, check' = [check EXCEPT ![v] = k]
  PROVE  Moved(v, k)
BY DEF PackageTypeOK, Moved

\* Where each read takes a validation.
LEMMA ChecksMove ==
  ASSUME PackageTypeOK, NEW v \in Checks
  PROVE  /\ FindModel(v) =>
              Moved(v, [NoCheck EXCEPT !.step = "found", !.calm = \A c \in Creators : ~Creating(c)])
         /\ StatModel(v) =>
              LET cached == Cached(Asks[v].process) IN
              Moved(v, [check[v] EXCEPT !.step = IF cached = Nothing THEN "stated" ELSE "digested",
                                        !.truth = model, !.digest = cached])
         /\ ReadModel(v) => Moved(v, [check[v] EXCEPT !.step = "digested", !.digest = model])
         /\ ReadCard(v) => Moved(v, [check[v] EXCEPT !.step = "carded", !.card = card.by])
         /\ ReadLabels(v) => Moved(v, [check[v] EXCEPT !.step = "labelled", !.labels = labels])
         /\ ReadExamples(v) =>
              Moved(v, [check[v] EXCEPT !.step = IF Asks[v].register THEN "passed" ELSE "valid"])
         /\ RefusePackage(v) => Moved(v, [check[v] EXCEPT !.step = "refused"])
         /\ UpsertModel(v) => Moved(v, [check[v] EXCEPT !.step = "registered"])
<1> USE DEF PackageTypeOK
<1>1. check[v] \in CheckStates
  OBVIOUS
<1>2. \A s \in CheckSteps : [check[v] EXCEPT !.step = s] \in CheckStates
  BY <1>1 DEF CheckStates
<1>3. ASSUME FindModel(v)
      PROVE  Moved(v, [NoCheck EXCEPT !.step = "found", !.calm = \A c \in Creators : ~Creating(c)])
  <2> DEFINE calm == \A c \in Creators : ~Creating(c)
             k == [NoCheck EXCEPT !.step = "found", !.calm = calm]
  <2>1. calm \in BOOLEAN
    OBVIOUS
  <2> HIDE DEF calm
  <2>2. k \in CheckStates
    BY <2>1 DEF NoCheck, CheckStates, CheckSteps
  <2>3. check' = [check EXCEPT ![v] = k]
    BY <1>3 DEF FindModel, calm
  <2> QED
    BY <2>2, <2>3, MovesOn DEF calm
<1>4. ASSUME StatModel(v)
      PROVE  LET cached == Cached(Asks[v].process) IN
             Moved(v, [check[v] EXCEPT !.step = IF cached = Nothing THEN "stated" ELSE "digested",
                                       !.truth = model, !.digest = cached])
  <2> DEFINE cached == Cached(Asks[v].process)
             s == IF cached = Nothing THEN "stated" ELSE "digested"
             k == [check[v] EXCEPT !.step = s, !.truth = model, !.digest = cached]
  <2>1. cached \in Contents \cup {Nothing}
    BY ProcessesKnown DEF Cached
  <2>2. s \in CheckSteps
    BY DEF CheckSteps
  <2>3. check' = [check EXCEPT ![v] = k]
    BY <1>4 DEF StatModel
  <2> HIDE DEF cached, s
  <2>4. k \in CheckStates
    BY <1>1, <2>1, <2>2 DEF CheckStates
  <2> QED
    BY <2>3, <2>4, MovesOn DEF cached, s
<1>5. ASSUME ReadModel(v)
      PROVE  Moved(v, [check[v] EXCEPT !.step = "digested", !.digest = model])
  <2> DEFINE k == [check[v] EXCEPT !.step = "digested", !.digest = model]
  <2>1. k \in CheckStates
    BY <1>1 DEF CheckStates, CheckSteps
  <2>2. check' = [check EXCEPT ![v] = k]
    BY <1>5 DEF ReadModel
  <2> QED
    BY <2>1, <2>2, MovesOn
<1>6. ASSUME ReadCard(v)
      PROVE  Moved(v, [check[v] EXCEPT !.step = "carded", !.card = card.by])
  <2> DEFINE k == [check[v] EXCEPT !.step = "carded", !.card = card.by]
  <2>1. k \in CheckStates
    BY <1>1 DEF CheckStates, CheckSteps
  <2>2. check' = [check EXCEPT ![v] = k]
    BY <1>6 DEF ReadCard
  <2> QED
    BY <2>1, <2>2, MovesOn
<1>7. ASSUME ReadLabels(v)
      PROVE  Moved(v, [check[v] EXCEPT !.step = "labelled", !.labels = labels])
  <2> DEFINE k == [check[v] EXCEPT !.step = "labelled", !.labels = labels]
  <2>1. k \in CheckStates
    BY <1>1 DEF CheckStates, CheckSteps
  <2>2. check' = [check EXCEPT ![v] = k]
    BY <1>7 DEF ReadLabels
  <2> QED
    BY <2>1, <2>2, MovesOn
<1>8. ASSUME ReadExamples(v)
      PROVE  Moved(v, [check[v] EXCEPT !.step = IF Asks[v].register THEN "passed" ELSE "valid"])
  BY <1>2, <1>8, MovesOn DEF ReadExamples, CheckSteps
<1>9. RefusePackage(v) => Moved(v, [check[v] EXCEPT !.step = "refused"])
  BY <1>2, MovesOn DEF RefusePackage, CheckSteps
<1>10. UpsertModel(v) => Moved(v, [check[v] EXCEPT !.step = "registered"])
  BY <1>2, MovesOn DEF UpsertModel, CheckSteps
<1> QED
  BY <1>3, <1>4, <1>5, <1>6, <1>7, <1>8, <1>9, <1>10

\* What is read is cached under the signature of what was stat'ed.
LEMMA CacheFilled ==
  ASSUME PackageTyped, CacheIsTrue, model # Nothing, UNCHANGED <<model, installed>>,
         NEW p \in Processes, NEW x \in installed, Cache(p, x)
  PROVE  /\ digests' \in [Processes -> [signature: {Signature[y] : y \in Contents} \cup {Nothing},
                                        digest: Contents \cup {Nothing}]]
         /\ torn' \in BOOLEAN
         /\ ~torn' => ~torn /\ model = x
         /\ CacheIsTrue'
<1> DEFINE e == [signature |-> Signature[x], digest |-> model]
<1>1. x \in Contents /\ model \in Contents
  BY DEF PackageTyped, PackageTypeOK
<1>2. e \in [signature: {Signature[y] : y \in Contents} \cup {Nothing}, digest: Contents \cup {Nothing}]
  BY <1>1
<1>3. digests' = [digests EXCEPT ![p] = e]
  BY DEF Cache
<1>4. torn' \in BOOLEAN /\ (~torn' => ~torn /\ model = x)
  BY DEF Cache, PackageTyped, PackageTypeOK
<1> HIDE DEF e
<1>5. /\ digests' \in [Processes -> [signature: {Signature[y] : y \in Contents} \cup {Nothing},
                                     digest: Contents \cup {Nothing}]]
      /\ digests'[p] = e
      /\ \A q \in Processes \ {p} : digests'[q] = digests[q]
  BY <1>2, <1>3 DEF PackageTyped, PackageTypeOK
<1>6. CacheIsTrue'
  BY <1>4, <1>5 DEF CacheIsTrue, e
<1> QED
  BY <1>4, <1>5, <1>6

-----------------------------------------------------------------------------
(* What an action leaves alone. *)

\* The past only grows.
GoesForward ==
  /\ installed \subseteq installed'
  /\ overlapped => overlapped'
  /\ torn => torn'
  /\ broken <= broken'

\* What has not gone wrong had not before.
LEMMA FaultsBefore ==
  ASSUME PackageTypeOK, PackageTypeOK', GoesForward
  PROVE  /\ ~overlapped' => ~overlapped
         /\ ~StaleCache' => ~StaleCache
         /\ broken' = 0 => broken = 0
         /\ broken' <= 1 => broken <= 1
BY DEF PackageTypeOK, GoesForward, StaleCache

\* What a validation has established, it still has when its files change or others act.
LEMMA ReadsKept ==
  ASSUME PackageTypeOK, PackageTypeOK', GoesForward, NEW v \in Checks, CheckHolds(v),
         check'[v].step = check[v].step, check'[v].truth = check[v].truth,
         check'[v].digest = check[v].digest, check'[v].card = check[v].card,
         check'[v].labels = check[v].labels, check'[v].calm => check[v].calm
  PROVE  CheckHolds(v)'
<1> SUFFICES ASSUME ~overlapped'
             PROVE  ReadsHold(v)'
  BY DEF CheckHolds
<1>1. ReadsHold(v)
  BY FaultsBefore DEF CheckHolds
<1>2. DigestHolds(v)'
  BY <1>1, FaultsBefore DEF ReadsHold, DigestHolds
<1>3. CardHolds(v)'
  BY <1>1 DEF ReadsHold, CardHolds, Misnamed
<1>4. OwnHolds(v)'
  BY <1>1, FaultsBefore DEF ReadsHold, OwnHolds
<1>5. Misnamed(check[v].card)' <=> Misnamed(check[v].card)
  BY DEF Misnamed
<1>6. NamesHold(v)'
  <2>1. NamesHold(v)
    BY <1>1 DEF ReadsHold
  <2>2. broken' = 0 => broken = 0
    BY FaultsBefore
  <2>3. broken' <= 1 /\ ~StaleCache' => broken <= 1 /\ ~StaleCache
    BY FaultsBefore
  <2> QED
    BY <1>5, <2>1, <2>2, <2>3 DEF NamesHold
<1> QED
  BY <1>2, <1>3, <1>4, <1>6 DEF ReadsHold

CheckSound(v) == CheckKnows(v) /\ CalmHolds(v) /\ CheckHolds(v)

\* A validation whose files change has lost its calm, and nothing else it has established.
LEMMA ChecksDisturbed ==
  ASSUME PackageInv, PackageTypeOK', GoesForward, Disturb, model' # Nothing
  PROVE  \A v \in Checks : CheckSound(v)'
<1> SUFFICES ASSUME NEW v \in Checks
             PROVE  CheckSound(v)'
  OBVIOUS
<1> USE DEF PackageInv, PackageTyped
<1>1. /\ check'[v].step = check[v].step
      /\ check'[v].truth = check[v].truth
      /\ check'[v].digest = check[v].digest
      /\ check'[v].card = check[v].card
      /\ check'[v].labels = check[v].labels
      /\ check[v].step \in Resting => check'[v] = check[v]
      /\ check[v].step \notin Resting => ~check'[v].calm
  BY Disturbed
<1>2. CheckKnows(v)'
  BY <1>1 DEF CheckKnows, GoesForward
<1>3. CalmHolds(v)'
  BY <1>1 DEF CalmHolds
<1>4. CheckHolds(v)'
  <2>1. check'[v].calm => check[v].calm
    BY <1>1
  <2>2. PackageTypeOK /\ CheckHolds(v)
    OBVIOUS
  <2> QED
    BY <1>1, <2>1, <2>2, ReadsKept
<1> QED
  BY <1>2, <1>3, <1>4 DEF CheckSound

\* A step of a creation that changes no file and does not pass its copy disturbs nobody.
LEMMA ChecksUntouched ==
  ASSUME PackageInv, PackageTypeOK', GoesForward, UNCHANGED <<model, labels, card, check>>,
         \A c \in Creators : creation'[c].step \in Copied => creation[c].step \in Copied
  PROVE  \A v \in Checks : CheckSound(v)'
<1> SUFFICES ASSUME NEW v \in Checks
             PROVE  CheckSound(v)'
  OBVIOUS
<1> USE DEF PackageInv, PackageTyped
<1>1. CheckKnows(v)'
  BY DEF CheckKnows, GoesForward
<1>2. CalmHolds(v)'
  BY DEF CalmHolds
<1>3. CheckHolds(v)'
  BY ReadsKept
<1> QED
  BY <1>1, <1>2, <1>3 DEF CheckSound

\* A read of one validation leaves the other validations and the creations alone.
LEMMA ReadAside ==
  ASSUME PackageInv, PackageTypeOK', GoesForward, UNCHANGED <<model, labels, card, creation>>,
         UNCHANGED <<broken, overlapped, installed>>, CacheIsTrue',
         NEW v \in Checks, NEW k, Moved(v, k), CheckSound(v)'
  PROVE  PackageInv'
<1> USE DEF PackageInv, PackageTyped
<1>1. \A c \in Creators : CreationKnows(c)'
  BY DEF CreationKnows
<1>2. OneAtWork'
  BY DEF OneAtWork, Creating
<1>3. Serial'
  BY DEF Serial, InOrder, CardFits, Misnamed, Follows, Labelling, Matched
<1>4. ASSUME NEW u \in Checks \ {v}
      PROVE  CheckSound(u)'
  <2>1. check'[u] = check[u]
    BY DEF Moved
  <2>2. CheckKnows(u)'
    BY <2>1 DEF CheckKnows
  <2>3. CalmHolds(u)'
    BY <2>1 DEF CalmHolds
  <2>4. CheckHolds(u)'
    BY <2>1, ReadsKept
  <2> QED
    BY <2>2, <2>3, <2>4 DEF CheckSound
<1>5. \A u \in Checks : CheckSound(u)'
  BY <1>4
<1>6. PackageTyped'
  BY <1>1, <1>5 DEF CheckSound
<1> HIDE DEF PackageTyped
<1> QED
  BY <1>2, <1>3, <1>5, <1>6 DEF CheckSound

-----------------------------------------------------------------------------
(* The reads of a validation keep the invariant. *)

LEMMA FindKeeps ==
  ASSUME PackageInv, NEW v \in Checks, FindModel(v)
  PROVE  PackageInv'
<1> DEFINE k == [NoCheck EXCEPT !.step = "found", !.calm = \A c \in Creators : ~Creating(c)]
<1> USE DEF PackageInv, PackageTyped
<1>1. Moved(v, k)
  BY ChecksMove
<1> HIDE DEF k
<1>2. PackageTypeOK'
  BY <1>1 DEF Moved, PackageTypeOK, FindModel, files, history
<1>3. CacheIsTrue' /\ GoesForward
  BY DEF CacheIsTrue, GoesForward, PackageTypeOK, FindModel, files, history
<1>4. /\ check'[v].step = "found"
      /\ check'[v].calm => \A c \in Creators : ~Creating(c)
  BY <1>1 DEF Moved, k, NoCheck
<1>5. CheckKnows(v)' /\ CalmHolds(v)' /\ CheckHolds(v)'
  <2>1. CheckKnows(v)'
    BY <1>4 DEF CheckKnows, FindModel, files, Digested
  <2>2. CalmHolds(v)'
    BY <1>4 DEF CalmHolds, FindModel, files, Copied, CardRead, Creating
  <2>3. CheckHolds(v)'
    BY <1>4 DEF CheckHolds, ReadsHold, DigestHolds, CardHolds, OwnHolds, NamesHold, Digested,
                CardRead, NamesRead
  <2> QED
    BY <2>1, <2>2, <2>3
<1> QED
  BY <1>1, <1>2, <1>3, <1>4, <1>5, ReadAside DEF CheckSound, FindModel, files, history, GoesForward

LEMMA StatKeeps ==
  ASSUME PackageInv, NEW v \in Checks, StatModel(v)
  PROVE  PackageInv'
<1> DEFINE k == [check[v] EXCEPT
                !.step = IF Cached(Asks[v].process) = Nothing THEN "stated" ELSE "digested",
                !.truth = model, !.digest = Cached(Asks[v].process)]
<1> USE DEF PackageInv, PackageTyped
<1>1. Moved(v, k)
  BY ChecksMove
<1> HIDE DEF k
<1>2. PackageTypeOK'
  BY <1>1 DEF Moved, PackageTypeOK, StatModel, files, history
<1>3. CacheIsTrue' /\ GoesForward
  BY DEF CacheIsTrue, GoesForward, PackageTypeOK, StatModel, files, history
<1>4. /\ check[v].step = "found"
      /\ check'[v].step = IF Cached(Asks[v].process) = Nothing THEN "stated" ELSE "digested"
      /\ check'[v].truth = model
      /\ check'[v].digest = Cached(Asks[v].process)
      /\ check'[v].calm = check[v].calm
      /\ model # Nothing
  BY <1>1 DEF Moved, k, CheckStates, PackageTypeOK, StatModel, CheckKnows
<1>5. CheckKnows(v)' /\ CalmHolds(v)' /\ CheckHolds(v)'
  <2>1. CheckKnows(v)'
    BY <1>4 DEF CheckKnows, StatModel, history
  <2>2. CalmHolds(v)'
    <3>1. check[v].step \notin Resting /\ check'[v].step \notin CardRead
      BY <1>4 DEF Resting, CardRead
    <3>2. UNCHANGED <<model, creation>>
      BY DEF StatModel, files
    <3> QED
      BY <1>4, <3>1, <3>2 DEF CalmHolds
  <2>3. ASSUME ~StaleCache', check'[v].step = "digested"
        PROVE  check'[v].digest = check'[v].truth
    <3> DEFINE p == Asks[v].process
    <3>1. Cached(p) # Nothing
      BY <1>4, <2>3
    <3>2. digests[p].signature = Signature[model] /\ digests[p].digest = Cached(p)
      BY <3>1 DEF Cached
    <3>3. ~StaleCache
      BY <1>2, <1>3, <2>3, FaultsBefore
    <3>4. digests[p].digest \in installed /\ digests[p].signature = Signature[digests[p].digest]
      BY <3>1, <3>2, <3>3, ProcessesKnown DEF CacheIsTrue, StaleCache
    <3>5. model \in installed
      BY <1>4
    <3>6. digests[p].digest = model
      BY <3>2, <3>3, <3>4, <3>5 DEF StaleCache
    <3> QED
      BY <1>4, <3>2, <3>6
  <2>4. CheckHolds(v)'
    BY <1>4, <2>3 DEF CheckHolds, ReadsHold, DigestHolds, CardHolds, OwnHolds, NamesHold, Digested,
                      CardRead, NamesRead
  <2> QED
    BY <2>1, <2>2, <2>4
<1> QED
  BY <1>1, <1>2, <1>3, <1>4, <1>5, ReadAside DEF CheckSound, StatModel, files, history, GoesForward

LEMMA ReadModelKeeps ==
  ASSUME PackageInv, NEW v \in Checks, ReadModel(v)
  PROVE  PackageInv'
<1> DEFINE k == [check[v] EXCEPT !.step = "digested", !.digest = model]
<1> USE DEF PackageInv, PackageTyped
<1>1. Moved(v, k)
  BY ChecksMove
<1> HIDE DEF k
<1>2. check[v].truth \in installed /\ model # Nothing /\ installed # {}
  BY DEF ReadModel, CheckKnows
<1>3. /\ digests' \in [Processes -> [signature: {Signature[y] : y \in Contents} \cup {Nothing},
                                     digest: Contents \cup {Nothing}]]
      /\ torn' \in BOOLEAN
      /\ ~torn' => ~torn /\ model = check[v].truth
      /\ CacheIsTrue'
  BY <1>2, CacheFilled, ProcessesKnown DEF ReadModel, files
<1>4. PackageTypeOK' /\ GoesForward
  BY <1>1, <1>3 DEF Moved, PackageTypeOK, ReadModel, files, GoesForward
<1>5. /\ check[v].step = "stated"
      /\ check'[v].step = "digested"
      /\ check'[v].digest = model
      /\ check'[v].truth = check[v].truth
      /\ check'[v].calm = check[v].calm
  BY <1>1 DEF Moved, k, CheckStates, PackageTypeOK, ReadModel
<1>6. CheckKnows(v)' /\ CalmHolds(v)' /\ CheckHolds(v)'
  <2>1. CheckKnows(v)'
    BY <1>2, <1>5 DEF CheckKnows, ReadModel
  <2>2. CalmHolds(v)'
    BY <1>5 DEF CalmHolds, ReadModel, files, Resting, CardRead
  <2>3. CheckHolds(v)'
    BY <1>3, <1>5 DEF CheckHolds, ReadsHold, DigestHolds, CardHolds, OwnHolds, NamesHold, CardRead,
                      NamesRead, StaleCache
  <2> QED
    BY <2>1, <2>2, <2>3
<1> QED
  BY <1>1, <1>3, <1>4, <1>6, ReadAside DEF CheckSound, ReadModel, files

\* A card without issues names the digest that was compared.
LEMMA ComparedDigest ==
  ASSUME NEW digest, NEW flags, flags.hash, CardIssues(card.card, digest, flags) = {}
  PROVE  card.card.digest = digest /\ card.card.digest # NoDigest
<1> DEFINE issues == DigestIssues(card.card, digest, flags)
<1>1. issues = {}
  BY DEF CardIssues
<1>2. "empty_sha256" \notin issues /\ "sha256_mismatch" \notin issues
  BY <1>1
<1>3. card.card.digest # NoDigest
  BY <1>2 DEF DigestIssues
<1>4. card.card.digest \in {NoDigest, digest}
  BY <1>2 DEF DigestIssues
<1> QED
  BY <1>3, <1>4

LEMMA ReadCardKeeps ==
  ASSUME PackageInv, NEW v \in Checks, ReadCard(v)
  PROVE  PackageInv'
<1> DEFINE k == [check[v] EXCEPT !.step = "carded", !.card = card.by]
<1> USE DEF PackageInv, PackageTyped
<1>1. Moved(v, k)
  BY ChecksMove
<1> HIDE DEF k
<1>2. PackageTypeOK'
  BY <1>1 DEF Moved, PackageTypeOK, ReadCard, files, history
<1>3. CacheIsTrue' /\ GoesForward
  BY DEF CacheIsTrue, GoesForward, PackageTypeOK, ReadCard, files, history
<1>4. /\ check[v].step = "digested"
      /\ check'[v].step = "carded"
      /\ check'[v].card = card.by
      /\ check'[v].truth = check[v].truth
      /\ check'[v].digest = check[v].digest
      /\ check'[v].calm = check[v].calm
  BY <1>1 DEF Moved, k, CheckStates, PackageTypeOK, ReadCard
<1>5. CheckKnows(v)' /\ CalmHolds(v)' /\ CheckHolds(v)'
  <2>1. CheckKnows(v)'
    BY <1>4 DEF CheckKnows, ReadCard, history, Digested
  <2>2. CalmHolds(v)'
    BY <1>4 DEF CalmHolds, ReadCard, files, Resting
  <2>3. ASSUME ~overlapped', Asks[v].hash, Asks[v].sidecars
        PROVE  /\ card.by \in Creators
               /\ Misnamed(card.by) \/ Recipe[card.by].content = check[v].digest
               /\ broken' = 0 /\ check[v].calm => Recipe[card.by].content = check[v].truth
    <3>1. ~overlapped
      BY <1>2, <1>3, <2>3, FaultsBefore
    <3>2. card.by \in Creators /\ card.by # Nothing
      BY <2>3, RecipeFacts DEF ReadCard, PackageTypeOK
    <3>3. card.card.digest = check[v].digest /\ card.card.digest # NoDigest
      BY <2>3, <3>2, ComparedDigest DEF ReadCard
    <3>4. Misnamed(card.by) \/ Recipe[card.by].content = check[v].digest
      BY <3>1, <3>2, <3>3 DEF Serial, CardFits
    <3>5. ASSUME broken' = 0, check[v].calm
          PROVE  Recipe[card.by].content = check[v].truth
      <4>1. broken = 0
        BY <1>2, <1>3, <3>5, FaultsBefore
      <4>2. (\A c \in Creators : creation[c].step \notin Copied) /\ check[v].truth = model
        BY <1>4, <3>5 DEF CalmHolds, Resting
      <4>3. model # Nothing
        BY <1>4, <4>2 DEF CheckKnows, Digested
      <4> QED
        BY <3>1, <4>1, <4>2, <4>3 DEF Serial, Follows, Labelling, Copied
    <3> QED
      BY <3>2, <3>4, <3>5
  <2>4. ~overlapped' => DigestHolds(v)'
    BY <1>2, <1>3, <1>4, FaultsBefore DEF CheckHolds, ReadsHold, DigestHolds, Digested
  <2>5. CheckHolds(v)'
    <3> SUFFICES ASSUME ~overlapped'
                 PROVE  ReadsHold(v)'
      BY DEF CheckHolds
    <3>1. CardHolds(v)'
      BY <1>4, <2>3 DEF CardHolds, Misnamed
    <3>2. OwnHolds(v)'
      BY <1>4, <2>3 DEF OwnHolds
    <3>3. NamesHold(v)'
      BY <1>4 DEF NamesHold, NamesRead
    <3> QED
      BY <2>4, <3>1, <3>2, <3>3 DEF ReadsHold
  <2> QED
    BY <2>1, <2>2, <2>5
<1> QED
  BY <1>1, <1>2, <1>3, <1>4, <1>5, ReadAside DEF CheckSound, ReadCard, files, history, GoesForward

LEMMA ReadLabelsKeeps ==
  ASSUME PackageInv, NEW v \in Checks, ReadLabels(v)
  PROVE  PackageInv'
<1> DEFINE k == [check[v] EXCEPT !.step = "labelled", !.labels = labels]
<1> USE DEF PackageInv, PackageTyped
<1>1. Moved(v, k)
  BY ChecksMove
<1> HIDE DEF k
<1>2. PackageTypeOK'
  BY <1>1 DEF Moved, PackageTypeOK, ReadLabels, files, history
<1>3. CacheIsTrue' /\ GoesForward
  BY DEF CacheIsTrue, GoesForward, PackageTypeOK, ReadLabels, files, history
<1>4. /\ check[v].step = "carded"
      /\ check'[v].step = "labelled"
      /\ check'[v].labels = labels
      /\ check'[v].card = check[v].card
      /\ check'[v].truth = check[v].truth
      /\ check'[v].digest = check[v].digest
      /\ check'[v].calm = check[v].calm
  BY <1>1 DEF Moved, k, CheckStates, PackageTypeOK, ReadLabels
<1>5. CheckKnows(v)' /\ CalmHolds(v)' /\ CheckHolds(v)'
  <2>1. CheckKnows(v)'
    BY <1>4 DEF CheckKnows, ReadLabels, history, Digested
  <2>2. CalmHolds(v)'
    BY <1>4 DEF CalmHolds, ReadLabels, files, Resting, CardRead
  <2>3. ~overlapped' => ~overlapped /\ DigestHolds(v) /\ CardHolds(v) /\ OwnHolds(v)
    BY <1>2, <1>3, FaultsBefore DEF CheckHolds, ReadsHold
  <2>4. ASSUME ~overlapped', check[v].calm, Asks[v].hash, Asks[v].sidecars,
               broken = 0 \/ (broken <= 1 /\ ~StaleCache /\ ~Misnamed(check[v].card))
        PROVE  labels \in Creators /\ Recipe[labels].content = check[v].truth
    <3>1. /\ \A c \in Creators : creation[c].step \notin Copied
          /\ check[v].truth = model
          /\ check[v].card = card.by
      BY <1>4, <2>4 DEF CalmHolds, Resting, CardRead
    <3>2. model # Nothing
      BY <1>4, <3>1 DEF CheckKnows, Digested
    <3>3. Follows /\ ~Labelling
      BY <2>3, <2>4, <3>1 DEF Serial, Labelling, Copied
    <3>4. CASE broken = 0
      BY <3>1, <3>2, <3>3, <3>4 DEF Follows
    <3>5. CASE broken <= 1 /\ ~StaleCache /\ ~Misnamed(check[v].card)
      <4>1. Matched
        BY <3>3, <3>5 DEF Follows
      <4>2. check[v].card \in Creators /\ Recipe[check[v].card].content = check[v].truth
        BY <1>4, <2>3, <2>4, <3>5 DEF CardHolds, DigestHolds, CardRead, Digested
      <4> QED
        BY <3>1, <4>1, <4>2 DEF Matched
    <3> QED
      BY <2>4, <3>4, <3>5
  <2>5. CheckHolds(v)'
    <3> SUFFICES ASSUME ~overlapped'
                 PROVE  ReadsHold(v)'
      BY DEF CheckHolds
    <3>1. DigestHolds(v)'
      BY <1>2, <1>3, <1>4, <2>3, FaultsBefore DEF DigestHolds, Digested
    <3>2. CardHolds(v)' /\ (Misnamed(check[v].card)' <=> Misnamed(check[v].card))
      BY <1>4, <2>3 DEF CardHolds, CardRead, Misnamed
    <3>3. OwnHolds(v)'
      BY <1>2, <1>3, <1>4, <2>3, FaultsBefore DEF OwnHolds, CardRead
    <3>4. NamesHold(v)'
      <4>1. (broken' = 0 => broken = 0) /\ (broken' <= 1 /\ ~StaleCache' => broken <= 1 /\ ~StaleCache)
        BY <1>2, <1>3, FaultsBefore
      <4> QED
        BY <1>4, <2>4, <3>2, <4>1 DEF NamesHold
    <3> QED
      BY <3>1, <3>2, <3>3, <3>4 DEF ReadsHold
  <2> QED
    BY <2>1, <2>2, <2>5
<1> QED
  BY <1>1, <1>2, <1>3, <1>4, <1>5, ReadAside DEF CheckSound, ReadLabels, files, history, GoesForward

\* A validation that goes on with what it has read has established it.
LEMMA PassedOn ==
  ASSUME PackageTypeOK, PackageTypeOK', GoesForward, NEW v \in Checks,
         ~overlapped' => ReadsHold(v),
         check[v].step \in NamesRead, check'[v].truth = check[v].truth,
         check'[v].digest = check[v].digest, check'[v].card = check[v].card,
         check'[v].labels = check[v].labels, check'[v].calm = check[v].calm
  PROVE  CheckHolds(v)'
<1> SUFFICES ASSUME ~overlapped'
             PROVE  ReadsHold(v)'
  BY DEF CheckHolds
<1>1. check[v].step \in CardRead /\ check[v].step \in Digested
  BY DEF NamesRead, CardRead, Digested
<1>2. DigestHolds(v)'
  BY <1>1, FaultsBefore DEF ReadsHold, DigestHolds
<1>3. CardHolds(v)' /\ (Misnamed(check[v].card)' <=> Misnamed(check[v].card))
  BY <1>1 DEF ReadsHold, CardHolds, Misnamed
<1>4. OwnHolds(v)'
  BY <1>1, FaultsBefore DEF ReadsHold, OwnHolds
<1>5. NamesHold(v)'
  <2>1. (broken' = 0 => broken = 0) /\ (broken' <= 1 /\ ~StaleCache' => broken <= 1 /\ ~StaleCache)
    BY FaultsBefore
  <2> QED
    BY <1>3, <2>1 DEF ReadsHold, NamesHold
<1> QED
  BY <1>2, <1>3, <1>4, <1>5 DEF ReadsHold

LEMMA ReadExamplesKeeps ==
  ASSUME PackageInv, NEW v \in Checks, ReadExamples(v)
  PROVE  PackageInv'
<1> DEFINE k == [check[v] EXCEPT !.step = IF Asks[v].register THEN "passed" ELSE "valid"]
<1> USE DEF PackageInv, PackageTyped
<1>1. Moved(v, k)
  BY ChecksMove
<1> HIDE DEF k
<1>2. PackageTypeOK'
  BY <1>1 DEF Moved, PackageTypeOK, ReadExamples, files, history
<1>3. CacheIsTrue' /\ GoesForward
  BY DEF CacheIsTrue, GoesForward, PackageTypeOK, ReadExamples, files, history
<1>4. /\ check[v].step = "labelled"
      /\ check'[v].step \in {"passed", "valid"}
      /\ check'[v].labels = check[v].labels
      /\ check'[v].card = check[v].card
      /\ check'[v].truth = check[v].truth
      /\ check'[v].digest = check[v].digest
      /\ check'[v].calm = check[v].calm
  BY <1>1 DEF Moved, k, CheckStates, PackageTypeOK, ReadExamples
<1>5. CheckKnows(v)' /\ CalmHolds(v)' /\ CheckHolds(v)'
  <2>1. CheckKnows(v)'
    BY <1>4 DEF CheckKnows, ReadExamples, history, Digested
  <2>2. CalmHolds(v)'
    BY <1>4 DEF CalmHolds, ReadExamples, files, Resting, CardRead
  <2>3. ~overlapped' => ReadsHold(v)
    BY <1>2, <1>3, FaultsBefore DEF CheckHolds
  <2>4. CheckHolds(v)'
    BY <1>2, <1>3, <1>4, <2>3, PassedOn DEF NamesRead
  <2> QED
    BY <2>1, <2>2, <2>4
<1> QED
  BY <1>1, <1>2, <1>3, <1>4, <1>5, ReadAside DEF CheckSound, ReadExamples, files, history, GoesForward

LEMMA UpsertKeeps ==
  ASSUME PackageInv, NEW v \in Checks, UpsertModel(v)
  PROVE  PackageInv'
<1> DEFINE k == [check[v] EXCEPT !.step = "registered"]
<1> USE DEF PackageInv, PackageTyped
<1>1. Moved(v, k)
  BY ChecksMove
<1> HIDE DEF k
<1>2. PackageTypeOK'
  <2>1. check[v] \in CheckStates
    BY DEF PackageTypeOK
  <2>2. entry' \in [truth: Contents \cup {Nothing}, labels: Creators \cup {Nothing},
                   card: Creators \cup {Nothing}, metrics: Creators \cup {Nothing}]
    BY <2>1 DEF UpsertModel, CheckStates, PackageTypeOK
  <2> QED
    BY <1>1, <2>2 DEF Moved, PackageTypeOK, UpsertModel, files, history
<1>3. CacheIsTrue' /\ GoesForward
  BY DEF CacheIsTrue, GoesForward, PackageTypeOK, UpsertModel, files, history
<1>4. /\ check[v].step = "passed"
      /\ check'[v].step \in {"registered"}
      /\ check'[v].labels = check[v].labels
      /\ check'[v].card = check[v].card
      /\ check'[v].truth = check[v].truth
      /\ check'[v].digest = check[v].digest
      /\ check'[v].calm = check[v].calm
  BY <1>1 DEF Moved, k, CheckStates, PackageTypeOK, UpsertModel
<1>5. CheckKnows(v)' /\ CalmHolds(v)' /\ CheckHolds(v)'
  <2>1. CheckKnows(v)'
    BY <1>4 DEF CheckKnows, UpsertModel, history, Digested
  <2>2. CalmHolds(v)'
    BY <1>4 DEF CalmHolds, UpsertModel, files, Resting, CardRead
  <2>3. ~overlapped' => ReadsHold(v)
    BY <1>2, <1>3, FaultsBefore DEF CheckHolds
  <2>4. CheckHolds(v)'
    BY <1>2, <1>3, <1>4, <2>3, PassedOn DEF NamesRead
  <2> QED
    BY <2>1, <2>2, <2>4
<1> QED
  BY <1>1, <1>2, <1>3, <1>4, <1>5, ReadAside DEF CheckSound, UpsertModel, files, history, GoesForward

LEMMA RefuseKeeps ==
  ASSUME PackageInv, NEW v \in Checks, RefusePackage(v)
  PROVE  PackageInv'
<1> DEFINE k == [check[v] EXCEPT !.step = "refused"]
<1> USE DEF PackageInv, PackageTyped
<1>1. Moved(v, k)
  BY ChecksMove
<1> HIDE DEF k
<1>2. PackageTypeOK'
  BY <1>1 DEF Moved, PackageTypeOK, RefusePackage, files, history
<1>3. CacheIsTrue' /\ GoesForward
  BY DEF CacheIsTrue, GoesForward, PackageTypeOK, RefusePackage, files, history
<1>4. check'[v].step = "refused"
  BY <1>1 DEF Moved, k, CheckStates, PackageTypeOK
<1>5. CheckKnows(v)' /\ CalmHolds(v)' /\ CheckHolds(v)'
  BY <1>4 DEF CheckKnows, CalmHolds, CheckHolds, ReadsHold, DigestHolds, CardHolds, OwnHolds,
              NamesHold, Digested, CardRead, NamesRead, Resting
<1> QED
  BY <1>1, <1>2, <1>3, <1>4, <1>5, ReadAside DEF CheckSound, RefusePackage, files, history, GoesForward

-----------------------------------------------------------------------------
(* The steps of a creation keep the invariant. *)

\* A creation at work that nobody disturbs is the only one.
LEMMA OthersRest ==
  ASSUME PackageInv, NEW c \in Creators, Creating(c), ~overlapped
  PROVE  \A d \in Creators \ {c} : creation[d].step \in {"new", "done", "refused"}
BY DEF PackageInv, OneAtWork, Creating

\* One that goes on does not bring another to work.
LEMMA OneAtWorkKept ==
  ASSUME PackageInv, overlapped' = overlapped, NEW c \in Creators, Creating(c),
         \A d \in Creators \ {c} : creation'[d] = creation[d]
  PROVE  OneAtWork'
BY DEF PackageInv, OneAtWork, Creating


LEMMA CopyKeeps ==
  ASSUME PackageInv, NEW c \in Creators, CopyModel(c)
  PROVE  PackageInv'
<1> USE DEF PackageInv, PackageTyped
<1>1. /\ creation' \in [Creators -> CreationStates]
      /\ creation'[c].step = "copied"
      /\ creation'[c].truth = creation[c].truth
      /\ creation'[c].digest = creation[c].digest
      /\ \A d \in Creators \ {c} : creation'[d] = creation[d]
  BY GoesOn DEF CopyModel, CreationSteps
<1>2. creation[c].step = "begun" /\ Creating(c)
  BY DEF CopyModel, Creating
<1>3. UNCHANGED <<plan, labels, card, examples, digests, entry, broken, overlapped, torn>>
  BY DEF CopyModel, files, history
<1>12. /\ model' = Recipe[c].content
       /\ model' \in Contents /\ model' # Nothing
       /\ installed' = installed \cup {model'}
  BY RecipeFacts, PackageAssumption DEF CopyModel
<1>4. PackageTypeOK'
  BY <1>1, <1>3, <1>12, Disturbed DEF PackageTypeOK, CopyModel
<1>5. CacheIsTrue' /\ GoesForward
  BY <1>3, <1>12 DEF CacheIsTrue, GoesForward, PackageTypeOK
<1>6. ASSUME NEW d \in Creators
      PROVE  CreationKnows(d)'
  BY <1>1, <1>2, <1>3, <1>12 DEF CreationKnows, Copied, Hashed
<1>7. /\ model' \in installed' \cup {Nothing}
      /\ model' = Nothing => installed' = {}
  BY <1>12
<1>8. OneAtWork'
  BY <1>1, <1>2, <1>3, OneAtWorkKept
<1>9. \A v \in Checks : CheckSound(v)'
  BY <1>4, <1>5, <1>12, ChecksDisturbed DEF CopyModel
<1>10. Serial'
  <2> SUFFICES ASSUME ~overlapped
               PROVE  (\A d \in Creators : InOrder(d)') /\ CardFits' /\ Follows'
    BY <1>3 DEF Serial
  <2>1. \A d \in Creators \ {c} : creation'[d].step \in {"new", "done", "refused"}
    BY <1>1, <1>2, OthersRest
  <2>2. (\A d \in Creators : InOrder(d)) /\ CardFits /\ Follows
    BY DEF Serial
  <2> HIDE DEF PackageInv, PackageTyped
  <2>3. ASSUME NEW d \in Creators
        PROVE  InOrder(d)'
    <3>1. CASE d # c
      BY <2>1, <3>1 DEF InOrder, Copied, Hashed, Labelled
    <3>2. CASE d = c
      BY <1>1, <1>12, <3>2 DEF InOrder, Hashed, Labelled
    <3> QED
      BY <3>1, <3>2
  <2>4. CardFits'
    BY <1>3, <2>2 DEF CardFits, Misnamed
  <2>5. Follows'
    BY <1>1, <1>2, <1>3, <2>2 DEF Follows, Labelling
  <2> QED
    BY <2>3, <2>4, <2>5
<1>11. PackageTyped'
  BY <1>4, <1>6, <1>7, <1>9 DEF CheckSound
<1> HIDE DEF PackageInv, PackageTyped
<1> QED
  BY <1>5, <1>8, <1>9, <1>10, <1>11 DEF PackageInv, CheckSound

LEMMA StatCopyKeeps ==
  ASSUME PackageInv, NEW c \in Creators, StatCopy(c)
  PROVE  PackageInv'
<1> USE DEF PackageInv, PackageTyped
<1>1. /\ creation' \in [Creators -> CreationStates]
      /\ creation'[c].step = "stated"
      /\ creation'[c].truth = model
      /\ creation'[c].digest = creation[c].digest
      /\ \A d \in Creators \ {c} : creation'[d] = creation[d]
  <2> DEFINE k == [creation[c] EXCEPT !.step = "stated", !.truth = model]
  <2>1. creation[c] \in CreationStates /\ k \in CreationStates
    <3>1. creation[c] \in CreationStates /\ model \in Contents \cup {Nothing}
      BY DEF PackageTypeOK
    <3> HIDE DEF PackageInv, PackageTyped
    <3> QED
      BY <3>1 DEF CreationStates, CreationSteps
  <2>2. creation' = [creation EXCEPT ![c] = k]
    BY DEF StatCopy
  <2>3. /\ k.step = "stated"
        /\ k.truth = model
        /\ k.digest = creation[c].digest
    BY <2>1 DEF CreationStates
  <2> HIDE DEF k
  <2> QED
    BY <2>1, <2>2, <2>3 DEF PackageTypeOK
<1>2. creation[c].step = "copied" /\ Creating(c)
  BY DEF StatCopy, Creating
<1>3. UNCHANGED <<plan, model, labels, card, examples, digests, check, entry, broken,
                    overlapped, torn, installed>>
  BY DEF StatCopy, files, history
<1>4. PackageTypeOK'
  BY <1>1, <1>3 DEF PackageTypeOK
<1>5. CacheIsTrue' /\ GoesForward
  BY <1>3 DEF CacheIsTrue, GoesForward, PackageTypeOK
<1>6. ASSUME NEW d \in Creators
      PROVE  CreationKnows(d)'
  BY <1>1, <1>2, <1>3, RecipeFacts DEF CreationKnows, Copied, Hashed
<1>7. /\ model' \in installed' \cup {Nothing}
      /\ model' = Nothing => installed' = {}
  BY <1>3
<1>8. OneAtWork'
  BY <1>1, <1>2, <1>3, OneAtWorkKept
<1>9. \A v \in Checks : CheckSound(v)'
  BY <1>1, <1>2, <1>3, <1>4, <1>5, ChecksUntouched DEF Copied
<1>10. Serial'
  <2> SUFFICES ASSUME ~overlapped
               PROVE  (\A d \in Creators : InOrder(d)') /\ CardFits' /\ Follows'
    BY <1>3 DEF Serial
  <2>1. \A d \in Creators \ {c} : creation'[d].step \in {"new", "done", "refused"}
    BY <1>1, <1>2, OthersRest
  <2>2. (\A d \in Creators : InOrder(d)) /\ CardFits /\ Follows
    BY DEF Serial
  <2> HIDE DEF PackageInv, PackageTyped
  <2>3. ASSUME NEW d \in Creators
        PROVE  InOrder(d)'
    <3>1. CASE d # c
      BY <2>1, <3>1 DEF InOrder, Copied, Hashed, Labelled
    <3>2. CASE d = c
      BY <1>1, <1>2, <1>3, <2>2, <3>2 DEF InOrder, Copied, Hashed, Labelled
    <3> QED
      BY <3>1, <3>2
  <2>4. CardFits'
    BY <1>3, <2>2 DEF CardFits, Misnamed
  <2>5. Follows'
    BY <1>1, <1>2, <1>3, <2>2 DEF Follows, Labelling
  <2> QED
    BY <2>3, <2>4, <2>5
<1>11. PackageTyped'
  BY <1>4, <1>6, <1>7, <1>9 DEF CheckSound
<1> HIDE DEF PackageInv, PackageTyped
<1> QED
  BY <1>5, <1>8, <1>9, <1>10, <1>11 DEF PackageInv, CheckSound

LEMMA ReadCopyKeeps ==
  ASSUME PackageInv, NEW c \in Creators, ReadCopy(c)
  PROVE  PackageInv'
<1> USE DEF PackageInv, PackageTyped
<1>1. /\ creation' \in [Creators -> CreationStates]
      /\ creation'[c].step = "hashed"
      /\ creation'[c].truth = creation[c].truth
      /\ creation'[c].digest = model
      /\ \A d \in Creators \ {c} : creation'[d] = creation[d]
  <2> DEFINE k == [creation[c] EXCEPT !.step = "hashed", !.digest = model]
  <2>1. creation[c] \in CreationStates /\ k \in CreationStates
    <3>1. creation[c] \in CreationStates /\ model \in Contents \cup {Nothing}
      BY DEF PackageTypeOK
    <3> HIDE DEF PackageInv, PackageTyped
    <3> QED
      BY <3>1 DEF CreationStates, CreationSteps
  <2>2. creation' = [creation EXCEPT ![c] = k]
    BY DEF ReadCopy
  <2>3. /\ k.step = "hashed"
        /\ k.truth = creation[c].truth
        /\ k.digest = model
    BY <2>1 DEF CreationStates
  <2> HIDE DEF k
  <2> QED
    BY <2>1, <2>2, <2>3 DEF PackageTypeOK
<1>2. creation[c].step = "stated" /\ Creating(c)
  BY DEF ReadCopy, Creating
<1>3. UNCHANGED <<plan, model, labels, card, examples, check, entry, broken, overlapped, installed>>
  BY DEF ReadCopy, files, history
<1>12. /\ digests' \in [Processes -> [signature: {Signature[y] : y \in Contents} \cup {Nothing},
                                      digest: Contents \cup {Nothing}]]
       /\ torn' \in BOOLEAN
       /\ torn => torn'
       /\ CacheIsTrue'
       /\ model # Nothing
  <2>1. creation[c].truth \in installed /\ model # Nothing
    BY <1>2 DEF CreationKnows, Copied
  <2> QED
    BY <1>3, <2>1, CacheFilled, ProcessesKnown DEF ReadCopy
<1>4. PackageTypeOK'
  BY <1>1, <1>3, <1>12 DEF PackageTypeOK
<1>5. CacheIsTrue' /\ GoesForward
  BY <1>3, <1>12 DEF CacheIsTrue, GoesForward, PackageTypeOK
<1>6. ASSUME NEW d \in Creators
      PROVE  CreationKnows(d)'
  BY <1>1, <1>2, <1>3, <1>12 DEF CreationKnows, Copied, Hashed, PackageTypeOK
<1>7. /\ model' \in installed' \cup {Nothing}
      /\ model' = Nothing => installed' = {}
  BY <1>3
<1>8. OneAtWork'
  BY <1>1, <1>2, <1>3, OneAtWorkKept
<1>9. \A v \in Checks : CheckSound(v)'
  BY <1>1, <1>2, <1>3, <1>4, <1>5, ChecksUntouched DEF Copied
<1>10. Serial'
  <2> SUFFICES ASSUME ~overlapped
               PROVE  (\A d \in Creators : InOrder(d)') /\ CardFits' /\ Follows'
    BY <1>3 DEF Serial
  <2>1. \A d \in Creators \ {c} : creation'[d].step \in {"new", "done", "refused"}
    BY <1>1, <1>2, OthersRest
  <2>2. (\A d \in Creators : InOrder(d)) /\ CardFits /\ Follows
    BY DEF Serial
  <2> HIDE DEF PackageInv, PackageTyped
  <2>3. ASSUME NEW d \in Creators
        PROVE  InOrder(d)'
    <3>1. CASE d # c
      BY <2>1, <3>1 DEF InOrder, Copied, Hashed, Labelled
    <3>2. CASE d = c
      BY <1>1, <1>2, <1>3, <2>2, <3>2 DEF InOrder, Copied, Hashed, Labelled
    <3> QED
      BY <3>1, <3>2
  <2>4. CardFits'
    BY <1>3, <2>2 DEF CardFits, Misnamed
  <2>5. Follows'
    BY <1>1, <1>2, <1>3, <2>2 DEF Follows, Labelling
  <2> QED
    BY <2>3, <2>4, <2>5
<1>11. PackageTyped'
  BY <1>4, <1>6, <1>7, <1>9 DEF CheckSound
<1> HIDE DEF PackageInv, PackageTyped
<1> QED
  BY <1>5, <1>8, <1>9, <1>10, <1>11 DEF PackageInv, CheckSound

LEMMA LabelsKeep ==
  ASSUME PackageInv, NEW c \in Creators, WriteLabels(c)
  PROVE  PackageInv'
<1> USE DEF PackageInv, PackageTyped
<1>1. /\ creation' \in [Creators -> CreationStates]
      /\ creation'[c].step = "labelled"
      /\ creation'[c].truth = creation[c].truth
      /\ creation'[c].digest = creation[c].digest
      /\ \A d \in Creators \ {c} : creation'[d] = creation[d]
  BY GoesOn DEF WriteLabels, CreationSteps
<1>2. creation[c].step = "hashed" /\ Creating(c)
  BY DEF WriteLabels, Creating
<1>3. UNCHANGED <<plan, model, card, examples, digests, entry, broken, overlapped, torn, installed>>
  BY DEF WriteLabels, files, history
<1>4. PackageTypeOK'
  BY <1>1, <1>3, Disturbed DEF PackageTypeOK, WriteLabels
<1>5. CacheIsTrue' /\ GoesForward
  BY <1>3 DEF CacheIsTrue, GoesForward, PackageTypeOK
<1>6. ASSUME NEW d \in Creators
      PROVE  CreationKnows(d)'
  BY <1>1, <1>2, <1>3, RecipeFacts DEF CreationKnows, Copied, Hashed
<1>7. /\ model' \in installed' \cup {Nothing}
      /\ model' = Nothing => installed' = {}
  BY <1>3
<1>8. OneAtWork'
  BY <1>1, <1>2, <1>3, OneAtWorkKept
<1>9. \A v \in Checks : CheckSound(v)'
  BY <1>2, <1>3, <1>4, <1>5, ChecksDisturbed DEF WriteLabels, CreationKnows, Copied
<1>10. Serial'
  <2> SUFFICES ASSUME ~overlapped
               PROVE  (\A d \in Creators : InOrder(d)') /\ CardFits' /\ Follows'
    BY <1>3 DEF Serial
  <2>1. \A d \in Creators \ {c} : creation'[d].step \in {"new", "done", "refused"}
    BY <1>1, <1>2, OthersRest
  <2>2. (\A d \in Creators : InOrder(d)) /\ CardFits /\ Follows
    BY DEF Serial
  <2> HIDE DEF PackageInv, PackageTyped
  <2>3. ASSUME NEW d \in Creators
        PROVE  InOrder(d)'
    <3>1. CASE d # c
      BY <2>1, <3>1 DEF InOrder, Copied, Hashed, Labelled
    <3>2. CASE d = c
      BY <1>1, <1>2, <1>3, <2>2, <3>2 DEF InOrder, Copied, Hashed, WriteLabels
    <3> QED
      BY <3>1, <3>2
  <2>4. CardFits'
    BY <1>3, <2>2 DEF CardFits, Misnamed
  <2>5. Follows'
    <3>1. labels' = c /\ Recipe[c].content = model'
      BY <1>2, <1>3, <2>2 DEF WriteLabels, InOrder, Copied
    <3> QED
      BY <1>1, <3>1 DEF Follows, Matched
  <2> QED
    BY <2>3, <2>4, <2>5
<1>11. PackageTyped'
  BY <1>4, <1>6, <1>7, <1>9 DEF CheckSound
<1> HIDE DEF PackageInv, PackageTyped
<1> QED
  BY <1>5, <1>8, <1>9, <1>10, <1>11 DEF PackageInv, CheckSound

LEMMA CardKeeps ==
  ASSUME PackageInv, NEW c \in Creators, WriteCard(c)
  PROVE  PackageInv'
<1> USE DEF PackageInv, PackageTyped
<1>1. /\ creation' \in [Creators -> CreationStates]
      /\ creation'[c].step = "carded"
      /\ creation'[c].truth = creation[c].truth
      /\ creation'[c].digest = creation[c].digest
      /\ \A d \in Creators \ {c} : creation'[d] = creation[d]
  BY GoesOn DEF WriteCard, CreationSteps
<1>2. creation[c].step = "labelled" /\ Creating(c)
  BY DEF WriteCard, Creating
<1>3. UNCHANGED <<plan, model, labels, examples, digests, entry, broken, overlapped, torn, installed>>
  BY DEF WriteCard, files, history
<1>13. card' = [by |-> c, card |-> NewCard(c)] /\ NewCard(c) \in Cards
  <2>1. creation[c].digest \in Contents
    BY <1>2 DEF CreationKnows, Hashed
  <2>2. DefaultCard(creation[c].digest) \in Cards
    BY <2>1 DEF DefaultCard, Cards, Defects, ReleaseDefects
  <2> QED
    BY <2>1, <2>2, RecipeFacts DEF WriteCard, NewCard, Cards
<1>4. PackageTypeOK'
  BY <1>1, <1>3, <1>13, Disturbed DEF PackageTypeOK, WriteCard
<1>5. CacheIsTrue' /\ GoesForward
  BY <1>3 DEF CacheIsTrue, GoesForward, PackageTypeOK
<1>6. ASSUME NEW d \in Creators
      PROVE  CreationKnows(d)'
  BY <1>1, <1>2, <1>3, RecipeFacts DEF CreationKnows, Copied, Hashed
<1>7. /\ model' \in installed' \cup {Nothing}
      /\ model' = Nothing => installed' = {}
  BY <1>3
<1>8. OneAtWork'
  BY <1>1, <1>2, <1>3, OneAtWorkKept
<1>9. \A v \in Checks : CheckSound(v)'
  BY <1>2, <1>3, <1>4, <1>5, ChecksDisturbed DEF WriteCard, CreationKnows, Copied
<1>10. Serial'
  <2> SUFFICES ASSUME ~overlapped
               PROVE  (\A d \in Creators : InOrder(d)') /\ CardFits' /\ Follows'
    BY <1>3 DEF Serial
  <2>1. \A d \in Creators \ {c} : creation'[d].step \in {"new", "done", "refused"}
    BY <1>1, <1>2, OthersRest
  <2>2. (\A d \in Creators : InOrder(d)) /\ CardFits /\ Follows
    BY DEF Serial
  <2> HIDE DEF PackageInv, PackageTyped
  <2>3. ASSUME NEW d \in Creators
        PROVE  InOrder(d)'
    <3>1. CASE d # c
      BY <2>1, <3>1 DEF InOrder, Copied, Hashed, Labelled
    <3>2. CASE d = c
      BY <1>1, <1>2, <1>3, <2>2, <3>2 DEF InOrder, Copied, Hashed, Labelled
    <3> QED
      BY <3>1, <3>2
  <2>4. CardFits'
    <3>1. creation[c].digest = Recipe[c].content
      BY <1>2, <2>2 DEF InOrder, Hashed
    <3>2. Misnamed(c) \/ NewCard(c).digest \in {NoDigest, Recipe[c].content}
      BY <3>1 DEF NewCard, DefaultCard, Misnamed
    <3> QED
      BY <1>13, <3>2 DEF CardFits, Misnamed
  <2>5. Follows'
    <3>1. labels' = c /\ card'.by = c /\ Recipe[c].content = model'
      BY <1>2, <1>3, <1>13, <2>2 DEF InOrder, Labelled, Copied
    <3> QED
      BY <3>1 DEF Follows, Matched
  <2> QED
    BY <2>3, <2>4, <2>5
<1>11. PackageTyped'
  BY <1>4, <1>6, <1>7, <1>9 DEF CheckSound
<1> HIDE DEF PackageInv, PackageTyped
<1> QED
  BY <1>5, <1>8, <1>9, <1>10, <1>11 DEF PackageInv, CheckSound

LEMMA ExamplesKeep ==
  ASSUME PackageInv, NEW c \in Creators, CopyExamples(c)
  PROVE  PackageInv'
<1> USE DEF PackageInv, PackageTyped
<1>1. /\ creation' \in [Creators -> CreationStates]
      /\ creation'[c].step = "done"
      /\ creation'[c].truth = creation[c].truth
      /\ creation'[c].digest = creation[c].digest
      /\ \A d \in Creators \ {c} : creation'[d] = creation[d]
  BY GoesOn DEF CopyExamples, CreationSteps
<1>2. creation[c].step = "carded" /\ Creating(c)
  BY DEF CopyExamples, Creating
<1>3. UNCHANGED <<plan, model, labels, card, digests, entry, broken, overlapped, torn, installed>>
  BY DEF CopyExamples, files, history
<1>4. PackageTypeOK'
  BY <1>1, <1>3, Disturbed DEF PackageTypeOK, CopyExamples
<1>5. CacheIsTrue' /\ GoesForward
  BY <1>3 DEF CacheIsTrue, GoesForward, PackageTypeOK
<1>6. ASSUME NEW d \in Creators
      PROVE  CreationKnows(d)'
  BY <1>1, <1>2, <1>3, RecipeFacts DEF CreationKnows, Copied, Hashed
<1>7. /\ model' \in installed' \cup {Nothing}
      /\ model' = Nothing => installed' = {}
  BY <1>3
<1>8. OneAtWork'
  BY <1>1, <1>2, <1>3, OneAtWorkKept
<1>9. \A v \in Checks : CheckSound(v)'
  BY <1>2, <1>3, <1>4, <1>5, ChecksDisturbed DEF CopyExamples, CreationKnows, Copied
<1>10. Serial'
  <2> SUFFICES ASSUME ~overlapped
               PROVE  (\A d \in Creators : InOrder(d)') /\ CardFits' /\ Follows'
    BY <1>3 DEF Serial
  <2>1. \A d \in Creators \ {c} : creation'[d].step \in {"new", "done", "refused"}
    BY <1>1, <1>2, OthersRest
  <2>2. (\A d \in Creators : InOrder(d)) /\ CardFits /\ Follows
    BY DEF Serial
  <2> HIDE DEF PackageInv, PackageTyped
  <2>3. ASSUME NEW d \in Creators
        PROVE  InOrder(d)'
    <3>1. CASE d # c
      BY <2>1, <3>1 DEF InOrder, Copied, Hashed, Labelled
    <3>2. CASE d = c
      BY <1>1, <3>2 DEF InOrder, Copied, Hashed, Labelled
    <3> QED
      BY <3>1, <3>2
  <2>4. CardFits'
    BY <1>3, <2>2 DEF CardFits, Misnamed
  <2>5. Follows'
    BY <1>1, <1>2, <1>3, <2>2 DEF Follows, Labelling, Matched
  <2> QED
    BY <2>3, <2>4, <2>5
<1>11. PackageTyped'
  BY <1>4, <1>6, <1>7, <1>9 DEF CheckSound
<1> HIDE DEF PackageInv, PackageTyped
<1> QED
  BY <1>5, <1>8, <1>9, <1>10, <1>11 DEF PackageInv, CheckSound

\* A creation that begins has the package to itself, or the two overlap.
LEMMA BeginKeeps ==
  ASSUME PackageInv, NEW c \in Creators, BeginCreation(c)
  PROVE  PackageInv'
<1> USE DEF PackageInv, PackageTyped
<1>1. /\ creation' \in [Creators -> CreationStates]
      /\ creation'[c].step \in {"refused", "begun"}
      /\ creation'[c].truth = creation[c].truth
      /\ creation'[c].digest = creation[c].digest
      /\ \A d \in Creators \ {c} : creation'[d] = creation[d]
  BY GoesOn DEF BeginCreation, CreationSteps
<1>2. creation[c].step = "new"
  BY DEF BeginCreation
<1>3. /\ UNCHANGED <<plan, model, labels, card, examples, digests, check, entry, broken, torn, installed>>
      /\ overlapped' = (overlapped \/ AtWork(c))
  BY DEF BeginCreation, files
<1>4. PackageTypeOK'
  BY <1>1, <1>3 DEF PackageTypeOK, AtWork
<1>5. CacheIsTrue' /\ GoesForward
  BY <1>3 DEF CacheIsTrue, GoesForward, PackageTypeOK
<1>6. \A d \in Creators : CreationKnows(d)'
  BY <1>1, <1>3 DEF CreationKnows, Copied, Hashed
<1>7. OneAtWork'
  BY <1>1, <1>3 DEF OneAtWork, AtWork, Creating
<1>8. \A v \in Checks : CheckSound(v)'
  BY <1>1, <1>3, <1>4, <1>5, ChecksUntouched DEF Copied
<1>9. Serial'
  BY <1>1, <1>2, <1>3 DEF Serial, InOrder, CardFits, Misnamed, Follows, Labelling, Matched, Copied, Hashed, Labelled
<1>10. PackageTyped'
  BY <1>3, <1>4, <1>6, <1>8 DEF CheckSound
<1> HIDE DEF PackageInv, PackageTyped
<1> QED
  BY <1>5, <1>7, <1>8, <1>9, <1>10 DEF PackageInv, CheckSound

\* One that breaks off leaves labels that fit, if it is the first to do so.
LEMMA BreakKeeps ==
  ASSUME PackageInv, NEW c \in Creators, BreakOff(c)
  PROVE  PackageInv'
<1> USE DEF PackageInv, PackageTyped
<1>1. /\ creation' \in [Creators -> CreationStates]
      /\ creation'[c].step = "refused"
      /\ creation'[c].truth = creation[c].truth
      /\ creation'[c].digest = creation[c].digest
      /\ \A d \in Creators \ {c} : creation'[d] = creation[d]
  BY GoesOn DEF BreakOff, CreationSteps
<1>2. Creating(c)
  BY DEF BreakOff
<1>3. /\ UNCHANGED <<plan, model, labels, card, examples, digests, check, entry, overlapped, torn, installed>>
      /\ broken \in Nat /\ broken' = broken + 1
  BY DEF BreakOff, files, PackageTypeOK
<1>4. PackageTypeOK'
  BY <1>1, <1>3 DEF PackageTypeOK
<1>5. CacheIsTrue' /\ GoesForward
  BY <1>3 DEF CacheIsTrue, GoesForward
<1>6. \A d \in Creators : CreationKnows(d)'
  BY <1>1, <1>3 DEF CreationKnows, Copied, Hashed
<1>7. OneAtWork'
  BY <1>1, <1>2, <1>3, OneAtWorkKept
<1>8. \A v \in Checks : CheckSound(v)'
  BY <1>1, <1>3, <1>4, <1>5, ChecksUntouched DEF Copied
<1>9. Serial'
  <2> SUFFICES ASSUME ~overlapped
               PROVE  (\A d \in Creators : InOrder(d)') /\ CardFits' /\ Follows'
    BY <1>3 DEF Serial
  <2>1. \A d \in Creators \ {c} : creation'[d].step \in {"new", "done", "refused"}
    BY <1>1, <1>2, OthersRest
  <2>2. (\A d \in Creators : InOrder(d)) /\ CardFits /\ Follows
    BY DEF Serial
  <2> HIDE DEF PackageInv, PackageTyped
  <2>3. \A d \in Creators : InOrder(d)'
    BY <1>1, <2>1 DEF InOrder, Copied, Hashed, Labelled
  <2>4. CardFits'
    BY <1>3, <2>2 DEF CardFits, Misnamed
  <2>5. broken' # 0
    BY <1>3
  <2>6. ASSUME broken' <= 1
        PROVE  Matched
    <3>1. broken = 0
      BY <1>3, <2>6
    <3>2. CASE creation[c].step = "labelled"
      BY <2>2, <3>2 DEF InOrder, Labelled, Copied, Matched
    <3>3. CASE creation[c].step # "labelled"
      <4>1. \A d \in Creators : creation[d].step # "labelled"
        BY <1>1, <2>1, <3>3
      <4> QED
        BY <2>2, <3>1, <4>1 DEF Follows, Matched
    <3> QED
      BY <3>2, <3>3
  <2>7. Follows'
    BY <1>3, <2>5, <2>6 DEF Follows, Matched
  <2> QED
    BY <2>3, <2>4, <2>7
<1>10. PackageTyped'
  BY <1>3, <1>4, <1>6, <1>8 DEF CheckSound
<1> HIDE DEF PackageInv, PackageTyped
<1> QED
  BY <1>5, <1>7, <1>8, <1>9, <1>10 DEF PackageInv, CheckSound

LEMMA PackageInitInv == PackageInit => PackageInv
<1> SUFFICES ASSUME PackageInit
             PROVE  PackageInv
  OBVIOUS
<1> USE DEF PackageInit
<1>1. PackageTypeOK
  <2>1. creation \in [Creators -> CreationStates]
    BY DEF CreationStates, CreationSteps
  <2>2. NoCheck \in CheckStates
    BY DEF NoCheck, CheckStates, CheckSteps
  <2>3. card \in [by: Creators \cup {Nothing}, card: Cards]
    BY DEF DefaultCard, Cards, Defects, ReleaseDefects
  <2> QED
    BY <2>1, <2>2, <2>3 DEF PackageTypeOK
<1>2. \A c \in Creators : creation[c].step = "new"
  OBVIOUS
<1>3. \A v \in Checks : check[v].step = "new"
  BY DEF NoCheck
<1>4. PackageTyped
  BY <1>1, <1>2, <1>3 DEF PackageTyped, CreationKnows, CheckKnows, Copied, Hashed, Digested
<1>5. OneAtWork
  BY <1>2 DEF OneAtWork, Creating
<1>6. card.by = Nothing /\ card.card.digest = NoDigest
  BY DEF DefaultCard
<1>7. Serial
  BY <1>2, <1>6 DEF Serial, InOrder, CardFits, Misnamed, Follows, Labelling, Matched, Copied, Hashed, Labelled
<1>8. CacheIsTrue
  BY DEF CacheIsTrue
<1>9. \A v \in Checks : CalmHolds(v) /\ CheckHolds(v)
  BY <1>3 DEF CalmHolds, CheckHolds, ReadsHold, DigestHolds, CardHolds, OwnHolds, NamesHold,
              Digested, CardRead, NamesRead, Resting
<1> QED
  BY <1>4, <1>5, <1>7, <1>8, <1>9 DEF PackageInv

LEMMA PackageStep == PackageInv /\ [PackageNext]_packageVars => PackageInv'
<1> SUFFICES ASSUME PackageInv, [PackageNext]_packageVars
             PROVE  PackageInv'
  OBVIOUS
<1>1. CASE UNCHANGED packageVars
  <2>1. UNCHANGED <<plan, model, labels, card, examples, creation, digests, check, entry,
                    broken, overlapped, torn, installed>>
    BY <1>1 DEF packageVars, files, history
  <2>2. PackageTypeOK' /\ CacheIsTrue' /\ OneAtWork'
    BY <2>1 DEF PackageInv, PackageTyped, PackageTypeOK, CacheIsTrue, OneAtWork, Creating
  <2>3. Serial' /\ GoesForward
    BY <2>1 DEF PackageInv, PackageTyped, PackageTypeOK, Serial, InOrder, CardFits, Misnamed, Follows,
                Labelling, Matched, GoesForward
  <2>4. \A v \in Checks : CheckSound(v)'
    BY <2>1, <2>2, <2>3, ChecksUntouched
  <2>5. \A c \in Creators : CreationKnows(c)'
    BY <2>1 DEF PackageInv, PackageTyped, CreationKnows
  <2>6. PackageTyped'
    BY <2>1, <2>2, <2>4, <2>5 DEF PackageInv, PackageTyped, CheckSound
  <2> QED
    BY <2>2, <2>3, <2>4, <2>6 DEF PackageInv, CheckSound
<1>2. ASSUME NEW c \in Creators,
             \/ BeginCreation(c) \/ CopyModel(c) \/ StatCopy(c) \/ ReadCopy(c)
             \/ WriteLabels(c) \/ WriteCard(c) \/ CopyExamples(c) \/ BreakOff(c)
      PROVE  PackageInv'
  BY <1>2, BeginKeeps, CopyKeeps, StatCopyKeeps, ReadCopyKeeps, LabelsKeep, CardKeeps, ExamplesKeep,
     BreakKeeps
<1>3. ASSUME NEW v \in Checks,
             \/ FindModel(v) \/ StatModel(v) \/ ReadModel(v) \/ ReadCard(v)
             \/ ReadLabels(v) \/ ReadExamples(v) \/ RefusePackage(v) \/ UpsertModel(v)
      PROVE  PackageInv'
  BY <1>3, FindKeeps, StatKeeps, ReadModelKeeps, ReadCardKeeps, ReadLabelsKeeps, ReadExamplesKeeps,
     RefuseKeeps, UpsertKeeps
<1> QED
  BY <1>1, <1>2, <1>3 DEF PackageNext

LEMMA PackageInvariance == PackageSpec => []PackageInv
BY PackageInitInv, PackageStep, PTL DEF PackageSpec

\* The type invariant, for all creations, validations, contents and bounds.
THEOREM PackageTypes == PackageSpec => []PackageTypeOK
<1>1. PackageInv => PackageTypeOK
  BY DEF PackageInv, PackageTyped
<1> QED
  BY <1>1, PackageInvariance, PTL

\* It takes two faults to deceive a strict validation that passes while nobody writes: with
\* a creation that broke off, or a stale digest cache, or a card that names another model, but
\* no two of them, what it has seen is of the very model file (validate_model_package,
\* create_model_package, sha256_file).  If no creation broke off, model, labels and card are of
\* one creation, and the card betrays a stale digest; if one did, the digest betrays them.
THEOREM VerdictsAreSound == PackageSpec => []VerdictIsSound
<1>1. PackageInv => VerdictIsSound
  <2> SUFFICES ASSUME PackageInv, NEW v \in Checks,
                      check[v].step \in {"valid", "passed", "registered"}, check[v].calm,
                      Asks[v].hash, Asks[v].sidecars, ~overlapped, Faults(v) <= 1
               PROVE  /\ check[v].digest = check[v].truth
                      /\ Recipe[check[v].labels].content = check[v].truth
                      /\ Recipe[check[v].card].content = check[v].truth
    BY DEF VerdictIsSound
  <2>1. DigestHolds(v) /\ CardHolds(v) /\ OwnHolds(v) /\ NamesHold(v)
    BY DEF PackageInv, CheckHolds, ReadsHold
  <2>2. /\ check[v].step \in Digested
        /\ check[v].step \in CardRead
        /\ check[v].step \in NamesRead
    BY DEF Digested, CardRead, NamesRead
  <2>3. \/ broken = 0 /\ (~StaleCache \/ ~Misnamed(check[v].card))
        \/ broken = 1 /\ ~StaleCache /\ ~Misnamed(check[v].card)
    <3>1. broken \in Nat
      BY DEF PackageInv, PackageTyped, PackageTypeOK
    <3> QED
      BY <3>1 DEF Faults
  <2>4. CASE broken = 0 /\ (~StaleCache \/ ~Misnamed(check[v].card))
    <3>1. Recipe[check[v].card].content = check[v].truth
      BY <2>1, <2>2, <2>4 DEF OwnHolds
    <3>2. Recipe[check[v].labels].content = check[v].truth
      BY <2>1, <2>2, <2>4 DEF NamesHold
    <3>3. check[v].digest = check[v].truth
      BY <2>1, <2>2, <2>4, <3>1 DEF DigestHolds, CardHolds
    <3> QED
      BY <3>1, <3>2, <3>3
  <2>5. CASE broken = 1 /\ ~StaleCache /\ ~Misnamed(check[v].card)
    <3>1. check[v].digest = check[v].truth
      BY <2>1, <2>2, <2>5 DEF DigestHolds
    <3>2. Recipe[check[v].card].content = check[v].truth
      BY <2>1, <2>2, <2>5, <3>1 DEF CardHolds
    <3>3. Recipe[check[v].labels].content = check[v].truth
      BY <2>1, <2>2, <2>5 DEF NamesHold
    <3> QED
      BY <3>1, <3>2, <3>3
  <2> QED
    BY <2>3, <2>4, <2>5
<1> QED
  BY <1>1, PackageInvariance, PTL

-----------------------------------------------------------------------------
(* JobLogFeed *)

\* On SQLite only the writer has inserted anything.
OneInserts ==
  \A t \in Loggers :
    /\ inserted[t] <= Len(taken[t])
    /\ store # "postgres" /\ inserted[t] > 0 => writer = t

\* On SQLite the rows of the open transaction are the last ones, the beginning of its batch.
Settled == Len(logRow) - (IF writer = NoThread THEN 0 ELSE inserted[writer])
OpenRowsLast ==
  store # "postgres" =>
    /\ Settled \in Nat
    /\ \A i \in 1 .. Settled : logRow[i].state # "open"
    /\ writer # NoThread =>
         \A k \in 1 .. inserted[writer] : logRow[Settled + k] = OpenRow(taken[writer][k])

\* The buffer holds logged lines, those of one source in their order.
BufferOrdered ==
  \A k \in DOMAIN pending :
    /\ pending[k][2] \in 1 .. emitted[pending[k][1]]
    /\ \A j \in 1 .. k - 1 : pending[j][1] = pending[k][1] => pending[j][2] < pending[k][2]

\* No line is twice in batches, or in a batch and in the buffer.
BatchesApart ==
  \A t \in Loggers : \A i \in DOMAIN taken[t] :
    /\ taken[t][i] \in Batched
    /\ \A u \in Loggers : \A j \in DOMAIN taken[u] : taken[t][i] = taken[u][j] => t = u /\ i = j

LogInv == JobLogTypeOK /\ OneInserts /\ OpenRowsLast /\ BufferOrdered /\ BatchesApart

LEMMA LoggedLines ==
  ASSUME NEW E \in [Loggers -> Nat], NEW line
  PROVE  line \in UNION {{<<t, n>> : n \in 1 .. E[t]} : t \in Loggers}
           <=> line \in Loggers \X Nat /\ line[2] \in 1 .. E[line[1]]
<1>1. ASSUME line \in UNION {{<<t, n>> : n \in 1 .. E[t]} : t \in Loggers}
      PROVE  line \in Loggers \X Nat /\ line[2] \in 1 .. E[line[1]]
  <2>1. PICK t \in Loggers : \E n \in 1 .. E[t] : line = <<t, n>>
    BY <1>1
  <2> QED
    BY <2>1
<1>2. ASSUME line \in Loggers \X Nat, line[2] \in 1 .. E[line[1]]
      PROVE  line \in UNION {{<<t, n>> : n \in 1 .. E[t]} : t \in Loggers}
  <2>1. line = <<line[1], line[2]>> /\ line[1] \in Loggers
    BY <1>2
  <2>2. line \in {<<line[1], n>> : n \in 1 .. E[line[1]]}
    BY <2>1, <1>2
  <2> QED
    BY <2>1, <2>2
<1> QED
  BY <1>1, <1>2

\* The lines in a sequence.
LinesOf(batch) == {batch[i] : i \in DOMAIN batch}

LEMMA BatchedLines ==
  ASSUME emitted \in [Loggers -> Nat], NEW line
  PROVE  line \in Batched <=> /\ line \in Loggers \X Nat
                             /\ line[2] \in 1 .. emitted[line[1]]
                             /\ line \notin LinesOf(pending)
<1>1. line \in UNION {{<<t, n>> : n \in 1 .. emitted[t]} : t \in Loggers}
        <=> line \in Loggers \X Nat /\ line[2] \in 1 .. emitted[line[1]]
  BY LoggedLines
<1> QED
  BY <1>1 DEF Batched, LinesOf

LEMMA BatchedNext ==
  ASSUME emitted' \in [Loggers -> Nat], NEW line
  PROVE  line \in Batched' <=> /\ line \in Loggers \X Nat
                              /\ line[2] \in 1 .. emitted'[line[1]]
                              /\ line \notin LinesOf(pending')
<1>1. line \in UNION {{<<t, n>> : n \in 1 .. emitted'[t]} : t \in Loggers}
        <=> line \in Loggers \X Nat /\ line[2] \in 1 .. emitted'[line[1]]
  BY LoggedLines
<1> QED
  BY <1>1 DEF Batched, LinesOf

LEMMA LinesOfAppend ==
  ASSUME NEW lines \in Seq(Loggers \X Nat), NEW line \in Loggers \X Nat,
         NEW longer, longer = Append(lines, line)
  PROVE  /\ longer \in Seq(Loggers \X Nat) /\ longer # <<>>
         /\ \A i \in DOMAIN longer : i \in DOMAIN lines \/ longer[i] = line
         /\ \A i \in DOMAIN longer :
              \A k \in 1 .. i - 1 : k \in DOMAIN lines /\ longer[k] = lines[k]
         /\ \A i \in DOMAIN lines : longer[i] = lines[i]
         /\ \A i \in (DOMAIN longer) \ (DOMAIN lines) : DOMAIN lines = 1 .. i - 1
         /\ LinesOf(longer) = LinesOf(lines) \cup {line}
<1>1. /\ longer \in Seq(Loggers \X Nat) /\ longer # <<>> /\ Len(longer) = Len(lines) + 1
      /\ \A k \in 1 .. Len(lines) : longer[k] = lines[k]
      /\ longer[Len(lines) + 1] = line
  BY AppendProperties
<1>2. /\ DOMAIN longer = 1 .. Len(lines) + 1 /\ DOMAIN lines = 1 .. Len(lines)
      /\ Len(lines) \in Nat
  BY <1>1
<1>3. DOMAIN longer = DOMAIN lines \cup {Len(lines) + 1}
  BY <1>2
<1>4. LinesOf(longer) = LinesOf(lines) \cup {line}
  <2>1. LinesOf(longer) = {longer[k] : k \in DOMAIN lines} \cup {longer[Len(lines) + 1]}
    BY <1>3 DEF LinesOf
  <2>2. {longer[k] : k \in DOMAIN lines} = LinesOf(lines)
    BY <1>1, <1>2 DEF LinesOf
  <2> QED
    BY <1>1, <2>1, <2>2
<1> QED
  BY <1>1, <1>2, <1>3, <1>4

\* The buffer's lines come after those that were batched, in their order.
LEMMA PendingFollows ==
  ASSUME LogInv
  PROVE  /\ pending \in Seq(Loggers \X Nat)
         /\ Feed!Continues(pending)
<1>1. pending \in Seq(Pumps \X Nat) /\ emitted \in [Loggers -> Nat]
  BY DEF LogInv, JobLogTypeOK
<1>2. \A k \in DOMAIN pending : pending[k] \in Pumps \X Nat /\ pending[k] \in Loggers \X Nat
  BY <1>1 DEF Loggers
<1>3. pending \in Seq(Loggers \X Nat)
  BY <1>1, <1>2
<1>4. ASSUME NEW i \in DOMAIN pending
      PROVE  pending[i] \notin Batched \cup {pending[k] : k \in 1 .. i - 1}
  <2>1. pending[i] \notin Batched
    BY <1>1, BatchedLines DEF LinesOf
  <2>2. ASSUME NEW k \in 1 .. i - 1
        PROVE  pending[i] # pending[k]
    <3>1. k \in DOMAIN pending
      BY <1>1
    <3>2. pending[k][1] = pending[i][1] => pending[k][2] < pending[i][2]
      BY DEF LogInv, BufferOrdered
    <3> QED
      BY <3>1, <3>2, <1>2
  <2> QED
    BY <2>1, <2>2
<1>5. ASSUME NEW i \in DOMAIN pending, NEW n \in 1 .. pending[i][2] - 1
      PROVE  <<pending[i][1], n>> \in Batched \cup {pending[k] : k \in 1 .. i - 1}
  <2> DEFINE line == <<pending[i][1], n>>
  <2>1. line \in Loggers \X Nat /\ line[2] \in 1 .. emitted[line[1]]
    <3>1. pending[i][2] \in 1 .. emitted[pending[i][1]]
      BY DEF LogInv, BufferOrdered
    <3> QED
      BY <3>1, <1>1, <1>2
  <2>2. CASE line \in Batched
    BY <2>2
  <2>3. CASE line \notin Batched
    <3>1. PICK k \in DOMAIN pending : pending[k] = line
      BY <2>1, <2>3, <1>1, BatchedLines DEF LinesOf
    <3>2. k \in Nat /\ i \in Nat /\ k \in 1 .. Len(pending) /\ i \in 1 .. Len(pending)
      BY <1>1
    <3>3. /\ pending[i] \in Pumps \X Nat /\ pending[k][2] < pending[i][2]
          /\ pending[k][1] = pending[i][1]
      BY <3>1, <1>2
    <3>4. ~(i < k)
      <4> SUFFICES ASSUME i < k
                   PROVE  FALSE
        OBVIOUS
      <4>1. i \in 1 .. k - 1
        BY <3>2
      <4>2. pending[i][2] < pending[k][2]
        BY <4>1, <3>3 DEF LogInv, BufferOrdered
      <4> QED
        BY <4>2, <3>1, <3>3, <1>2
    <3>5. i # k
      BY <3>3, <1>2
    <3>6. k \in 1 .. i - 1
      BY <3>2, <3>4, <3>5
    <3> QED
      BY <3>1, <3>6
  <2> QED
    BY <2>2, <2>3
<1> QED
  BY <1>3, <1>4, <1>5 DEF Feed!Continues

\* A line that is logged joins the buffer's lines or its batch, and no other.
LEMMA OneLogged ==
  ASSUME LogInv, NEW t \in Loggers, emitted' = [emitted EXCEPT ![t] = @ + 1]
  PROVE  /\ NextLine(t) \in Loggers \X Nat
         /\ NextLine(t) \notin Batched
         /\ NextLine(t) \notin LinesOf(pending)
         /\ emitted' \in [Loggers -> Nat]
         /\ \A line : /\ line \in Loggers \X Nat
                     /\ line[2] \in 1 .. emitted'[line[1]]
                   <=> \/ line = NextLine(t)
                       \/ line \in Loggers \X Nat /\ line[2] \in 1 .. emitted[line[1]]
<1>1. emitted \in [Loggers -> Nat] /\ pending \in Seq(Pumps \X Nat)
  BY DEF LogInv, JobLogTypeOK
<1>2. NextLine(t) \in Loggers \X Nat /\ emitted' \in [Loggers -> Nat]
  BY <1>1 DEF NextLine
<1>3. NextLine(t)[1] = t /\ NextLine(t)[2] = emitted[t] + 1
  BY DEF NextLine
<1>4. NextLine(t) \notin Batched
  BY <1>1, <1>2, <1>3, BatchedLines
<1>5. NextLine(t) \notin LinesOf(pending)
  <2> SUFFICES ASSUME NEW k \in DOMAIN pending, pending[k] = NextLine(t)
               PROVE  FALSE
    BY DEF LinesOf
  <2>1. pending[k][2] <= emitted[t]
    BY <1>1, <1>3 DEF LogInv, BufferOrdered
  <2> QED
    BY <2>1, <1>1, <1>3
<1>6. ASSUME NEW line \in Loggers \X Nat
      PROVE  line[2] \in 1 .. emitted'[line[1]]
             <=> line = NextLine(t) \/ line[2] \in 1 .. emitted[line[1]]
  <2>1. CASE line[1] = t
    BY <2>1, <1>1, <1>3 DEF NextLine
  <2>2. CASE line[1] # t
    BY <2>2, <1>1, <1>3
  <2> QED
    BY <2>1, <2>2
<1> QED
  BY <1>2, <1>4, <1>5, <1>6

LEMMA AddLineKeeps ==
  ASSUME LogInv, NEW t \in Loggers, AddLine(t)
  PROVE  LogInv' /\ Batched' = Batched
<1>1. /\ JobLogTypeOK
      /\ pending' = Append(pending, NextLine(t))
      /\ emitted' = [emitted EXCEPT ![t] = @ + 1]
      /\ UNCHANGED <<store, taken, inserted, logRow, writer, since, delivered, alive>>
      /\ t \in Pumps
  BY DEF AddLine, clientVars, LogInv
<1>2. NextLine(t) \in Pumps \X Nat
  BY <1>1 DEF NextLine, JobLogTypeOK
<1>3. /\ pending \in Seq(Pumps \X Nat)
      /\ pending' \in Seq(Pumps \X Nat)
      /\ Len(pending') = Len(pending) + 1
      /\ \A k \in 1 .. Len(pending) : pending'[k] = pending[k]
      /\ pending'[Len(pending) + 1] = NextLine(t)
  BY <1>1, <1>2, AppendProperties DEF JobLogTypeOK
<1>4. LinesOf(pending') = LinesOf(pending) \cup {NextLine(t)}
  <2>1. pending' = Append(pending, NextLine(t)) /\ NextLine(t) \in Loggers \X Nat
    BY <1>1, <1>2 DEF Loggers
  <2>2. pending \in Seq(Loggers \X Nat)
    BY PendingFollows
  <2>3. LinesOf(Append(pending, NextLine(t))) = LinesOf(pending) \cup {NextLine(t)}
    BY <2>1, <2>2, LinesOfAppend
  <2> QED
    BY <2>1, <2>3
<1>5. emitted \in [Loggers -> Nat] /\ emitted' \in [Loggers -> Nat]
  BY <1>1 DEF JobLogTypeOK
<1>6. Batched' = Batched
  BY <1>1, <1>4, <1>5, OneLogged, BatchedLines, BatchedNext
<1>7. JobLogTypeOK'
  BY <1>1, <1>3, <1>5 DEF JobLogTypeOK
<1>8. BufferOrdered'
  <2>1. ASSUME NEW k \in 1 .. Len(pending)
        PROVE  /\ pending'[k][2] \in 1 .. emitted'[pending'[k][1]]
               /\ \A j \in 1 .. k - 1 : pending'[j][1] = pending'[k][1]
                                          => pending'[j][2] < pending'[k][2]
    <3>1. pending[k] \in Pumps \X Nat /\ k \in DOMAIN pending
      BY <1>3
    <3>2. pending[k][2] \in 1 .. emitted[pending[k][1]]
      BY <3>1 DEF LogInv, BufferOrdered
    <3>3. pending[k][2] \in 1 .. emitted'[pending[k][1]]
      BY <3>1, <3>2, <1>1, <1>5 DEF Loggers
    <3>4. \A j \in 1 .. k - 1 : pending[j][1] = pending[k][1] => pending[j][2] < pending[k][2]
      BY <3>1 DEF LogInv, BufferOrdered
    <3>5. \A j \in 1 .. k - 1 : pending'[j] = pending[j]
      BY <1>3
    <3> QED
      BY <3>3, <3>4, <3>5, <1>3
  <2>2. ASSUME NEW k, k = Len(pending) + 1
        PROVE  /\ pending'[k][2] \in 1 .. emitted'[pending'[k][1]]
               /\ \A j \in 1 .. k - 1 : pending'[j][1] = pending'[k][1]
                                          => pending'[j][2] < pending'[k][2]
    <3>1. pending'[k][1] = t /\ pending'[k][2] = emitted[t] + 1 /\ emitted'[t] = emitted[t] + 1
      BY <2>2, <1>3, <1>1, <1>5 DEF NextLine
    <3>2. ASSUME NEW j \in 1 .. k - 1, pending'[j][1] = t
          PROVE  pending'[j][2] < emitted[t] + 1
      <4>1. pending'[j] = pending[j] /\ j \in DOMAIN pending /\ pending[j] \in Pumps \X Nat
        BY <1>3, <2>2
      <4>2. pending[j][2] \in 1 .. emitted[t]
        BY <3>2, <4>1 DEF LogInv, BufferOrdered
      <4> QED
        BY <4>1, <4>2, <1>5
    <3> QED
      BY <3>1, <3>2, <1>5
  <2>3. \A k \in DOMAIN pending' : k \in 1 .. Len(pending) \/ k = Len(pending) + 1
    BY <1>3
  <2> QED
    BY <2>1, <2>2, <2>3 DEF BufferOrdered
<1>9. OneInserts' /\ OpenRowsLast'
  BY <1>1 DEF LogInv, OneInserts, OpenRowsLast, Settled
<1>10. BatchesApart'
  BY <1>1, <1>6 DEF LogInv, BatchesApart
<1> QED
  BY <1>6, <1>7, <1>8, <1>9, <1>10 DEF LogInv

\* The ways to take a batch: all of the buffer, with one line more, or one line alone.
LEMMA TakeKeeps ==
  ASSUME LogInv, NEW t \in Loggers, taken[t] = <<>>,
         NEW batch \in Seq(Loggers \X Nat), batch # <<>>, Feed!Continues(batch),
         taken' = [taken EXCEPT ![t] = batch],
         emitted' \in [Loggers -> Nat],
         Batched' = Batched \cup LinesOf(batch),
         pending' \in Seq(Pumps \X Nat), BufferOrdered',
         UNCHANGED <<store, inserted, logRow, writer, since, delivered, alive>>
  PROVE  LogInv' /\ Feed!Hold
<1>1. taken \in [Loggers -> Seq(Loggers \X Nat)] /\ inserted \in [Loggers -> Nat]
  BY DEF LogInv, JobLogTypeOK
<1>2. taken' \in [Loggers -> Seq(Loggers \X Nat)]
  BY <1>1
<1>3. JobLogTypeOK'
  BY <1>2 DEF LogInv, JobLogTypeOK
<1>4. inserted[t] = 0
  BY <1>1 DEF LogInv, OneInserts
<1>5. OneInserts'
  <2> SUFFICES ASSUME NEW u \in Loggers
               PROVE  /\ inserted[u] <= Len(taken'[u])
                      /\ store # "postgres" /\ inserted[u] > 0 => writer = u
    BY DEF OneInserts
  <2>1. CASE u = t
    BY <2>1, <1>1, <1>4
  <2>2. CASE u # t
    BY <2>2, <1>1 DEF LogInv, OneInserts
  <2> QED
    BY <2>1, <2>2
<1>6. OpenRowsLast'
  <2>1. CASE writer = NoThread
    BY <2>1 DEF LogInv, OpenRowsLast, Settled
  <2>2. CASE writer = t
    BY <2>2, <1>4 DEF LogInv, OpenRowsLast, Settled
  <2>3. CASE writer \in Loggers \ {t}
    <3>1. taken'[writer] = taken[writer]
      BY <2>3, <1>1
    <3> QED
      BY <2>3, <3>1 DEF LogInv, OpenRowsLast, Settled
  <2> QED
    BY <2>1, <2>2, <2>3 DEF LogInv, JobLogTypeOK
<1>7. BatchesApart'
  <2>1. ASSUME NEW i \in DOMAIN batch, NEW j \in DOMAIN batch, batch[i] = batch[j]
        PROVE  i = j
    <3>1. ASSUME NEW k \in DOMAIN batch, NEW m \in DOMAIN batch, k < m
          PROVE  batch[k] # batch[m]
      BY <3>1 DEF Feed!Continues
    <3> QED
      BY <2>1, <3>1
  <2>2. \A i \in DOMAIN batch : batch[i] \in Batched' /\ batch[i] \notin Batched
    BY DEF LinesOf, Feed!Continues
  <2> SUFFICES ASSUME NEW u \in Loggers, NEW i \in DOMAIN taken'[u]
               PROVE  /\ taken'[u][i] \in Batched'
                      /\ \A v \in Loggers : \A j \in DOMAIN taken'[v] :
                           taken'[u][i] = taken'[v][j] => u = v /\ i = j
    BY DEF BatchesApart
  <2>3. CASE u = t
    <3>1. taken'[u] = batch
      BY <2>3, <1>1
    <3>2. ASSUME NEW v \in Loggers, v # t, NEW j \in DOMAIN taken'[v]
          PROVE  batch[i] # taken'[v][j]
      <4>1. taken'[v] = taken[v]
        BY <3>2, <1>1
      <4>2. taken[v][j] \in Batched
        BY <4>1 DEF LogInv, BatchesApart
      <4> QED
        BY <4>1, <4>2, <3>1, <2>2
    <3> QED
      BY <2>1, <2>2, <2>3, <3>1, <3>2
  <2>4. CASE u # t
    <3>1. taken'[u] = taken[u] /\ taken'[t] = batch
      BY <2>4, <1>1
    <3>2. taken[u][i] \in Batched
      BY <3>1 DEF LogInv, BatchesApart
    <3>3. ASSUME NEW v \in Loggers, v # t, NEW j \in DOMAIN taken'[v], taken[u][i] = taken'[v][j]
          PROVE  u = v /\ i = j
      <4>1. taken'[v] = taken[v]
        BY <3>3, <1>1
      <4> QED
        BY <3>1, <3>3, <4>1 DEF LogInv, BatchesApart
    <3> QED
      BY <2>2, <3>1, <3>2, <3>3
  <2> QED
    BY <2>3, <2>4
<1>8. Feed!Hold
  <2> DEFINE Held == {taken[u] : u \in Loggers} \ {<<>>}
  <2>1. \A u \in Loggers : taken'[u] = IF u = t THEN batch ELSE taken[u]
    BY <1>1
  <2>2. Held' = Held \cup {batch}
    BY <2>1
  <2>3. Published' = Published /\ Stored' = Stored
    BY DEF Published, Stored
  <2> HIDE DEF Held
  <2>4. /\ batch \in Held' /\ Held' = Held \cup {batch}
        /\ Batched' = Batched \cup {batch[i] : i \in DOMAIN batch}
    BY <2>2 DEF LinesOf
  <2> QED
    BY <2>4, <2>3 DEF Feed!Hold, Held
<1> QED
  BY <1>3, <1>5, <1>6, <1>7, <1>8 DEF LogInv

LEMMA TakeBufferKeeps ==
  ASSUME LogInv, TakeBuffer
  PROVE  LogInv' /\ Feed!Hold
<1>1. /\ taken[Executor] = <<>> /\ pending # <<>>
      /\ taken' = [taken EXCEPT ![Executor] = pending]
      /\ pending' = <<>>
      /\ UNCHANGED <<store, emitted, inserted, logRow, writer, since, delivered, alive>>
  BY DEF TakeBuffer, clientVars
<1>2. emitted \in [Loggers -> Nat] /\ emitted' \in [Loggers -> Nat] /\ Executor \in Loggers
  BY <1>1 DEF LogInv, JobLogTypeOK, Loggers
<1>3. LinesOf(pending') = {}
  BY <1>1 DEF LinesOf
<1>4. LinesOf(pending) \subseteq Loggers \X Nat
      /\ \A line \in LinesOf(pending) : line[2] \in 1 .. emitted[line[1]]
  BY PendingFollows DEF LinesOf, LogInv, BufferOrdered
<1>5. Batched' = Batched \cup LinesOf(pending)
  BY <1>1, <1>2, <1>3, <1>4, BatchedLines, BatchedNext
<1>6. pending' \in Seq(Pumps \X Nat) /\ BufferOrdered'
  BY <1>1 DEF BufferOrdered
<1> QED
  BY <1>1, <1>2, <1>5, <1>6, PendingFollows, TakeKeeps

LEMMA AddAndTakeKeeps ==
  ASSUME LogInv, NEW t \in Loggers, AddAndTake(t)
  PROVE  LogInv' /\ Feed!Hold
<1> DEFINE batch == Append(pending, NextLine(t))
<1>1. /\ taken[t] = <<>>
      /\ taken' = [taken EXCEPT ![t] = batch]
      /\ emitted' = [emitted EXCEPT ![t] = @ + 1]
      /\ pending' = <<>>
      /\ UNCHANGED <<store, inserted, logRow, writer, since, delivered, alive>>
  BY DEF AddAndTake, CanLog, clientVars
<1>2. emitted \in [Loggers -> Nat] /\ emitted' \in [Loggers -> Nat]
  BY <1>1 DEF LogInv, JobLogTypeOK
<1>3. /\ NextLine(t) \in Loggers \X Nat
      /\ NextLine(t) \notin Batched
      /\ NextLine(t) \notin LinesOf(pending)
      /\ \A line : /\ line \in Loggers \X Nat
                  /\ line[2] \in 1 .. emitted'[line[1]]
                <=> \/ line = NextLine(t)
                    \/ line \in Loggers \X Nat /\ line[2] \in 1 .. emitted[line[1]]
  BY <1>1, OneLogged
<1>4. batch = Append(pending, NextLine(t)) /\ pending \in Seq(Loggers \X Nat)
  BY PendingFollows
<1> HIDE DEF batch
<1>5. /\ batch \in Seq(Loggers \X Nat) /\ batch # <<>>
      /\ \A i \in DOMAIN batch : i \in DOMAIN pending \/ batch[i] = NextLine(t)
      /\ \A i \in DOMAIN batch :
           \A k \in 1 .. i - 1 : k \in DOMAIN pending /\ batch[k] = pending[k]
      /\ \A i \in DOMAIN pending : batch[i] = pending[i]
      /\ \A i \in (DOMAIN batch) \ (DOMAIN pending) : DOMAIN pending = 1 .. i - 1
      /\ LinesOf(batch) = LinesOf(pending) \cup {NextLine(t)}
  <2>1. NextLine(t) \in Loggers \X Nat
    BY <1>3
  <2>2. LinesOf(batch) = LinesOf(pending) \cup {NextLine(t)}
    BY <2>1, <1>4, LinesOfAppend
  <2>3. batch \in Seq(Loggers \X Nat) /\ batch # <<>>
    BY <2>1, <1>4, LinesOfAppend
  <2>4. \A i \in DOMAIN batch : i \in DOMAIN pending \/ batch[i] = NextLine(t)
    BY <2>1, <1>4, LinesOfAppend
  <2>5. \A i \in DOMAIN batch :
           \A k \in 1 .. i - 1 : k \in DOMAIN pending /\ batch[k] = pending[k]
    BY <2>1, <1>4, LinesOfAppend
  <2>6. \A i \in DOMAIN pending : batch[i] = pending[i]
    BY <2>1, <1>4, LinesOfAppend
  <2>7. \A i \in (DOMAIN batch) \ (DOMAIN pending) : DOMAIN pending = 1 .. i - 1
    BY <2>1, <1>4, LinesOfAppend
  <2> QED
    BY <2>2, <2>3, <2>4, <2>5, <2>6, <2>7
<1>6. LinesOf(pending') = {}
  BY <1>1 DEF LinesOf
<1>7. LinesOf(pending) \subseteq Loggers \X Nat
      /\ \A line \in LinesOf(pending) : line[2] \in 1 .. emitted[line[1]]
  BY PendingFollows DEF LinesOf, LogInv, BufferOrdered
<1>8. Batched' = Batched \cup LinesOf(batch)
  BY <1>2, <1>3, <1>5, <1>6, <1>7, BatchedLines, BatchedNext
<1>9. Feed!Continues(batch)
  <2> SUFFICES ASSUME NEW i \in DOMAIN batch
               PROVE  /\ batch[i] \notin Batched \cup {batch[k] : k \in 1 .. i - 1}
                      /\ \A n \in 1 .. batch[i][2] - 1 :
                           <<batch[i][1], n>> \in Batched \cup {batch[k] : k \in 1 .. i - 1}
    BY DEF Feed!Continues
  <2>1. CASE i \in DOMAIN pending
    <3>1. batch[i] = pending[i]
      BY <2>1, <1>5
    <3>2. {batch[k] : k \in 1 .. i - 1} = {pending[k] : k \in 1 .. i - 1}
      BY <1>5
    <3> QED
      BY <2>1, <3>1, <3>2, PendingFollows DEF Feed!Continues
  <2>2. CASE i \notin DOMAIN pending
    <3>1. batch[i] = NextLine(t) /\ DOMAIN pending = 1 .. i - 1
      BY <2>2, <1>5
    <3>2. {batch[k] : k \in 1 .. i - 1} = LinesOf(pending)
      BY <3>1, <1>5 DEF LinesOf
    <3>3. ASSUME NEW n \in 1 .. batch[i][2] - 1
          PROVE  <<batch[i][1], n>> \in Batched \cup LinesOf(pending)
      <4>1. batch[i][1] = t /\ n \in 1 .. emitted[t]
        BY <3>1, <1>2 DEF NextLine
      <4>2. <<t, n>> \in Loggers \X Nat /\ <<t, n>>[2] \in 1 .. emitted[<<t, n>>[1]]
        BY <4>1, <1>2
      <4> QED
        BY <4>1, <4>2, <1>2, BatchedLines
    <3> QED
      BY <3>1, <3>2, <3>3, <1>3
  <2> QED
    BY <2>1, <2>2
<1>10. pending' \in Seq(Pumps \X Nat) /\ BufferOrdered'
  BY <1>1 DEF BufferOrdered
<1> QED
  BY <1>1, <1>2, <1>5, <1>8, <1>9, <1>10, TakeKeeps

LEMMA LogEventKeeps ==
  ASSUME LogInv, LogEvent
  PROVE  LogInv' /\ Feed!Hold
<1> DEFINE batch == <<NextLine(Executor)>>
<1>1. /\ taken[Executor] = <<>>
      /\ taken' = [taken EXCEPT ![Executor] = batch]
      /\ emitted' = [emitted EXCEPT ![Executor] = @ + 1]
      /\ UNCHANGED <<store, pending, inserted, logRow, writer, since, delivered, alive>>
      /\ Executor \in Loggers
  BY DEF LogEvent, CanLog, clientVars, Loggers
<1>2. emitted \in [Loggers -> Nat] /\ emitted' \in [Loggers -> Nat]
  BY <1>1 DEF LogInv, JobLogTypeOK
<1>3. /\ NextLine(Executor) \in Loggers \X Nat
      /\ NextLine(Executor) \notin Batched
      /\ NextLine(Executor) \notin LinesOf(pending)
      /\ \A line : /\ line \in Loggers \X Nat
                  /\ line[2] \in 1 .. emitted'[line[1]]
                <=> \/ line = NextLine(Executor)
                    \/ line \in Loggers \X Nat /\ line[2] \in 1 .. emitted[line[1]]
  BY <1>1, OneLogged
<1>4. batch \in Seq(Loggers \X Nat) /\ batch # <<>>
  BY <1>3
<1>5. LinesOf(batch) = {NextLine(Executor)}
  BY DEF LinesOf
<1>6. LinesOf(pending') = LinesOf(pending)
  BY <1>1
<1>7. Batched' = Batched \cup LinesOf(batch)
  BY <1>2, <1>3, <1>5, <1>6, BatchedLines, BatchedNext
<1>8. pending \in Seq(Pumps \X Nat) /\ \A k \in DOMAIN pending : pending[k][1] # Executor
  BY JobLogAssumption DEF LogInv, JobLogTypeOK
<1>9. Feed!Continues(batch)
  <2>1. NextLine(Executor)[1] = Executor /\ NextLine(Executor)[2] = emitted[Executor] + 1
    BY DEF NextLine
  <2>2. ASSUME NEW n \in 1 .. emitted[Executor]
        PROVE  <<Executor, n>> \in Batched
    <3>1. /\ <<Executor, n>> \in Loggers \X Nat
          /\ <<Executor, n>>[2] \in 1 .. emitted[<<Executor, n>>[1]]
      BY <1>1, <1>2
    <3>2. <<Executor, n>> \notin LinesOf(pending)
      BY <1>8 DEF LinesOf
    <3> QED
      BY <3>1, <3>2, <1>2, BatchedLines
  <2>3. \A n \in 1 .. NextLine(Executor)[2] - 1 : <<NextLine(Executor)[1], n>> \in Batched
    BY <2>1, <2>2, <1>1, <1>2
  <2>4. DOMAIN batch = {1} /\ batch[1] = NextLine(Executor)
    OBVIOUS
  <2>5. {batch[k] : k \in 1 .. 1 - 1} = {}
    OBVIOUS
  <2> QED
    BY <2>3, <2>4, <2>5, <1>3 DEF Feed!Continues
<1>10. pending' \in Seq(Pumps \X Nat) /\ BufferOrdered'
  <2> SUFFICES ASSUME NEW k \in DOMAIN pending
               PROVE  pending[k][2] \in 1 .. emitted'[pending[k][1]]
    BY <1>1, <1>8 DEF LogInv, BufferOrdered
  <2>1. pending[k] \in Loggers \X Nat
    BY PendingFollows
  <2> QED
    BY <2>1, <1>1, <1>2, <1>8 DEF LogInv, BufferOrdered
<1> QED
  BY <1>1, <1>2, <1>4, <1>7, <1>9, <1>10, TakeKeeps

\* The rows of the table.
Rows == [line: Loggers \X Nat, state: {"open", "stored", "gone", "purged"}]

LEMMA RowsTyped ==
  ASSUME LogInv
  PROVE  /\ logRow \in Seq(Rows) /\ DOMAIN logRow = 1 .. Len(logRow) /\ Len(logRow) \in Nat
         /\ taken \in [Loggers -> Seq(Loggers \X Nat)] /\ inserted \in [Loggers -> Nat]
         /\ writer \in Loggers \cup {NoThread} /\ NoThread \notin Loggers
BY JobLogAssumption DEF LogInv, JobLogTypeOK, Rows

LEMMA OpenRowTyped ==
  ASSUME NEW line \in Loggers \X Nat
  PROVE  OpenRow(line) \in Rows /\ OpenRow(line).line = line /\ OpenRow(line).state = "open"
BY DEF OpenRow, Rows

LEMMA RowSettled ==
  ASSUME NEW r \in Rows, NEW state \in {"open", "stored", "gone", "purged"}
  PROVE  /\ [r EXCEPT !.state = state] \in Rows
         /\ [r EXCEPT !.state = state].line = r.line
         /\ [r EXCEPT !.state = state].state = state
BY DEF Rows

LEMMA Balance ==
  ASSUME NEW n \in Nat, NEW k \in Nat
  PROVE  (n + 1) - (k + 1) = n - k /\ (n - k) + k = n
OBVIOUS

LEMMA Above ==
  ASSUME NEW n \in Nat, NEW i \in Nat, NEW k \in Nat, i > n, i <= n + k
  PROVE  i - n \in 1 .. k /\ n + (i - n) = i
OBVIOUS

LEMMA Beyond ==
  ASSUME NEW n \in Nat, NEW m \in Nat, NEW k \in 1 .. m
  PROVE  n + k \in 1 .. n + m
OBVIOUS

LEMMA InsertKeeps ==
  ASSUME LogInv, NEW t \in Loggers, InsertRow(t)
  PROVE  /\ LogInv'
         /\ UNCHANGED <<Batched, Published, Stored>>
         /\ \A i \in DOMAIN logRow : logRow'[i] = logRow[i]
<1> DEFINE line == taken[t][inserted[t] + 1]
<1>1. /\ inserted[t] < Len(taken[t])
      /\ store # "postgres" => writer \in {NoThread, t}
      /\ logRow' = Append(logRow, OpenRow(line))
      /\ inserted' = [inserted EXCEPT ![t] = @ + 1]
      /\ writer' = IF store = "postgres" THEN writer ELSE t
      /\ UNCHANGED <<store, emitted, pending, taken, since, delivered, alive>>
  BY DEF InsertRow, clientVars
<1>2. line \in Loggers \X Nat
  BY <1>1, RowsTyped
<1>3. OpenRow(line) \in Rows /\ OpenRow(line).line = line /\ OpenRow(line).state = "open"
  BY <1>2, OpenRowTyped
<1> HIDE DEF line
<1>4. /\ logRow' \in Seq(Rows) /\ Len(logRow') = Len(logRow) + 1
      /\ \A i \in 1 .. Len(logRow) : logRow'[i] = logRow[i]
      /\ logRow'[Len(logRow) + 1] = OpenRow(line)
  BY <1>1, <1>3, RowsTyped, AppendProperties
<1>5. DOMAIN logRow' = DOMAIN logRow \cup {Len(logRow) + 1}
  BY <1>4, RowsTyped
<1>6. /\ inserted' \in [Loggers -> Nat]
      /\ \A u \in Loggers : inserted'[u] = IF u = t THEN inserted[t] + 1 ELSE inserted[u]
  <2>1. inserted \in [Loggers -> Nat]
    BY RowsTyped
  <2> QED
    BY <1>1, <2>1
<1>7. JobLogTypeOK'
  <2>1. writer' \in Loggers \cup {NoThread}
    BY <1>1, RowsTyped
  <2> QED
    BY <1>1, <1>4, <1>6, <2>1 DEF LogInv, JobLogTypeOK, Rows
<1>8. OneInserts'
  <2> SUFFICES ASSUME NEW u \in Loggers
               PROVE  /\ inserted'[u] <= Len(taken[u])
                      /\ store # "postgres" /\ inserted'[u] > 0 => writer' = u
    BY <1>1 DEF OneInserts
  <2>1. CASE u = t
    BY <2>1, <1>1, <1>6, RowsTyped
  <2>2. CASE u # t
    BY <2>2, <1>1, <1>6, RowsTyped DEF LogInv, OneInserts
  <2> QED
    BY <2>1, <2>2
<1>9. OpenRowsLast'
  <2> SUFFICES ASSUME store # "postgres"
               PROVE  /\ Settled' \in Nat
                      /\ \A i \in 1 .. Settled' : logRow'[i].state # "open"
                      /\ \A k \in 1 .. inserted'[t] : logRow'[Settled' + k] = OpenRow(taken[t][k])
    BY <1>1 DEF OpenRowsLast
  <2>0. /\ writer' = t /\ writer \in {NoThread, t} /\ t # NoThread
        /\ inserted'[t] = inserted[t] + 1 /\ inserted[t] \in Nat
    BY <1>1, <1>6, RowsTyped
  <2>1. writer = NoThread => inserted[t] = 0
    BY <2>0 DEF LogInv, OneInserts
  <2>2. Settled' = Settled /\ Settled + inserted[t] = Len(logRow)
    <3>1. Len(logRow) \in Nat /\ Len(logRow') = Len(logRow) + 1
      BY <1>4, RowsTyped
    <3>2. Settled' = Len(logRow') - inserted'[t]
      BY <2>0 DEF Settled
    <3>3. Settled = Len(logRow) - inserted[t]
      BY <2>0, <2>1, <3>1 DEF Settled
    <3>4. inserted'[t] = inserted[t] + 1 /\ inserted[t] \in Nat
      BY <2>0
    <3>5. Settled' = (Len(logRow) + 1) - (inserted[t] + 1)
      BY <3>1, <3>2, <3>4
    <3> QED
      BY <3>1, <3>3, <3>4, <3>5, Balance
  <2>7. Settled \in Nat /\ \A i \in 1 .. Settled : logRow[i].state # "open"
    BY DEF LogInv, OpenRowsLast
  <2>3. \A i \in 1 .. Settled : logRow'[i].state # "open"
    <3>1. \A i \in 1 .. Settled : i \in 1 .. Len(logRow)
      BY <2>0, <2>2, <2>7
    <3> QED
      BY <3>1, <2>7, <1>4
  <2>4. ASSUME NEW k \in 1 .. inserted[t]
        PROVE  logRow'[Settled + k] = OpenRow(taken[t][k])
    <3>1. Settled + k \in 1 .. Len(logRow)
      <4>1. inserted[t] \in Nat /\ Settled \in Nat /\ Settled + inserted[t] = Len(logRow)
        BY <2>0, <2>2, <2>7
      <4> QED
        BY <4>1, Beyond
    <3>2. writer = t
      BY <2>1, <1>1, RowsTyped
    <3>3. logRow[Settled + k] = OpenRow(taken[t][k])
      BY <2>0, <3>2 DEF LogInv, OpenRowsLast
    <3>4. logRow'[Settled + k] = logRow[Settled + k]
      BY <3>1, <1>4
    <3> QED
      BY <3>3, <3>4
  <2>5. logRow'[Settled + (inserted[t] + 1)] = OpenRow(taken[t][inserted[t] + 1])
    <3>1. Settled + (inserted[t] + 1) = Len(logRow) + 1
      BY <2>0, <2>2, <2>7
    <3> QED
      BY <3>1, <1>4 DEF line
  <2>6. \A k \in 1 .. inserted'[t] : k \in 1 .. inserted[t] \/ k = inserted[t] + 1
    BY <1>6, RowsTyped
  <2> QED
    BY <2>2, <2>3, <2>4, <2>5, <2>6, <2>7
<1>10. BufferOrdered' /\ Batched' = Batched /\ BatchesApart'
  BY <1>1 DEF LogInv, BufferOrdered, Batched, BatchesApart
<1>11. Published' = Published /\ Stored' = Stored
  BY <1>3, <1>4, <1>5, RowsTyped DEF Published, Stored
<1> QED
  BY <1>4, <1>7, <1>8, <1>9, <1>10, <1>11, RowsTyped DEF LogInv

-----------------------------------------------------------------------------
\* On SQLite the open rows of a thread are those above Settled, if it writes.
LEMMA MineAreLast ==
  ASSUME LogInv, store # "postgres", NEW t \in Loggers, NEW i \in DOMAIN logRow
  PROVE  Mine(t, i) <=> writer = t /\ i > Settled
<1>1. Settled \in Nat /\ i \in Nat /\ i \in 1 .. Len(logRow)
  BY RowsTyped DEF LogInv, OpenRowsLast
<1>2. ASSUME writer # NoThread, i > Settled
      PROVE  /\ i - Settled \in 1 .. inserted[writer]
             /\ i - Settled \in DOMAIN taken[writer]
             /\ logRow[i] = OpenRow(taken[writer][i - Settled])
             /\ taken[writer][i - Settled] \in Loggers \X Nat
  <2>1. Settled + inserted[writer] = Len(logRow) /\ writer \in Loggers
    BY <1>2, RowsTyped DEF Settled
  <2>2. i - Settled \in 1 .. inserted[writer] /\ Settled + (i - Settled) = i
    <3>1. inserted[writer] \in Nat
      BY <2>1, RowsTyped
    <3>2. i <= Settled + inserted[writer]
      BY <1>1, <2>1
    <3> QED
      BY <1>1, <1>2, <3>1, <3>2, Above
  <2>3. inserted[writer] <= Len(taken[writer])
    BY <2>1 DEF LogInv, OneInserts
  <2>4. i - Settled \in DOMAIN taken[writer] /\ taken[writer][i - Settled] \in Loggers \X Nat
    <3>1. taken[writer] \in Seq(Loggers \X Nat) /\ inserted[writer] \in Nat
      BY <2>1, RowsTyped
    <3>2. i - Settled \in 1 .. Len(taken[writer])
      BY <2>2, <2>3, <3>1
    <3> QED
      BY <3>1, <3>2
  <2> QED
    BY <2>2, <2>4, <1>2 DEF LogInv, OpenRowsLast
<1>3. ASSUME Mine(t, i)
      PROVE  writer = t /\ i > Settled
  <2>1. i > Settled
    BY <1>1, <1>3 DEF Mine, LogInv, OpenRowsLast
  <2>2. writer # NoThread
    BY <2>1, <1>1 DEF Settled
  <2>3. PICK j \in DOMAIN taken[t] : taken[t][j] = logRow[i].line
    BY <1>3 DEF Mine
  <2>4. logRow[i].line = taken[writer][i - Settled] /\ i - Settled \in DOMAIN taken[writer]
    BY <2>1, <2>2, <1>2, OpenRowTyped
  <2> QED
    BY <2>1, <2>2, <2>3, <2>4, RowsTyped DEF LogInv, BatchesApart
<1>4. ASSUME writer = t, i > Settled
      PROVE  Mine(t, i)
  <2>1. logRow[i] = OpenRow(taken[t][i - Settled]) /\ i - Settled \in DOMAIN taken[t]
        /\ taken[t][i - Settled] \in Loggers \X Nat
    BY <1>2, <1>4, RowsTyped
  <2> QED
    BY <2>1, OpenRowTyped DEF Mine
<1> QED
  BY <1>3, <1>4

\* A batch that is stored or dropped leaves the others as they are.
LEMMA ReleaseKeeps ==
  ASSUME LogInv, NEW t \in Loggers, Release(t), logRow' \in Seq(Rows), OpenRowsLast',
         UNCHANGED <<store, emitted, pending, since, delivered, alive>>
  PROVE  /\ LogInv'
         /\ UNCHANGED Batched
<1>1. \A u \in Loggers : /\ taken'[u] = IF u = t THEN <<>> ELSE taken[u]
                        /\ inserted'[u] = IF u = t THEN 0 ELSE inserted[u]
  BY RowsTyped DEF Release
<1>2. /\ taken' \in [Loggers -> Seq(Loggers \X Nat)] /\ inserted' \in [Loggers -> Nat]
      /\ writer' \in Loggers \cup {NoThread}
  BY RowsTyped DEF Release
<1>3. JobLogTypeOK'
  BY <1>2 DEF LogInv, JobLogTypeOK, Rows
<1>4. OneInserts'
  <2> SUFFICES ASSUME NEW u \in Loggers
               PROVE  /\ inserted'[u] <= Len(taken'[u])
                      /\ store # "postgres" /\ inserted'[u] > 0 => writer' = u
    BY DEF OneInserts
  <2>1. CASE u = t
    BY <2>1, <1>1
  <2>2. CASE u # t
    BY <2>2, <1>1, RowsTyped DEF LogInv, OneInserts, Release
  <2> QED
    BY <2>1, <2>2
<1>5. BufferOrdered' /\ Batched' = Batched
  BY DEF LogInv, BufferOrdered, Batched
<1>6. BatchesApart'
  BY <1>1, <1>5 DEF LogInv, BatchesApart
<1> QED
  BY <1>3, <1>4, <1>5, <1>6 DEF LogInv

\* Changing the state of rows.
LEMMA RowsMapped ==
  ASSUME LogInv, NEW state \in {"stored", "gone", "purged"},
         logRow' = [i \in DOMAIN logRow |-> logRow'[i]],
         \A i \in DOMAIN logRow : logRow'[i] \in {logRow[i], [logRow[i] EXCEPT !.state = state]}
  PROVE  logRow' \in Seq(Rows) /\ Len(logRow') = Len(logRow)
<1>1. ASSUME NEW i \in DOMAIN logRow
      PROVE  logRow'[i] \in Rows
  <2>1. logRow[i] \in Rows
    BY RowsTyped
  <2>2. [logRow[i] EXCEPT !.state = state] \in Rows
    BY <2>1, RowSettled
  <2> QED
    BY <2>1, <2>2
<1>2. DOMAIN logRow = 1 .. Len(logRow) /\ Len(logRow) \in Nat
  BY RowsTyped
<1>3. logRow' \in [1 .. Len(logRow) -> Rows]
  BY <1>1, <1>2
<1> QED
  BY <1>2, <1>3

LEMMA SettledTyped ==
  ASSUME LogInv, NEW t \in Loggers, NEW state \in {"stored", "gone", "purged"},
         logRow' = SettleAs(t, state)
  PROVE  /\ logRow' \in Seq(Rows) /\ Len(logRow') = Len(logRow)
         /\ \A i \in DOMAIN logRow :
              logRow'[i] = IF Mine(t, i) THEN [logRow[i] EXCEPT !.state = state] ELSE logRow[i]
<1>1. \A i \in DOMAIN logRow :
         logRow'[i] = IF Mine(t, i) THEN [logRow[i] EXCEPT !.state = state] ELSE logRow[i]
  BY DEF SettleAs
<1>2. logRow' = [i \in DOMAIN logRow |-> logRow'[i]]
  BY DEF SettleAs
<1>3. logRow' \in Seq(Rows) /\ Len(logRow') = Len(logRow)
  BY <1>1, <1>2, RowsMapped
<1> QED
  BY <1>1, <1>3

\* What settles the open rows of a thread on SQLite.
LEMMA SettledRows ==
  ASSUME LogInv, store # "postgres", NEW t \in Loggers, NEW state \in {"stored", "gone", "purged"},
         logRow' = SettleAs(t, state)
  PROVE  /\ logRow' \in Seq(Rows) /\ Len(logRow') = Len(logRow)
         /\ \A i \in DOMAIN logRow :
              logRow'[i] = IF writer = t /\ i > Settled
                           THEN [logRow[i] EXCEPT !.state = state] ELSE logRow[i]
BY MineAreLast, SettledTyped

\* The rows below the open ones are settled, whoever writes.
LEMMA SettledBelow ==
  ASSUME LogInv, store # "postgres"
  PROVE  /\ Settled \in Nat /\ Settled <= Len(logRow)
         /\ writer = NoThread => Settled = Len(logRow)
         /\ writer # NoThread => Settled + inserted[writer] = Len(logRow)
         /\ \A i \in DOMAIN logRow : logRow[i].state = "open" <=> i > Settled
<1>1. Settled \in Nat /\ \A i \in 1 .. Settled : logRow[i].state # "open"
  BY DEF LogInv, OpenRowsLast
<1>2. writer = NoThread => Settled = Len(logRow)
  BY RowsTyped DEF Settled
<1>3. ASSUME writer # NoThread
      PROVE  Settled + inserted[writer] = Len(logRow) /\ inserted[writer] \in Nat
  <2>1. Settled = Len(logRow) - inserted[writer]
    BY <1>3 DEF Settled
  <2>2. inserted[writer] \in Nat /\ Len(logRow) \in Nat
    BY <1>3, RowsTyped
  <2> QED
    BY <2>1, <2>2
<1>4. DOMAIN logRow = 1 .. Len(logRow) /\ Len(logRow) \in Nat
  BY RowsTyped
<1>5. Settled <= Len(logRow)
  <2>1. Settled \in Nat /\ Len(logRow) \in Nat
    BY <1>1, <1>4
  <2>2. CASE writer = NoThread
    BY <2>1, <2>2, <1>2
  <2>3. CASE writer # NoThread
    BY <2>1, <2>3, <1>3
  <2> QED
    BY <2>2, <2>3
<1>6. \A i \in DOMAIN logRow : logRow[i].state = "open" => i > Settled
  BY <1>1, <1>4
<1>7. ASSUME NEW i \in DOMAIN logRow, i > Settled
      PROVE  logRow[i].state = "open"
  <2>1. writer # NoThread
    BY <1>2, <1>4, <1>7
  <2>2. i - Settled \in 1 .. inserted[writer] /\ Settled + (i - Settled) = i
    BY <2>1, <1>1, <1>3, <1>4, <1>7
  <2>3. logRow[i] = OpenRow(taken[writer][i - Settled])
    BY <2>1, <2>2 DEF LogInv, OpenRowsLast
  <2> QED
    BY <2>3 DEF OpenRow
<1> QED
  BY <1>1, <1>2, <1>3, <1>5, <1>6, <1>7

LEMMA SettleKeeps ==
  ASSUME LogInv, store # "postgres", NEW t \in Loggers, NEW state \in {"stored", "gone", "purged"},
         logRow' = SettleAs(t, state), Release(t),
         UNCHANGED <<store, emitted, pending, since, delivered, alive>>
  PROVE  LogInv' /\ UNCHANGED Batched
<1>1. /\ logRow' \in Seq(Rows) /\ Len(logRow') = Len(logRow)
      /\ \A i \in DOMAIN logRow :
           logRow'[i] = IF writer = t /\ i > Settled
                        THEN [logRow[i] EXCEPT !.state = state] ELSE logRow[i]
  BY SettledRows
<1>2. OpenRowsLast'
  <2>1. CASE writer = t
    <3>1. writer' = NoThread
      BY <2>1 DEF Release
    <3>2. Settled' = Len(logRow)
      BY <3>1, <1>1, RowsTyped DEF Settled
    <3>3. ASSUME NEW i \in 1 .. Len(logRow)
          PROVE  logRow'[i].state # "open"
      <4>1. logRow[i] \in Rows
        BY RowsTyped
      <4>2. CASE i > Settled
        BY <4>1, <4>2, <2>1, <1>1, RowsTyped DEF Rows
      <4>3. CASE ~(i > Settled)
        BY <4>3, <1>1, SettledBelow, RowsTyped
      <4> QED
        BY <4>2, <4>3
    <3> QED
      BY <3>1, <3>2, <3>3, RowsTyped DEF OpenRowsLast
  <2>2. CASE writer # t
    <3>1. /\ writer' = writer
          /\ \A u \in Loggers \ {t} : inserted'[u] = inserted[u] /\ taken'[u] = taken[u]
      BY <2>2, RowsTyped DEF Release
    <3>2. \A i \in DOMAIN logRow : logRow'[i] = logRow[i]
      BY <2>2, <1>1
    <3>3. Settled' = Settled
      <4>1. writer # NoThread => inserted'[writer] = inserted[writer]
        BY <3>1, <2>2, RowsTyped
      <4>2. writer' = writer /\ Len(logRow') = Len(logRow)
        BY <3>1, <1>1
      <4> QED
        BY <4>1, <4>2 DEF Settled
    <3>4. ASSUME NEW i \in 1 .. Settled
          PROVE  logRow'[i].state # "open"
      <4>1. i \in DOMAIN logRow /\ ~(i > Settled)
        BY SettledBelow, RowsTyped
      <4> QED
        BY <4>1, <3>2, SettledBelow
    <3>5. ASSUME writer # NoThread, NEW k \in 1 .. inserted[writer]
          PROVE  logRow'[Settled + k] = OpenRow(taken[writer][k])
      <4>1. Settled + k \in DOMAIN logRow
        BY <3>5, SettledBelow, RowsTyped
      <4> QED
        BY <4>1, <3>2, <3>5 DEF LogInv, OpenRowsLast
    <3> QED
      BY <2>2, <3>1, <3>3, <3>4, <3>5, SettledBelow, RowsTyped DEF OpenRowsLast
  <2> QED
    BY <2>1, <2>2
<1> QED
  BY <1>1, <1>2, ReleaseKeeps

\* A transaction that is undone takes its rows along.
LEMMA UndoneRows ==
  ASSUME LogInv, store # "postgres", writer # NoThread, logRow' = Undone(writer)
  PROVE  /\ logRow' \in Seq(Rows) /\ Len(logRow') = Settled
         /\ \A i \in 1 .. Settled : logRow'[i] = logRow[i]
<1>1. logRow' = SubSeq(logRow, 1, Settled)
  BY DEF Undone, Settled
<1>2. Settled \in Nat /\ \A i \in 1 .. Settled : i \in DOMAIN logRow
  BY SettledBelow, RowsTyped
<1>3. \A i \in 1 .. Settled : logRow[i] \in Rows
  BY <1>2, RowsTyped
<1> HIDE DEF Settled
<1>4. /\ SubSeq(logRow, 1, Settled) \in Seq(Rows)
      /\ Len(SubSeq(logRow, 1, Settled)) = Settled
      /\ \A i \in 1 .. Settled : SubSeq(logRow, 1, Settled)[i] = logRow[i]
  BY <1>2, <1>3, SubSeqProperties
<1> QED
  BY <1>1, <1>4

LEMMA UndoKeeps ==
  ASSUME LogInv, store # "postgres", NEW t \in Loggers, writer = t,
         logRow' = Undone(writer), Release(t),
         UNCHANGED <<store, emitted, pending, since, delivered, alive>>
  PROVE  LogInv' /\ UNCHANGED Batched
<1>1. /\ logRow' \in Seq(Rows) /\ Len(logRow') = Settled
      /\ \A i \in 1 .. Settled : logRow'[i] = logRow[i]
  BY UndoneRows, RowsTyped
<1>2. writer' = NoThread
  BY DEF Release
<1>3. Settled' = Settled
  BY <1>1, <1>2 DEF Settled
<1>4. ASSUME NEW i \in 1 .. Settled
      PROVE  logRow'[i].state # "open"
  <2>1. i \in DOMAIN logRow /\ ~(i > Settled)
    BY SettledBelow, RowsTyped
  <2> QED
    BY <2>1, <1>1, SettledBelow
<1>5. OpenRowsLast'
  BY <1>2, <1>3, <1>4, SettledBelow DEF OpenRowsLast
<1> QED
  BY <1>1, <1>5, ReleaseKeeps

-----------------------------------------------------------------------------
(* The log as the client sees it. *)

Log  == [i \in Published |-> logRow[i].line]
Held == {taken[t] : t \in Loggers} \ {<<>>}

\* Publishes, as a relation of two logs.
Extends(old, new, lines) ==
  /\ DOMAIN old \subseteq DOMAIN new
  /\ \A p \in DOMAIN old : new[p] = old[p]
  /\ \A p \in DOMAIN old, q \in (DOMAIN new) \ (DOMAIN old) : p < q
  /\ \E at \in [DOMAIN lines -> (DOMAIN new) \ (DOMAIN old)] :
       /\ Feed!Lists(at, (DOMAIN new) \ (DOMAIN old))
       /\ \A i \in DOMAIN lines : new[at[i]] = lines[i]

LEMMA HeldReleased ==
  ASSUME LogInv, NEW t \in Loggers, Release(t)
  PROVE  Held' = Held \ {taken[t]}
<1>1. \A u \in Loggers : taken'[u] = IF u = t THEN <<>> ELSE taken[u]
  BY RowsTyped DEF Release
<1>2. ASSUME NEW u \in Loggers, u # t, taken[u] # <<>>
      PROVE  taken[u] # taken[t]
  <2>1. taken[u] \in Seq(Loggers \X Nat)
    BY RowsTyped
  <2>2. 1 \in DOMAIN taken[u]
    BY <2>1, <1>2
  <2> QED
    BY <2>2, <1>2 DEF LogInv, BatchesApart
<1> QED
  BY <1>1, <1>2 DEF Held

\* On SQLite, what is stored of a batch is published whole, behind all that was.
LEMMA RowsPublished ==
  ASSUME LogInv, store # "postgres", NEW t \in Loggers, writer = t, inserted[t] > 0,
         logRow' = SettleAs(t, "stored"),
         NEW lines, DOMAIN lines = 1 .. inserted[t],
         \A k \in 1 .. inserted[t] : lines[k] = taken[t][k]
  PROVE  Extends(Log, Log', lines) /\ (Published \ Stored)' = Published \ Stored
<1>1. /\ logRow' \in Seq(Rows) /\ Len(logRow') = Len(logRow)
      /\ \A i \in DOMAIN logRow :
           logRow'[i] = IF i > Settled THEN [logRow[i] EXCEPT !.state = "stored"] ELSE logRow[i]
  BY SettledRows
<1>2. Settled \in Nat /\ Settled + inserted[t] = Len(logRow) /\ inserted[t] \in Nat
  BY SettledBelow, RowsTyped
<1>3. /\ DOMAIN logRow = 1 .. Len(logRow) /\ DOMAIN logRow' = DOMAIN logRow
      /\ \A i \in DOMAIN logRow : logRow[i] \in Rows
  BY <1>1, RowsTyped
<1> DEFINE Added == {i \in DOMAIN logRow : i > Settled}
<1>4. ASSUME NEW i \in DOMAIN logRow, i > Settled
      PROVE  /\ logRow'[i].line = logRow[i].line
             /\ logRow'[i].state = "stored"
             /\ logRow[i].state = "open"
  <2>1. logRow'[i] = [logRow[i] EXCEPT !.state = "stored"] /\ logRow[i] \in Rows
    BY <1>1, <1>3, <1>4
  <2>2. /\ [logRow[i] EXCEPT !.state = "stored"].line = logRow[i].line
        /\ [logRow[i] EXCEPT !.state = "stored"].state = "stored"
    BY <2>1, RowSettled
  <2>3. \A j \in DOMAIN logRow : j > Settled => logRow[j].state = "open"
    BY SettledBelow
  <2> QED
    BY <2>1, <2>2, <2>3, <1>4
<1>5. Published' = Published \cup Added /\ Stored' = Stored \cup Added
  <2>1. \A i \in DOMAIN logRow : ~(i > Settled) => logRow'[i] = logRow[i]
    BY <1>1
  <2> QED
    BY <1>3, <1>4, <2>1 DEF Published, Stored
<1>6. \A i \in Published : i \in DOMAIN logRow /\ ~(i > Settled)
  <2>1. \A i \in DOMAIN logRow : i > Settled => logRow[i].state = "open"
    BY SettledBelow
  <2> QED
    BY <2>1 DEF Published
<1>7. /\ \A i \in Published : Log'[i] = Log[i]
      /\ \A i \in Added : Log'[i] = logRow[i].line
  <2>1. \A i \in Published : Log[i] = logRow[i].line
    BY DEF Log
  <2>2. \A i \in Published \cup Added : Log'[i] = logRow'[i].line
    BY <1>5 DEF Log
  <2>3. \A i \in Published : logRow'[i] = logRow[i]
    BY <1>1, <1>6
  <2>4. \A i \in Added : logRow'[i].line = logRow[i].line
    BY <1>4
  <2> QED
    BY <2>1, <2>2, <2>3, <2>4
<1>8. DOMAIN Log = Published /\ DOMAIN Log' = Published \cup Added
  BY <1>5 DEF Log
<1>9. (DOMAIN Log') \ (DOMAIN Log) = Added
  BY <1>6, <1>8
<1> DEFINE at == [k \in DOMAIN lines |-> Settled + k]
<1>10. ASSUME NEW k \in 1 .. inserted[t]
       PROVE  at[k] \in Added /\ logRow[at[k]].line = lines[k] /\ at[k] = Settled + k
  <2>1. Settled + k \in DOMAIN logRow /\ Settled + k > Settled
    BY <1>2, <1>3
  <2>2. logRow[Settled + k] = OpenRow(taken[t][k])
    BY RowsTyped DEF LogInv, OpenRowsLast
  <2> QED
    BY <2>1, <2>2 DEF OpenRow
<1>11. \A i \in Added : i - Settled \in 1 .. inserted[t] /\ at[i - Settled] = i
  BY <1>2, <1>3, Above
<1>12. Feed!Lists(at, Added)
  <2>1. {at[k] : k \in DOMAIN at} = Added
    BY <1>10, <1>11
  <2>2. \A j, k \in DOMAIN at : j < k => at[j] < at[k]
    BY <1>2
  <2> QED
    BY <2>1, <2>2 DEF Feed!Lists
<1>13. at \in [DOMAIN lines -> Added]
  BY <1>10
<1>14. \A k \in DOMAIN lines : Log'[at[k]] = lines[k]
  BY <1>7, <1>10
<1>15. \A p \in Published, q \in Added : p < q
  BY <1>2, <1>3, <1>6
<1> HIDE DEF Added, at
<1>16. (Published \ Stored)' = Published \ Stored
  <2>1. \A i \in Added : i \notin Published
    BY <1>6 DEF Added
  <2> QED
    BY <1>5, <2>1
<1>17. Extends(Log, Log', lines)
  BY <1>7, <1>8, <1>9, <1>12, <1>13, <1>14, <1>15 DEF Extends
<1> QED
  BY <1>16, <1>17

-----------------------------------------------------------------------------
(* The steps of the log are steps of the feed. *)

LEMMA SameLog ==
  ASSUME DOMAIN logRow' = DOMAIN logRow,
         \A i \in DOMAIN logRow : logRow'[i] = logRow[i]
  PROVE  Log' = Log /\ Published' = Published /\ Stored' = Stored
<1>1. Published' = Published /\ Stored' = Stored
  BY DEF Published, Stored
<1>2. \A i \in Published : logRow'[i].line = logRow[i].line
  BY DEF Published
<1> QED
  BY <1>1, <1>2 DEF Log

LEMMA Stutters ==
  ASSUME UNCHANGED <<Batched, Held, Log, Published, Stored, since, delivered, store>>
  PROVE  UNCHANGED Feed!feedVars
BY DEF Feed!feedVars, Held, Log

LEMMA CommitFollows ==
  ASSUME LogInv, store # "postgres", NEW t \in Loggers, Commit(t)
  PROVE  LogInv' /\ Feed!Publish
<1>1. /\ taken[t] # <<>> /\ inserted[t] = Len(taken[t])
      /\ logRow' = SettleAs(t, "stored") /\ Release(t)
      /\ UNCHANGED <<store, emitted, pending, since, delivered, alive>>
  BY DEF Commit, clientVars
<1>2. LogInv' /\ Batched' = Batched
  BY <1>1, SettleKeeps
<1>3. taken[t] \in Seq(Loggers \X Nat)
  BY RowsTyped
<1>4. inserted[t] > 0 /\ DOMAIN taken[t] = 1 .. inserted[t]
  BY <1>1, <1>3
<1>5. writer = t
  BY <1>4 DEF LogInv, OneInserts
<1>6. Extends(Log, Log', taken[t]) /\ (Published \ Stored)' = Published \ Stored
  BY <1>1, <1>4, <1>5, RowsPublished
<1>7. Held' = Held \ {taken[t]} /\ taken[t] \in Held
  BY <1>1, HeldReleased DEF Held
<1>8. Feed!Publish
  BY <1>1, <1>2, <1>6, <1>7 DEF Feed!Publish, Feed!Publishes, Extends, Held, Log
<1> QED
  BY <1>2, <1>8

\* Dropping a batch publishes nothing, or the beginning that the shared connection keeps.
LEMMA DropFollows ==
  ASSUME LogInv, NEW t \in Loggers, taken[t] # <<>>, Release(t),
         UNCHANGED <<Batched, since, delivered, store>>,
         (Published \ Stored)' = Published \ Stored,
         \/ Log' = Log
         \/ /\ store = "memory"
            /\ \E n \in 1 .. Len(taken[t]) : Extends(Log, Log', SubSeq(taken[t], 1, n))
  PROVE  Feed!Drop
<1>1. Held' = Held \ {taken[t]} /\ taken[t] \in Held
  BY HeldReleased DEF Held
<1>2. Held' \subseteq Held /\ taken[t] \in Held \ Held'
  BY <1>1
<1>3. CASE Log' = Log
  BY <1>2, <1>3 DEF Feed!Drop, Held, Log
<1>4. CASE /\ store = "memory"
           /\ \E n \in 1 .. Len(taken[t]) : Extends(Log, Log', SubSeq(taken[t], 1, n))
  BY <1>2, <1>4 DEF Feed!Drop, Feed!Publishes, Extends, Held, Log
<1> QED
  BY <1>3, <1>4

LEMMA FailFollows ==
  ASSUME LogInv, store # "postgres", NEW t \in Loggers, FailBatch(t)
  PROVE  LogInv' /\ Feed!Drop
<1>1. /\ taken[t] # <<>> /\ Release(t)
      /\ UNCHANGED <<store, emitted, pending, since, delivered, alive>>
  BY DEF FailBatch, clientVars
<1>2. CASE store = "file" /\ writer = t
  <2>1. logRow' = Undone(writer)
    BY <1>2 DEF FailBatch
  <2>2. LogInv' /\ Batched' = Batched
    BY <1>1, <1>2, <2>1, UndoKeeps
  <2>3. /\ logRow' \in Seq(Rows) /\ Len(logRow') = Settled
        /\ \A i \in 1 .. Settled : logRow'[i] = logRow[i]
    BY <2>1, <1>2, UndoneRows, RowsTyped
  <2>4. /\ Published' = Published /\ Stored' = Stored
        /\ \A i \in Published : logRow'[i] = logRow[i]
    <3>1. DOMAIN logRow' = 1 .. Settled /\ Settled \in Nat
      BY <2>3, SettledBelow
    <3>2. \A i \in DOMAIN logRow : i \in 1 .. Settled \/ logRow[i].state = "open"
      BY SettledBelow, RowsTyped
    <3>3. 1 .. Settled \subseteq DOMAIN logRow
      BY SettledBelow, RowsTyped
    <3> QED
      BY <2>3, <3>1, <3>2, <3>3 DEF Published, Stored
  <2>5. Log' = Log
    BY <2>4 DEF Log
  <2> QED
    BY <1>1, <2>2, <2>4, <2>5, DropFollows
<1>3. CASE store = "file" /\ writer # t
  <2>1. logRow' = logRow
    BY <1>3 DEF FailBatch
  <2>2. /\ writer' = writer
        /\ \A u \in Loggers \ {t} : inserted'[u] = inserted[u] /\ taken'[u] = taken[u]
    BY <1>1, <1>3, RowsTyped DEF Release
  <2>3. OpenRowsLast'
    <3>1. CASE writer = NoThread
      BY <1>1, <2>1, <2>2, <3>1 DEF LogInv, OpenRowsLast, Settled
    <3>2. CASE writer # NoThread
      <4>1. inserted'[writer] = inserted[writer] /\ taken'[writer] = taken[writer]
        BY <1>3, <2>2, <3>2, RowsTyped
      <4> QED
        BY <1>1, <2>1, <2>2, <3>2, <4>1 DEF LogInv, OpenRowsLast, Settled
    <3> QED
      BY <3>1, <3>2
  <2>4. LogInv' /\ Batched' = Batched
    BY <1>1, <2>1, <2>3, RowsTyped, ReleaseKeeps
  <2>5. Log' = Log /\ Published' = Published /\ Stored' = Stored
    BY <2>1, SameLog
  <2> QED
    BY <1>1, <2>4, <2>5, DropFollows
<1>4. CASE store = "memory"
  <2>1. logRow' = SettleAs(t, "stored")
    BY <1>4 DEF FailBatch
  <2>2. LogInv' /\ Batched' = Batched
    BY <1>1, <2>1, SettleKeeps
  <2>3. taken[t] \in Seq(Loggers \X Nat) /\ inserted[t] \in Nat /\ inserted[t] <= Len(taken[t])
    BY RowsTyped DEF LogInv, OneInserts
  <2>4. CASE inserted[t] > 0
    <3>1. writer = t
      BY <2>4 DEF LogInv, OneInserts
    <3> DEFINE lines == SubSeq(taken[t], 1, inserted[t])
    <3>2. DOMAIN lines = 1 .. inserted[t] /\ \A k \in 1 .. inserted[t] : lines[k] = taken[t][k]
      BY <2>3, <2>4
    <3>3. Extends(Log, Log', lines) /\ (Published \ Stored)' = Published \ Stored
      BY <2>1, <2>4, <3>1, <3>2, RowsPublished
    <3>4. inserted[t] \in 1 .. Len(taken[t])
      BY <2>3, <2>4
    <3> QED
      BY <1>1, <1>4, <2>2, <3>3, <3>4, DropFollows
  <2>5. CASE inserted[t] = 0
    <3>1. /\ logRow' \in Seq(Rows) /\ Len(logRow') = Len(logRow)
          /\ \A i \in DOMAIN logRow : logRow'[i] = logRow[i]
      <4>1. /\ logRow' \in Seq(Rows) /\ Len(logRow') = Len(logRow)
            /\ \A i \in DOMAIN logRow :
                 logRow'[i] = IF writer = t /\ i > Settled
                              THEN [logRow[i] EXCEPT !.state = "stored"] ELSE logRow[i]
        BY <2>1, SettledRows
      <4>2. \A i \in DOMAIN logRow : ~(writer = t /\ i > Settled)
        BY <2>5, SettledBelow, RowsTyped
      <4> QED
        BY <4>1, <4>2
    <3>2. DOMAIN logRow' = DOMAIN logRow
      BY <3>1, RowsTyped
    <3>3. Log' = Log /\ Published' = Published /\ Stored' = Stored
      BY <3>1, <3>2, SameLog
    <3> QED
      BY <1>1, <2>2, <3>3, DropFollows
  <2> QED
    BY <2>3, <2>4, <2>5
<1> QED
  BY <1>2, <1>3, <1>4, JobLogAssumption DEF LogInv, JobLogTypeOK

\* On PostgreSQL a batch leaves no order behind.
LEMMA ReleaseAnywhere ==
  ASSUME LogInv, store = "postgres", NEW t \in Loggers, Commit(t) \/ FailBatch(t)
  PROVE  LogInv'
<1>1. /\ Release(t)
      /\ UNCHANGED <<store, emitted, pending, since, delivered, alive>>
      /\ logRow' = SettleAs(t, "stored") \/ logRow' = SettleAs(t, "gone")
  BY DEF Commit, FailBatch, clientVars
<1>2. logRow' \in Seq(Rows)
  BY <1>1, SettledTyped
<1>3. OpenRowsLast'
  BY <1>1 DEF OpenRowsLast
<1> QED
  BY <1>1, <1>2, <1>3, ReleaseKeeps

LEMMA EndKeeps ==
  ASSUME LogInv, EndProcess
  PROVE  /\ LogInv'
         /\ store # "postgres" => Feed!Drop
<1>1. /\ store # "memory"
      /\ pending' = <<>>
      /\ taken' = [t \in Loggers |-> <<>>]
      /\ inserted' = [t \in Loggers |-> 0]
      /\ writer' = NoThread
      /\ alive' = FALSE
      /\ UNCHANGED <<store, emitted, since, delivered>>
  BY DEF EndProcess, clientVars
<1>2. /\ logRow' \in Seq(Rows)
      /\ store # "postgres" =>
           /\ \A i \in 1 .. Len(logRow') : logRow'[i].state # "open"
           /\ Published' = Published /\ Stored' = Stored
           /\ \A i \in Published : logRow'[i] = logRow[i]
  <2>1. CASE store = "file" /\ writer # NoThread
    <3>1. logRow' = Undone(writer)
      BY <2>1 DEF EndProcess
    <3>2. /\ logRow' \in Seq(Rows) /\ Len(logRow') = Settled
          /\ \A i \in 1 .. Settled : logRow'[i] = logRow[i]
      BY <2>1, <3>1, UndoneRows
    <3>3. DOMAIN logRow' = 1 .. Settled /\ Settled \in Nat
      BY <2>1, <3>2, SettledBelow
    <3>4. \A i \in DOMAIN logRow : i \in 1 .. Settled \/ logRow[i].state = "open"
      BY <2>1, SettledBelow, RowsTyped
    <3>5. \A i \in 1 .. Settled : i \in DOMAIN logRow /\ ~(i > Settled)
      BY <2>1, SettledBelow, RowsTyped
    <3>6. \A i \in 1 .. Settled : logRow'[i].state # "open"
      BY <2>1, <3>2, <3>5, SettledBelow
    <3>7. /\ Published' = Published /\ Stored' = Stored
          /\ \A i \in Published : logRow'[i] = logRow[i]
      BY <3>2, <3>3, <3>4, <3>5 DEF Published, Stored
    <3> QED
      BY <3>2, <3>6, <3>7
  <2>2. CASE ~(store = "file" /\ writer # NoThread)
    <3>1. logRow' = [i \in DOMAIN logRow |->
                       IF logRow[i].state = "open" THEN [logRow[i] EXCEPT !.state = "gone"]
                       ELSE logRow[i]]
      BY <2>2 DEF EndProcess
    <3>2. /\ logRow' = [i \in DOMAIN logRow |-> logRow'[i]]
          /\ \A i \in DOMAIN logRow :
               logRow'[i] \in {logRow[i], [logRow[i] EXCEPT !.state = "gone"]}
      BY <3>1
    <3>3. logRow' \in Seq(Rows) /\ Len(logRow') = Len(logRow) /\ DOMAIN logRow' = DOMAIN logRow
      BY <3>1, <3>2, RowsMapped
    <3>4. ASSUME store # "postgres"
          PROVE  /\ \A i \in 1 .. Len(logRow') : logRow'[i].state # "open"
                 /\ Published' = Published /\ Stored' = Stored
                 /\ \A i \in Published : logRow'[i] = logRow[i]
      <4>1. store = "file" /\ writer = NoThread
        BY <1>1, <2>2, <3>4, JobLogAssumption DEF LogInv, JobLogTypeOK
      <4>2. \A i \in DOMAIN logRow : logRow[i].state # "open"
        BY <3>4, <4>1, SettledBelow, RowsTyped
      <4>3. \A i \in DOMAIN logRow : logRow'[i] = logRow[i]
        BY <3>1, <4>2
      <4>4. Published' = Published /\ Stored' = Stored
        BY <3>3, <4>3, SameLog
      <4> QED
        BY <3>3, <4>2, <4>3, <4>4, RowsTyped DEF Published
    <3> QED
      BY <3>3, <3>4
  <2> QED
    BY <2>1, <2>2
<1>3. JobLogTypeOK'
  <2>1. pending' \in Seq(Pumps \X Nat) /\ taken' \in [Loggers -> Seq(Loggers \X Nat)]
        /\ inserted' \in [Loggers -> Nat] /\ writer' \in Loggers \cup {NoThread}
    BY <1>1
  <2> QED
    BY <1>1, <1>2, <2>1 DEF LogInv, JobLogTypeOK, Rows
<1>4. OneInserts' /\ BufferOrdered' /\ BatchesApart'
  BY <1>1 DEF OneInserts, BufferOrdered, BatchesApart
<1>5. OpenRowsLast'
  <2>1. Len(logRow') \in Nat
    BY <1>2
  <2>2. Settled' = Len(logRow')
    BY <1>1, <2>1 DEF Settled
  <2> QED
    BY <1>1, <1>2, <2>1, <2>2 DEF OpenRowsLast
<1>6. ASSUME store # "postgres"
      PROVE  Feed!Drop
  <2>1. Batched \subseteq Batched'
    BY <1>1 DEF Batched
  <2>2. Held' = {}
    BY <1>1 DEF Held
  <2>3. Log' = Log
    BY <1>2, <1>6 DEF Log
  <2> QED
    BY <1>1, <1>2, <1>6, <2>1, <2>2, <2>3 DEF Feed!Drop, Held, Log
<1> QED
  BY <1>2, <1>3, <1>4, <1>5, <1>6 DEF LogInv

\* What the client has not seen removed is what the table holds.
LEMMA KeptIsStored == Feed!Kept = Stored
<1>1. DOMAIN [i \in Published |-> logRow[i].line] = Published /\ Stored \subseteq Published
  BY DEF Published, Stored
<1> QED
  BY <1>1 DEF Feed!Kept

\* Answers change nothing but the client.
LEMMA AnswerKeeps ==
  ASSUME LogInv, since' \in Nat, delivered' \in Seq(Nat),
         UNCHANGED <<store, emitted, pending, taken, inserted, logRow, writer, alive>>
  PROVE  LogInv' /\ UNCHANGED <<Batched, Held, Log, Published, Stored>>
<1>1. JobLogTypeOK'
  BY DEF LogInv, JobLogTypeOK
<1>2. OneInserts' /\ OpenRowsLast' /\ BufferOrdered'
  BY DEF LogInv, OneInserts, OpenRowsLast, Settled, BufferOrdered
<1>3. BatchesApart' /\ Batched' = Batched
  BY DEF LogInv, BatchesApart, Batched
<1>4. UNCHANGED <<Held, Log, Published, Stored>>
  BY DEF Held, Log, Published, Stored
<1> QED
  BY <1>1, <1>2, <1>3, <1>4 DEF LogInv

LEMMA PageTyped ==
  ASSUME NEW n \in Nat \ {0}, NEW page \in [1 .. n -> Stored], LogInv
  PROVE  /\ page \in Seq(Nat) /\ Len(page) = n /\ page # <<>> /\ DOMAIN page = 1 .. n
         /\ page[n] \in Stored /\ page[n] \in Nat
<1>1. Stored \subseteq Nat
  BY RowsTyped DEF Stored
<1>2. page \in [1 .. n -> Nat]
  BY <1>1
<1> QED
  BY <1>1, <1>2

LEMMA PollSinceFollows ==
  ASSUME LogInv, PollSince
  PROVE  LogInv' /\ Feed!Deliver
<1>1. PICK n \in 1 .. PageLimit : \E page \in [1 .. n -> Stored] :
        /\ ById(page, {i \in Stored : since < i /\ i <= page[n]})
        /\ since' = page[n]
        /\ delivered' = delivered \o page
  BY DEF PollSince
<1>2. PICK page \in [1 .. n -> Stored] :
        /\ ById(page, {i \in Stored : since < i /\ i <= page[n]})
        /\ since' = page[n]
        /\ delivered' = delivered \o page
  BY <1>1
<1>3. UNCHANGED <<store, emitted, pending, taken, inserted, logRow, writer, alive>>
  BY DEF PollSince
<1>4. n \in Nat \ {0}
  BY JobLogAssumption
<1>5. /\ page \in Seq(Nat) /\ Len(page) = n /\ DOMAIN page = 1 .. n
      /\ page[n] \in Stored /\ page[n] \in Nat
  BY <1>4, PageTyped
<1>6. delivered \in Seq(Nat) /\ since \in Nat
  BY DEF LogInv, JobLogTypeOK
<1>7. delivered' \in Seq(Nat) /\ Len(delivered') = Len(delivered) + n
  BY <1>2, <1>5, <1>6, ConcatProperties
<1>8. LogInv' /\ UNCHANGED <<Batched, Held, Log, Published, Stored>>
  BY <1>2, <1>3, <1>5, <1>7, AnswerKeeps
<1>9. since < page[n]
  <2>1. page[n] \in {page[k] : k \in DOMAIN page}
    BY <1>4, <1>5
  <2> QED
    BY <2>1, <1>2 DEF ById
<1>10. SubSeq(delivered', Len(delivered) + 1, Len(delivered')) = page
  <2>1. /\ Len(delivered) + 1 \in Len(delivered) + 1 .. Len(delivered) + Len(page)
        /\ Len(delivered') \in Len(delivered) + 1 .. Len(delivered) + Len(page)
        /\ (Len(delivered) + 1) - Len(delivered) = 1
        /\ Len(delivered') - Len(delivered) = Len(page)
    BY <1>4, <1>5, <1>6, <1>7
  <2>2. SubSeq(delivered \o page, Len(delivered) + 1, Len(delivered'))
          = SubSeq(page, (Len(delivered) + 1) - Len(delivered), Len(delivered') - Len(delivered))
    BY <2>1, <1>5, <1>6, SubSeqOfConcat2
  <2>3. SubSeq(page, 1, Len(page)) = page
    BY <1>5, SubSeqFull
  <2> QED
    BY <2>1, <2>2, <2>3, <1>2
<1>11. Feed!Lists(page, {p \in Stored : since < p /\ p <= page[n]})
  BY <1>2 DEF ById, Feed!Lists
<1>12. UNCHANGED <<Batched, {taken[t] : t \in Loggers} \ {<<>>},
                   [i \in Published |-> logRow[i].line],
                   Published \ Stored, store = "memory">>
  BY <1>3, <1>8 DEF Held, Log
<1>13. Feed!Deliver
  BY <1>2, <1>5, <1>9, <1>10, <1>11, <1>12, KeptIsStored DEF Feed!Deliver
<1> QED
  BY <1>8, <1>13

LEMMA PollTailFollows ==
  ASSUME LogInv, PollTail
  PROVE  LogInv' /\ Feed!Join
<1>1. PICK page \in [1 .. PageLimit -> Stored] :
        /\ ById(page, {i \in Stored : page[1] <= i})
        /\ since' = page[PageLimit]
        /\ delivered' = page
  BY DEF PollTail
<1>2. since = 0 /\ UNCHANGED <<store, emitted, pending, taken, inserted, logRow, writer, alive>>
  BY DEF PollTail
<1>3. /\ page \in Seq(Nat) /\ Len(page) = PageLimit /\ page # <<>>
      /\ page[PageLimit] \in Nat
  BY JobLogAssumption, PageTyped
<1>4. LogInv' /\ UNCHANGED <<Batched, Held, Log, Published, Stored>>
  BY <1>1, <1>2, <1>3, AnswerKeeps
<1>5. Feed!Lists(page, {p \in Stored : page[1] <= p})
  BY <1>1 DEF ById, Feed!Lists
<1>6. UNCHANGED <<Batched, {taken[t] : t \in Loggers} \ {<<>>},
                  [i \in Published |-> logRow[i].line],
                  Published \ Stored, store = "memory">>
  BY <1>2, <1>4 DEF Held, Log
<1>7. Feed!Join
  BY <1>1, <1>2, <1>3, <1>5, <1>6, KeptIsStored DEF Feed!Join
<1> QED
  BY <1>4, <1>7

LEMMA PurgeFollows ==
  ASSUME LogInv, PurgeLogs
  PROVE  LogInv' /\ Feed!Remove
<1>1. PICK old \in SUBSET Stored :
        logRow' = [i \in DOMAIN logRow |->
                     IF i \in old THEN [logRow[i] EXCEPT !.state = "purged"] ELSE logRow[i]]
  BY DEF PurgeLogs
<1>2. /\ store # "postgres" => writer = NoThread
      /\ UNCHANGED <<store, emitted, pending, taken, inserted, writer, since, delivered, alive>>
  BY DEF PurgeLogs, clientVars
<1>3. /\ logRow' = [i \in DOMAIN logRow |-> logRow'[i]]
      /\ \A i \in DOMAIN logRow : logRow'[i] \in {logRow[i], [logRow[i] EXCEPT !.state = "purged"]}
  BY <1>1
<1>4. logRow' \in Seq(Rows) /\ Len(logRow') = Len(logRow) /\ DOMAIN logRow' = DOMAIN logRow
  BY <1>1, <1>3, RowsMapped
<1>5. ASSUME NEW i \in DOMAIN logRow
      PROVE  /\ logRow'[i].line = logRow[i].line
             /\ i \in old => logRow'[i].state = "purged" /\ logRow[i].state = "stored"
             /\ i \notin old => logRow'[i].state = logRow[i].state
  <2>1. logRow[i] \in Rows
    BY RowsTyped
  <2>2. /\ [logRow[i] EXCEPT !.state = "purged"].line = logRow[i].line
        /\ [logRow[i] EXCEPT !.state = "purged"].state = "purged"
    BY <2>1, RowSettled
  <2> QED
    BY <2>2, <1>1 DEF Stored
<1>6. Published' = Published /\ Stored' = Stored \ old
  BY <1>4, <1>5 DEF Published, Stored
<1>7. Log' = Log
  BY <1>5, <1>6 DEF Log, Published
<1>8. JobLogTypeOK'
  BY <1>2, <1>4 DEF LogInv, JobLogTypeOK, Rows
<1>9. OneInserts' /\ BufferOrdered' /\ BatchesApart' /\ Batched' = Batched /\ Held' = Held
  BY <1>2 DEF LogInv, OneInserts, BufferOrdered, BatchesApart, Batched, Held
<1>10. OpenRowsLast'
  <2> SUFFICES ASSUME store # "postgres"
               PROVE  OpenRowsLast'
    BY <1>2 DEF OpenRowsLast
  <2>1. writer = NoThread /\ writer' = NoThread
    BY <1>2
  <2>2. Settled' = Len(logRow) /\ Len(logRow) \in Nat
    BY <2>1, <1>4, RowsTyped DEF Settled
  <2>3. \A i \in DOMAIN logRow : logRow[i].state # "open"
    BY <2>1, SettledBelow, RowsTyped
  <2>4. \A i \in DOMAIN logRow : logRow'[i].state # "open"
    BY <2>3, <1>5
  <2> QED
    BY <2>1, <2>2, <2>4, RowsTyped DEF OpenRowsLast
<1>11. /\ (Published \ Stored)' \subseteq Published
       /\ Published \ Stored \subseteq (Published \ Stored)'
  BY <1>6
<1>12. Feed!Remove
  BY <1>2, <1>7, <1>9, <1>11 DEF Feed!Remove, Held, Log
<1> QED
  BY <1>8, <1>9, <1>10, <1>12 DEF LogInv

-----------------------------------------------------------------------------

LEMMA LogInitInv == JobLogInit => LogInv
<1> SUFFICES ASSUME JobLogInit
             PROVE  LogInv
  OBVIOUS
<1>1. JobLogTypeOK
  BY JobLogAssumption DEF JobLogInit, JobLogTypeOK
<1>2. OneInserts /\ BufferOrdered /\ BatchesApart
  BY DEF JobLogInit, OneInserts, BufferOrdered, BatchesApart
<1>3. OpenRowsLast
  BY DEF JobLogInit, OpenRowsLast, Settled
<1> QED
  BY <1>1, <1>2, <1>3 DEF LogInv

LEMMA LogInitFeed == JobLogInit => Feed!FeedInit
<1> SUFFICES ASSUME JobLogInit
             PROVE  Feed!FeedInit
  OBVIOUS
<1>1. Batched = {}
  <2>1. emitted \in [Loggers -> Nat] /\ \A t \in Loggers : emitted[t] = 0
    BY DEF JobLogInit
  <2> QED
    BY <2>1, BatchedLines
<1>2. Published = {} /\ Published \ Stored = {}
  BY DEF JobLogInit, Published
<1>3. {taken[t] : t \in Loggers} \ {<<>>} = {}
  BY DEF JobLogInit
<1>4. [i \in Published |-> logRow[i].line] = <<>>
  BY <1>2
<1>5. since = 0 /\ delivered = <<>> /\ (store = "memory") \in BOOLEAN
  BY DEF JobLogInit
<1> QED
  BY <1>1, <1>2, <1>3, <1>4, <1>5 DEF Feed!FeedInit

LEMMA LogStep ==
  ASSUME LogInv, [JobLogNext]_logVars
  PROVE  /\ LogInv'
         /\ store # "postgres" => [Feed!FeedNext]_Feed!feedVars
<1>1. CASE UNCHANGED logVars
  <2>1. /\ UNCHANGED <<store, emitted, pending, taken, inserted, logRow, writer, alive>>
        /\ UNCHANGED <<since, delivered>>
    BY <1>1 DEF logVars
  <2>2. since' \in Nat /\ delivered' \in Seq(Nat)
    BY <2>1 DEF LogInv, JobLogTypeOK
  <2>3. LogInv' /\ UNCHANGED <<Batched, Held, Log, Published, Stored>>
    BY <2>1, <2>2, AnswerKeeps
  <2> QED
    BY <2>1, <2>3, Stutters
<1>2. ASSUME NEW t \in Loggers, AddLine(t)
      PROVE  LogInv' /\ UNCHANGED Feed!feedVars
  <2>1. LogInv' /\ Batched' = Batched
    BY <1>2, AddLineKeeps
  <2>2. UNCHANGED <<store, taken, logRow, since, delivered>>
    BY <1>2 DEF AddLine, clientVars
  <2>3. UNCHANGED <<Held, Log, Published, Stored>>
    BY <2>2 DEF Held, Log, Published, Stored
  <2> QED
    BY <2>1, <2>2, <2>3, Stutters
<1>3. ASSUME NEW t \in Loggers, InsertRow(t)
      PROVE  LogInv' /\ UNCHANGED Feed!feedVars
  <2>1. /\ LogInv' /\ UNCHANGED <<Batched, Published, Stored>>
        /\ \A i \in DOMAIN logRow : logRow'[i] = logRow[i]
    BY <1>3, InsertKeeps
  <2>2. UNCHANGED <<store, taken, since, delivered>>
    BY <1>3 DEF InsertRow, clientVars
  <2>3. Held' = Held
    BY <2>2 DEF Held
  <2>4. Log' = Log
    BY <2>1 DEF Log, Published
  <2> QED
    BY <2>1, <2>2, <2>3, <2>4, Stutters
<1>4. ASSUME NEW t \in Loggers, Commit(t) \/ FailBatch(t)
      PROVE  LogInv' /\ (store # "postgres" => Feed!Publish \/ Feed!Drop)
  BY <1>4, CommitFollows, FailFollows, ReleaseAnywhere
<1>5. ASSUME NEW t \in Loggers, AddAndTake(t)
      PROVE  LogInv' /\ Feed!Hold
  BY <1>5, AddAndTakeKeeps
<1>6. TakeBuffer \/ LogEvent => LogInv' /\ Feed!Hold
  BY TakeBufferKeeps, LogEventKeeps
<1>7. EndProcess => LogInv' /\ (store # "postgres" => Feed!Drop)
  BY EndKeeps
<1>8. /\ PollSince => LogInv' /\ Feed!Deliver
      /\ PollTail => LogInv' /\ Feed!Join
      /\ PurgeLogs => LogInv' /\ Feed!Remove
  BY PollSinceFollows, PollTailFollows, PurgeFollows
<1> QED
  BY <1>1, <1>2, <1>3, <1>4, <1>5, <1>6, <1>7, <1>8 DEF JobLogNext, Feed!FeedNext

LEMMA LogInvariance == JobLogSpec => []LogInv
<1>1. LogInv /\ [JobLogNext]_logVars => LogInv'
  BY LogStep
<1> QED
  BY <1>1, LogInitInv, PTL DEF JobLogSpec

\* The type invariant of the log, on every store.
THEOREM LogTypes == JobLogSpec => []JobLogTypeOK
<1>1. LogInv => JobLogTypeOK
  BY DEF LogInv
<1> QED
  BY <1>1, LogInvariance, PTL

\* On SQLite the log implements the feed, for all threads, numbers of lines and page limits:
\* the buffer, connect() and since_id together keep every batch whole and every id ordered.
THEOREM LogIsFeed ==
  ASSUME "postgres" \notin Stores
  PROVE  JobLogSpec => FollowsFeed
<1>1. LogInv => store # "postgres"
  BY DEF LogInv, JobLogTypeOK
<1>2. LogInv /\ [JobLogNext]_logVars => [Feed!FeedNext]_Feed!feedVars
  BY <1>1, LogStep
<1> QED
  BY <1>2, LogInvariance, LogInitFeed, PTL DEF JobLogSpec, FollowsFeed, Feed!FeedSpec

-----------------------------------------------------------------------------
(* What the feed means to the client. *)

\* The client has got every row between the first it got and the last, once and in order,
\* unless the row was deleted.
NothingMissed ==
  /\ \A j, k \in DOMAIN delivered : j < k => delivered[j] < delivered[k]
  /\ delivered # <<>> =>
       \A i \in Stored :
         delivered[1] <= i /\ i <= since => \E k \in DOMAIN delivered : delivered[k] = i

\* The client moves forward over rows that were committed, whatever the store.
Forward ==
  /\ since \in {0} \cup Published
  /\ delivered = <<>> => since = 0
  /\ \A k \in DOMAIN delivered : delivered[k] \in Published /\ delivered[k] <= since
  /\ \A j, k \in DOMAIN delivered : j < k => delivered[j] < delivered[k]

ClientInv == Forward /\ NothingMissed

LEMMA ClientTyped ==
  ASSUME LogInv
  PROVE  /\ Published \subseteq Nat \ {0} /\ Stored \subseteq Published
         /\ delivered \in Seq(Nat) /\ since \in Nat
<1>1. DOMAIN logRow \subseteq Nat \ {0}
  BY RowsTyped
<1>2. Published \subseteq Nat \ {0} /\ Stored \subseteq Published
  BY <1>1 DEF Published, Stored
<1> QED
  BY <1>2 DEF LogInv, JobLogTypeOK

\* Steps of the feed that answer nobody add behind what is published, and keep what is removed.
LEMMA FeedMoves ==
  ASSUME [Feed!FeedNext]_Feed!feedVars
  PROVE  \/ Feed!Join \/ Feed!Deliver
         \/ /\ UNCHANGED <<since, delivered>>
            /\ Published \subseteq Published'
            /\ \A p \in Published, q \in Published' \ Published : p < q
            /\ Published \ Stored \subseteq (Published \ Stored)'
<1>1. DOMAIN Log = Published /\ DOMAIN Log' = Published'
  BY DEF Log
<1>2. CASE Feed!Hold \/ Feed!Remove \/ UNCHANGED Feed!feedVars
  <2>1. /\ Log' = Log /\ UNCHANGED <<since, delivered>>
        /\ Published \ Stored \subseteq (Published \ Stored)'
    BY <1>2 DEF Feed!Hold, Feed!Remove, Feed!feedVars, Log
  <2>2. Published' = Published
    BY <1>1, <2>1
  <2> QED
    BY <2>1, <2>2
<1>3. CASE Feed!Publish \/ Feed!Drop
  <2>1. UNCHANGED <<since, delivered>> /\ (Published \ Stored)' = Published \ Stored
    BY <1>3 DEF Feed!Publish, Feed!Drop
  <2>2. \/ Log' = Log
        \/ /\ DOMAIN Log \subseteq DOMAIN Log'
           /\ \A p \in DOMAIN Log, q \in (DOMAIN Log') \ (DOMAIN Log) : p < q
    <3>1. CASE Feed!Publish
      BY <3>1 DEF Feed!Publish, Feed!Publishes, Log
    <3>2. CASE Feed!Drop
      BY <3>2 DEF Feed!Drop, Feed!Publishes, Log
    <3> QED
      BY <1>3, <3>1, <3>2
  <2>3. CASE Log' = Log
    <3>1. Published' = Published
      BY <1>1, <2>3
    <3> QED
      BY <2>1, <3>1
  <2>4. CASE Log' # Log
    BY <1>1, <2>1, <2>2, <2>4
  <2> QED
    BY <2>3, <2>4
<1> QED
  BY <1>2, <1>3 DEF Feed!FeedNext

LEMMA JoinMissesNothing ==
  ASSUME LogInv, LogInv', Feed!Join
  PROVE  Forward' /\ NothingMissed'
<1>1. /\ delivered' # <<>> /\ since' = delivered'[Len(delivered')]
      /\ Feed!Lists(delivered', {p \in Stored : delivered'[1] <= p})
      /\ (Published \ Stored)' = Published \ Stored
      /\ Log' = Log
  BY KeptIsStored DEF Feed!Join, Log
<1>2. /\ Published' = Published /\ Published \subseteq Nat \ {0}
      /\ Stored \subseteq Published /\ Stored' \subseteq Published'
      /\ delivered' \in Seq(Nat)
  <2>1. DOMAIN Log = Published /\ DOMAIN Log' = Published'
    BY DEF Log
  <2>2. Stored' \subseteq Published' /\ delivered' \in Seq(Nat)
    BY DEF LogInv, JobLogTypeOK, Published, Stored
  <2> QED
    BY <1>1, <2>1, <2>2, ClientTyped
<1>3. Stored' = Stored
  BY <1>1, <1>2
<1>4. /\ {delivered'[k] : k \in DOMAIN delivered'} = {p \in Stored : delivered'[1] <= p}
      /\ \A j, k \in DOMAIN delivered' : j < k => delivered'[j] < delivered'[k]
  BY <1>1 DEF Feed!Lists
<1>5. Len(delivered') \in DOMAIN delivered' /\ DOMAIN delivered' = 1 .. Len(delivered')
      /\ Len(delivered') \in Nat
  BY <1>1, <1>2
<1>6. since' \in Stored
  BY <1>1, <1>4, <1>5
<1>7. \A k \in DOMAIN delivered' : delivered'[k] <= since'
  BY <1>1, <1>2, <1>4, <1>5
<1>8. NothingMissed'
  BY <1>3, <1>4 DEF NothingMissed
<1>9. \A k \in DOMAIN delivered' : delivered'[k] \in Published'
  BY <1>2, <1>4
<1> QED
  BY <1>1, <1>2, <1>4, <1>6, <1>7, <1>8, <1>9 DEF Forward

LEMMA DeliverMissesNothing ==
  ASSUME LogInv, Forward, LogInv', Feed!Deliver
  PROVE  Forward' /\ (NothingMissed => NothingMissed')
<1> DEFINE page == SubSeq(delivered', Len(delivered) + 1, Len(delivered'))
<1>1. /\ since' \in Stored /\ since < since'
      /\ delivered' = delivered \o page
      /\ Feed!Lists(page, {p \in Stored : since < p /\ p <= since'})
      /\ (Published \ Stored)' = Published \ Stored
      /\ Log' = Log
  BY KeptIsStored DEF Feed!Deliver, Log
<1>2. /\ Published \subseteq Nat \ {0} /\ Stored \subseteq Published
      /\ delivered \in Seq(Nat) /\ since \in Nat /\ since' \in Nat /\ delivered' \in Seq(Nat)
  BY <1>1, ClientTyped DEF LogInv, JobLogTypeOK
<1>3. Stored' = Stored /\ Published' = Published
  <2>1. DOMAIN Log = Published /\ DOMAIN Log' = Published'
    BY DEF Log
  <2>2. Stored' \subseteq Published'
    BY DEF Published, Stored
  <2> QED
    BY <1>1, <1>2, <2>1, <2>2
<1>4. Len(page) \in Nat /\ DOMAIN page = 1 .. Len(page) /\ page \in Seq(Nat)
  <2>1. \A i \in Len(delivered) + 1 .. Len(delivered') : delivered'[i] \in Nat
    BY <1>2
  <2>2. page \in Seq(Nat)
    BY <1>2, <2>1, SubSeqProperties
  <2> QED
    BY <2>2
<1> HIDE DEF page
<1>5. /\ {page[k] : k \in DOMAIN page} = {p \in Stored : since < p /\ p <= since'}
      /\ \A j, k \in DOMAIN page : j < k => page[j] < page[k]
  BY <1>1 DEF Feed!Lists
<1>6. /\ Len(delivered') = Len(delivered) + Len(page)
      /\ \A k \in 1 .. Len(delivered) : delivered'[k] = delivered[k]
      /\ \A k \in 1 .. Len(page) : delivered'[Len(delivered) + k] = page[k]
  BY <1>1, <1>2, <1>4, ConcatProperties
<1>7. Len(delivered) \in Nat /\ DOMAIN delivered = 1 .. Len(delivered)
      /\ DOMAIN delivered' = 1 .. Len(delivered) + Len(page)
  BY <1>2, <1>4, <1>6
<1>8. ASSUME NEW k \in DOMAIN delivered'
      PROVE  \/ /\ k \in DOMAIN delivered
                /\ delivered'[k] = delivered[k] /\ delivered[k] <= since
                /\ delivered'[k] \in Published
             \/ /\ k - Len(delivered) \in DOMAIN page
                /\ delivered'[k] = page[k - Len(delivered)]
                /\ since < delivered'[k] /\ delivered'[k] <= since'
                /\ delivered'[k] \in Published
                /\ k > Len(delivered)
  <2>1. CASE k \in DOMAIN delivered
    BY <2>1, <1>6, <1>7 DEF Forward
  <2>2. CASE k \notin DOMAIN delivered
    <3>1. k - Len(delivered) \in DOMAIN page /\ k = Len(delivered) + (k - Len(delivered))
          /\ k > Len(delivered)
      BY <2>2, <1>4, <1>7
    <3>2. delivered'[k] = page[k - Len(delivered)]
      BY <3>1, <1>4, <1>6
    <3>3. page[k - Len(delivered)] \in {p \in Stored : since < p /\ p <= since'}
      BY <3>1, <1>5
    <3> QED
      BY <3>1, <3>2, <3>3, <1>2
  <2> QED
    BY <2>1, <2>2
<1>9. \A k \in DOMAIN delivered' : delivered'[k] <= since' /\ delivered'[k] \in Nat
  <2>1. \A k \in DOMAIN delivered' : delivered'[k] \in Nat
    BY <1>2
  <2>2. since \in Nat /\ since' \in Nat /\ since <= since'
    BY <1>1, <1>2
  <2>3. ASSUME NEW k \in DOMAIN delivered'
        PROVE  delivered'[k] <= since \/ delivered'[k] <= since'
    BY <1>8
  <2> QED
    BY <2>1, <2>2, <2>3
<1>10. delivered' # <<>>
  <2>1. since' \in {page[k] : k \in DOMAIN page}
    BY <1>1, <1>2, <1>5
  <2>2. Len(page) > 0
    BY <2>1, <1>4
  <2> QED
    BY <2>2, <1>6, <1>7, <1>4
<1>11. ASSUME NEW j \in DOMAIN delivered', NEW k \in DOMAIN delivered', j < k
       PROVE  delivered'[j] < delivered'[k]
  <2>1. CASE k \in DOMAIN delivered
    <3>1. j \in DOMAIN delivered
      BY <2>1, <1>11, <1>7
    <3> QED
      BY <2>1, <3>1, <1>6, <1>7, <1>11 DEF Forward
  <2>2. CASE k \notin DOMAIN delivered
    <3>1. /\ k - Len(delivered) \in DOMAIN page /\ delivered'[k] = page[k - Len(delivered)]
          /\ since < delivered'[k] /\ k > Len(delivered)
      BY <2>2, <1>8
    <3>2. CASE j \in DOMAIN delivered
      <4>1. delivered'[j] <= since
        BY <3>2, <1>6, <1>7 DEF Forward
      <4>2. delivered'[j] \in Nat /\ delivered'[k] \in Nat
        BY <1>9
      <4> QED
        BY <3>1, <4>1, <4>2, <1>2
    <3>3. CASE j \notin DOMAIN delivered
      <4>1. j - Len(delivered) \in DOMAIN page /\ delivered'[j] = page[j - Len(delivered)]
        BY <3>3, <1>8
      <4>2. j - Len(delivered) < k - Len(delivered)
        BY <1>7, <1>11
      <4> QED
        BY <3>1, <4>1, <4>2, <1>5
    <3> QED
      BY <3>2, <3>3
  <2> QED
    BY <2>1, <2>2
<1>12. ASSUME NothingMissed, NEW i \in Stored, delivered'[1] <= i, i <= since'
       PROVE  \E k \in DOMAIN delivered' : delivered'[k] = i
  <2>1. i \in Nat \ {0}
    BY <1>2
  <2>2. CASE since < i
    <3>1. i \in {p \in Stored : since < p /\ p <= since'}
      BY <2>2, <1>12
    <3>2. PICK k \in DOMAIN page : page[k] = i
      BY <3>1, <1>5
    <3>3. Len(delivered) + k \in DOMAIN delivered' /\ delivered'[Len(delivered) + k] = i
      BY <3>2, <1>4, <1>6, <1>7
    <3> QED
      BY <3>3
  <2>3. CASE i <= since
    <3>1. delivered # <<>>
      BY <2>1, <2>3, <1>2 DEF Forward
    <3>2. 1 \in DOMAIN delivered
      BY <3>1, <1>2
    <3>3. delivered'[1] = delivered[1]
      BY <3>2, <1>6, <1>7
    <3>4. PICK k \in DOMAIN delivered : delivered[k] = i
      BY <3>1, <3>3, <2>3, <1>12 DEF NothingMissed
    <3>5. k \in DOMAIN delivered' /\ delivered'[k] = i
      BY <3>4, <1>6, <1>7, <1>4
    <3> QED
      BY <3>5
  <2> QED
    BY <2>1, <2>2, <2>3, <1>2
<1>13. NothingMissed => NothingMissed'
  BY <1>3, <1>11, <1>12 DEF NothingMissed
<1>14. \A k \in DOMAIN delivered' : delivered'[k] \in Published'
  BY <1>3, <1>8
<1> QED
  BY <1>1, <1>2, <1>3, <1>9, <1>10, <1>11, <1>13, <1>14 DEF Forward

LEMMA OthersStay ==
  ASSUME Forward, UNCHANGED <<since, delivered>>, Published \subseteq Published'
  PROVE  Forward'
BY DEF Forward

LEMMA OthersMissNothing ==
  ASSUME LogInv, LogInv', ClientInv, UNCHANGED <<since, delivered>>,
         Published \subseteq Published',
         \A p \in Published, q \in Published' \ Published : p < q,
         Published \ Stored \subseteq (Published \ Stored)'
  PROVE  ClientInv'
<1>1. Stored' \subseteq Published' /\ Published' \subseteq Nat \ {0}
  <2>1. logRow' \in Seq(Rows)
    BY DEF LogInv, JobLogTypeOK, Rows
  <2>2. DOMAIN logRow' \subseteq Nat \ {0}
    BY <2>1
  <2> QED
    BY <2>2 DEF Stored, Published
<1>2. ASSUME NEW i \in Stored', delivered # <<>>, delivered[1] <= i, i <= since
      PROVE  i \in Stored
  <2>1. CASE i \in Published
    BY <2>1
  <2>2. CASE i \notin Published
    <3>1. i \in Published' \ Published
      BY <1>1, <2>2
    <3>2. since \in Nat /\ i \in Nat \ {0}
      BY <1>1, <3>1, ClientTyped
    <3>3. CASE since = 0
      BY <3>2, <3>3, <1>2
    <3>4. CASE since # 0
      <4>1. since < i
        BY <3>1, <3>4 DEF ClientInv, Forward
      <4> QED
        BY <4>1, <3>2, <1>2
    <3> QED
      BY <3>3, <3>4
  <2> QED
    BY <2>1, <2>2
<1>3. NothingMissed'
  BY <1>2 DEF ClientInv, NothingMissed
<1> QED
  BY <1>3, OthersStay DEF ClientInv

\* On SQLite a client that follows the log with since_id gets every line that is stored, in
\* the order of the ids, none twice and none skipped, however many threads write.
THEOREM NothingIsMissed ==
  ASSUME "postgres" \notin Stores
  PROVE  JobLogSpec => []NothingMissed
<1>1. JobLogInit => ClientInv
  BY DEF JobLogInit, ClientInv, Forward, NothingMissed
<1>2. LogInv /\ LogInv' /\ ClientInv /\ [Feed!FeedNext]_Feed!feedVars => ClientInv'
  BY FeedMoves, JoinMissesNothing, DeliverMissesNothing, OthersMissNothing DEF ClientInv
<1>3. JobLogSpec => [][Feed!FeedNext]_Feed!feedVars
  BY LogIsFeed, PTL DEF FollowsFeed, Feed!FeedSpec
<1>4. ClientInv => NothingMissed
  BY DEF ClientInv
<1> QED
  BY <1>1, <1>2, <1>3, <1>4, LogInvariance, PTL DEF JobLogSpec

-----------------------------------------------------------------------------
(* What holds on every store: each line once. *)

\* A row stands for its line unless its transaction was undone.
Live(i) == i \in DOMAIN logRow /\ logRow[i].state # "gone"

\* No two rows stand for one line; rows stand for lines that left the buffer; what is left of
\* a batch is in no row.
RowsApart == \A i, j \in DOMAIN logRow : Live(i) /\ Live(j) /\ logRow[i].line = logRow[j].line => i = j
RowsBatched == \A i \in DOMAIN logRow : Live(i) => logRow[i].line \in Batched
BatchWaits ==
  \A t \in Loggers : \A k \in inserted[t] + 1 .. Len(taken[t]) : \A i \in DOMAIN logRow :
    Live(i) => logRow[i].line # taken[t][k]

OnceInv == RowsApart /\ RowsBatched /\ BatchWaits

\* No row is added, and the published ones stay so.
RowsStay ==
  /\ \A i \in DOMAIN logRow' :
       \/ logRow'[i].state = "gone"
       \/ Live(i) /\ logRow'[i].line = logRow[i].line
  /\ Published \subseteq Published'

Replaces(i, state) == logRow[i].state \in IF state = "purged" THEN {"stored"} ELSE {"open"}

LEMMA RowsEdited ==
  ASSUME LogInv, NEW state \in {"stored", "gone", "purged"},
         DOMAIN logRow' = DOMAIN logRow,
         \A i \in DOMAIN logRow :
           \/ logRow'[i] = logRow[i]
           \/ logRow'[i] = [logRow[i] EXCEPT !.state = state] /\ Replaces(i, state)
  PROVE  RowsStay
<1>1. ASSUME NEW i \in DOMAIN logRow
      PROVE  /\ [logRow[i] EXCEPT !.state = state].line = logRow[i].line
             /\ [logRow[i] EXCEPT !.state = state].state = state
  <2>1. logRow[i] \in Rows
    BY RowsTyped
  <2> QED
    BY <2>1, RowSettled
<1>2. ASSUME NEW i \in DOMAIN logRow'
      PROVE  \/ logRow'[i].state = "gone"
             \/ Live(i) /\ logRow'[i].line = logRow[i].line
  BY <1>1 DEF Live, Replaces
<1>3. Published \subseteq Published'
  BY <1>1 DEF Published, Replaces
<1> QED
  BY <1>2, <1>3 DEF RowsStay

LEMMA RowsUndone ==
  ASSUME LogInv, store # "postgres", writer # NoThread, logRow' = Undone(writer)
  PROVE  RowsStay
<1>1. /\ logRow' \in Seq(Rows) /\ Len(logRow') = Settled
      /\ \A i \in 1 .. Settled : logRow'[i] = logRow[i]
  BY UndoneRows
<1>2. DOMAIN logRow' = 1 .. Settled /\ Settled \in Nat
  BY <1>1, SettledBelow
<1>3. \A i \in 1 .. Settled : i \in DOMAIN logRow
  <2>1. Settled <= Len(logRow) /\ Len(logRow) \in Nat /\ DOMAIN logRow = 1 .. Len(logRow)
    BY SettledBelow, RowsTyped
  <2> QED
    BY <1>2, <2>1
<1>4. \A i \in DOMAIN logRow : i \in 1 .. Settled \/ logRow[i].state = "open"
  BY SettledBelow, RowsTyped
<1>5. Published \subseteq Published'
  BY <1>1, <1>2, <1>4 DEF Published
<1> QED
  BY <1>1, <1>2, <1>3, <1>5 DEF RowsStay, Live

\* What a commit, a failure, the end of the process and the purge do to the rows.
LEMMA RowsAfter ==
  ASSUME LogInv, (\E t \in Loggers : Commit(t) \/ FailBatch(t)) \/ EndProcess \/ PurgeLogs
  PROVE  RowsStay
<1>1. ASSUME NEW t \in Loggers, NEW state \in {"stored", "gone"}, logRow' = SettleAs(t, state)
      PROVE  RowsStay
  <2>1. /\ DOMAIN logRow' = DOMAIN logRow
        /\ \A i \in DOMAIN logRow :
             logRow'[i] = IF Mine(t, i) THEN [logRow[i] EXCEPT !.state = state] ELSE logRow[i]
    BY <1>1 DEF SettleAs
  <2>2. \A i \in DOMAIN logRow : Mine(t, i) => logRow[i].state = "open"
    BY DEF Mine
  <2>3. \A i \in DOMAIN logRow :
          \/ logRow'[i] = logRow[i]
          \/ logRow'[i] = [logRow[i] EXCEPT !.state = state] /\ Replaces(i, state)
    BY <2>1, <2>2 DEF Replaces
  <2> QED
    BY <2>1, <2>3, RowsEdited
<1>2. logRow' = logRow => RowsStay
  BY DEF RowsStay, Live, Published
<1>3. ASSUME NEW t \in Loggers, Commit(t)
      PROVE  RowsStay
  BY <1>1, <1>3 DEF Commit
<1>4. ASSUME NEW t \in Loggers, FailBatch(t)
      PROVE  RowsStay
  <2>1. store \in {"file", "memory", "postgres"} /\ t # NoThread
    BY JobLogAssumption DEF LogInv, JobLogTypeOK
  <2>2. CASE store = "file" /\ writer = t
    <3>1. logRow' = Undone(writer)
      BY <1>4, <2>2 DEF FailBatch
    <3> QED
      BY <2>1, <2>2, <3>1, RowsUndone
  <2>3. CASE store = "file" /\ writer # t
    BY <1>2, <1>4, <2>3 DEF FailBatch
  <2>4. CASE store = "memory"
    BY <1>1, <1>4, <2>4 DEF FailBatch
  <2>5. CASE store = "postgres"
    BY <1>1, <1>4, <2>5 DEF FailBatch
  <2> QED
    BY <2>1, <2>2, <2>3, <2>4, <2>5
<1>5. ASSUME EndProcess
      PROVE  RowsStay
  <2>1. CASE store = "file" /\ writer # NoThread
    <3>1. logRow' = Undone(writer)
      BY <1>5, <2>1 DEF EndProcess
    <3> QED
      BY <2>1, <3>1, RowsUndone
  <2>2. CASE ~(store = "file" /\ writer # NoThread)
    <3>1. logRow' = [i \in DOMAIN logRow |->
                       IF logRow[i].state = "open" THEN [logRow[i] EXCEPT !.state = "gone"]
                       ELSE logRow[i]]
      BY <1>5, <2>2 DEF EndProcess
    <3>2. /\ DOMAIN logRow' = DOMAIN logRow
          /\ \A i \in DOMAIN logRow :
               \/ logRow'[i] = logRow[i]
               \/ logRow'[i] = [logRow[i] EXCEPT !.state = "gone"] /\ Replaces(i, "gone")
      BY <3>1 DEF Replaces
    <3> QED
      BY <3>2, RowsEdited
  <2> QED
    BY <2>1, <2>2
<1>6. ASSUME PurgeLogs
      PROVE  RowsStay
  <2>1. PICK old \in SUBSET Stored :
          logRow' = [i \in DOMAIN logRow |->
                       IF i \in old THEN [logRow[i] EXCEPT !.state = "purged"] ELSE logRow[i]]
    BY <1>6 DEF PurgeLogs
  <2>2. /\ DOMAIN logRow' = DOMAIN logRow
        /\ \A i \in DOMAIN logRow :
             \/ logRow'[i] = logRow[i]
             \/ logRow'[i] = [logRow[i] EXCEPT !.state = "purged"] /\ Replaces(i, "purged")
    BY <2>1 DEF Stored, Replaces
  <2> QED
    BY <2>2, RowsEdited
<1> QED
  BY <1>3, <1>4, <1>5, <1>6

\* Steps that add no row keep the invariant, if what they leave to insert is in none.
LEMMA OnceKept ==
  ASSUME OnceInv, RowsStay, Batched \subseteq Batched',
         \A t \in Loggers : \A k \in inserted'[t] + 1 .. Len(taken'[t]) : \A i \in DOMAIN logRow :
           Live(i) => logRow[i].line # taken'[t][k]
  PROVE  OnceInv'
<1>1. \A i \in DOMAIN logRow' : Live(i)' => Live(i) /\ logRow'[i].line = logRow[i].line
  BY DEF RowsStay, Live
<1>2. \A i \in DOMAIN logRow' : Live(i)' => i \in DOMAIN logRow
  BY <1>1 DEF Live
<1>3. RowsApart'
  BY <1>1, <1>2 DEF OnceInv, RowsApart
<1>4. RowsBatched'
  BY <1>1, <1>2 DEF OnceInv, RowsBatched
<1>5. BatchWaits'
  BY <1>1, <1>2 DEF BatchWaits
<1> QED
  BY <1>3, <1>4, <1>5 DEF OnceInv

\* A batch of lines that were in none is in no row.
LEMMA OnceTaken ==
  ASSUME LogInv, OnceInv, NEW t \in Loggers, NEW batch \in Seq(Loggers \X Nat),
         \A k \in DOMAIN batch : batch[k] \notin Batched,
         taken' = [taken EXCEPT ![t] = batch], UNCHANGED <<inserted, logRow>>,
         Batched \subseteq Batched'
  PROVE  OnceInv'
<1>1. ASSUME NEW u \in Loggers, NEW k \in inserted'[u] + 1 .. Len(taken'[u]),
             NEW i \in DOMAIN logRow, Live(i)
      PROVE  logRow[i].line # taken'[u][k]
  <2>1. CASE u # t
    BY <2>1, <1>1, RowsTyped DEF OnceInv, BatchWaits
  <2>2. CASE u = t
    <3>1. taken'[u] = batch
      BY <2>2, RowsTyped
    <3>2. inserted[u] \in Nat /\ k \in inserted[u] + 1 .. Len(batch)
      BY <3>1, RowsTyped
    <3>3. k \in DOMAIN batch
      BY <3>2
    <3> QED
      BY <1>1, <3>1, <3>3 DEF OnceInv, RowsBatched
  <2> QED
    BY <2>1, <2>2
<1>2. RowsStay
  BY DEF RowsStay, Live, Published
<1> QED
  BY <1>1, <1>2, OnceKept

LEMMA OnceInserted ==
  ASSUME LogInv, OnceInv, NEW t \in Loggers, InsertRow(t)
  PROVE  OnceInv'
<1> DEFINE line == taken[t][inserted[t] + 1]
<1>1. /\ inserted[t] < Len(taken[t])
      /\ logRow' = Append(logRow, OpenRow(line))
      /\ inserted' = [inserted EXCEPT ![t] = @ + 1]
      /\ taken' = taken
  BY DEF InsertRow
<1>2. inserted[t] \in Nat /\ Len(taken[t]) \in Nat /\ DOMAIN taken[t] = 1 .. Len(taken[t])
  BY RowsTyped
<1>3. inserted[t] + 1 \in DOMAIN taken[t] /\ inserted[t] + 1 \in inserted[t] + 1 .. Len(taken[t])
  BY <1>1, <1>2
<1>4. line \in Loggers \X Nat /\ line \in Batched
  BY <1>3, RowsTyped DEF LogInv, BatchesApart
<1>5. OpenRow(line) \in Rows /\ OpenRow(line).line = line /\ OpenRow(line).state = "open"
  BY <1>4, OpenRowTyped
<1>6. \A i \in DOMAIN logRow : Live(i) => logRow[i].line # line
  BY <1>3 DEF OnceInv, BatchWaits
<1>7. \A u \in Loggers : \A k \in DOMAIN taken[u] :
        taken[u][k] = line => u = t /\ k = inserted[t] + 1
  BY <1>3 DEF LogInv, BatchesApart
<1> HIDE DEF line
<1>8. /\ Len(logRow') = Len(logRow) + 1 /\ logRow' \in Seq(Rows)
      /\ \A i \in 1 .. Len(logRow) : logRow'[i] = logRow[i]
      /\ logRow'[Len(logRow) + 1] = OpenRow(line)
  BY <1>1, <1>5, RowsTyped, AppendProperties
<1>9. ASSUME NEW i \in DOMAIN logRow', Live(i)'
      PROVE  \/ Live(i) /\ logRow'[i].line = logRow[i].line
             \/ i = Len(logRow) + 1 /\ logRow'[i].line = line
  <2>1. i \in DOMAIN logRow \/ i = Len(logRow) + 1
    BY <1>8, RowsTyped
  <2>2. CASE i \in DOMAIN logRow
    BY <2>2, <1>8, <1>9, RowsTyped DEF Live
  <2>3. CASE i = Len(logRow) + 1
    BY <2>3, <1>5, <1>8
  <2> QED
    BY <2>1, <2>2, <2>3
<1>10. \A i \in DOMAIN logRow' : Live(i) => i \in DOMAIN logRow
  BY DEF Live
<1>11. RowsApart'
  BY <1>6, <1>9, <1>10 DEF OnceInv, RowsApart
<1>12. RowsBatched'
  <2>1. Batched' = Batched
    BY InsertKeeps
  <2> QED
    BY <1>4, <1>9, <1>10, <2>1 DEF OnceInv, RowsBatched
<1>13. BatchWaits'
  <2> SUFFICES ASSUME NEW u \in Loggers, NEW k \in inserted'[u] + 1 .. Len(taken[u]),
                      NEW i \in DOMAIN logRow', Live(i)'
               PROVE  logRow'[i].line # taken[u][k]
    BY <1>1 DEF BatchWaits
  <2>1. /\ k \in inserted[u] + 1 .. Len(taken[u]) /\ k \in DOMAIN taken[u]
        /\ u = t => k # inserted[t] + 1
    <3>1. inserted'[u] = IF u = t THEN inserted[t] + 1 ELSE inserted[u]
      BY <1>1, RowsTyped
    <3>2. inserted[u] \in Nat /\ Len(taken[u]) \in Nat /\ DOMAIN taken[u] = 1 .. Len(taken[u])
      BY RowsTyped
    <3> QED
      BY <3>1, <3>2
  <2>2. taken[u][k] # line
    BY <2>1, <1>7
  <2>3. Live(i) => logRow[i].line # taken[u][k]
    BY <2>1, <1>10 DEF OnceInv, BatchWaits
  <2> QED
    BY <2>2, <2>3, <1>9
<1> QED
  BY <1>11, <1>12, <1>13 DEF OnceInv

\* Every step keeps each line in one row, and the client on its way forward.
LEMMA OnceStep ==
  ASSUME LogInv, OnceInv, [JobLogNext]_logVars
  PROVE  OnceInv'
<1>1. CASE UNCHANGED <<taken, inserted, logRow>> /\ Batched \subseteq Batched'
  <2>1. RowsStay
    BY <1>1 DEF RowsStay, Live, Published
  <2>2. \A t \in Loggers : \A k \in inserted'[t] + 1 .. Len(taken'[t]) : \A i \in DOMAIN logRow :
          Live(i) => logRow[i].line # taken'[t][k]
    BY <1>1 DEF OnceInv, BatchWaits
  <2>3. Batched \subseteq Batched'
    BY <1>1
  <2> QED
    BY <2>1, <2>2, <2>3, OnceKept
<1>2. ASSUME UNCHANGED logVars \/ PollSince \/ PollTail
      PROVE  OnceInv'
  <2>1. UNCHANGED <<taken, inserted, logRow, emitted, pending>>
    BY <1>2 DEF logVars, PollSince, PollTail
  <2>2. Batched' = Batched
    BY <2>1 DEF Batched
  <2> QED
    BY <1>1, <2>1, <2>2
<1>3. ASSUME NEW t \in Loggers, AddLine(t)
      PROVE  OnceInv'
  BY <1>1, <1>3, AddLineKeeps DEF AddLine
<1>4. ASSUME NEW t \in Loggers, AddAndTake(t)
      PROVE  OnceInv'
  <2> DEFINE batch == Append(pending, NextLine(t))
  <2>1. /\ taken' = [taken EXCEPT ![t] = batch]
        /\ emitted' = [emitted EXCEPT ![t] = @ + 1]
        /\ UNCHANGED <<inserted, logRow>>
    BY <1>4 DEF AddAndTake
  <2>2. NextLine(t) \in Loggers \X Nat /\ NextLine(t) \notin Batched
    BY <2>1, OneLogged
  <2>3. pending \in Seq(Loggers \X Nat) /\ \A k \in DOMAIN pending : pending[k] \notin Batched
    BY PendingFollows, BatchedLines DEF LogInv, JobLogTypeOK, LinesOf
  <2>4. batch \in Seq(Loggers \X Nat) /\ \A k \in DOMAIN batch : batch[k] \notin Batched
    BY <2>2, <2>3, LinesOfAppend
  <2>5. Batched \subseteq Batched'
    BY <1>4, AddAndTakeKeeps DEF Feed!Hold
  <2> QED
    BY <2>1, <2>4, <2>5, OnceTaken
<1>5. ASSUME TakeBuffer
      PROVE  OnceInv'
  <2>1. /\ taken' = [taken EXCEPT ![Executor] = pending] /\ Executor \in Loggers
        /\ UNCHANGED <<inserted, logRow>>
    BY <1>5 DEF TakeBuffer, Loggers
  <2>2. pending \in Seq(Loggers \X Nat) /\ \A k \in DOMAIN pending : pending[k] \notin Batched
    BY PendingFollows, BatchedLines DEF LogInv, JobLogTypeOK, LinesOf
  <2>3. Batched \subseteq Batched'
    BY <1>5, TakeBufferKeeps DEF Feed!Hold
  <2> QED
    BY <2>1, <2>2, <2>3, OnceTaken
<1>6. ASSUME LogEvent
      PROVE  OnceInv'
  <2>1. /\ taken' = [taken EXCEPT ![Executor] = <<NextLine(Executor)>>] /\ Executor \in Loggers
        /\ emitted' = [emitted EXCEPT ![Executor] = @ + 1]
        /\ UNCHANGED <<inserted, logRow>>
    BY <1>6 DEF LogEvent, Loggers
  <2>2. NextLine(Executor) \in Loggers \X Nat /\ NextLine(Executor) \notin Batched
    BY <2>1, OneLogged
  <2>3. /\ <<NextLine(Executor)>> \in Seq(Loggers \X Nat)
        /\ \A k \in DOMAIN <<NextLine(Executor)>> : <<NextLine(Executor)>>[k] \notin Batched
    BY <2>2
  <2>4. Batched \subseteq Batched'
    BY <1>6, LogEventKeeps DEF Feed!Hold
  <2> QED
    BY <2>1, <2>3, <2>4, OnceTaken
<1>7. ASSUME NEW t \in Loggers, Commit(t) \/ FailBatch(t)
      PROVE  OnceInv'
  <2>1. Release(t) /\ UNCHANGED <<emitted, pending>>
    BY <1>7 DEF Commit, FailBatch
  <2>2. \A u \in Loggers : /\ taken'[u] = IF u = t THEN <<>> ELSE taken[u]
                          /\ inserted'[u] = IF u = t THEN 0 ELSE inserted[u]
    BY <2>1, RowsTyped DEF Release
  <2>3. Batched' = Batched
    BY <2>1 DEF Batched
  <2>4. RowsStay
    BY <1>7, RowsAfter
  <2> QED
    BY <2>2, <2>3, <2>4, OnceKept DEF OnceInv, BatchWaits
<1>8. ASSUME EndProcess
      PROVE  OnceInv'
  <2>1. /\ \A t \in Loggers : taken'[t] = <<>> /\ inserted'[t] = 0
        /\ pending' = <<>> /\ emitted' = emitted
    BY <1>8 DEF EndProcess
  <2>2. Batched \subseteq Batched'
    BY <2>1 DEF Batched
  <2>3. RowsStay
    BY <1>8, RowsAfter
  <2> QED
    BY <2>1, <2>2, <2>3, OnceKept
<1>9. ASSUME PurgeLogs
      PROVE  OnceInv'
  <2>1. UNCHANGED <<taken, inserted, emitted, pending>>
    BY <1>9 DEF PurgeLogs
  <2>2. Batched' = Batched
    BY <2>1 DEF Batched
  <2>3. RowsStay
    BY <1>9, RowsAfter
  <2> QED
    BY <2>1, <2>2, <2>3, OnceKept DEF OnceInv, BatchWaits
<1> QED
  BY <1>2, <1>3, <1>4, <1>5, <1>6, <1>7, <1>8, <1>9, OnceInserted DEF JobLogNext

LEMMA ForwardStep ==
  ASSUME LogInv, Forward, LogInv', [JobLogNext]_logVars
  PROVE  Forward'
<1>1. CASE UNCHANGED logVars \/ (\E t \in Loggers : AddLine(t) \/ AddAndTake(t)) \/ TakeBuffer \/ LogEvent
  <2>1. UNCHANGED <<since, delivered, logRow>>
    BY <1>1 DEF logVars, AddLine, AddAndTake, TakeBuffer, LogEvent, clientVars
  <2>2. Published' = Published
    BY <2>1 DEF Published
  <2> QED
    BY <2>1, <2>2, OthersStay
<1>2. ASSUME NEW t \in Loggers, InsertRow(t)
      PROVE  Forward'
  <2>1. UNCHANGED <<since, delivered>>
    BY <1>2 DEF InsertRow, clientVars
  <2> QED
    BY <1>2, <2>1, InsertKeeps, OthersStay
<1>3. CASE (\E t \in Loggers : Commit(t) \/ FailBatch(t)) \/ EndProcess \/ PurgeLogs
  <2>1. UNCHANGED <<since, delivered>>
    BY <1>3 DEF Commit, FailBatch, EndProcess, PurgeLogs, clientVars
  <2>2. Published \subseteq Published'
    BY <1>3, RowsAfter DEF RowsStay
  <2> QED
    BY <2>1, <2>2, OthersStay
<1>4. PollSince => Forward'
  BY PollSinceFollows, DeliverMissesNothing
<1>5. PollTail => Forward'
  BY PollTailFollows, JoinMissesNothing
<1> QED
  BY <1>1, <1>2, <1>3, <1>4, <1>5 DEF JobLogNext

\* A line that was committed is in one row, and the client got no row and no line twice.
LinesOnce ==
  /\ \A i, j \in Published : logRow[i].line = logRow[j].line => i = j
  /\ \A j, k \in DOMAIN delivered :
       /\ delivered[k] \in Published
       /\ logRow[delivered[j]].line = logRow[delivered[k]].line => j = k

\* On every store _JobLogBuffer, connect() and since_id keep LinesOnce, whether batches overtake
\* each other, fail halfway, are rolled back or are cut off by a crash.
THEOREM NothingIsTwice == JobLogSpec => []LinesOnce
<1>1. JobLogInit => OnceInv /\ Forward
  BY DEF JobLogInit, OnceInv, RowsApart, RowsBatched, BatchWaits, Forward
<1>2. LogInv /\ OnceInv /\ [JobLogNext]_logVars => OnceInv'
  BY OnceStep
<1>3. LogInv /\ Forward /\ LogInv' /\ [JobLogNext]_logVars => Forward'
  BY ForwardStep
<1>4. LogInv /\ OnceInv /\ Forward => LinesOnce
  <2> SUFFICES ASSUME LogInv, OnceInv, Forward
               PROVE  LinesOnce
    OBVIOUS
  <2>1. \A i, j \in Published : logRow[i].line = logRow[j].line => i = j
    BY DEF OnceInv, RowsApart, Live, Published
  <2>2. \A j, k \in DOMAIN delivered : delivered[j] = delivered[k] => j = k
    <3>1. ASSUME NEW j \in DOMAIN delivered, NEW k \in DOMAIN delivered,
                 delivered[j] = delivered[k], j # k
          PROVE  FALSE
      <4>1. j \in Nat /\ k \in Nat /\ delivered[j] \in Nat
        BY ClientTyped
      <4>2. j < k \/ k < j
        BY <3>1, <4>1
      <4>3. delivered[j] < delivered[k] \/ delivered[k] < delivered[j]
        BY <4>2 DEF Forward
      <4> QED
        BY <3>1, <4>1, <4>3
    <3> QED
      BY <3>1
  <2>3. \A k \in DOMAIN delivered : delivered[k] \in Published
    BY DEF Forward
  <2> QED
    BY <2>1, <2>2, <2>3 DEF LinesOnce
<1> QED
  BY <1>1, <1>2, <1>3, <1>4, LogInvariance, PTL DEF JobLogSpec

-----------------------------------------------------------------------------
(* The services together *)

\* Running the services side by side is running each of them: a behaviour of them all is one
\* of every service, so what is proved of one holds of them together (they share no state).
THEOREM EachServiceRuns ==
  ServicesSpec => SessionSpec /\ IntakeSpec /\ JobLogSpec /\ PackageSpec /\ ReleaseSpec
<1>1. ServicesInit => SessionInit /\ IntakeInit /\ JobLogInit /\ PackageInit /\ ReleaseInit
  BY DEF ServicesInit
<1>2. ASSUME [ServicesNext]_allVars
      PROVE  /\ [SessionNext]_sessionVars
             /\ [IntakeNext]_intakeVars
             /\ [JobLogNext]_logVars
             /\ [PackageNext]_packageVars
             /\ [ReleaseNext]_releaseVars
  BY <1>2 DEF ServicesNext, allVars
<1> QED
  BY <1>1, <1>2, PTL DEF ServicesSpec, SessionSpec, IntakeSpec, JobLogSpec, PackageSpec, ReleaseSpec

\* Every variable of every service keeps its type.
THEOREM ServicesTypes == ServicesSpec => []ServicesTypeOK
<1>1. SessionInv => SessionTypeOK
  BY DEF SessionInv
<1>2. IntakeInv => IntakeTypeOK
  BY DEF IntakeInv
<1>3. SessionTypeOK /\ IntakeTypeOK /\ JobLogTypeOK /\ PackageTypeOK /\ ReleaseTypeOK => ServicesTypeOK
  BY DEF ServicesTypeOK
<1> QED
  BY <1>1, <1>2, <1>3, EachServiceRuns, SessionSafety, IntakeSafety, LogTypes, PackageTypes,
     ReleaseTypes, PTL

\* What each service promises, in the specification that TLC runs.
THEOREM ServicesKeepTheirPromises ==
  ServicesSpec => [](/\ LockoutBounds /\ SessionsFollowPassword
                     /\ RowIsVerified /\ DownloadsSettle
                     /\ VerdictIsSound
                     /\ RolloutsAreVetted)
BY EachServiceRuns, LockoutHolds, SessionsFollow, RowsAreVerified, DownloadsDoSettle, VerdictsAreSound,
   VettedRollouts, PTL
=============================================================================
