---------------------------- MODULE PackageStore ----------------------------
(***************************************************************************)
(* One model package: its creation, file by file, its validation, read by  *)
(* read, the digest cache of every process, and the registration of what   *)
(* was validated (model_package.py, utils.py, api.py, cli.py).             *)
(*                                                                         *)
(* A package is replaced, never cleared: what a creation that breaks off   *)
(* has not reached stays from the one before.  A file is named by the      *)
(* creation that wrote it, except the model, where only content counts.    *)
(***************************************************************************)
EXTENDS ModelCard, Naturals

CONSTANTS
  Creators,   \* runs of create_model_package for one artifact name
  Recipe,     \* what each is called with, and its process
  Checks,     \* validations, of the API, the command line, a scan or a registration
  Asks,       \* what each is called with, and its process
  Contents,   \* ONNX files
  Plans,      \* bounds: which creations there are, whether at once, how many break off
  Signature,  \* each content's size and modification time: copy2 keeps the time
  Nothing     \* no file, no digest cached, no entry

Recipes == [content: Contents, labels: SUBSET STRING, labelled: BOOLEAN,
            card: {"given", "data", "default", "invalid"}, digest: Contents \cup {NoDigest},
            defects: SUBSET Defects, examples: BOOLEAN, overwrite: BOOLEAN, process: Nat]
Flags   == [hash: BOOLEAN, sidecars: BOOLEAN, examples: BOOLEAN, provenance: BOOLEAN,
            register: BOOLEAN, process: Nat]

Processes == {Recipe[c].process : c \in Creators} \cup {Asks[v].process : v \in Checks}

ASSUME PackageAssumption ==
  /\ Recipe \in [Creators -> Recipes]
  /\ Asks \in [Checks -> Flags]
  /\ \A v \in Checks : Asks[v].register => Asks[v].hash /\ Asks[v].sidecars /\ Asks[v].examples
  /\ Plans \subseteq [creators: SUBSET Creators, overlap: BOOLEAN, breaks: Nat]
  /\ NoDigest \notin Contents
  /\ Nothing \notin Contents \cup Creators

VARIABLES
  plan,       \* the bounds of this behaviour
  model,      \* the ONNX file: its content
  labels,     \* the labels file: the creation it comes from
  card,       \* the model card: the creation it comes from, and the card
  examples,   \* the examples directory: the creations whose files it holds
  creation,   \* each creation: its step, the content it stat'ed, its digest
  digests,    \* _DIGEST_CACHE of each process: the signature and digest of the model
  check,      \* each validation: its step and what it has read
  entry,      \* the registry: content, labels and card that were validated, card of the metrics
  broken,     \* history: how many creations broke off
  overlapped, \* history: two creations were at work at once
  torn,       \* history: a model was replaced between the stat and the read of its digest
  installed   \* history: every content the model file has had

files   == <<model, labels, card, examples>>
history == <<broken, overlapped, torn, installed>>
packageVars == <<plan, files, creation, digests, check, entry, history>>

NoCheck == [step |-> "new", truth |-> Nothing, digest |-> Nothing, card |-> Nothing,
            labels |-> Nothing, calm |-> TRUE]

PackageInit ==
  /\ plan      \in Plans
  /\ model      = Nothing
  /\ labels     = Nothing
  /\ card       = [by |-> Nothing, card |-> DefaultCard(NoDigest)]
  /\ examples   = {}
  /\ creation   = [c \in Creators |-> [step |-> "new", truth |-> Nothing, digest |-> Nothing]]
  /\ digests    = [p \in Processes |-> [signature |-> Nothing, digest |-> Nothing]]
  /\ check      = [v \in Checks |-> NoCheck]
  /\ entry      = [truth |-> Nothing, labels |-> Nothing, card |-> Nothing, metrics |-> Nothing]
  /\ broken     = 0
  /\ overlapped = FALSE
  /\ torn       = FALSE
  /\ installed  = {}

-----------------------------------------------------------------------------
(* sha256_file: a stat, perhaps a hit, else a read that is cached under the stat. *)

Cached(p) == IF digests[p].signature = Signature[model] THEN digests[p].digest ELSE Nothing

\* The content stat'ed is content x; what is read is what is there now.
Cache(p, x) ==
  /\ digests' = [digests EXCEPT ![p] = [signature |-> Signature[x], digest |-> model]]
  /\ torn' = (torn \/ model # x)

-----------------------------------------------------------------------------
(* create_model_package *)

Creating(c)     == creation[c].step \notin {"new", "done", "refused"}
GoesTo(c, step) == creation' = [creation EXCEPT ![c].step = step]

\* A validation that has not begun, or is over.
Resting == {"new", "refused", "valid", "registered"}

\* A file changes under the validations that are at work.
Disturb ==
  check' = [v \in Checks |->
              IF check[v].step \in Resting THEN check[v] ELSE [check[v] EXCEPT !.calm = FALSE]]

\* Another creation is at work.
AtWork(c) == \E d \in Creators \ {c} : Creating(d)

BeginCreation(c) ==
  /\ creation[c].step = "new"
  /\ c \in plan.creators
  /\ AtWork(c) => plan.overlap
  /\ GoesTo(c, IF model # Nothing /\ ~Recipe[c].overwrite THEN "refused" ELSE "begun")
  /\ overlapped' = (overlapped \/ AtWork(c))
  /\ UNCHANGED <<plan, files, digests, check, entry, broken, torn, installed>>

CopyModel(c) ==
  /\ creation[c].step = "begun"
  /\ model' = Recipe[c].content
  /\ installed' = installed \cup {Recipe[c].content}
  /\ GoesTo(c, "copied")
  /\ Disturb
  /\ UNCHANGED <<plan, labels, card, examples, digests, entry, broken, overlapped, torn>>

\* use_cache=False
StatCopy(c) ==
  /\ creation[c].step = "copied"
  /\ creation' = [creation EXCEPT ![c].step = "stated", ![c].truth = model]
  /\ UNCHANGED <<plan, files, digests, check, entry, history>>

ReadCopy(c) ==
  /\ creation[c].step = "stated"
  /\ Cache(Recipe[c].process, creation[c].truth)
  /\ creation' = [creation EXCEPT ![c].step = "hashed", ![c].digest = model]
  /\ UNCHANGED <<plan, files, check, entry, broken, overlapped, installed>>

\* A file, or a list that is not empty; with neither the creation breaks off.
WriteLabels(c) ==
  /\ creation[c].step = "hashed"
  /\ Recipe[c].labelled
  /\ labels' = c
  /\ GoesTo(c, "labelled")
  /\ Disturb
  /\ UNCHANGED <<plan, model, card, examples, digests, entry, history>>

\* A card that is handed in is copied as it is, whatever digest it names; the others get
\* the one that was computed.
NewCard(c) ==
  CASE Recipe[c].card = "default" -> DefaultCard(creation[c].digest)
    [] Recipe[c].card = "given"   -> [digest |-> Recipe[c].digest, fastreid |-> FALSE,
                                      defects |-> Recipe[c].defects]
    [] OTHER                      -> [digest |-> creation[c].digest, fastreid |-> FALSE,
                                      defects |-> Recipe[c].defects]

WriteCard(c) ==
  /\ creation[c].step = "labelled"
  /\ Recipe[c].card # "invalid"
  /\ card' = [by |-> c, card |-> NewCard(c)]
  /\ GoesTo(c, "carded")
  /\ Disturb
  /\ UNCHANGED <<plan, model, labels, examples, digests, entry, history>>

\* Files of earlier creations stay.
CopyExamples(c) ==
  /\ creation[c].step = "carded"
  /\ examples' = IF Recipe[c].examples THEN examples \cup {c} ELSE examples
  /\ GoesTo(c, "done")
  /\ Disturb
  /\ UNCHANGED <<plan, model, labels, card, digests, entry, history>>

\* An argument is refused late, a file operation fails or the process dies.
BreakOff(c) ==
  /\ Creating(c)
  /\ broken < plan.breaks
  /\ GoesTo(c, "refused")
  /\ broken' = broken + 1
  /\ UNCHANGED <<plan, files, digests, check, entry, overlapped, torn, installed>>

-----------------------------------------------------------------------------
(* validate_model_package.  After an error nothing it reads changes the verdict. *)

\* Packages are validated again and again.
FindModel(v) ==
  /\ check[v].step \in Resting
  /\ model # Nothing
  /\ check' = [check EXCEPT ![v] = [NoCheck EXCEPT !.step = "found",
                                                  !.calm = \A c \in Creators : ~Creating(c)]]
  /\ UNCHANGED <<plan, files, creation, digests, entry, history>>

StatModel(v) ==
  LET cached == Cached(Asks[v].process) IN
  /\ check[v].step = "found"
  /\ check' = [check EXCEPT ![v].step = IF cached = Nothing THEN "stated" ELSE "digested",
                            ![v].truth = model,
                            ![v].digest = cached]
  /\ UNCHANGED <<plan, files, creation, digests, entry, history>>

ReadModel(v) ==
  /\ check[v].step = "stated"
  /\ Cache(Asks[v].process, check[v].truth)
  /\ check' = [check EXCEPT ![v].step = "digested", ![v].digest = model]
  /\ UNCHANGED <<plan, files, creation, entry, broken, overlapped, installed>>

\* Mutant: the digest of the card is not compared.
ReadCardUnhashed(v) ==
  /\ check[v].step = "digested"
  /\ card.by # Nothing \/ ~Asks[v].sidecars
  /\ check' = [check EXCEPT ![v].step = "carded", ![v].card = card.by]
  /\ UNCHANGED <<plan, files, creation, digests, entry, history>>

ReadCard(v) ==
  /\ check[v].step = "digested"
  /\ card.by # Nothing \/ ~Asks[v].sidecars
  /\ card.by # Nothing => CardIssues(card.card, check[v].digest, Asks[v]) = {}
  /\ check' = [check EXCEPT ![v].step = "carded", ![v].card = card.by]
  /\ UNCHANGED <<plan, files, creation, digests, entry, history>>

\* Empty and repeated labels are refused.
ReadLabels(v) ==
  /\ check[v].step = "carded"
  /\ labels # Nothing \/ ~Asks[v].sidecars
  /\ labels # Nothing => Recipe[labels].labels # {}
  /\ check' = [check EXCEPT ![v].step = "labelled", ![v].labels = labels]
  /\ UNCHANGED <<plan, files, creation, digests, entry, history>>

\* Images and expected outputs must be there if strict_examples says so; what an expected
\* output names must be one of the labels.  Then ONNX Runtime loads the model, or a check
\* refuses.
ReadExamples(v) ==
  /\ check[v].step = "labelled"
  /\ examples # {} \/ ~Asks[v].examples
  /\ check' = [check EXCEPT ![v].step = IF Asks[v].register THEN "passed" ELSE "valid"]
  /\ UNCHANGED <<plan, files, creation, digests, entry, history>>

\* Any other error: what is missing or does not fit, above, or is malformed.
RefusePackage(v) ==
  /\ check[v].step \notin Resting
  /\ check' = [check EXCEPT ![v].step = "refused"]
  /\ UNCHANGED <<plan, files, creation, digests, entry, history>>

\* register_model reads the card again for the metrics, then writes the entry.
UpsertModel(v) ==
  /\ check[v].step = "passed"
  /\ entry' = [truth |-> check[v].truth, labels |-> check[v].labels, card |-> check[v].card,
               metrics |-> card.by]
  /\ check' = [check EXCEPT ![v].step = "registered"]
  /\ UNCHANGED <<plan, files, creation, digests, history>>

PackageNext ==
  \/ \E c \in Creators :
       \/ BeginCreation(c)
       \/ CopyModel(c)
       \/ StatCopy(c)
       \/ ReadCopy(c)
       \/ WriteLabels(c)
       \/ WriteCard(c)
       \/ CopyExamples(c)
       \/ BreakOff(c)
  \/ \E v \in Checks :
       \/ FindModel(v)
       \/ StatModel(v)
       \/ ReadModel(v)
       \/ ReadCard(v)
       \/ ReadLabels(v)
       \/ ReadExamples(v)
       \/ RefusePackage(v)
       \/ UpsertModel(v)

PackageSpec == PackageInit /\ [][PackageNext]_packageVars

-----------------------------------------------------------------------------

CreationSteps  == {"new", "begun", "copied", "stated", "hashed", "labelled", "carded", "done", "refused"}
CreationStates == [step: CreationSteps, truth: Contents \cup {Nothing}, digest: Contents \cup {Nothing}]
CheckSteps     == {"new", "found", "stated", "digested", "carded", "labelled", "passed", "valid",
                   "registered", "refused"}
CheckStates    == [step: CheckSteps, truth: Contents \cup {Nothing}, digest: Contents \cup {Nothing},
                   card: Creators \cup {Nothing}, labels: Creators \cup {Nothing}, calm: BOOLEAN]
Cards          == [digest: Contents \cup {NoDigest}, fastreid: BOOLEAN, defects: SUBSET Defects]

\* Every variable keeps its type.
PackageTypeOK ==
  /\ plan     \in Plans
  /\ model    \in Contents \cup {Nothing}
  /\ labels   \in Creators \cup {Nothing}
  /\ card     \in [by: Creators \cup {Nothing}, card: Cards]
  /\ examples \subseteq Creators
  /\ creation \in [Creators -> CreationStates]
  /\ digests  \in [Processes -> [signature: {Signature[x] : x \in Contents} \cup {Nothing},
                                 digest: Contents \cup {Nothing}]]
  /\ check    \in [Checks -> CheckStates]
  /\ entry    \in [truth: Contents \cup {Nothing}, labels: Creators \cup {Nothing},
                   card: Creators \cup {Nothing}, metrics: Creators \cup {Nothing}]
  /\ broken \in Nat /\ overlapped \in BOOLEAN /\ torn \in BOOLEAN /\ installed \subseteq Contents

\* A digest may be cached under the signature of another content.
StaleCache == torn \/ \E x, y \in installed : x # y /\ Signature[x] = Signature[y]

\* The creation was handed a card that names another model.
Misnamed(c) == Recipe[c].card = "given" /\ Recipe[c].digest \notin {Recipe[c].content, NoDigest}

\* What has gone wrong before the verdict of v: creations that broke off, a stale cache, and
\* a card of another model.
Faults(v) ==
  broken + (IF StaleCache THEN 1 ELSE 0) + (IF Misnamed(check[v].card) THEN 1 ELSE 0)

\* It takes two faults to deceive a strict validation that passes while nobody writes: with
\* one at most, it has computed the digest of the model file and seen labels and a card made
\* for that very content, wherever a creation broke off, whatever the digest caches of the
\* processes hold, whatever the card that was handed in names.
VerdictIsSound ==
  \A v \in Checks :
    /\ check[v].step \in {"valid", "passed", "registered"}
    /\ check[v].calm
    /\ Asks[v].hash /\ Asks[v].sidecars
    /\ ~overlapped
    /\ Faults(v) <= 1
    => /\ check[v].digest = check[v].truth
       /\ Recipe[check[v].labels].content = check[v].truth
       /\ Recipe[check[v].card].content = check[v].truth
=============================================================================
