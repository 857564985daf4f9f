------------------------- MODULE DeploymentFeedback -------------------------
(***************************************************************************)
(* The deployment-feedback webhook (receive_deployment_feedback in api.py, *)
(* record_deployment_feedback_event in storage.py) and the outbox of Core  *)
(* that feeds it, for one (tenant, project, capability).  The scopes share *)
(* nothing, so one stands for all.                                         *)
(*                                                                         *)
(* Core moves the model versions of the capability from one release status *)
(* to another and numbers its events.  Its outbox delivers an event until  *)
(* it is answered, and may deliver it again.  Requests whose signature,    *)
(* age or envelope is refused, and an event_id reused for another payload, *)
(* write nothing; they are left out.                                       *)
(***************************************************************************)
EXTENDS Naturals

CONSTANTS
  Versions,   \* model versions deployed under the capability
  Release,    \* MODEL_RELEASE_STATUSES, or the part of it a run uses
  Instances,  \* service processes consuming the webhook
  MaxEvents,  \* bound on the events Core emits
  Gap,        \* least distance of two events, in milliseconds: 0 or 1
  None

ASSUME BoundAssumption == MaxEvents \in Nat /\ Gap \in {0, 1}
ASSUME NoneAssumption  == None \notin Release \cup {"applied", "stale", "rejected_transition"}

VARIABLES
  core,      \* Core: release status of each version
  emitted,   \* Core: how many events it has emitted
  event,     \* Core: its events, [version, from, to, at]; at is created_at_epoch_ms
  answered,  \* Core: events answered with a 2xx
  log,       \* deployment_feedback_events.processing_status
  state,     \* deployment_feedback_state: the event it was taken from, its status and time
  handler,   \* each process: the event it handles and the state it has read
  raced      \* history: a process replaced a state other than the one it read

coreVars == <<core, emitted, event>>
vars == <<coreVars, answered, log, state, handler, raced>>

Events   == 1 .. MaxEvents
Verdicts == {"applied", "stale", "rejected_transition"}
NoEvent  == [version |-> None, from |-> None, to |-> None, at |-> 0]
NoState  == [event |-> 0, status |-> None, at |-> 0]
Idle     == [event |-> 0, current |-> NoState]

Init ==
  /\ core     = [v \in Versions |-> None]
  /\ emitted  = 0
  /\ event    = [e \in Events |-> NoEvent]
  /\ answered = {}
  /\ log      = [e \in Events |-> None]
  /\ state    = NoState
  /\ handler  = [i \in Instances |-> Idle]
  /\ raced    = FALSE

\* The clock of Core when it emitted its last event, cut to milliseconds.
Clock == IF emitted = 0 THEN 1 ELSE event[emitted].at

\* Core moves version v and puts the event in its outbox.
Emit(v, to) ==
  /\ emitted < MaxEvents
  /\ to # core[v]
  /\ emitted' = emitted + 1
  /\ core' = [core EXCEPT ![v] = to]
  /\ \E gap \in Gap .. 1 :
       event' = [event EXCEPT ![emitted + 1] =
                   [version |-> v, from |-> core[v], to |-> to, at |-> Clock + gap]]
  /\ UNCHANGED <<answered, log, state, handler, raced>>

\* The outbox delivers in any order, and also what was answered.
Deliverable(e) == e <= emitted

\* The outbox takes the answer, or loses it and will deliver again.
Answer(e) == answered' \in {answered, answered \cup {e}}

\* A known event_id is answered with the verdict it has, and nothing is written.
\* (When this answer is lost too, nothing has happened.)
Duplicate(i, e) ==
  /\ handler[i] = Idle
  /\ Deliverable(e)
  /\ log[e] # None
  /\ answered' = answered \cup {e}
  /\ UNCHANGED <<coreVars, log, state, handler, raced>>

\* Mutant: every delivery is taken for a new event.
ReadUnchecked(i, e) ==
  /\ handler[i] = Idle
  /\ Deliverable(e)
  /\ handler' = [handler EXCEPT ![i] = [event |-> e, current |-> state]]
  /\ UNCHANGED <<coreVars, answered, log, state, raced>>

\* The two SELECTs: the event is new, and this is the state it meets.  The
\* handler occupies the process's event loop until it is done.
Read(i, e) ==
  /\ handler[i] = Idle
  /\ Deliverable(e)
  /\ log[e] = None
  /\ handler' = [handler EXCEPT ![i] = [event |-> e, current |-> state]]
  /\ UNCHANGED <<coreVars, answered, log, state, raced>>

\* Mutant: the predecessor is not compared.
VerdictByTime(e, current) ==
  IF current.event # 0 /\ event[e].at <= current.at THEN "stale" ELSE "applied"

\* Mutant: the time is not compared.
VerdictByStatus(e, current) ==
  IF current.event # 0 /\ event[e].from # current.status THEN "rejected_transition" ELSE "applied"

\* Mutant: the verdict the API looks for is not the one that is stored.
VerdictMisspelt(e, current) ==
  CASE current.event = 0                  -> "applied"
    [] event[e].at <= current.at          -> "stale"
    [] event[e].from # current.status     -> "rejected"
    [] OTHER                              -> "applied"

\* processing_status of an event that meets the state current.
Verdict(e, current) ==
  CASE current.event = 0                  -> "applied"
    [] event[e].at <= current.at          -> "stale"
    [] event[e].from # current.status     -> "rejected_transition"
    [] OTHER                              -> "applied"

\* Mutant: INSERT OR REPLACE.
WriteReplacing(i) ==
  LET e == handler[i].event
      verdict == Verdict(e, handler[i].current)
  IN  /\ e # 0
      /\ handler' = [handler EXCEPT ![i] = Idle]
      /\ log' = [log EXCEPT ![e] = verdict]
      /\ IF verdict = "applied"
         THEN /\ state' = [event |-> e, status |-> event[e].to, at |-> event[e].at]
              /\ raced' = (raced \/ handler[i].current # state)
         ELSE UNCHANGED <<state, raced>>
      /\ Answer(e)
      /\ UNCHANGED coreVars

\* The INSERT and, for an applied event, the upsert, in one transaction.
Write(i) ==
  LET e == handler[i].event
      verdict == Verdict(e, handler[i].current)
  IN  /\ e # 0
      /\ log[e] = None
      /\ handler' = [handler EXCEPT ![i] = Idle]
      /\ log' = [log EXCEPT ![e] = verdict]
      /\ IF verdict = "applied"
         THEN /\ state' = [event |-> e, status |-> event[e].to, at |-> event[e].at]
              /\ raced' = (raced \/ handler[i].current # state)
         ELSE UNCHANGED <<state, raced>>
      /\ Answer(e)
      /\ UNCHANGED coreVars

\* The primary key refuses an event another process inserted first: a 500.
Collide(i) ==
  /\ handler[i].event # 0
  /\ log[handler[i].event] # None
  /\ handler' = [handler EXCEPT ![i] = Idle]
  /\ UNCHANGED <<coreVars, answered, log, state, raced>>

\* An exception or the death of the process rolls the transaction back.
Abort(i) ==
  /\ handler[i].event # 0
  /\ handler' = [handler EXCEPT ![i] = Idle]
  /\ UNCHANGED <<coreVars, answered, log, state, raced>>

Handle(i, e) == Duplicate(i, e) \/ Read(i, e)

Next ==
  \/ \E v \in Versions, to \in Release : Emit(v, to)
  \/ \E i \in Instances :
       \/ \E e \in Events : Handle(i, e)
       \/ Write(i)
       \/ Collide(i)
       \/ Abort(i)

Spec == Init /\ [][Next]_vars

(***************************************************************************)
(* The outbox keeps delivering what is unanswered, a process finishes the  *)
(* request it handles, and a write does not fail forever.                  *)
(***************************************************************************)
Fairness ==
  /\ \A e \in Events : SF_vars(\E i \in Instances : e \notin answered /\ Handle(i, e))
  /\ \A i \in Instances : SF_vars(Write(i)) /\ WF_vars(Collide(i))

FairSpec == Spec /\ Fairness

-----------------------------------------------------------------------------

\* Every variable keeps its type; the verdicts are the three the table stores.
TypeOK ==
  /\ core     \in [Versions -> Release \cup {None}]
  /\ emitted  \in 0 .. MaxEvents
  /\ event    \in [Events -> [version: Versions \cup {None}, from: Release \cup {None},
                              to: Release \cup {None}, at: Nat]]
  /\ answered \subseteq Events
  /\ log      \in [Events -> Verdicts \cup {None}]
  /\ state    \in [event: 0 .. MaxEvents, status: Release \cup {None}, at: Nat]
  /\ handler  \in [Instances -> [event: 0 .. MaxEvents,
                                 current: [event: 0 .. MaxEvents, status: Release \cup {None}, at: Nat]]]
  /\ raced    \in BOOLEAN

Applied == {e \in Events : log[e] = "applied"}

\* Unless two processes raced, no delayed older event undoes a newer state: the
\* table holds the latest of the applied events in the order Core emitted them
\* (the docstring of record_deployment_feedback_event).
LatestUnlessRaced == ~raced => \A e \in Applied : e <= state.event

\* Unless two processes raced, the states of the table are a path of Core: each
\* applied event declares to come from the status the one before it led to.
PathUnlessRaced ==
  ~raced => \A d, e \in Applied :
    d < e /\ (\A a \in Applied : ~(d < a /\ a < e)) => event[e].from = event[d].to

\* The state is a fact about one applied event, however many processes write it.
StateFromApplied ==
  state.event # 0 =>
    /\ log[state.event] = "applied"
    /\ state.status = event[state.event].to
    /\ state.at = event[state.event].at

\* The verdict on an event is given once; a duplicate, delivered to any process,
\* is answered with it and does not change it.
VerdictIsFinal == [][\A e \in Events : log[e] # None => log'[e] = log[e]]_vars

\* No event is delivered forever: two processes that race for one, or an answer
\* that was lost, end in a 2xx on a later delivery.
EveryEventIsAnswered == \A e \in Events : e <= emitted ~> e \in answered

-----------------------------------------------------------------------------
\* A delayed older event never undoes a newer deployment state, however many
\* processes consume the webhook: what the docstring of
\* record_deployment_feedback_event says, and two processes refute.
NeverGoesBack == [][state' # state /\ state.event # 0 => state'.at > state.at]_vars
=============================================================================
