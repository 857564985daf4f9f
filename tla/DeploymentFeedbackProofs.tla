---------------------- MODULE DeploymentFeedbackProofs ----------------------
(***************************************************************************)
(* Theorems about DeploymentFeedback, for every number of versions,        *)
(* statuses, events and consuming processes.                               *)
(***************************************************************************)
EXTENDS DeploymentFeedback, TLAPS

\* The table and the handlers speak of events Core has emitted.
Emitted ==
  /\ state.event <= emitted
  /\ \A i \in Instances : handler[i].event <= emitted
  /\ \A e \in Events : log[e] # None => e <= emitted

\* Core's clock does not run backwards.
Monotone == \A d, e \in Events : d < e /\ e <= emitted => event[d].at <= event[e].at

\* What LatestUnlessRaced and PathUnlessRaced rest on.
FeedbackInv ==
  TypeOK /\ Emitted /\ Monotone /\ StateFromApplied /\ LatestUnlessRaced /\ PathUnlessRaced

\* No handler holds a state that has been replaced.
Fresh == \A i \in Instances : handler[i].event # 0 => handler[i].current = state

SingleInstance == \A a, b \in Instances : a = b

Moments == [event: 0 .. MaxEvents, status: Release \cup {None}, at: Nat]

-----------------------------------------------------------------------------

LEMMA InitInv == Init => FeedbackInv
<1> SUFFICES ASSUME Init
             PROVE  FeedbackInv
  OBVIOUS
<1>1. TypeOK
  <2>1. NoState \in Moments /\ 0 \in 0 .. MaxEvents
    BY BoundAssumption DEF Moments, NoState
  <2>2. handler \in [Instances -> [event: 0 .. MaxEvents, current: Moments]] /\ state \in Moments
    BY <2>1 DEF Init, Idle
  <2>3. raced \in BOOLEAN /\ emitted \in 0 .. MaxEvents
    BY <2>1 DEF Init
  <2>4. core \in [Versions -> Release \cup {None}] /\ answered \subseteq Events /\ log \in [Events -> Verdicts \cup {None}]
    BY DEF Init
  <2>5. event \in [Events -> [version: Versions \cup {None}, from: Release \cup {None},
                              to: Release \cup {None}, at: Nat]]
    BY DEF Init, NoEvent
  <2> QED
    BY <2>2, <2>3, <2>4, <2>5 DEF TypeOK, Moments
<1>2. Emitted /\ Monotone /\ StateFromApplied
  BY BoundAssumption DEF Init, Emitted, Monotone, StateFromApplied, Events, NoEvent, NoState, Idle
<1>3. Applied = {}
  BY NoneAssumption DEF Init, Applied
<1> QED
  BY <1>1, <1>2, <1>3 DEF FeedbackInv, LatestUnlessRaced, PathUnlessRaced

\* Core's step adds an event nobody has seen, with a time not before the last.
LEMMA EmitKeeps ==
  ASSUME FeedbackInv, NEW v \in Versions, NEW to \in Release, Emit(v, to)
  PROVE  FeedbackInv'
<1> USE BoundAssumption DEF FeedbackInv, Events
<1>1. PICK gap \in Gap .. 1 :
        event' = [event EXCEPT ![emitted + 1] =
                    [version |-> v, from |-> core[v], to |-> to, at |-> Clock + gap]]
  BY DEF Emit
<1>a. gap \in Nat
  OBVIOUS
<1>2. emitted \in Nat /\ emitted < MaxEvents /\ emitted' = emitted + 1 /\ emitted + 1 \in Events
  BY DEF Emit, TypeOK
<1>3. Clock \in Nat /\ \A d \in Events : d <= emitted => event[d].at <= Clock
  BY <1>2 DEF Clock, Monotone, TypeOK
<1>4. \A d \in Events : d <= emitted => event'[d] = event[d]
  BY <1>1, <1>2 DEF TypeOK
<1>5. TypeOK'
  BY <1>1, <1>2, <1>3, <1>a DEF TypeOK, Emit
<1>6. Emitted'
  BY <1>2 DEF Emitted, Emit, TypeOK
<1>7. Monotone'
  <2>1. event'[emitted + 1].at = Clock + gap
    BY <1>1, <1>2 DEF TypeOK
  <2>2. SUFFICES ASSUME NEW d \in Events, NEW e \in Events, d < e, e <= emitted'
                 PROVE  event'[d].at <= event'[e].at
    BY DEF Monotone
  <2>3. CASE e <= emitted
    BY <1>2, <1>4, <2>2, <2>3 DEF Monotone
  <2>4. CASE e = emitted + 1
    <3>1. event'[d].at \in Nat /\ event'[d].at <= Clock
      BY <1>2, <1>3, <1>4, <2>2, <2>4 DEF TypeOK
    <3> QED
      BY <1>3, <1>a, <2>1, <2>4, <3>1
  <2> QED
    BY <1>2, <2>2, <2>3, <2>4
<1>8. StateFromApplied'
  BY <1>4 DEF StateFromApplied, Emitted, TypeOK, Emit
<1>9. Applied' = Applied /\ LatestUnlessRaced'
  BY DEF LatestUnlessRaced, Applied, Emit
<1>10. PathUnlessRaced'
  <2>1. \A d \in Applied : event'[d] = event[d]
    BY <1>4, NoneAssumption DEF Applied, Emitted
  <2> QED
    BY <1>9, <2>1 DEF PathUnlessRaced, Emit
<1> QED
  BY <1>5, <1>6, <1>7, <1>8, <1>9, <1>10

\* An event that is applied to the state its handler read is later than all
\* applied before it, and continues their path.
LEMMA WriteKeeps ==
  ASSUME FeedbackInv, NEW i \in Instances, Write(i)
  PROVE  FeedbackInv'
<1> USE BoundAssumption DEF FeedbackInv, Events
<1> DEFINE e == handler[i].event
           current == handler[i].current
<1>1. e \in Events /\ e <= emitted /\ log[e] = None /\ current \in Moments
  BY DEF Write, Emitted, TypeOK, Moments
<1>2. UNCHANGED coreVars /\ UNCHANGED event /\ log' = [log EXCEPT ![e] = Verdict(e, current)]
        /\ handler' = [handler EXCEPT ![i] = Idle]
  BY DEF Write, coreVars
<1>3. Monotone'
  BY <1>2 DEF Monotone, coreVars
<1>4. CASE Verdict(e, current) # "applied"
  <2>1. UNCHANGED <<state, raced>> /\ Verdict(e, current) \in Verdicts
    BY <1>4 DEF Write, Verdict, Verdicts
  <2>2. Applied' = Applied
    <3>1. \A d \in Events : log'[d] = "applied" <=> log[d] = "applied"
      BY <1>1, <1>2, <1>4, NoneAssumption DEF TypeOK
    <3> QED
      BY <3>1 DEF Applied
  <2>3. TypeOK'
    <3>1. log' \in [Events -> Verdicts \cup {None}] /\ answered' \subseteq Events
      BY <1>1, <1>2, <2>1 DEF TypeOK, Write, Answer
    <3>2. handler' \in [Instances -> [event: 0 .. MaxEvents, current: Moments]]
      BY <1>2 DEF TypeOK, Moments, Idle, NoState
    <3> QED
      BY <1>2, <2>1, <3>1, <3>2 DEF TypeOK, coreVars, Moments
  <2>4. Emitted'
    BY <1>1, <1>2, <2>1 DEF Emitted, TypeOK, coreVars, Idle
  <2>5. StateFromApplied'
    <3>1. \A d \in Events : log[d] = "applied" => log'[d] = "applied"
      BY <1>1, <1>2, NoneAssumption DEF TypeOK
    <3> QED
      BY <1>2, <2>1, <3>1 DEF StateFromApplied, TypeOK
  <2>6. LatestUnlessRaced' /\ PathUnlessRaced'
    BY <1>2, <2>1, <2>2 DEF LatestUnlessRaced, PathUnlessRaced
  <2> QED
    BY <1>3, <2>3, <2>4, <2>5, <2>6
<1>5. CASE Verdict(e, current) = "applied"
  <2>1. /\ state' = [event |-> e, status |-> event[e].to, at |-> event[e].at]
        /\ raced' = (raced \/ current # state)
    BY <1>5 DEF Write
  <2>2. Applied' = Applied \cup {e}
    BY <1>1, <1>2, <1>5 DEF Applied, TypeOK
  <2>3. TypeOK'
    <3>1. log' \in [Events -> Verdicts \cup {None}] /\ answered' \subseteq Events
      BY <1>1, <1>2, <1>5 DEF TypeOK, Write, Answer, Verdicts
    <3>2. handler' \in [Instances -> [event: 0 .. MaxEvents, current: Moments]]
      BY <1>2 DEF TypeOK, Moments, Idle, NoState
    <3>3. state' \in Moments
      BY <1>1, <2>1 DEF TypeOK, Moments
    <3>4. raced' \in BOOLEAN
      BY <2>1
    <3> QED
      BY <1>2, <3>1, <3>2, <3>3, <3>4 DEF TypeOK, coreVars, Moments
  <2>4. Emitted'
    BY <1>1, <1>2, <2>1 DEF Emitted, TypeOK, coreVars, Idle
  <2>5. StateFromApplied'
    BY <1>1, <1>2, <1>5, <2>1 DEF StateFromApplied, TypeOK
  <2>6. ASSUME ~raced'
        PROVE  /\ \A a \in Applied : a < e
               /\ state.event # 0 => event[e].from = event[state.event].to
    <3>1. current = state /\ ~raced /\ \A a \in Applied : a <= state.event
      BY <2>1, <2>6 DEF LatestUnlessRaced, TypeOK
    <3>2. CASE state.event = 0
      BY <3>1, <3>2 DEF Applied
    <3>3. CASE state.event # 0
      <4>1. event[e].at > state.at /\ event[e].from = state.status
        BY <1>1, <1>5, <3>1, <3>3 DEF Verdict, TypeOK, Moments
      <4>2. /\ state.event \in Events
            /\ event[e].at > event[state.event].at
            /\ event[e].from = event[state.event].to
        <5>1. state.event \in Events
          BY <3>3 DEF TypeOK, Events
        <5>2. state.status = event[state.event].to /\ state.at = event[state.event].at
          BY <3>3 DEF StateFromApplied
        <5> HIDE DEF FeedbackInv, e, current
        <5> QED
          BY <4>1, <5>1, <5>2
      <4>3. state.event < e
        <5>1. /\ e \in 1 .. MaxEvents /\ state.event \in 1 .. MaxEvents /\ state.event <= emitted
              /\ event[e].at \in Nat /\ event[state.event].at \in Nat
          BY <1>1, <4>2 DEF Emitted, TypeOK
        <5>2. e < state.event => event[e].at <= event[state.event].at
          BY <5>1 DEF Monotone
        <5> HIDE DEF FeedbackInv, e, current
        <5> QED
          BY <4>2, <5>1, <5>2
      <4> QED
        BY <3>1, <4>2, <4>3 DEF Applied, TypeOK
    <3> QED
      BY <3>2, <3>3
  <2>7. LatestUnlessRaced'
    BY <1>1, <2>1, <2>2, <2>6 DEF LatestUnlessRaced, Applied
  <2>8. PathUnlessRaced'
    <3>1. SUFFICES ASSUME ~raced', NEW a \in Applied', NEW b \in Applied', a < b,
                          \A c \in Applied' : ~(a < c /\ c < b)
                   PROVE  event'[b].from = event'[a].to
      BY DEF PathUnlessRaced
    <3>2. a # e
      BY <1>1, <2>2, <2>6, <3>1 DEF Applied
    <3>3. CASE b # e
      BY <1>2, <2>1, <2>2, <3>1, <3>2, <3>3 DEF PathUnlessRaced
    <3>4. CASE b = e
      <4>0. a \in Applied /\ ~raced
        BY <2>1, <2>2, <3>1, <3>2
      <4>1. a \in Applied /\ a <= state.event /\ state.event # 0
        BY <4>0 DEF LatestUnlessRaced, Applied, TypeOK
      <4>2. state.event \in Applied
        BY <4>1 DEF StateFromApplied, Applied, TypeOK
      <4>3. state.event < e
        BY <2>6, <3>1, <4>2
      <4>4. a = state.event
        <5>1. state.event \in Applied' /\ a \in Nat /\ state.event \in Nat
          BY <2>2, <4>1, <4>2 DEF Applied
        <5> QED
          BY <3>1, <3>4, <4>1, <4>3, <5>1
      <4> QED
        BY <1>2, <2>6, <3>1, <3>4, <4>1, <4>4
    <3> QED
      BY <3>3, <3>4
  <2> QED
    BY <1>3, <2>3, <2>4, <2>5, <2>7, <2>8
<1> QED
  BY <1>4, <1>5

\* The other steps touch neither the log nor the state.
LEMMA OthersKeep ==
  ASSUME FeedbackInv, NEW i \in Instances, NEW e \in Events,
         Handle(i, e) \/ Collide(i) \/ Abort(i) \/ UNCHANGED vars
  PROVE  FeedbackInv'
<1>1. UNCHANGED <<coreVars, log, state, raced>>
  BY DEF Handle, Duplicate, Read, Collide, Abort, vars
<1>2. TypeOK' /\ Emitted'
  <2>1. CASE Duplicate(i, e)
    BY <2>1 DEF FeedbackInv, TypeOK, Emitted, Duplicate, coreVars
  <2>2. CASE Read(i, e)
    BY <2>2, SMTT(30) DEF FeedbackInv, TypeOK, Emitted, Read, Deliverable, Events, coreVars
  <2>3. CASE Collide(i) \/ Abort(i)
    <3>1. handler' = [handler EXCEPT ![i] = Idle] /\ UNCHANGED <<coreVars, answered, log, state, raced>>
      BY <2>3 DEF Collide, Abort
    <3>2. Idle \in [event: 0 .. MaxEvents, current: Moments] /\ Idle.event = 0
      BY BoundAssumption DEF Idle, NoState, Moments
    <3>3. handler' \in [Instances -> [event: 0 .. MaxEvents, current: Moments]]
      BY <3>1, <3>2 DEF FeedbackInv, TypeOK, Moments
    <3> QED
      BY <3>1, <3>2, <3>3 DEF FeedbackInv, TypeOK, Emitted, coreVars, Moments
  <2>4. CASE UNCHANGED vars
    BY <2>4 DEF FeedbackInv, TypeOK, Emitted, vars, coreVars
  <2> QED
    BY <2>1, <2>2, <2>3, <2>4 DEF Handle
<1>3. Monotone' /\ StateFromApplied' /\ LatestUnlessRaced' /\ PathUnlessRaced'
  BY <1>1 DEF FeedbackInv, Monotone, StateFromApplied, LatestUnlessRaced, PathUnlessRaced,
     Applied, coreVars
<1> QED
  BY <1>2, <1>3 DEF FeedbackInv

LEMMA FeedbackStep == FeedbackInv /\ [Next]_vars => FeedbackInv'
<1>1. FeedbackInv /\ UNCHANGED vars => FeedbackInv'
  BY DEF FeedbackInv, TypeOK, Emitted, Monotone, StateFromApplied, LatestUnlessRaced,
     PathUnlessRaced, Applied, vars, coreVars
<1>2. ASSUME FeedbackInv, NEW i \in Instances, Collide(i) \/ Abort(i)
      PROVE  FeedbackInv'
  <2>1. handler[i].event \in Events
    BY <1>2 DEF Collide, Abort, FeedbackInv, TypeOK, Events
  <2> QED
    BY <1>2, <2>1, OthersKeep
<1> QED
  BY <1>1, <1>2, EmitKeeps, WriteKeeps, OthersKeep DEF Next

LEMMA FeedbackInvariance == Spec => []FeedbackInv
BY InitInv, FeedbackStep, PTL DEF Spec

-----------------------------------------------------------------------------

\* The table and the handlers hold events, verdicts and states Core knows.
THEOREM FeedbackTypes == Spec => []TypeOK
BY FeedbackInvariance, PTL DEF FeedbackInv

\* The state is a fact about one applied event, however many processes write it.
THEOREM StateIsApplied == Spec => []StateFromApplied
BY FeedbackInvariance, PTL DEF FeedbackInv

\* Unless two processes raced, no delayed older event undoes a newer state (the
\* docstring of record_deployment_feedback_event).
THEOREM LatestApplied == Spec => []LatestUnlessRaced
BY FeedbackInvariance, PTL DEF FeedbackInv

\* Unless two processes raced, the states of the table are a path of Core.
THEOREM AppliedPath == Spec => []PathUnlessRaced
BY FeedbackInvariance, PTL DEF FeedbackInv

\* A verdict is given once (the primary key of deployment_feedback_events).
THEOREM VerdictOnce == Spec => VerdictIsFinal
<1>1. TypeOK /\ [Next]_vars => [\A e \in Events : log[e] # None => log'[e] = log[e]]_vars
  BY DEF Next, Emit, Handle, Duplicate, Read, Write, Collide, Abort, TypeOK, Events
<1> QED
  BY <1>1, FeedbackInvariance, PTL DEF Spec, FeedbackInv, VerdictIsFinal

\* A process handles one delivery at a time.
LEMMA FreshStep ==
  ASSUME SingleInstance
  PROVE  TypeOK /\ Fresh /\ [Next]_vars => Fresh'
BY DEF Next, Emit, Handle, Duplicate, Read, Write, Collide, Abort, TypeOK, Fresh, Idle,
   SingleInstance, vars

\* With one consuming process a delayed older event never undoes a newer state.
THEOREM SingleNeverGoesBack ==
  ASSUME SingleInstance
  PROVE  Spec => NeverGoesBack
<1>1. Init => Fresh
  BY DEF Init, Fresh, Idle
<1>2. TypeOK /\ Fresh /\ [Next]_vars => [state' # state /\ state.event # 0 => state'.at > state.at]_vars
  <2> SUFFICES ASSUME TypeOK, Fresh, Next, state' # state, state.event # 0
               PROVE  state'.at > state.at
    OBVIOUS
  <2>1. PICK i \in Instances : Write(i)
    BY DEF Next, Emit, Handle, Duplicate, Read, Collide, Abort
  <2> DEFINE e == handler[i].event
  <2>2. e \in Events /\ handler[i].current = state
    BY <2>1 DEF Write, Fresh, TypeOK, Events
  <2>3. Verdict(e, state) = "applied" /\ state'.at = event[e].at
    BY <2>1, <2>2 DEF Write
  <2>4. ~(event[e].at <= state.at)
    BY <2>3 DEF Verdict
  <2> QED
    BY <2>2, <2>3, <2>4 DEF TypeOK
<1> QED
  BY <1>1, <1>2, FreshStep, FeedbackInvariance, PTL DEF Spec, FeedbackInv, NeverGoesBack
=============================================================================
