--------------------------- MODULE SchedulerProofs ---------------------------
(***************************************************************************)
(* Theorems about the scheduler, for every set of states, nodes and        *)
(* requests, every budget, number of terms, and every environment: type    *)
(* correctness, that a submitted task exists once, and that the count of   *)
(* running tasks is exact and never above the budget.                      *)
(***************************************************************************)
EXTENDS Scheduler, FiniteSetTheorems, TLAPS

USE SchedulerAssumption, BreakerAssumption

-----------------------------------------------------------------------------
(* What the shared parts of the actions do. *)

LEMMA SubmitEffect ==
    ASSUME NEW t, Submit(t)
    PROVE  submitting' = submitting \/ submitting' = submitting \cup {t}
  BY DEF Submit

LEMMA ShouldAdmitType ==
    ASSUME NEW depth, NEW sat, NEW admitted, ShouldAdmit(depth, sat, admitted),
           circuit \in {"closed", "open", "half_open"},
           testCount \in 0..TestLimit
    PROVE  /\ circuit' \in {"closed", "open", "half_open"}
           /\ testCount' \in 0..TestLimit
  BY DEF ShouldAdmit, AdmitTest, AdmitAndClose, RefuseHalfOpen, RefuseAndOpen,
         HalfOpen, Tests, cbVars

LEMMA ShouldAdmitCooled ==
    ASSUME NEW depth, NEW sat, NEW admitted, ShouldAdmit(depth, sat, admitted),
           cooled \in BOOLEAN
    PROVE  cooled' \in BOOLEAN
  BY Zenon DEF ShouldAdmit, AdmitTest, AdmitAndClose, RefuseHalfOpen,
               RefuseAndOpen, cbVars

LEMMA SubmitBreaker ==
    ASSUME NEW t, Submit(t), CBTypeOK
    PROVE  CBTypeOK'
  <1>1. CASE UNCHANGED cbVars
    BY Zenon, <1>1 DEF cbVars, CBTypeOK
  <1>2. ASSUME NEW depth, NEW sat, NEW admitted,
               ShouldAdmit(depth, sat, admitted)
        PROVE  CBTypeOK'
    <2>1. /\ circuit \in {"closed", "open", "half_open"}
          /\ testCount \in 0..TestLimit
          /\ cooled \in BOOLEAN
      BY Zenon DEF CBTypeOK
    <2>2. /\ circuit' \in {"closed", "open", "half_open"}
          /\ testCount' \in 0..TestLimit
      BY <1>2, <2>1, ShouldAdmitType
    <2>3. cooled' \in BOOLEAN
      BY Zenon, <1>2, <2>1, ShouldAdmitCooled
    <2> QED
      BY Zenon, <2>2, <2>3 DEF CBTypeOK
  <1> QED
    BY Zenon, <1>1, <1>2 DEF Submit, SubmitChecks, BreakerAdmits

LEMMA NoTaskIsNone == NoTask \notin Task
  BY DEF NoTask, Task

-----------------------------------------------------------------------------
(* Terms: the queue was replaced at most once a term, and once less while  *)
(* the node leads, and a term that has not begun has no callback.          *)

Callbacks == {"none", "elected", "list_pending", "pending", "list_drifted",
              "drifted", "start", "done"}

TermInv ==
    /\ elector \in {"follower", "leader", "lost"}
    /\ term \in 0..MaxTerm
    /\ gen \in 0..MaxTerm
    /\ gen <= term
    /\ elector # "follower" => gen < term
    /\ callback \in [Term -> Callbacks]
    /\ listed \in [Term -> SUBSET State]
    /\ \A k \in Term : k > term => callback[k] = "none"

LEMMA TermInit == Init => TermInv
  BY DEF Init, TermInv, Term, Callbacks

LEMMA TermStep == TermInv /\ [Next]_vars => TermInv'
  <1> SUFFICES ASSUME TermInv, [Next]_vars PROVE TermInv'
    OBVIOUS
  <1> USE DEF TermInv, Callbacks, Term, electorVars, callbackVars, queueVars
  <1>1. CASE BecomeLeader
    BY <1>1 DEF BecomeLeader
  <1>2. CASE StepDown
    BY <1>2 DEF StepDown
  <1>3. CASE StopScheduler
    BY <1>3 DEF StopScheduler, NewQueue
  <1>4. ASSUME NEW k \in Term, CallbackStep(k) PROVE TermInv'
    <2>1. CASE RehydrateQueue(k)
      BY <2>1 DEF RehydrateQueue
    <2>2. ASSUME NEW pc \in Callbacks \ {"none"},
                 NEW l \in {"pending", "drifted"},
                 ListStatesByStatus(k, pc, l)
          PROVE  TermInv'
      BY <2>2 DEF ListStatesByStatus
    <2>3. CASE ListFails(k)
      BY <2>3 DEF ListFails
    <2>4. ASSUME NEW s \in State, RehydrateSubmit(k, s) PROVE TermInv'
      BY <2>4 DEF RehydrateSubmit
    <2>5. CASE NextList(k)
      BY <2>5 DEF NextList
    <2>6. CASE Start(k)
      BY <2>6 DEF Start
    <2> QED
      BY <1>4, <2>1, <2>2, <2>3, <2>4, <2>5, <2>6 DEF CallbackStep
  <1>5. ASSUME NEW k \in Term, WorkerStep(k) PROVE TermInv'
    BY <1>5 DEF WorkerStep, FreezeEnds, WorkerStops, Pop, Drop, PushDelayed,
                Dispatch
  <1>6. ASSUME NEW k, NEW t, GoroutineStep(k, t) PROVE TermInv'
    BY <1>6 DEF GoroutineStep, Skip, Reconcile, Finish
  <1>7. ASSUME NEW r, NEW s, ReconcileState(r, s) PROVE TermInv'
    BY <1>7 DEF ReconcileState
  <1>8. ASSUME NEW t, Push(t) PROVE TermInv'
    BY <1>8 DEF Push
  <1>9. ASSUME NEW g, NEW t, TimerFires(g, t) PROVE TermInv'
    BY <1>9 DEF TimerFires
  <1>10. CASE \/ \E a \in Agent, tier \in Tiers : Register(a, tier)
              \/ \E m \in {"normal", "drain", "freeze"} : SetAdmissionMode(m)
              \/ \E m \in Modes : SetMode(m)
              \/ \E s \in State, st \in Statuses : StoreChanges(s, st)
              \/ BreakerCools
    BY <1>10 DEF Register, SetAdmissionMode, SetMode, StoreChanges, BreakerCools
  <1>11. CASE Crash
    BY <1>11 DEF Crash, Fresh
  <1>12. CASE UNCHANGED vars
    BY <1>12 DEF vars
  <1> QED
    BY <1>1, <1>2, <1>3, <1>4, <1>5, <1>6, <1>7, <1>8, <1>9, <1>10, <1>11,
       <1>12 DEF Next

-----------------------------------------------------------------------------
(* Where tasks are. *)

PlaceType ==
    /\ queue \subseteq Task
    /\ timers \subseteq (0..MaxTerm) \X Task
    /\ submitting \subseteq Task
    /\ held \in [Term -> Task \cup {NoTask}]
    /\ launched \subseteq Term \X Task
    /\ reconciling \subseteq Term \X Task

LEMMA PlaceInit == Init => PlaceType
  BY DEF Init, PlaceType

LEMMA PlaceStep == TermInv /\ PlaceType /\ [Next]_vars => PlaceType'
  <1> SUFFICES ASSUME TermInv, PlaceType, [Next]_vars PROVE PlaceType'
    OBVIOUS
  <1> USE DEF PlaceType, queueVars, workerVars
  <1>1. CASE BecomeLeader \/ StepDown
    BY <1>1 DEF BecomeLeader, StepDown
  <1>2. CASE StopScheduler
    BY <1>2 DEF StopScheduler, NewQueue
  <1>3. ASSUME NEW k \in Term, CallbackStep(k) PROVE PlaceType'
    <2>1. ASSUME NEW s \in State, RehydrateSubmit(k, s) PROVE PlaceType'
      <3> DEFINE t == [origin |-> callback[k], term |-> k, state |-> s]
      <3>1. t \in Task
        BY <2>1 DEF RehydrateSubmit, Task, Term
      <3>2. submitting' = submitting \/ submitting' = submitting \cup {t}
        BY <2>1, SubmitEffect DEF RehydrateSubmit
      <3> QED
        BY <2>1, <3>1, <3>2 DEF RehydrateSubmit
    <2>2. CASE ~ \E s \in State : RehydrateSubmit(k, s)
      BY <1>3, <2>2 DEF CallbackStep, RehydrateQueue, ListStatesByStatus,
                        ListFails, NextList, Start
    <2> QED
      BY <2>1, <2>2
  <1>4. ASSUME NEW k \in Term, WorkerStep(k) PROVE PlaceType'
    <2>1. CASE FreezeEnds(k) \/ WorkerStops(k)
      BY <2>1 DEF FreezeEnds, WorkerStops
    <2>2. CASE Pop(k)
      BY <2>2 DEF Pop
    <2>3. CASE Drop(k)
      BY <2>3 DEF Drop
    <2>4. CASE PushDelayed(k)
      BY <2>4 DEF PushDelayed, Delay, TermInv
    <2>5. CASE Dispatch(k)
      BY <2>5 DEF Dispatch
    <2> QED
      BY <1>4, <2>1, <2>2, <2>3, <2>4, <2>5 DEF WorkerStep
  <1>5. ASSUME NEW k, NEW t, GoroutineStep(k, t) PROVE PlaceType'
    BY <1>5 DEF GoroutineStep, Skip, Reconcile, Finish
  <1>6. ASSUME NEW r \in Request, NEW s \in State, ReconcileState(r, s)
        PROVE  PlaceType'
    <2>1. ApiTask(r, s) \in Task
      BY DEF ApiTask, Task
    <2> QED
      BY <1>6, <2>1, SubmitEffect DEF ReconcileState
  <1>7. ASSUME NEW t \in submitting, Push(t) PROVE PlaceType'
    BY <1>7 DEF Push
  <1>8. ASSUME NEW g, NEW t, TimerFires(g, t) PROVE PlaceType'
    BY <1>8 DEF TimerFires
  <1>9. CASE \/ \E a \in Agent, tier \in Tiers : Register(a, tier)
             \/ \E m \in {"normal", "drain", "freeze"} : SetAdmissionMode(m)
             \/ \E m \in Modes : SetMode(m)
             \/ \E s \in State, st \in Statuses : StoreChanges(s, st)
             \/ BreakerCools
    BY <1>9 DEF Register, SetAdmissionMode, SetMode, StoreChanges, BreakerCools
  <1>10. CASE Crash
    BY <1>10 DEF Crash, Fresh
  <1>11. CASE UNCHANGED vars
    BY <1>11 DEF vars
  <1> QED
    BY <1>1, <1>2, <1>3, <1>4, <1>5, <1>6, <1>7, <1>8, <1>9, <1>10, <1>11
       DEF Next

-----------------------------------------------------------------------------
(* The scheduler's settings, the store and the breaker. *)

ControlType ==
    /\ mode \in Modes
    /\ admission \in {"normal", "drain", "freeze"}
    /\ nodeHealth \in [Agent -> NodeHealth]
    /\ changes \in 0..MaxChanges
    /\ worker \in [Term -> {"none", "freeze", "loop", "done"}]
    /\ status \in [State -> Statuses]
    /\ requests \subseteq Request

LEMMA HealthUpdate ==
    ASSUME NEW a \in Agent, NEW tier \in Tiers,
           nodeHealth \in [Agent -> NodeHealth],
           UpdateNodeHealth(a, "registration", 100, tier)
    PROVE  nodeHealth' \in [Agent -> NodeHealth]
  <1> DEFINE h == WithSignal(nodeHealth[a], "registration", 100)
             n == [h EXCEPT !.tier = IF tier # "" THEN tier ELSE @,
                            !.quarantined = CompositeScore(h) < 40 * 100]
  <1>1. h = [nodeHealth[a] EXCEPT !.agent = 100]
    BY DEF WithSignal
  <1>2. h \in NodeHealth
    BY <1>1 DEF NodeHealth
  <1> HIDE DEF h
  <1>3. (CompositeScore(h) < 40 * 100) \in BOOLEAN
    OBVIOUS
  <1>4. n \in NodeHealth
    BY <1>2, <1>3 DEF NodeHealth, Tiers
  <1>5. nodeHealth' = [nodeHealth EXCEPT ![a] = n]
    BY DEF UpdateNodeHealth, h
  <1> QED
    BY <1>4, <1>5

LEMMA NoHealthType == NoHealth \in NodeHealth
  BY DEF NoHealth, NodeHealth, Tiers

LEMMA ControlInit == Init => ControlType
  BY NoHealthType DEF Init, ControlType, Modes, Statuses

LEMMA ControlStep == ControlType /\ PlaceType /\ [Next]_vars => ControlType'
  <1> SUFFICES ASSUME ControlType, PlaceType, [Next]_vars PROVE ControlType'
    OBVIOUS
  <1> USE DEF ControlType, Term, controlVars, workerVars, storeVars
  <1>1. CASE BecomeLeader \/ StepDown \/ StopScheduler
    BY <1>1 DEF BecomeLeader, StepDown, StopScheduler
  <1>4. ASSUME NEW k \in Term, CallbackStep(k) PROVE ControlType'
    <2>1. CASE Start(k)
      BY <2>1 DEF Start
    <2>2. CASE ~Start(k)
      BY <1>4, <2>2 DEF CallbackStep, RehydrateQueue, ListStatesByStatus,
                        ListFails, RehydrateSubmit, NextList
    <2> QED
      BY <2>1, <2>2
  <1>5. ASSUME NEW k \in Term, WorkerStep(k) PROVE ControlType'
    BY <1>5 DEF WorkerStep, FreezeEnds, WorkerStops, Pop, Drop, PushDelayed,
                Dispatch
  <1>6. ASSUME NEW k, NEW t, GoroutineStep(k, t) PROVE ControlType'
    <2>1. CASE Skip(k, t) \/ Reconcile(k, t)
      BY <2>1 DEF Skip, Reconcile
    <2>2. CASE Finish(k, t)
      <3>1. t \in Task
        BY <2>2 DEF Finish, PlaceType
      <3>2. PICK st \in {status[t.state], "drifted", "settled"} :
                status' = [status EXCEPT ![t.state] = st]
        BY <2>2 DEF Finish
      <3>3. st \in Statuses
        BY <3>1 DEF Task, Statuses
      <3>4. status' \in [State -> Statuses]
        BY <3>2, <3>3
      <3> QED
        BY <2>2, <3>4 DEF Finish
    <2> QED
      BY <1>6, <2>1, <2>2 DEF GoroutineStep
  <1>7. ASSUME NEW r, NEW s, ReconcileState(r, s) PROVE ControlType'
    BY <1>7 DEF ReconcileState
  <1>8. ASSUME NEW t, Push(t) PROVE ControlType'
    BY <1>8 DEF Push
  <1>9. ASSUME NEW g, NEW t, TimerFires(g, t) PROVE ControlType'
    BY <1>9 DEF TimerFires
  <1>10. ASSUME NEW a \in Agent, NEW tier \in Tiers, Register(a, tier)
         PROVE  ControlType'
    <2>1. nodeHealth' \in [Agent -> NodeHealth]
      BY <1>10, HealthUpdate DEF Register
    <2> QED
      BY <1>10, <2>1 DEF Register, Change
  <1>11. CASE \/ \E m \in {"normal", "drain", "freeze"} : SetAdmissionMode(m)
              \/ \E m \in Modes : SetMode(m)
              \/ \E s \in State, st \in Statuses : StoreChanges(s, st)
              \/ BreakerCools
    BY <1>11 DEF SetAdmissionMode, SetMode, StoreChanges, BreakerCools, Change
  <1>12. CASE Crash
    BY <1>12, NoHealthType DEF Crash, Fresh, Modes
  <1>13. CASE UNCHANGED vars
    BY <1>13 DEF vars
  <1> QED
    BY <1>1, <1>4, <1>5, <1>6, <1>7, <1>8, <1>9, <1>10, <1>11, <1>12, <1>13
       DEF Next

SwitchType == active \in BOOLEAN /\ CBTypeOK

LEMMA SwitchInit == Init => SwitchType
  <1>1. ASSUME Init PROVE circuit \in {"closed", "open", "half_open"} /\ testCount \in 0..TestLimit
    BY <1>1 DEF Init, CBInit
  <1>2. Init => active \in BOOLEAN /\ cooled \in BOOLEAN
    BY Zenon DEF Init, CBInit
  <1> QED
    BY Zenon, <1>1, <1>2 DEF SwitchType, CBTypeOK

LEMMA SwitchStep == SwitchType /\ [Next]_vars => SwitchType'
  <1> SUFFICES ASSUME SwitchType, [Next]_vars PROVE SwitchType'
    OBVIOUS
  <1>1. active' \in BOOLEAN
    BY Zenon DEF SwitchType, Next, BecomeLeader, StepDown, StopScheduler,
       CallbackStep, RehydrateQueue, ListStatesByStatus, ListFails,
       RehydrateSubmit, NextList, Start, WorkerStep, FreezeEnds, WorkerStops,
       Pop, Drop, PushDelayed, Dispatch, GoroutineStep, Skip, Reconcile,
       Finish, ReconcileState, Push, TimerFires, Register, SetAdmissionMode,
       SetMode, StoreChanges, BreakerCools, Crash, Fresh, vars
  <1>2. \/ UNCHANGED cbVars
        \/ \E t : Submit(t)
        \/ Cooldown
        \/ Crash
    BY Zenon DEF Next, BecomeLeader, StepDown, StopScheduler, CallbackStep,
       RehydrateQueue, ListStatesByStatus, ListFails, RehydrateSubmit,
       NextList, Start, WorkerStep, FreezeEnds, WorkerStops, Pop, Drop,
       PushDelayed, Dispatch, GoroutineStep, Skip, Reconcile, Finish,
       ReconcileState, Push, TimerFires, Register, SetAdmissionMode, SetMode,
       StoreChanges, BreakerCools, vars
  <1>3. CASE UNCHANGED cbVars
    BY Zenon, <1>1, <1>3 DEF SwitchType, CBTypeOK, cbVars
  <1>4. CASE \E t : Submit(t)
    BY Zenon, <1>1, <1>4, SubmitBreaker DEF SwitchType
  <1>5. CASE Cooldown
    BY Zenon, <1>1, <1>5 DEF SwitchType, CBTypeOK, Cooldown
  <1>6. CASE Crash
    <2>1. circuit' \in {"closed", "open", "half_open"} /\ testCount' \in 0..TestLimit
      BY <1>6 DEF Crash, Fresh
    <2>2. cooled' \in BOOLEAN
      BY Zenon, <1>6 DEF Crash, Fresh
    <2> QED
      BY Zenon, <1>1, <2>1, <2>2 DEF SwitchType, CBTypeOK
  <1> QED
    BY Zenon, <1>2, <1>3, <1>4, <1>5, <1>6

-----------------------------------------------------------------------------
(* A task exists once. *)

\* A copy of task t is at place i of the given kind.
At(t, kind, i) ==
    \/ kind = "queue" /\ i = 0 /\ t \in queue
    \/ kind = "submit" /\ i = 0 /\ t \in submitting
    \/ kind = "timer" /\ <<i, t>> \in timers
    \/ kind = "held" /\ i \in Term /\ held[i] = t
    \/ kind = "launched" /\ <<i, t>> \in launched
    \/ kind = "running" /\ <<i, t>> \in reconciling

Unique ==
    \A t \in Task : \A a, i, b, j :
        At(t, a, i) /\ At(t, b, j) => a = b /\ i = j

\* Nobody will submit t again: its request has been made, or the list of
\* its term that it is from has been gone through, up to t's state at least.
Spent(t) ==
    /\ t.origin \in Request => t.origin \notin requests
    /\ t.origin \notin Request =>
        /\ t.term \in Term
        /\ callback[t.term] \in
            IF t.origin = "pending"
            THEN {"pending", "list_drifted", "drifted", "start", "done"}
            ELSE {"drifted", "start", "done"}
        /\ callback[t.term] = t.origin => t.state \notin listed[t.term]

PresentIsSpent == \A t \in Task : \A a, i : At(t, a, i) => Spent(t)

LEMMA OnlyGone ==
    ASSUME Unique, \A t \in Task : \A a, i : At(t, a, i)' => At(t, a, i)
    PROVE  Unique'
  BY DEF Unique

\* What holds of places and of what is spent in a step that submits nothing.
Settles ==
    /\ Unique'
    /\ \A t \in Task : \A a, i :
        At(t, a, i)' => \E b, j : At(t, b, j)

LEMMA FrameSettles ==
    ASSUME Unique, UNCHANGED <<queue, timers, submitting, held, launched,
                               reconciling>>
    PROVE  Settles
  <1>1. \A t \in Task : \A a, i : At(t, a, i)' => At(t, a, i)
    BY DEF At
  <1> QED
    BY <1>1, OnlyGone DEF Settles

LEMMA WorkerSettles ==
    ASSUME Unique, PlaceType, NEW k \in Term, WorkerStep(k)
    PROVE  Settles
  <1> USE DEF queueVars, workerVars
  <1>1. CASE FreezeEnds(k) \/ WorkerStops(k)
    BY <1>1, FrameSettles DEF FreezeEnds, WorkerStops
  <1>2. CASE Pop(k)
    <2>1. PICK t0 \in queue : /\ held' = [held EXCEPT ![k] = t0]
                              /\ queue' = queue \ {t0}
      BY <1>2 DEF Pop
    <2>2. t0 \in Task /\ At(t0, "queue", 0) /\ ~At(t0, "queue", 0)'
      BY <2>1 DEF At, PlaceType
    <2>3. \A t \in Task : \A a, i :
            At(t, a, i)' => At(t, a, i) \/ (t = t0 /\ a = "held" /\ i = k)
      BY <1>2, <2>1 DEF Pop, At, PlaceType
    <2>4. \A a, i : At(t0, a, i)' => a = "held" /\ i = k
      BY <2>2, <2>3 DEF Unique
    <2>5. Unique'
      BY <2>3, <2>4 DEF Unique
    <2> QED
      BY <2>2, <2>3, <2>5 DEF Settles
  <1>3. CASE Drop(k)
    <2>1. \A t \in Task : \A a, i : At(t, a, i)' => At(t, a, i)
      BY <1>3, NoTaskIsNone DEF Drop, At, PlaceType
    <2> QED
      BY <2>1, OnlyGone DEF Settles
  <1>4. CASE PushDelayed(k)
    <2>0. PICK t0 : t0 = held[k]
      OBVIOUS
    <2>1. t0 \in Task /\ At(t0, "held", k) /\ ~At(t0, "held", k)'
      BY <1>4, <2>0, NoTaskIsNone DEF PushDelayed, Delay, At, PlaceType
    <2>2. \A t \in Task : \A a, i :
            At(t, a, i)' => At(t, a, i) \/ (t = t0 /\ a = "timer" /\ i = gen)
      BY <1>4, <2>0, NoTaskIsNone DEF PushDelayed, Delay, At, PlaceType
    <2>3. \A a, i : At(t0, a, i)' => a = "timer" /\ i = gen
      BY <2>1, <2>2 DEF Unique
    <2>4. Unique'
      BY <2>2, <2>3 DEF Unique
    <2> QED
      BY <2>1, <2>2, <2>4 DEF Settles
  <1>5. CASE Dispatch(k)
    <2>0. PICK t0 : t0 = held[k]
      OBVIOUS
    <2>1. t0 \in Task /\ At(t0, "held", k) /\ ~At(t0, "held", k)'
      BY <1>5, <2>0, NoTaskIsNone DEF Dispatch, At, PlaceType
    <2>2. \A t \in Task : \A a, i :
            At(t, a, i)' => At(t, a, i) \/ (t = t0 /\ a = "launched" /\ i = k)
      BY <1>5, <2>0, NoTaskIsNone DEF Dispatch, At, PlaceType
    <2>3. \A a, i : At(t0, a, i)' => a = "launched" /\ i = k
      BY <2>1, <2>2 DEF Unique
    <2>4. Unique'
      BY <2>2, <2>3 DEF Unique
    <2> QED
      BY <2>1, <2>2, <2>4 DEF Settles
  <1> QED
    BY <1>1, <1>2, <1>3, <1>4, <1>5 DEF WorkerStep

LEMMA GoroutineSettles ==
    ASSUME Unique, PlaceType, NEW k, NEW t0, GoroutineStep(k, t0)
    PROVE  Settles
  <1> USE DEF queueVars
  <1>1. CASE Skip(k, t0)
    <2>1. \A t \in Task : \A a, i : At(t, a, i)' => At(t, a, i)
      BY <1>1 DEF Skip, At
    <2> QED
      BY <2>1, OnlyGone DEF Settles
  <1>2. CASE Reconcile(k, t0)
    <2>1. t0 \in Task /\ At(t0, "launched", k) /\ ~At(t0, "launched", k)'
      BY <1>2 DEF Reconcile, At, PlaceType
    <2>2. \A t \in Task : \A a, i :
            At(t, a, i)' => At(t, a, i) \/ (t = t0 /\ a = "running" /\ i = k)
      BY <1>2 DEF Reconcile, At
    <2>3. \A a, i : At(t0, a, i)' => a = "running" /\ i = k
      BY <2>1, <2>2 DEF Unique
    <2>4. Unique'
      BY <2>2, <2>3 DEF Unique
    <2> QED
      BY <2>1, <2>2, <2>4 DEF Settles
  <1>3. CASE Finish(k, t0)
    <2>1. \A t \in Task : \A a, i : At(t, a, i)' => At(t, a, i)
      BY <1>3 DEF Finish, At
    <2> QED
      BY <2>1, OnlyGone DEF Settles
  <1> QED
    BY <1>1, <1>2, <1>3 DEF GoroutineStep

LEMMA PushSettles ==
    ASSUME Unique, PlaceType, NEW t0, Push(t0)
    PROVE  Settles
  <1> USE DEF workerVars
  <1>1. t0 \in Task /\ At(t0, "submit", 0) /\ ~At(t0, "submit", 0)'
    BY DEF Push, At, PlaceType
  <1>2. \A t \in Task : \A a, i :
            At(t, a, i)' => At(t, a, i) \/ (t = t0 /\ a = "queue" /\ i = 0)
    BY DEF Push, At
  <1>3. \A a, i : At(t0, a, i)' => a = "queue" /\ i = 0
    BY <1>1, <1>2 DEF Unique
  <1>4. Unique'
    BY <1>2, <1>3 DEF Unique
  <1> QED
    BY <1>1, <1>2, <1>4 DEF Settles

LEMMA TimerSettles ==
    ASSUME Unique, PlaceType, NEW g, NEW t0, TimerFires(g, t0)
    PROVE  Settles
  <1> USE DEF workerVars
  <1>1. t0 \in Task /\ At(t0, "timer", g) /\ ~At(t0, "timer", g)'
    BY DEF TimerFires, At, PlaceType
  <1>2. \A t \in Task : \A a, i :
            At(t, a, i)' => At(t, a, i) \/ (t = t0 /\ a = "queue" /\ i = 0)
    BY DEF TimerFires, At
  <1>3. \A a, i : At(t0, a, i)' => a = "queue" /\ i = 0
    BY <1>1, <1>2 DEF Unique
  <1>4. Unique'
    BY <1>2, <1>3 DEF Unique
  <1> QED
    BY <1>1, <1>2, <1>4 DEF Settles

\* What is spent stays spent while the process lives.
LEMMA SpentStays ==
    ASSUME TermInv, NEW t \in Task, Spent(t), [Next]_vars, ~Crash
    PROVE  Spent(t)'
  <1> USE DEF Spent, TermInv, Callbacks, Term, Task, electorVars,
              callbackVars, storeVars
  <1>1. CASE BecomeLeader
    <2>1. t.origin \notin Request => t.term # term + 1
      <3>1. t.origin \notin Request => callback[t.term] # "none"
        BY Zenon
      <3> QED
        BY <3>1
    <2> QED
      BY <1>1, <2>1 DEF BecomeLeader
  <1>2. CASE StepDown \/ StopScheduler
    BY <1>2 DEF StepDown, StopScheduler
  <1>3. ASSUME NEW k \in Term, CallbackStep(k) PROVE Spent(t)'
    <2>1. CASE RehydrateQueue(k)
      BY <2>1 DEF RehydrateQueue
    <2>2. CASE ListStatesByStatus(k, "list_pending", "pending")
      BY <2>2 DEF ListStatesByStatus
    <2>3. CASE ListStatesByStatus(k, "list_drifted", "drifted")
      BY <2>3 DEF ListStatesByStatus
    <2>4. CASE ListFails(k)
      BY <2>4 DEF ListFails
    <2>5. ASSUME NEW s \in State, RehydrateSubmit(k, s) PROVE Spent(t)'
      BY <2>5 DEF RehydrateSubmit
    <2>6. CASE NextList(k)
      BY <2>6 DEF NextList
    <2>7. CASE Start(k)
      BY <2>7 DEF Start
    <2> QED
      BY <1>3, <2>1, <2>2, <2>3, <2>4, <2>5, <2>6, <2>7 DEF CallbackStep
  <1>4. ASSUME NEW k \in Term, WorkerStep(k) PROVE Spent(t)'
    BY <1>4 DEF WorkerStep, FreezeEnds, WorkerStops, Pop, Drop, PushDelayed,
                Dispatch
  <1>5. ASSUME NEW k, NEW u, GoroutineStep(k, u) PROVE Spent(t)'
    BY <1>5 DEF GoroutineStep, Skip, Reconcile, Finish
  <1>6. ASSUME NEW r, NEW s, ReconcileState(r, s) PROVE Spent(t)'
    BY <1>6 DEF ReconcileState
  <1>7. ASSUME NEW u, Push(u) PROVE Spent(t)'
    BY <1>7 DEF Push
  <1>8. ASSUME NEW g, NEW u, TimerFires(g, u) PROVE Spent(t)'
    BY <1>8 DEF TimerFires
  <1>9. CASE \/ \E a \in Agent, tier \in Tiers : Register(a, tier)
             \/ \E m \in {"normal", "drain", "freeze"} : SetAdmissionMode(m)
             \/ \E m \in Modes : SetMode(m)
             \/ \E s \in State, st \in Statuses : StoreChanges(s, st)
             \/ BreakerCools
    BY <1>9 DEF Register, SetAdmissionMode, SetMode, StoreChanges, BreakerCools
  <1>10. CASE UNCHANGED vars
    BY <1>10 DEF vars
  <1> QED
    BY <1>1, <1>2, <1>3, <1>4, <1>5, <1>6, <1>7, <1>8, <1>9, <1>10 DEF Next

\* A task that is not spent has no copy; submitting it makes one.
LEMMA SubmitOnce ==
    ASSUME Unique, PresentIsSpent, NEW t0 \in Task, ~Spent(t0), Submit(t0),
           UNCHANGED <<queue, timers, held, launched, reconciling>>
    PROVE  /\ Unique'
           /\ \A t \in Task : \A a, i :
                At(t, a, i)' => t = t0 \/ At(t, a, i)
  <1>1. \A a, i : ~At(t0, a, i)
    BY DEF PresentIsSpent
  <1>2. \A t \in Task : \A a, i :
            At(t, a, i)' => At(t, a, i) \/ (t = t0 /\ a = "submit" /\ i = 0)
    BY SubmitEffect DEF At
  <1>3. \A a, i : At(t0, a, i)' => a = "submit" /\ i = 0
    BY <1>1, <1>2
  <1>4. Unique'
    BY <1>2, <1>3 DEF Unique
  <1> QED
    BY <1>2, <1>4

TaskInv == Unique /\ PresentIsSpent

LEMMA TaskInit == Init => TaskInv
  <1>1. ASSUME Init, NEW t \in Task, NEW a, NEW i PROVE ~At(t, a, i)
    BY <1>1, NoTaskIsNone DEF Init, At
  <1> QED
    BY <1>1 DEF TaskInv, Unique, PresentIsSpent

LEMMA TaskStep ==
    TermInv /\ PlaceType /\ TaskInv /\ [Next]_vars => TaskInv'
  <1> SUFFICES ASSUME TermInv, PlaceType, TaskInv, [Next]_vars PROVE TaskInv'
    OBVIOUS
  <1>0. Unique /\ PresentIsSpent
    BY DEF TaskInv
  <1>1. ASSUME Settles, ~Crash PROVE TaskInv'
    <2>1. ASSUME NEW t \in Task, NEW a, NEW i, At(t, a, i)' PROVE Spent(t)'
      <3>1. Spent(t)
        BY <1>0, <1>1, <2>1 DEF Settles, PresentIsSpent
      <3> QED
        BY <1>1, <3>1, SpentStays
    <2> QED
      BY <1>1, <2>1 DEF TaskInv, PresentIsSpent, Settles
  <1>2. ASSUME NEW t0 \in Task, ~Spent(t0), Spent(t0)', Submit(t0), ~Crash,
               UNCHANGED <<queue, timers, held, launched, reconciling>>
        PROVE  TaskInv'
    <2>1. /\ Unique'
          /\ \A t \in Task : \A a, i :
                At(t, a, i)' => t = t0 \/ At(t, a, i)
      BY <1>0, <1>2, SubmitOnce
    <2>2. ASSUME NEW t \in Task, NEW a, NEW i, At(t, a, i)' PROVE Spent(t)'
      <3>1. CASE t = t0
        BY <1>2, <3>1
      <3>2. CASE t # t0
        <4>1. Spent(t)
          BY <1>0, <2>1, <2>2, <3>2 DEF PresentIsSpent
        <4> QED
          BY <1>2, <4>1, SpentStays
      <3> QED
        BY <3>1, <3>2
    <2> QED
      BY <2>1, <2>2 DEF TaskInv, PresentIsSpent
  <1>3. CASE Crash
    <2>1. ASSUME NEW t \in Task, NEW a, NEW i PROVE ~At(t, a, i)'
      BY <1>3, NoTaskIsNone DEF Crash, Fresh, At
    <2> QED
      BY <2>1 DEF TaskInv, Unique, PresentIsSpent
  <1>4. CASE ~Crash
    <2>1. ASSUME UNCHANGED <<queue, timers, submitting, held, launched,
                             reconciling>>
          PROVE  TaskInv'
      BY <1>0, <1>1, <1>4, <2>1, FrameSettles
    <2>2. CASE StopScheduler
      <3>1. \A t \in Task : \A a, i : At(t, a, i)' => At(t, a, i)
        BY <2>2 DEF StopScheduler, NewQueue, workerVars, At
      <3> QED
        BY <1>0, <1>1, <1>4, <3>1 DEF Settles, Unique
    <2>3. ASSUME NEW k \in Term, NEW s \in State, RehydrateSubmit(k, s)
          PROVE  TaskInv'
      <3>0. PICK t0 : t0 = [origin |-> callback[k], term |-> k, state |-> s]
        OBVIOUS
      <3>1. t0 \in Task
        BY <2>3, <3>0 DEF RehydrateSubmit, Task, Term
      <3>2. ~Spent(t0) /\ Spent(t0)'
        BY <2>3, <3>0 DEF RehydrateSubmit, Spent, TermInv
      <3> QED
        BY <1>2, <1>4, <2>3, <3>0, <3>1, <3>2
           DEF RehydrateSubmit, queueVars, workerVars
    <2>4. ASSUME NEW k \in Term, CallbackStep(k) PROVE TaskInv'
      <3>1. CASE ~ \E s \in State : RehydrateSubmit(k, s)
        BY <2>1, <2>4, <3>1 DEF CallbackStep, RehydrateQueue,
           ListStatesByStatus, ListFails, NextList, Start, queueVars, workerVars
      <3> QED
        BY <2>3, <3>1
    <2>5. ASSUME NEW k \in Term, WorkerStep(k) PROVE TaskInv'
      BY <1>0, <1>1, <1>4, <2>5, WorkerSettles
    <2>6. ASSUME NEW k, NEW t, GoroutineStep(k, t) PROVE TaskInv'
      BY <1>0, <1>1, <1>4, <2>6, GoroutineSettles
    <2>7. ASSUME NEW r \in Request, NEW s \in State, ReconcileState(r, s)
          PROVE  TaskInv'
      <3>1. ApiTask(r, s) \in Task
        BY DEF ApiTask, Task
      <3>2. ~Spent(ApiTask(r, s)) /\ Spent(ApiTask(r, s))'
        BY <2>7 DEF ReconcileState, ApiTask, Spent
      <3> QED
        BY <1>2, <1>4, <2>7, <3>1, <3>2
           DEF ReconcileState, queueVars, workerVars
    <2>8. ASSUME NEW t, Push(t) PROVE TaskInv'
      BY <1>0, <1>1, <1>4, <2>8, PushSettles
    <2>9. ASSUME NEW g, NEW t, TimerFires(g, t) PROVE TaskInv'
      BY <1>0, <1>1, <1>4, <2>9, TimerSettles
    <2>10. CASE \/ BecomeLeader
                \/ StepDown
                \/ \E a \in Agent, tier \in Tiers : Register(a, tier)
                \/ \E m \in {"normal", "drain", "freeze"} : SetAdmissionMode(m)
                \/ \E m \in Modes : SetMode(m)
                \/ \E s \in State, st \in Statuses : StoreChanges(s, st)
                \/ BreakerCools
                \/ UNCHANGED vars
      BY <2>1, <2>10 DEF BecomeLeader, StepDown, Register, SetAdmissionMode,
         SetMode, StoreChanges, BreakerCools, vars, queueVars, workerVars
    <2> QED
      BY <1>4, <2>2, <2>4, <2>5, <2>6, <2>7, <2>8, <2>9, <2>10 DEF Next
  <1> QED
    BY <1>3, <1>4

(* A submitted task exists once: requeueing, delayed pushes, the queue's   *)
(* replacement and the workers of overlapping terms never leave two copies *)
(* of it, however many terms there are and whenever the process dies.      *)
THEOREM TasksExistOnce == Spec => []NoDuplicates
  <1>1. ASSUME PlaceType, Unique, NEW t \in Task
        PROVE  Cardinality(Copies(t)) <= 1
    <2>1. ASSUME NEW p \in Copies(t)
          PROVE  \E a, i : p = <<a, i>> /\ At(t, a, i)
      BY <2>1 DEF Copies, At
    <2>2. \A p, q \in Copies(t) : p = q
      BY <1>1, <2>1 DEF Unique
    <2>3. CASE Copies(t) = {}
      BY <2>3, FS_EmptySet
    <2>4. CASE Copies(t) # {}
      <3>1. PICK p : p \in Copies(t)
        BY <2>4
      <3>2. Copies(t) = {p}
        BY <2>2, <3>1
      <3>3. Cardinality({p}) = 1
        BY FS_Singleton
      <3> QED
        BY <3>2, <3>3
    <2> QED
      BY <2>3, <2>4
  <1>2. PlaceType /\ TaskInv => NoDuplicates
    BY <1>1 DEF TaskInv, NoDuplicates
  <1> QED
    BY <1>2, TermInit, TermStep, PlaceInit, PlaceStep, TaskInit, TaskStep, PTL
       DEF Spec

-----------------------------------------------------------------------------
(* The budget.  A task leaves the count when its goroutine ends; that no   *)
(* other goroutine has the same task makes the count go down with the set. *)

Goroutines == launched \cup reconciling

BudgetInv ==
    /\ IsFiniteSet(Goroutines)
    /\ activeTasks = Cardinality(Goroutines)
    /\ activeTasks \in 0..Budget

LEMMA BudgetInit == Init => BudgetInv
  BY FS_EmptySet DEF Init, BudgetInv, Goroutines

LEMMA BudgetStep ==
    PlaceType /\ TaskInv /\ BudgetInv /\ [Next]_vars => BudgetInv'
  <1> SUFFICES ASSUME PlaceType, TaskInv, BudgetInv, [Next]_vars
               PROVE  BudgetInv'
    OBVIOUS
  <1>0. Unique
    BY DEF TaskInv
  <1>1. ASSUME UNCHANGED <<launched, reconciling, activeTasks>> PROVE BudgetInv'
    BY <1>1 DEF BudgetInv, Goroutines
  <1>2. ASSUME NEW x \in Goroutines, Goroutines' = Goroutines \ {x},
               activeTasks' = activeTasks - 1
        PROVE  BudgetInv'
    <2>1. /\ IsFiniteSet(Goroutines \ {x})
          /\ Cardinality(Goroutines \ {x}) = Cardinality(Goroutines) - 1
      BY <1>2, FS_RemoveElement DEF BudgetInv
    <2>2. Cardinality(Goroutines \ {x}) \in Nat
      BY <2>1, FS_CardinalityType
    <2> QED
      BY <1>2, <2>1, <2>2 DEF BudgetInv
  <1>3. ASSUME NEW k \in Term, Dispatch(k) PROVE BudgetInv'
    <2>0. PICK t : t = held[k]
      OBVIOUS
    <2>1. t \in Task /\ At(t, "held", k)
      BY <1>3, <2>0 DEF Dispatch, PlaceType, At
    <2>2. ~At(t, "launched", k) /\ ~At(t, "running", k)
      BY <1>0, <2>1 DEF Unique
    <2>3. <<k, t>> \notin Goroutines
      BY <2>2 DEF At, Goroutines
    <2>4. Goroutines' = Goroutines \cup {<<k, t>>}
      BY <1>3, <2>0 DEF Dispatch, Goroutines
    <2>5. /\ IsFiniteSet(Goroutines')
          /\ Cardinality(Goroutines') = Cardinality(Goroutines) + 1
      BY <2>3, <2>4, FS_AddElement DEF BudgetInv
    <2> QED
      BY <1>3, <2>5 DEF Dispatch, OverBudget, BudgetInv
  <1>4. ASSUME NEW k \in Term, WorkerStep(k) PROVE BudgetInv'
    <2>1. CASE ~Dispatch(k)
      BY <1>1, <1>4, <2>1 DEF WorkerStep, FreezeEnds, WorkerStops, Pop, Drop,
                              PushDelayed
    <2> QED
      BY <1>3, <2>1
  <1>5. ASSUME NEW k, NEW t, GoroutineStep(k, t) PROVE BudgetInv'
    <2>1. CASE Skip(k, t)
      <3>1. t \in Task /\ At(t, "launched", k)
        BY <2>1 DEF Skip, PlaceType, At
      <3>2. ~At(t, "running", k)
        BY <1>0, <3>1 DEF Unique
      <3>3. Goroutines' = Goroutines \ {<<k, t>>} /\ <<k, t>> \in Goroutines
        BY <2>1, <3>2 DEF Skip, Goroutines, At
      <3> QED
        BY <1>2, <2>1, <3>3 DEF Skip
    <2>2. CASE Reconcile(k, t)
      <3>1. Goroutines' = Goroutines /\ UNCHANGED activeTasks
        BY <2>2 DEF Reconcile, Goroutines
      <3> QED
        BY <3>1 DEF BudgetInv
    <2>3. CASE Finish(k, t)
      <3>1. t \in Task /\ At(t, "running", k)
        BY <2>3 DEF Finish, PlaceType, At
      <3>2. ~At(t, "launched", k)
        BY <1>0, <3>1 DEF Unique
      <3>3. Goroutines' = Goroutines \ {<<k, t>>} /\ <<k, t>> \in Goroutines
        BY <2>3, <3>2 DEF Finish, Goroutines, At
      <3> QED
        BY <1>2, <2>3, <3>3 DEF Finish
    <2> QED
      BY <1>5, <2>1, <2>2, <2>3 DEF GoroutineStep
  <1>6. CASE Crash
    BY <1>6, FS_EmptySet DEF Crash, Fresh, BudgetInv, Goroutines
  <1>7. CASE \/ BecomeLeader \/ StepDown \/ StopScheduler
             \/ \E k \in Term : CallbackStep(k)
             \/ \E r \in Request, s \in State : ReconcileState(r, s)
             \/ \E t \in submitting : Push(t)
             \/ \E x \in timers : TimerFires(x[1], x[2])
             \/ UNCHANGED vars
    BY <1>1, <1>7 DEF BecomeLeader, StepDown, StopScheduler, CallbackStep,
       RehydrateQueue, ListStatesByStatus, ListFails, RehydrateSubmit,
       NextList, Start, ReconcileState, Push, TimerFires, vars, workerVars
  <1>8. CASE \/ \E a \in Agent, tier \in Tiers : Register(a, tier)
             \/ \E m \in {"normal", "drain", "freeze"} : SetAdmissionMode(m)
             \/ \E m \in Modes : SetMode(m)
             \/ \E s \in State, st \in Statuses : StoreChanges(s, st)
             \/ BreakerCools
    BY <1>1, <1>8 DEF Register, SetAdmissionMode, SetMode, StoreChanges,
       BreakerCools, workerVars
  <1> QED
    BY <1>4, <1>5, <1>6, <1>7, <1>8 DEF Next

(* activeTasks is the number of goroutines that were dispatched and have   *)
(* not ended, and never above the budget, also while the workers of many   *)
(* terms dispatch side by side.                                            *)
THEOREM BudgetIsRespected == Spec => []BudgetRespected
  <1>1. BudgetInv => BudgetRespected
    BY DEF BudgetInv, BudgetRespected, Goroutines
  <1> QED
    BY <1>1, TermInit, TermStep, PlaceInit, PlaceStep, TaskInit, TaskStep,
       BudgetInit, BudgetStep, PTL DEF Spec

(* Type correctness: the queue is not replaced more often than there are   *)
(* terms, what a worker holds and what timers and goroutines carry are     *)
(* tasks, and activeTasks never goes below zero.                           *)
THEOREM TypeCorrect == Spec => []TypeOK
  <1>1. TermInv /\ PlaceType /\ ControlType /\ SwitchType /\ BudgetInv => TypeOK
    <2> SUFFICES ASSUME TermInv, PlaceType, ControlType, SwitchType, BudgetInv
                 PROVE  TypeOK
      OBVIOUS
    <2>1. /\ elector \in {"follower", "leader", "lost"}
          /\ term \in 0..MaxTerm
          /\ callback \in [Term -> Callbacks]
          /\ listed \in [Term -> SUBSET State]
          /\ gen \in 0..MaxTerm
      BY DEF TermInv
    <2>2. activeTasks \in Nat
      BY DEF BudgetInv
    <2> QED
      BY Zenon, <2>1, <2>2
         DEF PlaceType, ControlType, SwitchType, TypeOK, Callbacks
  <1> QED
    BY <1>1, TermInit, TermStep, PlaceInit, PlaceStep, ControlInit,
       ControlStep, SwitchInit, SwitchStep, TaskInit, TaskStep, BudgetInit,
       BudgetStep, PTL DEF Spec
=============================================================================
