------------------------------ MODULE Scheduler ------------------------------
(***************************************************************************)
(* The scheduler of one control-plane process (scheduler/scheduler.go, the *)
(* queue of scheduler/queue.go) between the leader elector that starts and *)
(* stops it (coordination/leader.go, the callbacks of main.go) and the     *)
(* reconciler that it calls.                                               *)
(*                                                                         *)
(* The elector is reduced to what the scheduler sees of it, becomeLeader   *)
(* and stepDown.  Each term k has a callback goroutine (RehydrateQueue,    *)
(* Start), a worker and the goroutines of the tasks it dispatched; they    *)
(* may outlive the term.  Stop replaces the queue object: gen counts the   *)
(* replacements, and a delayed push keeps the object it was made on.       *)
(*                                                                         *)
(* A queue is a set: which task Pop returns is left open.  Time is left    *)
(* out, so a limiter may delay any task.  Every task has the priority 5    *)
(* that all callers give, and no failure domain, which no caller sets.     *)
(*                                                                         *)
(* Env is the set of things that may happen besides:                       *)
(*   "stall"      a worker may outlive its term until after the next       *)
(*                election (at least ttl/3 later);                         *)
(*   "list_error" ListStatesByStatus may fail;                             *)
(*   "throttle"   the node and tenant limiters delay tasks;                *)
(*   "register"   agents register with this process;                       *)
(*   "control"    SetAdmissionMode and SetMode are called;                 *)
(*   "store"      others change the status of states;                      *)
(*   "crash"      the process dies and is replaced.                        *)
(***************************************************************************)
EXTENDS Naturals, FiniteSets, CircuitBreaker

CONSTANTS
    State,           \* the desired states in the store
    Agent,           \* the nodes they belong to
    NodeOf,          \* NodeOf[s]: the node of state s
    Shard,           \* states whose node hashes to this process's shard
    Request,         \* POST /states/{id}/reconcile requests
    Budget,          \* 100 concurrent tasks
    MaxConcurrency,  \* the configured number of workers
    QueueCap,        \* 1000 queued tasks
    Env,             \* the disturbances that may happen
    MaxTerm,         \* bound: terms explored
    MaxChanges       \* bound: registrations and changes of mode or status

ASSUME SchedulerAssumption ==
    /\ NodeOf \in [State -> Agent]
    /\ Shard \subseteq State
    /\ Budget \in Nat \ {0}
    /\ MaxConcurrency \in Nat \ {0}
    /\ QueueCap \in Nat
    /\ Env \subseteq {"stall", "list_error", "throttle", "register",
                      "control", "store", "crash"}
    /\ MaxTerm \in Nat
    /\ MaxChanges \in Nat
    /\ {"pending", "drifted", "none"} \cap Request = {}

Term == 1..MaxTerm
Statuses == {"pending", "drifted", "settled"}
Modes == {"normal", "degraded", "read_only", "draining"}
Tiers == {"", "normal", "canary"}

\* A task of the API has no term; a rehydrated one names the list it is from.
Task == [origin : Request \cup {"pending", "drifted"},
         term : 0..MaxTerm, state : State]
NoTask == [origin |-> "none", term |-> 0, state |-> "none"]

VARIABLES
    \* the elector
    elector,      \* "follower", "leader", or "lost" while stepDown calls Stop
    term,         \* the last term of this node
    callback,     \* where the onElected goroutine of each term is
    listed,       \* states of its current list that it has not submitted
    \* the scheduler
    active,
    mode,
    admission,
    nodeHealth,
    changes,      \* counts Register, SetMode, SetAdmissionMode, StoreChanges
    queue,
    gen,          \* which queue object s.queue is
    timers,       \* delayed pushes, with the queue object they go to
    submitting,   \* tasks past the checks of Submit and not yet pushed
    activeTasks,
    worker,
    held,         \* the task a worker has popped and not yet disposed of
    launched,     \* dispatched goroutines before the fence check
    reconciling,  \* dispatched goroutines inside Reconcile
    \* the store and the clients
    status,       \* the status of each state, "settled" if neither list has it
    requests      \* requests not made yet

electorVars == <<elector, term>>
callbackVars == <<callback, listed>>
controlVars == <<mode, admission, nodeHealth, changes>>
queueVars == <<queue, gen, timers>>
workerVars == <<worker, held, launched, reconciling, activeTasks>>
storeVars == <<status, requests>>
vars == <<electorVars, callbackVars, active, controlVars, queueVars,
          submitting, workerVars, storeVars, cbVars>>

NodeHealth == [agent : 0..100, observed : 0..100, external : 0..100,
               tier : Tiers, quarantined : BOOLEAN]
NoHealth == [agent |-> 0, observed |-> 0, external |-> 0, tier |-> "",
             quarantined |-> FALSE]

TypeOK ==
    /\ elector \in {"follower", "leader", "lost"}
    /\ term \in 0..MaxTerm
    /\ callback \in [Term -> {"none", "elected", "list_pending", "pending",
                              "list_drifted", "drifted", "start", "done"}]
    /\ listed \in [Term -> SUBSET State]
    /\ active \in BOOLEAN
    /\ mode \in Modes
    /\ admission \in {"normal", "drain", "freeze"}
    /\ nodeHealth \in [Agent -> NodeHealth]
    /\ changes \in 0..MaxChanges
    /\ queue \subseteq Task
    /\ gen \in 0..MaxTerm
    /\ timers \subseteq (0..MaxTerm) \X Task
    /\ submitting \subseteq Task
    /\ activeTasks \in Nat
    /\ worker \in [Term -> {"none", "freeze", "loop", "done"}]
    /\ held \in [Term -> Task \cup {NoTask}]
    /\ launched \subseteq Term \X Task
    /\ reconciling \subseteq Term \X Task
    /\ status \in [State -> Statuses]
    /\ requests \subseteq Request
    /\ CBTypeOK

\* NewScheduler, in a process that does not lead.
Fresh ==
    /\ elector' = "follower"
    /\ callback' = [k \in Term |-> "none"]
    /\ listed' = [k \in Term |-> {}]
    /\ active' = FALSE
    /\ mode' = "normal"
    /\ admission' = "normal"
    /\ nodeHealth' = [a \in Agent |-> NoHealth]
    /\ queue' = {}
    /\ gen' = 0
    /\ timers' = {}
    /\ submitting' = {}
    /\ activeTasks' = 0
    /\ worker' = [k \in Term |-> "none"]
    /\ held' = [k \in Term |-> NoTask]
    /\ launched' = {}
    /\ reconciling' = {}
    /\ circuit' = "closed"
    /\ testCount' = 0
    /\ cooled' = FALSE

Init ==
    /\ elector = "follower"
    /\ term = 0
    /\ callback = [k \in Term |-> "none"]
    /\ listed = [k \in Term |-> {}]
    /\ active = FALSE
    /\ mode = "normal"
    /\ admission = "normal"
    /\ nodeHealth = [a \in Agent |-> NoHealth]
    /\ changes = 0
    /\ queue = {}
    /\ gen = 0
    /\ timers = {}
    /\ submitting = {}
    /\ activeTasks = 0
    /\ worker = [k \in Term |-> "none"]
    /\ held = [k \in Term |-> NoTask]
    /\ launched = {}
    /\ reconciling = {}
    /\ status = [s \in State |-> "pending"]
    /\ requests = Request
    /\ CBInit

\* The fenced context of term k is not cancelled.
Live(k) == elector = "leader" /\ term = k

-----------------------------------------------------------------------------
(* The elector. *)

\* becomeLeader: a new context, and the onElected goroutine.
BecomeLeader ==
    /\ elector = "follower"
    /\ term < MaxTerm
    /\ "stall" \in Env \/ \A k \in Term : held[k] = NoTask
    /\ elector' = "leader"
    /\ term' = term + 1
    /\ callback' = [callback EXCEPT ![term + 1] = "elected"]
    /\ UNCHANGED <<listed, active, controlVars, queueVars, submitting,
                   workerVars, storeVars, cbVars>>

\* stepDown cancels the context first; onLost runs after that.
StepDown ==
    /\ elector = "leader"
    /\ elector' = "lost"
    /\ UNCHANGED <<term, callbackVars, active, controlVars, queueVars,
                   submitting, workerVars, storeVars, cbVars>>

NewQueue == queue' = {} /\ gen' = gen + 1
StopScheduler ==
    /\ elector = "lost"
    /\ elector' = "follower"
    /\ active' = FALSE
    /\ NewQueue
    /\ UNCHANGED <<term, callbackVars, controlVars, timers, submitting,
                   workerVars, storeVars, cbVars>>

-----------------------------------------------------------------------------
(* Submit. *)

Saturation == (100 * activeTasks) \div MaxConcurrency

\* The circuit breaker is not asked about the tasks of canary nodes.
BreakerAdmits(t, admitted) ==
    IF nodeHealth[NodeOf[t.state]].tier = "canary"
    THEN admitted /\ UNCHANGED cbVars
    ELSE ShouldAdmit(Cardinality(queue), Saturation, admitted)

\* The checks of Submit up to the push; ok is whether the task passes.
SubmitChecks(t, ok) ==
    \/ /\ ~active \/ admission # "normal"
       /\ ~ok
       /\ UNCHANGED cbVars
    \/ /\ active
       /\ admission = "normal"
       /\ \E admitted \in BOOLEAN :
            /\ BreakerAdmits(t, admitted)
            /\ ok <=> /\ admitted
                      /\ mode \in {"normal", "degraded"}
                      /\ Cardinality(queue) <= QueueCap
                      /\ t.state \in Shard

Submit(t) ==
    \E ok \in BOOLEAN :
        /\ SubmitChecks(t, ok)
        /\ submitting' = IF ok THEN submitting \cup {t} ELSE submitting

ApiTask(r, s) == [origin |-> r, term |-> 0, state |-> s]

\* handleReconcileState: the state exists, and a task is submitted for it.
ReconcileState(r, s) ==
    /\ r \in requests
    /\ requests' = requests \ {r}
    /\ Submit(ApiTask(r, s))
    /\ UNCHANGED <<electorVars, callbackVars, active, controlVars, queueVars,
                   workerVars, status>>

\* The end of Submit: a push on whatever s.queue is by now.
Push(t) ==
    /\ t \in submitting
    /\ submitting' = submitting \ {t}
    /\ queue' = queue \cup {t}
    /\ UNCHANGED <<electorVars, callbackVars, active, controlVars, gen,
                   timers, workerVars, storeVars, cbVars>>

-----------------------------------------------------------------------------
(* The onElected goroutine: RehydrateQueue, then Start. *)

RehydrateQueueInactive(k) ==
    /\ callback[k] = "elected"
    /\ callback' = [callback EXCEPT ![k] = "list_pending"]
    /\ UNCHANGED <<electorVars, listed, active, controlVars, queueVars,
                   submitting, workerVars, storeVars, cbVars>>
\* Active from here on: Submit would refuse the rehydrated tasks otherwise.
RehydrateQueue(k) ==
    /\ callback[k] = "elected"
    /\ active' = TRUE
    /\ callback' = [callback EXCEPT ![k] = "list_pending"]
    /\ UNCHANGED <<electorVars, listed, controlVars, queueVars, submitting,
                   workerVars, storeVars, cbVars>>

\* At step pc, the states with status l are read from the store.
ListStatesByStatus(k, pc, l) ==
    /\ callback[k] = pc
    /\ listed' = [listed EXCEPT ![k] = {s \in Shard : status[s] = l}]
    /\ callback' = [callback EXCEPT ![k] = l]
    /\ UNCHANGED <<electorVars, active, controlVars, queueVars, submitting,
                   workerVars, storeVars, cbVars>>

\* The read fails: RehydrateQueue returns, and the callback goes on to Start.
ListFails(k) ==
    /\ "list_error" \in Env
    /\ callback[k] \in {"list_pending", "list_drifted"}
    /\ callback' = [callback EXCEPT ![k] = "start"]
    /\ UNCHANGED <<electorVars, listed, active, controlVars, queueVars,
                   submitting, workerVars, storeVars, cbVars>>

\* The callback's previous Submit has returned.
Returned(k) == \A t \in submitting : t.term # k

\* One listed state is submitted; a refusal is only logged.
RehydrateSubmit(k, s) ==
    /\ callback[k] \in {"pending", "drifted"}
    /\ Returned(k)
    /\ s \in listed[k]
    /\ listed' = [listed EXCEPT ![k] = @ \ {s}]
    /\ Submit([origin |-> callback[k], term |-> k, state |-> s])
    /\ UNCHANGED <<electorVars, callback, active, controlVars, queueVars,
                   workerVars, storeVars>>

NextList(k) ==
    /\ callback[k] \in {"pending", "drifted"}
    /\ Returned(k)
    /\ listed[k] = {}
    /\ callback' = [callback EXCEPT ![k] =
                       IF callback[k] = "pending" THEN "list_drifted"
                       ELSE "start"]
    /\ UNCHANGED <<electorVars, listed, active, controlVars, queueVars,
                   submitting, workerVars, storeVars, cbVars>>

Start(k) ==
    /\ callback[k] = "start"
    /\ active' = TRUE
    /\ callback' = [callback EXCEPT ![k] = "done"]
    /\ worker' = [worker EXCEPT ![k] = "freeze"]
    /\ UNCHANGED <<electorVars, listed, controlVars, queueVars, submitting,
                   held, launched, reconciling, activeTasks, storeVars,
                   cbVars>>

-----------------------------------------------------------------------------
(* The worker: processNextTask at each tick. *)

\* A select that finds its tick and ctx.Done() ready takes either; a worker
\* whose context was cancelled long ago finds ctx.Done() ready alone.
MayTick(k) == term = k \/ "stall" \in Env

FreezeEnds(k) ==
    /\ worker[k] = "freeze"
    /\ MayTick(k)
    /\ worker' = [worker EXCEPT ![k] = "loop"]
    /\ UNCHANGED <<electorVars, callbackVars, active, controlVars, queueVars,
                   submitting, held, launched, reconciling, activeTasks,
                   storeVars, cbVars>>

WorkerStopsFrozen(k) ==
    /\ worker[k] = "freeze"
    /\ held[k] = NoTask
    /\ ~Live(k)
    /\ worker' = [worker EXCEPT ![k] = "done"]
    /\ UNCHANGED <<electorVars, callbackVars, active, controlVars, queueVars,
                   submitting, held, launched, reconciling, activeTasks,
                   storeVars, cbVars>>
\* ctx.Done() is chosen by one of the two selects.
WorkerStops(k) ==
    /\ worker[k] \in {"freeze", "loop"}
    /\ held[k] = NoTask
    /\ ~Live(k)
    /\ worker' = [worker EXCEPT ![k] = "done"]
    /\ UNCHANGED <<electorVars, callbackVars, active, controlVars, queueVars,
                   submitting, held, launched, reconciling, activeTasks,
                   storeVars, cbVars>>

Pop(k) ==
    /\ worker[k] = "loop"
    /\ held[k] = NoTask
    /\ MayTick(k)
    /\ \E t \in queue :
        /\ held' = [held EXCEPT ![k] = t]
        /\ queue' = queue \ {t}
    /\ UNCHANGED <<electorVars, callbackVars, active, controlVars, gen,
                   timers, submitting, worker, launched, reconciling,
                   activeTasks, storeVars, cbVars>>

Quarantined(t) == nodeHealth[NodeOf[t.state]].quarantined

Drop(k) ==
    /\ held[k] # NoTask
    /\ Quarantined(held[k])
    /\ held' = [held EXCEPT ![k] = NoTask]
    /\ UNCHANGED <<electorVars, callbackVars, active, controlVars, queueVars,
                   submitting, worker, launched, reconciling, activeTasks,
                   storeVars, cbVars>>

OverBudgetByOne == activeTasks > Budget
OverBudget == activeTasks >= Budget

DelayKeepsHold(k) ==
    /\ timers' = timers \cup {<<gen, held[k]>>}
    /\ UNCHANGED held
\* PushDelayed on the present queue object, and return.
Delay(k) ==
    /\ timers' = timers \cup {<<gen, held[k]>>}
    /\ held' = [held EXCEPT ![k] = NoTask]

\* A limiter or the budget has the task wait.
PushDelayed(k) ==
    /\ held[k] # NoTask
    /\ ~Quarantined(held[k])
    /\ "throttle" \in Env \/ OverBudget
    /\ Delay(k)
    /\ UNCHANGED <<electorVars, callbackVars, active, controlVars, queue, gen,
                   submitting, worker, launched, reconciling, activeTasks,
                   storeVars, cbVars>>

Dispatch(k) ==
    /\ held[k] # NoTask
    /\ ~Quarantined(held[k])
    /\ ~OverBudget
    /\ activeTasks' = activeTasks + 1
    /\ launched' = launched \cup {<<k, held[k]>>}
    /\ held' = [held EXCEPT ![k] = NoTask]
    /\ UNCHANGED <<electorVars, callbackVars, active, controlVars, queueVars,
                   submitting, worker, reconciling, storeVars, cbVars>>

TimerFiresNowhere(g, t) ==
    /\ <<g, t>> \in timers
    /\ timers' = timers \ {<<g, t>>}
    /\ UNCHANGED <<electorVars, callbackVars, active, controlVars, queue, gen,
                   submitting, workerVars, storeVars, cbVars>>
\* A delay is over: the push reaches the queue object it was made on.
TimerFires(g, t) ==
    /\ <<g, t>> \in timers
    /\ timers' = timers \ {<<g, t>>}
    /\ queue' = IF g = gen THEN queue \cup {t} ELSE queue
    /\ UNCHANGED <<electorVars, callbackVars, active, controlVars, gen,
                   submitting, workerVars, storeVars, cbVars>>

-----------------------------------------------------------------------------
(* The goroutine of a dispatched task. *)

SkipCountsTwice(k, t) ==
    /\ <<k, t>> \in launched
    /\ ~Live(k)
    /\ launched' = launched \ {<<k, t>>}
    /\ activeTasks' = activeTasks - 2
    /\ UNCHANGED <<electorVars, callbackVars, active, controlVars, queueVars,
                   submitting, worker, held, reconciling, storeVars, cbVars>>
\* The execution fence: the context was cancelled before the task began.
Skip(k, t) ==
    /\ <<k, t>> \in launched
    /\ ~Live(k)
    /\ launched' = launched \ {<<k, t>>}
    /\ activeTasks' = activeTasks - 1
    /\ UNCHANGED <<electorVars, callbackVars, active, controlVars, queueVars,
                   submitting, worker, held, reconciling, storeVars, cbVars>>

Reconcile(k, t) ==
    /\ <<k, t>> \in launched
    /\ Live(k)
    /\ launched' = launched \ {<<k, t>>}
    /\ reconciling' = reconciling \cup {<<k, t>>}
    /\ UNCHANGED <<electorVars, callbackVars, active, controlVars, queueVars,
                   submitting, worker, held, activeTasks, storeVars, cbVars>>

\* Reconcile returns, having changed the status of the state or not.
Finish(k, t) ==
    /\ <<k, t>> \in reconciling
    /\ reconciling' = reconciling \ {<<k, t>>}
    /\ activeTasks' = activeTasks - 1
    /\ \E st \in {status[t.state], "drifted", "settled"} :
        status' = [status EXCEPT ![t.state] = st]
    /\ UNCHANGED <<electorVars, callbackVars, active, controlVars, queueVars,
                   submitting, worker, held, launched, requests, cbVars>>

-----------------------------------------------------------------------------
(* Control and environment. *)

\* The environment is good for MaxChanges changes.
Change == changes < MaxChanges /\ changes' = changes + 1

\* In hundredths, as the scores are.
CompositeScore(h) == 20 * h.agent + 50 * h.observed + 30 * h.external

WithSignal(h, signal, score) ==
    CASE signal \in {"agent", "registration"} -> [h EXCEPT !.agent = score]
      [] signal = "observed" -> [h EXCEPT !.observed = score]
      [] signal = "external" -> [h EXCEPT !.external = score]

UpdateNodeHealth(a, signal, score, tier) ==
    LET h == WithSignal(nodeHealth[a], signal, score)
    IN  nodeHealth' = [nodeHealth EXCEPT ![a] =
            [h EXCEPT !.tier = IF tier # "" THEN tier ELSE @,
                      !.quarantined = CompositeScore(h) < 40 * 100]]

\* handleRegister, the only caller of UpdateNodeHealth.
Register(a, tier) ==
    /\ "register" \in Env
    /\ Change
    /\ UpdateNodeHealth(a, "registration", 100, tier)
    /\ UNCHANGED <<electorVars, callbackVars, active, mode, admission,
                   queueVars, submitting, workerVars, storeVars, cbVars>>

SetAdmissionMode(m) ==
    /\ "control" \in Env
    /\ Change
    /\ admission' = m
    /\ UNCHANGED <<electorVars, callbackVars, active, mode, nodeHealth,
                   queueVars, submitting, workerVars, storeVars, cbVars>>

SetMode(m) ==
    /\ "control" \in Env
    /\ Change
    /\ mode' = m
    /\ UNCHANGED <<electorVars, callbackVars, active, admission, nodeHealth,
                   queueVars, submitting, workerVars, storeVars, cbVars>>

\* The cooldown of the breaker elapses.
BreakerCools ==
    /\ Cooldown
    /\ UNCHANGED <<electorVars, callbackVars, active, controlVars, queueVars,
                   submitting, workerVars, storeVars>>

\* A state is created or changed through the API, or by another process.
StoreChanges(s, st) ==
    /\ "store" \in Env
    /\ Change
    /\ status' = [status EXCEPT ![s] = st]
    /\ UNCHANGED <<electorVars, callbackVars, active, mode, admission,
                   nodeHealth, queueVars, submitting, workerVars, requests,
                   cbVars>>

Crash ==
    /\ "crash" \in Env
    /\ Fresh
    /\ UNCHANGED <<term, changes, storeVars>>

CallbackStep(k) ==
    \/ RehydrateQueue(k)
    \/ ListStatesByStatus(k, "list_pending", "pending")
    \/ ListStatesByStatus(k, "list_drifted", "drifted")
    \/ ListFails(k)
    \/ \E s \in State : RehydrateSubmit(k, s)
    \/ NextList(k)
    \/ Start(k)

WorkerStep(k) ==
    \/ FreezeEnds(k)
    \/ WorkerStops(k)
    \/ Pop(k)
    \/ Drop(k)
    \/ PushDelayed(k)
    \/ Dispatch(k)

GoroutineStep(k, t) == Skip(k, t) \/ Reconcile(k, t) \/ Finish(k, t)

Next ==
    \/ BecomeLeader
    \/ StepDown
    \/ StopScheduler
    \/ \E k \in Term : CallbackStep(k) \/ WorkerStep(k)
    \/ \E x \in launched \cup reconciling : GoroutineStep(x[1], x[2])
    \/ \E r \in Request, s \in State : ReconcileState(r, s)
    \/ \E t \in submitting : Push(t)
    \/ \E x \in timers : TimerFires(x[1], x[2])
    \/ \E a \in Agent, tier \in Tiers : Register(a, tier)
    \/ \E m \in {"normal", "drain", "freeze"} : SetAdmissionMode(m)
    \/ \E m \in Modes : SetMode(m)
    \/ \E s \in State, st \in Statuses : StoreChanges(s, st)
    \/ BreakerCools
    \/ Crash

Spec == Init /\ [][Next]_vars

\* Goroutines and timers keep running, Reconcile returns (every wait in it
\* has a timeout), a select does not ignore ctx.Done() for ever, and a
\* limiter does not refuse for ever.
FairSpec ==
    /\ Spec
    /\ WF_vars(StopScheduler)
    /\ \A k \in Term :
        /\ WF_vars(CallbackStep(k))
        /\ WF_vars(WorkerStep(k))
        /\ SF_vars(WorkerStops(k))
        /\ SF_vars(Dispatch(k))
    /\ WF_vars(\E x \in launched \cup reconciling : GoroutineStep(x[1], x[2]))
    /\ WF_vars(\E t \in submitting : Push(t))
    /\ WF_vars(\E x \in timers : TimerFires(x[1], x[2]))

-----------------------------------------------------------------------------
(* Properties. *)

(* The count that guards the global budget is exact - every goroutine that *)
(* was counted and has not ended, skipped ones included, and no other - so *)
(* no more than Budget tasks run at a time, also when the workers of two   *)
(* terms dispatch side by side.                                            *)
BudgetRespected ==
    /\ activeTasks = Cardinality(launched \cup reconciling)
    /\ activeTasks <= Budget

Copies(t) ==
    (IF t \in queue THEN {<<"queue", 0>>} ELSE {})
    \cup (IF t \in submitting THEN {<<"submit", 0>>} ELSE {})
    \cup {<<"timer", g>> : g \in {g \in 0..MaxTerm : <<g, t>> \in timers}}
    \cup {<<"held", k>> : k \in {k \in Term : held[k] = t}}
    \cup {<<"launched", k>> : k \in {k \in Term : <<k, t>> \in launched}}
    \cup {<<"running", k>> : k \in {k \in Term : <<k, t>> \in reconciling}}

(* A submitted task exists once: requeueing, delayed pushes, the queue's   *)
(* replacement and workers of two terms never leave two copies of it, so   *)
(* it is not run twice.                                                    *)
NoDuplicates == \A t \in Task : Cardinality(Copies(t)) <= 1

(* Once a term is over, its callback, which may still start a worker after *)
(* that, and its worker end for good.  It says nothing of the goroutines   *)
(* the worker has dispatched: what ends those is the reconciler.           *)
DeposedTermEnds ==
    \A k \in Term :
        (elector # "leader" /\ term = k)
            ~> [](callback[k] \in {"none", "done"}
                  /\ worker[k] \in {"none", "done"})

Running(k, s) == \E t \in Task : t.state = s /\ <<k, t>> \in reconciling

(* A request answered with 202 in a term is run in that term, however      *)
(* often limiters and the budget delay it, unless the term ends first.     *)
AcceptedTaskRuns ==
    \A k \in Term, r \in Request, s \in State :
        (ApiTask(r, s) \in submitting /\ Live(k))
            ~> (<<k, ApiTask(r, s)>> \in reconciling \/ ~Live(k))

(* What a crash or a change of leader left pending is picked up: a state   *)
(* that needs work when a term begins is reconciled in that term, unless   *)
(* the term ends first or the state is settled meanwhile.                  *)
LeftoverStateRuns ==
    \A k \in Term, s \in State :
        (callback[k] = "elected" /\ status[s] # "settled" /\ Live(k))
            ~> (Running(k, s) \/ status[s] = "settled" \/ ~Live(k))
=============================================================================
