----------------------------- MODULE Reconciler -----------------------------
(***************************************************************************)
(* Reconciliation: reconciler.go (Reconcile and its phases), jobs.go       *)
(* (DispatchJob), the handlers of api.go that create states and take job   *)
(* results, and the state and job operations of store/memory.go.           *)
(*                                                                         *)
(* A run is one call of Reconcile.  One action is one access to the store, *)
(* one HTTP exchange with an agent, or one step between two of them.  A    *)
(* run makes at most one job per phase, so a job is named by its run and   *)
(* phase; nothing reads a job once waitForJob has returned, so it is       *)
(* forgotten then.  What a state demands is its spec, a number that grows  *)
(* with each UpsertState; config says which spec the node complies with.   *)
(* The exit code of a check is "match" or "differ"; that of an apply is    *)
(* ignored.                                                                *)
(*                                                                         *)
(* Env is the set of things that may happen besides:                       *)
(*   "cancel"  the context of a scheduled run is cancelled;                *)
(*   "timeout" an agent may be slower than the 30 s of waitForJob;         *)
(*   "lossy"   requests to and results from agents may be lost;            *)
(*   "drift"   a node changes by itself;                                   *)
(*   "shadow"  SetShadowMode is called, at any time;                       *)
(*   "store_error" a call of the store fails and changes nothing.  An      *)
(*             update that was applied and reports an error needs no step  *)
(*             of its own: callers of the two updates ignore the error,    *)
(*             and a job whose CreateJob failed is never looked at.        *)
(***************************************************************************)
EXTENDS Naturals, FiniteSets

CONSTANTS
    State,     \* desired states
    Agent,     \* the nodes they belong to
    NodeOf,    \* NodeOf[s]: the node of state s
    Run,       \* bound: the calls of Reconcile explored
    MaxSpec,   \* bound: how often a state is created or replaced
    Versions,  \* the Version fields clients send with a state
    Env        \* the disturbances that may happen

ASSUME ReconcilerAssumption ==
    /\ State # {}
    /\ NodeOf \in [State -> Agent]
    /\ MaxSpec \in Nat
    /\ Versions \subseteq Nat
    /\ Env \subseteq {"cancel", "timeout", "lossy", "drift", "shadow",
                      "store_error"}

VARIABLES
    state,             \* the stored states
    config,            \* config[s]: the spec of s its node complies with
    registered,        \* agents known to the store
    run,               \* the runs
    activeReconciles,  \* the agents that are locked
    job,               \* job[r]: the job that run r waits for: status, exit code
    inbox,             \* jobs accepted by their agent and not executed
    outbox,            \* results not yet delivered to /jobs/result
    verified,          \* history: specs that a check has found in force, with
                       \* the version of the state that the check was for
    erred              \* history: runs under way whose last call of GetAgent
                       \* or UpdateStateStatus failed in the store

vars == <<state, config, registered, run, activeReconciles, job, inbox,
          outbox, verified, erred>>

Phase == {"check", "apply", "final"}
NoJob == [status |-> "none", exit |-> "none"]
NoState == [spec |-> 0, version |-> 0, status |-> "none"]
NoRun(s) == [pc |-> "none", state |-> s, ctx |-> "background",
             phase |-> "check", copy |-> NoState]

Statuses == {"none", "pending", "drifted", "applying", "compliant", "failed"}
StoredState == [spec : 0..MaxSpec, version : Versions \cup {0},
                status : Statuses]

RunRecord == [pc : {"none", "get_state", "lock", "get_agent", "create_job",
                    "dispatch", "accepted", "wait", "apply", "return",
                    "done"},
              state : State,
              ctx : {"background", "fenced", "cancelled"},
              phase : Phase,
              copy : StoredState]
JobRecord == [status : {"none", "queued", "running", "completed", "failed"},
              exit : {"none", "match", "differ"}]

TypeOK ==
    /\ state \in [State -> StoredState]
    /\ config \in [State -> 0..MaxSpec]
    /\ registered \subseteq Agent
    /\ run \in [Run -> RunRecord]
    /\ activeReconciles \subseteq Agent
    /\ job \in [Run -> JobRecord]
    /\ inbox \subseteq Run \X Phase
    /\ outbox \subseteq Run \X Phase \X {"match", "differ", "error"}
    /\ verified \subseteq State \X (1..MaxSpec) \X (Versions \cup {0})
    /\ erred \subseteq Run

Init ==
    /\ state = [s \in State |-> NoState]
    /\ config = [s \in State |-> 0]
    /\ registered = {}
    /\ run = [r \in Run |-> NoRun(CHOOSE s \in State : TRUE)]
    /\ activeReconciles = {}
    /\ job = [r \in Run |-> NoJob]
    /\ inbox = {}
    /\ outbox = {}
    /\ verified = {}
    /\ erred = {}

-----------------------------------------------------------------------------
(* Who starts runs. *)

At(r, pc) == run[r].pc = pc
Goto(r, pc) == run' = [run EXCEPT ![r].pc = pc]
Node(r) == NodeOf[run[r].state]

StartRun(r, s, ctx) ==
    /\ At(r, "none")
    /\ run' = [run EXCEPT ![r] = [@ EXCEPT !.pc = "get_state", !.state = s,
                                           !.ctx = ctx]]

\* handleCreateState: the state is stored as pending, replacing the one
\* there, and reconciled at once outside the scheduler.
CreateState(r, s, v) ==
    /\ state[s].spec < MaxSpec
    /\ state' = [state EXCEPT ![s] = [spec |-> @.spec + 1, version |-> v,
                                      status |-> "pending"]]
    /\ StartRun(r, s, "background")
    /\ UNCHANGED <<config, registered, activeReconciles, job, inbox, outbox,
                   verified, erred>>

\* The scheduler dispatches a task for a stored state.
ScheduledRun(r, s) ==
    /\ state[s] # NoState
    /\ StartRun(r, s, "fenced")
    /\ UNCHANGED <<state, config, registered, activeReconciles, job, inbox,
                   outbox, verified, erred>>

\* Leadership is lost while the run is under way.
CancelRun(r) ==
    /\ "cancel" \in Env
    /\ run[r].ctx = "fenced"
    /\ run[r].pc \notin {"none", "done"}
    /\ run' = [run EXCEPT ![r].ctx = "cancelled"]
    /\ UNCHANGED <<state, config, registered, activeReconciles, job, inbox,
                   outbox, verified, erred>>

\* handleRegister, as far as the reconciler sees it.
RegisterAgent(a) ==
    /\ a \notin registered
    /\ registered' = registered \cup {a}
    /\ UNCHANGED <<state, config, run, activeReconciles, job, inbox, outbox,
                   verified, erred>>

-----------------------------------------------------------------------------
(* reconcileWithContext. *)

Cancelled(r) == run[r].ctx = "cancelled"

UpdateStatusBlind(r, st) ==
    /\ state' = [state EXCEPT ![run[r].state].status = st]
    /\ erred' = erred \ {r}
\* UpdateStateStatus with the version read at the start: nothing is written
\* when the stored version differs or the store fails, and the caller, who
\* only logs it, does not learn of it.
UpdateStatus(r, st) ==
    LET s == run[r].state
    IN  \/ /\ state[s].version = run[r].copy.version
           /\ state' = [state EXCEPT ![s].status = st]
           /\ erred' = erred \ {r}
        \/ /\ state[s].version # run[r].copy.version
           /\ UNCHANGED <<state, erred>>
        \/ /\ "store_error" \in Env
           /\ UNCHANGED state
           /\ erred' = erred \cup {r}

\* updateStatus, which also changes the run's own copy, then a step to pc.
SetStatus(r, st, pc) ==
    /\ UpdateStatus(r, st)
    /\ run' = [run EXCEPT ![r] = [@ EXCEPT !.copy.status = st, !.pc = pc]]

\* The run ends without the lock when cancelled or when the state cannot be
\* read; the state exists.
GetState(r) ==
    /\ At(r, "get_state")
    /\ \/ /\ Cancelled(r) \/ "store_error" \in Env
          /\ Goto(r, "done")
       \/ /\ ~Cancelled(r)
          /\ run' = [run EXCEPT ![r] = [@ EXCEPT !.copy = state[run[r].state],
                                                !.pc = "lock"]]
    /\ UNCHANGED <<state, config, registered, activeReconciles, job, inbox,
                   outbox, verified, erred>>

AcquireLock(r) ==
    /\ At(r, "lock")
    /\ Node(r) \notin activeReconciles
    /\ activeReconciles' = activeReconciles \cup {Node(r)}
    /\ Goto(r, "get_agent")
    /\ UNCHANGED <<state, config, registered, job, inbox, outbox, verified,
                   erred>>

AgentBusyReleases(r) ==
    /\ At(r, "lock")
    /\ Node(r) \in activeReconciles
    /\ Goto(r, "return")
    /\ UNCHANGED <<state, config, registered, activeReconciles, job, inbox,
                   outbox, verified, erred>>
\* The agent is busy: the run reports success and does nothing.
AgentBusy(r) ==
    /\ At(r, "lock")
    /\ Node(r) \in activeReconciles
    /\ Goto(r, "done")
    /\ UNCHANGED <<state, config, registered, activeReconciles, job, inbox,
                   outbox, verified, erred>>

\* Four ways on: cancelled; the agent cannot be read, and the run returns
\* with the status as it was; no such agent; the check phase begins.
GetAgent(r) ==
    /\ At(r, "get_agent")
    /\ \/ Cancelled(r) /\ Goto(r, "return") /\ UNCHANGED <<state, erred>>
       \/ /\ ~Cancelled(r)
          /\ "store_error" \in Env
          /\ Goto(r, "return")
          /\ erred' = erred \cup {r}
          /\ UNCHANGED state
       \/ /\ ~Cancelled(r)
          /\ Node(r) \notin registered
          /\ SetStatus(r, "failed", "return")
       \/ /\ ~Cancelled(r)
          /\ Node(r) \in registered
          /\ Goto(r, "create_job")
          /\ UNCHANGED <<state, erred>>
    /\ UNCHANGED <<config, registered, activeReconciles, job, inbox, outbox,
                   verified>>

\* The deferred releaseLock.
ReleaseLock(r) ==
    /\ At(r, "return")
    /\ activeReconciles' = activeReconciles \ {Node(r)}
    /\ erred' = erred \ {r}
    /\ Goto(r, "done")
    /\ UNCHANGED <<state, config, registered, job, inbox, outbox, verified>>

\* With ShadowMode on, the apply job is left out.
ShadowPhase == IF "shadow" \in Env THEN {"final"} ELSE {}

\* Between the phases: runApply, unless the context was cancelled.
RunApply(r) ==
    /\ At(r, "apply")
    /\ \/ Cancelled(r) /\ Goto(r, "return") /\ UNCHANGED <<state, erred>>
       \/ /\ ~Cancelled(r)
          /\ UpdateStatus(r, "applying")
          /\ \E ph \in {"apply"} \cup ShadowPhase :
               run' = [run EXCEPT ![r] = [@ EXCEPT !.copy.status = "applying",
                                                   !.pc = "create_job",
                                                   !.phase = ph]]
    /\ UNCHANGED <<config, registered, activeReconciles, job, inbox, outbox,
                   verified>>

-----------------------------------------------------------------------------
(* executeJob, DispatchJob and waitForJob. *)

\* UpdateJobStatus: any status replaces any other; the exit code is written
\* with a final one only.
UpdateJobStatus(r, ph, st, exit) ==
    IF job[r] # NoJob /\ ph = run[r].phase
    THEN job' = [job EXCEPT ![r] =
                    [status |-> st,
                     exit |-> IF st \in {"completed", "failed"} THEN exit
                              ELSE @.exit]]
    ELSE UNCHANGED job

\* The same from DispatchJob, which does not look at the error.
TryUpdateJobStatus(r, ph, st) ==
    \/ UpdateJobStatus(r, ph, st, "none")
    \/ "store_error" \in Env /\ UNCHANGED job

JobErrorUnrecorded(r) == Goto(r, "return") /\ UNCHANGED <<state, erred>>
\* executeJob returned an error: every phase gives the state up as failed.
JobError(r) == SetStatus(r, "failed", "return")

CreateJobWithoutStatus(r) ==
    /\ At(r, "create_job")
    /\ job' = [job EXCEPT ![r] = [status |-> "", exit |-> "none"]]
    /\ Goto(r, "dispatch")
    /\ UNCHANGED <<state, config, registered, activeReconciles, inbox, outbox,
                   verified, erred>>
CreateJob(r) ==
    /\ At(r, "create_job")
    /\ job' = [job EXCEPT ![r] = [status |-> "queued", exit |-> "none"]]
    /\ Goto(r, "dispatch")
    /\ UNCHANGED <<state, config, registered, activeReconciles, inbox, outbox,
                   verified, erred>>

CreateJobFails(r) ==
    /\ At(r, "create_job")
    /\ "store_error" \in Env
    /\ JobError(r)
    /\ UNCHANGED <<config, registered, activeReconciles, job, inbox, outbox,
                   verified>>

\* The context is cancelled, or the agent cannot be reached or refuses.  A
\* request that failed may have reached the agent all the same.
DispatchFails(r) ==
    /\ At(r, "dispatch")
    /\ Cancelled(r) \/ "lossy" \in Env
    /\ TryUpdateJobStatus(r, run[r].phase, "failed")
    /\ inbox' \in {inbox} \cup
                  (IF "lossy" \in Env /\ ~Cancelled(r)
                   THEN {inbox \cup {<<r, run[r].phase>>}} ELSE {})
    /\ Goto(r, "wait")
    /\ UNCHANGED <<state, config, registered, activeReconciles, outbox,
                   verified, erred>>

\* The agent has the job and answers 202.
DispatchAccepted(r) ==
    /\ At(r, "dispatch")
    /\ ~Cancelled(r)
    /\ inbox' = inbox \cup {<<r, run[r].phase>>}
    /\ Goto(r, "accepted")
    /\ UNCHANGED <<state, config, registered, activeReconciles, job, outbox,
                   verified, erred>>

\* After the answer, the job is marked running, whatever became of it.
MarkRunning(r) ==
    /\ At(r, "accepted")
    /\ TryUpdateJobStatus(r, run[r].phase, "running")
    /\ Goto(r, "wait")
    /\ UNCHANGED <<state, config, registered, activeReconciles, inbox, outbox,
                   verified, erred>>

\* waitForJob returns.
Forget(r) == job' = [job EXCEPT ![r] = NoJob]

FinalCheck(r, exit) ==
    SetStatus(r, IF exit = "match" THEN "compliant" ELSE "failed", "return")

\* executeJob returned an exit code.
PhaseEnds(r, exit) ==
    \/ /\ run[r].phase = "check"
       /\ IF exit = "match" THEN SetStatus(r, "compliant", "return")
          ELSE SetStatus(r, "drifted", "apply")
    \/ /\ run[r].phase = "apply"
       /\ run' = [run EXCEPT ![r] = [@ EXCEPT !.phase = "final",
                                              !.pc = "create_job"]]
       /\ UNCHANGED <<state, erred>>
    \/ /\ run[r].phase = "final"
       /\ FinalCheck(r, exit)

\* A poll finds the job finished.
PollJob(r) ==
    /\ At(r, "wait")
    /\ \/ job[r].status = "completed" /\ PhaseEnds(r, job[r].exit)
       \/ job[r].status = "failed" /\ JobError(r)
    /\ Forget(r)
    /\ UNCHANGED <<config, registered, activeReconciles, inbox, outbox,
                   verified>>

GetJobFails(r) ==
    /\ At(r, "wait")
    /\ "store_error" \in Env
    /\ JobError(r)
    /\ Forget(r)
    /\ UNCHANGED <<config, registered, activeReconciles, inbox, outbox,
                   verified>>

\* Nothing is left that could finish the job.
Hopeless(r) ==
    /\ job[r].status \in {"queued", "running"}
    /\ <<r, run[r].phase>> \notin inbox
    /\ \A o \in outbox : <<o[1], o[2]>> # <<r, run[r].phase>>

WaitTimeoutIfFailed(r) ==
    /\ At(r, "wait")
    /\ job[r].status = "failed"
    /\ JobError(r)
    /\ Forget(r)
    /\ UNCHANGED <<config, registered, activeReconciles, inbox, outbox,
                   verified>>
\* 30 s have passed.  Agents are faster than that without "timeout".
WaitTimeout(r) ==
    /\ At(r, "wait")
    /\ "timeout" \in Env \/ Hopeless(r)
    /\ JobError(r)
    /\ Forget(r)
    /\ UNCHANGED <<config, registered, activeReconciles, inbox, outbox,
                   verified>>

-----------------------------------------------------------------------------
(* The agents, as the control plane uses them. *)

\* A check compares the node with the spec of the run; an apply brings the
\* node there or not.  Either may fail to run.
ExecuteJob(r, ph) ==
    LET s == run[r].state
        spec == run[r].copy.spec
        version == run[r].copy.version
        Done(res) == outbox' = outbox \cup {<<r, ph, res>>}
    IN  /\ <<r, ph>> \in inbox
        /\ inbox' = inbox \ {<<r, ph>>}
        /\ \/ Done("error") /\ UNCHANGED <<config, verified>>
           \/ /\ ph = "apply"
              /\ Done("match")
              /\ config' \in {config, [config EXCEPT ![s] = spec]}
              /\ UNCHANGED verified
           \/ /\ ph # "apply"
              /\ config[s] = spec
              /\ Done("match")
              /\ verified' = verified \cup {<<s, spec, version>>}
              /\ UNCHANGED config
           \/ /\ ph # "apply"
              /\ config[s] # spec
              /\ Done("differ")
              /\ UNCHANGED <<config, verified>>
        /\ UNCHANGED <<state, registered, run, activeReconciles, job, erred>>

\* handleJobResult.
JobResult(r, ph, res) ==
    /\ <<r, ph, res>> \in outbox
    /\ outbox' = outbox \ {<<r, ph, res>>}
    /\ IF res = "error" THEN UpdateJobStatus(r, ph, "failed", "none")
       ELSE UpdateJobStatus(r, ph, "completed", res)
    /\ UNCHANGED <<state, config, registered, run, activeReconciles, inbox,
                   verified, erred>>

\* The result does not arrive, or is answered 500 and not sent again.
ResultLost(r, ph, res) ==
    /\ Env \cap {"lossy", "store_error"} # {}
    /\ <<r, ph, res>> \in outbox
    /\ outbox' = outbox \ {<<r, ph, res>>}
    /\ UNCHANGED <<state, config, registered, run, activeReconciles, job,
                   inbox, verified, erred>>

Drift(s) ==
    /\ "drift" \in Env
    /\ config' = [config EXCEPT ![s] = 0]
    /\ UNCHANGED <<state, registered, run, activeReconciles, job, inbox,
                   outbox, verified, erred>>

-----------------------------------------------------------------------------
\* What a run does without the store failing (the failures of GetState and
\* GetAgent are alternatives there to an answer that is always possible).
Advance(r) ==
    \/ GetState(r)
    \/ AcquireLock(r)
    \/ AgentBusy(r)
    \/ GetAgent(r)
    \/ RunApply(r)
    \/ CreateJob(r)
    \/ DispatchFails(r)
    \/ DispatchAccepted(r)
    \/ MarkRunning(r)
    \/ PollJob(r)
    \/ WaitTimeout(r)
    \/ ReleaseLock(r)

RunStep(r) == Advance(r) \/ CreateJobFails(r) \/ GetJobFails(r)

AgentStep ==
    \/ \E j \in inbox : ExecuteJob(j[1], j[2])
    \/ \E o \in outbox :
        JobResult(o[1], o[2], o[3]) \/ ResultLost(o[1], o[2], o[3])

Next ==
    \/ \E r \in Run :
        \/ RunStep(r)
        \/ CancelRun(r)
        \/ \E s \in State : ScheduledRun(r, s)
        \/ \E s \in State, v \in Versions : CreateState(r, s, v)
    \/ AgentStep
    \/ \E a \in Agent : RegisterAgent(a)
    \/ \E s \in State : Drift(s)

Spec == Init /\ [][Next]_vars

\* Goroutines keep running, timers fire, and agents finish what they have;
\* no run has to wait for the store to fail.
FairSpec == Spec /\ WF_vars(AgentStep) /\ \A r \in Run : WF_vars(Advance(r))

-----------------------------------------------------------------------------
(* Properties. *)

Locked(r) == run[r].pc \notin {"none", "get_state", "lock", "done"}

(* "Enforce one reconciliation per agent": the lock table says exactly     *)
(* which agents have a run past acquireLock, and there is one per agent.   *)
(* A run turned away does not release the lock of the run that has it.     *)
LockExclusive ==
    \A a \in Agent :
        Cardinality({r \in Run : Locked(r) /\ Node(r) = a})
            = (IF a \in activeReconciles THEN 1 ELSE 0)

(* A state that is reported compliant was found so by a check made for the *)
(* version that is stored, of the stored spec or of one that it replaced   *)
(* under the same version: a run that goes on with the copy of a state     *)
(* that was replaced does not report the new one compliant, provided the   *)
(* client gave the new one another version.                                *)
CompliantVerified ==
    \A s \in State :
        state[s].status = "compliant"
            => \E n \in 1..state[s].spec :
                   <<s, n, state[s].version>> \in verified

(* A run that had the lock and was not cancelled has settled its state by  *)
(* the time it lets go: the store says compliant or failed, and what the   *)
(* run itself concluded.  No job error, lost message, timeout or phase     *)
(* leaves it pending, drifted or applying, which nothing would pick up     *)
(* before the next change of leader.  The exceptions are a state replaced  *)
(* during the run and a run whose last call of GetAgent or                 *)
(* UpdateStateStatus failed in the store; a later update makes good an     *)
(* earlier one that failed.                                                *)
SettledOnReturn ==
    \A r \in Run :
        LET s == run[r].state
        IN  /\ run[r].pc = "return"
            /\ ~Cancelled(r)
            /\ r \notin erred
            /\ run[r].copy.spec = state[s].spec
            => /\ state[s].status = run[r].copy.status
               /\ state[s].status \in {"compliant", "failed"}

(* Every run ends and lets go of its agent, whatever agents and network    *)
(* do.                                                                     *)
RunsEnd == \A r \in Run : run[r].pc = "get_state" ~> run[r].pc = "done"
=============================================================================
