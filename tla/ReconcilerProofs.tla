-------------------------- MODULE ReconcilerProofs --------------------------
(***************************************************************************)
(* Proofs about Reconciler for any number of states, agents, runs and      *)
(* replacements of a state and for every environment: types, the agent     *)
(* lock, what compliant means, and that error paths settle the state.      *)
(***************************************************************************)
EXTENDS Reconciler, FiniteSetTheorems, TLAPS

USE ReconcilerAssumption

PCs == {"none", "get_state", "lock", "get_agent", "create_job", "dispatch",
        "accepted", "wait", "apply", "return", "done"}
Ctx == {"background", "fenced", "cancelled"}

-----------------------------------------------------------------------------
(* Types, and what a run has read. *)

\* Run r has a copy of its state.
Has(r) == run[r].copy.spec # 0

\* Run r is beyond the reading of its state and not at its end.
Under(r) == run[r].pc \notin {"none", "get_state", "done"}

\* Only states that were created are reconciled; a run has read its state
\* before it does anything about it, and it has the stored version as long as
\* the state is not replaced; jobs belong to runs that have read their state.
CopyInv ==
    /\ \A s \in State : state[s].spec = 0 => state[s] = NoState
    /\ \A r \in Run :
        /\ run[r].pc # "none" => state[run[r].state].spec # 0
        /\ Under(r) => Has(r)
        /\ Has(r) =>
            /\ run[r].pc \notin {"none", "get_state"}
            /\ run[r].copy.spec <= state[run[r].state].spec
            /\ run[r].copy.spec = state[run[r].state].spec
                   => run[r].copy.version = state[run[r].state].version
    /\ \A r \in Run, ph \in Phase : <<r, ph>> \in inbox => Has(r)

\* A job is known while its run is between CreateJob and the end of waitForJob.
Waits(r) == run[r].pc \in {"dispatch", "accepted", "wait"}

TypeInv == TypeOK /\ CopyInv


LEMMA TypeInit == Init => TypeInv
  <1> SUFFICES ASSUME Init PROVE TypeInv
    OBVIOUS
  <1>1. (CHOOSE s \in State : TRUE) \in State
    OBVIOUS
  <1>2. NoState \in StoredState
    BY DEF NoState, StoredState, Statuses
  <1>3. run \in [Run -> RunRecord]
    BY <1>1, <1>2 DEF Init, NoRun, RunRecord, Phase
  <1>4. job \in [Run -> JobRecord]
    BY DEF Init, NoJob, JobRecord
  <1>5. TypeOK
    BY <1>2, <1>3, <1>4 DEF Init, TypeOK
  <1>6. CopyInv
    BY <1>1 DEF Init, CopyInv, NoRun, NoState, Under, Has
  <1> QED
    BY <1>5, <1>6 DEF TypeInv

(* Updates of the records of runs and states.                              *)
LEMMA RunUpdates ==
    ASSUME NEW x \in RunRecord, NEW st \in Statuses, NEW pc \in PCs,
           NEW ph \in Phase
    PROVE  /\ [x EXCEPT !.copy.status = st, !.pc = pc] \in RunRecord
           /\ [x EXCEPT !.copy.status = st, !.pc = pc, !.phase = ph]
                  \in RunRecord
           /\ [x EXCEPT !.phase = ph, !.pc = pc] \in RunRecord
  BY DEF RunRecord, StoredState, PCs

LEMMA UpdateStatusType ==
    ASSUME TypeOK, NEW r \in Run, NEW st \in Statuses, UpdateStatus(r, st)
    PROVE  state' \in [State -> StoredState] /\ erred' \subseteq Run
  <1>1. run[r].state \in State
    BY DEF TypeOK, RunRecord
  <1>2. ASSUME NEW x \in StoredState PROVE [x EXCEPT !.status = st] \in StoredState
    BY DEF StoredState
  <1> QED
    BY <1>1, <1>2 DEF TypeOK, UpdateStatus

(* A status is written to the store and to the run's copy of the state.    *)
LEMMA SetStatusType ==
    ASSUME TypeOK, NEW r \in Run, NEW st \in Statuses, NEW pc \in PCs,
           SetStatus(r, st, pc)
    PROVE  /\ state' \in [State -> StoredState]
           /\ run' \in [Run -> RunRecord]
           /\ erred' \subseteq Run
  <1>1. run' \in [Run -> RunRecord]
    BY RunUpdates DEF TypeOK, SetStatus, Phase
  <1>2. state' \in [State -> StoredState] /\ erred' \subseteq Run
    BY UpdateStatusType DEF SetStatus
  <1> QED BY <1>1, <1>2

LEMMA UpdateJobType ==
    ASSUME TypeOK, NEW r \in Run, NEW ph \in Phase,
           NEW st \in {"running", "completed", "failed"},
           NEW exit \in {"none", "match", "differ"},
           UpdateJobStatus(r, ph, st, exit)
    PROVE  job' \in [Run -> JobRecord]
  BY DEF TypeOK, UpdateJobStatus, JobRecord

LEMMA TryUpdateJobType ==
    ASSUME TypeOK, NEW r \in Run, NEW ph \in Phase,
           NEW st \in {"running", "failed"}, TryUpdateJobStatus(r, ph, st)
    PROVE  job' \in [Run -> JobRecord]
  <1>1. CASE UpdateJobStatus(r, ph, st, "none")
    BY <1>1, UpdateJobType
  <1>2. CASE UNCHANGED job
    BY <1>2 DEF TypeOK
  <1> QED BY <1>1, <1>2 DEF TryUpdateJobStatus

LEMMA TypeStep == TypeInv /\ [Next]_vars => TypeOK'
  <1> SUFFICES ASSUME TypeInv, [Next]_vars PROVE TypeOK'
    OBVIOUS
  <1> USE DEF TypeInv, TypeOK
  <1>1. ASSUME NEW r \in Run, NEW s \in State, NEW v \in Versions,
               CreateState(r, s, v)
        PROVE  TypeOK'
    <2>1. run' \in [Run -> RunRecord]
      BY <1>1 DEF CreateState, StartRun, RunRecord
    <2>2. state' \in [State -> StoredState]
      BY <1>1 DEF CreateState, StoredState, Statuses
    <2> QED BY <1>1, <2>1, <2>2 DEF CreateState
  <1>2. ASSUME NEW r \in Run, NEW s \in State, ScheduledRun(r, s)
        PROVE  TypeOK'
    <2>1. run' \in [Run -> RunRecord]
      BY <1>2 DEF ScheduledRun, StartRun, RunRecord
    <2> QED BY <1>2, <2>1 DEF ScheduledRun
  <1>3. ASSUME NEW r \in Run, CancelRun(r) PROVE TypeOK'
    <2>1. run' \in [Run -> RunRecord]
      BY <1>3 DEF CancelRun, RunRecord
    <2> QED BY <1>3, <2>1 DEF CancelRun
  <1>4. ASSUME NEW a \in Agent, RegisterAgent(a) PROVE TypeOK'
    BY <1>4 DEF RegisterAgent
  <1>5. ASSUME NEW s \in State, Drift(s) PROVE TypeOK'
    BY <1>5 DEF Drift
  <1>6. ASSUME NEW r \in Run, RunStep(r) PROVE TypeOK'
    <2>1. ASSUME NEW pc \in PCs, Goto(r, pc) PROVE run' \in [Run -> RunRecord]
      BY <2>1 DEF Goto, RunRecord, PCs
    <2> USE DEF PCs
    <2>2. CASE GetState(r)
      <3>1. run' \in [Run -> RunRecord]
        <4>1. CASE Goto(r, "done")
          BY <4>1, <2>1
        <4>2. state[run[r].state] \in StoredState
          BY DEF RunRecord
        <4>3. CASE run' = [run EXCEPT ![r] =
                              [@ EXCEPT !.copy = state[run[r].state],
                                        !.pc = "lock"]]
          BY <4>2, <4>3 DEF RunRecord
        <4> QED BY <2>2, <4>1, <4>3 DEF GetState
      <3> QED BY <2>2, <3>1 DEF GetState
    <2>3. CASE AcquireLock(r) \/ AgentBusy(r) \/ ReleaseLock(r)
      <3>1. run' \in [Run -> RunRecord]
        BY <2>1, <2>3 DEF AcquireLock, AgentBusy, ReleaseLock
      <3>2. Node(r) \in Agent
        BY DEF Node, RunRecord
      <3> QED BY <2>3, <3>1, <3>2 DEF AcquireLock, AgentBusy, ReleaseLock
    <2>4. CASE GetAgent(r)
      <3>1. /\ state' \in [State -> StoredState]
            /\ run' \in [Run -> RunRecord]
            /\ erred' \subseteq Run
        BY <2>1, <2>4, SetStatusType DEF GetAgent, Statuses
      <3> QED BY <3>1, <2>4 DEF GetAgent
    <2>5. CASE RunApply(r)
      <3>1. state' \in [State -> StoredState] /\ erred' \subseteq Run
        BY <2>5, UpdateStatusType DEF RunApply, Statuses
      <3>2. run' \in [Run -> RunRecord]
        <4>1. ASSUME NEW ph \in Phase,
                     run' = [run EXCEPT ![r] =
                                [@ EXCEPT !.copy.status = "applying",
                                          !.pc = "create_job",
                                          !.phase = ph]]
              PROVE  run' \in [Run -> RunRecord]
          BY <4>1, RunUpdates DEF Statuses
        <4> QED BY <2>1, <2>5, <4>1 DEF RunApply, ShadowPhase, Phase
      <3> QED BY <3>1, <3>2, <2>5 DEF RunApply
    <2>7. run[r].phase \in Phase
      BY DEF RunRecord
    <2>8. CASE CreateJob(r)
      <3>1. run' \in [Run -> RunRecord]
        BY <2>8, <2>1 DEF CreateJob
      <3>2. job' \in [Run -> JobRecord]
        BY <2>8, <2>7 DEF CreateJob, JobRecord
      <3> QED BY <2>8, <3>1, <3>2 DEF CreateJob
    <2>9. CASE DispatchFails(r) \/ DispatchAccepted(r) \/ MarkRunning(r)
      <3>1. run' \in [Run -> RunRecord]
        BY <2>9, <2>1 DEF DispatchFails, DispatchAccepted, MarkRunning
      <3>2. job' \in [Run -> JobRecord]
        BY <2>9, TryUpdateJobType, <2>7 DEF DispatchFails, DispatchAccepted, MarkRunning
      <3>3. inbox' \subseteq Run \X Phase
        BY <2>9, <2>7 DEF DispatchFails, DispatchAccepted, MarkRunning
      <3> QED BY <2>9, <3>1, <3>2, <3>3
              DEF DispatchFails, DispatchAccepted, MarkRunning
    <2>10. CASE PollJob(r) \/ WaitTimeout(r) \/ CreateJobFails(r)
                \/ GetJobFails(r)
      <3>1. /\ state' \in [State -> StoredState]
            /\ run' \in [Run -> RunRecord]
            /\ erred' \subseteq Run
        <4>1. CASE JobError(r) \/ \E exit : FinalCheck(r, exit)
          BY <4>1, SetStatusType DEF JobError, FinalCheck, Statuses
        <4>2. CASE SetStatus(r, "drifted", "apply")
                   \/ SetStatus(r, "compliant", "return")
          BY <4>2, SetStatusType DEF Statuses
        <4>3. CASE run' = [run EXCEPT ![r] = [@ EXCEPT !.phase = "final",
                                                       !.pc = "create_job"]]
                   /\ UNCHANGED <<state, erred>>
          BY <4>3, RunUpdates DEF Statuses, Phase
        <4> QED BY <2>10, <4>1, <4>2, <4>3
                DEF PollJob, WaitTimeout, CreateJobFails, GetJobFails, PhaseEnds
      <3>2. job' \in [Run -> JobRecord]
        BY <2>10 DEF PollJob, WaitTimeout, CreateJobFails, GetJobFails, Forget,
             NoJob, JobRecord
      <3> QED BY <3>1, <3>2, <2>10
              DEF PollJob, WaitTimeout, CreateJobFails, GetJobFails
    <2> QED
      BY <1>6, <2>2, <2>3, <2>4, <2>5, <2>8, <2>9, <2>10
      DEF RunStep, Advance
  <1>7. ASSUME NEW r \in Run, NEW ph \in Phase, ExecuteJob(r, ph) PROVE TypeOK'
    <2>1. Has(r)
      BY <1>7 DEF ExecuteJob, CopyInv
    <2>2. /\ run[r].copy.spec \in 1..MaxSpec
          /\ run[r].copy.version \in Versions \cup {0}
          /\ run[r].state \in State
      BY <2>1 DEF Has, StoredState, RunRecord
    <2>3. config' \in [State -> 0..MaxSpec]
      BY <1>7, <2>2 DEF ExecuteJob
    <2>4. outbox' \subseteq Run \X Phase \X {"match", "differ", "error"}
      BY <1>7 DEF ExecuteJob
    <2>5. verified' \subseteq State \X (1..MaxSpec) \X (Versions \cup {0})
      BY <1>7, <2>2 DEF ExecuteJob
    <2> QED
      BY <1>7, <2>3, <2>4, <2>5 DEF ExecuteJob
  <1>8. ASSUME NEW r \in Run, NEW ph \in Phase,
               NEW res \in {"match", "differ", "error"},
               JobResult(r, ph, res) \/ ResultLost(r, ph, res)
        PROVE  TypeOK'
    <2>1. job' \in [Run -> JobRecord]
      <3>1. CASE res = "error" /\ JobResult(r, ph, res)
        BY <3>1, UpdateJobType DEF JobResult
      <3>2. CASE res # "error" /\ JobResult(r, ph, res)
        <4>1. /\ res \in {"none", "match", "differ"}
              /\ UpdateJobStatus(r, ph, "completed", res)
          BY <3>2 DEF JobResult
        <4> QED BY <4>1, UpdateJobType
      <3>3. CASE ResultLost(r, ph, res)
        BY <3>3 DEF ResultLost
      <3> QED BY <1>8, <3>1, <3>2, <3>3
    <2> QED BY <1>8, <2>1 DEF JobResult, ResultLost
  <1>9. CASE UNCHANGED vars
    BY <1>9 DEF vars
  <1>10. CASE AgentStep
    <2>1. ASSUME NEW j \in inbox PROVE j[1] \in Run /\ j[2] \in Phase
      OBVIOUS
    <2>2. ASSUME NEW o \in outbox
          PROVE  /\ o[1] \in Run /\ o[2] \in Phase
                 /\ o[3] \in {"match", "differ", "error"}
      OBVIOUS
    <2> QED BY <1>7, <1>8, <1>10, <2>1, <2>2 DEF AgentStep
  <1> QED
    BY <1>1, <1>2, <1>3, <1>4, <1>5, <1>6, <1>9, <1>10 DEF Next

-----------------------------------------------------------------------------
(* What a step of a run changes. *)

\* Of run q, the state, the context and the copy but for its status are kept.
KeepsCopy(q) ==
    /\ run'[q].state = run[q].state
    /\ run'[q].ctx = run[q].ctx
    /\ run'[q].copy.spec = run[q].copy.spec
    /\ run'[q].copy.version = run[q].copy.version

\* Run r moves from one place to another, and no other run changes.
Moves(r, to) ==
    /\ run'[r].pc = to
    /\ run'[r].state = run[r].state
    /\ run'[r].ctx = run[r].ctx
    /\ \A q \in Run \ {r} : run'[q] = run[q]

\* Stored states keep their specs and versions, and all but s keep everything.
OnlyStatus(s) ==
    /\ \A u \in State : /\ state'[u].spec = state[u].spec
                        /\ state'[u].version = state[u].version
    /\ \A u \in State \ {s} : state'[u] = state[u]

\* UpdateStateStatus of run r: nothing, or the status under the run's version;
\* nothing but a version that differs keeps a call that did not fail from
\* writing.
Written(r, st) ==
    LET s == run[r].state
    IN  /\ \/ state' = state
           \/ /\ state[s].version = run[r].copy.version
              /\ state'[s].status = st
        /\ r \notin erred' /\ state[s].version = run[r].copy.version
               => state'[s].status = st
        /\ \A q \in Run \ {r} : q \in erred' <=> q \in erred

LEMMA GotoMoves ==
    ASSUME TypeOK, NEW r \in Run, NEW pc, Goto(r, pc)
    PROVE  Moves(r, pc) /\ KeepsCopy(r)
  BY DEF TypeOK, Goto, Moves, KeepsCopy, RunRecord

LEMMA UpdateStatusEffect ==
    ASSUME TypeOK, NEW r \in Run, NEW st \in Statuses, UpdateStatus(r, st)
    PROVE  /\ OnlyStatus(run[r].state)
           /\ Written(r, st)
  <1> DEFINE s == run[r].state
  <1>1. s \in State
    BY DEF TypeOK, RunRecord
  <1>2. CASE /\ state[s].version # run[r].copy.version
             /\ UNCHANGED <<state, erred>>
    BY <1>2 DEF OnlyStatus, Written
  <1>3. CASE /\ state[s].version = run[r].copy.version
             /\ state' = [state EXCEPT ![s].status = st]
             /\ erred' = erred \ {r}
    BY <1>1, <1>3 DEF OnlyStatus, Written, TypeOK, StoredState
  <1>4. CASE UNCHANGED state /\ erred' = erred \cup {r}
    BY <1>4 DEF OnlyStatus, Written
  <1> QED BY <1>2, <1>3, <1>4 DEF UpdateStatus

LEMMA SetStatusEffect ==
    ASSUME TypeOK, NEW r \in Run, NEW st \in Statuses, NEW pc \in PCs,
           SetStatus(r, st, pc)
    PROVE  /\ Moves(r, pc)
           /\ KeepsCopy(r)
           /\ run'[r].copy.status = st
           /\ OnlyStatus(run[r].state)
           /\ Written(r, st)
  <1>1. run' = [run EXCEPT ![r] = [@ EXCEPT !.copy.status = st, !.pc = pc]]
    BY DEF SetStatus
  <1>2. Moves(r, pc) /\ KeepsCopy(r) /\ run'[r].copy.status = st
    BY <1>1 DEF TypeOK, Moves, KeepsCopy, RunRecord, StoredState
  <1> QED BY <1>2, UpdateStatusEffect DEF SetStatus

\* Where a run may go from where it is.
Successors(pc) ==
    CASE pc = "get_state" -> {"lock", "done"}
      [] pc = "lock" -> {"get_agent", "done"}
      [] pc = "get_agent" -> {"create_job", "return"}
      [] pc = "create_job" -> {"dispatch", "return"}
      [] pc = "dispatch" -> {"accepted", "wait"}
      [] pc = "accepted" -> {"wait"}
      [] pc = "wait" -> {"return", "apply", "create_job"}
      [] pc = "apply" -> {"create_job", "return"}
      [] pc = "return" -> {"done"}
      [] OTHER -> {}

(* A step of a run, GetState aside, changes nothing of other runs, nothing *)
(* of the run but its place and the status in its copy, and nothing in the *)
(* store but the status of its state, and that only past acquireLock.      *)
LEMMA RunFrame ==
    ASSUME TypeOK, NEW r \in Run, RunStep(r)
    PROVE  /\ Moves(r, run'[r].pc)
           /\ run'[r].pc \in Successors(run[r].pc)
           /\ GetState(r) \/ KeepsCopy(r)
           /\ OnlyStatus(run[r].state)
           /\ \/ state' = state
              \/ run[r].pc \in {"get_agent", "create_job", "wait", "apply"}
           /\ \A q \in Run \ {r} : q \in erred' <=> q \in erred
  <1> USE DEF Successors, At
  <1>1. state' = state => OnlyStatus(run[r].state)
    BY DEF OnlyStatus
  <1>2. CASE GetState(r)
    <2>1. state' = state /\ erred' = erred /\ run[r].pc = "get_state"
      BY <1>2 DEF GetState
    <2>2. \/ Moves(r, "done")
          \/ Moves(r, "lock")
      <3>1. CASE Goto(r, "done")
        BY <3>1, GotoMoves
      <3>2. CASE run' = [run EXCEPT ![r] =
                            [@ EXCEPT !.copy = state[run[r].state],
                                      !.pc = "lock"]]
        BY <3>2 DEF TypeOK, RunRecord, Moves
      <3> QED BY <1>2, <3>1, <3>2 DEF GetState
    <2> QED BY <1>1, <1>2, <2>1, <2>2 DEF Moves
  <1>3. CASE AcquireLock(r) \/ AgentBusy(r) \/ ReleaseLock(r) \/ CreateJob(r)
             \/ DispatchFails(r) \/ DispatchAccepted(r) \/ MarkRunning(r)
    <2>1. state' = state /\ (erred' = erred \/ erred' = erred \ {r})
      BY <1>3 DEF AcquireLock, AgentBusy, ReleaseLock, CreateJob, DispatchFails,
                  DispatchAccepted, MarkRunning
    <2>2. \E pc \in Successors(run[r].pc) : Goto(r, pc)
      BY <1>3 DEF AcquireLock, AgentBusy, ReleaseLock, CreateJob, DispatchFails,
                  DispatchAccepted, MarkRunning
    <2> QED BY <1>1, <2>1, <2>2, GotoMoves DEF Moves
  <1>4. CASE GetAgent(r)
    <2>1. run[r].pc = "get_agent"
      BY <1>4 DEF GetAgent
    <2>2. \/ /\ \E pc \in {"return", "create_job"} : Goto(r, pc)
             /\ state' = state
             /\ erred' = erred \/ erred' = erred \cup {r}
          \/ SetStatus(r, "failed", "return")
      BY <1>4 DEF GetAgent
    <2>3. CASE SetStatus(r, "failed", "return")
      BY <2>1, <2>3, SetStatusEffect DEF Moves, Statuses, PCs, Written
    <2>4. CASE /\ \E pc \in {"return", "create_job"} : Goto(r, pc)
               /\ state' = state
               /\ erred' = erred \/ erred' = erred \cup {r}
      BY <1>1, <2>1, <2>4, GotoMoves DEF Moves
    <2> QED BY <2>2, <2>3, <2>4
  <1>5. CASE RunApply(r)
    <2>1. run[r].pc = "apply"
      BY <1>5 DEF RunApply
    <2>2. CASE Goto(r, "return") /\ UNCHANGED <<state, erred>>
      BY <1>1, <2>1, <2>2, GotoMoves DEF Moves
    <2>3. ASSUME NEW ph, UpdateStatus(r, "applying"),
                 run' = [run EXCEPT ![r] =
                            [@ EXCEPT !.copy.status = "applying",
                                      !.pc = "create_job",
                                      !.phase = ph]]
          PROVE  /\ Moves(r, "create_job") /\ KeepsCopy(r)
                 /\ OnlyStatus(run[r].state)
                 /\ \A q \in Run \ {r} : q \in erred' <=> q \in erred
      <3>1. Moves(r, "create_job") /\ KeepsCopy(r)
        BY <2>3 DEF TypeOK, Moves, KeepsCopy, RunRecord, StoredState
      <3> QED BY <2>3, <3>1, UpdateStatusEffect DEF Statuses, Written
    <2> QED BY <1>5, <2>1, <2>2, <2>3 DEF RunApply, Moves
  <1>6. CASE PollJob(r) \/ WaitTimeout(r) \/ CreateJobFails(r) \/ GetJobFails(r)
    <2>1. /\ run[r].pc \in {"wait", "create_job"}
          /\ run[r].pc = "create_job" => JobError(r)
      BY <1>6 DEF PollJob, WaitTimeout, CreateJobFails, GetJobFails
    <2>2. ASSUME NEW st \in Statuses, NEW pc \in {"return", "apply"},
                 SetStatus(r, st, pc)
          PROVE  /\ Moves(r, pc) /\ KeepsCopy(r) /\ OnlyStatus(run[r].state)
                 /\ \A q \in Run \ {r} : q \in erred' <=> q \in erred
      BY <2>2, SetStatusEffect DEF PCs, Written
    <2>3. CASE JobError(r)
      <3>1. SetStatus(r, "failed", "return")
        BY <2>3 DEF JobError
      <3> QED BY <2>1, <2>2, <3>1 DEF Moves, Statuses
    <2>4. ASSUME NEW st \in Statuses, NEW pc \in {"return", "apply"},
                 SetStatus(r, st, pc), run[r].pc = "wait"
          PROVE  /\ Moves(r, run'[r].pc)
                 /\ run'[r].pc \in Successors(run[r].pc)
                 /\ KeepsCopy(r) /\ OnlyStatus(run[r].state)
                 /\ \A q \in Run \ {r} : q \in erred' <=> q \in erred
      BY <2>2, <2>4 DEF Moves
    <2>5. CASE run' = [run EXCEPT ![r] = [@ EXCEPT !.phase = "final",
                                                   !.pc = "create_job"]]
               /\ UNCHANGED <<state, erred>> /\ run[r].pc = "wait"
      <3>1. Moves(r, "create_job") /\ KeepsCopy(r)
        BY <2>5 DEF TypeOK, Moves, KeepsCopy, RunRecord
      <3> QED BY <3>1, <2>5, <1>1 DEF Moves
    <2>6. \/ JobError(r)
          \/ run[r].pc = "wait"
             /\ \E st \in Statuses, pc \in {"return", "apply"} :
                    SetStatus(r, st, pc)
          \/ run' = [run EXCEPT ![r] = [@ EXCEPT !.phase = "final",
                                                 !.pc = "create_job"]]
             /\ UNCHANGED <<state, erred>> /\ run[r].pc = "wait"
      BY <1>6 DEF PollJob, WaitTimeout, CreateJobFails, GetJobFails, PhaseEnds,
           FinalCheck, Statuses
    <2> QED BY <2>1, <2>3, <2>4, <2>5, <2>6
  <1> QED BY <1>2, <1>3, <1>4, <1>5, <1>6 DEF RunStep, Advance

\* A run that starts: nothing changes of the others, and it has read nothing.
LEMMA StartFrame ==
    ASSUME TypeInv, NEW r \in Run, NEW s \in State,
           NEW ctx \in {"background", "fenced"}, StartRun(r, s, ctx)
    PROVE  /\ run[r].pc = "none" /\ run'[r].pc = "get_state"
           /\ run'[r].state = s
           /\ run'[r].copy = run[r].copy
           /\ run[r].copy.spec = 0
           /\ \A q \in Run \ {r} : run'[q] = run[q]
  BY DEF StartRun, At, TypeInv, TypeOK, RunRecord, CopyInv, Has

\* A run that loses its context keeps everything else.
LEMMA CancelFrame ==
    ASSUME TypeOK, NEW r \in Run, CancelRun(r)
    PROVE  \A q \in Run : /\ run'[q].pc = run[q].pc
                          /\ run'[q].state = run[q].state
                          /\ run'[q].copy = run[q].copy
                          /\ run'[q].phase = run[q].phase
                          /\ run'[q].ctx \in {run[q].ctx, "cancelled"}
  BY DEF CancelRun, TypeOK, RunRecord

\* Agents and the network do not touch runs, locks or stored states.
LEMMA AgentFrame ==
    ASSUME AgentStep \/ (\E a \in Agent : RegisterAgent(a))
           \/ (\E s \in State : Drift(s)) \/ UNCHANGED vars
    PROVE  /\ run' = run /\ state' = state /\ erred' = erred
           /\ activeReconciles' = activeReconciles
           /\ inbox' \subseteq inbox
  BY DEF AgentStep, ExecuteJob, JobResult, ResultLost, RegisterAgent, Drift, vars

-----------------------------------------------------------------------------
(* Copies. *)

LEMMA CopyStep == TypeInv /\ [Next]_vars => CopyInv'
  <1> SUFFICES ASSUME TypeInv, [Next]_vars PROVE CopyInv'
    OBVIOUS
  <1> USE DEF Has, Under
  <1>t. /\ TypeOK /\ CopyInv /\ TypeOK'
        /\ \A r \in Run : run[r].state \in State /\ run'[r].state \in State
        /\ \A s \in State : state[s].spec \in Nat /\ state'[s].spec \in Nat
        /\ \A r \in Run : run[r].copy.spec \in Nat /\ run'[r].copy.spec \in Nat
    BY TypeStep DEF TypeInv, TypeOK, RunRecord, StoredState
  <1>1. ASSUME NEW r \in Run, NEW s \in State, NEW v \in Versions,
               CreateState(r, s, v)
        PROVE  CopyInv'
    <2>1. /\ StartRun(r, s, "background")
          /\ state' = [state EXCEPT ![s] = [spec |-> state[s].spec + 1,
                                            version |-> v,
                                            status |-> "pending"]]
          /\ inbox' = inbox
      BY <1>1 DEF CreateState
    <2>2. /\ state'[s].spec = state[s].spec + 1
          /\ \A u \in State \ {s} : state'[u] = state[u]
      BY <2>1 DEF TypeInv, TypeOK
    <2> QED BY <1>t, <2>1, <2>2, StartFrame DEF CopyInv
  <1>2. ASSUME NEW r \in Run, NEW s \in State, ScheduledRun(r, s)
        PROVE  CopyInv'
    <2>1. /\ StartRun(r, s, "fenced") /\ state' = state /\ inbox' = inbox
          /\ state[s].spec # 0
      BY <1>2, <1>t DEF ScheduledRun, CopyInv
    <2> QED BY <1>t, <2>1, StartFrame DEF CopyInv
  <1>3. ASSUME NEW r \in Run, CancelRun(r) PROVE CopyInv'
    <2>1. state' = state /\ inbox' = inbox
      BY <1>3 DEF CancelRun
    <2> QED BY <1>3, <1>t, <2>1, CancelFrame DEF CopyInv
  <1>4. CASE AgentStep \/ (\E a \in Agent : RegisterAgent(a))
             \/ (\E s \in State : Drift(s)) \/ UNCHANGED vars
    BY <1>4, <1>t, AgentFrame DEF CopyInv
  <1>5. ASSUME NEW r \in Run, RunStep(r) PROVE CopyInv'
    <2>1. /\ Moves(r, run'[r].pc)
          /\ run'[r].pc \in Successors(run[r].pc)
          /\ GetState(r) \/ KeepsCopy(r)
          /\ OnlyStatus(run[r].state)
          /\ \/ state' = state
             \/ run[r].pc \in {"get_agent", "create_job", "wait", "apply"}
      BY <1>5, <1>t, RunFrame
    <2>2. /\ run'[r].pc \notin {"none", "get_state"}
          /\ run[r].pc \notin {"none", "done"}
      BY <2>1 DEF Successors
    <2>3. \A s \in State : state'[s].spec = 0 => state'[s] = NoState
      BY <1>t, <2>1, <2>2 DEF OnlyStatus, CopyInv
    <2>4. \A q \in Run : \A ph \in Phase :
              <<q, ph>> \in inbox' => <<q, ph>> \in inbox \/ (q = r /\ Has(r))
      <3>1. inbox' = inbox \/ (/\ run[r].pc = "dispatch"
                               /\ \E ph \in Phase : inbox' = inbox \cup {<<r, ph>>})
        BY <1>5, <1>t DEF RunStep, Advance, GetState, AcquireLock, AgentBusy, GetAgent,
             RunApply, CreateJob, DispatchFails, DispatchAccepted, MarkRunning,
             PollJob,
             WaitTimeout, CreateJobFails, GetJobFails, ReleaseLock, At, TypeOK, RunRecord
      <3> QED BY <3>1, <1>t DEF CopyInv
    <2>5. CASE GetState(r)
      <3>1. run[r].pc = "get_state" /\ state' = state /\ inbox' = inbox
        BY <2>5 DEF GetState, At
      <3>2. CASE Goto(r, "done")
        BY <1>t, <2>1, <3>1, <3>2, GotoMoves DEF CopyInv, Moves, KeepsCopy
      <3>3. CASE run' = [run EXCEPT ![r] =
                            [@ EXCEPT !.copy = state[run[r].state],
                                      !.pc = "lock"]]
        <4>1. run'[r].copy = state[run[r].state] /\ run'[r].pc = "lock"
          BY <1>t, <3>3 DEF TypeOK, RunRecord
        <4> QED BY <1>t, <2>1, <3>1, <4>1 DEF CopyInv, Moves
      <3> QED BY <2>5, <3>2, <3>3 DEF GetState
    <2>6. CASE KeepsCopy(r)
      <3>1. ASSUME NEW q \in Run
            PROVE  /\ run'[q].state = run[q].state
                   /\ run'[q].copy.spec = run[q].copy.spec
                   /\ run'[q].copy.version = run[q].copy.version
                   /\ q # r => run'[q].pc = run[q].pc
        BY <2>1, <2>6 DEF Moves, KeepsCopy
      <3>2. ASSUME NEW q \in Run
            PROVE  /\ state'[run[q].state].spec = state[run[q].state].spec
                   /\ state'[run[q].state].version = state[run[q].state].version
        BY <1>t, <2>1 DEF OnlyStatus
      <3>3. Under(r) \/ run[r].pc = "get_state"
        BY <2>2
      <3>4. run[r].pc = "get_state" => GetState(r)
        BY <1>5 DEF RunStep, Advance, At, GetState, AcquireLock, AgentBusy, GetAgent,
             RunApply, CreateJob, DispatchFails, DispatchAccepted, MarkRunning,
             PollJob,
             WaitTimeout, CreateJobFails, GetJobFails, ReleaseLock
      <3>5. Has(r) \/ GetState(r)
        BY <1>t, <3>3, <3>4 DEF CopyInv
      <3> QED BY <1>t, <2>2, <2>3, <2>4, <2>5, <3>1, <3>2, <3>5 DEF CopyInv
    <2> QED BY <2>1, <2>5, <2>6
  <1> QED
    BY <1>1, <1>2, <1>3, <1>4, <1>5 DEF Next

LEMMA TypeInvStep == TypeInv /\ [Next]_vars => TypeInv'
  BY TypeStep, CopyStep DEF TypeInv

(* Type correctness for any number of states, agents and runs; a check is  *)
(* only ever made for a state that was created.                            *)
THEOREM TypeCorrect == Spec => []TypeOK
  <1>1. TypeInv => TypeOK
    BY DEF TypeInv
  <1> QED
    BY <1>1, TypeInit, TypeInvStep, PTL DEF Spec

-----------------------------------------------------------------------------
(* The agent lock. *)

\* Runs past acquireLock have different agents, and these are the locked ones.
LockInv ==
    /\ \A r \in Run : Locked(r) => Node(r) \in activeReconciles
    /\ \A r, q \in Run : Locked(r) /\ Locked(q) /\ Node(r) = Node(q) => r = q
    /\ \A a \in activeReconciles : \E r \in Run : Locked(r) /\ Node(r) = a

LEMMA LockInit == Init => LockInv
  BY DEF Init, LockInv, Locked, NoRun

\* Nothing changes that the invariant is about.
LEMMA LockKept ==
    ASSUME LockInv, activeReconciles' = activeReconciles,
           \A q \in Run : /\ Locked(q)' <=> Locked(q)
                          /\ Locked(q) => run'[q].state = run[q].state
    PROVE  LockInv'
  BY DEF LockInv, Node

LEMMA LockStep == TypeInv /\ LockInv /\ [Next]_vars => LockInv'
  <1> SUFFICES ASSUME TypeInv, LockInv, [Next]_vars PROVE LockInv'
    OBVIOUS
  <1> USE DEF Locked
  <1>t. TypeOK
    BY DEF TypeInv
  <1>1. ASSUME NEW r \in Run, NEW s \in State,
               (\E v \in Versions : CreateState(r, s, v)) \/ ScheduledRun(r, s)
        PROVE  LockInv'
    <2>1. /\ \E ctx \in {"background", "fenced"} : StartRun(r, s, ctx)
          /\ activeReconciles' = activeReconciles
      BY <1>1 DEF CreateState, ScheduledRun
    <2> QED BY <2>1, StartFrame, LockKept
  <1>2. ASSUME NEW r \in Run, CancelRun(r) PROVE LockInv'
    <2>1. activeReconciles' = activeReconciles
      BY <1>2 DEF CancelRun
    <2> QED BY <1>2, <1>t, <2>1, CancelFrame, LockKept
  <1>3. CASE AgentStep \/ (\E a \in Agent : RegisterAgent(a))
             \/ (\E s \in State : Drift(s)) \/ UNCHANGED vars
    BY <1>3, AgentFrame, LockKept
  <1>4. ASSUME NEW r \in Run, RunStep(r) PROVE LockInv'
    <2>1. /\ Moves(r, run'[r].pc)
          /\ run'[r].pc \in Successors(run[r].pc)
      BY <1>4, <1>t, RunFrame
    <2>2. \A q \in Run : run'[q].state = run[q].state
      BY <2>1 DEF Moves
    <2>3. \A q \in Run \ {r} : run'[q].pc = run[q].pc
      BY <2>1 DEF Moves
    <2>4. CASE AcquireLock(r)
      <3>1. /\ run[r].pc = "lock" /\ run'[r].pc = "get_agent"
            /\ Node(r) \notin activeReconciles
            /\ activeReconciles' = activeReconciles \cup {Node(r)}
        BY <2>4, <1>t, GotoMoves DEF AcquireLock, At, Moves
      <3> QED BY <2>2, <2>3, <3>1 DEF LockInv, Node
    <2>5. CASE ReleaseLock(r)
      <3>1. /\ run[r].pc = "return" /\ run'[r].pc = "done"
            /\ activeReconciles' = activeReconciles \ {Node(r)}
        BY <2>5, <1>t, GotoMoves DEF ReleaseLock, At, Moves
      <3> QED BY <2>2, <2>3, <3>1 DEF LockInv, Node
    <2>6. CASE ~AcquireLock(r) /\ ~ReleaseLock(r)
      <3>1. activeReconciles' = activeReconciles
        BY <1>4, <2>6 DEF RunStep, Advance, GetState, AgentBusy, GetAgent, RunApply,
             CreateJob, DispatchFails, DispatchAccepted, MarkRunning, PollJob,
             WaitTimeout, CreateJobFails, GetJobFails
      <3>2. run[r].pc \in {"get_state", "lock"} => run'[r].pc \in {"lock", "done"}
        <4>1. CASE run[r].pc = "get_state"
          BY <2>1, <4>1 DEF Successors
        <4>2. CASE run[r].pc = "lock"
          <5>1. AgentBusy(r)
            BY <1>4, <2>6, <4>2 DEF RunStep, Advance, At, GetState, GetAgent, RunApply,
                 CreateJob, DispatchFails, DispatchAccepted, MarkRunning,
                 PollJob, WaitTimeout, CreateJobFails, GetJobFails
          <5> QED BY <5>1, <1>t, GotoMoves DEF AgentBusy, Moves
        <4> QED BY <4>1, <4>2
      <3>3. run[r].pc # "return"
        BY <1>4, <2>6 DEF RunStep, Advance, At, GetState, AcquireLock, AgentBusy,
             GetAgent, RunApply, CreateJob, DispatchFails, DispatchAccepted,
             MarkRunning, PollJob, WaitTimeout, CreateJobFails, GetJobFails
      <3>4. Locked(r)' <=> Locked(r)
        BY <2>1, <3>2, <3>3 DEF Successors
      <3> QED BY <2>2, <2>3, <3>1, <3>4, LockKept
    <2> QED BY <2>4, <2>5, <2>6
  <1> QED
    BY <1>1, <1>2, <1>3, <1>4 DEF Next

(* However many runs there are and whatever ends them, at most one per     *)
(* agent is past acquireLock, and the table holds exactly their agents.    *)
THEOREM LockIsExclusive == Spec => []LockExclusive
  <1>1. LockInv => LockExclusive
    <2> SUFFICES ASSUME LockInv, NEW a \in Agent
                 PROVE  Cardinality({r \in Run : Locked(r) /\ Node(r) = a})
                            = (IF a \in activeReconciles THEN 1 ELSE 0)
      BY DEF LockExclusive
    <2> DEFINE H == {r \in Run : Locked(r) /\ Node(r) = a}
    <2>1. CASE a \in activeReconciles
      <3>1. PICK r \in Run : Locked(r) /\ Node(r) = a
        BY <2>1 DEF LockInv
      <3>2. H = {r}
        BY <3>1 DEF LockInv
      <3> QED BY <2>1, <3>2, FS_Singleton
    <2>2. CASE a \notin activeReconciles
      <3>1. H = {}
        BY <2>2 DEF LockInv
      <3> QED BY <2>2, <3>1, FS_EmptySet
    <2> QED BY <2>1, <2>2
  <1> DEFINE Inv == TypeInv /\ LockInv
  <1>2. Init => Inv
    BY TypeInit, LockInit
  <1>3. Inv /\ [Next]_vars => Inv'
    BY TypeInvStep, LockStep
  <1>4. Inv => LockExclusive
    BY <1>1
  <1> QED
    BY <1>2, <1>3, <1>4, PTL DEF Spec

-----------------------------------------------------------------------------
(* What compliant means. *)

\* The spec that run r has read was found in force for the version it read.
Seen(r) == <<run[r].state, run[r].copy.spec, run[r].copy.version>> \in verified

\* A check that matches, on its way or recorded, was one of the run's spec;
\* results are those of runs that have read their state; no job is known of a
\* run that waits for none.
MatchInv ==
    \A r \in Run :
        /\ Waits(r) \/ job[r] = NoJob
        /\ \A ph \in Phase, res \in {"match", "differ", "error"} :
               <<r, ph, res>> \in outbox => Has(r)
        /\ \A ph \in Phase \ {"apply"} :
               <<r, ph, "match">> \in outbox => Seen(r)
        /\ run[r].phase # "apply" /\ job[r].exit = "match" => Seen(r)

LEMMA MatchInit == Init => MatchInv /\ CompliantVerified
  BY DEF Init, MatchInv, CompliantVerified, NoJob, NoState

\* Runs keep what they have read, and no new match appears.
LEMMA MatchKept ==
    ASSUME TypeInv, MatchInv, verified \subseteq verified',
           outbox' \subseteq outbox,
           \A q \in Run : Has(q) =>
               /\ run'[q].state = run[q].state
               /\ run'[q].copy.spec = run[q].copy.spec
               /\ run'[q].copy.version = run[q].copy.version,
           \A q \in Run : Waits(q)' \/ job'[q] = NoJob,
           \A q \in Run :
               job'[q].exit = "match" => /\ job[q].exit = "match"
                                         /\ run'[q].phase = run[q].phase
    PROVE  MatchInv'
  <1> SUFFICES ASSUME NEW r \in Run
               PROVE  /\ \A ph \in Phase, res \in {"match", "differ", "error"} :
                             <<r, ph, res>> \in outbox' => Has(r)'
                      /\ \A ph \in Phase \ {"apply"} :
                             <<r, ph, "match">> \in outbox' => Seen(r)'
                      /\ run'[r].phase # "apply" /\ job'[r].exit = "match"
                             => Seen(r)'
    BY DEF MatchInv
  <1>1. Has(r) => Has(r)'
    BY DEF Has
  <1>2. Has(r) /\ Seen(r) => Seen(r)'
    BY DEF Seen
  <1>3. \A ph \in Phase \ {"apply"} : <<r, ph, "match">> \in outbox => Has(r)
    BY DEF MatchInv
  <1>4. job[r].exit = "match" => Has(r)
    BY DEF MatchInv, TypeInv, CopyInv, Under, Waits, NoJob
  <1>5. \A ph \in Phase, res \in {"match", "differ", "error"} :
            <<r, ph, res>> \in outbox' => Has(r)'
    BY <1>1 DEF MatchInv
  <1>6. \A ph \in Phase \ {"apply"} : <<r, ph, "match">> \in outbox' => Seen(r)'
    BY <1>2, <1>3 DEF MatchInv
  <1>7. run'[r].phase # "apply" /\ job'[r].exit = "match" => Seen(r)'
    BY <1>2, <1>4 DEF MatchInv
  <1> QED BY <1>5, <1>6, <1>7

\* What a step of a run does to jobs: it creates its own, marks it failed or
\* running, or forgets it.
LEMMA JobFrame ==
    ASSUME TypeOK, MatchInv, NEW r \in Run, RunStep(r)
    PROVE  \A q \in Run :
             /\ Waits(q)' \/ job'[q] = NoJob
             /\ job'[q].exit = "match" => /\ job[q].exit = "match"
                                          /\ run'[q].phase = run[q].phase
  <1> DEFINE Goal(q) == /\ Waits(q)' \/ job'[q] = NoJob
                        /\ job'[q].exit = "match" =>
                              /\ job[q].exit = "match"
                              /\ run'[q].phase = run[q].phase
  <1> USE DEF Waits
  <1>1. run[r].phase \in Phase
    BY DEF TypeOK, RunRecord
  <1>2. ASSUME NEW q \in Run, q # r, job'[q] = job[q] PROVE Goal(q)
    BY <1>2, RunFrame DEF MatchInv, Moves
  <1>3. ASSUME NEW pc, Goto(r, pc)
        PROVE  run'[r].pc = pc /\ run'[r].phase = run[r].phase
    BY <1>3 DEF Goto, TypeOK, RunRecord
  <1>4. CASE CreateJob(r)
    <2>1. Goto(r, "dispatch")
      BY <1>4 DEF CreateJob
    <2>2. /\ job'[r].exit = "none"
          /\ \A q \in Run \ {r} : job'[q] = job[q]
      BY <1>4 DEF CreateJob, TypeOK
    <2> QED BY <1>2, <1>3, <2>1, <2>2
  <1>5. CASE DispatchFails(r) \/ MarkRunning(r)
    <2>1. Goto(r, "wait")
      BY <1>5 DEF DispatchFails, MarkRunning
    <2>2. \E st \in {"failed", "running"} :
              TryUpdateJobStatus(r, run[r].phase, st)
      BY <1>5 DEF DispatchFails, MarkRunning
    <2>3. /\ job'[r].exit = "match" => job[r].exit = "match"
          /\ \A q \in Run \ {r} : job'[q] = job[q]
      BY <2>2 DEF TryUpdateJobStatus, UpdateJobStatus, TypeOK, JobRecord
    <2> QED BY <1>2, <1>3, <2>1, <2>3
  <1>6. CASE DispatchAccepted(r)
    <2>1. Goto(r, "accepted") /\ job' = job
      BY <1>6 DEF DispatchAccepted
    <2> QED BY <1>2, <1>3, <2>1
  <1>7. CASE PollJob(r) \/ WaitTimeout(r) \/ GetJobFails(r)
    <2>1. Forget(r)
      BY <1>7 DEF PollJob, WaitTimeout, GetJobFails
    <2>2. job'[r] = NoJob /\ \A q \in Run \ {r} : job'[q] = job[q]
      BY <2>1 DEF Forget, TypeOK
    <2> QED BY <1>2, <2>2 DEF NoJob
  <1>8. CASE GetState(r) \/ AcquireLock(r) \/ AgentBusy(r) \/ GetAgent(r)
             \/ RunApply(r) \/ CreateJobFails(r) \/ ReleaseLock(r)
    <2>1. ~Waits(r) /\ job' = job
      BY <1>8 DEF GetState, AcquireLock, AgentBusy, GetAgent, RunApply,
           CreateJobFails, ReleaseLock, At
    <2>2. job'[r] = NoJob
      BY <2>1 DEF MatchInv
    <2> QED BY <1>2, <2>1, <2>2 DEF NoJob
  <1> QED
    BY <1>4, <1>5, <1>6, <1>7, <1>8 DEF RunStep, Advance

LEMMA MatchStep == TypeInv /\ MatchInv /\ [Next]_vars => MatchInv'
  <1> SUFFICES ASSUME TypeInv, MatchInv, [Next]_vars PROVE MatchInv'
    OBVIOUS
  <1>t. TypeOK /\ CopyInv
    BY DEF TypeInv
  <1>1. ASSUME NEW r \in Run, NEW s \in State,
               (\E v \in Versions : CreateState(r, s, v)) \/ ScheduledRun(r, s)
        PROVE  MatchInv'
    <2>1. /\ \E ctx \in {"background", "fenced"} : StartRun(r, s, ctx)
          /\ job' = job /\ outbox' = outbox /\ verified' = verified
      BY <1>1 DEF CreateState, ScheduledRun
    <2>2. /\ run[r].pc = "none" /\ ~Has(r)
          /\ \A q \in Run \ {r} : run'[q] = run[q]
      BY <2>1, StartFrame DEF Has
    <2>3. job'[r] = NoJob
      BY <2>1, <2>2 DEF MatchInv, Waits
    <2>4. \A q \in Run : Waits(q)' \/ job'[q] = NoJob
      BY <2>1, <2>2, <2>3 DEF MatchInv, Waits
    <2>5. \A q \in Run : job'[q].exit = "match" =>
              job[q].exit = "match" /\ run'[q].phase = run[q].phase
      BY <2>1, <2>2, <2>3 DEF NoJob
    <2> QED BY <2>1, <2>2, <2>4, <2>5, MatchKept
  <1>2. ASSUME NEW r \in Run, CancelRun(r) PROVE MatchInv'
    <2>1. job' = job /\ outbox' = outbox /\ verified' = verified
      BY <1>2 DEF CancelRun
    <2>2. \A q \in Run : Waits(q)' \/ job'[q] = NoJob
      BY <1>2, <1>t, <2>1, CancelFrame DEF MatchInv, Waits
    <2> QED BY <1>2, <1>t, <2>1, <2>2, CancelFrame, MatchKept
  <1>3. CASE (\E a \in Agent : RegisterAgent(a))
             \/ (\E s \in State : Drift(s)) \/ UNCHANGED vars
    <2>1. job' = job /\ outbox' = outbox /\ verified' = verified /\ run' = run
      BY <1>3 DEF RegisterAgent, Drift, vars
    <2> QED BY <2>1 DEF MatchInv, Waits, Has, Seen
  <1>4. ASSUME NEW r \in Run, RunStep(r) PROVE MatchInv'
    <2>1. outbox' = outbox /\ verified' = verified
      BY <1>4 DEF RunStep, Advance, GetState, AcquireLock, AgentBusy, GetAgent,
           RunApply, CreateJob, DispatchFails, DispatchAccepted, MarkRunning,
           PollJob, WaitTimeout, CreateJobFails, GetJobFails, ReleaseLock
    <2>2. ASSUME NEW q \in Run, Has(q)
          PROVE  /\ run'[q].state = run[q].state
                 /\ run'[q].copy.spec = run[q].copy.spec
                 /\ run'[q].copy.version = run[q].copy.version
      <3>1. GetState(q) => run[q].pc = "get_state"
        BY DEF GetState, At
      <3>2. ~GetState(q)
        BY <1>t, <2>2, <3>1 DEF CopyInv
      <3> QED BY <1>4, <1>t, <3>2, RunFrame DEF Moves, KeepsCopy
    <2> QED BY <1>4, <1>t, <2>1, <2>2, JobFrame, MatchKept
  <1>5. ASSUME NEW r \in Run, NEW ph \in Phase, ExecuteJob(r, ph)
        PROVE  MatchInv'
    <2>1. Has(r) /\ run' = run /\ job' = job
      BY <1>5, <1>t DEF ExecuteJob, CopyInv
    <2>2. PICK res \in {"match", "differ", "error"} :
              /\ outbox' = outbox \cup {<<r, ph, res>>}
              /\ verified \subseteq verified'
              /\ ph # "apply" /\ res = "match" => Seen(r)'
      BY <1>5 DEF ExecuteJob, Seen
    <2> QED BY <2>1, <2>2 DEF MatchInv, Has, Seen, Waits
  <1>6. ASSUME NEW r \in Run, NEW ph \in Phase,
               NEW res \in {"match", "differ", "error"},
               JobResult(r, ph, res)
        PROVE  MatchInv'
    <2>1. /\ run' = run /\ outbox' \subseteq outbox /\ verified' = verified
          /\ <<r, ph, res>> \in outbox
      BY <1>6 DEF JobResult
    <2>2. \A q \in Run \ {r} : job'[q] = job[q]
      BY <1>6, <1>t DEF JobResult, UpdateJobStatus, TypeOK
    <2>3. \/ job' = job
          \/ /\ job[r] # NoJob /\ ph = run[r].phase
             /\ job'[r].exit = IF res = "error" THEN "none" ELSE res
      BY <1>6, <1>t DEF JobResult, UpdateJobStatus, TypeOK, JobRecord
    <2> QED BY <2>1, <2>2, <2>3 DEF MatchInv, Has, Seen, Waits
  <1>7. ASSUME NEW r \in Run, NEW ph \in Phase,
               NEW res \in {"match", "differ", "error"},
               ResultLost(r, ph, res)
        PROVE  MatchInv'
    <2>1. /\ run' = run /\ outbox' \subseteq outbox /\ verified' = verified
          /\ job' = job
      BY <1>7 DEF ResultLost
    <2> QED BY <2>1 DEF MatchInv, Waits, Has, Seen
  <1>8. CASE AgentStep
    <2>1. ASSUME NEW j \in inbox PROVE j[1] \in Run /\ j[2] \in Phase
      BY <1>t DEF TypeOK
    <2>2. ASSUME NEW o \in outbox
          PROVE  /\ o[1] \in Run /\ o[2] \in Phase
                 /\ o[3] \in {"match", "differ", "error"}
      BY <1>t DEF TypeOK
    <2> QED BY <1>5, <1>6, <1>7, <1>8, <2>1, <2>2 DEF AgentStep
  <1> QED
    BY <1>1, <1>2, <1>3, <1>4, <1>8 DEF Next

\* A run stores compliant only when the job of its phase, a check, matched,
\* and only under the version that it has read.
LEMMA CompliantWritten ==
    ASSUME TypeOK, NEW r \in Run, RunStep(r),
           state'[run[r].state].status = "compliant",
           state[run[r].state].status # "compliant"
    PROVE  /\ run[r].pc = "wait"
           /\ run[r].phase # "apply"
           /\ job[r].exit = "match"
           /\ run[r].copy.version = state[run[r].state].version
  <1>1. state' # state
    OBVIOUS
  <1>2. ASSUME NEW st \in Statuses \ {"compliant"}, NEW pc \in PCs,
               SetStatus(r, st, pc)
        PROVE  FALSE
    BY <1>1, <1>2, SetStatusEffect DEF Written
  <1>3. ~RunApply(r)
    <2>1. SUFFICES ASSUME RunApply(r) PROVE FALSE
      OBVIOUS
    <2>2. UpdateStatus(r, "applying")
      BY <1>1, <2>1 DEF RunApply
    <2> QED BY <1>1, <2>2, UpdateStatusEffect DEF Statuses, Written
  <1>4. ~GetAgent(r)
    BY <1>1, <1>2 DEF GetAgent, Statuses, PCs
  <1>5. ~JobError(r)
    BY <1>2 DEF JobError, Statuses, PCs
  <1>6. PollJob(r)
    BY <1>1, <1>3, <1>4, <1>5 DEF RunStep, Advance, GetState, AcquireLock,
       AgentBusy, CreateJob, DispatchFails, DispatchAccepted, MarkRunning,
       WaitTimeout, CreateJobFails, GetJobFails, ReleaseLock
  <1>7. PhaseEnds(r, job[r].exit) /\ run[r].pc = "wait"
    BY <1>5, <1>6 DEF PollJob, At
  <1>8. CASE job[r].exit # "match"
    BY <1>1, <1>2, <1>7, <1>8 DEF PhaseEnds, FinalCheck, Statuses, PCs
  <1>9. CASE run[r].phase = "apply"
    BY <1>1, <1>7, <1>9 DEF PhaseEnds
  <1>10. CASE job[r].exit = "match" /\ run[r].phase # "apply"
    <2>1. SetStatus(r, "compliant", "return")
      BY <1>7, <1>10 DEF PhaseEnds, FinalCheck
    <2>2. run[r].copy.version = state[run[r].state].version
      BY <1>1, <2>1, SetStatusEffect DEF Statuses, PCs, Written
    <2> QED BY <1>7, <1>10, <2>2
  <1> QED BY <1>8, <1>9, <1>10

LEMMA CompliantStep ==
    TypeInv /\ MatchInv /\ CompliantVerified /\ [Next]_vars
        => CompliantVerified'
  <1> SUFFICES ASSUME TypeInv, MatchInv, CompliantVerified, [Next]_vars,
                      NEW s \in State, state'[s].status = "compliant"
               PROVE  \E n \in 1..state'[s].spec :
                          <<s, n, state'[s].version>> \in verified'
    BY DEF CompliantVerified
  <1>t. TypeOK /\ CopyInv
    BY DEF TypeInv
  <1>1. verified \subseteq verified'
    BY DEF Next, RunStep, Advance, AgentStep, CreateState, ScheduledRun,
       CancelRun, RegisterAgent, Drift, ExecuteJob, JobResult, ResultLost,
       GetState, AcquireLock, AgentBusy, GetAgent, RunApply, CreateJob,
       DispatchFails, DispatchAccepted, MarkRunning, PollJob, WaitTimeout,
       CreateJobFails, GetJobFails, ReleaseLock, vars
  <1>2. CASE state'[s] = state[s]
    BY <1>1, <1>2 DEF CompliantVerified
  <1>3. ASSUME NEW r \in Run, RunStep(r), state'[s] # state[s]
        PROVE  \E n \in 1..state'[s].spec :
                   <<s, n, state'[s].version>> \in verified'
    <2>1. /\ s = run[r].state
          /\ state'[s].spec = state[s].spec
          /\ state'[s].version = state[s].version
      BY <1>3, <1>t, RunFrame DEF OnlyStatus
    <2>2. CASE state[s].status = "compliant"
      BY <1>1, <2>1, <2>2 DEF CompliantVerified
    <2>3. CASE state[s].status # "compliant"
      <3>1. /\ run[r].pc = "wait"
            /\ run[r].phase # "apply"
            /\ job[r].exit = "match"
            /\ run[r].copy.version = state[s].version
        BY <1>3, <1>t, <2>1, <2>3, CompliantWritten
      <3>2. run[r].copy.spec \in Nat /\ state[s].spec \in Nat
        BY <1>t DEF TypeOK, RunRecord, StoredState
      <3>3. Seen(r)
        BY <3>1 DEF MatchInv
      <3>4. run[r].copy.spec \in 1..state[s].spec
        BY <1>t, <2>1, <3>1, <3>2 DEF CopyInv, Has, Under
      <3> QED BY <1>1, <2>1, <3>1, <3>3, <3>4 DEF Seen
    <2> QED BY <2>2, <2>3
  <1>4. ASSUME NEW r \in Run, NEW u \in State, NEW v \in Versions,
               CreateState(r, u, v)
        PROVE  state'[s] = state[s]
    BY <1>4, <1>t DEF CreateState, TypeOK
  <1>5. ASSUME NEW r \in Run,
               CancelRun(r) \/ (\E u \in State : ScheduledRun(r, u))
        PROVE  state'[s] = state[s]
    BY <1>5 DEF CancelRun, ScheduledRun
  <1> QED
    BY <1>2, <1>3, <1>4, <1>5, AgentFrame DEF Next

(* However many runs work on a state, however often it is replaced, and    *)
(* whatever agents, network and store do: what is stored as compliant was  *)
(* found so by a check made for the stored version.                        *)
THEOREM CompliantIsVerified == Spec => []CompliantVerified
  <1> DEFINE Inv == TypeInv /\ MatchInv /\ CompliantVerified
  <1>1. Init => Inv
    BY TypeInit, MatchInit
  <1>2. Inv /\ [Next]_vars => Inv'
    BY TypeInvStep, MatchStep, CompliantStep
  <1> QED
    BY <1>1, <1>2, PTL DEF Spec

-----------------------------------------------------------------------------
(* Error paths. *)

LEMMA SettledInit == Init => SettledOnReturn
  BY DEF Init, SettledOnReturn, NoRun

\* A run that is about to let go has just written what it concluded, or one of
\* the exceptions holds.
LEMMA ReturnWrites ==
    ASSUME TypeOK, NEW r \in Run, RunStep(r), run'[r].pc = "return",
           ~Cancelled(r), r \notin erred'
    PROVE  \E st \in {"compliant", "failed"} : SetStatus(r, st, "return")
  <1>1. run[r].pc \in {"get_agent", "create_job", "wait", "apply"}
    BY RunFrame DEF Successors
  <1>2. CASE GetAgent(r)
    <2>1. Goto(r, "create_job") => run'[r].pc = "create_job"
      BY GotoMoves DEF Moves
    <2> QED BY <1>2, <2>1 DEF GetAgent
  <1>3. CASE RunApply(r)
    <2>1. PICK ph : run' = [run EXCEPT ![r] =
                               [@ EXCEPT !.copy.status = "applying",
                                         !.pc = "create_job",
                                         !.phase = ph]]
      BY <1>3 DEF RunApply
    <2>2. run'[r].pc = "create_job"
      BY <2>1 DEF TypeOK, RunRecord
    <2> QED BY <2>2
  <1>4. CASE JobError(r)
    BY <1>4 DEF JobError
  <1>5. CASE PollJob(r) /\ PhaseEnds(r, job[r].exit)
    <2>1. SetStatus(r, "drifted", "apply") => run'[r].pc = "apply"
      BY SetStatusEffect DEF Moves, Statuses, PCs
    <2>2. run[r].phase = "apply" => run'[r].pc = "create_job"
      BY <1>5 DEF PhaseEnds, TypeOK, RunRecord
    <2> QED BY <1>5, <2>1, <2>2 DEF PhaseEnds, FinalCheck
  <1>6. CASE CreateJob(r)
    <2>1. Goto(r, "dispatch")
      BY <1>6 DEF CreateJob
    <2> QED BY <2>1, GotoMoves DEF Moves
  <1>7. GetAgent(r) \/ RunApply(r) \/ PollJob(r) \/ JobError(r) \/ CreateJob(r)
    BY <1>1 DEF RunStep, Advance, At, GetState, AcquireLock, AgentBusy,
       DispatchFails, DispatchAccepted, MarkRunning, WaitTimeout,
       CreateJobFails, GetJobFails, ReleaseLock
  <1> QED BY <1>2, <1>3, <1>4, <1>5, <1>6, <1>7 DEF PollJob

LEMMA SettledStep ==
    TypeInv /\ LockInv /\ SettledOnReturn /\ [Next]_vars => SettledOnReturn'
  <1> DEFINE Goal(q) ==
          /\ state'[run'[q].state].status = run'[q].copy.status
          /\ state'[run'[q].state].status \in {"compliant", "failed"}
  <1> SUFFICES ASSUME TypeInv, LockInv, SettledOnReturn, [Next]_vars,
                      NEW q \in Run, run'[q].pc = "return", ~Cancelled(q)',
                      q \notin erred',
                      run'[q].copy.spec = state'[run'[q].state].spec
               PROVE  Goal(q)
    BY DEF SettledOnReturn
  <1>t. /\ TypeOK /\ CopyInv
        /\ run[q].state \in State
        /\ run[q].copy.spec \in Nat
        /\ \A s \in State : state[s].spec \in Nat
    BY DEF TypeInv, TypeOK, RunRecord, StoredState
  <1>k. ASSUME run'[q].pc = run[q].pc, run'[q].state = run[q].state,
               run'[q].copy = run[q].copy, ~Cancelled(q),
               q \notin erred, state'[run[q].state] = state[run[q].state]
        PROVE  Goal(q)
    BY <1>k DEF SettledOnReturn
  <1>1. ASSUME NEW r \in Run, NEW s \in State, NEW v \in Versions,
               CreateState(r, s, v)
        PROVE  Goal(q)
    <2>1. /\ StartRun(r, s, "background")
          /\ state'[s].spec = state[s].spec + 1
          /\ \A u \in State \ {s} : state'[u] = state[u]
          /\ erred' = erred
      BY <1>1, <1>t DEF CreateState, TypeOK
    <2>2. q # r /\ run'[q] = run[q]
      BY <2>1, StartFrame
    <2>3. run[q].copy.spec <= state[run[q].state].spec
      BY <1>t, <2>2 DEF CopyInv, Under
    <2>4. run[q].state # s
      BY <1>t, <2>1, <2>2, <2>3
    <2> QED BY <1>t, <1>k, <2>1, <2>2, <2>4 DEF Cancelled
  <1>2. ASSUME NEW r \in Run, NEW s \in State, ScheduledRun(r, s)
        PROVE  Goal(q)
    <2>1. StartRun(r, s, "fenced") /\ state' = state /\ erred' = erred
      BY <1>2 DEF ScheduledRun
    <2>2. q # r /\ run'[q] = run[q]
      BY <2>1, StartFrame
    <2> QED BY <1>k, <2>1, <2>2 DEF Cancelled
  <1>3. ASSUME NEW r \in Run, CancelRun(r) PROVE Goal(q)
    <2>1. state' = state /\ erred' = erred
      BY <1>3 DEF CancelRun
    <2> QED BY <1>3, <1>t, <1>k, <2>1, CancelFrame DEF Cancelled
  <1>4. CASE AgentStep \/ (\E a \in Agent : RegisterAgent(a))
             \/ (\E s \in State : Drift(s)) \/ UNCHANGED vars
    BY <1>4, <1>k, AgentFrame DEF Cancelled
  <1>5. ASSUME NEW r \in Run, RunStep(r) PROVE Goal(q)
    <2>1. /\ Moves(r, run'[r].pc)
          /\ run'[r].pc \in Successors(run[r].pc)
          /\ GetState(r) \/ KeepsCopy(r)
          /\ OnlyStatus(run[r].state)
          /\ \/ state' = state
             \/ run[r].pc \in {"get_agent", "create_job", "wait", "apply"}
          /\ \A p \in Run \ {r} : p \in erred' <=> p \in erred
      BY <1>5, <1>t, RunFrame
    <2>2. CASE q # r
      <3>1. run'[q] = run[q] /\ q \notin erred
        BY <2>1, <2>2 DEF Moves
      <3>2. state'[run[q].state] = state[run[q].state]
        <4>1. CASE state' = state
          BY <4>1
        <4>2. CASE run[r].pc \in {"get_agent", "create_job", "wait", "apply"}
          <5>1. Locked(r) /\ Locked(q)
            BY <3>1, <4>2 DEF Locked
          <5>2. run[q].state # run[r].state
            BY <2>2, <5>1 DEF LockInv, Node
          <5> QED BY <1>t, <2>1, <5>2 DEF OnlyStatus
        <4> QED BY <2>1, <4>1, <4>2
      <3> QED BY <1>k, <3>1, <3>2 DEF Cancelled
    <2>3. CASE q = r
      <3>1. run[r].pc \in {"get_agent", "create_job", "wait", "apply"}
        BY <2>1, <2>3 DEF Successors
      <3>2. run[r].copy.spec = state[run[r].state].spec
        <4>1. ~GetState(r)
          BY <3>1 DEF GetState, At
        <4> QED BY <1>t, <2>1, <2>3, <4>1 DEF KeepsCopy, OnlyStatus
      <3>3. run[r].copy.version = state[run[r].state].version
        BY <1>t, <2>3, <3>1, <3>2 DEF CopyInv, Under
      <3>4. ~Cancelled(r)
        BY <2>1, <2>3 DEF Cancelled, Moves
      <3>5. PICK st \in {"compliant", "failed"} : SetStatus(r, st, "return")
        BY <1>5, <1>t, <2>3, <3>4, ReturnWrites
      <3>6. Moves(r, "return") /\ run'[r].copy.status = st /\ Written(r, st)
        BY <1>t, <3>5, SetStatusEffect DEF Statuses, PCs
      <3>7. run'[r].state = run[r].state
        BY <3>6 DEF Moves
      <3>8. state'[run[r].state].status = st
        BY <1>t, <2>3, <3>3, <3>6 DEF Written
      <3> QED BY <2>3, <3>6, <3>7, <3>8
    <2> QED BY <2>2, <2>3
  <1> QED
    BY <1>1, <1>2, <1>3, <1>4, <1>5 DEF Next

(* However many runs there are and whatever agents, network and store do:  *)
(* a run that was not cancelled, whose state was not replaced and whose    *)
(* last call of GetAgent or UpdateStateStatus did not fail, leaves in the  *)
(* store the compliant or failed that it concluded.                        *)
THEOREM RunsSettle == Spec => []SettledOnReturn
  <1> DEFINE Inv == TypeInv /\ LockInv /\ SettledOnReturn
  <1>1. Init => Inv
    BY TypeInit, LockInit, SettledInit
  <1>2. Inv /\ [Next]_vars => Inv'
    BY TypeInvStep, LockStep, SettledStep
  <1> QED
    BY <1>1, <1>2, PTL DEF Spec
=============================================================================
