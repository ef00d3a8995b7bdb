--------------------------- MODULE AgentRegistry ---------------------------
(***************************************************************************)
(* The record that the store keeps of one agent: registrations and         *)
(* heartbeats (handleRegister and handleHeartbeat of api.go), the liveness *)
(* monitor that every control-plane process runs                           *)
(* (coordination/agent_monitor.go), and the whole-record reads and writes  *)
(* of store/redis.go under them.  Agents do not share anything, so one is  *)
(* modelled.                                                               *)
(*                                                                         *)
(* Heartbeats and monitors read the record, change their copy and write    *)
(* all of it back, without a comparison; one action is one call to Redis.  *)
(* A timestamp is known by its age in ticks, which Tick raises wherever a  *)
(* copy of it is; ages above MaxAge are equal.  addr stands for all that   *)
(* an agent registers: address, port, tier, metadata.  The agent itself is *)
(* not in the repository: while alive it sends heartbeats, after the first *)
(* registration, and may register again.  It gives no status, or "active". *)
(*                                                                         *)
(* Env is the set of things that may happen besides:                       *)
(*   "stall"       operations may take longer than a tick;                 *)
(*   "silence"     the agent stops and resumes.                            *)
(* Up to MaxErrors calls to Redis fail, applied or not, or the processes   *)
(* that make them die.                                                     *)
(***************************************************************************)
EXTENDS Naturals

CONSTANTS
    Call,       \* slots for requests of the agent that are under way
    Monitor,    \* the processes' monitors
    Addr,       \* what the agent may register
    Threshold,  \* 10 s, in ticks of the monitor's interval of 5 s
    Env,        \* the disturbances that may happen
    MaxAge,     \* bound: where ages saturate
    MaxErrors   \* bound: calls to Redis that fail

ASSUME RegistryAssumption ==
    /\ Threshold \in Nat
    /\ MaxAge \in Nat
    /\ MaxAge > Threshold
    /\ MaxErrors \in Nat
    /\ Env \subseteq {"stall", "silence"}
    /\ "none" \notin Addr

VARIABLES
    stored,      \* the record in the store
    call,        \* requests of the agent inside the API
    monitor,     \* runs of checkLiveness
    alive,       \* whether the agent runs
    errors,      \* failures so far
    silence,     \* history: the age of the newest timestamp stored, and MaxAge
                 \* for good once that has exceeded Threshold or an operation
                 \* has taken longer than a tick
    registered,  \* history: the last registration stored
    raced        \* history: whether it was stored while a copy of the
                 \* record it replaced was about to be written back

history == <<silence, registered, raced>>
envVars == <<alive, errors>>
vars == <<stored, call, monitor, envVars, history>>

Age == 0..MaxAge
Status == {"active", "offline"}
Record == [addr : Addr \cup {"none"}, status : Status \cup {"none"}, age : Age]
NoRecord == [addr |-> "none", status |-> "none", age |-> 0]
Idle == [pc |-> "idle", rec |-> NoRecord]

TypeOK ==
    /\ stored \in Record
    /\ call \in [Call -> [pc : {"idle", "register", "read", "write"},
                          rec : Record]]
    /\ monitor \in [Monitor -> [pc : {"idle", "judge", "write"},
                                rec : Record]]
    /\ alive \in BOOLEAN
    /\ errors \in 0..MaxErrors
    /\ silence \in Age
    /\ registered \in Addr \cup {"none"}
    /\ raced \in BOOLEAN

Init ==
    /\ stored = NoRecord
    /\ call = [c \in Call |-> Idle]
    /\ monitor = [m \in Monitor |-> Idle]
    /\ alive = TRUE
    /\ errors = 0
    /\ silence = 0
    /\ registered = "none"
    /\ raced = FALSE

Known == stored # NoRecord

\* Copies of the stored record that will be written back if nothing fails.
Copied == (\E c \in Call : call[c].pc = "write")
          \/ (\E m \in Monitor : monitor[m].pc # "idle")

-----------------------------------------------------------------------------
(* handleRegister. *)

\* The record is new but for the body; LastHeartbeat is the present time.
Register(c, a) ==
    /\ alive
    /\ call[c].pc = "idle"
    /\ call' = [call EXCEPT ![c] =
                   [pc |-> "register",
                    rec |-> [addr |-> a, status |-> "active", age |-> 0]]]
    /\ UNCHANGED <<stored, monitor, envVars, history>>

Heard(t) == silence' = IF silence <= Threshold /\ (t < silence \/ ~Known)
                      THEN t ELSE silence

\* The UpsertAgent of a registration.
StoreRegistration(c) ==
    /\ call[c].pc = "register"
    /\ stored' = call[c].rec
    /\ call' = [call EXCEPT ![c] = Idle]
    /\ Heard(call[c].rec.age)
    /\ registered' = call[c].rec.addr
    /\ raced' = Copied
    /\ UNCHANGED <<monitor, envVars>>

-----------------------------------------------------------------------------
(* handleHeartbeat, if the limiter admits it. *)

Heartbeat(c) ==
    /\ alive
    /\ call[c].pc = "idle"
    /\ call' = [call EXCEPT ![c] = [pc |-> "read", rec |-> NoRecord]]
    /\ UNCHANGED <<stored, monitor, envVars, history>>

\* Mutant: the record is made anew from the heartbeat.
BeatenAnew(rec, t) ==
    [addr |-> CHOOSE a \in Addr : TRUE, status |-> "active", age |-> t]

\* Mutant: a status the readers of the record do not know.
BeatenOnline(rec, t) == [rec EXCEPT !.age = t, !.status = "online"]

\* What UpdateAgentHeartbeat writes of the record it read.
Beaten(rec, t) == [rec EXCEPT !.age = t, !.status = "active"]

\* Mutant: an agent that is offline has to register again.
GetAgentUnlessOffline(c) ==
    /\ call[c].pc = "read"
    /\ call' = [call EXCEPT ![c] =
                   IF Known /\ stored.status # "offline"
                   THEN [pc |-> "write",
                         rec |-> Beaten(stored, call[c].rec.age)]
                   ELSE Idle]
    /\ UNCHANGED <<stored, monitor, envVars, history>>

\* An agent that is not registered is refused.
GetAgent(c) ==
    /\ call[c].pc = "read"
    /\ call' = [call EXCEPT ![c] =
                   IF Known
                   THEN [pc |-> "write",
                         rec |-> Beaten(stored, call[c].rec.age)]
                   ELSE Idle]
    /\ UNCHANGED <<stored, monitor, envVars, history>>

\* The UpsertAgent of a heartbeat.
StoreHeartbeat(c) ==
    /\ call[c].pc = "write"
    /\ stored' = call[c].rec
    /\ call' = [call EXCEPT ![c] = Idle]
    /\ Heard(call[c].rec.age)
    /\ UNCHANGED <<monitor, envVars, registered, raced>>

Error == errors < MaxErrors /\ errors' = errors + 1

\* A request fails: the client is told 500, whether or not its write was
\* applied.
CallFails(c) ==
    /\ Error
    /\ call[c].pc # "idle"
    /\ call' = [call EXCEPT ![c] = Idle]
    /\ UNCHANGED <<stored, monitor, alive, history>>

-----------------------------------------------------------------------------
(* checkLiveness. *)

ListAgents(m) ==
    /\ monitor[m].pc = "idle"
    /\ Known
    /\ monitor' = [monitor EXCEPT ![m] = [pc |-> "judge", rec |-> stored]]
    /\ UNCHANGED <<stored, call, envVars, history>>

\* Mutant: off by one.
ExpiredAtThreshold(t) == t >= Threshold

\* Mutant: only the first run after the threshold finds it.
ExpiredOnce(t) == t = Threshold + 1

Expired(t) == t > Threshold

Judge(m) ==
    /\ monitor[m].pc = "judge"
    /\ monitor' = [monitor EXCEPT ![m] =
                      IF @.rec.status # "offline" /\ Expired(@.rec.age)
                      THEN [@ EXCEPT !.pc = "write"] ELSE Idle]
    /\ UNCHANGED <<stored, call, envVars, history>>

\* Mutant: the time of the update goes to LastHeartbeat.
MarkedNow(rec) == [rec EXCEPT !.status = "offline", !.age = 0]

Marked(rec) == [rec EXCEPT !.status = "offline"]

\* The monitor's UpsertAgent: all of the copy is written back.
MarkOffline(m) ==
    /\ monitor[m].pc = "write"
    /\ stored' = Marked(monitor[m].rec)
    /\ monitor' = [monitor EXCEPT ![m] = Idle]
    /\ UNCHANGED <<call, envVars, history>>

MonitorFails(m) ==
    /\ Error
    /\ monitor[m].pc # "idle"
    /\ monitor' = [monitor EXCEPT ![m] = Idle]
    /\ UNCHANGED <<stored, call, alive, history>>

-----------------------------------------------------------------------------
(* Time and the agent. *)

Older(t) == IF t < MaxAge THEN t + 1 ELSE t
OlderRecord(rec) ==
    IF rec = NoRecord THEN rec ELSE [rec EXCEPT !.age = Older(@)]

Busy == (\E c \in Call : call[c].pc # "idle")
        \/ (\E m \in Monitor : monitor[m].pc # "idle")

Tick ==
    /\ "stall" \in Env \/ ~Busy
    /\ stored' = OlderRecord(stored)
    /\ call' = [c \in Call |->
                   IF call[c].pc = "idle" THEN call[c]
                   ELSE [call[c] EXCEPT !.rec.age = Older(@)]]
    /\ monitor' = [m \in Monitor |->
                      [monitor[m] EXCEPT !.rec = OlderRecord(@)]]
    /\ silence' = IF Busy \/ (Known /\ Older(silence) > Threshold) THEN MaxAge
                  ELSE IF Known THEN Older(silence) ELSE silence
    /\ UNCHANGED <<envVars, registered, raced>>

AgentStops ==
    /\ "silence" \in Env
    /\ alive' = ~alive
    /\ UNCHANGED <<stored, call, monitor, errors, history>>

CallStep(c) == StoreRegistration(c) \/ GetAgent(c) \/ StoreHeartbeat(c)
MonitorStep(m) == ListAgents(m) \/ Judge(m) \/ MarkOffline(m)

Next ==
    \/ \E c \in Call, a \in Addr : Register(c, a)
    \/ \E c \in Call : Heartbeat(c) \/ CallStep(c) \/ CallFails(c)
    \/ \E m \in Monitor : MonitorStep(m) \/ MonitorFails(m)
    \/ Tick
    \/ AgentStops

Spec == Init /\ [][Next]_vars

\* Time passes, calls to Redis return, the monitors' tickers fire, and an
\* agent that keeps sending heartbeats is admitted by the limiter in the end.
FairSpec ==
    /\ Spec
    /\ WF_vars(Tick)
    /\ \A c \in Call : WF_vars(Heartbeat(c)) /\ WF_vars(CallStep(c))
    /\ \A m \in Monitor : WF_vars(MonitorStep(m))

-----------------------------------------------------------------------------
(* Properties. *)

(* A record that says offline also says why: its last heartbeat is older   *)
(* than the threshold.  Heartbeats and monitors overwrite each other's     *)
(* records whole, and no mixture of the two is ever stored.                *)
OfflineIsStale == stored.status = "offline" => stored.age > Threshold

(* While every operation ends within a tick, only an agent that has really *)
(* been silent for longer than the threshold is ever shown offline.        *)
OfflineNeedsSilence == stored.status = "offline" => silence > Threshold

(* A registration is undone only by an operation that had read the record  *)
(* before it: the next registration then has to repair it.                 *)
RegistrationKept == Known /\ ~raced => stored.addr = registered

(* An agent that is silent for good is shown offline for good, although a  *)
(* heartbeat still under way may write active after the monitor's mark.    *)
SilentGoesOffline ==
    <>[](~alive /\ Known) => <>[](stored.status = "offline")

(* An agent that keeps sending heartbeats is shown active again and again, *)
(* so a monitor's stale write-back does not stand.                         *)
AliveIsShown == <>[](alive /\ Known) => []<>(stored.status = "active")
=============================================================================
