--------------------------- MODULE LeaderElection ---------------------------
(***************************************************************************)
(* The lease-based leader election of the control plane:                   *)
(* coordination/leader.go (one election loop per node),                    *)
(* coordination/janitor.go (one lock janitor per node) and the lock and    *)
(* epoch operations of store/redis.go that they call.                      *)
(*                                                                         *)
(* One action is one Redis round trip, or one step of a loop between two   *)
(* of them.  Time is counted in ticks: the lease's TTL, the age of the     *)
(* lock metadata and each loop's timer are counters that Tick moves        *)
(* together.  A lock value is the pair of its epoch and its ReqID; ReqIDs  *)
(* are unique, so two values are equal when their ReqIDs are.              *)
(*                                                                         *)
(* Env is the set of disturbances the environment may cause:               *)
(*   "stall"       a node may be paused for any time at any point;         *)
(*   "redis_error" a Redis call may fail, before or after it took effect;  *)
(*   "crash"       a process may die and be replaced by a fresh one;       *)
(*   "janitor"     the lock janitors run;                                  *)
(*   "stop"        Stop() may be called on an elector;                     *)
(*   "cancel"      the context given to Start may be cancelled;            *)
(*   "flush"       Redis may lose all its keys.                            *)
(***************************************************************************)
EXTENDS Naturals

CONSTANTS
    Node,         \* the control-plane processes
    Interval,     \* ttl/3, the period of the loop, in ticks
    TTL,          \* the lease's time to live, in ticks
    MaxInterval,  \* 10*ttl, the cap of the exponential backoff, in ticks
    Grace,        \* the janitor's 5 s of tolerance, in ticks
    Env,          \* the disturbances that may happen
    MaxEpoch      \* bound: acquisition attempts explored

Disturbances ==
    {"stall", "redis_error", "crash", "janitor", "stop", "cancel", "flush"}

ASSUME TimingAssumption ==
    /\ Interval \in Nat \ {0}
    /\ TTL \in Nat
    /\ Interval < TTL
    /\ MaxInterval \in Nat
    /\ Interval <= MaxInterval
    /\ Grace \in Nat

ASSUME BoundAssumption == MaxEpoch \in Nat

ASSUME EnvAssumption == Env \subseteq Disturbances

VARIABLES
    \* Redis
    lease,          \* the value under fluxforge:lock:leader and its timers
    epoch,          \* leader_election:epoch
    reqs,           \* ReqIDs generated so far
    \* the election loop of each node
    pc,             \* where the loop is
    isLeader,
    currentEpoch,
    currentValue,   \* the ReqID of the value last acquired, 0 for ""
    meta,           \* the lock metadata of the attempt under way
    leaderCtx,
    renewFailures,
    interval,
    timer,          \* ticks until timer.C fires
    \* the janitor of each node
    jpc,
    jepoch,         \* the durable epoch its pass works with
    jval,           \* the value it decided to release
    \* history
    terms,          \* epochs with which becomeLeader has been called
    disturbed       \* a leader was kept from renewing its lease, or lost it

redisVars == <<lease, epoch, reqs>>
loopVars == <<pc, isLeader, currentEpoch, currentValue, meta, leaderCtx,
              renewFailures, interval, timer>>
janitorVars == <<jpc, jepoch, jval>>
history == <<terms, disturbed>>
vars == <<redisVars, loopVars, janitorVars, history>>

maxRenewFailures == 3

\* Ticks until now.After(ExpiresAt.Add(5s)) holds of metadata created now.
StaleAfter == TTL + Grace + 1

NoLease == [epoch |-> 0, req |-> 0, ttl |-> 0, exp |-> 0]
NoMeta == [epoch |-> 0, req |-> 0, exp |-> 0]
NoCtx == [epoch |-> 0, live |-> FALSE]

TypeOK ==
    /\ lease \in [epoch : Nat, req : Nat, ttl : 0..TTL, exp : 0..StaleAfter]
    /\ epoch \in Nat
    /\ reqs \in Nat
    /\ pc \in [Node -> {"select", "acquireLease", "becomeLeader", "exited"}]
    /\ isLeader \in [Node -> BOOLEAN]
    /\ currentEpoch \in [Node -> Nat]
    /\ currentValue \in [Node -> Nat]
    /\ meta \in [Node -> [epoch : Nat, req : Nat, exp : 0..StaleAfter]]
    /\ leaderCtx \in [Node -> [epoch : Nat, live : BOOLEAN]]
    /\ renewFailures \in [Node -> 0..(maxRenewFailures - 1)]
    /\ interval \in [Node -> Interval..MaxInterval]
    /\ timer \in [Node -> 0..MaxInterval]
    /\ jpc \in [Node -> {"idle", "scan", "release"}]
    /\ jepoch \in [Node -> Nat]
    /\ jval \in [Node -> Nat]
    /\ terms \in SUBSET Nat
    /\ disturbed \in BOOLEAN

Init ==
    /\ lease = NoLease
    /\ epoch = 0
    /\ reqs = 0
    /\ pc = [n \in Node |-> "select"]
    /\ isLeader = [n \in Node |-> FALSE]
    /\ currentEpoch = [n \in Node |-> 0]
    /\ currentValue = [n \in Node |-> 0]
    /\ meta = [n \in Node |-> NoMeta]
    /\ leaderCtx = [n \in Node |-> NoCtx]
    /\ renewFailures = [n \in Node |-> 0]
    /\ interval = [n \in Node |-> Interval]
    /\ timer = [n \in Node |-> Interval]
    /\ jpc = [n \in Node |-> "idle"]
    /\ jepoch = [n \in Node |-> 0]
    /\ jval = [n \in Node |-> 0]
    /\ terms = {}
    /\ disturbed = FALSE

-----------------------------------------------------------------------------
(* The lock and epoch operations of RedisStore, as functions of the state. *)

\* INCR leader_election:epoch
IncrementEpochReads == IF epoch = 0 THEN 1 ELSE epoch
IncrementEpoch == epoch + 1

\* The script of RenewLock and ReleaseLock compares the stored value.
OwnsAny(req) == req # 0 /\ lease.req # 0
Owns(req) == req # 0 /\ lease.req = req

\* SETNX with a TTL: only when the key is absent.
Free == lease = NoLease

LeaseOf(m) == [epoch |-> m.epoch, req |-> m.req, ttl |-> TTL, exp |-> m.exp]

RenewedSameTTL == lease
\* PEXPIRE: the TTL starts again, the value (with its ExpiresAt) stays.
Renewed == [lease EXCEPT !.ttl = TTL]

ReleaseLeaseBlind(req) == NoLease
\* DEL when the value matches, nothing otherwise.
ReleaseLease(req) == IF Owns(req) THEN NoLease ELSE lease

-----------------------------------------------------------------------------
(* The election loop. *)

\* The end of an iteration without an error.
ResetTimer(n) ==
    /\ interval' = [interval EXCEPT ![n] = Interval]
    /\ timer' = [timer EXCEPT ![n] = Interval]

BackoffUncapped(i) == 2 * i
Backoff(i) == IF 2 * i > MaxInterval THEN MaxInterval ELSE 2 * i

\* The end of an iteration with an error.
BackoffTimer(n) ==
    /\ interval' = [interval EXCEPT ![n] = Backoff(interval[n])]
    /\ timer' = [timer EXCEPT ![n] = Backoff(interval[n])]

Fires(n) == pc[n] = "select" /\ timer[n] = 0

MayAttempt == epoch < MaxEpoch /\ reqs < MaxEpoch

\* acquire, first call: a new epoch, then the metadata of the attempt.
IncrementDurableEpoch(n) ==
    /\ Fires(n)
    /\ ~isLeader[n]
    /\ MayAttempt
    /\ epoch' = IncrementEpoch
    /\ reqs' = reqs + 1
    /\ currentEpoch' = [currentEpoch EXCEPT ![n] = epoch']
    /\ meta' = [meta EXCEPT ![n] =
                   [epoch |-> epoch', req |-> reqs', exp |-> StaleAfter]]
    /\ pc' = [pc EXCEPT ![n] = "acquireLease"]
    /\ UNCHANGED <<lease, isLeader, currentValue, leaderCtx, renewFailures,
                   interval, timer, janitorVars, history>>
\* The increment fails; Redis may have applied it all the same.
IncrementDurableEpochFails(n) ==
    /\ "redis_error" \in Env
    /\ Fires(n)
    /\ ~isLeader[n]
    /\ MayAttempt
    /\ epoch' \in {epoch, IncrementEpoch}
    /\ BackoffTimer(n)
    /\ UNCHANGED <<lease, reqs, pc, isLeader, currentEpoch, currentValue,
                   meta, leaderCtx, renewFailures, janitorVars, history>>
\* acquire, second call: SETNX wins.
AcquireLease(n) ==
    /\ pc[n] = "acquireLease"
    /\ Free
    /\ lease' = LeaseOf(meta[n])
    /\ currentValue' = [currentValue EXCEPT ![n] = meta[n].req]
    /\ meta' = [meta EXCEPT ![n] = NoMeta]
    /\ pc' = [pc EXCEPT ![n] = "becomeLeader"]
    /\ UNCHANGED <<epoch, reqs, isLeader, currentEpoch, leaderCtx,
                   renewFailures, interval, timer, janitorVars, history>>
\* acquire, second call: another value is there.
AcquireLeaseDenied(n) ==
    /\ pc[n] = "acquireLease"
    /\ ~Free
    /\ meta' = [meta EXCEPT ![n] = NoMeta]
    /\ pc' = [pc EXCEPT ![n] = "select"]
    /\ ResetTimer(n)
    /\ UNCHANGED <<redisVars, isLeader, currentEpoch, currentValue, leaderCtx,
                   renewFailures, janitorVars, history>>
\* SETNX fails; if it was applied, the lease has a value no node keeps.
AcquireLeaseFails(n) ==
    /\ "redis_error" \in Env
    /\ pc[n] = "acquireLease"
    /\ lease' \in {lease} \cup (IF Free THEN {LeaseOf(meta[n])} ELSE {})
    /\ meta' = [meta EXCEPT ![n] = NoMeta]
    /\ pc' = [pc EXCEPT ![n] = "select"]
    /\ BackoffTimer(n)
    /\ UNCHANGED <<epoch, reqs, isLeader, currentEpoch, currentValue,
                   leaderCtx, renewFailures, janitorVars, history>>
BecomeLeader(n) ==
    /\ pc[n] = "becomeLeader"
    /\ isLeader' = [isLeader EXCEPT ![n] = TRUE]
    /\ leaderCtx' = [leaderCtx EXCEPT ![n] =
                        [epoch |-> currentEpoch[n], live |-> TRUE]]
    /\ renewFailures' = [renewFailures EXCEPT ![n] = 0]
    /\ pc' = [pc EXCEPT ![n] = "select"]
    /\ ResetTimer(n)
    /\ terms' = terms \cup {currentEpoch[n]}
    /\ UNCHANGED <<redisVars, currentEpoch, currentValue, meta, janitorVars,
                   disturbed>>

StepDownKeepsCtx(n) ==
    /\ isLeader' = [isLeader EXCEPT ![n] = FALSE]
    /\ UNCHANGED leaderCtx
\* currentValue is kept, and so is the lease if it is still there.
StepDown(n) ==
    /\ isLeader' = [isLeader EXCEPT ![n] = FALSE]
    /\ leaderCtx' = [leaderCtx EXCEPT ![n].live = FALSE]

RenewLease(n) ==
    /\ Fires(n)
    /\ isLeader[n]
    /\ Owns(currentValue[n])
    /\ lease' = Renewed
    /\ renewFailures' = [renewFailures EXCEPT ![n] = 0]
    /\ ResetTimer(n)
    /\ UNCHANGED <<epoch, reqs, pc, isLeader, currentEpoch, currentValue,
                   meta, leaderCtx, janitorVars, history>>
RenewLeaseDeniedIgnored(n) ==
    /\ Fires(n)
    /\ isLeader[n]
    /\ ~Owns(currentValue[n])
    /\ renewFailures' = [renewFailures EXCEPT ![n] = 0]
    /\ ResetTimer(n)
    /\ UNCHANGED <<redisVars, pc, isLeader, leaderCtx, currentEpoch,
                   currentValue, meta, janitorVars, history>>
\* The key is missing or has another value: step down.
RenewLeaseDenied(n) ==
    /\ Fires(n)
    /\ isLeader[n]
    /\ ~Owns(currentValue[n])
    /\ StepDown(n)
    /\ renewFailures' = [renewFailures EXCEPT ![n] = 0]
    /\ ResetTimer(n)
    /\ UNCHANGED <<redisVars, pc, currentEpoch, currentValue, meta,
                   janitorVars, history>>
GivesUp(n) == renewFailures[n] + 1 >= maxRenewFailures

\* Renewal fails, applied or not; the third failure in a row steps down.
RenewLeaseFails(n) ==
    /\ "redis_error" \in Env
    /\ Fires(n)
    /\ isLeader[n]
    /\ lease' \in {lease} \cup
                  (IF Owns(currentValue[n]) THEN {Renewed} ELSE {})
    /\ \/ /\ GivesUp(n)
          /\ StepDown(n)
          /\ renewFailures' = [renewFailures EXCEPT ![n] = 0]
       \/ /\ ~GivesUp(n)
          /\ renewFailures' = [renewFailures EXCEPT ![n] = @ + 1]
          /\ UNCHANGED <<isLeader, leaderCtx>>
    /\ BackoffTimer(n)
    /\ disturbed' = TRUE
    /\ UNCHANGED <<epoch, reqs, pc, currentEpoch, currentValue, meta,
                   janitorVars, terms>>
\* Stop(): releases the lease and leaves the loop, and isLeader, alone.
Stop(n) ==
    /\ "stop" \in Env
    /\ isLeader[n]
    /\ lease' \in {ReleaseLease(currentValue[n])} \cup
                  (IF "redis_error" \in Env THEN {lease} ELSE {})
    /\ disturbed' = (disturbed \/ lease' # lease)
    /\ UNCHANGED <<epoch, reqs, loopVars, janitorVars, terms>>
\* ctx.Done(): release if leader, and return.
CtxDone(n) ==
    /\ "cancel" \in Env
    /\ pc[n] = "select"
    /\ pc' = [pc EXCEPT ![n] = "exited"]
    /\ lease' \in {IF isLeader[n] THEN ReleaseLease(currentValue[n])
                   ELSE lease} \cup
                  (IF "redis_error" \in Env THEN {lease} ELSE {})
    /\ disturbed' = (disturbed \/ isLeader[n])
    /\ UNCHANGED <<epoch, reqs, isLeader, currentEpoch, currentValue, meta,
                   leaderCtx, renewFailures, interval, timer, janitorVars,
                   terms>>
-----------------------------------------------------------------------------
(* The janitor. *)

\* A pass begins: the durable epoch is read first.
GetDurableEpoch(n) ==
    /\ "janitor" \in Env
    /\ jpc[n] = "idle"
    /\ pc[n] # "exited"
    /\ jpc' = [jpc EXCEPT ![n] = "scan"]
    /\ jepoch' = [jepoch EXCEPT ![n] = epoch]
    /\ UNCHANGED <<redisVars, loopVars, jval, history>>
Fenced(n) == lease.epoch < jepoch[n]
Stale == lease.exp = 0

\* ScanLocks and GetLockOwner, then the two checks on the value read.
JudgeLock(n) ==
    /\ jpc[n] = "scan"
    /\ IF ~Free /\ (Fenced(n) \/ Stale)
       THEN /\ jpc' = [jpc EXCEPT ![n] = "release"]
            /\ jval' = [jval EXCEPT ![n] = lease.req]
       ELSE /\ jpc' = [jpc EXCEPT ![n] = "idle"]
            /\ UNCHANGED jval
    /\ jepoch' = [jepoch EXCEPT ![n] = 0]
    /\ UNCHANGED <<redisVars, loopVars, history>>
\* The lock judged earlier is released, if it is still the one there.
JanitorRelease(n) ==
    /\ jpc[n] = "release"
    /\ lease' = ReleaseLease(jval[n])
    /\ jpc' = [jpc EXCEPT ![n] = "idle"]
    /\ jval' = [jval EXCEPT ![n] = 0]
    /\ disturbed' = (disturbed \/ lease' # lease)
    /\ UNCHANGED <<epoch, reqs, loopVars, jepoch, terms>>
\* A Redis call of the pass fails: the pass does nothing more.
JanitorFails(n) ==
    /\ "redis_error" \in Env
    /\ jpc[n] # "idle"
    /\ jpc' = [jpc EXCEPT ![n] = "idle"]
    /\ jepoch' = [jepoch EXCEPT ![n] = 0]
    /\ jval' = [jval EXCEPT ![n] = 0]
    /\ UNCHANGED <<redisVars, loopVars, history>>
-----------------------------------------------------------------------------
(* Time, processes and Redis itself. *)

Dec(x) == IF x = 0 THEN 0 ELSE x - 1

\* Node n has something to do at this very tick.
Ready(n) ==
    \/ pc[n] \in {"acquireLease", "becomeLeader"}
    \/ Fires(n) /\ (isLeader[n] \/ MayAttempt)

Aged == [lease EXCEPT !.ttl = Dec(lease.ttl), !.exp = Dec(lease.exp)]

\* Redis deletes a key when its TTL has elapsed.
Tick ==
    /\ "stall" \in Env \/ \A n \in Node : ~Ready(n)
    /\ lease' = IF lease.ttl <= 1 THEN NoLease ELSE Aged
    /\ meta' = [n \in Node |-> [meta[n] EXCEPT !.exp = Dec(@)]]
    /\ timer' = [n \in Node |-> Dec(timer[n])]
    /\ disturbed' = (disturbed \/ \E n \in Node : Ready(n))
    /\ UNCHANGED <<epoch, reqs, pc, isLeader, currentEpoch, currentValue,
                   leaderCtx, renewFailures, interval, janitorVars, terms>>
\* The process of n dies and a fresh one starts: NewLeaderElector, Start.
Crash(n) ==
    /\ "crash" \in Env
    /\ pc' = [pc EXCEPT ![n] = "select"]
    /\ isLeader' = [isLeader EXCEPT ![n] = FALSE]
    /\ currentEpoch' = [currentEpoch EXCEPT ![n] = 0]
    /\ currentValue' = [currentValue EXCEPT ![n] = 0]
    /\ meta' = [meta EXCEPT ![n] = NoMeta]
    /\ leaderCtx' = [leaderCtx EXCEPT ![n] = NoCtx]
    /\ renewFailures' = [renewFailures EXCEPT ![n] = 0]
    /\ ResetTimer(n)
    /\ jpc' = [jpc EXCEPT ![n] = "idle"]
    /\ jepoch' = [jepoch EXCEPT ![n] = 0]
    /\ jval' = [jval EXCEPT ![n] = 0]
    /\ UNCHANGED <<redisVars, history>>
\* Redis comes back empty.
Flush ==
    /\ "flush" \in Env
    /\ lease' = NoLease
    /\ epoch' = 0
    /\ disturbed' = TRUE
    /\ UNCHANGED <<reqs, loopVars, janitorVars, terms>>
\* One iteration's steps of the election loop.
LoopStep(n) ==
    \/ IncrementDurableEpoch(n)
    \/ IncrementDurableEpochFails(n)
    \/ AcquireLease(n)
    \/ AcquireLeaseDenied(n)
    \/ AcquireLeaseFails(n)
    \/ BecomeLeader(n)
    \/ RenewLease(n)
    \/ RenewLeaseDenied(n)
    \/ RenewLeaseFails(n)

JanitorStep(n) ==
    \/ GetDurableEpoch(n)
    \/ JudgeLock(n)
    \/ JanitorRelease(n)
    \/ JanitorFails(n)

Next ==
    \/ \E n \in Node :
        \/ LoopStep(n)
        \/ JanitorStep(n)
        \/ Stop(n)
        \/ CtxDone(n)
        \/ Crash(n)
    \/ Tick
    \/ Flush

Spec == Init /\ [][Next]_vars

\* Time passes, and the loop of every process keeps being scheduled.
FairSpec == Spec /\ WF_vars(Tick) /\ \A n \in Node : WF_vars(LoopStep(n))

-----------------------------------------------------------------------------
(* Properties. *)

Holds(n) == isLeader[n] /\ lease.req = currentValue[n]

(* At most one node believes that it leads.  README.md:31 promises it of   *)
(* the election as a whole.                                                *)
SingleLeader ==
    \A n, m \in Node : isLeader[n] /\ isLeader[m] => n = m

(* What SingleLeader takes: two nodes lead at once only after a renewal    *)
(* failed, a node was late, a leader's loop was cancelled, or a lease was  *)
(* removed by Stop, a janitor or the loss of Redis's data.  Crashes, lost  *)
(* replies to acquire and janitors that find nothing are harmless.         *)
SingleLeaderUndisturbed == ~disturbed => SingleLeader

(* Two nodes that both believe they lead carry different fencing epochs,   *)
(* so a store that compared epochs could tell them apart: acquire takes    *)
(* its epoch from an atomic INCR.                                          *)
UniqueTerms ==
    \A n, m \in Node :
        isLeader[n] /\ isLeader[m] /\ n # m
            => leaderCtx[n].epoch # leaderCtx[m].epoch

(* Until such a disturbance a node that begins a term has a larger epoch   *)
(* than every term begun before it, on any node: the "monotonic fencing    *)
(* tokens" of acquire, whose epoch is taken before the lease is.           *)
FencingMonotonic ==
    [][\A n \in Node :
          ~disturbed /\ ~isLeader[n] /\ isLeader'[n]
              => \A e \in terms : e < leaderCtx'[n].epoch]_vars

\* The step that removes the lease is one that may: its TTL runs out, the
\* leader that acquired this value releases it in Stop or ctx.Done(), the
\* janitor that judged this value releases it, or Redis loses its data.
MayRemove ==
    \/ Tick /\ lease.ttl <= 1
    \/ \E n \in Node : /\ Stop(n) \/ CtxDone(n)
                      /\ isLeader[n] /\ currentValue[n] = lease.req
    \/ \E n \in Node : JanitorRelease(n) /\ jval[n] = lease.req
    \/ Flush

(* A lease is never overwritten, and it disappears only by expiry, by the  *)
(* hand of the very leader that acquired it, of a janitor that has judged  *)
(* this very value, or with all of Redis.  A release that comes late, from *)
(* a deposed leader or a slow janitor, does not touch the lease of another *)
(* term: release, clean and the script of ReleaseLock.                     *)
LeaseRemovalJustified ==
    [][~Free /\ lease'.req # lease.req => lease' = NoLease /\ MayRemove]_vars

(* A leader whose lease is gone finds out and steps down, whatever Redis   *)
(* answers: a refused renewal or the third failure does it.                *)
DeposedStepsDown ==
    \A n \in Node : (isLeader[n] /\ ~Holds(n)) ~> ~isLeader[n]

(* A lease that no leader renews - its node crashed, gave up, or never     *)
(* learned that its SETNX was applied - goes away, whoever else is active. *)
Abandoned(r) ==
    /\ lease.req = r
    /\ \A n \in Node :
          currentValue[n] = r => ~isLeader[n] /\ pc[n] # "becomeLeader"
AbandonedLeaseExpires ==
    \A r \in 1..MaxEpoch : Abandoned(r) ~> lease.req # r

(* The elector keeps its promise to the rest of the node.                  *)
L == INSTANCE Leadership WITH Epoch <- 1..MaxEpoch
ImplementsLeadership == L!Spec
=============================================================================
