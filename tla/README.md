# FluxForge control plane: TLA+ verification project

FluxForge keeps fleets of nodes in a desired state. Several control-plane
processes share a Redis; one of them is elected leader, and its scheduler
reconciles the desired states by sending check and apply jobs to the agents on
the nodes. This directory holds TLA+ models of that control plane
(`src/control_plane`, Go), TLC configurations that check them on small
instances, and TLAPS proofs.

`PROJECT.json` lists components, runs, mutants, the map from definitions to
source lines, findings, hazards and theorems.

## 1. Inventory

| Component | Source | State | Operations |
|---|---|---|---|
| Leader elector | `coordination/leader.go` | `isLeader`, `currentEpoch`, `currentValue`, the fenced context, retry interval and failure count | `Start`/`loop`, `acquire`, `renew`, `becomeLeader`, `stepDown`, `Stop` |
| Lock janitor | `coordination/janitor.go` | none between passes | `clean`, every 60 s (`main.go:113`) |
| Redis locks, epochs | `store/redis.go` | lock keys with TTL, epoch counters | `AcquireLock`, `RenewLock`, `ReleaseLock`, `IncrementDurableEpoch`, `GetDurableEpoch` |
| Scheduler | `scheduler/scheduler.go` | `active`, mode, admission mode, node health, active task count | `Submit`, `RehydrateQueue`, `Start`, `Stop`, `worker`, `processNextTask`, `UpdateNodeHealth`, `SetMode`, `SetAdmissionMode` |
| Task queue | `scheduler/queue.go` | a heap of tasks | `Push`, `Pop`, `PushDelayed` |
| Circuit breaker | `scheduler/circuit_breaker.go` | state, test count, time it opened | `ShouldAdmit`, `RecordSuccess`, `RecordFailure` |
| Rate limiters | `scheduler/limiter.go` | token buckets per tenant and node | `Allow`, `EnsureLimiter` |
| Reconciler | `reconciler.go` | `activeReconciles`, shadow mode | `Reconcile` and its phases, `executeJob`, `waitForJob` |
| Dispatcher | `jobs.go` | none | `DispatchJob` |
| API | `api.go` | none of its own | registration, heartbeat, states, jobs and results, admission mode, idempotency wrapper |
| In-memory store | `store/memory.go` | maps of agents, jobs and states | CRUD, `UpdateStateStatus` with a version |
| Redis store | `store/redis.go`, `redis_versioned.go` | versioned hashes, status sets | the same interface, compare-and-swap scripts |
| Idempotency | `api.go`, `idempotency/store.go`, `store/redis_idempotency.go` | stored responses per key; locks and results per key | `withIdempotency` with `Get`, `Set`; `ExecuteIdempotent` and its helpers |
| Degraded mode | `resilience/*.go` | availability flags, cache, pending writes, version counter | marks, cache reads and writes, `ReconcilePendingWrites` by three callers |
| Agent registry | `coordination/agent_monitor.go`, handlers of `api.go`, agent records of `store/redis.go` | one record per agent | registration, heartbeat, `checkLiveness` every 5 s |
| WebSocket hub | `ws_hub.go`, `api_stream.go` | connected clients | register, unregister, broadcast |

How they interact. The elector calls `onElected` in a goroutine of its own
(`RehydrateQueue`, then `Start`) and `onLost` (`Stop`) from its loop
(`main.go:123-137`). Everything a term does carries the context the elector
cancels in `stepDown`; the scheduler's workers and the goroutines of the tasks
compare with that context before they call the reconciler. The reconciler locks
the agent, reads and writes the state in the store, and runs up to three jobs
through the dispatcher; agents answer later through `POST /jobs/result`, and the
run polls the store for it. `handleCreateState` calls the reconciler directly
and outside any term. Janitors of all processes look at all locks. The
monitors of all processes list all agents and write those they find silent back
as offline, while registrations and heartbeats write the same records.
`withIdempotency` stands in front of the handlers that create jobs and states and
start reconciliations.

What is hard here: leases, epochs and timers of several processes against each
other, Redis calls that take effect although they fail, callbacks that outlive
their term, a queue object that is replaced while pushes to it are pending,
counters given back on every path, and asynchronous answers of agents that are
slow, silent or quicker than the code expects. The hazards of `PROJECT.json`
name each of these at its line.

What makes each component correct:

- election: at most one leader; distinct, growing epochs; the context of a term
  dies with it; a lock is removed only by someone entitled to; a leader that
  lost its lease notices; an abandoned lease expires;
- scheduler: works only as leader; the budget holds; no task is run twice;
  accepted and left-over work is run; the callback and the worker of a term end
  after it;
- breaker: a bounded trial, closing only after it (and, as its comments have it,
  after successes), recovery when load is low;
- degraded mode: nothing newer in Redis is overwritten; writes are not lost
  silently and are replayed in the end; success means stored; memory is bounded;
- reconciler: one run and one job per agent; `compliant` means verified for the
  version that is stored; a run settles its state as far as the store lets it; every
  run ends;
- idempotency: a request repeated after its answer was stored does not run; a
  success or a refusal that is reported is true; every request is answered;
- agent registry: offline means silent, silent leads to offline, a registration
  is not undone;
- task queue: the comparison orders tasks, and waiting tasks get their turn.

## 2. Modules

| Module | Models | Role |
|---|---|---|
| `Leadership` | what `LeaderElector` promises | abstract specification |
| `LeaderElection` | `leader.go`, `janitor.go`, locks and epochs of `redis.go` | component, instantiates `Leadership` |
| `MCLeaderElection` | | instances for TLC |
| `LeaderElectionProofs` | | theorems and proofs |
| `CircuitBreaker` | `circuit_breaker.go` | operations, used by the next two |
| `CircuitBreakerLoad` | the breaker under arbitrary load | component, run by TLC |
| `CircuitBreakerProofs` | | theorems and proofs |
| `Scheduler` | `scheduler.go`, `queue.go`, the elector's callbacks | component, composed with `CircuitBreaker` |
| `MCScheduler` | | instances for TLC |
| `SchedulerProofs` | | theorems and proofs |
| `TaskQueue` | the comparison of `queue.go` | operators, with theorems about them |
| `Reconciler` | `reconciler.go`, `jobs.go`, handlers of `api.go`, `memory.go` | component |
| `MCReconciler` | | instances for TLC |
| `ReconcilerProofs` | | theorems and proofs |
| `DegradedMode` | `resilience/*.go` over the scripts of `redis_versioned.go` | component |
| `MCDegradedMode` | | instances for TLC |
| `DegradedModeProofs` | | theorems and proofs |
| `Idempotency` | `withIdempotency` of `api.go`, `idempotency/store.go`, `redis_idempotency.go` | component |
| `MCIdempotency` | | instances for TLC |
| `IdempotencyProofs` | | theorems and proofs |
| `AgentRegistry` | `agent_monitor.go`, `handleRegister`, `handleHeartbeat`, agent records of `redis.go` | component |
| `MCAgentRegistry` | | instances for TLC |
| `AgentRegistryProofs` | | theorems and proofs |

### LeaderElection

One action is one Redis round trip or one step of a loop between two. The
variables carry the names of the fields. A lock value is its epoch and its ReqID
(the UUID that makes it unique). `lease.ttl` is the TTL of the key; `lease.exp`
counts down to the moment the janitor takes the value's own `ExpiresAt` for
past. `Tick` moves all timers together and is disabled while a node is due,
unless `"stall"` is in `Env`: without it no node is later than its timer.

`Env` is a constant set of disturbances, so that one specification serves all
environments: `stall`, `redis_error` (an error before or after the effect),
`crash`, `janitor`, `stop`, `cancel`, `flush`. `acquire` is two actions,
`IncrementDurableEpoch` and `AcquireLease`, since other nodes run between its two
round trips; a pass of the janitor is `GetDurableEpoch`, `JudgeLock` and
`JanitorRelease`. The history variable `disturbed` is set by the steps after which a
leader may no longer own a live lease: a renewal that failed, a node that is late, a
cancelled loop, and a lease removed by `Stop`, a janitor or a flush. It is what the
properties about one leader and growing epochs depend on; crashes and lost replies to
`acquire` do not set it. `Leadership` knows only leaders, contexts and terms; the
refinement mapping is the identity on `isLeader`, `leaderCtx` and `terms`.

### Scheduler

Each term `k` has a callback, a worker and the goroutines it dispatched, and
they may outlive the term. `Submit` is split between its checks
(`SubmitChecks`, with the breaker) and its push (`Push`), which happens after
the lock is released. `Stop` replaces the queue; `gen` numbers the queue objects
and a delayed push (`timers`) remembers its own. The queue is a set, so a pop may
return any task: every order the comparison of `queue.go` could produce is
covered; what holds of that order is in `TaskQueue`. All callers submit with priority 5
and without failure domain, so those branches are not reachable and left out. `Start`
starts one worker per term, so the workers that overlap are those of two terms.
Registrations, changes of mode and of the status of states are counted by
`changes` and bounded by `MaxChanges`.

### Reconciler

A run is one call of `Reconcile`; `copy` is the state it read at the start, as in
the code. One action is one store access or one exchange with the agent.
`DispatchJob` is split where the agent has answered and `running` is not yet
written. The node's configuration and the agents are external: a check finds
whether the node complies with the spec of its run, an apply may or may not
bring it there, both may fail, and results may be late or lost. A job is named by
its run and phase because a run makes at most one per phase.

With `store_error` in `Env` every call of the store that a run makes may fail.
`GetState` and `GetAgent` return with the error (`reconciler.go:144-147`);
`UpdateStateStatus` logs it and the run goes on (`:317-323`). `erred` records the runs
whose last such call failed. `verified` records what checks found, with the version of
the copy the check was made for. Clients replace a state at any time with a version of
their choice (`POST /states`), which may be the one it had.

The store is the in-memory store, whose comparison of versions is modelled as
written: nothing changes a version except a client that replaces the state. `main.go`
runs the Redis store behind the same interface (`main.go:40-49`). Its
`UpdateStateStatus` does raise the version (`redis.go:361`), but no run gets that far:
its `GetState` (`redis.go:395`) marshals a value that is already JSON text once more and
cannot decode it into a `DesiredState`, so that every run ends there with an error,
which is one of the behaviours `store_error` has. What else follows from the encoding
is left to the planned `StateStore`. `Scheduler` follows the in-memory store too.

### DegradedMode

A replay is one call of `ReconcilePendingWrites`; its local copy, position and
`failCount` (as a Boolean) are in `call`, one entry per node and calling path. One
action is one critical section or one Redis call. As in the code, writes are marked by
their position in the copy (`Marked`), in whatever the list is by then. A call of
`GetVersioned` that fails is reported as "not found" (`redis_versioned.go:128`), so a
failed read is modelled as version 0. TTLs are Booleans: at least a second, or none
(`int(ttl.Seconds())` sends shorter ones as 0); a key keeps an expiry it has, since
`HMSET` does not clear it. The age of a write is the variable `outdated`; timestamps
grow with versions, so all writes up to some version are older than five minutes. The
resilience package has its own interface for the store (`VersionedRedisWriter`); the
scripts of the Redis store, whose contract its test double repeats, stand behind it.
The error branch of `reconciliation.go:60-64` is left out: apart from "not found",
`GetVersioned` fails only when it cannot decode the answer of its script, and the
versions and timestamps that the set script, the only writer of these hashes, is given
are small integers, which it can. `Env` chooses the disturbances, as above.

There are three history variables. `high` records the highest version a key has held;
`overtaken` the replays under way whose positions are no longer those of the list,
because another replay's clean-up or the trimming of a full list removed writes under
them; `suspect` the versions that such a replay has marked.

### CircuitBreaker

The operators are actions on `circuit`, `testCount` and `cooled`; `cooled` stands
for `time.Since(openedAt) > cooldownPeriod` (30 s). `CircuitBreakerLoad` runs them under
a queue depth and saturation that change at will, and counts the successes reported
since the circuit opened (`reported`).

### Idempotency

All requests of the model carry one idempotency key. Two mechanisms use disjoint
keys of the store: the wrapper that `main.go` puts around three routes, and
`ExecuteIdempotent`, which nothing calls yet. One action
is one call to the store or one run of the operation; `pc` names the call a
request makes next. The backend of the wrapper, Redis or a map in memory, is
chosen in `Init`, as `NewStore` chooses it. A response is reduced to who produced
it and its kind: a success, a refusal (4xx, 503: the handler returned before it wrote
anything) or an error. A 500 stands for a store write that reported an error and may
have been applied all the same (`api.go:307-310`, `:445-449`), so an operation that
ends in an error may or may not have had its effect. `WaitDeadline` is the 30 s limit of
`WaitForIdempotencyResult`. The history variables are `ran`
(operations that took effect), `covered` (requests that came when an answer was
there that they can read) and `lockExpired`. What the code does to the lock key is
kept as written: its value is the idempotency key, so any request may release it
and nobody can decode it as a result.

### AgentRegistry

Agents share nothing, so the module has the record of one. A heartbeat reads the
record, changes its copy and writes all of it back; a monitor lists, judges and
writes back; a registration writes a new record. Nothing compares versions, so
every interleaving of these is explored. Timestamps are ages in ticks of the
monitor's 5 s, raised by `Tick` in the store and in every copy. `silence`,
`registered` and `raced` are history variables: how long ago the newest timestamp
was that reached the store, what was registered last, and whether a copy of the
record it replaced was still under way.

### TaskQueue

`Less` as an operator of two tasks and a moment, with the truncation of Go's
`int()`. The heap of `container/heap` keeps an order made of comparisons at
different moments; the theorems say which part of the order is the same at all
of them.

## 3. Runs

Passing runs:

| Run | Shows | Bounds |
|---|---|---|
| `election_faults` | type; the lease is removed only in a step of someone entitled to that very value; one leader and growing epochs until a disturbance; under all seven disturbances at once | 2 nodes with their janitors, 2 attempts, TTL of 2 periods |
| `election_live` | unique epochs; refinement of `Leadership`; a deposed leader steps down and an abandoned lease goes away, with stalls, Redis errors, crashes and janitors | 2 nodes, 2 attempts |
| `breaker` | bounded trial, closing only after it, recovery | the code's 5 trial requests, loads on both sides of each threshold |
| `scheduler_terms` | type, budget and no duplicate task, with the workers and callbacks of two terms side by side and all disturbances at once | 2 terms, 1 request, 1 state, budget 1, 1 registration or change of mode or status |
| `scheduler_live` | accepted and left-over work is run, the callback and the worker of a term end after it, with throttling and crashes | 2 terms, 1 request, 1 state |
| `reconciler_faults` | exclusive agent lock, compliant means verified for the stored version, runs settle the state unless it is replaced or the store fails, every run ends | 2 runs on one state, which is replaced once, with the same or another version |
| `degraded_replay` | no older value replaces a newer one, success means stored, the list drains, under outages, lost replies, expiry, aging, foreign writes | 1 node and the rest of the world, 3 writes, a list that does not fill up, the periodic replay |
| `degraded_overlap` | type, degraded flag, bounds of cache and list; how a write may leave the list without having been in Redis | 2 replays of one node at a time, 2 keys, 3 writes, room for 2 writes and 1 key |
| `idempotency` | a stored answer keeps repeated requests from running, successes and refusals are true, every request is answered; with Redis errors, clients that go away, expiry and crashes | 3 requests: one through the wrapper, one through the two-phase path, one through either |
| `agent_registry` | offline means silent, no mixed record, registrations undone only by older copies, the status follows the agent in the end; with operations of any length, an error and an agent that stops and resumes | 2 requests at a time, 1 monitor, 2 registrations, threshold of 1 tick |

The violation runs, one for each finding (the counterexample is the message):

| Run | The code does |
|---|---|
| `election_janitor` | a janitor fences off a healthy leader because someone else's attempt raised the epoch; two nodes lead |
| `breaker_successes` | the circuit closes on the call after five admissions, with no success reported; `circuit_breaker.go:43` and `:53` say that closing takes five successes |

Other counterexamples TLC gave while the models were written. They can be had
again by giving the named formula to the specification with the named `Env`:

- `SingleLeader` of `LeaderElection` with `redis_error`, TTL 3, `MaxInterval` 30: the
  doubling interval makes three failed renewals (10 + 20 + 40 s) take longer than the
  lease lives (`leader.go:170`).
- `FencingMonotonic` without `~disturbed`, with `stall`: the epoch is taken before
  SETNX (`leader.go:194`, `:220`), so a term may begin with an epoch older than that
  of a finished term.
- `UniqueTerms` with `flush`: the epochs are kept in the Redis that was flushed
  (`leader.go:193` expects otherwise).
- A janitor releases the lease of a single leader that renews in time (`janitor`):
  renewal never moves the `ExpiresAt` in the value (`janitor.go:96`).
- `active => elector # "follower"` of `Scheduler`: `RehydrateQueue` runs in its own
  goroutine and activates a scheduler that was stopped (`scheduler.go:253`).
- `~active => queue = {}`: `Submit` pushes on the new queue of a scheduler that was
  stopped after its checks (`scheduler.go:196`).
- `Cardinality(queue) <= QueueCap`: the length is compared with `>` and apart from the
  push (`scheduler.go:163`).
- `activeTasks <= MaxConcurrency`: only the fixed budget of 100 is a limit
  (`scheduler.go:524`).
- With `register`, under `FairSpec`, a request for an agent that registered here is
  not run: a registration sets one of the signals, the composite score is 0.2 and the
  node is quarantined (`scheduler.go:419`; `api.go:168` means "perfect health").
- `Reconciler` with `timeout`: two jobs of one agent in `inbox`. The run gives up
  after 30 s and frees the agent while its job still executes (`reconciler.go:286`;
  `:358` says "acquireLock enforces per-agent exclusivity").
- `NoSilentLoss` of `DegradedMode` without `suspect`, in `degraded_overlap` or with
  the periodic replay alone and room for 2 of 3 writes: a drop or a clean-up shifts
  the positions, and a write that was never sent is marked and removed
  (`reconciliation.go:98`; `degraded_mode.go:29`: "Prevents state divergence by
  tracking pending writes for reconciliation").
- `Len(pendingWrites[n]) <= MaxPendingWrites`: nothing is dropped from a full list of
  marked writes (`degraded_mode.go:177`); `MemoryBounded` says what holds.
- A replay of `DegradedMode` writes while `leadership.epoch` differs from its own: the
  epoch is looked at before and after (`leader_reconciliation.go:101`).
- A completed job of `Reconciler` stays completed: `running` is written after the
  agent's answer and may overwrite a quick result (`jobs.go:74`).
- `CompliantVerified` of `Reconciler` for the stored spec instead of the stored
  version: `UpdateStateStatus` compares a version that nothing but a client changes
  (`memory.go:105`), so a run marks a state compliant that was replaced, under the
  same version, after it read it (`README.md:32` of the repository: "No lost updates.
  Ever.").
- `SettledOnReturn` without `erred`: a failed `UpdateStateStatus` leaves the state as
  it was, and so does a failed `GetAgent` (`reconciler.go:144`, `:317`; "next loop
  will retry", `:323`, but states are listed only when a term begins).
- `\A r, q \in ran : r = q` of `Idempotency`: two requests that both find no record
  both run (`api.go:90`), and so does the retry of a request whose client went away,
  since the record is stored in the cancelled context (`api.go:104`).
- "A repeated request is not answered with a refusal" of `Idempotency`: every response
  is stored for 24 hours, 429 and 503 included (`idempotency/store.go:80`).
- `TwoPhase` requests that run without an expiry are impossible, which is proved
  (`ExecutionNeedsExpiry`): `ExecuteIdempotent` takes its lock and then looks for an
  earlier state under the key of that lock, whose value is not JSON
  (`redis_idempotency.go:75`), so that it fails until a lock expires between the two
  calls. The comments promise the opposite: "LOCK → EXECUTE → RESULT" (`:142-143`),
  "Handles LOCKED state by polling" (`:108-109`), "only one request reaches here"
  (`:192`). Nothing calls the function so far.
- `~raced` of `AgentRegistry`, and with it an address that a heartbeat or a monitor
  writes back over the one just registered (`redis.go:305`, `agent_monitor.go:72`).
- `OfflineNeedsSilence` without the reservation about slow operations: a monitor
  judges a copy that is old by then (`agent_monitor.go:67`). The threshold of 10 s is
  also the interval at which agents send heartbeats.
- A pending state of `Reconciler` is reconciled in the end, under `FairSpec`: a run
  skipped because its agent is busy counts as done (`reconciler.go:132`).

Why the bounds are enough. The safety hazards of the election need two nodes, a lease
that ends, one that begins and an attempt that is late: two attempts, one per lease.
The counterexamples above that need more of them take at most four. All safety
properties of the election are proved without a bound. Two terms are the least for
callbacks, workers and delayed pushes of an old term to meet a new one, and no
mechanism of the code involves three. Two runs on one state are what contention for
the agent lock, a result that comes late and a replacement during a run need. For
replays of one node, all others are the author of foreign writes and the other leader;
three writes let one arrive while two are replayed, and with room for two of them the
list is full when the third comes. Two requests that overlap are what the answers of
either mechanism can differ by: the answer of one is stored or not when the other
looks; the third belongs to the other mechanism. The record of an agent has three
kinds of writers: two requests and a monitor are one of each. That monitors overlap is
covered by the theorems on safety only; `SilentGoesOffline` is checked with one. The
properties marked below as proved do not depend on bounds at all.

Deadlock is not checked for the scheduler, the reconciler, degraded mode, idempotency and
the registry: an idle control plane may stop, and terms, requests, runs and errors are
bounded.

Fairness. `LeaderElection`: time passes and the loop of every process is scheduled;
every call of Redis may fail, for ever if need be. `Scheduler`: goroutines and timers
run (weak fairness); a `select` that has `ctx.Done()` ready again and again picks it
at some time, since Go chooses at random (strong fairness of `WorkerStops`); a limiter
refills, so that it does not refuse for ever (strong fairness of `Dispatch`).
`Reconciler`: goroutines run, the 30 s timer fires, agents finish what they have;
nothing waits for the store to fail. `DegradedMode`: the ticker fires, replays go on,
and not every reply of Redis is lost (strong fairness of `SetSucceeds`); `Drains`
itself assumes that Redis answers and leadership is settled in the end. `Idempotency`:
handlers return and calls to Redis have timeouts, so the goroutine of a request goes
on. `AgentRegistry`: time passes, tickers fire, calls return, and a live agent goes on
sending heartbeats, which its limiter admits in the end. No fairness is assumed of
elections, requests, crashes, or the delivery of results.

## 4. Proofs

`LeaderElectionProofs` proves, for every set of nodes and every timing that
satisfies `TimingAssumption` (the period is positive and shorter than the TTL):

| Theorem | Environment | Statement |
|---|---|---|
| `TypeCorrect` | any | `TypeOK` |
| `LeaseRemoval` | any | `LeaseRemovalJustified`: a lease goes away in a step of time, of the leader that acquired this value, of the janitor that judged this value, or of a flush |
| `TermInvariant`, `TermsAreUnique` | no flush | `TermInv`, and from it `UniqueTerms` |
| `Refinement` | no flush | `LeaderElection` implements `Leadership` |
| `OneLeader` | any | `SingleLeaderUndisturbed` |
| `FencingGrows` | any | `FencingMonotonic`, until a disturbance |

`UniqueTerms` is not inductive: two leaders with distinct epochs say nothing
about an attempt under way that carries one of them. `TermInv` adds that every
epoch anywhere was issued (`EpochsIssued`), that an attempt under way has an epoch
no other node has and no term had (`AttemptsFresh`), and that leaders are in
`terms` (`LeadersHaveTerms`). It is preserved by every step but a flush, which is
exactly the environment in which TLC refutes `UniqueTerms`. The refinement follows
from it: a term that begins is new.

`SingleLeaderUndisturbed` rests on `LeaseInv`, which holds until `disturbed`: who
leads, or is about to, owns the lease (`ClaimsOwn`), and the lease outlives the
owner's timer (`LeaseOutlivesTimer`), which holds because a renewal resets both and
the period is shorter than the TTL. `FencingMonotonic` needs besides that an attempt
which can still win is newer than all terms (`EpochsAhead`). `disturbed` is needed:
TLC refutes both properties without it as soon as a janitor, Redis errors or stalls
are in `Env` (section 3).

`SchedulerProofs` proves, for any number of terms, requests, states, agents and changes
and any `Env`, from `SchedulerAssumption` (`"none"` and the origins `"pending"` and
`"drifted"` are not names of requests; the rest are types of the constants):

| Theorem | Statement | Inductive invariant |
|---|---|---|
| `TasksExistOnce` | `NoDuplicates` | `TaskInv`: a task is at one place (`Unique`), and one that is anywhere will not be submitted again (`PresentIsSpent`): its request was made, or its term's list has been gone through up to its state |
| `BudgetIsRespected` | `BudgetRespected` | `BudgetInv`: the goroutines are a finite set whose cardinality is `activeTasks` and at most the budget |
| `TypeCorrect` | `TypeOK` | `PlaceType`, `ControlType`, `SwitchType` beside the two above |

`NoDuplicates` alone is not inductive: the callback of a term could submit a state whose
task is already in the queue. That it does not needs `PresentIsSpent`, and that one needs
`TermInv` (a queue is never newer than its term, and terms that have not begun have no
callback), since two callbacks of the same term would list twice. The budget rests on
`NoDuplicates`: when a goroutine ends, `activeTasks` goes down by one, and so does the
set, because no other goroutine has the same task.

`ReconcilerProofs` proves, for any number of states, agents and runs and any `Env`, from
`ReconcilerAssumption`:

| Theorem | Statement | Inductive invariant |
|---|---|---|
| `TypeCorrect` | `TypeOK` | `CopyInv`: a run has read its state before it acts, its copy is not newer than the stored state and has its version unless the state was replaced |
| `LockIsExclusive` | `LockExclusive` | `LockInv`: runs past `acquireLock` have distinct agents, and these are the locked ones |
| `CompliantIsVerified` | `CompliantVerified` | `MatchInv`: a match on its way or recorded comes from a check of a spec that was stored under the version the run has read |
| `RunsSettle` | `SettledOnReturn` | what a run has concluded is stored, unless the state was replaced or the run's last update failed; with `CopyInv` and `LockInv` |

No theorem restricts replacements or failures. `CompliantVerified` speaks of versions
because that is what `UpdateStateStatus` compares: a client that replaces a state without
giving it another version can have it reported compliant for the spec it replaced
(section 3). `SettledOnReturn` needs the lock: another run of the state could set it back
to drifted between the last write of a run and its return.

`DegradedModeProofs` proves, for every set of nodes, keys and callers, all limits and any
`Env`, from `DegradedAssumption`:

| Theorem | Statement | Inductive invariant |
|---|---|---|
| `DegradedFlag` | `DegradedWhileImpaired` | itself with the types of the flags |
| `StoreSuperseded` | `StoreNeverRegresses` | none needed: every write goes through the script (`ScriptSupersedes`), so nothing depends on what a replay read before |
| `SuccessSynced` | `SuccessIsSynced` | `StoreInv` (`high` bounds the versions in Redis) and `CallInv`: what a replay has passed without an error is in Redis or superseded (`Loop`) |
| `MemoryStaysBounded` | `MemoryBounded` | `CacheInv` (no key twice, so that the counter is the cardinality) and `PendingInv` |
| `TypeCorrect` | `TypeOK` | all of the above and `WritesType`, `SwitchType` |
| `NoWriteLost` | `NoSilentLoss` | `Lists` (what is marked was in Redis, is too old, or is `suspect`) and `Alignment` (the positions of a snapshot under way are those of the list, unless its replay was overtaken) |
| `UnreconciledPicks` | the clean-up loop keeps exactly the open writes, in order | |

`NoWriteLost` has no condition on callers or limits. It says exactly which writes are
lost: the oldest open one of a full list, by design, and those marked by a replay under
which writes were removed. The second kind is a loss nobody intended (section 3).
The argument: a list only grows at its end, except where a replay cleans up or a full
list is trimmed, and these steps put every other replay of the node that is under way
into `overtaken` (`Shifts`); a replay that is not in it keeps its positions.

The loops of the code that a proof has to see through are recursive functions, not
`RECURSIVE` operators. The library's induction theorems take an operator as a parameter
and cannot be used; `SmallestNat` takes the least element of a set from `WFMin`, and
`InductionUpTo` is induction in the form of a set. With it `LoopExists` shows that the
recursive definition of `Unreconciled` has a solution and `UnreconciledPicks` what it is.

`CircuitBreakerProofs` proves, for every threshold, trial limit and set of loads with
`BreakerAssumption` and `LoadAssumption`: `TypeCorrect` (`TypeOK`), `TrialsAreBounded`
(`TrialBounded`) and `ClosingTakesATrial` (`ClosesAfterTrial`). The invariant
`TrialInv` ties the history of admitted requests to `testCount` in each state of the
circuit.

`IdempotencyProofs` proves, for any number of requests and any `Env`:

| Theorem | Statement | Inductive invariant |
|---|---|---|
| `TypeCorrect` | `TypeOK` | `TypeInv`: a request about to store an answer has one to store |
| `RepeatsDoNotRerun` | `RepeatNotRerun` | `RanInv` (who ran is past the operation) and `CoverInv` (who is covered has not run and either is about to find the answer, which is still there, or has found it) |
| `AnswersAreTrue` | `AnswerIsTrue` | `TruthInv`: the stored record and the result, not only the answers, are true (an error claims nothing), and a refusal names a request that cannot run any more |
| `ExecutionNeedsExpiry` | `ExecutesOnlyAfterExpiry` | `HolderInv`: until a lock expires there is no result, nobody executes, and there is at most one holder, whose lock is there |

`AgentRegistryProofs` proves, for any number of overlapping requests and monitors, every
threshold and any `Env`, from `RegistryAssumption`:

| Theorem | Statement | Inductive invariant |
|---|---|---|
| `TypeCorrect` | `TypeOK` | itself |
| `OfflineRecordsAreStale` | `OfflineIsStale` | `StaleInv`: copies about to be written are active if they come from the agent, and stale if a monitor judged them |
| `OfflineOnlyIfSilent` | `OfflineNeedsSilence` | `SilenceInv`: while no operation outlived a tick, no stored timestamp is older than `silence` says, and copies are as fresh |
| `RegistrationsAreKept` | `RegistrationKept` | `KeptInv`: copies under way agree with the last registration unless it raced with one |

`TaskQueue` proves facts about the comparison for all tasks and moments: at one moment
it is a strict weak order although it mixes a truncated priority and a deadline
(`LessIsStrictWeakOrder`); two tasks two points apart compare the same way whenever
the heap compares them (`TwoPointsAreSettled`; one point is not enough, since truncation
towards zero folds two points into the integer 0); and a task precedes, in every
comparison, all that were submitted long enough after it (`WaitingWins`).

Every safety property of the passing runs is stated by a theorem. Only model-checked: the
liveness properties (`DeposedStepsDown`, `AbandonedLeaseExpires`, `Recovers`,
`DeposedTermEnds`, `AcceptedTaskRuns`, `LeftoverStateRuns`, `RunsEnd`, `Drains`,
`RequestsEnd`, `SilentGoesOffline`, `AliveIsShown`), since the prover has no reasoning
about fairness and `ENABLED`.

## 5. Not modelled

Planned below: the states and jobs of the Redis store, and the WebSocket hub. Not
planned: `handleSubmitJob`, which dispatches one job outside of the reconciler; the
Postgres store (`main.go` never constructs it); authentication and attestation
(cryptography without own state); dashboards, incidents and timeline (read-only views
or append-only lists); metrics and logs, the web frontend, scripts and deployment
files. `GetIdempotencyRecord`, `SetIdempotencyRecord` and `ExecuteIdempotent` of the
Redis store have no caller; the last is modelled nevertheless.
`CompareAndSetVersioned` is called by `UpdateStateStatus` (`redis.go:370`) and belongs
to the planned `StateStore`.

Hazards outside the models: `processNextTask` reads the map of node healths without
the lock that `UpdateNodeHealth` writes it under (`scheduler.go:446`); pending and
drifted states are listed one after the other, so that a state may be in neither list
(`scheduler.go:257`); versions of degraded mode come from a counter of the process
that starts at 0 (`degraded_mode.go:223`); the hub and the ping goroutine of a stream
write to one WebSocket connection concurrently (`ws_hub.go:104`). `AgentRegistry`
follows the Redis store; the in-memory one does not change the status on a heartbeat
(`memory.go`, `UpdateAgentHeartbeat`), so an agent once marked offline there stays so
until it registers again.

## 6. Plan

In order of importance; the first ten groups exist.

1. Election with janitor and locks, its abstract specification, its proofs.
2. Circuit breaker and its proofs.
3. Scheduler, composed with the breaker and the callbacks of the elector.
4. Reconciler with dispatcher, agents and the in-memory store.
5. `DegradedMode`: cached writes and their replay against writes of others.
6. `Idempotency`: both mechanisms, and their proofs.
7. `AgentRegistry`: records of agents under concurrent whole-record writes, and its
   proofs.
8. `TaskQueue`: the comparison with aging.
9. Proofs for `Reconciler` and `Scheduler`.
10. Proofs for `DegradedMode`, with an account of the writes that are lost.
11. `StateStore`: `UpsertState` and `UpdateStateStatus` over the scripts of
    `redis_versioned.go`, the encoding that `GetState` has to undo, status sets
    against status fields.
12. A composition of scheduler and reconciler: what a term that ends between two
    phases leaves to the next.
13. `MetricsHub`: the hub's clients, their limit and their channels.
