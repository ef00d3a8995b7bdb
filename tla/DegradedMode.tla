---------------------------- MODULE DegradedMode ----------------------------
(***************************************************************************)
(* Writes made while Redis is away and their replay: degraded_mode.go,     *)
(* reconciliation.go and leader_reconciliation.go of resilience, over the  *)
(* versioned hashes of store/redis_versioned.go.                           *)
(*                                                                         *)
(* A node answers writes from its cache and remembers them in              *)
(* pendingWrites, each with a version from the node's own counter.  A      *)
(* replay is a call of ReconcilePendingWrites, by the periodic task of the *)
(* leader, by the caller that marks Redis available again, or under the    *)
(* distributed lock.  One action is one critical section or one Redis call *)
(* of it; replays of one node may overlap each other and new writes.  A    *)
(* write is known by its node and version.  Values are named by who wrote  *)
(* them.  natsAvailable is never changed and left out.                     *)
(*                                                                         *)
(* Env is the set of things that may happen besides:                       *)
(*   "outage"  Redis stops and resumes answering;                          *)
(*   "others"  processes not in degraded mode write to Redis;              *)
(*   "ttl"     writes may have a TTL, and keys expire;                     *)
(*   "aging"   writes become older than five minutes;                      *)
(*   "db"      the database is marked unavailable and available;           *)
(*   "cache"   the cache is read and cleared.                              *)
(***************************************************************************)
EXTENDS Naturals, FiniteSets, FiniteSetsExt, SequencesExt

CONSTANTS
    Nodes,             \* control-plane processes with a DegradedMode each
    Keys,              \* keys written
    Other,             \* the author of writes that do not go through it
    Paths,             \* the callers of ReconcilePendingWrites explored
    Env,               \* the disturbances that may happen
    MaxCacheSize,      \* maxCacheSize (10000 in the code)
    MaxPendingWrites,  \* maxPendingWrites (10000 in the code)
    MaxVersion,        \* bound: writes per node
    MaxEpoch           \* bound: changes of leader

ASSUME DegradedAssumption ==
    /\ Other \notin Nodes
    /\ Paths \subseteq {"periodic", "recovery", "locked"}
    /\ Env \subseteq {"outage", "others", "ttl", "aging", "db", "cache"}
    /\ MaxCacheSize \in Nat \ {0}
    /\ MaxPendingWrites \in Nat \ {0}
    /\ MaxVersion \in Nat
    /\ MaxEpoch \in Nat

VARIABLES
    redis,              \* the versioned hashes
    high,               \* history: the highest version a key has held
    up,                 \* whether Redis answers
    lock,               \* whether reconciliation-global-lock is taken
    leadership,         \* what getLeaderInfo answers: epoch and leader
    redisAvailable,     \* the node's opinion of Redis
    dbAvailable,        \* the node's opinion of the database
    degradedModeActive, \* the flag IsDegraded returns
    localCache,         \* keys of the cache, the longest unused first
    cacheSize,          \* the counter kept beside the map
    pendingWrites,      \* writes to be replayed, oldest first
    currentVersion,     \* the node's version counter
    outdated,           \* versions up to this one are more than 5 min old
    overtaken,          \* history: replays under which writes were removed
    suspect,            \* history: versions marked by such a replay
    coordinator,        \* the leadership a node was told of
    call                \* the replays under way

storeVars == <<redis, high>>
envVars == <<up, lock, leadership>>
flagVars == <<redisAvailable, dbAvailable, degradedModeActive>>
cacheVars == <<localCache, cacheSize>>
writeVars == <<pendingWrites, currentVersion, outdated, overtaken, suspect>>
callVars == <<coordinator, call>>
vars == <<storeVars, envVars, flagVars, cacheVars, writeVars, callVars>>

Calls == Nodes \X Paths
TTLs == {FALSE} \cup (IF "ttl" \in Env THEN {TRUE} ELSE {})
Absent == [version |-> 0, value |-> Other, expires |-> FALSE]
Hash == [version : 0..MaxVersion, value : Nodes \cup {Other},
         expires : BOOLEAN]
PendingWrite == [key : Keys, version : 1..MaxVersion, ttl : BOOLEAN,
                 reconciled : BOOLEAN]
CallRecord == [pc : {"idle", "validate", "snapshot", "get", "set", "mark",
                     "clean", "return"},
               pending : Seq(PendingWrite), i : Nat, failed : BOOLEAN,
               epoch : 0..MaxEpoch]
NoCall == [pc |-> "idle", pending |-> <<>>, i |-> 1, failed |-> FALSE,
           epoch |-> 0]

Init ==
    /\ redis = [k \in Keys |-> Absent]
    /\ high = [k \in Keys |-> 0]
    /\ up = TRUE
    /\ lock = FALSE
    /\ leadership = [epoch |-> 0, leader |-> Other]
    /\ redisAvailable = [n \in Nodes |-> TRUE]
    /\ dbAvailable = [n \in Nodes |-> TRUE]
    /\ degradedModeActive = [n \in Nodes |-> FALSE]
    /\ localCache = [n \in Nodes |-> <<>>]
    /\ cacheSize = [n \in Nodes |-> 0]
    /\ pendingWrites = [n \in Nodes |-> <<>>]
    /\ currentVersion = [n \in Nodes |-> 0]
    /\ outdated = [n \in Nodes |-> 0]
    /\ overtaken = {}
    /\ suspect = [n \in Nodes |-> {}]
    /\ coordinator = [n \in Nodes |-> [epoch |-> 0, isLeader |-> FALSE]]
    /\ call = [c \in Calls |-> NoCall]

-----------------------------------------------------------------------------
(* The versioned hashes. *)

\* Mutant: equal versions may overwrite.
NewerOrEqual(v, h) == h = Absent \/ v >= h.version

\* The comparison of the script behind SetVersioned.
Newer(v, h) == h = Absent \/ v > h.version

\* HMSET keeps an expiry the key already has; ttl 0 sets none.
Written(h, v, author, ttl) ==
    [version |-> v, value |-> author, expires |-> h.expires \/ ttl]

\* SetVersioned with its two replies, success and version conflict.
SetVersioned(k, v, author, ttl) ==
    /\ Newer(v, redis[k])
    /\ redis' = [redis EXCEPT ![k] = Written(@, v, author, ttl)]
    /\ high' = [high EXCEPT ![k] = IF v > @ THEN v ELSE @]

SetVersionedConflicts(k, v) == ~Newer(v, redis[k]) /\ UNCHANGED storeVars

\* The version GetVersioned returns.  The result of a call that failed is nil,
\* which is reported as "not found" just as a missing key is.
GetVersioned(k) == IF up THEN redis[k].version ELSE 0

\* A write by a process that is not in degraded mode.
OtherWrite(k, v, ttl) ==
    /\ up
    /\ SetVersioned(k, v, Other, ttl)
    /\ UNCHANGED <<envVars, flagVars, cacheVars, writeVars, callVars>>

\* Redis removes a key whose TTL has run out.
Expire(k) ==
    /\ redis[k].expires
    /\ redis' = [redis EXCEPT ![k] = Absent]
    /\ UNCHANGED <<high, envVars, flagVars, cacheVars, writeVars, callVars>>

RedisChanges ==
    /\ up' = ~up
    /\ UNCHANGED <<storeVars, lock, leadership, flagVars, cacheVars,
                   writeVars, callVars>>

-----------------------------------------------------------------------------
(* degraded_mode.go *)

\* Mutant: the database is forgotten.
CheckDegradedModeRedis(n, redisOk, dbOk) ==
    IF redisOk THEN FALSE ELSE degradedModeActive[n]

\* checkDegradedMode, given the flags of the dependencies.
CheckDegradedMode(n, redisOk, dbOk) ==
    IF redisOk /\ dbOk THEN FALSE ELSE degradedModeActive[n]

MarkRedisUnavailable(n) ==
    /\ redisAvailable[n]
    /\ redisAvailable' = [redisAvailable EXCEPT ![n] = FALSE]
    /\ degradedModeActive' = [degradedModeActive EXCEPT ![n] = TRUE]
    /\ UNCHANGED <<storeVars, envVars, dbAvailable, cacheVars, writeVars,
                   callVars>>

MarkRedisAvailable(n) ==
    /\ ~redisAvailable[n]
    /\ redisAvailable' = [redisAvailable EXCEPT ![n] = TRUE]
    /\ degradedModeActive' =
        [degradedModeActive EXCEPT
            ![n] = CheckDegradedMode(n, TRUE, dbAvailable[n])]
    /\ UNCHANGED <<storeVars, envVars, dbAvailable, cacheVars, writeVars,
                   callVars>>

MarkDBUnavailable(n) ==
    /\ dbAvailable[n]
    /\ dbAvailable' = [dbAvailable EXCEPT ![n] = FALSE]
    /\ degradedModeActive' = [degradedModeActive EXCEPT ![n] = TRUE]
    /\ UNCHANGED <<storeVars, envVars, redisAvailable, cacheVars, writeVars,
                   callVars>>

MarkDBAvailable(n) ==
    /\ ~dbAvailable[n]
    /\ dbAvailable' = [dbAvailable EXCEPT ![n] = TRUE]
    /\ degradedModeActive' =
        [degradedModeActive EXCEPT
            ![n] = CheckDegradedMode(n, redisAvailable[n], TRUE)]
    /\ UNCHANGED <<storeVars, envVars, redisAvailable, cacheVars, writeVars,
                   callVars>>

\* The cache after an access to key k.
Touched(cache, k) == Append(RemoveFirst(cache, k), k)

GetFromCache(n, k) ==
    /\ k \in Range(localCache[n])
    /\ localCache' = [localCache EXCEPT ![n] = Touched(@, k)]
    /\ UNCHANGED <<storeVars, envVars, flagVars, cacheSize, writeVars,
                   callVars>>

ClearCache(n) ==
    /\ localCache' = [localCache EXCEPT ![n] = <<>>]
    /\ cacheSize' = [cacheSize EXCEPT ![n] = 0]
    /\ UNCHANGED <<storeVars, envVars, flagVars, writeVars, callVars>>

\* Mutant: the limit is taken for the number that may remain.
TrimmedLate(writes) ==
    LET open == {i \in DOMAIN writes : ~writes[i].reconciled}
    IN  IF Len(writes) > MaxPendingWrites /\ open # {}
        THEN RemoveAt(writes, Min(open))
        ELSE writes

\* The pending writes without the oldest one that is not reconciled, when
\* there are as many as allowed.  With only reconciled ones nothing goes.
Trimmed(writes) ==
    LET open == {i \in DOMAIN writes : ~writes[i].reconciled}
    IN  IF Len(writes) >= MaxPendingWrites /\ open # {}
        THEN RemoveAt(writes, Min(open))
        ELSE writes

\* History: the replays of n that are going over their snapshot.
Looping(n) ==
    {c \in Calls : c[1] = n /\ call[c].pc \in {"get", "set", "mark"}}

\* SetInCacheWithTTL: trim, evict the longest unused entry, store, remember.
SetInCacheWithTTL(n, k, ttl) ==
    LET full == cacheSize[n] >= MaxCacheSize /\ localCache[n] # <<>>
        kept == IF full THEN Tail(localCache[n]) ELSE localCache[n]
        size == IF full THEN cacheSize[n] - 1 ELSE cacheSize[n]
        write == [key |-> k, version |-> currentVersion[n] + 1, ttl |-> ttl,
                  reconciled |-> FALSE]
    IN  /\ currentVersion[n] < MaxVersion
        /\ localCache' = [localCache EXCEPT ![n] = Touched(kept, k)]
        /\ cacheSize' =
            [cacheSize EXCEPT ![n] = IF k \in Range(kept) THEN size
                                                          ELSE size + 1]
        /\ currentVersion' = [currentVersion EXCEPT ![n] = @ + 1]
        /\ pendingWrites' =
            [pendingWrites EXCEPT ![n] = Append(Trimmed(@), write)]
        /\ overtaken' = IF Trimmed(pendingWrites[n]) = pendingWrites[n]
                        THEN overtaken ELSE overtaken \cup Looping(n)
        /\ UNCHANGED <<storeVars, envVars, flagVars, outdated, suspect,
                       callVars>>

\* Time passes: the writes of n up to version v are now over 5 minutes old.
Age(n, v) ==
    /\ v \in (outdated[n] + 1)..currentVersion[n]
    /\ outdated' = [outdated EXCEPT ![n] = v]
    /\ UNCHANGED <<storeVars, envVars, flagVars, cacheVars, pendingWrites,
                   currentVersion, overtaken, suspect, callVars>>

-----------------------------------------------------------------------------
(* reconciliation.go: the replay of call c = <<node, path>> *)

\* Mutant: one position too far.
AtOneMore(r, i) ==
    [r EXCEPT !.i = i,
              !.pc = IF i > Len(r.pending) + 1 THEN "clean" ELSE "get"]

\* The loop goes on at position i, or ends.
At(r, i) ==
    [r EXCEPT !.i = i, !.pc = IF i > Len(r.pending) THEN "clean" ELSE "get"]

Write(c) == call[c].pending[call[c].i]
Done(c) == call' = [call EXCEPT ![c] = At(@, @.i + 1)]

\* Mutant: the error of SetVersioned is not counted.
FailedUncounted(c) == call' = [call EXCEPT ![c] = At(@, @.i + 1)]

Failed(c) ==
    call' = [call EXCEPT ![c] = At([@ EXCEPT !.failed = TRUE], @.i + 1)]
Goto(c, pc) == call' = [call EXCEPT ![c] = [@ EXCEPT !.pc = pc]]

\* Mutant: the copy is marked instead of the list.
MarkedCopy(writes, i) == writes

\* Writes are marked by their position in the snapshot.
Marked(writes, i) ==
    IF i <= Len(writes) THEN [writes EXCEPT ![i].reconciled = TRUE] ELSE writes

Mark(c) ==
    LET n == c[1]
        hit == DOMAIN pendingWrites[n] \cap {call[c].i}
    IN  /\ pendingWrites' = [pendingWrites EXCEPT ![n] = Marked(@, call[c].i)]
        /\ suspect' = IF c \in overtaken
                      THEN [suspect EXCEPT ![n] =
                            @ \cup {pendingWrites[n][i].version : i \in hit}]
                      ELSE suspect

\* The copy of pendingWrites under the mutex.
Snapshot(c) ==
    LET writes == pendingWrites[c[1]]
    IN  /\ call[c].pc = "snapshot"
        /\ call' = [call EXCEPT
                ![c] = IF writes = <<>>
                       THEN [@ EXCEPT !.pc = "return"]
                       ELSE At([@ EXCEPT !.pending = writes], 1)]
        /\ UNCHANGED <<storeVars, envVars, flagVars, cacheVars, writeVars,
                       coordinator>>

SkipReconciled(c) ==
    /\ call[c].pc = "get"
    /\ Write(c).reconciled
    /\ Done(c)
    /\ UNCHANGED <<storeVars, envVars, flagVars, cacheVars, writeVars,
                   coordinator>>

\* A write older than five minutes is given up.
SkipStale(c) ==
    /\ call[c].pc = "get"
    /\ ~Write(c).reconciled
    /\ Write(c).version <= outdated[c[1]]
    /\ Mark(c)
    /\ Failed(c)
    /\ UNCHANGED <<storeVars, envVars, flagVars, cacheVars, currentVersion,
                   outdated, overtaken, coordinator>>

\* GetVersioned, and the comparison that decides what is next.
GetExisting(c) ==
    /\ call[c].pc = "get"
    /\ ~Write(c).reconciled
    /\ Write(c).version > outdated[c[1]]
    /\ Goto(c, IF GetVersioned(Write(c).key) >= Write(c).version
               THEN "mark" ELSE "set")
    /\ UNCHANGED <<storeVars, envVars, flagVars, cacheVars, writeVars,
                   coordinator>>

SetSucceeds(c) ==
    /\ call[c].pc = "set"
    /\ up
    /\ SetVersioned(Write(c).key, Write(c).version, c[1], Write(c).ttl)
    /\ Goto(c, "mark")
    /\ UNCHANGED <<envVars, flagVars, cacheVars, writeVars, coordinator>>

\* Redis is away, has a newer version by now, or its reply is lost.
SetFails(c) ==
    /\ call[c].pc = "set"
    /\ \/ ~up /\ UNCHANGED storeVars
       \/ up /\ SetVersionedConflicts(Write(c).key, Write(c).version)
       \/ up /\ SetVersioned(Write(c).key, Write(c).version, c[1],
                             Write(c).ttl)
    /\ Failed(c)
    /\ UNCHANGED <<envVars, flagVars, cacheVars, writeVars, coordinator>>

MarkReconciled(c) ==
    /\ call[c].pc = "mark"
    /\ Mark(c)
    /\ Done(c)
    /\ UNCHANGED <<storeVars, envVars, flagVars, cacheVars, currentVersion,
                   outdated, overtaken, coordinator>>

\* Mutant: whatever is pending by now is taken for reconciled.
CleanUpAll(c) ==
    /\ call[c].pc = "clean"
    /\ pendingWrites' = [pendingWrites EXCEPT ![c[1]] = <<>>]
    /\ Goto(c, "return")
    /\ overtaken' = (overtaken \cup Looping(c[1])) \ {c}
    /\ UNCHANGED <<storeVars, envVars, flagVars, cacheVars, currentVersion,
                   outdated, suspect, coordinator>>

\* The writes that are not reconciled, in order: unreconciled after i rounds
\* of the loop that builds it.
Unreconciled(writes) ==
    LET unreconciled[i \in 0..Len(writes)] ==
            IF i = 0 THEN <<>>
            ELSE IF writes[i].reconciled THEN unreconciled[i - 1]
            ELSE Append(unreconciled[i - 1], writes[i])
    IN  unreconciled[Len(writes)]

\* The reconciled writes are removed from what is pending by now.
CleanUp(c) ==
    /\ call[c].pc = "clean"
    /\ pendingWrites' = [pendingWrites EXCEPT ![c[1]] = Unreconciled(@)]
    /\ overtaken' = IF Unreconciled(pendingWrites[c[1]]) = pendingWrites[c[1]]
                    THEN overtaken \ {c}
                    ELSE (overtaken \cup Looping(c[1])) \ {c}
    /\ Goto(c, "return")
    /\ UNCHANGED <<storeVars, envVars, flagVars, cacheVars, currentVersion,
                   outdated, suspect, coordinator>>

\* MarkRedisAvailableWithReconciliation up to its call.
Recover(n) ==
    /\ call[<<n, "recovery">>].pc = "idle"
    /\ redisAvailable' = [redisAvailable EXCEPT ![n] = TRUE]
    /\ degradedModeActive' =
        [degradedModeActive EXCEPT
            ![n] = CheckDegradedMode(n, TRUE, dbAvailable[n])]
    /\ IF redisAvailable[n] THEN UNCHANGED call
                            ELSE Goto(<<n, "recovery">>, "snapshot")
    /\ UNCHANGED <<storeVars, envVars, dbAvailable, cacheVars, writeVars,
                   coordinator>>

-----------------------------------------------------------------------------
(* leader_reconciliation.go *)

\* Somebody is elected; the nodes learn of it later.
NewLeader(n) ==
    /\ leadership.epoch < MaxEpoch
    /\ leadership' = [epoch |-> leadership.epoch + 1, leader |-> n]
    /\ UNCHANGED <<storeVars, up, lock, flagVars, cacheVars, writeVars,
                   callVars>>

UpdateLeadershipStatus(n) ==
    /\ coordinator' = [coordinator EXCEPT
            ![n] = [epoch |-> leadership.epoch,
                    isLeader |-> leadership.leader = n]]
    /\ UNCHANGED <<storeVars, envVars, flagVars, cacheVars, writeVars, call>>

\* ReconcileIfLeader, called by every tick of StartPeriodicReconciliation.
ReconcileIfLeader(n) ==
    LET c == <<n, "periodic">>
    IN  /\ call[c].pc = "idle"
        /\ coordinator[n].isLeader
        /\ pendingWrites[n] # <<>>
        /\ call' = [call EXCEPT
                ![c] = [@ EXCEPT !.pc = "validate",
                                 !.epoch = coordinator[n].epoch]]
        /\ UNCHANGED <<storeVars, envVars, flagVars, cacheVars, writeVars,
                       coordinator>>

\* The epoch is compared with that of getLeaderInfo, which may fail.
ValidateEpoch(n) ==
    LET c == <<n, "periodic">>
    IN  /\ call[c].pc = "validate"
        /\ call' = [call EXCEPT
                ![c] = IF up /\ leadership.epoch = @.epoch
                       THEN [@ EXCEPT !.pc = "snapshot"]
                       ELSE NoCall]
        /\ UNCHANGED <<storeVars, envVars, flagVars, cacheVars, writeVars,
                       coordinator>>

\* ReconcileWithDistributedLock with the lock acquired.
ReconcileLocked(n) ==
    /\ call[<<n, "locked">>].pc = "idle"
    /\ up
    /\ ~lock
    /\ lock' = TRUE
    /\ Goto(<<n, "locked">>, "snapshot")
    /\ UNCHANGED <<storeVars, up, leadership, flagVars, cacheVars, writeVars,
                   coordinator>>

\* The lock outlives its TTL of five minutes.
LockExpires ==
    /\ lock
    /\ lock' = FALSE
    /\ UNCHANGED <<storeVars, up, leadership, flagVars, cacheVars, writeVars,
                   callVars>>

\* The call returns.  The second look at the epoch, when everything has been
\* written, only chooses the error that is reported; the deferred ReleaseLock
\* deletes the lock, whoever holds it by now, if Redis answers.
Return(c) ==
    /\ call[c].pc = "return"
    /\ call' = [call EXCEPT ![c] = NoCall]
    /\ lock' = IF c[2] = "locked" /\ up THEN FALSE ELSE lock
    /\ UNCHANGED <<storeVars, up, leadership, flagVars, cacheVars, writeVars,
                   coordinator>>

-----------------------------------------------------------------------------
Replay(c) ==
    \/ Snapshot(c) \/ SkipReconciled(c) \/ SkipStale(c) \/ GetExisting(c)
    \/ SetSucceeds(c) \/ SetFails(c) \/ MarkReconciled(c) \/ CleanUp(c)
    \/ Return(c)

PeriodicStep(n) == ReconcileIfLeader(n) \/ ValidateEpoch(n)

Environment ==
    \/ "outage" \in Env /\ RedisChanges
    \/ \E k \in Keys : Expire(k)
    \/ "others" \in Env /\ \E k \in Keys, v \in 1..MaxVersion, ttl \in TTLs :
            OtherWrite(k, v, ttl)
    \/ \E n \in Nodes \cup {Other} : NewLeader(n)
    \/ "aging" \in Env /\ \E n \in Nodes, v \in 1..MaxVersion : Age(n, v)
    \/ LockExpires

Availability(n) ==
    \/ MarkRedisUnavailable(n)
    \/ MarkRedisAvailable(n)
    \/ "db" \in Env /\ (MarkDBUnavailable(n) \/ MarkDBAvailable(n))

CacheAccess(n) ==
    \/ "cache" \in Env /\ ClearCache(n)
    \/ "cache" \in Env /\ \E k \in Keys : GetFromCache(n, k)
    \/ \E k \in Keys, ttl \in TTLs : SetInCacheWithTTL(n, k, ttl)

Next ==
    \/ Environment
    \/ \E n \in Nodes :
        \/ Availability(n)
        \/ CacheAccess(n)
        \/ UpdateLeadershipStatus(n)
        \/ "periodic" \in Paths /\ PeriodicStep(n)
        \/ "recovery" \in Paths /\ Recover(n)
        \/ "locked" \in Paths /\ ReconcileLocked(n)
    \/ \E c \in Calls : Replay(c)

Spec == Init /\ [][Next]_vars

\* The periodic task ticks, the steps of a replay are taken, and replies of
\* Redis are not lost every time.
Fairness ==
    /\ \A n \in Nodes : "periodic" \in Paths => WF_vars(PeriodicStep(n))
    /\ \A c \in Calls : WF_vars(Replay(c)) /\ SF_vars(SetSucceeds(c))

FairSpec == Spec /\ Fairness

-----------------------------------------------------------------------------
(* Properties *)

\* The types of the variables, as the structs declare them.
TypeOK ==
    /\ redis \in [Keys -> Hash]
    /\ high \in [Keys -> 0..MaxVersion]
    /\ up \in BOOLEAN
    /\ lock \in BOOLEAN
    /\ leadership \in [epoch : 0..MaxEpoch, leader : Nodes \cup {Other}]
    /\ redisAvailable \in [Nodes -> BOOLEAN]
    /\ dbAvailable \in [Nodes -> BOOLEAN]
    /\ degradedModeActive \in [Nodes -> BOOLEAN]
    /\ localCache \in [Nodes -> Seq(Keys)]
    /\ pendingWrites \in [Nodes -> Seq(PendingWrite)]
    /\ cacheSize \in [Nodes -> Nat]
    /\ currentVersion \in [Nodes -> 0..MaxVersion]
    /\ outdated \in [Nodes -> 0..MaxVersion]
    /\ overtaken \subseteq Calls
    /\ suspect \in [Nodes -> SUBSET (1..MaxVersion)]
    /\ coordinator \in [Nodes -> [epoch : 0..MaxEpoch, isLeader : BOOLEAN]]
    /\ call \in [Calls -> CallRecord]
    /\ \A c \in Calls : call[c].pc \in {"get", "set", "mark"}
            => call[c].i \in DOMAIN call[c].pending

\* A node is in degraded mode exactly while it holds one of its dependencies
\* for unavailable, in whatever order they are marked: MarkRedis..., MarkDB...,
\* the recovery and checkDegradedMode.
DegradedWhileImpaired ==
    \A n \in Nodes :
        degradedModeActive[n] <=> ~(redisAvailable[n] /\ dbAvailable[n])

\* The counter of the cache is its size, which stays within its limit, and
\* SetInCacheWithTTL never holds more unreconciled writes than the limit,
\* whatever replays mark and remove meanwhile.
MemoryBounded ==
    \A n \in Nodes :
        /\ cacheSize[n] = Cardinality(Range(localCache[n]))
        /\ cacheSize[n] <= MaxCacheSize
        /\ Cardinality({i \in DOMAIN pendingWrites[n] :
                ~pendingWrites[n][i].reconciled}) <= MaxPendingWrites

\* What a step may do to a key that holds a value.
Superseded(k) ==
    redis[k] # Absent /\ redis'[k] # redis[k] =>
        \/ redis'[k].version > redis[k].version
        \/ redis[k].expires /\ redis'[k] = Absent

\* No replay, however late, replaces a value in Redis except by one of a
\* higher version: the atomic script of SetVersioned makes up for a
\* GetVersioned that is out of date or failed.  Other changes are expiries.
StoreNeverRegresses == [][\A k \in Keys : Superseded(k)]_vars

\* A replay that ends without an error has got each write of its snapshot that
\* was open into Redis, or found that version or a later one there: what
\* ReconcilePendingWrites reports by returning nil.
SuccessIsSynced ==
    \A c \in Calls :
        call[c].pc \in {"clean", "return"} /\ ~call[c].failed =>
            \A i \in DOMAIN call[c].pending :
                LET w == call[c].pending[i]
                IN  ~w.reconciled => high[w.key] >= w.version

\* The write at position i is the one that trimming a full list drops.
Dropped(n, i) ==
    /\ currentVersion'[n] = currentVersion[n] + 1
    /\ Len(pendingWrites[n]) >= MaxPendingWrites
    /\ i = Min({j \in DOMAIN pendingWrites[n] :
                    ~pendingWrites[n][j].reconciled})

\* A pending write disappears only when Redis has held its version or a later
\* one, when it is more than five minutes old, when it is the oldest open one
\* of a full list and makes room for the next, or when it was marked by a
\* replay whose positions had shifted, since another replay's clean-up or a
\* trimming had removed writes under it.  So marking by position
\* (reconciliation.go:50, 74, 99) loses nothing else, however many replays and
\* writes overlap.
NoSilentLoss ==
    [][\A n \in Nodes :
        \A i \in DOMAIN pendingWrites[n] :
            LET w == pendingWrites[n][i]
            IN  \/ \E j \in DOMAIN pendingWrites'[n] :
                        pendingWrites'[n][j].version = w.version
                \/ high[w.key] >= w.version
                \/ w.version <= outdated[n]
                \/ Dropped(n, i)
                \/ w.version \in suspect[n]]_vars

\* Once Redis answers and the node's leadership is settled, the periodic task
\* of StartPeriodicReconciliation empties the list, although conflicts and lost
\* replies interfere and writes of other processes and expiries change what
\* Redis holds.  One caller replays here, on a list that is never full.
Drains ==
    \A n \in Nodes :
        <>[](/\ up
             /\ coordinator[n].isLeader
             /\ coordinator[n].epoch = leadership.epoch)
            => <>[](pendingWrites[n] = <<>>)
=============================================================================
