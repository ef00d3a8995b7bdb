------------------------- MODULE DegradedModeProofs -------------------------
(***************************************************************************)
(* Proofs about DegradedMode for every set of nodes, keys and callers and  *)
(* every environment: the flag, the versions in Redis, what a replay       *)
(* without an error has achieved, the bounds on memory, the types, and,    *)
(* for one caller and a list that does not fill up, that no pending write  *)
(* is lost.                                                                *)
(*                                                                         *)
(* The loop of the clean-up is a recursive function.  What it computes is  *)
(* shown by induction in the form of a set: a set of naturals that is not  *)
(* empty has a least element (SmallestNat), so one that is closed under    *)
(* the step holds every round (InductionUpTo).                             *)
(***************************************************************************)
EXTENDS DegradedMode, FiniteSetTheorems, SequenceTheorems,
        WellFoundedInduction, TLAPS

-----------------------------------------------------------------------------
(* Natural numbers and sequences *)

LEMMA SmallestNat ==
    ASSUME NEW T \in SUBSET Nat, T # {}
    PROVE  \E x \in T : \A y \in T : x <= y
  <1>1. IsWellFoundedOn(OpToRel(<, Nat), Nat)
    BY NatLessThanWellFounded
  <1>2. PICK x \in T : \A y \in T : ~ (<<y, x>> \in OpToRel(<, Nat))
    BY <1>1, WFMin
  <1>3. ASSUME NEW y \in T PROVE x <= y
    <2>1. y < x => <<y, x>> \in OpToRel(<, Nat)
      BY DEF OpToRel
    <2>2. ~(y < x)
      BY <1>2, <2>1
    <2> QED
      BY <2>2
  <1> QED
    BY <1>3

\* Induction up to n, for a set instead of a predicate.
LEMMA InductionUpTo ==
    ASSUME NEW n \in Nat, NEW G, 0 \in G,
           \A m \in 1..n : m - 1 \in G => m \in G
    PROVE  \A m \in 0..n : m \in G
  <1> DEFINE Bad == {m \in 0..n : m \notin G}
  <1>1. CASE Bad # {}
    <2>1. Bad \in SUBSET Nat
      OBVIOUS
    <2>2. PICK m \in Bad : \A y \in Bad : m <= y
      <3> HIDE DEF Bad
      <3> QED
        BY <1>1, <2>1, SmallestNat
    <2>3. m \in 1..n /\ m - 1 \notin Bad
      BY <2>2
    <2> QED
      BY <2>2, <2>3
  <1>2. CASE Bad = {}
    BY <1>2
  <1> QED
    BY <1>1, <1>2

LEMMA MinIsLeast ==
    ASSUME NEW T \in SUBSET Nat, T # {}
    PROVE  Min(T) \in T /\ \A y \in T : Min(T) <= y
  BY SmallestNat DEF Min

LEMMA RemoveAtIs ==
    ASSUME NEW S, NEW s \in Seq(S), NEW i \in 1..Len(s)
    PROVE  /\ RemoveAt(s, i) \in Seq(S)
           /\ Len(RemoveAt(s, i)) = Len(s) - 1
           /\ \A j \in 1..(Len(s) - 1) :
                RemoveAt(s, i)[j] = IF j < i THEN s[j] ELSE s[j + 1]
  <1>0. Len(s) \in Nat
    BY LenProperties
  <1>1. \A j \in 1..Len(s) : s[j] \in S
    BY ElementOfSeq
  <1> DEFINE a == SubSeq(s, 1, i - 1)
             b == SubSeq(s, i + 1, Len(s))
  <1>2. /\ a \in Seq(S)
        /\ Len(a) = i - 1
        /\ \A j \in 1..(i - 1) : a[j] = s[j]
    BY <1>1, SubSeqProperties
  <1>3. /\ b \in Seq(S)
        /\ Len(b) = Len(s) - i
        /\ \A j \in 1..(Len(s) - i) : b[j] = s[i + j]
    BY <1>1, SubSeqProperties
  <1>4. RemoveAt(s, i) = a \o b
    BY DEF RemoveAt
  <1> HIDE DEF a, b
  <1>5. /\ a \o b \in Seq(S)
        /\ Len(a \o b) = Len(a) + Len(b)
        /\ \A j \in 1..(Len(a) + Len(b)) :
            (a \o b)[j] = IF j <= Len(a) THEN a[j] ELSE b[j - Len(a)]
    BY <1>2, <1>3, ConcatProperties
  <1>6. ASSUME NEW j \in 1..(Len(s) - 1)
        PROVE  (a \o b)[j] = IF j < i THEN s[j] ELSE s[j + 1]
    <2>1. CASE j < i
      BY <1>2, <1>3, <1>5, <2>1
    <2>2. CASE j >= i
      <3>1. (a \o b)[j] = b[j - Len(a)] /\ j - Len(a) = j - i + 1
        BY <1>2, <1>3, <1>5, <2>2
      <3>2. j - i + 1 \in 1..(Len(s) - i) /\ i + (j - i + 1) = j + 1
        BY <2>2
      <3> QED
        BY <1>3, <2>2, <3>1, <3>2
    <2>3. j < i \/ j >= i
      BY <1>0
    <2> QED
      BY Zenon, <2>1, <2>2, <2>3
  <1> QED
    BY <1>0, <1>2, <1>3, <1>4, <1>5, <1>6

-----------------------------------------------------------------------------
(* Unreconciled. *)

\* One round of the loop of CleanUp.
Round(writes, f, i) ==
    IF i = 0 THEN <<>>
    ELSE IF writes[i].reconciled THEN f[i - 1]
    ELSE Append(f[i - 1], writes[i])

LEMMA LoopExists ==
    ASSUME NEW S, NEW s \in Seq(S), NEW n \in 0..Len(s)
    PROVE  \E f \in [0..n -> Seq(S)] : \A i \in 0..n : f[i] = Round(s, f, i)
  <1> DEFINE Good(m) == \E f \in [0..m -> Seq(S)] :
                            \A i \in 0..m : f[i] = Round(s, f, i)
             G == {m \in 0..Len(s) : Good(m)}
  <1>0. Len(s) \in Nat /\ \A i \in 1..Len(s) : s[i] \in S
    BY ElementOfSeq
  <1>1. Good(0)
    <2> DEFINE f == [i \in 0..0 |-> <<>>]
    <2>1. f \in [0..0 -> Seq(S)]
      BY EmptySeq
    <2>2. \A i \in 0..0 : f[i] = Round(s, f, i)
      BY DEF Round
    <2> QED
      BY <2>1, <2>2
  <1>2. ASSUME NEW m \in 1..Len(s), Good(m - 1) PROVE Good(m)
    <2>1. PICK f \in [0..(m - 1) -> Seq(S)] :
                \A i \in 0..(m - 1) : f[i] = Round(s, f, i)
      BY <1>2
    <2> DEFINE g == [i \in 0..m |-> IF i < m THEN f[i] ELSE Round(s, f, m)]
    <2>2. Round(s, f, m) \in Seq(S)
      BY <1>0, AppendProperties DEF Round
    <2>3. g \in [0..m -> Seq(S)]
      BY <2>2
    <2>4. \A i \in 0..m : Round(s, g, i) = Round(s, f, i)
      BY DEF Round
    <2>5. \A i \in 0..m : g[i] = Round(s, g, i)
      <3> SUFFICES ASSUME NEW i \in 0..m PROVE g[i] = Round(s, f, i)
        BY <2>4
      <3> HIDE DEF Round
      <3> QED
        BY <2>1
    <2> HIDE DEF g
    <2> QED
      BY <2>3, <2>5
  <1> HIDE DEF Good
  <1>3. 0 \in G /\ \A m \in 1..Len(s) : m - 1 \in G => m \in G
    BY <1>0, <1>1, <1>2
  <1>4. \A m \in 0..Len(s) : m \in G
    <2> HIDE DEF G
    <2> QED
      BY <1>0, <1>3, InductionUpTo
  <1> QED
    BY <1>4 DEF Good

\* t holds the open writes of s: those at the positions g[1], g[2], ..., all
\* of them and in their order.
Picks(t, s, m, g) ==
    /\ g \in [1..Len(t) -> 1..m]
    /\ \A j \in 1..Len(t) : t[j] = s[g[j]] /\ ~s[g[j]].reconciled
    /\ \A j, k \in 1..Len(t) : j < k => g[j] < g[k]
    /\ \A i \in 1..m : ~s[i].reconciled => \E j \in 1..Len(t) : g[j] = i

LEMMA PicksOneMore ==
    ASSUME NEW S, NEW s \in Seq(S), NEW m \in 1..Len(s), NEW t \in Seq(S),
           NEW g, Picks(t, s, m - 1, g), ~s[m].reconciled
    PROVE  \E h : Picks(Append(t, s[m]), s, m, h)
  <1> DEFINE u == Append(t, s[m])
             h == [j \in 1..Len(u) |-> IF j <= Len(t) THEN g[j] ELSE m]
  <1>0. Len(s) \in Nat /\ Len(t) \in Nat /\ s[m] \in S
    BY ElementOfSeq, LenProperties
  <1>1. /\ Len(u) = Len(t) + 1
        /\ \A j \in 1..Len(t) : u[j] = t[j]
        /\ u[Len(t) + 1] = s[m]
    BY <1>0, AppendProperties
  <1> HIDE DEF u
  <1>2. h \in [1..Len(u) -> 1..m]
    BY <1>0, <1>1 DEF Picks
  <1>3. \A j \in 1..Len(u) : u[j] = s[h[j]] /\ ~s[h[j]].reconciled
    <2> SUFFICES ASSUME NEW j \in 1..Len(u)
                 PROVE  u[j] = s[h[j]] /\ ~s[h[j]].reconciled
      OBVIOUS
    <2>1. CASE j <= Len(t)
      BY <1>0, <1>1, <2>1 DEF Picks
    <2>2. CASE ~(j <= Len(t))
      <3>1. j = Len(t) + 1 /\ h[j] = m
        BY <1>0, <1>1, <2>2
      <3> QED
        BY <1>1, <3>1
    <2> QED
      BY <2>1, <2>2
  <1>4. \A j, k \in 1..Len(u) : j < k => h[j] < h[k]
    BY <1>0, <1>1 DEF Picks
  <1>5. ASSUME NEW i \in 1..m, ~s[i].reconciled
        PROVE  \E j \in 1..Len(u) : h[j] = i
    <2>1. CASE i = m
      <3>1. Len(u) \in 1..Len(u) /\ h[Len(u)] = m
        BY <1>0, <1>1
      <3> QED
        BY <2>1, <3>1
    <2>2. CASE i # m
      <3>1. PICK j \in 1..Len(t) : g[j] = i
        BY <1>5, <2>2 DEF Picks
      <3>2. j \in 1..Len(u) /\ h[j] = i
        BY <1>0, <1>1, <3>1
      <3> QED
        BY <3>2
    <2> QED
      BY <2>1, <2>2
  <1>6. Picks(u, s, m, h)
    <2> HIDE DEF h
    <2> QED
      BY <1>2, <1>3, <1>4, <1>5 DEF Picks
  <1> QED
    BY <1>6 DEF u

\* The loop at the end of ReconcilePendingWrites keeps exactly the writes that
\* are not reconciled, in their order, whatever the list.
THEOREM UnreconciledPicks ==
    ASSUME NEW S, NEW s \in Seq(S)
    PROVE  /\ Unreconciled(s) \in Seq(S)
           /\ \E g : Picks(Unreconciled(s), s, Len(s), g)
  <1> DEFINE F[i \in 0..Len(s)] ==
                IF i = 0 THEN <<>>
                ELSE IF s[i].reconciled THEN F[i - 1]
                ELSE Append(F[i - 1], s[i])
  <1>0. Len(s) \in Nat /\ \A i \in 1..Len(s) : s[i] \in S
    BY ElementOfSeq
  <1>1. Unreconciled(s) = F[Len(s)]
    BY DEF Unreconciled
  <1>2. F = CHOOSE f : f = [i \in 0..Len(s) |-> Round(s, f, i)]
    BY DEF Round
  <1> HIDE DEF F
  <1>3. \E f : f = [i \in 0..Len(s) |-> Round(s, f, i)]
    <2>1. PICK f \in [0..Len(s) -> Seq(S)] :
                \A i \in 0..Len(s) : f[i] = Round(s, f, i)
      <3>1. Len(s) \in 0..Len(s)
        BY <1>0
      <3> QED
        BY Zenon, <3>1, LoopExists
    <2> QED
      BY <2>1
  <1>4. F = [i \in 0..Len(s) |-> Round(s, F, i)]
    BY <1>2, <1>3
  <1> DEFINE Good(m) == F[m] \in Seq(S) /\ \E g : Picks(F[m], s, m, g)
             G == {m \in 0..Len(s) : Good(m)}
  <1>5. Good(0)
    <2>1. F[0] = <<>>
      BY <1>0, <1>4 DEF Round
    <2>2. Picks(<<>>, s, 0, <<>>)
      BY EmptySeq DEF Picks
    <2> QED
      BY <2>1, <2>2, EmptySeq
  <1>6. ASSUME NEW m \in 1..Len(s), Good(m - 1) PROVE Good(m)
    <2>1. F[m] = IF s[m].reconciled THEN F[m - 1] ELSE Append(F[m - 1], s[m])
      <3>1. F[m] = Round(s, F, m)
        BY <1>0, <1>4
      <3> QED
        BY <3>1 DEF Round
    <2>2. PICK g : Picks(F[m - 1], s, m - 1, g)
      BY <1>6
    <2>3. CASE s[m].reconciled
      <3> DEFINE t == F[m - 1]
      <3>1. t \in Seq(S) /\ Picks(t, s, m - 1, g)
        BY <1>6, <2>2
      <3> HIDE DEF t
      <3>2. g \in [1..Len(t) -> 1..m]
        BY <1>0, <3>1 DEF Picks
      <3>3. \A i \in 1..m :
                ~s[i].reconciled => \E j \in 1..Len(t) : g[j] = i
        <4> SUFFICES ASSUME NEW i \in 1..m, ~s[i].reconciled
                     PROVE  \E j \in 1..Len(t) : g[j] = i
          OBVIOUS
        <4>1. i \in 1..(m - 1)
          BY <1>0, <2>3
        <4> QED
          BY <3>1, <4>1 DEF Picks
      <3>4. Picks(t, s, m, g)
        BY <3>1, <3>2, <3>3 DEF Picks
      <3> QED
        BY <1>6, <2>1, <2>3, <3>4 DEF t
    <2>4. CASE ~s[m].reconciled
      <3>1. F[m] = Append(F[m - 1], s[m]) /\ F[m] \in Seq(S)
        BY <1>0, <1>6, <2>1, <2>4, AppendProperties
      <3>2. \E h : Picks(Append(F[m - 1], s[m]), s, m, h)
        BY <1>6, <2>2, <2>4, PicksOneMore
      <3> QED
        BY <3>1, <3>2
    <2> QED
      BY <2>3, <2>4
  <1> HIDE DEF Good
  <1>7. 0 \in G /\ \A m \in 1..Len(s) : m - 1 \in G => m \in G
    BY <1>0, <1>5, <1>6
  <1>8. \A m \in 0..Len(s) : m \in G
    <2> HIDE DEF G
    <2> QED
      BY <1>0, <1>7, InductionUpTo
  <1> QED
    BY <1>0, <1>1, <1>8 DEF Good

-----------------------------------------------------------------------------
(* The flags *)

\* The flags are Booleans and agree: inductive on its own.
FlagInv ==
    /\ redisAvailable \in [Nodes -> BOOLEAN]
    /\ dbAvailable \in [Nodes -> BOOLEAN]
    /\ degradedModeActive \in [Nodes -> BOOLEAN]
    /\ DegradedWhileImpaired

\* Initially everything is available and no node is degraded.
LEMMA FlagInit == Init => FlagInv
BY DEF Init, FlagInv, DegradedWhileImpaired

\* Every step keeps the flags in agreement; only the marks change them.
LEMMA FlagStep == FlagInv /\ [Next]_vars => FlagInv'
<1> SUFFICES ASSUME FlagInv, [Next]_vars PROVE FlagInv'
  OBVIOUS
<1> USE DEF FlagInv, DegradedWhileImpaired
<1>1. CASE UNCHANGED flagVars
  BY <1>1 DEF flagVars
<1>2. ASSUME NEW n \in Nodes, MarkRedisUnavailable(n) PROVE FlagInv'
  BY <1>2 DEF MarkRedisUnavailable
<1>3. ASSUME NEW n \in Nodes, MarkRedisAvailable(n) PROVE FlagInv'
  BY <1>3 DEF MarkRedisAvailable, CheckDegradedMode
<1>4. ASSUME NEW n \in Nodes, MarkDBUnavailable(n) PROVE FlagInv'
  BY <1>4 DEF MarkDBUnavailable
<1>5. ASSUME NEW n \in Nodes, MarkDBAvailable(n) PROVE FlagInv'
  BY <1>5 DEF MarkDBAvailable, CheckDegradedMode
<1>6. ASSUME NEW n \in Nodes, Recover(n) PROVE FlagInv'
  BY <1>6 DEF Recover, CheckDegradedMode
<1>7. CASE Environment
  <2>1. UNCHANGED flagVars
    BY <1>7 DEF Environment, RedisChanges, Expire, OtherWrite, NewLeader, Age,
                LockExpires
  <2> QED BY <2>1, <1>1
<1>8. ASSUME NEW n \in Nodes,
             CacheAccess(n) \/ UpdateLeadershipStatus(n) \/ PeriodicStep(n)
                \/ ReconcileLocked(n)
      PROVE  FlagInv'
  <2>1. UNCHANGED flagVars
    BY <1>8 DEF CacheAccess, ClearCache, GetFromCache, SetInCacheWithTTL,
                UpdateLeadershipStatus, PeriodicStep, ReconcileIfLeader,
                ValidateEpoch, ReconcileLocked
  <2> QED BY <2>1, <1>1
<1>9. ASSUME NEW c \in Calls, Replay(c) PROVE FlagInv'
  <2>1. UNCHANGED flagVars
    BY <1>9 DEF Replay, Snapshot, SkipReconciled, SkipStale, GetExisting,
                SetSucceeds, SetFails, MarkReconciled, CleanUp, Return
  <2> QED BY <2>1, <1>1
<1> QED
  BY <1>1, <1>2, <1>3, <1>4, <1>5, <1>6, <1>7, <1>8, <1>9
  DEF Next, Availability, vars

\* A node reports degraded mode exactly while one of its dependencies is
\* marked unavailable, whatever the order of marks and recoveries.
THEOREM DegradedFlag == Spec => []DegradedWhileImpaired
<1>1. FlagInv => DegradedWhileImpaired
  BY DEF FlagInv
<1> QED
  BY <1>1, FlagInit, FlagStep, PTL DEF Spec

-----------------------------------------------------------------------------
(* The versions in Redis *)

\* Redis maps every key to a hash, and nothing else is used of its type here.
StoreFunction == redis = [k \in Keys |-> redis[k]]

\* The step keeps that, and replaces values only by newer ones.
Supersedes == StoreFunction' /\ \A k \in Keys : Superseded(k)

\* A step that leaves the hashes alone supersedes nothing.
LEMMA StoreUnchanged ==
    ASSUME StoreFunction, redis' = redis
    PROVE  Supersedes
BY DEF StoreFunction, Supersedes, Superseded

\* The script of SetVersioned, whoever calls it and with whatever arguments,
\* only replaces a value by one of a higher version.
LEMMA ScriptSupersedes ==
    ASSUME StoreFunction, NEW j, NEW v, NEW author, NEW ttl,
           SetVersioned(j, v, author, ttl)
    PROVE  Supersedes
<1>1. /\ redis[j] = Absent \/ v > redis[j].version
      /\ redis' = [redis EXCEPT ![j] = Written(redis[j], v, author, ttl)]
  BY DEF SetVersioned, Newer
<1>2. StoreFunction'
  BY <1>1 DEF StoreFunction
<1>3. ASSUME NEW k \in Keys PROVE Superseded(k)
  <2>1. CASE k # j
    BY <1>1, <2>1 DEF StoreFunction, Superseded
  <2>2. CASE k = j
    <3>1. redis'[k].version = v
      BY <1>1, <2>2 DEF StoreFunction, Written
    <3> QED BY <3>1, <1>1, <2>2 DEF Superseded
  <2> QED BY <2>1, <2>2
<1> QED BY <1>2, <1>3 DEF Supersedes

\* Every step supersedes: replays and foreign writes by the script, expiry by
\* its own clause, and all others because they do not touch the hashes.
LEMMA StoreStep == StoreFunction /\ [Next]_vars => Supersedes
<1> SUFFICES ASSUME StoreFunction, [Next]_vars PROVE Supersedes
  OBVIOUS
<1>1. CASE UNCHANGED vars
  <2>1. redis' = redis
    BY <1>1 DEF vars, storeVars
  <2> QED BY <2>1, StoreUnchanged
<1>2. ASSUME NEW k \in Keys, Expire(k) PROVE Supersedes
  <2>1. /\ redis[k].expires
        /\ redis' = [redis EXCEPT ![k] = Absent]
    BY <1>2 DEF Expire
  <2>2. StoreFunction'
    BY <2>1 DEF StoreFunction
  <2>3. ASSUME NEW j \in Keys PROVE Superseded(j)
    BY <2>1 DEF StoreFunction, Superseded
  <2> QED BY <2>2, <2>3 DEF Supersedes
<1>3. ASSUME NEW k \in Keys, NEW v \in 1..MaxVersion, NEW ttl \in TTLs,
             OtherWrite(k, v, ttl)
      PROVE  Supersedes
  BY <1>3, ScriptSupersedes DEF OtherWrite
<1>4. CASE RedisChanges \/ LockExpires
           \/ (\E n \in Nodes \cup {Other} : NewLeader(n))
           \/ (\E n \in Nodes, v \in 1..MaxVersion : Age(n, v))
  <2>1. redis' = redis
    BY <1>4 DEF RedisChanges, LockExpires, NewLeader, Age, storeVars
  <2> QED BY <2>1, StoreUnchanged
<1>5. ASSUME NEW n \in Nodes, Availability(n) \/ Recover(n) PROVE Supersedes
  <2>1. redis' = redis
    BY <1>5 DEF Availability, MarkRedisUnavailable, MarkRedisAvailable,
                MarkDBUnavailable, MarkDBAvailable, Recover, storeVars
  <2> QED BY <2>1, StoreUnchanged
<1>6. ASSUME NEW n \in Nodes,
             CacheAccess(n) \/ UpdateLeadershipStatus(n) \/ PeriodicStep(n)
                \/ ReconcileLocked(n)
      PROVE  Supersedes
  <2>1. redis' = redis
    BY <1>6 DEF CacheAccess, ClearCache, GetFromCache, SetInCacheWithTTL,
                UpdateLeadershipStatus, PeriodicStep, ReconcileIfLeader,
                ValidateEpoch, ReconcileLocked, storeVars
  <2> QED BY <2>1, StoreUnchanged
<1>7. ASSUME NEW c \in Calls, SetSucceeds(c) PROVE Supersedes
  BY <1>7, ScriptSupersedes DEF SetSucceeds
<1>8. ASSUME NEW c \in Calls, SetFails(c) PROVE Supersedes
  <2>1. CASE UNCHANGED storeVars
    BY <2>1, StoreUnchanged DEF storeVars
  <2>2. CASE SetVersioned(Write(c).key, Write(c).version, c[1], Write(c).ttl)
    BY <2>2, ScriptSupersedes
  <2> QED BY <1>8, <2>1, <2>2 DEF SetFails, SetVersionedConflicts
<1>9. ASSUME NEW c \in Calls,
             Snapshot(c) \/ SkipReconciled(c) \/ SkipStale(c) \/ GetExisting(c)
                \/ MarkReconciled(c) \/ CleanUp(c) \/ Return(c)
      PROVE  Supersedes
  <2>1. redis' = redis
    BY <1>9 DEF Snapshot, SkipReconciled, SkipStale, GetExisting,
                MarkReconciled, CleanUp, Return, storeVars
  <2> QED BY <2>1, StoreUnchanged
<1>10. CASE Environment
  BY <1>10, <1>2, <1>3, <1>4 DEF Environment
<1>11. ASSUME NEW c \in Calls, Replay(c) PROVE Supersedes
  BY <1>11, <1>7, <1>8, <1>9 DEF Replay
<1> QED
  BY <1>1, <1>5, <1>6, <1>10, <1>11 DEF Next

\* Whatever replays overlap, however late and out of date they are, and
\* whatever reads and replies fail, a value in Redis is only replaced by one
\* of a higher version or expires.
THEOREM StoreSuperseded == Spec => StoreNeverRegresses
<1>1. Init => StoreFunction
  BY DEF Init, StoreFunction
<1> QED
  BY <1>1, StoreStep, PTL DEF Spec, StoreNeverRegresses, Supersedes

-----------------------------------------------------------------------------
(* What Redis holds and has held *)

\* high is an upper bound of the versions that Redis holds.
StoreInv ==
    /\ redis \in [Keys -> Hash]
    /\ high \in [Keys -> 0..MaxVersion]
    /\ \A k \in Keys : redis[k].version <= high[k]

HighGrows == \A k \in Keys : high[k] <= high'[k]

LEMMA ScriptKeepsBound ==
    ASSUME StoreInv, NEW k \in Keys, NEW v \in 1..MaxVersion,
           NEW author \in Nodes \cup {Other}, NEW ttl \in BOOLEAN,
           SetVersioned(k, v, author, ttl)
    PROVE  StoreInv' /\ HighGrows /\ v <= high'[k]
  <1> USE DegradedAssumption
  <1> DEFINE h == Written(redis[k], v, author, ttl)
  <1>1. h \in Hash /\ h.version = v
    BY DEF StoreInv, Written, Hash
  <1>2. /\ redis' = [redis EXCEPT ![k] = h]
        /\ high' = [high EXCEPT ![k] = IF v > @ THEN v ELSE @]
    BY DEF SetVersioned
  <1> HIDE DEF h
  <1>3. /\ high' \in [Keys -> 0..MaxVersion]
        /\ HighGrows
        /\ v <= high'[k]
    BY <1>2 DEF StoreInv, HighGrows
  <1>4. redis' \in [Keys -> Hash]
    BY <1>1, <1>2 DEF StoreInv
  <1>5. \A j \in Keys : redis'[j].version <= high'[j]
    BY <1>1, <1>2, <1>3 DEF StoreInv
  <1> QED
    BY <1>3, <1>4, <1>5 DEF StoreInv

\* The position a replay is at, what it has passed without an error, and
\* what it will report: Loop(r, h) for a replay r when h has been in Redis.
Synced(w, h) == ~w.reconciled => h[w.key] >= w.version

Loop(r, h) ==
    /\ r.pc \in {"idle", "validate", "snapshot"} =>
        r.pending = <<>> /\ ~r.failed
    /\ r.pc \in {"get", "set", "mark"} => r.i \in 1..Len(r.pending)
    /\ r.pc \in {"get", "set", "mark"} /\ ~r.failed =>
        \A j \in 1..(r.i - 1) : Synced(r.pending[j], h)
    /\ r.pc = "mark" => Synced(r.pending[r.i], h)
    /\ r.pc \in {"clean", "return"} /\ ~r.failed =>
        \A j \in 1..Len(r.pending) : Synced(r.pending[j], h)

CallInv ==
    /\ call \in [Calls -> CallRecord]
    /\ \A c \in Calls : Loop(call[c], high)

LEMMA LoopKept ==
    ASSUME NEW r \in CallRecord, Loop(r, high), StoreInv, StoreInv', HighGrows
    PROVE  Loop(r, high')
  <1>1. /\ r.pending \in Seq(PendingWrite)
        /\ r.i \in Nat
        /\ Len(r.pending) \in Nat
    BY LenProperties DEF CallRecord
  <1>2. ASSUME NEW j \in 1..Len(r.pending), Synced(r.pending[j], high)
        PROVE  Synced(r.pending[j], high')
    <2> DEFINE w == r.pending[j]
    <2>1. w \in PendingWrite
      BY <1>1, ElementOfSeq
    <2> HIDE DEF w
    <2>2. w.key \in Keys /\ w.version \in Nat
      BY <2>1 DEF PendingWrite
    <2>3. high[w.key] \in Nat /\ high'[w.key] \in Nat /\ high[w.key] <= high'[w.key]
      BY <2>2 DEF StoreInv, HighGrows
    <2>4. Synced(w, high) => Synced(w, high')
      BY <2>2, <2>3 DEF Synced
    <2> QED
      BY <1>2, <2>4 DEF w
  <1> QED
    BY <1>1, <1>2 DEF Loop

LEMMA NextPosition ==
    ASSUME NEW r \in CallRecord, NEW h, r.i \in 1..Len(r.pending),
           r.failed \/ \A j \in 1..r.i : Synced(r.pending[j], h)
    PROVE  At(r, r.i + 1) \in CallRecord /\ Loop(At(r, r.i + 1), h)
  <1> DEFINE a == At(r, r.i + 1)
  <1>1. /\ r.pending \in Seq(PendingWrite)
        /\ r.i \in Nat
        /\ Len(r.pending) \in Nat
    BY LenProperties DEF CallRecord
  <1> DEFINE p == IF r.i + 1 > Len(r.pending) THEN "clean" ELSE "get"
  <1>2. a = [r EXCEPT !.i = r.i + 1, !.pc = p] /\ p \in {"clean", "get"}
    BY DEF At
  <1>3. r.i + 1 > Len(r.pending) \/ r.i + 1 \in 1..Len(r.pending)
    BY <1>1
  <1>4. /\ r.i + 1 > Len(r.pending) => p = "clean"
        /\ r.i + 1 \in 1..Len(r.pending) => p = "get"
    BY <1>1
  <1> HIDE DEF a, p
  <1>5. a \in CallRecord
    <2>1. r.i + 1 \in Nat
      BY <1>1
    <2> QED
      BY <1>2, <2>1 DEF CallRecord
  <1>6. /\ a.pending = r.pending
        /\ a.failed = r.failed
        /\ a.i = r.i + 1
        /\ a.pc = p
    BY <1>2 DEF CallRecord
  <1>7. ASSUME r.i + 1 > Len(r.pending) PROVE Loop(a, h)
    <2>1. a.pc = "clean"
      BY <1>4, <1>6, <1>7
    <2>2. ~a.failed => \A j \in 1..Len(a.pending) : Synced(a.pending[j], h)
      BY <1>1, <1>6, <1>7
    <2> QED
      BY <2>1, <2>2 DEF Loop
  <1>8. ASSUME r.i + 1 \in 1..Len(r.pending) PROVE Loop(a, h)
    <2>1. a.pc = "get" /\ a.i \in 1..Len(a.pending)
      BY <1>4, <1>6, <1>8
    <2>2. ~a.failed => \A j \in 1..(a.i - 1) : Synced(a.pending[j], h)
      BY <1>1, <1>6
    <2> QED
      BY <2>1, <2>2 DEF Loop
  <1> QED
    BY Zenon, <1>3, <1>5, <1>7, <1>8 DEF a

LEMMA ReplaceCall ==
    ASSUME CallInv, StoreInv, StoreInv', HighGrows, NEW c \in Calls,
           NEW r \in CallRecord, Loop(r, high'),
           call' = [call EXCEPT ![c] = r]
    PROVE  CallInv'
  <1>1. call' \in [Calls -> CallRecord]
    BY DEF CallInv
  <1>2. ASSUME NEW d \in Calls PROVE Loop(call'[d], high')
    <2>1. CASE d = c
      BY <2>1 DEF CallInv
    <2>2. CASE d # c
      <3>1. call'[d] = call[d] /\ call[d] \in CallRecord /\ Loop(call[d], high)
        BY <2>2 DEF CallInv
      <3> QED
        BY <3>1, LoopKept
    <2> QED
      BY <2>1, <2>2
  <1> QED
    BY <1>1, <1>2 DEF CallInv

LEMMA CallFrame ==
    ASSUME CallInv, StoreInv, StoreInv', HighGrows, UNCHANGED call
    PROVE  CallInv'
  <1>1. ASSUME NEW d \in Calls PROVE Loop(call[d], high')
    BY LoopKept DEF CallInv
  <1> QED
    BY <1>1 DEF CallInv

\* The write a replay is at is a pending write of its snapshot.
LEMMA WriteType ==
    ASSUME CallInv, NEW c \in Calls, call[c].pc \in {"get", "set", "mark"}
    PROVE  /\ Write(c) \in PendingWrite
           /\ Write(c).key \in Keys
           /\ Write(c).version \in 1..MaxVersion
           /\ Write(c).ttl \in BOOLEAN
           /\ call[c].i \in 1..Len(call[c].pending)
  <1>1. call[c] \in CallRecord /\ Loop(call[c], high)
    BY DEF CallInv
  <1>2. call[c].pending \in Seq(PendingWrite)
    BY <1>1 DEF CallRecord
  <1>3. call[c].i \in 1..Len(call[c].pending)
    BY <1>1 DEF Loop
  <1>4. Write(c) \in PendingWrite
    BY <1>2, <1>3, ElementOfSeq DEF Write
  <1> QED
    BY <1>3, <1>4 DEF PendingWrite

LEMMA StoreInvInit == Init => StoreInv
  BY DegradedAssumption DEF Init, StoreInv, Absent, Hash

LEMMA StoreInvStep ==
    StoreInv /\ CallInv /\ [Next]_vars => StoreInv' /\ HighGrows
  <1> SUFFICES ASSUME StoreInv, CallInv, [Next]_vars
               PROVE  StoreInv' /\ HighGrows
    OBVIOUS
  <1>1. ASSUME UNCHANGED storeVars PROVE StoreInv' /\ HighGrows
    BY <1>1 DEF storeVars, StoreInv, HighGrows
  <1>2. ASSUME NEW k \in Keys, Expire(k) PROVE StoreInv' /\ HighGrows
    <2>1. Absent \in Hash /\ Absent.version = 0
      BY DegradedAssumption DEF Absent, Hash
    <2> QED
      BY <1>2, <2>1 DEF Expire, StoreInv, HighGrows
  <1>3. ASSUME NEW k \in Keys, NEW v \in 1..MaxVersion, NEW ttl \in TTLs,
               OtherWrite(k, v, ttl)
        PROVE  StoreInv' /\ HighGrows
    <2>1. ttl \in BOOLEAN
      BY Zenon DEF TTLs
    <2> QED
      BY <1>3, <2>1, ScriptKeepsBound DEF OtherWrite
  <1>4. ASSUME NEW c \in Calls, call[c].pc = "set",
               SetVersioned(Write(c).key, Write(c).version, c[1],
                            Write(c).ttl)
        PROVE  StoreInv' /\ HighGrows
    <2>1. c[1] \in Nodes \cup {Other}
      BY DEF Calls
    <2>2. /\ Write(c).key \in Keys
          /\ Write(c).version \in 1..MaxVersion
          /\ Write(c).ttl \in BOOLEAN
      BY <1>4, WriteType
    <2> QED
      BY <1>4, <2>1, <2>2, ScriptKeepsBound
  <1>5. ASSUME NEW c \in Calls, Replay(c) PROVE StoreInv' /\ HighGrows
    <2>1. CASE SetSucceeds(c) \/ SetFails(c)
      BY <1>1, <1>4, <2>1 DEF SetSucceeds, SetFails, SetVersionedConflicts
    <2>2. CASE ~(SetSucceeds(c) \/ SetFails(c))
      <3>1. UNCHANGED storeVars
        BY <1>5, <2>2 DEF Replay, Snapshot, SkipReconciled, SkipStale,
                          GetExisting, MarkReconciled, CleanUp, Return
      <3> QED
        BY <1>1, <3>1
    <2> QED
      BY <2>1, <2>2
  <1>6. CASE Environment
    <2>1. CASE \/ RedisChanges \/ LockExpires
               \/ \E n \in Nodes \cup {Other} : NewLeader(n)
               \/ \E n \in Nodes, v \in 1..MaxVersion : Age(n, v)
      BY <1>1, <2>1 DEF RedisChanges, LockExpires, NewLeader, Age
    <2> QED
      BY <1>2, <1>3, <1>6, <2>1 DEF Environment
  <1>7. ASSUME NEW n \in Nodes,
               \/ Availability(n) \/ Recover(n) \/ CacheAccess(n)
               \/ UpdateLeadershipStatus(n) \/ PeriodicStep(n)
               \/ ReconcileLocked(n)
        PROVE  StoreInv' /\ HighGrows
    <2>1. UNCHANGED storeVars
      BY <1>7 DEF Availability, MarkRedisUnavailable, MarkRedisAvailable,
                  MarkDBUnavailable, MarkDBAvailable, Recover, CacheAccess,
                  ClearCache, GetFromCache, SetInCacheWithTTL,
                  UpdateLeadershipStatus, PeriodicStep, ReconcileIfLeader,
                  ValidateEpoch, ReconcileLocked
    <2> QED
      BY <1>1, <2>1
  <1>8. CASE UNCHANGED vars
    BY <1>1, <1>8 DEF vars
  <1> QED
    BY <1>5, <1>6, <1>7, <1>8 DEF Next

-----------------------------------------------------------------------------
(* Pending writes *)

LEMMA MarkedIs ==
    ASSUME NEW s \in Seq(PendingWrite), NEW i \in Nat \ {0}
    PROVE  /\ Marked(s, i) \in Seq(PendingWrite)
           /\ Len(Marked(s, i)) = Len(s)
           /\ \A j \in 1..Len(s) :
                /\ ~Marked(s, i)[j].reconciled => ~s[j].reconciled
                /\ Marked(s, i)[j].version = s[j].version
                /\ Marked(s, i)[j].key = s[j].key
  <1>1. CASE i <= Len(s)
    <2> DEFINE w == [s[i] EXCEPT !.reconciled = TRUE]
    <2>1. i \in 1..Len(s)
      BY <1>1, LenProperties
    <2>2. s[i] \in PendingWrite
      BY <2>1, ElementOfSeq
    <2>3. /\ w \in PendingWrite
          /\ w.reconciled /\ w.version = s[i].version /\ w.key = s[i].key
      BY <2>2 DEF PendingWrite
    <2>4. Marked(s, i) = [s EXCEPT ![i] = w]
      BY <1>1 DEF Marked
    <2> HIDE DEF w
    <2>5. /\ [s EXCEPT ![i] = w] \in Seq(PendingWrite)
          /\ Len([s EXCEPT ![i] = w]) = Len(s)
          /\ \A j \in 1..Len(s) :
                [s EXCEPT ![i] = w][j] = IF j = i THEN w ELSE s[j]
      BY <2>1, <2>3, ExceptSeq
    <2> QED
      BY <2>3, <2>4, <2>5
  <1>2. CASE ~(i <= Len(s))
    BY <1>2 DEF Marked
  <1> QED
    BY <1>1, <1>2

LEMMA TrimmedIs ==
    ASSUME NEW s \in Seq(PendingWrite)
    PROVE  \/ Trimmed(s) = s /\ Len(s) < MaxPendingWrites
           \/ Trimmed(s) = s /\ \A i \in 1..Len(s) : s[i].reconciled
           \/ \E m \in 1..Len(s) :
                /\ ~s[m].reconciled
                /\ \A i \in 1..(m - 1) : s[i].reconciled
                /\ Trimmed(s) = RemoveAt(s, m)
                /\ Len(s) >= MaxPendingWrites
                /\ m = Min({i \in DOMAIN s : ~s[i].reconciled})
  <1> DEFINE open == {i \in DOMAIN s : ~s[i].reconciled}
  <1>0. DOMAIN s = 1..Len(s) /\ Len(s) \in Nat
    BY LenProperties
  <1>1. CASE Len(s) >= MaxPendingWrites /\ open # {}
    <2>1. open \in SUBSET Nat
      BY <1>0
    <2>2. Trimmed(s) = RemoveAt(s, Min(open))
      BY <1>1 DEF Trimmed
    <2>3. Min(open) \in open /\ \A y \in open : Min(open) <= y
      <3> HIDE DEF open
      <3> QED
        BY <1>1, <2>1, MinIsLeast
    <2>4. PICK m : m = Min(open)
      OBVIOUS
    <2>5. m \in 1..Len(s) /\ ~s[m].reconciled
      BY <1>0, <2>3, <2>4
    <2>6. \A i \in 1..(m - 1) : s[i].reconciled
      <3> SUFFICES ASSUME NEW i \in 1..(m - 1), ~s[i].reconciled PROVE FALSE
        OBVIOUS
      <3>1. i \in 1..Len(s) /\ ~(m <= i)
        BY <1>0, <2>5
      <3>2. i \in open
        BY <1>0, <3>1
      <3> HIDE DEF open
      <3> QED
        BY <2>3, <2>4, <3>1, <3>2
    <2> QED
      BY <1>1, <2>2, <2>4, <2>5, <2>6
  <1>2. CASE ~(Len(s) >= MaxPendingWrites)
    BY <1>0, <1>2, DegradedAssumption DEF Trimmed
  <1>3. CASE open = {}
    <2>1. Trimmed(s) = s
      BY <1>3 DEF Trimmed
    <2> QED
      BY <1>0, <1>3, <2>1
  <1> QED
    BY <1>1, <1>2, <1>3

\* The list and the versions of each node, and what it knows of the leader.
WritesType ==
    /\ pendingWrites \in [Nodes -> Seq(PendingWrite)]
    /\ currentVersion \in [Nodes -> 0..MaxVersion]
    /\ outdated \in [Nodes -> 0..MaxVersion]
    /\ leadership \in [epoch : 0..MaxEpoch, leader : Nodes \cup {Other}]
    /\ coordinator \in [Nodes -> [epoch : 0..MaxEpoch, isLeader : BOOLEAN]]

LEMMA WritesInit == Init => WritesType
  BY DegradedAssumption, EmptySeq DEF Init, WritesType

LEMMA TrimmedType ==
    ASSUME NEW s \in Seq(PendingWrite)
    PROVE  Trimmed(s) \in Seq(PendingWrite)
  <1>1. Trimmed(s) = s \/ \E m \in 1..Len(s) : Trimmed(s) = RemoveAt(s, m)
    BY TrimmedIs
  <1> QED
    BY <1>1, RemoveAtIs

LEMMA SetInCacheWrites ==
    ASSUME WritesType, NEW n \in Nodes, NEW k \in Keys, NEW ttl \in TTLs,
           SetInCacheWithTTL(n, k, ttl)
    PROVE  \E w \in PendingWrite :
            /\ ~w.reconciled
            /\ w.version = currentVersion[n] + 1
            /\ pendingWrites' = [pendingWrites EXCEPT ![n] =
                                    Append(Trimmed(pendingWrites[n]), w)]
            /\ currentVersion' = [currentVersion EXCEPT
                                    ![n] = currentVersion[n] + 1]
            /\ currentVersion[n] + 1 \in 1..MaxVersion
  <1> DEFINE w == [key |-> k, version |-> currentVersion[n] + 1,
                   ttl |-> ttl, reconciled |-> FALSE]
  <1>1. ttl \in BOOLEAN
    BY Zenon DEF TTLs
  <1>2. currentVersion[n] \in 0..MaxVersion /\ currentVersion[n] < MaxVersion
    BY DEF WritesType, SetInCacheWithTTL
  <1>3. currentVersion[n] + 1 \in 1..MaxVersion
    BY <1>2, DegradedAssumption
  <1>4. w \in PendingWrite /\ ~w.reconciled /\ w.version = currentVersion[n] + 1
    BY <1>1, <1>3 DEF PendingWrite
  <1>5. /\ pendingWrites' = [pendingWrites EXCEPT ![n] =
                                Append(Trimmed(pendingWrites[n]), w)]
        /\ currentVersion' = [currentVersion EXCEPT
                                ![n] = currentVersion[n] + 1]
    BY DEF SetInCacheWithTTL
  <1> HIDE DEF w
  <1> QED
    BY <1>3, <1>4, <1>5

LEMMA MarkType ==
    ASSUME WritesType, CallInv, NEW c \in Calls,
           call[c].pc \in {"get", "set", "mark"}, Mark(c)
    PROVE  /\ call[c].i \in Nat \ {0}
           /\ pendingWrites' = [pendingWrites EXCEPT ![c[1]] =
                                    Marked(pendingWrites[c[1]], call[c].i)]
           /\ pendingWrites' \in [Nodes -> Seq(PendingWrite)]
  <1>1. call[c].i \in Nat \ {0}
    BY WriteType
  <1>2. c[1] \in Nodes
    BY DEF Calls
  <1>3. Marked(pendingWrites[c[1]], call[c].i) \in Seq(PendingWrite)
    BY <1>1, <1>2, MarkedIs DEF WritesType
  <1> QED
    BY <1>1, <1>2, <1>3 DEF Mark, WritesType

LEMMA WritesStep == WritesType /\ CallInv /\ [Next]_vars => WritesType'
  <1> SUFFICES ASSUME WritesType, CallInv, [Next]_vars PROVE WritesType'
    OBVIOUS
  <1>1. ASSUME UNCHANGED <<writeVars, leadership, coordinator>>
        PROVE  WritesType'
    BY <1>1 DEF writeVars, WritesType
  <1>2. CASE Environment
    <2>1. ASSUME NEW n \in Nodes \cup {Other}, NewLeader(n) PROVE WritesType'
      <3>1. leadership.epoch + 1 \in 0..MaxEpoch
        BY <2>1, DegradedAssumption DEF NewLeader, WritesType
      <3> QED
        BY <2>1, <3>1 DEF NewLeader, WritesType, writeVars, callVars
    <2>2. ASSUME NEW n \in Nodes, NEW v \in 1..MaxVersion, Age(n, v)
          PROVE  WritesType'
      BY <2>2 DEF Age, WritesType, envVars, callVars
    <2> QED
      BY <1>1, <1>2, <2>1, <2>2 DEF Environment, RedisChanges, LockExpires,
         Expire, OtherWrite, envVars, callVars
  <1>3. ASSUME NEW n \in Nodes, UpdateLeadershipStatus(n) PROVE WritesType'
    <2> DEFINE i == [epoch |-> leadership.epoch,
                     isLeader |-> leadership.leader = n]
    <2>1. i \in [epoch : 0..MaxEpoch, isLeader : BOOLEAN]
      BY DEF WritesType
    <2>2. coordinator' = [coordinator EXCEPT ![n] = i]
      BY <1>3 DEF UpdateLeadershipStatus
    <2> HIDE DEF i
    <2> QED
      BY <1>3, <2>1, <2>2
         DEF UpdateLeadershipStatus, WritesType, writeVars, envVars
  <1>4. ASSUME NEW n \in Nodes, NEW k \in Keys, NEW ttl \in TTLs,
               SetInCacheWithTTL(n, k, ttl)
        PROVE  WritesType'
    <2>1. PICK w \in PendingWrite :
            /\ pendingWrites' = [pendingWrites EXCEPT ![n] =
                                    Append(Trimmed(pendingWrites[n]), w)]
            /\ currentVersion' = [currentVersion EXCEPT
                                    ![n] = currentVersion[n] + 1]
            /\ currentVersion[n] + 1 \in 1..MaxVersion
      BY <1>4, SetInCacheWrites
    <2>2. Append(Trimmed(pendingWrites[n]), w) \in Seq(PendingWrite)
      BY TrimmedType, AppendProperties DEF WritesType
    <2> QED
      BY <1>4, <2>1, <2>2
         DEF SetInCacheWithTTL, WritesType, envVars, callVars
  <1>5. ASSUME NEW n \in Nodes,
               \/ Availability(n) \/ Recover(n) \/ PeriodicStep(n)
               \/ ReconcileLocked(n) \/ ClearCache(n)
               \/ \E k \in Keys : GetFromCache(n, k)
        PROVE  WritesType'
    <2>1. UNCHANGED <<writeVars, leadership, coordinator>>
      BY <1>5 DEF Availability, MarkRedisUnavailable, MarkRedisAvailable,
                  MarkDBUnavailable, MarkDBAvailable, Recover, PeriodicStep,
                  ReconcileIfLeader, ValidateEpoch, ReconcileLocked,
                  ClearCache, GetFromCache, envVars, callVars
    <2> QED
      BY <1>1, <2>1
  <1>6. ASSUME NEW c \in Calls, Replay(c) PROVE WritesType'
    <2>1. CASE SkipStale(c) \/ MarkReconciled(c)
      <3>1. /\ Mark(c) /\ call[c].pc \in {"get", "set", "mark"}
            /\ UNCHANGED <<currentVersion, outdated, leadership, coordinator>>
        BY <2>1 DEF SkipStale, MarkReconciled, envVars
      <3>2. pendingWrites' \in [Nodes -> Seq(PendingWrite)]
        BY <3>1, MarkType
      <3> QED
        BY <3>1, <3>2 DEF WritesType
    <2>2. CASE CleanUp(c)
      <3>1. c[1] \in Nodes
        BY DEF Calls
      <3>2. Unreconciled(pendingWrites[c[1]]) \in Seq(PendingWrite)
        BY <3>1, UnreconciledPicks DEF WritesType
      <3> QED
        BY <2>2, <3>1, <3>2 DEF CleanUp, WritesType, envVars
    <2>3. CASE ~(SkipStale(c) \/ MarkReconciled(c) \/ CleanUp(c))
      <3>1. UNCHANGED <<writeVars, leadership, coordinator>>
        BY <1>6, <2>3 DEF Replay, Snapshot, SkipReconciled, GetExisting,
                          SetSucceeds, SetFails, Return, envVars
      <3> QED
        BY <1>1, <3>1
    <2> QED
      BY <2>1, <2>2, <2>3
  <1>7. CASE UNCHANGED vars
    BY <1>1, <1>7 DEF vars, envVars, callVars
  <1> QED
    BY <1>2, <1>3, <1>4, <1>5, <1>6, <1>7 DEF Next, CacheAccess

-----------------------------------------------------------------------------
(* The replays *)

LEMMA NoCallIs == NoCall \in CallRecord /\ \A h : Loop(NoCall, h)
  <1>1. <<>> \in Seq(PendingWrite)
    BY EmptySeq
  <1>2. NoCall \in CallRecord
    BY <1>1, DegradedAssumption DEF NoCall, CallRecord
  <1>3. NoCall.pc = "idle" /\ NoCall.pending = <<>> /\ ~NoCall.failed
    BY DEF NoCall
  <1> QED
    BY <1>2, <1>3 DEF Loop

LEMMA CallInit == Init => CallInv
  BY NoCallIs DEF Init, CallInv

\* The program counter of a replay changes, and nothing else of it.
LEMMA GotoIs ==
    ASSUME CallInv, NEW c \in Calls,
           NEW pc \in {"snapshot", "set", "mark", "return"}, Goto(c, pc)
    PROVE  /\ [call[c] EXCEPT !.pc = pc] \in CallRecord
           /\ call' = [call EXCEPT ![c] = [call[c] EXCEPT !.pc = pc]]
           /\ [call[c] EXCEPT !.pc = pc].pc = pc
           /\ [call[c] EXCEPT !.pc = pc].pending = call[c].pending
           /\ [call[c] EXCEPT !.pc = pc].i = call[c].i
           /\ [call[c] EXCEPT !.pc = pc].failed = call[c].failed
  <1>1. call[c] \in CallRecord
    BY DEF CallInv
  <1>2. call' = [call EXCEPT ![c] = [call[c] EXCEPT !.pc = pc]]
    BY DEF Goto
  <1> QED
    BY <1>1, <1>2 DEF CallRecord

LEMMA ReplayStep ==
    ASSUME StoreInv, WritesType, CallInv, StoreInv', HighGrows,
           NEW c \in Calls, Replay(c)
    PROVE  CallInv'
  <1>0. /\ call[c] \in CallRecord
        /\ call[c].pending \in Seq(PendingWrite)
        /\ call[c].failed \in BOOLEAN
        /\ Loop(call[c], high')
    BY LoopKept DEF CallInv, CallRecord
  <1>1. CASE Snapshot(c)
    <2> DEFINE w == pendingWrites[c[1]]
    <2>1. w \in Seq(PendingWrite) /\ Len(w) \in Nat
      BY LenProperties DEF WritesType, Calls
    <2>2. call[c].pending = <<>> /\ ~call[c].failed
      BY <1>0, <1>1 DEF Snapshot, Loop
    <2>3. CASE w = <<>>
      <3>1. PICK r : r = [call[c] EXCEPT !.pc = "return"]
        OBVIOUS
      <3>2. call' = [call EXCEPT ![c] = r]
        BY <1>1, <2>3, <3>1 DEF Snapshot
      <3>3. r \in CallRecord /\ r.pc = "return" /\ r.pending = <<>>
        BY <1>0, <2>2, <3>1 DEF CallRecord
      <3>4. Loop(r, high')
        BY <3>3 DEF Loop
      <3> QED
        BY <3>2, <3>3, <3>4, ReplaceCall
    <2>4. CASE w # <<>>
      <3>1. PICK q : q = [call[c] EXCEPT !.pending = w]
        OBVIOUS
      <3>2. PICK r : r = [q EXCEPT !.i = 1, !.pc = "get"]
        OBVIOUS
      <3>3. Len(w) >= 1
        BY <2>1, <2>4, EmptySeq
      <3>4. At(q, 1) = r
        <4>1. q.pending = w
          BY <1>0, <3>1 DEF CallRecord
        <4>2. ~(1 > Len(q.pending))
          BY <2>1, <3>3, <4>1
        <4> QED
          BY <3>2, <4>2 DEF At
      <3>5. call' = [call EXCEPT ![c] = r]
        BY <1>1, <2>4, <3>1, <3>4 DEF Snapshot
      <3>6. /\ r \in CallRecord
            /\ r.pc = "get" /\ r.i = 1 /\ r.pending = w
        BY <1>0, <2>1, <3>1, <3>2 DEF CallRecord
      <3>7. Loop(r, high')
        BY <2>1, <3>3, <3>6 DEF Loop
      <3> QED
        BY <3>5, <3>6, <3>7, ReplaceCall
    <2> QED
      BY <2>3, <2>4
  <1>2. ASSUME Done(c), call[c].pc \in {"get", "set", "mark"},
               Synced(Write(c), high')
        PROVE  CallInv'
    <2>1. /\ call[c].i \in 1..Len(call[c].pending)
          /\ ~call[c].failed => \A j \in 1..(call[c].i - 1) :
                                    Synced(call[c].pending[j], high')
      BY <1>0, <1>2 DEF Loop
    <2>2. call[c].failed \/ \A j \in 1..call[c].i :
                                Synced(call[c].pending[j], high')
      <3> SUFFICES ASSUME ~call[c].failed, NEW j \in 1..call[c].i
                   PROVE  Synced(call[c].pending[j], high')
        OBVIOUS
      <3>1. j \in 1..(call[c].i - 1) \/ j = call[c].i
        BY <2>1
      <3> QED
        BY <1>2, <2>1, <3>1 DEF Write
    <2>3. PICK r : r = At(call[c], call[c].i + 1)
      OBVIOUS
    <2>4. r \in CallRecord /\ Loop(r, high')
      BY <1>0, <2>1, <2>2, <2>3, NextPosition
    <2>5. call' = [call EXCEPT ![c] = r]
      BY <1>2, <2>3 DEF Done
    <2> QED
      BY <2>4, <2>5, ReplaceCall
  <1>3. ASSUME Failed(c), call[c].pc \in {"get", "set", "mark"}
        PROVE  CallInv'
    <2>1. call[c].i \in 1..Len(call[c].pending)
      BY <1>0, <1>3 DEF Loop
    <2>2. PICK q : q = [call[c] EXCEPT !.failed = TRUE]
      OBVIOUS
    <2>3. /\ q \in CallRecord /\ q.failed /\ q.i = call[c].i
          /\ q.pending = call[c].pending
      BY <1>0, <2>2 DEF CallRecord
    <2>4. PICK r : r = At(q, q.i + 1)
      OBVIOUS
    <2>5. r \in CallRecord /\ Loop(r, high')
      BY <2>1, <2>3, <2>4, NextPosition
    <2>6. call' = [call EXCEPT ![c] = r]
      BY <1>3, <2>2, <2>3, <2>4 DEF Failed
    <2> QED
      BY <2>5, <2>6, ReplaceCall
  <1>4. CASE SkipReconciled(c)
    BY <1>2, <1>4 DEF SkipReconciled, Synced
  <1>5. CASE SkipStale(c) \/ SetFails(c)
    BY <1>3, <1>5 DEF SkipStale, SetFails
  <1>6. ASSUME NEW pc \in {"set", "mark"}, Goto(c, pc),
               call[c].pc \in {"get", "set"},
               pc = "mark" => Synced(Write(c), high')
        PROVE  CallInv'
    <2>1. PICK r : r = [call[c] EXCEPT !.pc = pc]
      OBVIOUS
    <2>2. /\ r \in CallRecord /\ call' = [call EXCEPT ![c] = r]
          /\ r.pc = pc /\ r.pending = call[c].pending /\ r.i = call[c].i
          /\ r.failed = call[c].failed
      <3>1. pc \in {"snapshot", "set", "mark", "return"}
        OBVIOUS
      <3> QED
        BY <1>6, <2>1, <3>1, GotoIs
    <2>3. Loop(r, high')
      BY <1>0, <1>6, <2>2 DEF Loop, Write
    <2> QED
      BY <2>2, <2>3, ReplaceCall
  <1>7. CASE GetExisting(c)
    <2>1. /\ Write(c).key \in Keys
          /\ Write(c).version \in 1..MaxVersion
      BY <1>7, WriteType DEF GetExisting
    <2>2. CASE GetVersioned(Write(c).key) >= Write(c).version
      <3>1. /\ redis[Write(c).key].version \in 0..MaxVersion
            /\ high[Write(c).key] \in 0..MaxVersion
            /\ high'[Write(c).key] \in 0..MaxVersion
            /\ redis[Write(c).key].version <= high[Write(c).key]
            /\ high[Write(c).key] <= high'[Write(c).key]
        BY <2>1 DEF StoreInv, HighGrows, Hash
      <3>2. GetVersioned(Write(c).key) <= high[Write(c).key]
        BY <3>1 DEF GetVersioned
      <3>3. GetVersioned(Write(c).key) \in 0..MaxVersion
        BY <3>1, DegradedAssumption DEF GetVersioned
      <3>4. high'[Write(c).key] >= Write(c).version
        BY <2>1, <2>2, <3>1, <3>2, <3>3
      <3>5. Goto(c, "mark")
        BY <1>7, <2>2 DEF GetExisting
      <3> QED
        BY <1>6, <1>7, <3>4, <3>5 DEF GetExisting, Synced
    <2>3. CASE ~(GetVersioned(Write(c).key) >= Write(c).version)
      BY <1>6, <1>7, <2>3 DEF GetExisting
    <2> QED
      BY <2>2, <2>3
  <1>8. CASE SetSucceeds(c)
    <2>1. /\ Write(c).key \in Keys
          /\ Write(c).version \in 1..MaxVersion
          /\ Write(c).ttl \in BOOLEAN
      BY <1>8, WriteType DEF SetSucceeds
    <2>2. c[1] \in Nodes \cup {Other}
      BY DEF Calls
    <2>3. Write(c).version <= high'[Write(c).key]
      BY <1>8, <2>1, <2>2, ScriptKeepsBound DEF SetSucceeds
    <2>4. high'[Write(c).key] \in 0..MaxVersion
      BY <2>1 DEF StoreInv
    <2> QED
      BY <1>6, <1>8, <2>1, <2>3, <2>4 DEF SetSucceeds, Synced
  <1>9. CASE MarkReconciled(c)
    <2>1. Synced(Write(c), high')
      BY <1>0, <1>9 DEF MarkReconciled, Loop, Write
    <2> QED
      BY <1>2, <1>9, <2>1 DEF MarkReconciled
  <1>10. CASE CleanUp(c)
    <2>1. PICK r : r = [call[c] EXCEPT !.pc = "return"]
      OBVIOUS
    <2>2. /\ r \in CallRecord /\ call' = [call EXCEPT ![c] = r]
          /\ r.pc = "return" /\ r.pending = call[c].pending
          /\ r.failed = call[c].failed
      BY <1>10, <2>1, GotoIs DEF CleanUp
    <2>3. Loop(r, high')
      BY <1>0, <1>10, <2>2 DEF Loop, CleanUp
    <2> QED
      BY <2>2, <2>3, ReplaceCall
  <1>11. CASE Return(c)
    BY <1>11, NoCallIs, ReplaceCall DEF Return
  <1> QED
    BY <1>1, <1>4, <1>5, <1>7, <1>8, <1>9, <1>10, <1>11 DEF Replay

LEMMA CallStep ==
    ASSUME StoreInv, WritesType, CallInv, Next, StoreInv', HighGrows
    PROVE  CallInv'
  <1>1. ASSUME UNCHANGED call PROVE CallInv'
    BY <1>1, CallFrame
  <1>2. ASSUME NEW c \in Calls, call[c].pc = "idle" \/ call[c].pc = "validate",
               Goto(c, "snapshot")
        PROVE  CallInv'
    <2>1. PICK r : r = [call[c] EXCEPT !.pc = "snapshot"]
      OBVIOUS
    <2>2. /\ r \in CallRecord /\ call' = [call EXCEPT ![c] = r]
          /\ r.pc = "snapshot" /\ r.pending = call[c].pending
          /\ r.failed = call[c].failed
      BY <1>2, <2>1, GotoIs
    <2>3. call[c].pending = <<>> /\ ~call[c].failed
      BY <1>2 DEF CallInv, Loop
    <2>4. Loop(r, high')
      BY <2>2, <2>3 DEF Loop
    <2> QED
      BY <2>2, <2>4, ReplaceCall
  <1>3. ASSUME NEW c \in Calls, call' = [call EXCEPT ![c] = NoCall]
        PROVE  CallInv'
    BY <1>3, NoCallIs, ReplaceCall
  <1>4. ASSUME NEW n \in Nodes, "recovery" \in Paths, Recover(n) PROVE CallInv'
    <2>1. <<n, "recovery">> \in Calls
      BY <1>4 DEF Calls
    <2> QED
      BY <1>1, <1>2, <1>4, <2>1 DEF Recover
  <1>5. ASSUME NEW n \in Nodes, "locked" \in Paths, ReconcileLocked(n)
        PROVE  CallInv'
    <2>1. <<n, "locked">> \in Calls
      BY <1>5 DEF Calls
    <2> QED
      BY <1>2, <1>5, <2>1 DEF ReconcileLocked
  <1>6. ASSUME NEW n \in Nodes, "periodic" \in Paths, PeriodicStep(n)
        PROVE  CallInv'
    <2> DEFINE c == <<n, "periodic">>
    <2>1. c \in Calls
      BY <1>6 DEF Calls
    <2>2. CASE ReconcileIfLeader(n)
      <3>1. PICK r : r = [call[c] EXCEPT !.pc = "validate",
                                         !.epoch = coordinator[n].epoch]
        OBVIOUS
      <3>2. call' = [call EXCEPT ![c] = r] /\ call[c].pc = "idle"
        BY <2>2, <3>1 DEF ReconcileIfLeader
      <3>3. coordinator[n].epoch \in 0..MaxEpoch /\ call[c] \in CallRecord
        BY <2>1 DEF WritesType, CallInv
      <3>4. /\ r \in CallRecord
            /\ r.pc = "validate" /\ r.pending = call[c].pending
            /\ r.failed = call[c].failed
        BY <3>1, <3>3 DEF CallRecord
      <3>5. call[c].pending = <<>> /\ ~call[c].failed
        BY <2>1, <3>2 DEF CallInv, Loop
      <3>6. Loop(r, high')
        BY <3>4, <3>5 DEF Loop
      <3> QED
        BY <2>1, <3>2, <3>4, <3>6, ReplaceCall
    <2>3. CASE ValidateEpoch(n)
      <3>1. Goto(c, "snapshot") \/ call' = [call EXCEPT ![c] = NoCall]
        BY <2>3 DEF ValidateEpoch, Goto
      <3> QED
        BY <1>2, <1>3, <2>1, <2>3, <3>1 DEF ValidateEpoch
    <2> QED
      BY <1>6, <2>2, <2>3 DEF PeriodicStep
  <1>7. ASSUME NEW c \in Calls, Replay(c) PROVE CallInv'
    BY <1>7, ReplayStep
  <1>8. CASE Environment
    BY <1>1, <1>8 DEF Environment, RedisChanges, LockExpires, Expire,
       OtherWrite, NewLeader, Age, callVars
  <1>9. ASSUME NEW n \in Nodes,
               Availability(n) \/ CacheAccess(n) \/ UpdateLeadershipStatus(n)
        PROVE  CallInv'
    BY <1>1, <1>9 DEF Availability, MarkRedisUnavailable, MarkRedisAvailable,
       MarkDBUnavailable, MarkDBAvailable, CacheAccess, ClearCache,
       GetFromCache, SetInCacheWithTTL, UpdateLeadershipStatus, callVars
  <1> QED
    BY <1>4, <1>5, <1>6, <1>7, <1>8, <1>9 DEF Next

LEMMA CallKept ==
    StoreInv /\ WritesType /\ CallInv /\ [Next]_vars => CallInv'
  <1>1. ASSUME UNCHANGED vars, CallInv PROVE CallInv'
    <2>1. UNCHANGED <<call, high>>
      BY <1>1 DEF vars, callVars, storeVars
    <2> QED
      BY <1>1, <2>1 DEF CallInv
  <1> QED
    BY <1>1, CallStep, StoreInvStep

\* A replay that ends without an error reports the truth: each write of its
\* snapshot that was open is in Redis, or that version or a later one was
\* found there, whatever other replays, writers, expiries and outages do.
THEOREM SuccessSynced == Spec => []SuccessIsSynced
  <1>1. CallInv => SuccessIsSynced
    <2> SUFFICES ASSUME CallInv, NEW c \in Calls,
                        call[c].pc \in {"clean", "return"}, ~call[c].failed,
                        NEW i \in DOMAIN call[c].pending,
                        ~call[c].pending[i].reconciled
                 PROVE  high[call[c].pending[i].key]
                            >= call[c].pending[i].version
      BY DEF SuccessIsSynced
    <2>1. call[c].pending \in Seq(PendingWrite) /\ Loop(call[c], high)
      BY DEF CallInv, CallRecord
    <2>2. i \in 1..Len(call[c].pending)
      BY <2>1, LenProperties
    <2>3. Synced(call[c].pending[i], high)
      BY <2>1, <2>2 DEF Loop
    <2> QED
      BY <2>3 DEF Synced
  <1> QED
    BY <1>1, StoreInvInit, StoreInvStep, WritesInit, WritesStep, CallInit,
       CallKept, PTL DEF Spec

-----------------------------------------------------------------------------
(* The cache *)

\* No key is in the sequence twice.
Distinct(s) == \A i, j \in 1..Len(s) : s[i] = s[j] => i = j

LEMMA RangeIs ==
    ASSUME NEW S, NEW s \in Seq(S)
    PROVE  \A x : x \in Range(s) <=> \E i \in 1..Len(s) : x = s[i]
  BY LenProperties DEF Range

LEMMA RemoveFirstIs ==
    ASSUME NEW s \in Seq(Keys), Distinct(s), NEW k
    PROVE  /\ RemoveFirst(s, k) \in Seq(Keys)
           /\ Distinct(RemoveFirst(s, k))
           /\ Range(RemoveFirst(s, k)) = Range(s) \ {k}
  <1> DEFINE I == {i \in 1..Len(s) : s[i] = k}
  <1>0. Len(s) \in Nat
    BY LenProperties
  <1>1. CASE I = {}
    <2>1. RemoveFirst(s, k) = s
      BY <1>1 DEF RemoveFirst
    <2>2. k \notin Range(s)
      BY <1>1, RangeIs
    <2> QED
      BY <2>1, <2>2
  <1>2. CASE I # {}
    <2>1. I \in SUBSET Nat
      BY <1>0
    <2>2. RemoveFirst(s, k) = RemoveAt(s, Min(I))
      <3>1. SelectInSeq(s, LAMBDA v : v = k) = Min(I)
        BY <1>2 DEF SelectInSeq
      <3>2. \E i \in 1..Len(s) : s[i] = k
        BY <1>2
      <3> QED
        BY <3>1, <3>2 DEF RemoveFirst
    <2>3. Min(I) \in I
      <3> HIDE DEF I
      <3> QED
        BY <1>2, <2>1, MinIsLeast
    <2>4. PICK m : m = Min(I)
      OBVIOUS
    <2>5. m \in 1..Len(s) /\ s[m] = k
      BY <2>3, <2>4
    <2>6. PICK t : t = RemoveFirst(s, k)
      OBVIOUS
    <2>7. /\ t \in Seq(Keys)
          /\ Len(t) = Len(s) - 1
          /\ \A j \in 1..(Len(s) - 1) : t[j] = IF j < m THEN s[j] ELSE s[j + 1]
      BY <2>2, <2>4, <2>5, <2>6, RemoveAtIs
    <2>8. Distinct(t)
      <3> SUFFICES ASSUME NEW i \in 1..Len(t), NEW j \in 1..Len(t), t[i] = t[j]
                   PROVE  i = j
        BY DEF Distinct
      <3> DEFINE p(x) == IF x < m THEN x ELSE x + 1
      <3>1. /\ p(i) \in 1..Len(s) /\ p(j) \in 1..Len(s)
            /\ t[i] = s[p(i)] /\ t[j] = s[p(j)]
        BY <1>0, <2>5, <2>7
      <3>2. p(i) = p(j)
        BY <3>1 DEF Distinct
      <3> QED
        BY <1>0, <2>5, <2>7, <3>2
    <2>9. Range(t) = Range(s) \ {k}
      <3>1. ASSUME NEW x \in Range(t) PROVE x \in Range(s) \ {k}
        <4>1. PICK j \in 1..Len(t) : x = t[j]
          BY <2>7, <3>1, RangeIs
        <4>2. PICK i \in 1..Len(s) : i # m /\ x = s[i]
          BY <1>0, <2>5, <2>7, <4>1
        <4> QED
          BY <2>5, <4>2, RangeIs DEF Distinct
      <3>2. ASSUME NEW x \in Range(s) \ {k} PROVE x \in Range(t)
        <4>1. PICK i \in 1..Len(s) : x = s[i]
          BY <3>2, RangeIs
        <4>2. i # m
          BY <2>5, <3>2, <4>1
        <4>3. \E j \in 1..Len(t) : x = t[j]
          <5>1. CASE i < m
            <6>1. i \in 1..Len(t) /\ t[i] = s[i]
              BY <1>0, <2>5, <2>7, <5>1
            <6> QED
              BY <4>1, <6>1
          <5>2. CASE i > m
            <6>1. i - 1 \in 1..Len(t) /\ t[i - 1] = s[i]
              BY <1>0, <2>5, <2>7, <5>2
            <6> QED
              BY <4>1, <6>1
          <5> QED
            BY <1>0, <2>5, <4>2, <5>1, <5>2
        <4> QED
          BY <2>7, <4>3, RangeIs
      <3> QED
        BY <3>1, <3>2
    <2> QED
      BY <2>6, <2>7, <2>8, <2>9
  <1> QED
    BY <1>1, <1>2

LEMMA TouchedIs ==
    ASSUME NEW s \in Seq(Keys), Distinct(s), NEW k \in Keys
    PROVE  /\ Touched(s, k) \in Seq(Keys)
           /\ Distinct(Touched(s, k))
           /\ Range(Touched(s, k)) = Range(s) \cup {k}
  <1>1. PICK r : r = RemoveFirst(s, k)
    OBVIOUS
  <1>2. r \in Seq(Keys) /\ Distinct(r) /\ Range(r) = Range(s) \ {k}
    BY <1>1, RemoveFirstIs
  <1>3. PICK t : t = Touched(s, k)
    OBVIOUS
  <1>4. /\ t \in Seq(Keys)
        /\ Len(t) = Len(r) + 1 /\ Len(r) \in Nat
        /\ \A i \in 1..Len(r) : t[i] = r[i]
        /\ t[Len(r) + 1] = k
    BY <1>1, <1>2, <1>3, AppendProperties, LenProperties DEF Touched
  <1>5. \A i \in 1..Len(r) : r[i] # k
    BY <1>2, RangeIs
  <1>6. Distinct(t)
    BY <1>2, <1>4, <1>5 DEF Distinct
  <1>7. Range(t) = Range(r) \cup {k}
    <2>1. ASSUME NEW x PROVE x \in Range(t) <=> x \in Range(r) \/ x = k
      <3>1. x \in Range(t) <=> \E i \in 1..Len(t) : x = t[i]
        BY <1>4, RangeIs
      <3>2. x \in Range(r) <=> \E i \in 1..Len(r) : x = r[i]
        BY <1>2, RangeIs
      <3> QED
        BY <1>4, <3>1, <3>2
    <2> QED
      BY <2>1
  <1> QED
    BY <1>2, <1>3, <1>4, <1>6, <1>7

LEMMA TailIs ==
    ASSUME NEW s \in Seq(Keys), Distinct(s), s # <<>>
    PROVE  /\ Tail(s) \in Seq(Keys)
           /\ Distinct(Tail(s))
           /\ \E x \in Range(s) : Range(Tail(s)) = Range(s) \ {x}
  <1>1. PICK t : t = Tail(s)
    OBVIOUS
  <1>2. /\ t \in Seq(Keys)
        /\ Len(s) \in Nat \ {0}
        /\ Len(t) = Len(s) - 1
        /\ \A i \in 1..Len(t) : t[i] = s[i + 1]
    BY <1>1, HeadTailProperties, EmptySeq
  <1>3. Distinct(t)
    BY <1>2 DEF Distinct
  <1>4. s[1] \in Range(s)
    BY <1>2, RangeIs
  <1>5. Range(t) = Range(s) \ {s[1]}
    <2>1. ASSUME NEW x PROVE x \in Range(t) <=> x \in Range(s) /\ x # s[1]
      <3>1. x \in Range(t) <=> \E i \in 1..Len(t) : x = t[i]
        BY <1>2, RangeIs
      <3>2. x \in Range(s) <=> \E i \in 1..Len(s) : x = s[i]
        BY RangeIs
      <3>3. ASSUME NEW i \in 1..Len(s), i # 1
            PROVE  i - 1 \in 1..Len(t) /\ t[i - 1] = s[i] /\ s[i] # s[1]
        BY <1>2, <3>3 DEF Distinct
      <3>4. ASSUME NEW i \in 1..Len(t)
            PROVE  i + 1 \in 1..Len(s) /\ i + 1 # 1 /\ t[i] = s[i + 1]
        BY <1>2
      <3>5. x \in Range(t) => x \in Range(s) /\ x # s[1]
        BY <3>1, <3>2, <3>3, <3>4
      <3>6. x \in Range(s) /\ x # s[1] => x \in Range(t)
        BY <3>1, <3>2, <3>3
      <3> QED
        BY <3>5, <3>6
    <2> QED
      BY <2>1
  <1> QED
    BY <1>1, <1>2, <1>3, <1>4, <1>5

\* The keys of the cache are distinct, so that what goes at its end leaves the
\* set of keys too, and the counter follows the set.
CacheOf(s, size) ==
    /\ s \in Seq(Keys)
    /\ Distinct(s)
    /\ IsFiniteSet(Range(s))
    /\ size = Cardinality(Range(s))
    /\ size \in 0..MaxCacheSize

CacheInv ==
    /\ localCache \in [Nodes -> Seq(Keys)]
    /\ cacheSize \in [Nodes -> Nat]
    /\ \A n \in Nodes : CacheOf(localCache[n], cacheSize[n])

LEMMA EmptyRange == ASSUME NEW e \in Seq(Keys), Len(e) = 0 PROVE Range(e) = {}
  <1>1. \A x : x \in Range(e) <=> \E i \in 1..Len(e) : x = e[i]
    BY RangeIs
  <1>2. 1..Len(e) = {}
    OBVIOUS
  <1> QED
    BY <1>1, <1>2

LEMMA EmptyCache == CacheOf(<<>>, 0)
  <1>1. PICK e : e = <<>>
    OBVIOUS
  <1>2. e \in Seq(Keys) /\ Len(e) = 0
    BY <1>1, EmptySeq
  <1>3. Range(e) = {}
    BY <1>2, EmptyRange
  <1>4. IsFiniteSet(Range(e)) /\ Cardinality(Range(e)) = 0
    BY <1>3, FS_EmptySet
  <1>5. Distinct(e)
    BY <1>2 DEF Distinct
  <1>6. 0 \in 0..MaxCacheSize
    BY DegradedAssumption
  <1>7. CacheOf(e, 0)
    BY <1>2, <1>4, <1>5, <1>6 DEF CacheOf
  <1> QED
    BY <1>1, <1>7

LEMMA CacheInit == Init => CacheInv
  <1>1. <<>> \in Seq(Keys)
    BY EmptySeq
  <1> QED
    BY <1>1, EmptyCache DEF Init, CacheInv

LEMMA CacheUpdate ==
    ASSUME CacheInv, NEW n \in Nodes, NEW s, NEW size, CacheOf(s, size),
           localCache' = [localCache EXCEPT ![n] = s],
           cacheSize' = [cacheSize EXCEPT ![n] = size]
    PROVE  CacheInv'
  <1>1. s \in Seq(Keys) /\ size \in Nat
    BY DegradedAssumption DEF CacheOf
  <1>2. /\ localCache' \in [Nodes -> Seq(Keys)]
        /\ cacheSize' \in [Nodes -> Nat]
    BY <1>1 DEF CacheInv
  <1>3. \A m \in Nodes : CacheOf(localCache'[m], cacheSize'[m])
    BY DEF CacheInv
  <1> QED
    BY <1>2, <1>3 DEF CacheInv

LEMMA CacheStep == CacheInv /\ [Next]_vars => CacheInv'
  <1> SUFFICES ASSUME CacheInv, [Next]_vars PROVE CacheInv'
    OBVIOUS
  <1>1. ASSUME UNCHANGED cacheVars PROVE CacheInv'
    BY <1>1 DEF cacheVars, CacheInv
  <1>2. ASSUME NEW n \in Nodes, ClearCache(n) PROVE CacheInv'
    BY <1>2, EmptyCache, CacheUpdate DEF ClearCache
  <1>3. ASSUME NEW n \in Nodes, NEW k \in Keys, GetFromCache(n, k)
        PROVE  CacheInv'
    <2>1. CacheOf(localCache[n], cacheSize[n])
      BY DEF CacheInv
    <2>2. PICK s : s = Touched(localCache[n], k)
      OBVIOUS
    <2>3. /\ s \in Seq(Keys) /\ Distinct(s)
          /\ Range(s) = Range(localCache[n]) \cup {k}
      BY <2>1, <2>2, TouchedIs DEF CacheOf
    <2>4. Range(s) = Range(localCache[n])
      BY <1>3, <2>3 DEF GetFromCache
    <2>5. CacheOf(s, cacheSize[n])
      BY <2>1, <2>3, <2>4 DEF CacheOf
    <2>6. /\ localCache' = [localCache EXCEPT ![n] = s]
          /\ cacheSize' = [cacheSize EXCEPT ![n] = cacheSize[n]]
      BY <1>3, <2>2 DEF GetFromCache, CacheInv
    <2> QED
      BY <2>5, <2>6, CacheUpdate
  <1>4. ASSUME NEW n \in Nodes, NEW k \in Keys, NEW ttl \in TTLs,
               SetInCacheWithTTL(n, k, ttl)
        PROVE  CacheInv'
    <2>0. CacheOf(localCache[n], cacheSize[n])
      BY DEF CacheInv
    <2>1. PICK full : full = (cacheSize[n] >= MaxCacheSize
                                /\ localCache[n] # <<>>)
      OBVIOUS
    <2>2. PICK kept, size :
            /\ kept = IF full THEN Tail(localCache[n]) ELSE localCache[n]
            /\ size = IF full THEN cacheSize[n] - 1 ELSE cacheSize[n]
      OBVIOUS
    <2>3. CacheOf(kept, size) /\ size < MaxCacheSize
      <3>1. CASE full
        <4>1. localCache[n] # <<>>
          BY <2>1, <3>1
        <4>2. kept \in Seq(Keys) /\ Distinct(kept)
          BY <2>0, <2>2, <3>1, <4>1, TailIs DEF CacheOf
        <4>3. PICK x \in Range(localCache[n]) :
                Range(kept) = Range(localCache[n]) \ {x}
          BY <2>0, <2>2, <3>1, <4>1, TailIs DEF CacheOf
        <4>4. /\ IsFiniteSet(Range(kept))
              /\ Cardinality(Range(kept)) = cacheSize[n] - 1
          BY <2>0, <4>3, FS_RemoveElement DEF CacheOf
        <4>5. Cardinality(Range(kept)) \in Nat
          BY <4>4, FS_CardinalityType
        <4>6. cacheSize[n] \in 0..MaxCacheSize /\ size = cacheSize[n] - 1
          BY <2>0, <2>2, <3>1 DEF CacheOf
        <4> QED
          BY <4>2, <4>4, <4>5, <4>6, DegradedAssumption DEF CacheOf
      <3>2. CASE ~full
        <4>1. CASE localCache[n] = <<>>
          <5>1. Range(localCache[n]) = {}
            BY <2>0, <4>1, EmptySeq, EmptyRange DEF CacheOf
          <5>2. cacheSize[n] = 0
            BY <2>0, <5>1, FS_EmptySet DEF CacheOf
          <5> QED
            BY <2>0, <2>2, <3>2, <5>2, DegradedAssumption
        <4>2. CASE ~(cacheSize[n] >= MaxCacheSize)
          BY <2>0, <2>2, <3>2, <4>2, DegradedAssumption DEF CacheOf
        <4> QED
          BY Zenon, <2>1, <3>2, <4>1, <4>2
      <3> QED
        BY <3>1, <3>2
    <2>4. PICK s, z : /\ s = Touched(kept, k)
                      /\ z = IF k \in Range(kept) THEN size ELSE size + 1
      OBVIOUS
    <2>5. s \in Seq(Keys) /\ Distinct(s) /\ Range(s) = Range(kept) \cup {k}
      BY <2>3, <2>4, TouchedIs DEF CacheOf
    <2>6. IsFiniteSet(Range(s)) /\ Cardinality(Range(s)) = z
      BY <2>3, <2>4, <2>5, FS_AddElement DEF CacheOf
    <2>7. z \in 0..MaxCacheSize
      BY <2>3, <2>4, DegradedAssumption DEF CacheOf
    <2>8. CacheOf(s, z)
      BY <2>5, <2>6, <2>7 DEF CacheOf
    <2>9. /\ localCache' = [localCache EXCEPT ![n] = s]
          /\ cacheSize' = [cacheSize EXCEPT ![n] = z]
      BY <1>4, <2>1, <2>2, <2>4 DEF SetInCacheWithTTL
    <2> QED
      BY <2>8, <2>9, CacheUpdate
  <1>5. CASE Environment
    BY <1>1, <1>5 DEF Environment, RedisChanges, LockExpires, Expire,
       OtherWrite, NewLeader, Age
  <1>6. ASSUME NEW n \in Nodes,
               \/ Availability(n) \/ Recover(n) \/ PeriodicStep(n)
               \/ ReconcileLocked(n) \/ UpdateLeadershipStatus(n)
        PROVE  CacheInv'
    BY <1>1, <1>6 DEF Availability, MarkRedisUnavailable, MarkRedisAvailable,
       MarkDBUnavailable, MarkDBAvailable, Recover, PeriodicStep,
       ReconcileIfLeader, ValidateEpoch, ReconcileLocked,
       UpdateLeadershipStatus
  <1>7. ASSUME NEW c \in Calls, Replay(c) PROVE CacheInv'
    BY <1>1, <1>7 DEF Replay, Snapshot, SkipReconciled, SkipStale,
       GetExisting, SetSucceeds, SetFails, MarkReconciled, CleanUp, Return
  <1>8. CASE UNCHANGED vars
    BY <1>1, <1>8 DEF vars
  <1> QED
    BY <1>2, <1>3, <1>4, <1>5, <1>6, <1>7, <1>8 DEF Next, CacheAccess

-----------------------------------------------------------------------------
(* The limit of pending writes *)

Open(s) == {i \in DOMAIN s : ~s[i].reconciled}

LEMMA OpenFinite ==
    ASSUME NEW s \in Seq(PendingWrite)
    PROVE  /\ Open(s) \subseteq 1..Len(s)
           /\ IsFiniteSet(Open(s))
           /\ Cardinality(Open(s)) \in Nat
           /\ Cardinality(Open(s)) <= Len(s)
  <1>1. DOMAIN s = 1..Len(s) /\ Len(s) \in Nat
    BY LenProperties
  <1>2. Open(s) \subseteq 1..Len(s)
    BY <1>1 DEF Open
  <1>3. IsFiniteSet(1..Len(s)) /\ Cardinality(1..Len(s)) = Len(s)
    BY <1>1, FS_Interval
  <1> QED
    BY <1>2, <1>3, FS_Subset, FS_CardinalityType

LEMMA TrimmedOpen ==
    ASSUME NEW s \in Seq(PendingWrite),
           Cardinality(Open(s)) <= MaxPendingWrites
    PROVE  Cardinality(Open(Trimmed(s))) < MaxPendingWrites
  <1>0. Len(s) \in Nat /\ DOMAIN s = 1..Len(s)
    BY LenProperties
  <1>1. CASE Trimmed(s) = s /\ Len(s) < MaxPendingWrites
    BY <1>0, <1>1, OpenFinite, DegradedAssumption
  <1>2. CASE Trimmed(s) = s /\ \A i \in 1..Len(s) : s[i].reconciled
    <2>1. Open(s) = {}
      BY <1>0, <1>2 DEF Open
    <2> QED
      BY <1>2, <2>1, FS_EmptySet, DegradedAssumption
  <1>3. ASSUME NEW m \in 1..Len(s), ~s[m].reconciled,
               Trimmed(s) = RemoveAt(s, m)
        PROVE  Cardinality(Open(Trimmed(s))) < MaxPendingWrites
    <2>1. PICK t : t = RemoveAt(s, m)
      OBVIOUS
    <2>2. /\ t \in Seq(PendingWrite)
          /\ Len(t) = Len(s) - 1
          /\ \A j \in 1..(Len(s) - 1) : t[j] = IF j < m THEN s[j] ELSE s[j + 1]
      BY <2>1, RemoveAtIs
    <2>3. DOMAIN t = 1..(Len(s) - 1)
      BY <2>2, LenProperties
    <2> DEFINE f == [j \in Open(t) |-> IF j < m THEN j ELSE j + 1]
    <2>4. ASSUME NEW j \in Open(t)
          PROVE  (IF j < m THEN j ELSE j + 1) \in Open(s) \ {m}
      BY <1>0, <2>2, <2>3 DEF Open
    <2>5. \A i, j \in Open(t) : f[i] = f[j] => i = j
      BY <1>0, <2>3 DEF Open
    <2>6. f \in Injection(Open(t), Open(s) \ {m})
      BY <2>4, <2>5 DEF Injection, IsInjective
    <2>7. m \in Open(s)
      BY <1>0, <1>3 DEF Open
    <2>8. /\ IsFiniteSet(Open(s) \ {m})
          /\ Cardinality(Open(s) \ {m}) = Cardinality(Open(s)) - 1
      BY <2>7, OpenFinite, FS_RemoveElement
    <2> HIDE DEF f
    <2>9. Cardinality(Open(t)) <= Cardinality(Open(s)) - 1
      BY <2>6, <2>8, FS_Injection
    <2>10. Cardinality(Open(t)) \in Nat /\ Cardinality(Open(s)) \in Nat
      BY <2>2, OpenFinite
    <2> QED
      BY <1>3, <2>1, <2>9, <2>10, DegradedAssumption
  <1> QED
    BY <1>1, <1>2, <1>3, TrimmedIs

LEMMA AppendOpen ==
    ASSUME NEW s \in Seq(PendingWrite), NEW w \in PendingWrite,
           Cardinality(Open(s)) < MaxPendingWrites
    PROVE  Cardinality(Open(Append(s, w))) <= MaxPendingWrites
  <1>1. PICK t : t = Append(s, w)
    OBVIOUS
  <1>2. /\ t \in Seq(PendingWrite) /\ Len(s) \in Nat
        /\ Len(t) = Len(s) + 1
        /\ \A i \in 1..Len(s) : t[i] = s[i]
    BY <1>1, AppendProperties, LenProperties
  <1>3. DOMAIN t = 1..(Len(s) + 1) /\ DOMAIN s = 1..Len(s)
    BY <1>2, LenProperties
  <1>4. Open(t) \subseteq Open(s) \cup {Len(s) + 1}
    BY <1>2, <1>3 DEF Open
  <1>5. /\ IsFiniteSet(Open(s)) /\ Cardinality(Open(s)) \in Nat
        /\ Cardinality(Open(t)) \in Nat
    BY <1>2, OpenFinite
  <1>6. /\ IsFiniteSet(Open(s) \cup {Len(s) + 1})
        /\ Cardinality(Open(s) \cup {Len(s) + 1}) \in Nat
        /\ Cardinality(Open(s) \cup {Len(s) + 1}) <= Cardinality(Open(s)) + 1
    <2>1. PICK x : x = Len(s) + 1
      OBVIOUS
    <2>2. /\ IsFiniteSet(Open(s) \cup {x})
          /\ Cardinality(Open(s) \cup {x}) =
                IF x \in Open(s) THEN Cardinality(Open(s))
                                 ELSE Cardinality(Open(s)) + 1
      BY <1>5, FS_AddElement
    <2> QED
      BY <1>5, <2>1, <2>2
  <1>7. Cardinality(Open(t)) <= Cardinality(Open(s) \cup {Len(s) + 1})
    BY <1>4, <1>6, FS_Subset
  <1> QED
    BY <1>1, <1>5, <1>6, <1>7, DegradedAssumption

LEMMA MarkedOpen ==
    ASSUME NEW s \in Seq(PendingWrite), NEW i \in Nat \ {0}
    PROVE  Cardinality(Open(Marked(s, i))) <= Cardinality(Open(s))
  <1>1. PICK t : t = Marked(s, i)
    OBVIOUS
  <1>2. /\ t \in Seq(PendingWrite) /\ Len(t) = Len(s)
        /\ \A j \in 1..Len(s) : ~t[j].reconciled => ~s[j].reconciled
    BY <1>1, MarkedIs
  <1>3. DOMAIN t = 1..Len(s) /\ DOMAIN s = 1..Len(s)
    BY <1>2, LenProperties
  <1>4. Open(t) \subseteq Open(s)
    BY <1>2, <1>3 DEF Open
  <1> QED
    BY <1>1, <1>4, OpenFinite, FS_Subset

LEMMA UnreconciledOpen ==
    ASSUME NEW s \in Seq(PendingWrite)
    PROVE  Cardinality(Open(Unreconciled(s))) <= Cardinality(Open(s))
  <1>1. PICK t : t = Unreconciled(s)
    OBVIOUS
  <1>2. t \in Seq(PendingWrite) /\ \E g : Picks(t, s, Len(s), g)
    BY <1>1, UnreconciledPicks
  <1>3. PICK g : Picks(t, s, Len(s), g)
    BY <1>2
  <1>4. /\ DOMAIN t = 1..Len(t) /\ Len(t) \in Nat
        /\ DOMAIN s = 1..Len(s) /\ Len(s) \in Nat
    BY <1>2, LenProperties
  <1> DEFINE f == [j \in Open(t) |-> g[j]]
  <1>5. ASSUME NEW j \in Open(t) PROVE g[j] \in Open(s)
    BY <1>3, <1>4 DEF Open, Picks
  <1>6. \A i, j \in Open(t) : g[i] = g[j] => i = j
    <2> SUFFICES ASSUME NEW i \in Open(t), NEW j \in Open(t), g[i] = g[j]
                 PROVE  i = j
      OBVIOUS
    <2>1. i \in 1..Len(t) /\ j \in 1..Len(t)
      BY <1>4 DEF Open
    <2>2. g[i] \in Nat /\ g[j] \in Nat
      BY <1>3, <1>4, <2>1 DEF Picks
    <2>3. ~(i < j) /\ ~(j < i)
      BY <1>3, <2>1, <2>2 DEF Picks
    <2> QED
      BY <1>4, <2>1, <2>3
  <1>7. f \in Injection(Open(t), Open(s))
    BY <1>5, <1>6 DEF Injection, IsInjective
  <1> HIDE DEF f
  <1>8. Cardinality(Open(t)) <= Cardinality(Open(s))
    BY <1>7, OpenFinite, FS_Injection
  <1> QED
    BY <1>1, <1>8

PendingInv ==
    \A n \in Nodes : Cardinality(Open(pendingWrites[n])) <= MaxPendingWrites

LEMMA PendingInit == Init => PendingInv
  <1> SUFFICES ASSUME Init, NEW n \in Nodes
               PROVE  Cardinality(Open(pendingWrites[n])) <= MaxPendingWrites
    BY DEF PendingInv
  <1>1. pendingWrites[n] \in Seq(PendingWrite) /\ Len(pendingWrites[n]) = 0
    BY EmptySeq DEF Init
  <1> QED
    BY <1>1, OpenFinite, DegradedAssumption

LEMMA PendingUpdate ==
    ASSUME PendingInv, WritesType, NEW n \in Nodes, NEW s,
           Cardinality(Open(s)) <= MaxPendingWrites,
           pendingWrites' = [pendingWrites EXCEPT ![n] = s]
    PROVE  PendingInv'
  BY DEF PendingInv, WritesType

LEMMA PendingStep ==
    WritesType /\ CallInv /\ PendingInv /\ [Next]_vars => PendingInv'
  <1> SUFFICES ASSUME WritesType, CallInv, PendingInv, [Next]_vars
               PROVE  PendingInv'
    OBVIOUS
  <1>1. ASSUME UNCHANGED pendingWrites PROVE PendingInv'
    BY <1>1 DEF PendingInv
  <1>2. ASSUME NEW n \in Nodes, NEW k \in Keys, NEW ttl \in TTLs,
               SetInCacheWithTTL(n, k, ttl)
        PROVE  PendingInv'
    <2>1. PICK w \in PendingWrite :
            pendingWrites' = [pendingWrites EXCEPT ![n] =
                                Append(Trimmed(pendingWrites[n]), w)]
      BY <1>2, SetInCacheWrites
    <2>2. pendingWrites[n] \in Seq(PendingWrite)
      BY DEF WritesType
    <2>3. Cardinality(Open(Trimmed(pendingWrites[n]))) < MaxPendingWrites
      BY <2>2, TrimmedOpen DEF PendingInv
    <2>4. Cardinality(Open(Append(Trimmed(pendingWrites[n]), w)))
            <= MaxPendingWrites
      BY <2>2, <2>3, TrimmedType, AppendOpen
    <2> QED
      BY <2>1, <2>4, PendingUpdate
  <1>3. ASSUME NEW c \in Calls, Replay(c) PROVE PendingInv'
    <2>0. /\ c[1] \in Nodes
          /\ pendingWrites[c[1]] \in Seq(PendingWrite)
          /\ Cardinality(Open(pendingWrites[c[1]])) \in Nat
          /\ Cardinality(Open(pendingWrites[c[1]])) <= MaxPendingWrites
      BY OpenFinite DEF Calls, WritesType, PendingInv
    <2>1. CASE SkipStale(c) \/ MarkReconciled(c)
      <3>1. /\ call[c].i \in Nat \ {0}
            /\ pendingWrites' = [pendingWrites EXCEPT ![c[1]] =
                                    Marked(pendingWrites[c[1]], call[c].i)]
        BY <2>1, MarkType DEF SkipStale, MarkReconciled
      <3>2. PICK s : s = Marked(pendingWrites[c[1]], call[c].i)
        OBVIOUS
      <3>3. /\ s \in Seq(PendingWrite)
            /\ Cardinality(Open(s)) <= Cardinality(Open(pendingWrites[c[1]]))
        BY <2>0, <3>1, <3>2, MarkedIs, MarkedOpen
      <3>4. Cardinality(Open(s)) <= MaxPendingWrites
        BY <2>0, <3>3, OpenFinite, DegradedAssumption
      <3> QED
        BY <2>0, <3>1, <3>2, <3>4, PendingUpdate
    <2>2. CASE CleanUp(c)
      <3>1. PICK s : s = Unreconciled(pendingWrites[c[1]])
        OBVIOUS
      <3>2. /\ s \in Seq(PendingWrite)
            /\ Cardinality(Open(s)) <= Cardinality(Open(pendingWrites[c[1]]))
        BY <2>0, <3>1, UnreconciledPicks, UnreconciledOpen
      <3>3. Cardinality(Open(s)) <= MaxPendingWrites
        BY <2>0, <3>2, OpenFinite, DegradedAssumption
      <3> QED
        BY <2>0, <2>2, <3>1, <3>3, PendingUpdate DEF CleanUp
    <2>3. CASE ~(SkipStale(c) \/ MarkReconciled(c) \/ CleanUp(c))
      <3>1. UNCHANGED pendingWrites
        BY <1>3, <2>3 DEF Replay, Snapshot, SkipReconciled, GetExisting,
                          SetSucceeds, SetFails, Return, writeVars
      <3> QED
        BY <1>1, <3>1
    <2> QED
      BY <2>1, <2>2, <2>3
  <1>4. CASE Environment
    BY <1>1, <1>4 DEF Environment, RedisChanges, LockExpires, Expire,
       OtherWrite, NewLeader, Age, writeVars
  <1>5. ASSUME NEW n \in Nodes,
               \/ Availability(n) \/ Recover(n) \/ PeriodicStep(n)
               \/ ReconcileLocked(n) \/ UpdateLeadershipStatus(n)
               \/ ClearCache(n) \/ \E k \in Keys : GetFromCache(n, k)
        PROVE  PendingInv'
    BY <1>1, <1>5 DEF Availability, MarkRedisUnavailable, MarkRedisAvailable,
       MarkDBUnavailable, MarkDBAvailable, Recover, PeriodicStep,
       ReconcileIfLeader, ValidateEpoch, ReconcileLocked,
       UpdateLeadershipStatus, ClearCache, GetFromCache, writeVars
  <1>6. CASE UNCHANGED vars
    BY <1>1, <1>6 DEF vars, writeVars
  <1> QED
    BY <1>2, <1>3, <1>4, <1>5, <1>6 DEF Next, CacheAccess

\* The counter of the cache is exact, the cache stays within its limit, and
\* never more writes are open than the limit allows, whatever is read, cleared
\* and written and whatever replays mark and remove meanwhile.
THEOREM MemoryStaysBounded == Spec => []MemoryBounded
  <1>1. CacheInv /\ PendingInv => MemoryBounded
    BY DEF CacheInv, CacheOf, PendingInv, Open, MemoryBounded
  <1> QED
    BY <1>1, StoreInvInit, StoreInvStep, WritesInit, WritesStep, CallInit,
       CallKept, CacheInit, CacheStep, PendingInit, PendingStep, PTL DEF Spec

-----------------------------------------------------------------------------
(* Type correctness *)

SwitchType == up \in BOOLEAN /\ lock \in BOOLEAN

LEMMA SwitchStep == SwitchType /\ [Next]_vars => SwitchType'
  <1> SUFFICES ASSUME SwitchType, [Next]_vars
               PROVE  SwitchType'
    OBVIOUS
  <1> DEFINE Flips == up' = ~up /\ lock' = lock
             Sets == up' = up /\ (lock' = lock \/ lock' = TRUE \/ lock' = FALSE)
  <1>1. ASSUME Environment
        PROVE  Flips \/ Sets
    BY <1>1, Zenon DEF Environment, RedisChanges, LockExpires, Expire,
       OtherWrite, NewLeader, Age, envVars
  <1>2. ASSUME NEW n \in Nodes,
               \/ Availability(n)
               \/ CacheAccess(n)
               \/ UpdateLeadershipStatus(n)
               \/ PeriodicStep(n)
               \/ Recover(n)
               \/ ReconcileLocked(n)
        PROVE  Sets
    <2>1. Availability(n) => Sets
      BY Zenon DEF Availability, MarkRedisUnavailable, MarkRedisAvailable,
         MarkDBUnavailable, MarkDBAvailable, envVars
    <2>2. CacheAccess(n) => Sets
      BY Zenon DEF CacheAccess, ClearCache, GetFromCache, SetInCacheWithTTL,
         envVars
    <2>3. UpdateLeadershipStatus(n) \/ Recover(n) \/ ReconcileLocked(n) => Sets
      BY Zenon DEF UpdateLeadershipStatus, Recover, ReconcileLocked, envVars
    <2>4. PeriodicStep(n) => Sets
      BY Zenon DEF PeriodicStep, ReconcileIfLeader, ValidateEpoch, envVars
    <2> QED
      BY <1>2, <2>1, <2>2, <2>3, <2>4, Zenon
  <1>3. ASSUME NEW c \in Calls, Replay(c)
        PROVE  Sets
    <2>1. Return(c) => Sets
      BY Zenon DEF Return
    <2>2. Snapshot(c) \/ SkipReconciled(c) \/ SkipStale(c) => Sets
      BY Zenon DEF Snapshot, SkipReconciled, SkipStale, envVars
    <2>3. GetExisting(c) \/ SetSucceeds(c) \/ SetFails(c) => Sets
      BY Zenon DEF GetExisting, SetSucceeds, SetFails, envVars
    <2>4. MarkReconciled(c) \/ CleanUp(c) => Sets
      BY Zenon DEF MarkReconciled, CleanUp, envVars
    <2> QED
      BY <1>3, <2>1, <2>2, <2>3, <2>4, Zenon DEF Replay
  <1>4. (UNCHANGED vars) => Sets
    BY Zenon DEF vars, envVars
  <1>5. Flips \/ Sets
    BY <1>1, <1>2, <1>3, <1>4, Zenon DEF Next
  <1> QED
    BY <1>5, Zenon DEF SwitchType

\* The replays under which writes were removed, and what they marked.
HistType ==
    /\ overtaken \subseteq Calls
    /\ suspect \in [Nodes -> SUBSET (1..MaxVersion)]

\* A replay stays overtaken until it has cleaned up.
StaysOvertaken == \A d \in overtaken : d \in overtaken' \/ CleanUp(d)

LEMMA HistStep ==
    HistType /\ WritesType /\ [Next]_vars => HistType' /\ StaysOvertaken
  <1> SUFFICES ASSUME HistType, WritesType, [Next]_vars
               PROVE  HistType' /\ StaysOvertaken
    OBVIOUS
  <1>1. ASSUME UNCHANGED <<overtaken, suspect>>
        PROVE  HistType' /\ StaysOvertaken
    BY <1>1 DEF HistType, StaysOvertaken
  <1>2. ASSUME NEW n \in Nodes, NEW k \in Keys, NEW ttl \in TTLs,
               SetInCacheWithTTL(n, k, ttl)
        PROVE  HistType' /\ StaysOvertaken
    <2>1. /\ overtaken' = overtaken \/ overtaken' = overtaken \cup Looping(n)
          /\ UNCHANGED suspect
      BY <1>2 DEF SetInCacheWithTTL
    <2>2. Looping(n) \subseteq Calls
      BY DEF Looping
    <2> QED
      BY <2>1, <2>2 DEF HistType, StaysOvertaken
  <1>3. ASSUME NEW c \in Calls, CleanUp(c) PROVE HistType' /\ StaysOvertaken
    <2>1. /\ \/ overtaken' = overtaken \ {c}
             \/ overtaken' = (overtaken \cup Looping(c[1])) \ {c}
          /\ UNCHANGED suspect
      BY <1>3 DEF CleanUp
    <2>2. Looping(c[1]) \subseteq Calls
      BY DEF Looping
    <2> QED
      BY <1>3, <2>1, <2>2 DEF HistType, StaysOvertaken
  <1>4. ASSUME NEW c \in Calls, SkipStale(c) \/ MarkReconciled(c)
        PROVE  HistType' /\ StaysOvertaken
    <2>1. Mark(c) /\ UNCHANGED overtaken
      BY <1>4 DEF SkipStale, MarkReconciled
    <2>2. PICK n \in Nodes : n = c[1]
      BY DEF Calls
    <2>3. PICK hit : hit = {pendingWrites[n][i].version :
                              i \in DOMAIN pendingWrites[n] \cap {call[c].i}}
      OBVIOUS
    <2>4. hit \subseteq 1..MaxVersion
      <3>1. ASSUME NEW i \in DOMAIN pendingWrites[n]
            PROVE  pendingWrites[n][i].version \in 1..MaxVersion
        <4>1. /\ pendingWrites[n] \in Seq(PendingWrite)
              /\ i \in 1..Len(pendingWrites[n])
          BY LenProperties DEF WritesType
        <4>2. pendingWrites[n][i] \in PendingWrite
          BY <4>1, ElementOfSeq
        <4> QED
          BY <4>2 DEF PendingWrite
      <3> QED
        BY <2>3, <3>1
    <2>5. \/ UNCHANGED suspect
          \/ suspect' = [suspect EXCEPT ![n] = suspect[n] \cup hit]
      BY <2>1, <2>2, <2>3 DEF Mark
    <2> QED
      BY <2>1, <2>4, <2>5 DEF HistType, StaysOvertaken
  <1>5. ASSUME NEW c \in Calls, Replay(c) PROVE HistType' /\ StaysOvertaken
    <2>1. CASE ~(SkipStale(c) \/ MarkReconciled(c) \/ CleanUp(c))
      BY <1>1, <1>5, <2>1 DEF Replay, Snapshot, SkipReconciled, GetExisting,
         SetSucceeds, SetFails, Return, writeVars
    <2> QED
      BY <1>3, <1>4, <2>1
  <1>6. ASSUME Environment PROVE HistType' /\ StaysOvertaken
    BY <1>1, <1>6 DEF Environment, RedisChanges, LockExpires, Expire,
       OtherWrite, NewLeader, Age, writeVars
  <1>7. ASSUME NEW n \in Nodes,
               \/ Availability(n) \/ Recover(n) \/ PeriodicStep(n)
               \/ ReconcileLocked(n) \/ UpdateLeadershipStatus(n)
               \/ ClearCache(n) \/ \E k \in Keys : GetFromCache(n, k)
        PROVE  HistType' /\ StaysOvertaken
    <2>1. UNCHANGED <<overtaken, suspect>>
      BY <1>7 DEF Availability, MarkRedisUnavailable, MarkRedisAvailable,
         MarkDBUnavailable, MarkDBAvailable, Recover, PeriodicStep,
         ReconcileIfLeader, ValidateEpoch, ReconcileLocked,
         UpdateLeadershipStatus, ClearCache, GetFromCache, writeVars
    <2> QED
      BY <1>1, <2>1
  <1>8. ASSUME UNCHANGED vars PROVE HistType' /\ StaysOvertaken
    BY <1>1, <1>8 DEF vars, writeVars
  <1> QED
    BY <1>2, <1>5, <1>6, <1>7, <1>8 DEF Next, CacheAccess

\* Type correctness: in particular, a replay is never at a position outside
\* its snapshot, and versions stay those that the nodes gave out.
THEOREM TypeCorrect == Spec => []TypeOK
  <1>1. Init => SwitchType /\ HistType
    BY Zenon DEF Init, SwitchType, HistType
  <1>2. ASSUME CallInv, NEW c \in Calls, call[c].pc \in {"get", "set", "mark"}
        PROVE  call[c].i \in DOMAIN call[c].pending
    <2>1. call[c].pending \in Seq(PendingWrite)
      BY <1>2 DEF CallInv, CallRecord
    <2> QED
      BY <1>2, <2>1, WriteType, LenProperties
  <1>3. FlagInv /\ SwitchType /\ StoreInv /\ WritesType /\ CallInv /\ CacheInv
            /\ HistType => TypeOK
    <2> SUFFICES ASSUME FlagInv, SwitchType, StoreInv, WritesType, CallInv,
                        CacheInv, HistType
                 PROVE  TypeOK
      OBVIOUS
    <2>1. \A c \in Calls : call[c].pc \in {"get", "set", "mark"}
                => call[c].i \in DOMAIN call[c].pending
      BY <1>2
    <2> QED
      BY Zenon, <2>1 DEF FlagInv, SwitchType, StoreInv, WritesType, CallInv,
                         CacheInv, HistType, TypeOK
  <1> QED
    BY <1>1, <1>3, FlagInit, FlagStep, SwitchStep, StoreInvInit, StoreInvStep,
       WritesInit, WritesStep, CallInit, CallKept, CacheInit, CacheStep,
       HistStep, PTL DEF Spec

-----------------------------------------------------------------------------
(* What becomes of a pending write *)

\* t goes on where s ends: the same writes at the same positions.
Extends(s, t) ==
    /\ Len(s) <= Len(t)
    /\ \A i \in 1..Len(s) : t[i].key = s[i].key /\ t[i].version = s[i].version

\* A write that may go: superseded or stored, given up as too old, or marked by
\* a replay that was overtaken.
Settled(w, h, old, marks) ==
    h[w.key] >= w.version \/ w.version <= old \/ w.version \in marks

\* Whatever is marked in a list may go.
ListOk(s, h, old, marks) ==
    \A i \in 1..Len(s) : s[i].reconciled => Settled(s[i], h, old, marks)

Lists ==
    \A n \in Nodes : ListOk(pendingWrites[n], high, outdated[n], suspect[n])

\* The positions of a replay's snapshot are those of the list.
Aligned(r, s) == r.pc \in {"get", "set", "mark"} => Extends(r.pending, s)

\* A replay stores and marks open writes only.
AtOpen(r) == r.pc \in {"set", "mark"} => ~r.pending[r.i].reconciled

\* A replay that is not overtaken has kept its positions.
Alignment ==
    \A c \in Calls :
        /\ c \in overtaken \/ Aligned(call[c], pendingWrites[c[1]])
        /\ AtOpen(call[c])

\* The list of n changes but for its end, and every replay that goes over it
\* is overtaken, unless it is the one that cleans up.
Shifts(n) ==
    \/ \E c \in Calls :
            c[1] = n /\ CleanUp(c) /\ Looping(n) \ {c} \subseteq overtaken'
    \/ /\ \E k \in Keys, ttl \in TTLs : SetInCacheWithTTL(n, k, ttl)
       /\ Trimmed(pendingWrites[n]) # pendingWrites[n]
       /\ Looping(n) \subseteq overtaken'

LEMMA ExtendsTrans ==
    ASSUME NEW r \in Seq(PendingWrite), NEW s \in Seq(PendingWrite),
           NEW t \in Seq(PendingWrite), Extends(r, s), Extends(s, t)
    PROVE  Extends(r, t)
  <1>1. Len(r) \in Nat /\ Len(s) \in Nat /\ Len(t) \in Nat
    BY LenProperties
  <1> QED
    BY <1>1 DEF Extends

LEMMA ExtendsSelf == \A s \in Seq(PendingWrite) : Extends(s, s)
  BY LenProperties DEF Extends

LEMMA ListKept ==
    ASSUME NEW s \in Seq(PendingWrite), NEW old \in Nat, NEW older \in Nat,
           old <= older, NEW marks, NEW more, marks \subseteq more,
           StoreInv, StoreInv', HighGrows, ListOk(s, high, old, marks)
    PROVE  ListOk(s, high', older, more)
  <1> SUFFICES ASSUME NEW i \in 1..Len(s), s[i].reconciled
               PROVE  Settled(s[i], high', older, more)
    BY DEF ListOk
  <1>0. s[i] \in PendingWrite
    BY ElementOfSeq
  <1>1. s[i].key \in Keys /\ s[i].version \in 1..MaxVersion
    BY <1>0 DEF PendingWrite
  <1>2. /\ high[s[i].key] \in Nat /\ high'[s[i].key] \in Nat
        /\ high[s[i].key] <= high'[s[i].key]
    BY <1>1, DegradedAssumption DEF StoreInv, HighGrows
  <1>3. Settled(s[i], high, old, marks)
    BY DEF ListOk
  <1> QED
    BY <1>1, <1>2, <1>3, DegradedAssumption DEF Settled

\* Removing the reconciled writes leaves none of them and each of the others.
LEMMA UnreconciledKeeps ==
    ASSUME NEW s \in Seq(PendingWrite)
    PROVE  /\ \A j \in 1..Len(Unreconciled(s)) :
                ~Unreconciled(s)[j].reconciled
           /\ \A i \in 1..Len(s) : ~s[i].reconciled =>
                \E j \in 1..Len(Unreconciled(s)) : Unreconciled(s)[j] = s[i]
  <1>1. PICK t : t = Unreconciled(s)
    OBVIOUS
  <1>2. \E g : Picks(t, s, Len(s), g)
    BY <1>1, UnreconciledPicks
  <1>3. PICK g : Picks(t, s, Len(s), g)
    BY <1>2
  <1>4. \A j \in 1..Len(t) : ~t[j].reconciled
    BY <1>3 DEF Picks
  <1>5. ASSUME NEW i \in 1..Len(s), ~s[i].reconciled
        PROVE  \E j \in 1..Len(t) : t[j] = s[i]
    <2>1. \E j \in 1..Len(t) : g[j] = i
      BY <1>3, <1>5 DEF Picks
    <2>2. PICK j \in 1..Len(t) : g[j] = i
      BY <2>1
    <2>3. t[j] = s[g[j]]
      BY <1>3 DEF Picks
    <2> QED BY <2>2, <2>3
  <1> QED
    BY <1>1, <1>4, <1>5

\* A trimmed list holds writes of the list, and all of them except, when it is
\* full, the oldest open one.
LEMMA TrimmedKeeps ==
    ASSUME NEW s \in Seq(PendingWrite), NEW t, t = Trimmed(s)
    PROVE  /\ t \in Seq(PendingWrite)
           /\ \A j \in 1..Len(t) : \E i \in 1..Len(s) : t[j] = s[i]
           /\ \A i \in 1..Len(s) :
                \/ \E j \in 1..Len(t) : t[j] = s[i]
                \/ /\ Len(s) >= MaxPendingWrites
                   /\ i = Min(Open(s))
  <1>0. Len(s) \in Nat
    BY LenProperties
  <1>1. CASE t = s
    BY <1>1
  <1>2. CASE t # s
    <2>1. PICK m \in 1..Len(s) :
            /\ t = RemoveAt(s, m)
            /\ Len(s) >= MaxPendingWrites
            /\ m = Min(Open(s))
      BY <1>2, TrimmedIs DEF Open
    <2>2. /\ t \in Seq(PendingWrite)
          /\ Len(t) = Len(s) - 1
          /\ \A j \in 1..(Len(s) - 1) :
                t[j] = IF j < m THEN s[j] ELSE s[j + 1]
      BY <2>1, RemoveAtIs
    <2>3. ASSUME NEW j \in 1..Len(t)
          PROVE  \E i \in 1..Len(s) : t[j] = s[i]
      <3>1. /\ j \in 1..(Len(s) - 1) /\ j \in 1..Len(s)
            /\ j + 1 \in 1..Len(s)
        BY <1>0, <2>2
      <3> QED
        BY <2>2, <3>1
    <2>4. ASSUME NEW i \in 1..Len(s), i # m
          PROVE  \E j \in 1..Len(t) : t[j] = s[i]
      <3>1. CASE i < m
        <4>1. i \in 1..Len(t)
          BY <1>0, <2>2, <3>1
        <4> QED
          BY <2>2, <3>1, <4>1
      <3>2. CASE ~(i < m)
        <4>1. /\ i - 1 \in 1..Len(t) /\ ~(i - 1 < m) /\ (i - 1) + 1 = i
          BY <1>0, <2>2, <2>4, <3>2
        <4> QED
          BY <2>2, <4>1
      <3> QED
        BY <3>1, <3>2
    <2> QED
      BY <2>1, <2>2, <2>3, <2>4
  <1> QED
    BY <1>1, <1>2

LEMMA TrimmedFrom ==
    \A s \in Seq(PendingWrite) :
        \A j \in 1..Len(Trimmed(s)) : \E i \in 1..Len(s) : Trimmed(s)[j] = s[i]
  BY TrimmedKeeps

\* Which writes are marked: those that were and the one at position i.
LEMMA MarkedOne ==
    ASSUME NEW s \in Seq(PendingWrite), NEW i \in 1..Len(s),
           NEW j \in 1..Len(s), j # i
    PROVE  Marked(s, i)[j] = s[j]
  <1>1. i <= Len(s) /\ Len(s) \in Nat
    BY LenProperties
  <1>2. Marked(s, i) = [s EXCEPT ![i].reconciled = TRUE]
    BY <1>1 DEF Marked
  <1>3. j \in DOMAIN s
    BY LenProperties
  <1> QED
    BY <1>2, <1>3

\* One list is replaced.
LEMMA ListReplaced ==
    ASSUME Lists, WritesType, StoreInv, StoreInv', HighGrows,
           NEW n \in Nodes, NEW s \in Seq(PendingWrite),
           ListOk(s, high', outdated[n], suspect'[n]), UNCHANGED outdated,
           \A m \in Nodes \ {n} : suspect'[m] = suspect[m],
           pendingWrites' = [pendingWrites EXCEPT ![n] = s]
    PROVE  /\ Lists'
           /\ \A m \in Nodes \ {n} :
                Extends(pendingWrites[m], pendingWrites'[m])
  <1>1. ASSUME NEW m \in Nodes, m # n
        PROVE  /\ ListOk(pendingWrites'[m], high', outdated'[m], suspect'[m])
               /\ Extends(pendingWrites[m], pendingWrites'[m])
    <2>1. /\ pendingWrites'[m] = pendingWrites[m]
          /\ outdated'[m] = outdated[m]
          /\ suspect'[m] = suspect[m]
      BY <1>1 DEF WritesType
    <2>2. /\ pendingWrites[m] \in Seq(PendingWrite)
          /\ outdated[m] \in Nat /\ outdated[m] <= outdated[m]
          /\ suspect[m] \subseteq suspect[m]
          /\ ListOk(pendingWrites[m], high, outdated[m], suspect[m])
      BY DegradedAssumption DEF WritesType, Lists
    <2>3. ListOk(pendingWrites[m], high', outdated[m], suspect[m])
      BY <2>2, ListKept
    <2> QED
      BY <2>1, <2>2, <2>3, ExtendsSelf
  <1>2. ListOk(pendingWrites'[n], high', outdated'[n], suspect'[n])
    BY DEF WritesType
  <1> QED
    BY <1>1, <1>2 DEF Lists

\* The list of a node after each step: it goes on, or its positions shift.
LEMMA ListsStep ==
    ASSUME StoreInv, WritesType, HistType, CallInv, Lists, Alignment,
           [Next]_vars, StoreInv', HighGrows
    PROVE  /\ Lists'
           /\ \A n \in Nodes :
                Extends(pendingWrites[n], pendingWrites'[n]) \/ Shifts(n)
  <1> DEFINE Goal ==
        /\ Lists'
        /\ \A n \in Nodes :
            Extends(pendingWrites[n], pendingWrites'[n]) \/ Shifts(n)
  <1>0. \A n \in Nodes :
            /\ pendingWrites[n] \in Seq(PendingWrite)
            /\ Len(pendingWrites[n]) \in Nat
            /\ outdated[n] \in Nat /\ outdated[n] <= outdated[n]
            /\ suspect[n] \subseteq suspect[n]
            /\ ListOk(pendingWrites[n], high, outdated[n], suspect[n])
    BY LenProperties, DegradedAssumption DEF WritesType, Lists
  <1>1. ASSUME UNCHANGED <<pendingWrites, suspect>>,
               \A n \in Nodes : outdated'[n] \in Nat /\
                                outdated[n] <= outdated'[n]
        PROVE  Goal
    <2>1. ASSUME NEW n \in Nodes
          PROVE  ListOk(pendingWrites[n], high', outdated'[n], suspect[n])
      BY <1>0, <1>1, ListKept
    <2>2. Lists'
      BY <1>1, <2>1 DEF Lists
    <2> QED
      BY <1>0, <1>1, <2>2, ExtendsSelf
  <1>2. ASSUME UNCHANGED writeVars PROVE Goal
    <2>1. /\ UNCHANGED <<pendingWrites, suspect>>
          /\ \A n \in Nodes : outdated'[n] \in Nat /\
                              outdated[n] <= outdated'[n]
      BY <1>0, <1>2 DEF writeVars
    <2> HIDE DEF Goal
    <2> QED
      BY <1>1, <2>1
  <1>3. ASSUME NEW n \in Nodes, NEW v \in 1..MaxVersion, Age(n, v) PROVE Goal
    <2>1. v \in (outdated[n] + 1)..currentVersion[n]
      BY <1>3 DEF Age
    <2>2. ASSUME NEW m \in Nodes
          PROVE  outdated'[m] \in Nat /\ outdated[m] <= outdated'[m]
      <3>1. currentVersion[n] \in 0..MaxVersion
        BY DEF WritesType
      <3> QED
        BY <1>0, <1>3, <2>1, <3>1, DegradedAssumption DEF Age, WritesType
    <2>3. UNCHANGED <<pendingWrites, suspect>>
      BY <1>3 DEF Age
    <2> HIDE DEF Goal
    <2> QED
      BY <1>1, <2>2, <2>3
  <1>4. ASSUME NEW n \in Nodes, NEW k \in Keys, NEW ttl \in TTLs,
               SetInCacheWithTTL(n, k, ttl)
        PROVE  Goal
    <2>1. PICK w \in PendingWrite :
            /\ ~w.reconciled
            /\ pendingWrites' = [pendingWrites EXCEPT ![n] =
                                    Append(Trimmed(pendingWrites[n]), w)]
      BY <1>4, SetInCacheWrites
    <2>2. PICK s : s = pendingWrites[n]
      OBVIOUS
    <2>3. PICK r : r = Trimmed(s)
      OBVIOUS
    <2>4. /\ s \in Seq(PendingWrite) /\ Len(s) \in Nat
          /\ r \in Seq(PendingWrite) /\ Len(r) \in Nat
          /\ \A j \in 1..Len(r) : \E i \in 1..Len(s) : r[j] = s[i]
      <3>1. s \in Seq(PendingWrite) /\ Len(s) \in Nat
        BY <1>0, <2>2
      <3>2. \A j \in 1..Len(r) : \E i \in 1..Len(s) : r[j] = s[i]
        BY <2>3, <3>1, TrimmedFrom
      <3>3. r \in Seq(PendingWrite)
        BY <2>3, <3>1, TrimmedType
      <3> QED
        BY <3>1, <3>2, <3>3, LenProperties
    <2>5. PICK t : t = Append(r, w)
      OBVIOUS
    <2>6. /\ t \in Seq(PendingWrite) /\ Len(t) = Len(r) + 1
          /\ \A i \in 1..Len(r) : t[i] = r[i]
          /\ t[Len(r) + 1] = w
      BY <2>4, <2>5, AppendProperties
    <2>7. ListOk(s, high', outdated[n], suspect[n])
      BY <1>0, <2>2, ListKept
    <2>8. ListOk(t, high', outdated[n], suspect[n])
      <3>1. ASSUME NEW i \in 1..Len(t), t[i].reconciled
            PROVE  Settled(t[i], high', outdated[n], suspect[n])
        <4>1. i \in 1..Len(r) \/ i = Len(r) + 1
          BY <2>4, <2>6
        <4>2. i # Len(r) + 1
          BY <2>1, <2>6, <3>1
        <4>3. t[i] = r[i] /\ i \in 1..Len(r)
          BY <2>6, <4>1, <4>2
        <4>4. PICK j \in 1..Len(s) : r[i] = s[j]
          BY <2>4, <4>3
        <4> QED
          BY <2>7, <3>1, <4>3, <4>4 DEF ListOk
      <3> QED
        BY <3>1 DEF ListOk
    <2>9. /\ pendingWrites' = [pendingWrites EXCEPT ![n] = t]
          /\ UNCHANGED <<outdated, suspect>>
      BY <1>4, <2>1, <2>2, <2>3, <2>5 DEF SetInCacheWithTTL
    <2>10. /\ Lists'
           /\ \A m \in Nodes \ {n} :
                Extends(pendingWrites[m], pendingWrites'[m])
      BY <2>6, <2>8, <2>9, ListReplaced
    <2>11. CASE r = s
      <3>1. pendingWrites'[n] = t
        BY <2>9 DEF WritesType
      <3>2. Len(s) <= Len(t)
        BY <2>4, <2>6, <2>11
      <3>3. Extends(pendingWrites[n], pendingWrites'[n])
        BY <2>2, <2>6, <2>11, <3>1, <3>2 DEF Extends
      <3> QED
        BY <2>10, <3>3
    <2>12. CASE r # s
      <3>1. overtaken' = overtaken \cup Looping(n)
        BY <1>4, <2>2, <2>3, <2>12 DEF SetInCacheWithTTL
      <3>2. Shifts(n)
        BY <1>4, <2>2, <2>3, <2>12, <3>1 DEF Shifts
      <3> QED
        BY <2>10, <3>2
    <2> QED
      BY <2>11, <2>12
  <1>5. ASSUME NEW c \in Calls, SkipStale(c) \/ MarkReconciled(c) PROVE Goal
    <2>1. PICK n \in Nodes : n = c[1]
      BY DEF Calls
    <2>2. PICK s : s = pendingWrites[n]
      OBVIOUS
    <2>3. /\ s \in Seq(PendingWrite) /\ Len(s) \in Nat /\ DOMAIN s = 1..Len(s)
          /\ ListOk(s, high, outdated[n], suspect[n])
          /\ outdated[n] \in Nat /\ outdated[n] <= outdated[n]
      BY <1>0, <2>2, LenProperties
    <2>4. /\ Mark(c) /\ UNCHANGED outdated
          /\ call[c].pc = "get" \/ call[c].pc = "mark"
      BY <1>5 DEF SkipStale, MarkReconciled
    <2>5. PICK i : i = call[c].i
      OBVIOUS
    <2>6. /\ i \in 1..Len(call[c].pending) /\ i \in Nat \ {0}
          /\ Len(call[c].pending) \in Nat
          /\ Write(c).key \in Keys /\ Write(c).version \in 1..MaxVersion
      <3>1. call[c].pending \in Seq(PendingWrite)
        BY DEF CallInv, CallRecord
      <3> QED
        BY <2>4, <2>5, <3>1, WriteType, LenProperties
    <2>7. PICK t : t = Marked(s, i)
      OBVIOUS
    <2>8. /\ t \in Seq(PendingWrite) /\ Len(t) = Len(s)
          /\ \A j \in 1..Len(s) :
                t[j].key = s[j].key /\ t[j].version = s[j].version
          /\ \A j \in 1..Len(s) : j # i => t[j] = s[j]
      <3>1. ASSUME NEW j \in 1..Len(s), j # i PROVE t[j] = s[j]
        <4>1. CASE i \in 1..Len(s)
          BY <2>3, <2>7, <3>1, <4>1, MarkedOne
        <4>2. CASE i \notin 1..Len(s)
          BY <2>3, <2>6, <2>7, <4>2 DEF Marked
        <4> QED
          BY <4>1, <4>2
      <3> QED
        BY <2>3, <2>6, <2>7, <3>1, MarkedIs
    <2>9. /\ pendingWrites' = [pendingWrites EXCEPT ![n] = t]
          /\ IF c \in overtaken
             THEN suspect' = [suspect EXCEPT ![n] = suspect[n] \cup
                                {s[j].version : j \in DOMAIN s \cap {i}}]
             ELSE suspect' = suspect
      BY <2>1, <2>2, <2>4, <2>5, <2>7 DEF Mark
    <2>10. /\ suspect[n] \subseteq suspect'[n]
           /\ \A m \in Nodes \ {n} : suspect'[m] = suspect[m]
      BY <2>9 DEF HistType
    <2>11. ListOk(s, high', outdated[n], suspect'[n])
      BY <2>3, <2>10, ListKept
    <2>12. ASSUME i \in 1..Len(s)
           PROVE  Settled(s[i], high', outdated[n], suspect'[n])
      <3>1. CASE c \in overtaken
        <4>1. s[i].version \in suspect'[n]
          BY <2>3, <2>9, <2>12, <3>1 DEF HistType
        <4> QED
          BY <4>1 DEF Settled
      <3>2. CASE c \notin overtaken
        <4>1. Extends(call[c].pending, s)
          BY <2>1, <2>2, <2>4, <3>2 DEF Alignment, Aligned
        <4>2. s[i].key = Write(c).key /\ s[i].version = Write(c).version
          BY <2>3, <2>5, <2>6, <4>1 DEF Extends, Write
        <4>3. CASE SkipStale(c)
          BY <2>1, <4>2, <4>3 DEF SkipStale, Settled
        <4>4. CASE MarkReconciled(c)
          <5>1. call[c].pc = "mark"
            BY <4>4 DEF MarkReconciled
          <5>2. ~Write(c).reconciled /\ Synced(Write(c), high)
            BY <5>1 DEF Alignment, AtOpen, CallInv, Loop, Write
          <5>3. /\ high[Write(c).key] \in 0..MaxVersion
                /\ high'[Write(c).key] \in 0..MaxVersion
                /\ high[Write(c).key] <= high'[Write(c).key]
            BY <2>6 DEF StoreInv, HighGrows
          <5>4. high'[Write(c).key] >= Write(c).version
            BY <2>6, <5>2, <5>3, DegradedAssumption DEF Synced
          <5> QED
            BY <4>2, <5>4 DEF Settled
        <4> QED
          BY <1>5, <4>3, <4>4
      <3> QED
        BY <3>1, <3>2
    <2>13. ListOk(t, high', outdated[n], suspect'[n])
      <3>1. ASSUME NEW j \in 1..Len(s), t[j].reconciled
            PROVE  Settled(t[j], high', outdated[n], suspect'[n])
        <4>1. CASE j = i
          BY <2>8, <2>12, <4>1 DEF Settled
        <4>2. CASE j # i
          BY <2>8, <2>11, <3>1, <4>2 DEF ListOk
        <4> QED
          BY <4>1, <4>2
      <3> QED
        BY <2>8, <3>1 DEF ListOk
    <2>14. /\ Lists'
           /\ \A m \in Nodes \ {n} :
                Extends(pendingWrites[m], pendingWrites'[m])
      BY <2>4, <2>8, <2>9, <2>10, <2>13, ListReplaced
    <2>15. Extends(pendingWrites[n], pendingWrites'[n])
      <3>1. pendingWrites'[n] = t
        BY <2>9 DEF WritesType
      <3>2. Len(s) <= Len(t)
        BY <2>3, <2>8
      <3> QED
        BY <2>2, <2>8, <3>1, <3>2 DEF Extends
    <2> QED
      BY <2>14, <2>15
  <1>6. ASSUME NEW c \in Calls, CleanUp(c) PROVE Goal
    <2>1. PICK n \in Nodes : n = c[1]
      BY DEF Calls
    <2>2. PICK s : s = pendingWrites[n]
      OBVIOUS
    <2>3. s \in Seq(PendingWrite)
      BY <1>0, <2>2
    <2>4. PICK t : t = Unreconciled(s)
      OBVIOUS
    <2>5. /\ t \in Seq(PendingWrite)
          /\ \A j \in 1..Len(t) : ~t[j].reconciled
      BY <2>3, <2>4, UnreconciledPicks, UnreconciledKeeps
    <2>6. ListOk(t, high', outdated[n], suspect'[n])
      BY <2>5 DEF ListOk
    <2>7. /\ pendingWrites' = [pendingWrites EXCEPT ![n] = t]
          /\ UNCHANGED <<outdated, suspect>>
      BY <1>6, <2>1, <2>2, <2>4 DEF CleanUp
    <2>8. /\ Lists'
          /\ \A m \in Nodes \ {n} :
                Extends(pendingWrites[m], pendingWrites'[m])
      BY <2>5, <2>6, <2>7, ListReplaced
    <2>9. CASE t = s
      <3>1. pendingWrites'[n] = s
        BY <2>7, <2>9 DEF WritesType
      <3>2. Extends(pendingWrites[n], pendingWrites'[n])
        BY <2>2, <2>3, <3>1, ExtendsSelf
      <3> QED
        BY <2>8, <3>2
    <2>10. CASE t # s
      <3>1. overtaken' = (overtaken \cup Looping(n)) \ {c}
        BY <1>6, <2>1, <2>2, <2>4, <2>10 DEF CleanUp
      <3>2. Shifts(n)
        BY <1>6, <2>1, <3>1 DEF Shifts
      <3> QED
        BY <2>8, <3>2
    <2> QED
      BY <2>9, <2>10
  <1> HIDE DEF Goal
  <1>7. ASSUME NEW c \in Calls, Replay(c) PROVE Goal
    <2>1. CASE ~(SkipStale(c) \/ MarkReconciled(c) \/ CleanUp(c))
      <3>1. UNCHANGED writeVars
        BY <1>7, <2>1 DEF Replay, Snapshot, SkipReconciled, GetExisting,
                          SetSucceeds, SetFails, Return
      <3> QED
        BY <1>2, <3>1
    <2> QED
      BY <1>5, <1>6, <2>1
  <1>8. ASSUME Environment PROVE Goal
    BY <1>2, <1>3, <1>8 DEF Environment, RedisChanges, LockExpires, Expire,
       OtherWrite, NewLeader
  <1>9. ASSUME NEW n \in Nodes,
               \/ Availability(n) \/ Recover(n) \/ PeriodicStep(n)
               \/ ReconcileLocked(n) \/ UpdateLeadershipStatus(n)
               \/ ClearCache(n) \/ \E k \in Keys : GetFromCache(n, k)
        PROVE  Goal
    <2>1. UNCHANGED writeVars
      BY <1>9 DEF Availability, MarkRedisUnavailable, MarkRedisAvailable,
         MarkDBUnavailable, MarkDBAvailable, Recover, PeriodicStep,
         ReconcileIfLeader, ValidateEpoch, ReconcileLocked,
         UpdateLeadershipStatus, ClearCache, GetFromCache
    <2> QED
      BY <1>2, <2>1
  <1>10. ASSUME UNCHANGED vars PROVE Goal
    BY <1>2, <1>10 DEF vars
  <1>11. Goal
    BY <1>4, <1>7, <1>8, <1>9, <1>10 DEF Next, CacheAccess
  <1> QED
    BY <1>11 DEF Goal

\* How the record of a replay changes: not at all, out of the loop, on to the
\* next write, on with this write, or into the loop over a new snapshot.
CallMoves(d) ==
    LET r == call[d]
        q == call'[d]
        loop == {"get", "set", "mark"}
    IN  \/ q = r
        \/ q.pc \notin loop
        \/ r.pc \in loop /\ q.pc = "get" /\ q.pending = r.pending
        \/ /\ r.pc \in loop /\ q.pc \in {"set", "mark"}
           /\ q.pending = r.pending /\ q.i = r.i
           /\ r.pc = "set" \/ ~Write(d).reconciled
        \/ q.pc = "get" /\ q.pending = pendingWrites[d[1]]

LEMMA CallStepMoves ==
    ASSUME WritesType, CallInv, [Next]_vars, NEW d \in Calls
    PROVE  CallMoves(d)
  <1>1. ASSUME UNCHANGED call PROVE CallMoves(d)
    BY <1>1 DEF CallMoves
  <1>2. ASSUME NEW c \in Calls, NEW r, call' = [call EXCEPT ![c] = r]
        PROVE  call'[c] = r /\ (c # d => CallMoves(d))
    BY <1>2 DEF CallMoves, CallInv
  <1>3. ASSUME NEW c \in Calls, NEW r, call' = [call EXCEPT ![c] = r],
               r.pc \notin {"get", "set", "mark"}
        PROVE  CallMoves(d)
    BY <1>2, <1>3 DEF CallMoves
  <1>4. ASSUME NEW c \in Calls, Goto(c, "snapshot") \/ Goto(c, "return")
        PROVE  CallMoves(d)
    <2>1. PICK pc \in {"snapshot", "return"} : Goto(c, pc)
      BY <1>4
    <2>2. PICK r : r = [call[c] EXCEPT !.pc = pc]
      OBVIOUS
    <2>3. call' = [call EXCEPT ![c] = r] /\ r.pc = pc
      <3>1. pc \in {"snapshot", "set", "mark", "return"}
        OBVIOUS
      <3> QED
        BY <2>1, <2>2, <3>1, GotoIs
    <2> QED
      BY <1>3, <2>3
  <1>5. ASSUME NEW c \in Calls, call' = [call EXCEPT ![c] = NoCall]
        PROVE  CallMoves(d)
    BY <1>3, <1>5 DEF NoCall
  <1>6. ASSUME NEW c \in Calls, NEW q \in CallRecord,
               q.pending = call[c].pending,
               call[c].pc \in {"get", "set", "mark"},
               call' = [call EXCEPT ![c] = At(q, q.i + 1)]
        PROVE  CallMoves(d)
    <2>1. PICK r : r = At(q, q.i + 1)
      OBVIOUS
    <2>2. r.pending = q.pending /\ (r.pc = "get" \/ r.pc = "clean")
      BY <2>1 DEF At, CallRecord
    <2> QED
      BY <1>2, <1>6, <2>1, <2>2 DEF CallMoves
  <1>7. ASSUME NEW c \in Calls, Done(c), call[c].pc \in {"get", "set", "mark"}
        PROVE  CallMoves(d)
    BY <1>6, <1>7 DEF Done, CallInv
  <1>8. ASSUME NEW c \in Calls, Failed(c),
               call[c].pc \in {"get", "set", "mark"}
        PROVE  CallMoves(d)
    <2>1. PICK q : q = [call[c] EXCEPT !.failed = TRUE]
      OBVIOUS
    <2>2. call[c] \in CallRecord
      BY DEF CallInv
    <2>3. q \in CallRecord /\ q.i = call[c].i /\ q.pending = call[c].pending
      BY <2>1, <2>2 DEF CallRecord
    <2>4. call' = [call EXCEPT ![c] = At(q, q.i + 1)]
      BY <1>8, <2>1, <2>3 DEF Failed
    <2> QED
      BY <1>6, <1>8, <2>3, <2>4
  <1>9. ASSUME NEW c \in Calls, NEW pc \in {"set", "mark"}, Goto(c, pc),
               call[c].pc \in {"get", "set"},
               call[c].pc = "set" \/ ~Write(c).reconciled
        PROVE  CallMoves(d)
    <2>1. PICK r : r = [call[c] EXCEPT !.pc = pc]
      OBVIOUS
    <2>2. /\ call' = [call EXCEPT ![c] = r]
          /\ r.pc = pc /\ r.pending = call[c].pending /\ r.i = call[c].i
      <3>1. pc \in {"snapshot", "set", "mark", "return"}
        OBVIOUS
      <3> QED
        BY <1>9, <2>1, <3>1, GotoIs
    <2> QED
      BY <1>2, <1>9, <2>2 DEF CallMoves
  <1>10. ASSUME NEW c \in Calls, Snapshot(c) PROVE CallMoves(d)
    <2>1. PICK w : w = pendingWrites[c[1]]
      OBVIOUS
    <2>2. call[c] \in CallRecord
      BY DEF CallInv
    <2>3. CASE w = <<>>
      BY <1>4, <1>10, <2>1, <2>3 DEF Snapshot, Goto
    <2>4. CASE w # <<>>
      <3>1. PICK q : q = [call[c] EXCEPT !.pending = w]
        OBVIOUS
      <3>2. PICK r : r = At(q, 1)
        OBVIOUS
      <3>3. call' = [call EXCEPT ![c] = r]
        BY <1>10, <2>1, <2>4, <3>1, <3>2 DEF Snapshot
      <3>4. r.pending = w /\ (r.pc = "get" \/ r.pc = "clean")
        BY <2>2, <3>1, <3>2 DEF At, CallRecord
      <3> QED
        BY <1>2, <2>1, <3>3, <3>4 DEF CallMoves
    <2> QED
      BY <2>3, <2>4
  <1>11. ASSUME NEW c \in Calls, GetExisting(c) PROVE CallMoves(d)
    <2>1. PICK pc : pc = IF GetVersioned(Write(c).key) >= Write(c).version
                         THEN "mark" ELSE "set"
      OBVIOUS
    <2>2. Goto(c, pc) /\ pc \in {"set", "mark"}
      BY <1>11, <2>1 DEF GetExisting
    <2> QED
      BY <1>9, <1>11, <2>2 DEF GetExisting
  <1>12. ASSUME NEW c \in Calls, Replay(c) PROVE CallMoves(d)
    <2>1. CASE SkipReconciled(c) \/ MarkReconciled(c)
      BY <1>7, <2>1 DEF SkipReconciled, MarkReconciled
    <2>2. CASE SkipStale(c) \/ SetFails(c)
      BY <1>8, <2>2 DEF SkipStale, SetFails
    <2>3. CASE SetSucceeds(c)
      BY <1>9, <2>3 DEF SetSucceeds
    <2>4. CASE CleanUp(c)
      BY <1>4, <2>4 DEF CleanUp
    <2>5. CASE Return(c)
      BY <1>5, <2>5 DEF Return
    <2> QED
      BY <1>10, <1>11, <1>12, <2>1, <2>2, <2>3, <2>4, <2>5 DEF Replay
  <1>13. ASSUME NEW n \in Nodes, "recovery" \in Paths, Recover(n)
         PROVE  CallMoves(d)
    <2>1. <<n, "recovery">> \in Calls
      BY <1>13 DEF Calls
    <2> QED
      BY <1>1, <1>4, <1>13, <2>1 DEF Recover
  <1>14. ASSUME NEW n \in Nodes, "locked" \in Paths, ReconcileLocked(n)
         PROVE  CallMoves(d)
    <2>1. <<n, "locked">> \in Calls
      BY <1>14 DEF Calls
    <2> QED
      BY <1>4, <1>14, <2>1 DEF ReconcileLocked
  <1>15. ASSUME NEW n \in Nodes, "periodic" \in Paths, PeriodicStep(n)
         PROVE  CallMoves(d)
    <2>1. PICK c \in Calls : c = <<n, "periodic">>
      BY <1>15 DEF Calls
    <2>2. CASE ReconcileIfLeader(n)
      <3>1. PICK r : r = [call[c] EXCEPT !.pc = "validate",
                                         !.epoch = coordinator[n].epoch]
        OBVIOUS
      <3>2. call' = [call EXCEPT ![c] = r] /\ call[c] \in CallRecord
        BY <2>1, <2>2, <3>1 DEF ReconcileIfLeader, CallInv
      <3>3. r.pc = "validate"
        BY <3>1, <3>2 DEF CallRecord
      <3> QED
        BY <1>3, <3>2, <3>3
    <2>3. CASE ValidateEpoch(n)
      <3>1. Goto(c, "snapshot") \/ call' = [call EXCEPT ![c] = NoCall]
        BY <2>1, <2>3 DEF ValidateEpoch, Goto
      <3> QED
        BY <1>4, <1>5, <3>1
    <2> QED
      BY <1>15, <2>2, <2>3 DEF PeriodicStep
  <1>16. CASE Environment
    BY <1>1, <1>16 DEF Environment, RedisChanges, LockExpires, Expire,
       OtherWrite, NewLeader, Age, callVars
  <1>17. ASSUME NEW n \in Nodes,
                Availability(n) \/ CacheAccess(n) \/ UpdateLeadershipStatus(n)
         PROVE  CallMoves(d)
    BY <1>1, <1>17 DEF Availability, MarkRedisUnavailable, MarkRedisAvailable,
       MarkDBUnavailable, MarkDBAvailable, CacheAccess, ClearCache,
       GetFromCache, SetInCacheWithTTL, UpdateLeadershipStatus, callVars
  <1>18. CASE UNCHANGED vars
    BY <1>1, <1>18 DEF vars, callVars
  <1> QED
    BY <1>12, <1>13, <1>14, <1>15, <1>16, <1>17, <1>18 DEF Next

\* Positions are kept by every replay that is not overtaken.
LEMMA AlignmentStep ==
    ASSUME WritesType, WritesType', HistType, CallInv, CallInv', Alignment,
           [Next]_vars, StaysOvertaken,
           \A n \in Nodes :
                Extends(pendingWrites[n], pendingWrites'[n]) \/ Shifts(n)
    PROVE  Alignment'
  <1> SUFFICES ASSUME NEW d \in Calls
               PROVE  /\ d \in overtaken' \/
                            Aligned(call'[d], pendingWrites'[d[1]])
                      /\ AtOpen(call'[d])
    BY DEF Alignment
  <1>1. PICK n \in Nodes : n = d[1]
    BY DEF Calls
  <1>2. CallMoves(d)
    BY CallStepMoves
  <1>3. PICK r \in CallRecord : r = call[d]
    BY DEF CallInv
  <1>4. PICK q \in CallRecord : q = call'[d]
    BY DEF CallInv
  <1>5. Write(d) = r.pending[r.i]
    BY <1>3 DEF Write
  <1>6. AtOpen(q)
    <2>1. AtOpen(r)
      BY <1>3 DEF Alignment
    <2> QED
      BY <1>2, <1>3, <1>4, <1>5, <2>1 DEF CallMoves, AtOpen
  <1>7. ASSUME NEW c \in Calls, CleanUp(c)
        PROVE  /\ call'[c].pc = "return"
               /\ d # c => call'[d] = call[d]
    <2>1. PICK x : x = [call[c] EXCEPT !.pc = "return"]
      OBVIOUS
    <2>2. call' = [call EXCEPT ![c] = x] /\ x.pc = "return"
      BY <1>7, <2>1, GotoIs DEF CleanUp
    <2> QED
      BY <2>2 DEF CallInv
  <1>8. ASSUME CleanUp(d) PROVE Aligned(q, pendingWrites'[n])
    <2>1. q.pc = "return"
      BY <1>4, <1>7, <1>8
    <2> QED
      BY <2>1 DEF Aligned
  <1>9. ASSUME q = r, d \notin Looping(n) PROVE Aligned(q, pendingWrites'[n])
    BY <1>1, <1>3, <1>9 DEF Looping, Aligned
  <1>10. ASSUME d \notin overtaken', Shifts(n)
         PROVE  Aligned(q, pendingWrites'[n])
    <2>1. ASSUME NEW c \in Calls, CleanUp(c), d # c,
                 Looping(n) \ {c} \subseteq overtaken'
          PROVE  Aligned(q, pendingWrites'[n])
      <3>1. q = r
        BY <1>3, <1>4, <1>7, <2>1
      <3>2. d \notin Looping(n)
        BY <1>10, <2>1
      <3> QED
        BY <1>9, <3>1, <3>2
    <2>2. ASSUME NEW k \in Keys, NEW ttl \in TTLs, SetInCacheWithTTL(n, k, ttl),
                 Looping(n) \subseteq overtaken'
          PROVE  Aligned(q, pendingWrites'[n])
      <3>1. q = r
        BY <1>3, <1>4, <2>2 DEF SetInCacheWithTTL, callVars
      <3>2. d \notin Looping(n)
        BY <1>10, <2>2
      <3> QED
        BY <1>9, <3>1, <3>2
    <2> QED
      BY <1>8, <1>10, <2>1, <2>2 DEF Shifts
  <1>11. ASSUME d \notin overtaken, Extends(pendingWrites[n], pendingWrites'[n])
         PROVE  Aligned(q, pendingWrites'[n])
    <2>1. PICK s : s = pendingWrites[n]
      OBVIOUS
    <2>2. PICK t : t = pendingWrites'[n]
      OBVIOUS
    <2>3. /\ s \in Seq(PendingWrite) /\ t \in Seq(PendingWrite)
          /\ Extends(s, t)
      BY <1>11, <2>1, <2>2 DEF WritesType
    <2>4. r.pending \in Seq(PendingWrite) /\ q.pending \in Seq(PendingWrite)
      BY DEF CallRecord
    <2>5. Aligned(r, s)
      BY <1>1, <1>3, <1>11, <2>1 DEF Alignment
    <2>6. r.pc \in {"get", "set", "mark"} => Extends(r.pending, t)
      BY <2>3, <2>4, <2>5, ExtendsTrans DEF Aligned
    <2>7. CASE q.pending = r.pending /\ r.pc \in {"get", "set", "mark"}
      BY <2>2, <2>6, <2>7 DEF Aligned
    <2>8. CASE q = r
      BY <2>2, <2>6, <2>8 DEF Aligned
    <2>9. CASE q.pc \notin {"get", "set", "mark"}
      BY <2>9 DEF Aligned
    <2>10. CASE q.pending = s
      BY <2>2, <2>3, <2>10 DEF Aligned
    <2> QED
      BY <1>1, <1>2, <1>3, <1>4, <2>1, <2>7, <2>8, <2>9, <2>10 DEF CallMoves
  <1>12. d \in overtaken' \/ Aligned(q, pendingWrites'[n])
    BY <1>8, <1>10, <1>11 DEF StaysOvertaken
  <1> QED
    BY <1>1, <1>4, <1>6, <1>12

\* What NoSilentLoss says of one step.
NothingLost ==
    \A n \in Nodes :
        \A i \in DOMAIN pendingWrites[n] :
            LET w == pendingWrites[n][i]
            IN  \/ \E j \in DOMAIN pendingWrites'[n] :
                        pendingWrites'[n][j].version = w.version
                \/ high[w.key] >= w.version
                \/ w.version <= outdated[n]
                \/ Dropped(n, i)
                \/ w.version \in suspect[n]

LEMMA LossStep ==
    ASSUME WritesType, WritesType', Lists,
           \A n \in Nodes :
                Extends(pendingWrites[n], pendingWrites'[n]) \/ Shifts(n)
    PROVE  NothingLost
  <1> SUFFICES ASSUME NEW n \in Nodes, NEW i \in DOMAIN pendingWrites[n]
               PROVE  \/ \E j \in DOMAIN pendingWrites'[n] :
                            pendingWrites'[n][j].version
                                = pendingWrites[n][i].version
                      \/ Settled(pendingWrites[n][i], high, outdated[n],
                                 suspect[n])
                      \/ Dropped(n, i)
    BY DEF NothingLost, Settled
  <1>1. PICK s : s = pendingWrites[n]
    OBVIOUS
  <1>2. PICK t : t = pendingWrites'[n]
    OBVIOUS
  <1>3. s \in Seq(PendingWrite) /\ t \in Seq(PendingWrite)
    BY <1>1, <1>2 DEF WritesType
  <1>4. /\ DOMAIN s = 1..Len(s) /\ Len(s) \in Nat
        /\ DOMAIN t = 1..Len(t) /\ Len(t) \in Nat
    BY <1>3, LenProperties
  <1>5. CASE Extends(s, t)
    <2>1. i \in DOMAIN t /\ t[i].version = s[i].version
      BY <1>1, <1>4, <1>5 DEF Extends
    <2> QED
      BY <1>1, <1>2, <2>1
  <1>6. CASE \E c \in Calls : c[1] = n /\ CleanUp(c)
    <2>1. t = Unreconciled(s)
      BY <1>1, <1>2, <1>6 DEF CleanUp, WritesType
    <2>2. CASE s[i].reconciled
      BY <1>1, <1>4, <2>2 DEF Lists, ListOk
    <2>3. CASE ~s[i].reconciled
      <3>1. \E j \in 1..Len(t) : t[j] = s[i]
        BY <1>1, <1>3, <1>4, <2>1, <2>3, UnreconciledKeeps
      <3> QED
        BY <1>1, <1>2, <1>4, <3>1
    <2> QED
      BY <2>2, <2>3
  <1>7. CASE \E k \in Keys, ttl \in TTLs : SetInCacheWithTTL(n, k, ttl)
    <2>1. PICK k \in Keys, ttl \in TTLs : SetInCacheWithTTL(n, k, ttl)
      BY <1>7
    <2>2. PICK r : r = Trimmed(s)
      OBVIOUS
    <2>3. PICK w \in PendingWrite :
            /\ pendingWrites' = [pendingWrites EXCEPT ![n] = Append(r, w)]
            /\ currentVersion' = [currentVersion EXCEPT
                                    ![n] = currentVersion[n] + 1]
      BY <1>1, <2>1, <2>2, SetInCacheWrites
    <2>4. /\ r \in Seq(PendingWrite) /\ Len(r) \in Nat
          /\ \/ \E j \in 1..Len(r) : r[j] = s[i]
             \/ /\ Len(s) >= MaxPendingWrites
                /\ i = Min(Open(s))
      <3>1. i \in 1..Len(s)
        BY <1>1, <1>4
      <3>2. /\ r \in Seq(PendingWrite)
            /\ \/ \E j \in 1..Len(r) : r[j] = s[i]
               \/ /\ Len(s) >= MaxPendingWrites
                  /\ i = Min(Open(s))
        BY <1>3, <2>2, <3>1, TrimmedKeeps
      <3> QED
        BY <3>2, LenProperties
    <2>5. t = Append(r, w) /\ currentVersion'[n] = currentVersion[n] + 1
      BY <1>2, <2>3 DEF WritesType
    <2>6. /\ Len(t) = Len(r) + 1
          /\ \A j \in 1..Len(r) : t[j] = r[j]
      BY <2>4, <2>5, AppendProperties
    <2>7. CASE \E j \in 1..Len(r) : r[j] = s[i]
      <3>1. PICK j \in 1..Len(r) : r[j] = s[i]
        BY <2>7
      <3>2. j \in DOMAIN t /\ t[j] = s[i]
        BY <1>4, <2>4, <2>6, <3>1
      <3> QED
        BY <1>1, <1>2, <3>2
    <2>8. CASE /\ Len(s) >= MaxPendingWrites
               /\ i = Min(Open(s))
      BY <1>1, <2>5, <2>8 DEF Dropped, Open
    <2> QED
      BY <2>4, <2>7, <2>8
  <1> QED
    BY <1>1, <1>2, <1>5, <1>6, <1>7 DEF Shifts

\* No pending write is lost in silence, whatever replays overlap and whether
\* the list is full or not: a write leaves the list only when Redis has held
\* it or a later version, when it is too old, when it is the oldest open one of
\* a full list that makes room, or when a replay has marked it whose positions
\* another removal had shifted.  The invariant: the positions of a replay that
\* is not overtaken are those of the list, so it marks the write it means.
THEOREM NoWriteLost == Spec => NoSilentLoss
  <1> DEFINE IInv == /\ StoreInv /\ WritesType /\ HistType /\ CallInv
                     /\ Lists /\ Alignment
  <1>1. Init => IInv
    <2> SUFFICES ASSUME Init PROVE HistType /\ Lists /\ Alignment
      BY StoreInvInit, WritesInit, CallInit
    <2>1. Lists
      BY EmptySeq DEF Init, Lists, ListOk
    <2>2. Alignment
      BY DEF Init, Alignment, Aligned, AtOpen, NoCall
    <2>3. HistType
      BY DEF Init, HistType
    <2> QED
      BY <2>1, <2>2, <2>3
  <1>2. IInv /\ [Next]_vars => IInv' /\ [NothingLost]_vars
    <2> SUFFICES ASSUME IInv, [Next]_vars PROVE IInv' /\ NothingLost
      OBVIOUS
    <2>1. /\ StoreInv' /\ HighGrows /\ WritesType' /\ CallInv'
          /\ HistType' /\ StaysOvertaken
      BY StoreInvStep, WritesStep, CallKept, HistStep
    <2>2. /\ Lists'
          /\ \A n \in Nodes :
                Extends(pendingWrites[n], pendingWrites'[n]) \/ Shifts(n)
      BY <2>1, ListsStep
    <2>3. Alignment'
      BY <2>1, <2>2, AlignmentStep
    <2>4. NothingLost
      BY <2>1, <2>2, LossStep
    <2> QED
      BY <2>1, <2>2, <2>3, <2>4
  <1>3. NoSilentLoss <=> [][NothingLost]_vars
    BY DEF NoSilentLoss, NothingLost
  <1> QED
    BY <1>1, <1>2, <1>3, PTL DEF Spec
=============================================================================
