------------------------ MODULE LeaderElectionProofs ------------------------
(***************************************************************************)
(* Theorems about LeaderElection, for every set of nodes, every timing     *)
(* with Interval < TTL, and every bound:                                   *)
(*   - type correctness, in every environment;                             *)
(*   - a lease is removed only for a reason, in every environment;         *)
(*   - terms have unique epochs, and the elector implements Leadership,    *)
(*     unless Redis loses its data;                                        *)
(*   - at most one node believes that it leads, and fencing epochs grow,   *)
(*     in every environment, until a leader is disturbed.                  *)
(***************************************************************************)
EXTENDS LeaderElection, TLAPS

USE TimingAssumption, BoundAssumption DEF history

-----------------------------------------------------------------------------
(* Type correctness. *)

\* A countdown stays in its range.
LEMMA DecType ==
    ASSUME NEW k \in Nat, NEW x \in 0..k
    PROVE  Dec(x) \in 0..k
BY DEF Dec

\* Doubling the interval, capped, stays between ttl/3 and 10*ttl.
LEMMA BackoffType ==
    ASSUME NEW i \in Interval..MaxInterval
    PROVE  Backoff(i) \in Interval..MaxInterval
BY DEF Backoff

\* A renewed lease is well typed: only its TTL is set.
LEMMA RenewedType ==
    ASSUME TypeOK
    PROVE  Renewed \in [epoch : Nat, req : Nat, ttl : 0..TTL,
                       exp : 0..StaleAfter]
<1>1. lease \in [epoch : Nat, req : Nat, ttl : 0..TTL, exp : 0..StaleAfter]
  BY DEF TypeOK
<1>2. TTL \in 0..TTL
  OBVIOUS
<1> QED
  BY <1>1, <1>2 DEF Renewed

\* stepDown leaves the flag and the context of every node well typed.
LEMMA StepDownType ==
    ASSUME TypeOK, NEW n \in Node, StepDown(n)
    PROVE  /\ isLeader' \in [Node -> BOOLEAN]
           /\ leaderCtx' \in [Node -> [epoch : Nat, live : BOOLEAN]]
<1>1. isLeader' \in [Node -> BOOLEAN]
  BY DEF StepDown, TypeOK
<1>2. leaderCtx[n] \in [epoch : Nat, live : BOOLEAN]
  BY DEF TypeOK
<1>3. [leaderCtx[n] EXCEPT !.live = FALSE] \in [epoch : Nat, live : BOOLEAN]
  BY <1>2
<1> QED
  BY <1>1, <1>3 DEF StepDown, TypeOK

\* Every action of the model keeps every variable in its type: in
\* particular the backoff stays between ttl/3 and 10*ttl and the failure
\* counter below its threshold.
LEMMA TypeStep == TypeOK /\ [Next]_vars => TypeOK'
<1> SUFFICES ASSUME TypeOK, [Next]_vars PROVE TypeOK'
  OBVIOUS
<1> USE DEF TypeOK, StaleAfter, NoLease, NoMeta, NoCtx, maxRenewFailures,
            redisVars, loopVars, janitorVars, ResetTimer, BackoffTimer, Renewed,
            LeaseOf, ReleaseLease
<1>1. ASSUME NEW n \in Node, LoopStep(n) PROVE TypeOK'
  <2> Interval \in Interval..MaxInterval /\ Interval \in 0..MaxInterval
    OBVIOUS
  <2> Backoff(interval[n]) \in Interval..MaxInterval
    BY BackoffType
  <2> Backoff(interval[n]) \in 0..MaxInterval
    OBVIOUS
  <2>1. CASE IncrementDurableEpoch(n)
    BY <2>1 DEF IncrementDurableEpoch, IncrementEpoch
  <2>2. CASE IncrementDurableEpochFails(n)
    BY <2>2 DEF IncrementDurableEpochFails, IncrementEpoch
  <2>3. CASE AcquireLease(n)
    BY <2>3 DEF AcquireLease
  <2>4. CASE AcquireLeaseDenied(n)
    BY <2>4 DEF AcquireLeaseDenied
  <2>5. CASE AcquireLeaseFails(n)
    BY <2>5 DEF AcquireLeaseFails
  <2>6. CASE BecomeLeader(n)
    <3>1. leaderCtx' \in [Node -> [epoch : Nat, live : BOOLEAN]]
      BY <2>6, Zenon DEF BecomeLeader
    <3>2. isLeader' \in [Node -> BOOLEAN]
      BY <2>6, Zenon DEF BecomeLeader
    <3>5. terms' \in SUBSET Nat
      <4>1. terms' = terms \cup {currentEpoch[n]} /\ currentEpoch[n] \in Nat
        BY <2>6 DEF BecomeLeader
      <4> QED
        BY <4>1
    <3>3. /\ pc' \in [Node -> {"select", "acquireLease", "becomeLeader", "exited"}]
          /\ renewFailures' \in [Node -> 0..(maxRenewFailures - 1)]
          /\ interval' \in [Node -> Interval..MaxInterval]
          /\ timer' \in [Node -> 0..MaxInterval]
      BY <2>6 DEF BecomeLeader
    <3>4. UNCHANGED <<lease, epoch, reqs, currentEpoch, currentValue, meta,
                      jpc, jepoch, jval, disturbed>>
      BY <2>6 DEF BecomeLeader
    <3> QED
      BY <3>1, <3>2, <3>3, <3>4, <3>5
  <2>7. CASE RenewLease(n)
    <3>1. lease' \in [epoch : Nat, req : Nat, ttl : 0..TTL, exp : 0..StaleAfter]
      BY <2>7, RenewedType DEF RenewLease
    <3>2. renewFailures' \in [Node -> 0..(maxRenewFailures - 1)]
      BY <2>7 DEF RenewLease
    <3>3. /\ interval' \in [Node -> Interval..MaxInterval]
          /\ timer' \in [Node -> 0..MaxInterval]
      BY <2>7 DEF RenewLease
    <3>4. UNCHANGED <<epoch, reqs, pc, isLeader, currentEpoch, currentValue,
                      meta, leaderCtx, jpc, jepoch, jval, terms, disturbed>>
      BY <2>7 DEF RenewLease
    <3> QED
      BY <3>1, <3>2, <3>3, <3>4
  <2>8. CASE RenewLeaseDenied(n)
    BY <2>8, StepDownType DEF RenewLeaseDenied
  <2>9. CASE RenewLeaseFails(n)
    <3>1. /\ isLeader' \in [Node -> BOOLEAN]
          /\ leaderCtx' \in [Node -> [epoch : Nat, live : BOOLEAN]]
      BY <2>9, StepDownType DEF RenewLeaseFails
    <3>2. renewFailures' \in [Node -> 0..(maxRenewFailures - 1)]
      <4>1. CASE GivesUp(n)
        BY <2>9, <4>1 DEF RenewLeaseFails
      <4>2. CASE ~GivesUp(n)
        <5>1. renewFailures' = [renewFailures EXCEPT ![n] = @ + 1]
          BY <2>9, <4>2 DEF RenewLeaseFails
        <5>2. renewFailures[n] + 1 \in 0..(maxRenewFailures - 1)
          BY <4>2 DEF GivesUp
        <5> QED
          BY <5>1, <5>2
      <4> QED
        BY <4>1, <4>2
    <3>3. lease' \in [epoch : Nat, req : Nat, ttl : 0..TTL, exp : 0..StaleAfter]
      <4>1. lease' = lease \/ lease' = Renewed
        BY <2>9 DEF RenewLeaseFails
      <4> QED
        BY <4>1, RenewedType
    <3>4. /\ interval' \in [Node -> Interval..MaxInterval]
          /\ timer' \in [Node -> 0..MaxInterval]
      BY <2>9 DEF RenewLeaseFails
    <3>5. UNCHANGED <<epoch, reqs, pc, currentEpoch, currentValue, meta, jpc,
                      jepoch, jval, terms>>
      BY <2>9 DEF RenewLeaseFails
    <3>6. disturbed' \in BOOLEAN
      BY <2>9 DEF RenewLeaseFails
    <3> QED
      BY <3>1, <3>2, <3>3, <3>4, <3>5, <3>6
  <2> QED
    BY <1>1, <2>1, <2>2, <2>3, <2>4, <2>5, <2>6, <2>7, <2>8, <2>9 DEF LoopStep
<1>2. ASSUME NEW n \in Node, JanitorStep(n) PROVE TypeOK'
  <2>1. CASE GetDurableEpoch(n)
    BY <2>1 DEF GetDurableEpoch
  <2>2. CASE JudgeLock(n)
    <3>1. jpc' \in [Node -> {"idle", "scan", "release"}]
      BY <2>2 DEF JudgeLock
    <3>2. jval' \in [Node -> Nat]
      BY <2>2 DEF JudgeLock
    <3> QED
      BY <2>2, <3>1, <3>2 DEF JudgeLock
  <2>3. CASE JanitorRelease(n)
    BY <2>3 DEF JanitorRelease
  <2>4. CASE JanitorFails(n)
    BY <2>4 DEF JanitorFails
  <2> QED
    BY <1>2, <2>1, <2>2, <2>3, <2>4 DEF JanitorStep
<1>3. ASSUME NEW n \in Node, Stop(n) PROVE TypeOK'
  BY <1>3 DEF Stop
<1>4. ASSUME NEW n \in Node, CtxDone(n) PROVE TypeOK'
  BY <1>4 DEF CtxDone
<1>5. ASSUME NEW n \in Node, Crash(n) PROVE TypeOK'
  BY <1>5 DEF Crash
<1>6. CASE Tick
  <2>1. lease' \in [epoch : Nat, req : Nat, ttl : 0..TTL, exp : 0..StaleAfter]
    <3>0. lease.ttl \in 0..TTL /\ lease.exp \in 0..StaleAfter
      OBVIOUS
    <3>1. Dec(lease.ttl) \in 0..TTL /\ Dec(lease.exp) \in 0..StaleAfter
      BY <3>0, DecType
    <3>2. Aged \in [epoch : Nat, req : Nat, ttl : 0..TTL, exp : 0..StaleAfter]
      BY <3>1 DEF Aged
    <3> QED
      BY <1>6, <3>2 DEF Tick
  <2>2. meta' \in [Node -> [epoch : Nat, req : Nat, exp : 0..StaleAfter]]
    <3>1. ASSUME NEW n \in Node
          PROVE  [meta[n] EXCEPT !.exp = Dec(@)]
                     \in [epoch : Nat, req : Nat, exp : 0..StaleAfter]
      <4>1. meta[n] \in [epoch : Nat, req : Nat, exp : 0..StaleAfter]
        OBVIOUS
      <4>2. Dec(meta[n].exp) \in 0..StaleAfter
        BY <4>1, DecType
      <4> QED
        BY <4>1, <4>2
    <3> QED
      BY <1>6, <3>1 DEF Tick
  <2>3. timer' \in [Node -> 0..MaxInterval]
    BY <1>6, DecType DEF Tick
  <2> QED
    BY <1>6, <2>1, <2>2, <2>3 DEF Tick
<1>7. CASE Flush
  BY <1>7 DEF Flush
<1>8. CASE UNCHANGED vars
  BY <1>8 DEF vars
<1> QED
  BY <1>1, <1>2, <1>3, <1>4, <1>5, <1>6, <1>7, <1>8 DEF Next

\* The type invariant of the election holds in every reachable state, in
\* every environment.
THEOREM TypeCorrect == Spec => []TypeOK
<1>1. Init => TypeOK
  <2> SUFFICES ASSUME Init PROVE TypeOK
    OBVIOUS
  <2>1. /\ isLeader \in [Node -> BOOLEAN]
        /\ leaderCtx \in [Node -> [epoch : Nat, live : BOOLEAN]]
        /\ disturbed \in BOOLEAN
    BY DEF Init, NoCtx
  <2> QED
    BY <2>1 DEF Init, TypeOK, NoLease, NoMeta, StaleAfter, maxRenewFailures
<1> QED
  BY <1>1, TypeStep, PTL DEF Spec

-----------------------------------------------------------------------------
(* Removal of a lease. *)

\* In every environment the lease under the key is replaced by nothing but
\* its absence, and removed by its expiry, by the leader that acquired it, by
\* a janitor that had judged this very value, or by a flush of Redis.
THEOREM LeaseRemoval == Spec => LeaseRemovalJustified
<1>1. TypeOK /\ [Next]_vars
          => [~Free /\ lease'.req # lease.req
                 => lease' = NoLease /\ MayRemove]_vars
  <2> SUFFICES ASSUME TypeOK, [Next]_vars, ~Free, lease'.req # lease.req
               PROVE  lease' = NoLease /\ MayRemove
    OBVIOUS
  <2>0. lease' # lease
    OBVIOUS
  <2>00. Renewed.req = lease.req /\ Aged.req = lease.req
    BY DEF Renewed, Aged, TypeOK
  <2>1. ASSUME NEW n \in Node, LoopStep(n) PROVE FALSE
    BY <2>1, <2>0, <2>00 DEF LoopStep, IncrementDurableEpoch,
       IncrementDurableEpochFails, AcquireLease, AcquireLeaseDenied,
       AcquireLeaseFails, BecomeLeader, RenewLease, RenewLeaseDenied,
       RenewLeaseFails, redisVars
  <2>2. ASSUME NEW n \in Node, JanitorStep(n)
        PROVE  lease' = NoLease /\ JanitorRelease(n) /\ jval[n] = lease.req
    <3>1. JanitorRelease(n)
      BY <2>2, <2>0 DEF JanitorStep, GetDurableEpoch, JudgeLock, JanitorFails,
         redisVars
    <3>2. lease' = ReleaseLease(jval[n])
      BY <3>1 DEF JanitorRelease
    <3> QED
      BY <2>0, <3>1, <3>2 DEF ReleaseLease, Owns
  <2>3. ASSUME NEW n \in Node, Stop(n) \/ CtxDone(n)
        PROVE  lease' = NoLease /\ isLeader[n] /\ currentValue[n] = lease.req
    BY <2>3, <2>0 DEF Stop, CtxDone, ReleaseLease, Owns
  <2>4. ASSUME NEW n \in Node, Crash(n) PROVE FALSE
    BY <2>4, <2>0 DEF Crash, redisVars
  <2>5. CASE Tick
    <3>1. lease' = (IF lease.ttl <= 1 THEN NoLease ELSE Aged)
      BY <2>5 DEF Tick
    <3> QED
      BY <2>5, <2>00, <3>1 DEF MayRemove
  <2>6. CASE Flush
    <3>1. lease' = NoLease
      BY <2>6 DEF Flush
    <3> QED
      BY <2>6, <3>1 DEF MayRemove
  <2>7. CASE UNCHANGED vars
    BY <2>7, <2>0 DEF vars, redisVars
  <2> QED
    BY <2>1, <2>2, <2>3, <2>4, <2>5, <2>6, <2>7 DEF Next, MayRemove
<1> QED
  BY <1>1, TypeCorrect, PTL DEF Spec, LeaseRemovalJustified

-----------------------------------------------------------------------------
(* Terms: unique epochs, and the promise to the rest of the node. *)

\* An attempt has its epoch and has not yet ended.
InFlight(n) == pc[n] \in {"acquireLease", "becomeLeader"}

\* The epochs of terms and of attempts come from the durable counter.
EpochsIssued ==
    /\ epoch <= MaxEpoch
    /\ terms \subseteq 1..epoch
    /\ \A n \in Node : InFlight(n) => currentEpoch[n] \in 1..epoch

\* An attempt's epoch belongs to no term and to no other attempt.
AttemptsFresh ==
    /\ \A n \in Node : InFlight(n) => currentEpoch[n] \notin terms
    /\ \A n, m \in Node :
          InFlight(n) /\ InFlight(m) /\ n # m
              => currentEpoch[n] # currentEpoch[m]

\* A node leads, or attempts to; its term is one of the terms begun.
LeadersHaveTerms ==
    \A n \in Node : isLeader[n] => ~InFlight(n) /\ leaderCtx[n].epoch \in terms

TermInv == EpochsIssued /\ AttemptsFresh /\ LeadersHaveTerms /\ UniqueTerms

\* Every step but a flush of Redis preserves the invariant on terms.
LEMMA TermStep ==
    ASSUME "flush" \notin Env, TypeOK, TypeOK', TermInv, [Next]_vars
    PROVE  TermInv'
<1> USE DEF TermInv, EpochsIssued, AttemptsFresh, LeadersHaveTerms,
            UniqueTerms, InFlight, TypeOK
<1>1. ASSUME NEW n \in Node, LoopStep(n) PROVE TermInv'
  <2>1. CASE IncrementDurableEpoch(n)
    BY <2>1 DEF IncrementDurableEpoch, IncrementEpoch, Fires, MayAttempt
  <2>2. CASE IncrementDurableEpochFails(n)
    BY <2>2 DEF IncrementDurableEpochFails, IncrementEpoch, MayAttempt
  <2>3. CASE AcquireLease(n)
    BY <2>3 DEF AcquireLease
  <2>4. CASE AcquireLeaseDenied(n)
    BY <2>4 DEF AcquireLeaseDenied, redisVars
  <2>5. CASE AcquireLeaseFails(n)
    BY <2>5 DEF AcquireLeaseFails
  <2>6. CASE BecomeLeader(n)
    BY <2>6 DEF BecomeLeader, redisVars
  <2>7. CASE RenewLease(n)
    BY <2>7 DEF RenewLease
  <2>8. CASE RenewLeaseDenied(n)
    BY <2>8 DEF RenewLeaseDenied, StepDown, redisVars
  <2>9. CASE RenewLeaseFails(n)
    <3>1. UNCHANGED <<epoch, pc, currentEpoch, terms>>
      BY <2>9 DEF RenewLeaseFails
    <3>2. CASE StepDown(n)
      BY <3>1, <3>2 DEF StepDown
    <3>3. CASE UNCHANGED <<isLeader, leaderCtx>>
      BY <3>1, <3>3
    <3> QED
      BY <2>9, <3>2, <3>3 DEF RenewLeaseFails
  <2> QED
    BY <1>1, <2>1, <2>2, <2>3, <2>4, <2>5, <2>6, <2>7, <2>8, <2>9 DEF LoopStep
<1>2. ASSUME NEW n \in Node, JanitorStep(n) PROVE TermInv'
  BY <1>2 DEF JanitorStep, GetDurableEpoch, JudgeLock, JanitorRelease,
              JanitorFails, redisVars, loopVars
<1>3. ASSUME NEW n \in Node, Stop(n) \/ CtxDone(n) PROVE TermInv'
  <2>1. /\ UNCHANGED <<epoch, isLeader, currentEpoch, leaderCtx, terms>>
        /\ \A m \in Node : InFlight(m)' => InFlight(m)
    BY <1>3 DEF Stop, CtxDone, loopVars
  <2>2. \A m \in Node : isLeader[m] => ~InFlight(m)'
    BY <2>1
  <2> QED
    BY <2>1, <2>2
<1>4. ASSUME NEW n \in Node, Crash(n) PROVE TermInv'
  BY <1>4 DEF Crash, redisVars, NoCtx
<1>5. CASE Tick
  BY <1>5 DEF Tick
<1>6. CASE UNCHANGED vars
  BY <1>6 DEF vars, redisVars, loopVars
<1> QED
  BY <1>1, <1>2, <1>3, <1>4, <1>5, <1>6 DEF Next, Flush

\* Unless Redis is flushed, the invariant on terms always holds.
THEOREM TermInvariant == "flush" \notin Env => (Spec => []TermInv)
<1> SUFFICES ASSUME "flush" \notin Env PROVE Spec => []TermInv
  OBVIOUS
<1>1. Init => TermInv
  BY DEF Init, TermInv, EpochsIssued, AttemptsFresh, LeadersHaveTerms,
         UniqueTerms, InFlight
<1>2. TypeOK /\ TypeOK' /\ TermInv /\ [Next]_vars => TermInv'
  BY TermStep
<1> QED
  BY <1>1, <1>2, TypeCorrect, PTL DEF Spec

\* Two nodes that lead at the same time carry different fencing epochs, as
\* long as Redis, which is also the epoch store, keeps its data.
THEOREM TermsAreUnique == "flush" \notin Env => (Spec => []UniqueTerms)
BY TermInvariant, PTL DEF TermInv

\* The elector keeps its promise: every term begins with a fresh epoch and a
\* live context, and the context is cancelled when the node stops leading.
THEOREM Refinement == "flush" \notin Env => (Spec => ImplementsLeadership)
<1> SUFFICES ASSUME "flush" \notin Env PROVE Spec => ImplementsLeadership
  OBVIOUS
<1>1. Init => L!Init
  BY DEF Init, L!Init, NoCtx, L!NoCtx
<1>2. TypeOK /\ TermInv /\ [Next]_vars => [L!Next]_(L!vars)
  <2> SUFFICES ASSUME TypeOK, TermInv, [Next]_vars
               PROVE  L!Next \/ UNCHANGED <<isLeader, leaderCtx, terms>>
    BY DEF L!vars
  <2>1. ASSUME NEW n \in Node, BecomeLeader(n) PROVE L!Next
    <3>1. /\ currentEpoch[n] \in 1..MaxEpoch
          /\ currentEpoch[n] \notin terms
          /\ ~isLeader[n]
      BY <2>1 DEF TypeOK, BecomeLeader, TermInv, EpochsIssued, AttemptsFresh,
                  LeadersHaveTerms, InFlight
    <3>2. L!Elect(n, currentEpoch[n])
      BY <2>1, <3>1 DEF BecomeLeader, L!Elect
    <3> QED
      BY <3>1, <3>2 DEF L!Next
  <2>2. ASSUME NEW n \in Node, isLeader[n], StepDown(n), UNCHANGED terms
        PROVE  L!Next
    BY <2>2 DEF StepDown, L!Lose, L!Next
  <2>3. ASSUME NEW n \in Node, Crash(n) PROVE L!Next
    BY <2>3 DEF Crash, NoCtx, L!NoCtx, L!Restart, L!Next
  <2>4. ASSUME NEW n \in Node, LoopStep(n)
        PROVE  L!Next \/ UNCHANGED <<isLeader, leaderCtx, terms>>
    BY <2>1, <2>2, <2>4
       DEF LoopStep, IncrementDurableEpoch, IncrementDurableEpochFails,
           AcquireLease, AcquireLeaseDenied, AcquireLeaseFails, RenewLease,
           RenewLeaseDenied, RenewLeaseFails
  <2>5. ASSUME NEW n \in Node, JanitorStep(n) \/ Stop(n) \/ CtxDone(n)
        PROVE  UNCHANGED <<isLeader, leaderCtx, terms>>
    BY <2>5 DEF JanitorStep, GetDurableEpoch, JudgeLock, JanitorRelease,
                JanitorFails, Stop, CtxDone, loopVars
  <2>6. CASE Tick
    BY <2>6 DEF Tick
  <2>7. CASE UNCHANGED vars
    BY <2>7 DEF vars, loopVars
  <2> QED
    BY <2>3, <2>4, <2>5, <2>6, <2>7 DEF Next, Flush
<1> QED
  BY <1>1, <1>2, TypeCorrect, TermInvariant, PTL
     DEF Spec, ImplementsLeadership, L!Spec

-----------------------------------------------------------------------------
(* One leader, and growing epochs, until a leader is disturbed. *)

\* A node that leads, or is about to.
Claims(n) == isLeader[n] \/ pc[n] = "becomeLeader"

\* Whoever claims leadership owns the lease, and nobody else claims it.
ClaimsOwn ==
    /\ \A n \in Node : Claims(n) => Owns(currentValue[n])
    /\ \A n, m \in Node : Claims(n) /\ Claims(m) => n = m

\* The lease of a leader outlives the leader's timer: both run down
\* together, and each renewal sets the first to TTL and the second to
\* Interval, which is less.
LeaseOutlivesTimer ==
    /\ \A n \in Node :
          isLeader[n] => /\ pc[n] = "select"
                         /\ lease.ttl + Interval >= TTL + timer[n]
    /\ \A n \in Node : pc[n] = "becomeLeader" => lease.ttl = TTL

AttemptsHaveValues ==
    \A n \in Node : pc[n] = "acquireLease" => meta[n].req # 0

LeaseInv ==
    /\ ClaimsOwn
    /\ LeaseOutlivesTimer
    /\ AttemptsHaveValues

\* A step after which nothing has been disturbed: no renewal fails, nobody is
\* late, and no lease is removed by anything but its expiry.
LEMMA UndisturbedStep ==
    ASSUME [Next]_vars, ~disturbed'
    PROVE  /\ ~disturbed
           /\ ~Flush
           /\ Tick => \A n \in Node : ~Ready(n)
           /\ \A n \in Node :
                 /\ ~RenewLeaseFails(n)
                 /\ JanitorStep(n) => UNCHANGED <<lease, loopVars, terms>>
                 /\ Stop(n) => UNCHANGED <<lease, loopVars, terms>>
                 /\ CtxDone(n) => /\ ~isLeader[n] /\ lease' = lease
                                  /\ pc[n] = "select"
                                  /\ pc' = [pc EXCEPT ![n] = "exited"]
                                  /\ UNCHANGED <<isLeader, currentValue,
                                                 currentEpoch, meta, timer,
                                                 terms>>
<1>1. ~disturbed
  BY Zenon DEF Next, LoopStep, JanitorStep, IncrementDurableEpoch,
     IncrementDurableEpochFails, AcquireLease, AcquireLeaseDenied,
     AcquireLeaseFails, BecomeLeader, RenewLease, RenewLeaseDenied,
     RenewLeaseFails, GetDurableEpoch, JudgeLock, JanitorRelease,
     JanitorFails, Stop, CtxDone, Crash, Tick, Flush, vars
<1>2. ~Flush /\ (Tick => \A n \in Node : ~Ready(n))
  BY Zenon DEF Flush, Tick
<1>3. ASSUME NEW n \in Node PROVE ~RenewLeaseFails(n)
  BY Zenon DEF RenewLeaseFails
<1>4. ASSUME NEW n \in Node, JanitorStep(n)
      PROVE  UNCHANGED <<lease, loopVars, terms>>
  BY <1>4 DEF JanitorStep, GetDurableEpoch, JudgeLock, JanitorRelease,
     JanitorFails, redisVars
<1>5. ASSUME NEW n \in Node, Stop(n) PROVE UNCHANGED <<lease, loopVars, terms>>
  BY <1>5 DEF Stop
<1>6. ASSUME NEW n \in Node, CtxDone(n)
      PROVE  /\ ~isLeader[n] /\ lease' = lease /\ pc[n] = "select"
             /\ pc' = [pc EXCEPT ![n] = "exited"]
             /\ UNCHANGED <<isLeader, currentValue, currentEpoch, meta, timer,
                            terms>>
  BY <1>6 DEF CtxDone
<1> QED
  BY <1>1, <1>2, <1>3, <1>4, <1>5, <1>6

\* No step breaks the invariant as long as no leader is disturbed.
LEMMA LeaseStep ==
    ASSUME TypeOK, TypeOK', LeaseInv, [Next]_vars, ~disturbed'
    PROVE  LeaseInv'
<1> USE DEF LeaseInv, ClaimsOwn, LeaseOutlivesTimer, AttemptsHaveValues,
            Claims, Owns, TypeOK
<1>1. ASSUME NEW n \in Node, LoopStep(n) PROVE LeaseInv'
  <2>1. CASE IncrementDurableEpoch(n)
    BY <2>1 DEF IncrementDurableEpoch, IncrementEpoch, Fires
  <2>2. CASE AcquireLease(n)
    BY <2>2 DEF AcquireLease, Free, NoLease, LeaseOf
  <2>3. CASE AcquireLeaseDenied(n)
    BY <2>3 DEF AcquireLeaseDenied, redisVars, ResetTimer
  <2>4. CASE BecomeLeader(n)
    BY <2>4 DEF BecomeLeader, redisVars, ResetTimer
  <2>5. CASE RenewLease(n)
    BY <2>5 DEF RenewLease, Renewed, ResetTimer
  <2>6. CASE RenewLeaseDenied(n)
    BY <2>6 DEF RenewLeaseDenied
  <2>7. CASE IncrementDurableEpochFails(n)
    BY <2>7 DEF IncrementDurableEpochFails, Fires, BackoffTimer
  <2>8. CASE AcquireLeaseFails(n)
    <3>1. Claims(n) => FALSE
      BY <2>8 DEF AcquireLeaseFails
    <3>2. lease' = lease \/ Free
      BY <2>8 DEF AcquireLeaseFails
    <3>3. Free => \A m \in Node : ~Claims(m)
      BY DEF Free, NoLease
    <3>4. CASE lease' = lease
      BY <2>8, <3>1, <3>4 DEF AcquireLeaseFails, BackoffTimer, NoMeta
    <3>5. CASE \A m \in Node : ~Claims(m)
      BY <2>8, <3>5 DEF AcquireLeaseFails, NoMeta
    <3> QED
      BY <3>2, <3>3, <3>4, <3>5
  <2> QED
    BY <1>1, <2>1, <2>2, <2>3, <2>4, <2>5, <2>6, <2>7, <2>8, UndisturbedStep
       DEF LoopStep
<1>2. ASSUME NEW n \in Node, JanitorStep(n) \/ Stop(n) PROVE LeaseInv'
  <2>1. UNCHANGED <<lease, loopVars, terms>>
    BY <1>2, UndisturbedStep
  <2> QED
    BY <2>1 DEF loopVars
<1>6. ASSUME NEW n \in Node, CtxDone(n) PROVE LeaseInv'
  BY <1>6, UndisturbedStep
<1>3. ASSUME NEW n \in Node, Crash(n) PROVE LeaseInv'
  BY <1>3 DEF Crash, redisVars, ResetTimer, NoMeta
<1>4. CASE Tick
  <2>1. \A n \in Node : ~Ready(n)
    BY <1>4, UndisturbedStep
  <2>2. \A n \in Node : pc[n] \notin {"acquireLease", "becomeLeader"}
    BY <2>1 DEF Ready
  <2>3. ASSUME NEW n \in Node, isLeader[n]
        PROVE  /\ timer[n] > 0
               /\ lease' = Aged
               /\ lease'.req = lease.req
               /\ lease'.ttl = lease.ttl - 1
               /\ timer'[n] = timer[n] - 1
    <3>1. timer[n] \in Nat /\ timer[n] # 0
      BY <2>1, <2>3 DEF Ready, Fires
    <3>2. lease.ttl \in Nat /\ lease.ttl > 1
      <4>1. lease.ttl \in Nat
        OBVIOUS
      <4>2. lease.ttl + Interval >= TTL + timer[n]
        BY <2>3
      <4> HIDE DEF LeaseInv, ClaimsOwn, LeaseOutlivesTimer, TypeOK
      <4> QED
        BY <3>1, <4>1, <4>2
    <3>3. lease' = Aged
      BY <1>4, <3>2 DEF Tick
    <3>4. Aged.req = lease.req /\ Aged.ttl = Dec(lease.ttl)
      BY DEF Aged
    <3>5. Dec(lease.ttl) = lease.ttl - 1 /\ Dec(timer[n]) = timer[n] - 1
      BY <3>1, <3>2 DEF Dec
    <3>6. timer'[n] = Dec(timer[n])
      BY <1>4 DEF Tick
    <3> QED
      BY <3>1, <3>3, <3>4, <3>5, <3>6
  <2>4. UNCHANGED <<pc, isLeader, currentValue>>
    BY <1>4 DEF Tick
  <2>5. ClaimsOwn'
    BY <2>2, <2>3, <2>4
  <2>6. LeaseOutlivesTimer'
    BY <2>2, <2>3, <2>4
  <2>7. AttemptsHaveValues'
    BY <2>2, <2>4
  <2> QED
    BY <2>5, <2>6, <2>7
<1>5. CASE UNCHANGED vars
  BY <1>5 DEF vars, redisVars, loopVars
<1> QED
  BY <1>1, <1>2, <1>3, <1>4, <1>5, <1>6, UndisturbedStep DEF Next

\* The invariant on leases holds until a leader is disturbed.
LEMMA LeaseInvariant == Spec => [](~disturbed => LeaseInv)
<1>1. Init => LeaseInv
  BY DEF Init, LeaseInv, ClaimsOwn, Claims, LeaseOutlivesTimer,
         AttemptsHaveValues
<1>2. TypeOK /\ TypeOK' /\ (~disturbed => LeaseInv) /\ [Next]_vars
          => (~disturbed' => LeaseInv')
  BY LeaseStep, UndisturbedStep
<1> QED
  BY <1>1, <1>2, TypeCorrect, PTL DEF Spec

\* In every environment, two nodes believe that they lead only after a
\* renewal failed, a node was late, a leader was cancelled, or a lease was
\* removed before its time.
THEOREM OneLeader == Spec => []SingleLeaderUndisturbed
<1>1. (~disturbed => LeaseInv) => SingleLeaderUndisturbed
  BY DEF LeaseInv, ClaimsOwn, Claims, SingleLeader, SingleLeaderUndisturbed
<1> QED
  BY <1>1, LeaseInvariant, PTL

\* While the lease is free, every attempt's epoch is above every term's;
\* an attempt that got the lease keeps that advantage until it leads.
EpochsAhead ==
    /\ terms \subseteq 1..epoch
    /\ \A n \in Node : InFlight(n) => currentEpoch[n] \in 1..epoch
    /\ \A n \in Node :
          \/ pc[n] = "becomeLeader"
          \/ pc[n] = "acquireLease" /\ Free
          => \A e \in terms : e < currentEpoch[n]

\* Unless a leader is disturbed, no step lets a pending attempt that can
\* still win fall behind a term that has begun.
LEMMA EpochsStep ==
    ASSUME TypeOK, TypeOK', LeaseInv, EpochsAhead, [Next]_vars, ~disturbed'
    PROVE  EpochsAhead'
<1> USE DEF EpochsAhead, InFlight, TypeOK
<1>00. \A n \in Node : Claims(n) => ~Free
  BY DEF LeaseInv, ClaimsOwn, Owns, Free, NoLease
<1>1. ASSUME NEW n \in Node, LoopStep(n) PROVE EpochsAhead'
  <2>1. CASE IncrementDurableEpoch(n)
    BY <2>1 DEF IncrementDurableEpoch, IncrementEpoch, Free
  <2>2. CASE AcquireLease(n)
    <3>1. ~Free'
      BY <2>2 DEF AcquireLease, LeaseOf, Free, NoLease, LeaseInv,
                  AttemptsHaveValues
    <3> QED
      BY <2>2, <3>1 DEF AcquireLease
  <2>3. CASE AcquireLeaseDenied(n)
    BY <2>3 DEF AcquireLeaseDenied, redisVars, Free
  <2>4. CASE BecomeLeader(n)
    <3>1. Claims(n) /\ ~Free /\ ~Free'
      BY <2>4, <1>00 DEF BecomeLeader, Claims, redisVars, Free
    <3>2. \A m \in Node : pc'[m] # "becomeLeader"
      BY <2>4, <3>1 DEF BecomeLeader, LeaseInv, ClaimsOwn, Claims
    <3> QED
      BY <2>4, <3>1, <3>2 DEF BecomeLeader, redisVars
  <2>5. CASE RenewLease(n)
    <3>1. ~Free
      BY <2>5 DEF RenewLease, Owns, Free, NoLease
    <3>2. ~Free'
      BY <2>5 DEF RenewLease, Owns, Renewed, Free, NoLease
    <3> QED
      BY <2>5, <3>1, <3>2 DEF RenewLease
  <2>6. CASE RenewLeaseDenied(n)
    BY <2>6 DEF RenewLeaseDenied, LeaseInv, ClaimsOwn, Claims
  <2>7. CASE IncrementDurableEpochFails(n)
    BY <2>7 DEF IncrementDurableEpochFails, IncrementEpoch, Free
  <2>8. CASE AcquireLeaseFails(n)
    <3>1. lease' = lease \/ (Free /\ ~Free')
      BY <2>8 DEF AcquireLeaseFails, LeaseOf, Free, NoLease, LeaseInv,
                  AttemptsHaveValues
    <3> QED
      BY <2>8, <3>1 DEF AcquireLeaseFails, Free
  <2> QED
    BY <1>1, <2>1, <2>2, <2>3, <2>4, <2>5, <2>6, <2>7, <2>8, UndisturbedStep
       DEF LoopStep
<1>2. ASSUME NEW n \in Node, JanitorStep(n) \/ Stop(n) PROVE EpochsAhead'
  <2>1. UNCHANGED <<lease, loopVars, terms, epoch>>
    <3>1. UNCHANGED epoch
      BY <1>2 DEF JanitorStep, GetDurableEpoch, JudgeLock, JanitorRelease,
                  JanitorFails, Stop, redisVars
    <3> QED
      BY <1>2, <3>1, UndisturbedStep
  <2> QED
    BY <2>1 DEF loopVars, Free
<1>6. ASSUME NEW n \in Node, CtxDone(n) PROVE EpochsAhead'
  <2>1. UNCHANGED epoch
    BY <1>6 DEF CtxDone
  <2> QED
    BY <1>6, <2>1, UndisturbedStep DEF Free
<1>3. ASSUME NEW n \in Node, Crash(n) PROVE EpochsAhead'
  BY <1>3 DEF Crash, redisVars, NoCtx, Free
<1>4. CASE Tick
  BY <1>4, UndisturbedStep DEF Tick, Ready
<1>5. CASE UNCHANGED vars
  BY <1>5 DEF vars, redisVars, loopVars, Free
<1> QED
  BY <1>1, <1>2, <1>3, <1>4, <1>5, <1>6, UndisturbedStep DEF Next

\* Until a leader is disturbed, every new term has a larger epoch than every
\* term before it: an attempt cannot outlive a competing term.
THEOREM FencingGrows == Spec => FencingMonotonic
<1>1. Init => EpochsAhead
  BY DEF Init, EpochsAhead, InFlight, NoCtx
<1>2. TypeOK /\ TypeOK' /\ (~disturbed => LeaseInv)
      /\ (~disturbed => EpochsAhead) /\ [Next]_vars
          => (~disturbed' => EpochsAhead')
  BY EpochsStep, UndisturbedStep
<1>3. TypeOK /\ (~disturbed => EpochsAhead) /\ [Next]_vars
          => [\A n \in Node :
                 ~disturbed /\ ~isLeader[n] /\ isLeader'[n]
                    => \A e \in terms : e < leaderCtx'[n].epoch]_vars
  <2> SUFFICES ASSUME TypeOK, EpochsAhead, [Next]_vars,
                      NEW n \in Node, ~isLeader[n], isLeader'[n],
                      NEW e \in terms
               PROVE  e < leaderCtx'[n].epoch
    OBVIOUS
  <2>1. BecomeLeader(n)
    <3>1. ASSUME NEW m \in Node, LoopStep(m) PROVE BecomeLeader(n)
      <4>1. CASE BecomeLeader(m)
        BY <4>1 DEF BecomeLeader, TypeOK
      <4>2. CASE RenewLeaseDenied(m) \/ RenewLeaseFails(m)
        BY <4>2 DEF RenewLeaseDenied, RenewLeaseFails, StepDown, TypeOK
      <4>3. CASE ~(\/ BecomeLeader(m)
                   \/ RenewLeaseDenied(m) \/ RenewLeaseFails(m))
        BY <3>1, <4>3 DEF LoopStep, IncrementDurableEpoch,
           IncrementDurableEpochFails, AcquireLease, AcquireLeaseDenied,
           AcquireLeaseFails, RenewLease
      <4> QED
        BY <4>1, <4>2, <4>3
    <3>2. ASSUME NEW m \in Node, JanitorStep(m) PROVE FALSE
      BY <3>2 DEF JanitorStep, GetDurableEpoch, JudgeLock, JanitorRelease,
         JanitorFails, loopVars
    <3>3. ASSUME NEW m \in Node, Crash(m) PROVE FALSE
      BY <3>3 DEF Crash, TypeOK
    <3>4. CASE Tick \/ Flush \/ UNCHANGED vars
      BY <3>4 DEF Tick, Flush, vars, loopVars
    <3>5. ASSUME NEW m \in Node, Stop(m) \/ CtxDone(m) PROVE FALSE
      BY <3>5 DEF Stop, CtxDone, loopVars
    <3> QED
      BY <3>1, <3>2, <3>3, <3>4, <3>5 DEF Next
  <2> QED
    BY <2>1 DEF BecomeLeader, EpochsAhead, TypeOK
<1> QED
  BY <1>1, <1>2, <1>3, TypeCorrect, LeaseInvariant, PTL
     DEF Spec, FencingMonotonic
=============================================================================
