------------------------- MODULE CircuitBreakerLoad -------------------------
(***************************************************************************)
(* The circuit breaker under a load that changes as it likes between       *)
(* calls, with the admissions and the successes reported since the circuit *)
(* opened counted.                                                         *)
(***************************************************************************)
EXTENDS CircuitBreaker

CONSTANTS
    Depths,      \* queue depths the scheduler may report
    Saturations  \* worker saturations it may report, in percent

ASSUME LoadAssumption == Depths \subseteq Nat /\ Saturations \subseteq Nat

VARIABLES
    depth, sat,  \* the load the next call will see
    trials,      \* history: admissions since the circuit last opened
    reported     \* history: successes reported since then, up to TestLimit

vars == <<cbVars, depth, sat, trials, reported>>

TypeOK ==
    /\ CBTypeOK
    /\ depth \in Depths
    /\ sat \in Saturations
    /\ trials \in Nat
    /\ reported \in 0..TestLimit

Init ==
    /\ CBInit
    /\ depth \in Depths
    /\ sat \in Saturations
    /\ trials = 0
    /\ reported = 0

\* The load changes between two calls.
LoadChanges ==
    /\ depth' \in Depths
    /\ sat' \in Saturations
    /\ UNCHANGED <<cbVars, trials, reported>>

Call(admitted) ==
    /\ ShouldAdmit(depth, sat, admitted)
    /\ trials' = IF circuit' = "closed" THEN 0
                 ELSE trials + (IF admitted THEN 1 ELSE 0)
    /\ reported' = IF circuit' = "open" THEN 0 ELSE reported
    /\ UNCHANGED <<depth, sat>>

Success ==
    /\ RecordSuccess
    /\ trials' = IF circuit' = "closed" THEN 0 ELSE trials
    /\ reported' = IF reported < TestLimit THEN reported + 1 ELSE reported
    /\ UNCHANGED <<depth, sat>>

Failure ==
    /\ RecordFailure
    /\ trials' = 0
    /\ reported' = 0
    /\ UNCHANGED <<depth, sat>>

CooldownElapses == Cooldown /\ UNCHANGED <<depth, sat, trials, reported>>

Next ==
    \/ \E admitted \in BOOLEAN : Call(admitted)
    \/ LoadChanges
    \/ CooldownElapses
    \/ Success
    \/ Failure

\* Submit keeps being called and time passes.  Nobody need report anything:
\* the scheduler never does.
Spec == Init /\ [][Next]_vars
             /\ WF_vars(\E admitted \in BOOLEAN : Call(admitted))
             /\ WF_vars(CooldownElapses)

-----------------------------------------------------------------------------
(* While the circuit is not closed, at most TestLimit requests get through *)
(* after it opened, however the load moves and however often it is asked:  *)
(* the half-open state is a bounded trial.                                 *)
TrialBounded == circuit # "closed" => trials <= TestLimit

(* The circuit closes only at the end of a complete trial, one in which    *)
(* TestLimit requests were admitted, whoever closes it: the request after  *)
(* the last of them, or a success reported late.                           *)
ClosesAfterTrial ==
    [][circuit # "closed" /\ circuit' = "closed"
          => circuit = "half_open" /\ testCount = TestLimit]_vars

(* Once the load stays below both thresholds (half of the depth, as the    *)
(* code has it) and no more failures are reported, the circuit closes and  *)
(* stays closed: it is not stuck half open or in an endless cooldown,      *)
(* wherever the calm finds it.                                             *)
Recovers ==
    <>[]Calm(depth, sat) /\ <>[][~Failure]_vars => <>[](circuit = "closed")

(* The circuit closes when TestLimit successes have been reported since it *)
(* opened: testLimit is the "Number of successes needed to close"          *)
(* (circuit_breaker.go:43).  ShouldAdmit closes it after as many           *)
(* admissions, whatever became of them.                                    *)
ClosesOnSuccesses ==
    [][circuit # "closed" /\ circuit' = "closed"
          => reported' = TestLimit]_vars
=============================================================================
