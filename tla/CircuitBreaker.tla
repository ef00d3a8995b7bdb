--------------------------- MODULE CircuitBreaker ---------------------------
(***************************************************************************)
(* The admission circuit breaker of scheduler/circuit_breaker.go.  The     *)
(* load it judges (queue depth, worker saturation in percent) is an input  *)
(* of ShouldAdmit; openedAt is kept as whether the cooldown has elapsed.   *)
(***************************************************************************)
EXTENDS Naturals

CONSTANTS
    QueueThreshold,  \* queue depth above which the circuit opens
    TestLimit        \* requests let through while half open

\* A threshold of 1 would make queueThreshold/2 zero, and no depth is below.
ASSUME BreakerAssumption ==
    /\ QueueThreshold \in Nat /\ QueueThreshold >= 2
    /\ TestLimit \in Nat \ {0}

VARIABLES
    circuit,    \* "closed", "open" or "half_open"
    testCount,
    cooled      \* the circuit is open and cooldownPeriod has elapsed

cbVars == <<circuit, testCount, cooled>>

SaturationThreshold == 95

CBTypeOK ==
    /\ circuit \in {"closed", "open", "half_open"}
    /\ testCount \in 0..TestLimit
    /\ cooled \in BOOLEAN

CBInit ==
    /\ circuit = "closed"
    /\ testCount = 0
    /\ cooled = FALSE

HalfOpenOnceThere == circuit = "half_open"
\* The state after the Open -> HalfOpen transition that begins ShouldAdmit.
HalfOpen == circuit = "half_open" \/ (circuit = "open" /\ cooled)

TestsKept == testCount
\* testCount = 0 on that transition.
Tests == IF circuit = "half_open" THEN testCount ELSE 0

Overloaded(depth, sat) ==
    depth > QueueThreshold \/ sat > SaturationThreshold

Calm(depth, sat) ==
    depth < QueueThreshold \div 2 /\ sat < SaturationThreshold

AdmitTest ==
    /\ HalfOpen
    /\ Tests < TestLimit
    /\ circuit' = "half_open"
    /\ testCount' = Tests + 1
    /\ cooled' = FALSE

AdmitAndClose(depth, sat) ==
    /\ HalfOpen
    /\ Tests >= TestLimit
    /\ Calm(depth, sat)
    /\ circuit' = "closed"
    /\ testCount' = Tests
    /\ cooled' = FALSE

RefuseRestartsTrial(depth, sat) ==
    /\ HalfOpen
    /\ Tests >= TestLimit
    /\ ~Calm(depth, sat)
    /\ circuit' = "half_open"
    /\ testCount' = 0
    /\ cooled' = FALSE
RefuseHalfOpen(depth, sat) ==
    /\ HalfOpen
    /\ Tests >= TestLimit
    /\ ~Calm(depth, sat)
    /\ circuit' = "half_open"
    /\ testCount' = Tests
    /\ cooled' = FALSE

\* openedAt is set again when the circuit was open already.
RefuseAndOpen(depth, sat) ==
    /\ ~HalfOpen
    /\ Overloaded(depth, sat)
    /\ circuit' = "open"
    /\ cooled' = FALSE
    /\ UNCHANGED testCount

\* ShouldAdmit, with its result.
ShouldAdmit(depth, sat, admitted) ==
    \/ AdmitTest /\ admitted
    \/ AdmitAndClose(depth, sat) /\ admitted
    \/ RefuseHalfOpen(depth, sat) /\ ~admitted
    \/ RefuseAndOpen(depth, sat) /\ ~admitted
    \/ /\ ~HalfOpen
       /\ ~Overloaded(depth, sat)
       /\ admitted <=> circuit = "closed"
       /\ UNCHANGED cbVars

\* time.Since(openedAt) exceeds cooldownPeriod.
Cooldown ==
    /\ circuit = "open"
    /\ ~cooled
    /\ cooled' = TRUE
    /\ UNCHANGED <<circuit, testCount>>

\* A success reported before the trial is complete changes nothing.
RecordSuccess ==
    /\ circuit = "half_open"
    /\ circuit' = IF testCount >= TestLimit THEN "closed" ELSE circuit
    /\ UNCHANGED <<testCount, cooled>>

RecordFailure ==
    /\ circuit = "half_open"
    /\ circuit' = "open"
    /\ testCount' = 0
    /\ cooled' = FALSE
=============================================================================
