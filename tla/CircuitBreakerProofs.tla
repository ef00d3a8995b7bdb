------------------------ MODULE CircuitBreakerProofs ------------------------
(***************************************************************************)
(* Theorems about the circuit breaker, for every threshold, every limit of *)
(* trial requests and every load.                                          *)
(***************************************************************************)
EXTENDS CircuitBreakerLoad, TLAPS

USE BreakerAssumption, LoadAssumption

\* The history counts what the breaker itself counts: nothing gets through
\* while the circuit is open, and half open testCount has seen every admission.
TrialInv ==
    /\ circuit \in {"closed", "open", "half_open"}
    /\ testCount \in 0..TestLimit
    /\ depth \in Depths /\ sat \in Saturations /\ trials \in Nat
    /\ reported \in 0..TestLimit
    /\ circuit \in {"closed", "open"} => trials = 0
    /\ circuit = "half_open" => trials = testCount

LEMMA TrialInit == Init => TrialInv
  BY DEF Init, CBInit, TrialInv

LEMMA TrialStep == TrialInv /\ [Next]_vars => TrialInv'
  <1> SUFFICES ASSUME TrialInv, [Next]_vars PROVE TrialInv'
    OBVIOUS
  <1> USE DEF TrialInv, cbVars
  <1>1. ASSUME NEW admitted \in BOOLEAN, Call(admitted) PROVE TrialInv'
    <2>0. /\ UNCHANGED <<depth, sat>>
          /\ trials' = IF circuit' = "closed" THEN 0
                       ELSE trials + (IF admitted THEN 1 ELSE 0)
          /\ reported' \in 0..TestLimit
      BY <1>1 DEF Call
    <2>1. CASE AdmitTest /\ admitted
      BY <2>0, <2>1 DEF AdmitTest, HalfOpen, Tests
    <2>2. CASE AdmitAndClose(depth, sat) /\ admitted
      BY <2>0, <2>2 DEF AdmitAndClose, HalfOpen, Tests
    <2>3. CASE RefuseHalfOpen(depth, sat) /\ ~admitted
      BY <2>0, <2>3 DEF RefuseHalfOpen, HalfOpen, Tests
    <2>4. CASE RefuseAndOpen(depth, sat) /\ ~admitted
      BY <2>0, <2>4 DEF RefuseAndOpen, HalfOpen
    <2>5. CASE /\ ~HalfOpen
               /\ admitted <=> circuit = "closed"
               /\ UNCHANGED cbVars
      <3>1. CASE circuit = "closed"
        BY <2>0, <2>5, <3>1
      <3>2. CASE circuit # "closed"
        <4>1. ~admitted
          BY <2>5, <3>2
        <4> QED
          BY <2>0, <2>5, <3>2, <4>1
      <3> QED
        BY <3>1, <3>2
    <2> QED
      BY <1>1, <2>1, <2>2, <2>3, <2>4, <2>5 DEF Call, ShouldAdmit
  <1>2. CASE LoadChanges
    BY <1>2 DEF LoadChanges
  <1>3. CASE CooldownElapses
    BY <1>3 DEF CooldownElapses, Cooldown
  <1>4. CASE Success
    BY <1>4 DEF Success, RecordSuccess
  <1>5. CASE Failure
    BY <1>5 DEF Failure, RecordFailure
  <1>6. CASE UNCHANGED vars
    BY <1>6 DEF vars
  <1> QED
    BY <1>1, <1>2, <1>3, <1>4, <1>5, <1>6 DEF Next

CooledInv == cooled \in BOOLEAN

LEMMA CooledStep == CooledInv /\ [Next]_vars => CooledInv'
  BY Zenon DEF CooledInv, Next, Call, ShouldAdmit, AdmitTest, AdmitAndClose,
               RefuseHalfOpen, RefuseAndOpen, LoadChanges, CooldownElapses, Cooldown, Success,
               RecordSuccess, Failure, RecordFailure, vars, cbVars

(* Type correctness: testCount never exceeds the limit.                    *)
THEOREM TypeCorrect == Spec => []TypeOK
  <1>1. Init => CooledInv
    BY Zenon DEF Init, CBInit, CooledInv
  <1>2. TrialInv /\ CooledInv => TypeOK
    BY Zenon DEF CooledInv, TrialInv, TypeOK, CBTypeOK
  <1> QED
    BY <1>1, <1>2, TrialInit, TrialStep, CooledStep, PTL DEF Spec

(* However the load moves, and whoever reports what, at most TestLimit     *)
(* requests get through between an opening and a closing of the circuit.   *)
THEOREM TrialsAreBounded == Spec => []TrialBounded
  <1>1. TrialInv => TrialBounded
    BY DEF TrialInv, TrialBounded
  <1> QED
    BY <1>1, TrialInit, TrialStep, PTL DEF Spec

(* Only the end of a complete trial closes the circuit.                    *)
THEOREM ClosingTakesATrial == Spec => ClosesAfterTrial
  <1>1. TrialInv /\ [Next]_vars =>
            [circuit # "closed" /\ circuit' = "closed"
                => circuit = "half_open" /\ testCount = TestLimit]_vars
    <2> SUFFICES ASSUME TrialInv, [Next]_vars,
                        circuit # "closed", circuit' = "closed"
                 PROVE  circuit = "half_open" /\ testCount = TestLimit
      OBVIOUS
    <2> USE DEF TrialInv, cbVars
    <2>1. ASSUME NEW admitted \in BOOLEAN, Call(admitted)
          PROVE  circuit = "half_open" /\ testCount = TestLimit
      BY <2>1 DEF Call, ShouldAdmit, AdmitTest, AdmitAndClose, RefuseHalfOpen,
                  RefuseAndOpen, HalfOpen, Tests
    <2>2. CASE Success
      BY <2>2 DEF Success, RecordSuccess
    <2>3. CASE LoadChanges \/ CooldownElapses \/ Failure \/ UNCHANGED vars
      BY <2>3 DEF LoadChanges, CooldownElapses, Cooldown, Failure,
                  RecordFailure, vars
    <2> QED
      BY <2>1, <2>2, <2>3 DEF Next
  <1> QED
    BY <1>1, TrialInit, TrialStep, PTL DEF Spec, ClosesAfterTrial
=============================================================================
