------------------------- MODULE IdempotencyProofs -------------------------
(***************************************************************************)
(* Theorems about Idempotency, for any number of requests with one key and *)
(* in every environment: type correctness, what a stored answer protects,  *)
(* what answers mean, and what the two-phase mechanism can reach.          *)
(***************************************************************************)
EXTENDS Idempotency, TLAPS

LockPC == {"check_lock", "recheck_lock", "wait_lock"}

\* One step of one request, as the proofs take it.
Step(r) ==
    \/ WrapperArrives(r) \/ WrapperStep(r)
    \/ TwoPhaseArrives(r) \/ TwoPhaseStep(r)

LEMMA NextSteps ==
    ASSUME [Next]_vars
    PROVE  \/ \E r \in Request : Step(r) \/ Disconnect(r)
           \/ ExpireRecord \/ ExpireResult \/ ExpireLock
           \/ \E S \in SUBSET InFlight : Crash(S)
           \/ UNCHANGED vars
  BY DEF Next, Step, Request

-----------------------------------------------------------------------------
(* Type correctness. *)

\* Beside its type, the answer a request is about to store is a response.
TypeInv ==
    /\ TypeOK
    /\ \A r \in Request : pc[r] = "set" => answer[r] \in Response
    /\ \A r \in Request :
          pc[r] = "store" => answer[r] = [by |-> r, code |-> "ok"]

PC == WrapperPC \cup TwoPhasePC \cup {"new", "done", "killed"}
Answer == Response \cup {None, Failed}

\* A step that moves one request to a place where it does not store.
LEMMA TypeMove ==
    ASSUME TypeInv, NEW r \in Request, NEW p \in PC \ {"set", "store"},
           Goto(r, p),
           \/ UNCHANGED answer
           \/ \E a \in Answer : answer' = [answer EXCEPT ![r] = a]
    PROVE  /\ pc' \in [Request -> PC]
           /\ answer' \in [Request -> Answer]
           /\ \A q \in Request : pc'[q] = "set" => answer'[q] \in Response
           /\ \A q \in Request :
                 pc'[q] = "store" => answer'[q] = [by |-> q, code |-> "ok"]
  BY DEF TypeInv, TypeOK, PC, Answer, Goto

LEMMA TypeStep == TypeInv /\ [Next]_vars => TypeInv'
  <1> SUFFICES ASSUME TypeInv, [Next]_vars PROVE TypeInv'
    OBVIOUS
  <1> USE DEF storeVars, history
  <1>0. /\ None \in Answer /\ Failed \in Answer
        /\ record \in Response \cup {None} /\ record \in Answer
        /\ result \in Answer
        /\ pc \in [Request -> PC] /\ answer \in [Request -> Answer]
    BY DEF TypeInv, TypeOK, PC, Answer, Response, Codes
  <1>1. ASSUME NEW r \in Request, WrapperArrives(r) \/ TwoPhaseArrives(r)
        PROVE  TypeInv'
    <2>1. (covered \cup {r}) \subseteq Request
      BY DEF TypeInv, TypeOK
    <2>2. \E p \in {"get", "check"} : Goto(r, p)
      BY <1>1 DEF WrapperArrives, TwoPhaseArrives
    <2> QED
      BY <1>1, <2>1, <2>2, TypeMove
      DEF WrapperArrives, TwoPhaseArrives, TypeInv, TypeOK, PC, Answer,
          WrapperPC, TwoPhasePC
  <1>2. ASSUME NEW r \in Request, GetHit(r) \/ GetMiss(r) \/ GetFails(r)
        PROVE  TypeInv'
    <2>1. \E p \in {"done", "run"} : Goto(r, p)
      BY <1>2 DEF GetHit, GetMiss, GetFails, Return
    <2>2. \/ UNCHANGED answer
          \/ \E a \in Answer : answer' = [answer EXCEPT ![r] = a]
      BY <1>0, <1>2 DEF GetHit, GetMiss, GetFails, Return
    <2>3. UNCHANGED <<storeVars, gone, ran, lockExpired>>
          /\ covered' \subseteq Request
      BY <1>2 DEF GetHit, GetMiss, GetFails, TypeInv, TypeOK
    <2> QED
      BY <2>1, <2>2, <2>3, TypeMove
      DEF TypeInv, TypeOK, PC, Answer, WrapperPC, TwoPhasePC
  <1>3. ASSUME NEW r \in Request, NEW code \in Codes,
               Handle(r, code)
        PROVE  TypeInv'
    <2>1. [by |-> r, code |-> code] \in Response
      BY DEF Response
    <2>2. /\ pc' = [pc EXCEPT ![r] = "set"]
          /\ answer' = [answer EXCEPT ![r] = [by |-> r, code |-> code]]
          /\ UNCHANGED <<storeVars, gone, covered, lockExpired>>
          /\ ran' \subseteq Request
      BY <1>3 DEF Handle, Goto, TypeInv, TypeOK
    <2> QED
      BY <2>1, <2>2 DEF TypeInv, TypeOK, WrapperPC, TwoPhasePC
  <1>4. ASSUME NEW r \in Request, Set(r) \/ SetFails(r) PROVE TypeInv'
    <2>1. Goto(r, "done") /\ UNCHANGED answer
      BY <1>4 DEF Set, SetFails
    <2>2. record' \in Response \cup {None}
      BY <1>4 DEF Set, SetFails, TypeInv, TypeOK
    <2>3. UNCHANGED <<backend, lock, result, gone, history>>
      BY <1>4 DEF Set, SetFails
    <2> QED
      BY <2>1, <2>2, <2>3, TypeMove DEF TypeInv, TypeOK, PC, Answer
  <1>5. ASSUME NEW r \in Request,
               ResultFound(r) \/ NoResult(r) \/ NoLock(r) \/ LockFound(r)
                  \/ ReadFails(r) \/ WaitDeadline(r)
        PROVE  TypeInv'
    <2>1. \E p \in PC \ {"set", "store"} : Goto(r, p)
      BY <1>5 DEF ResultFound, NoResult, NoLock, LockFound, ReadFails, WaitDeadline, Return,
                  ReadsResult, ReadsLock, PC, WrapperPC, TwoPhasePC
    <2>2. \/ UNCHANGED answer
          \/ \E a \in Answer : answer' = [answer EXCEPT ![r] = a]
      BY <1>0, <1>5
      DEF ResultFound, NoResult, NoLock, LockFound, ReadFails, WaitDeadline, Return
    <2>3. UNCHANGED <<storeVars, gone, history>>
      BY <1>5 DEF ResultFound, NoResult, NoLock, LockFound, ReadFails, WaitDeadline
    <2> QED
      BY <2>1, <2>2, <2>3, TypeMove DEF TypeInv, TypeOK, PC, Answer
  <1>6. ASSUME NEW r \in Request, AcquireLock(r) \/ AcquireLockFails(r)
        PROVE  TypeInv'
    <2>1. \E p \in PC \ {"set", "store"} : Goto(r, p)
      BY <1>6 DEF AcquireLock, AcquireLockFails, Return, PC, WrapperPC,
                  TwoPhasePC
    <2>2. \/ UNCHANGED answer
          \/ \E a \in Answer : answer' = [answer EXCEPT ![r] = a]
      BY <1>0, <1>6 DEF AcquireLock, AcquireLockFails, Return
    <2>3. lock' \in BOOLEAN
      BY <1>6 DEF AcquireLock, AcquireLockFails, TypeInv, TypeOK
    <2>4. UNCHANGED <<backend, record, result, gone, history>>
      BY <1>6 DEF AcquireLock, AcquireLockFails
    <2> QED
      BY <2>1, <2>2, <2>3, <2>4, TypeMove DEF TypeInv, TypeOK, PC, Answer
  <1>7. ASSUME NEW r \in Request, Execute(r) PROVE TypeInv'
    <2>1. CASE /\ Goto(r, "store")
               /\ answer' = [answer EXCEPT ![r] = [by |-> r, code |-> "ok"]]
               /\ ran' = ran \cup {r}
               /\ UNCHANGED <<storeVars, gone, covered, lockExpired>>
      <3>1. [by |-> r, code |-> "ok"] \in Response
        BY DEF Response, Codes
      <3> QED
        BY <2>1, <3>1 DEF TypeInv, TypeOK, Goto, WrapperPC, TwoPhasePC
    <2>2. CASE /\ Goto(r, "release")
               /\ answer' = [answer EXCEPT ![r] = Failed]
               /\ ran' \in {ran, ran \cup {r}}
               /\ UNCHANGED <<storeVars, gone, covered, lockExpired>>
      <3>1. "release" \in PC \ {"set", "store"}
        BY DEF PC, TwoPhasePC
      <3> QED
        BY <1>0, <2>2, <3>1, TypeMove DEF TypeInv, TypeOK, PC, Answer
    <2> QED
      BY <1>7, <2>1, <2>2 DEF Execute
  <1>8. ASSUME NEW r \in Request,
               StoreIdempotencyResult(r) \/ StoreIdempotencyResultFails(r)
        PROVE  TypeInv'
    <2>1. \E p \in {"release", "done"} : Goto(r, p)
      BY <1>8 DEF StoreIdempotencyResult, StoreIdempotencyResultFails
    <2>2. result' \in [by : Request, code : {"ok"}] \cup {None}
      <3>1. answer[r] \in [by : Request, code : {"ok"}]
        <4>1. pc[r] = "store"
          BY <1>8 DEF StoreIdempotencyResult, StoreIdempotencyResultFails
        <4>2. answer[r] = [by |-> r, code |-> "ok"]
          BY <4>1 DEF TypeInv
        <4> QED
          BY <4>2
      <3> QED
        BY <1>8, <3>1 DEF StoreIdempotencyResult, StoreIdempotencyResultFails,
                          TypeInv, TypeOK
    <2>3. UNCHANGED <<backend, record, lock, answer, gone, history>>
      BY <1>8 DEF StoreIdempotencyResult, StoreIdempotencyResultFails
    <2> QED
      BY <2>1, <2>2, <2>3, TypeMove
      DEF TypeInv, TypeOK, PC, Answer, TwoPhasePC
  <1>9. ASSUME NEW r \in Request, ReleaseLock(r) PROVE TypeInv'
    <2>1. Goto(r, "done") /\ UNCHANGED answer /\ lock' \in BOOLEAN
      BY <1>9 DEF ReleaseLock, TypeInv, TypeOK
    <2>2. UNCHANGED <<backend, record, result, gone, history>>
      BY <1>9 DEF ReleaseLock
    <2> QED
      BY <2>1, <2>2, TypeMove DEF TypeInv, TypeOK, PC, Answer
  <1>10. ASSUME NEW r \in Request, Disconnect(r) PROVE TypeInv'
    BY <1>10 DEF Disconnect, TypeInv, TypeOK
  <1>11. CASE ExpireRecord \/ ExpireResult \/ ExpireLock
    BY <1>11 DEF ExpireRecord, ExpireResult, ExpireLock, Uncover, TypeInv, TypeOK
  <1>12. ASSUME NEW S \in SUBSET InFlight, Crash(S) PROVE TypeInv'
    <2>1. pc' = [r \in Request |-> IF r \in S THEN "killed" ELSE pc[r]]
      BY <1>12 DEF Crash
    <2>2. /\ pc' \in [Request -> WrapperPC \cup TwoPhasePC
                                  \cup {"new", "done", "killed"}]
          /\ \A r \in Request : pc'[r] \in {"set", "store"} => pc'[r] = pc[r]
      BY <2>1 DEF TypeInv, TypeOK
    <2> QED
      BY <1>12, <2>2 DEF Crash, TypeInv, TypeOK
  <1>13. CASE UNCHANGED vars
    BY <1>13 DEF vars, TypeInv, TypeOK
  <1>14. ASSUME NEW r \in Request, Step(r) PROVE TypeInv'
    BY <1>14, <1>1, <1>2, <1>3, <1>4, <1>5, <1>6, <1>7, <1>8, <1>9
    DEF Step, WrapperStep, TwoPhaseStep
  <1> QED
    BY <1>10, <1>11, <1>12, <1>13, <1>14, NextSteps

LEMMA TypeInit == Init => TypeInv
  BY DEF Init, TypeInv, TypeOK

(* Every action keeps every variable in its type; in particular, the       *)
(* two-phase mechanism stores successes only.                              *)
THEOREM TypeCorrect == Spec => []TypeOK
  <1>1. TypeInv => TypeOK
    BY DEF TypeInv
  <1> QED
    BY <1>1, TypeInit, TypeStep, PTL DEF Spec

-----------------------------------------------------------------------------
(* Where a request is after its operation took effect. *)

Past == {"set", "store", "release", "done", "killed"}

RanInv == \A r \in ran : pc[r] \in Past

\* Every step of a request moves that request, and only it, away from a place
\* where it has not run its operation, or from one past it to another.
LEMMA RanStep == TypeInv /\ RanInv /\ [Next]_vars => RanInv'
  <1> SUFFICES ASSUME TypeInv, RanInv, [Next]_vars PROVE RanInv'
    OBVIOUS
  <1> USE DEF storeVars, history
  <1>0. pc \in [Request -> PC] /\ ran \subseteq Request
    BY DEF TypeInv, TypeOK, PC
  <1>1. ASSUME NEW r \in Request, NEW p, Goto(r, p),
               \/ pc[r] \notin Past /\ ran' = ran
               \/ p \in Past /\ ran' \in {ran, ran \cup {r}}
        PROVE  RanInv'
    BY <1>0, <1>1 DEF RanInv, Goto
  <1>2. ASSUME NEW r \in Request, WrapperArrives(r) \/ TwoPhaseArrives(r)
        PROVE  RanInv'
    <2>1. pc[r] \notin Past /\ ran' = ran
      BY <1>2 DEF WrapperArrives, TwoPhaseArrives, Past
    <2>2. Goto(r, "get") \/ Goto(r, "check")
      BY <1>2 DEF WrapperArrives, TwoPhaseArrives
    <2> QED
      BY <1>1, <2>1, <2>2
  <1>3. ASSUME NEW r \in Request, WrapperStep(r) PROVE RanInv'
    <2>1. CASE GetHit(r) \/ GetMiss(r) \/ GetFails(r)
      <3>1. pc[r] \notin Past /\ ran' = ran
        BY <2>1 DEF GetHit, GetMiss, GetFails, Past
      <3>2. Goto(r, "done") \/ Goto(r, "run")
        BY <2>1 DEF GetHit, GetMiss, GetFails, Return
      <3> QED
        BY <1>1, <3>1, <3>2
    <2>2. ASSUME NEW code \in Codes, Handle(r, code) PROVE RanInv'
      <3>1. "set" \in Past
        BY DEF Past
      <3> QED
        BY <1>1, <2>2, <3>1 DEF Handle
    <2>3. CASE Set(r) \/ SetFails(r)
      <3>1. "done" \in Past
        BY DEF Past
      <3> QED
        BY <1>1, <2>3, <3>1 DEF Set, SetFails
    <2> QED
      BY <1>3, <2>1, <2>2, <2>3 DEF WrapperStep
  <1>4. ASSUME NEW r \in Request, TwoPhaseStep(r) PROVE RanInv'
    <2>0. "store" \in Past /\ "release" \in Past /\ "done" \in Past
      BY DEF Past
    <2>1. CASE ResultFound(r) \/ NoResult(r) \/ NoLock(r) \/ LockFound(r)
                  \/ ReadFails(r) \/ WaitDeadline(r) \/ AcquireLock(r) \/ AcquireLockFails(r)
      <3>1. pc[r] \notin Past /\ ran' = ran
        BY <2>1 DEF ResultFound, NoResult, NoLock, LockFound, ReadFails, WaitDeadline,
                    AcquireLock, AcquireLockFails, ReadsResult, Past
      <3>2. \E p : Goto(r, p)
        BY <2>1 DEF ResultFound, NoResult, NoLock, LockFound, ReadFails, WaitDeadline,
                    AcquireLock, AcquireLockFails, Return
      <3> QED
        BY <1>1, <3>1, <3>2
    <2>2. CASE Execute(r)
      <3>1. \E p \in Past : Goto(r, p) /\ ran' \in {ran, ran \cup {r}}
        BY <2>0, <2>2 DEF Execute
      <3> QED
        BY <1>1, <3>1
    <2>3. CASE StoreIdempotencyResult(r) \/ StoreIdempotencyResultFails(r)
                  \/ ReleaseLock(r)
      <3>1. \E p \in Past : Goto(r, p) /\ ran' = ran
        BY <2>0, <2>3 DEF StoreIdempotencyResult, StoreIdempotencyResultFails,
                          ReleaseLock
      <3> QED
        BY <1>1, <3>1
    <2> QED
      BY <1>4, <2>1, <2>2, <2>3 DEF TwoPhaseStep
  <1>5. ASSUME pc' = pc, ran' = ran PROVE RanInv'
    BY <1>5 DEF RanInv
  <1>6. ASSUME NEW r \in Request, Disconnect(r) PROVE RanInv'
    BY <1>5, <1>6 DEF Disconnect
  <1>7. CASE ExpireRecord \/ ExpireResult \/ ExpireLock \/ UNCHANGED vars
    BY <1>5, <1>7 DEF ExpireRecord, ExpireResult, ExpireLock, vars
  <1>8. ASSUME NEW S \in SUBSET InFlight, Crash(S) PROVE RanInv'
    BY <1>0, <1>8 DEF Crash, RanInv, Past
  <1>9. ASSUME NEW r \in Request, Step(r) PROVE RanInv'
    BY <1>9, <1>2, <1>3, <1>4 DEF Step
  <1> QED
    BY <1>6, <1>7, <1>8, <1>9, NextSteps

LEMMA RanInit == Init => RanInv
  BY DEF Init, RanInv

-----------------------------------------------------------------------------
(* A stored answer protects the requests that come after it. *)

\* A request that came when an answer was stored has not run its operation, and
\* it is either still about to find the answer or at its end.
CoverInv ==
    \A r \in covered :
        /\ r \notin ran
        /\ \/ pc[r] = "get" /\ record # None
           \/ pc[r] = "check" /\ result # None
           \/ pc[r] \in {"done", "killed"}

LEMMA CoverStep == TypeInv /\ RanInv /\ CoverInv /\ [Next]_vars => CoverInv'
  <1> SUFFICES ASSUME TypeInv, RanInv, CoverInv, [Next]_vars PROVE CoverInv'
    OBVIOUS
  <1> USE DEF storeVars, history
  <1>0. /\ pc \in [Request -> PC]
        /\ ran \subseteq Request /\ covered \subseteq Request
    BY DEF TypeInv, TypeOK, PC
  <1>1. \A r \in Request : pc[r] \in {"set", "store"} => answer[r] # None
    <2>1. None \notin Response /\ \A r \in Request : None # [by |-> r, code |-> "ok"]
      BY DEF None, Response, Codes
    <2> QED
      BY <2>1 DEF TypeInv
  \* Steps of a request that is not covered, or reaches its end.
  <1>2. ASSUME NEW r \in Request, NEW p, Goto(r, p),
               r \notin covered \/ p = "done",
               covered' \subseteq covered,
               ran' \in {ran, ran \cup {r}}, r \in covered => ran' = ran,
               record # None => record' # None,
               result # None => result' # None
        PROVE  CoverInv'
    <2> SUFFICES ASSUME NEW q \in covered'
                 PROVE  /\ q \notin ran'
                        /\ \/ pc'[q] = "get" /\ record' # None
                           \/ pc'[q] = "check" /\ result' # None
                           \/ pc'[q] \in {"done", "killed"}
      BY DEF CoverInv
    <2>1. q \in covered /\ q \in Request
      BY <1>0, <1>2
    <2>2. CASE q = r
      BY <1>0, <1>2, <2>1, <2>2 DEF CoverInv, Goto
    <2>3. CASE q # r
      <3>1. pc'[q] = pc[q]
        BY <1>0, <1>2, <2>1, <2>3 DEF Goto
      <3> QED
        BY <1>2, <2>1, <2>3, <3>1 DEF CoverInv
    <2> QED
      BY <2>2, <2>3
  <1>3. ASSUME NEW r \in Request, WrapperArrives(r) PROVE CoverInv'
    <2>1. pc[r] = "new" /\ pc' = [pc EXCEPT ![r] = "get"]
      BY <1>3 DEF WrapperArrives, Goto
    <2>2. r \notin ran /\ r \notin covered
      BY <2>1 DEF RanInv, Past, CoverInv
    <2>3. /\ covered' = IF record # None THEN covered \cup {r} ELSE covered
          /\ UNCHANGED <<record, result, ran>>
      BY <1>3 DEF WrapperArrives
    <2> QED
      BY <1>0, <2>1, <2>2, <2>3 DEF CoverInv
  <1>4. ASSUME NEW r \in Request, TwoPhaseArrives(r) PROVE CoverInv'
    <2>1. pc[r] = "new" /\ pc' = [pc EXCEPT ![r] = "check"]
      BY <1>4 DEF TwoPhaseArrives, Goto
    <2>2. r \notin ran /\ r \notin covered
      BY <2>1 DEF RanInv, Past, CoverInv
    <2>3. /\ covered' = IF result # None THEN covered \cup {r} ELSE covered
          /\ UNCHANGED <<record, result, ran>>
      BY <1>4 DEF TwoPhaseArrives
    <2> QED
      BY <1>0, <2>1, <2>2, <2>3 DEF CoverInv
  <1>5. ASSUME NEW r \in Request, GetHit(r) PROVE CoverInv'
    BY <1>2, <1>5 DEF GetHit, Return
  <1>6. ASSUME NEW r \in Request, GetMiss(r) PROVE CoverInv'
    <2>1. r \notin covered
      BY <1>6 DEF GetMiss, Replayable, CoverInv
    <2> QED
      BY <1>2, <1>6, <2>1 DEF GetMiss
  <1>7. ASSUME NEW r \in Request, GetFails(r) PROVE CoverInv'
    <2>1. /\ pc' = [pc EXCEPT ![r] = "run"]
          /\ covered' = covered \ {r}
          /\ UNCHANGED <<record, result, ran>>
      BY <1>7 DEF GetFails, Goto
    <2> QED
      BY <1>0, <2>1 DEF CoverInv
  <1>8. ASSUME NEW r \in Request, NEW code \in Codes,
               Handle(r, code)
        PROVE  CoverInv'
    <2>1. r \notin covered
      BY <1>8 DEF Handle, CoverInv
    <2> QED
      BY <1>2, <1>8, <2>1 DEF Handle
  <1>9. ASSUME NEW r \in Request, Set(r) \/ SetFails(r) PROVE CoverInv'
    <2>1. record # None => record' # None
      BY <1>1, <1>9 DEF Set, SetFails
    <2>2. Goto(r, "done") /\ UNCHANGED <<result, ran, covered>>
      BY <1>9 DEF Set, SetFails
    <2> QED
      BY <1>2, <2>1, <2>2
  <1>10. ASSUME NEW r \in Request,
                ResultFound(r) \/ ReadFails(r) \/ WaitDeadline(r)
         PROVE  CoverInv'
    <2>1. pc[r] \in {"check", "recheck", "wait"} \cup LockPC
      BY <1>10 DEF ResultFound, ReadFails, WaitDeadline, ReadsResult, LockPC
    <2>2. r \in covered => pc[r] = "check"
      BY <2>1 DEF CoverInv, LockPC
    <2>3. \E p : Goto(r, p) /\ (r \notin covered \/ p = "done")
      BY <1>10, <2>2 DEF ResultFound, ReadFails, WaitDeadline, Return
    <2>4. UNCHANGED <<record, result, ran, covered>>
      BY <1>10 DEF ResultFound, ReadFails, WaitDeadline
    <2> QED
      BY <1>2, <2>3, <2>4
  <1>11. ASSUME NEW r \in Request,
                NoResult(r) \/ NoLock(r) \/ LockFound(r)
                   \/ AcquireLock(r) \/ AcquireLockFails(r)
         PROVE  CoverInv'
    <2>1. r \notin covered
      BY <1>11 DEF NoResult, NoLock, LockFound, AcquireLock, AcquireLockFails,
                   ReadsResult, CoverInv
    <2>2. \E p : Goto(r, p)
      BY <1>11 DEF NoResult, NoLock, LockFound, AcquireLock, AcquireLockFails,
                   Return
    <2>3. UNCHANGED <<record, result, ran, covered>>
      BY <1>11 DEF NoResult, NoLock, LockFound, AcquireLock, AcquireLockFails
    <2> QED
      BY <1>2, <2>1, <2>2, <2>3
  <1>12. ASSUME NEW r \in Request, Execute(r) PROVE CoverInv'
    <2>1. r \notin covered
      BY <1>12 DEF Execute, CoverInv
    <2>2. \E p : Goto(r, p)
      BY <1>12 DEF Execute
    <2>3. ran' \in {ran, ran \cup {r}} /\ UNCHANGED <<record, result, covered>>
      BY <1>12 DEF Execute
    <2> QED
      BY <1>2, <2>1, <2>2, <2>3
  <1>13. ASSUME NEW r \in Request,
                StoreIdempotencyResult(r) \/ StoreIdempotencyResultFails(r)
                   \/ ReleaseLock(r)
         PROVE  CoverInv'
    <2>1. r \notin covered
      BY <1>13 DEF StoreIdempotencyResult, StoreIdempotencyResultFails,
                   ReleaseLock, CoverInv
    <2>2. \E p : Goto(r, p)
      BY <1>13 DEF StoreIdempotencyResult, StoreIdempotencyResultFails,
                   ReleaseLock
    <2>3. result # None => result' # None
      BY <1>1, <1>13 DEF StoreIdempotencyResult, StoreIdempotencyResultFails,
                         ReleaseLock
    <2>4. UNCHANGED <<record, ran, covered>>
      BY <1>13 DEF StoreIdempotencyResult, StoreIdempotencyResultFails,
                   ReleaseLock
    <2> QED
      BY <1>2, <2>1, <2>2, <2>3, <2>4
  <1>14. ASSUME NEW r \in Request, Disconnect(r) PROVE CoverInv'
    BY <1>14 DEF Disconnect, CoverInv
  <1>15. CASE ExpireRecord
    <2>1. /\ covered' = covered \ {r \in Request : pc[r] \in WrapperPC}
          /\ UNCHANGED <<result, pc, ran>>
      BY <1>15 DEF ExpireRecord, Uncover
    <2>2. \A r \in covered' : pc[r] # "get"
      BY <1>0, <2>1 DEF WrapperPC
    <2> QED
      BY <2>1, <2>2 DEF CoverInv
  <1>16. CASE ExpireResult
    <2>1. /\ covered' = covered \ {r \in Request : pc[r] \in TwoPhasePC}
          /\ UNCHANGED <<record, pc, ran>>
      BY <1>16 DEF ExpireResult, Uncover
    <2>2. \A r \in covered' : pc[r] # "check"
      BY <1>0, <2>1 DEF TwoPhasePC
    <2> QED
      BY <2>1, <2>2 DEF CoverInv
  <1>17. CASE ExpireLock \/ UNCHANGED vars
    BY <1>17 DEF ExpireLock, vars, CoverInv
  <1>18. ASSUME NEW S \in SUBSET InFlight, Crash(S) PROVE CoverInv'
    <2>1. /\ pc' = [r \in Request |-> IF r \in S THEN "killed" ELSE pc[r]]
          /\ UNCHANGED <<result, ran, covered>>
          /\ record' # record => S = InFlight
      BY <1>18 DEF Crash
    <2> SUFFICES ASSUME NEW r \in covered
                 PROVE  /\ r \notin ran
                        /\ \/ pc'[r] = "get" /\ record' # None
                           \/ pc'[r] = "check" /\ result # None
                           \/ pc'[r] \in {"done", "killed"}
      BY <2>1 DEF CoverInv
    <2>2. r \in Request /\ pc'[r] = IF r \in S THEN "killed" ELSE pc[r]
      BY <1>0, <2>1
    <2>3. pc[r] = "get" /\ record' # record => r \in S
      BY <2>1, <2>2 DEF InFlight, WrapperPC
    <2> QED
      BY <2>2, <2>3 DEF CoverInv
  <1>19. ASSUME NEW r \in Request, Step(r) PROVE CoverInv'
    BY <1>19, <1>3, <1>4, <1>5, <1>6, <1>7, <1>8, <1>9, <1>10, <1>11, <1>12,
       <1>13
    DEF Step, WrapperStep, TwoPhaseStep
  <1> QED
    BY <1>14, <1>15, <1>16, <1>17, <1>18, <1>19, NextSteps

LEMMA CoverInit == Init => CoverInv
  BY DEF Init, CoverInv

(* A request that comes when its key has an answer does not run its        *)
(* operation again while the answer lasts and can be read, however many    *)
(* duplicates, failures and crashes there are beside it.                   *)
THEOREM RepeatsDoNotRerun == Spec => []RepeatNotRerun
  <1> DEFINE Inv == TypeInv /\ RanInv /\ CoverInv
  <1>1. Init => Inv
    BY TypeInit, RanInit, CoverInit
  <1>2. Inv /\ [Next]_vars => Inv'
    BY TypeStep, RanStep, CoverStep
  <1>3. Inv => RepeatNotRerun
    BY DEF CoverInv, RepeatNotRerun
  <1> HIDE DEF Inv
  <1> QED
    BY <1>1, <1>2, <1>3, PTL DEF Spec

-----------------------------------------------------------------------------
(* Answers tell what happened. *)

Settled == {"set", "done", "killed"}

\* An answer is true of the operations in done and the places in at: a refused
\* request is past its operation, so that it cannot come true later.
True(a, done, at) ==
    /\ a.code = "ok" => a.by \in done
    /\ a.code = "refused" => /\ a.by \in Request \ done
                             /\ at[a.by] \in Settled

TruthInv ==
    /\ True(record, ran, pc)
    /\ True(result, ran, pc)
    /\ \A r \in Request : True(answer[r], ran, pc)

\* What answers exist already.
Old == {record, result, None, Failed} \cup {answer[r] : r \in Request}

\* No operation is undone, and a settled request stays as it is.
Progress ==
    /\ ran \subseteq ran'
    /\ \A r \in Request :
          pc[r] \in Settled => /\ pc'[r] \in Settled
                               /\ r \in ran' => r \in ran

LEMMA OldStaysTrue ==
    ASSUME TruthInv, Progress, NEW a \in Old
    PROVE  True(a, ran', pc')
  <1>1. True(a, ran, pc)
    <2>1. True(None, ran, pc) /\ True(Failed, ran, pc)
      BY DEF True, None, Failed
    <2> QED
      BY <2>1 DEF TruthInv, Old
  <1> QED
    BY <1>1 DEF True, Progress

LEMMA TruthFrame ==
    ASSUME TruthInv, Progress, record' \in Old, result' \in Old,
           \A r \in Request : \/ answer'[r] \in Old
                              \/ True(answer'[r], ran', pc')
    PROVE  TruthInv'
  BY OldStaysTrue DEF TruthInv

\* A request that is not settled moves: the others stay where they are.
LEMMA MoveProgress ==
    ASSUME TypeInv, NEW r \in Request, NEW p, Goto(r, p),
           pc[r] \notin Settled \/ (p \in Settled /\ ran' = ran),
           ran' \in {ran, ran \cup {r}}
    PROVE  Progress
  <1>1. pc \in [Request -> PC]
    BY DEF TypeInv, TypeOK, PC
  <1> QED
    BY <1>1 DEF Goto, Progress

LEMMA TruthStep == TypeInv /\ TruthInv /\ RanInv /\ [Next]_vars => TruthInv'
  <1> SUFFICES ASSUME TypeInv, TruthInv, RanInv, [Next]_vars PROVE TruthInv'
    OBVIOUS
  <1> USE DEF storeVars, history
  <1>0. /\ pc \in [Request -> PC] /\ answer \in [Request -> Answer]
        /\ ran \subseteq Request
    BY DEF TypeInv, TypeOK, PC, Answer
  <1>1. /\ record \in Old /\ result \in Old /\ None \in Old /\ Failed \in Old
        /\ \A r \in Request : answer[r] \in Old
    BY DEF Old
  <1>2. ASSUME NEW r \in Request, NEW a \in Old,
               answer' = answer \/ answer' = [answer EXCEPT ![r] = a]
        PROVE  \A q \in Request : answer'[q] \in Old
    BY <1>0, <1>1, <1>2
  <1>3. ASSUME NEW r \in Request, WrapperArrives(r) \/ TwoPhaseArrives(r)
        PROVE  TruthInv'
    <2>1. \E p : Goto(r, p) /\ pc[r] \notin Settled
      BY <1>3 DEF WrapperArrives, TwoPhaseArrives, Settled
    <2>2. UNCHANGED <<record, result, answer, ran>>
      BY <1>3 DEF WrapperArrives, TwoPhaseArrives
    <2> QED
      BY <1>1, <2>1, <2>2, MoveProgress, TruthFrame
  <1>4. ASSUME NEW r \in Request, GetHit(r) \/ GetMiss(r) \/ GetFails(r)
        PROVE  TruthInv'
    <2>1. \E p : Goto(r, p) /\ pc[r] \notin Settled
      BY <1>4 DEF GetHit, GetMiss, GetFails, Return, Settled
    <2>2. UNCHANGED <<record, result, ran>>
      BY <1>4 DEF GetHit, GetMiss, GetFails
    <2>3. \A q \in Request : answer'[q] \in Old
      BY <1>1, <1>2, <1>4 DEF GetHit, GetMiss, GetFails, Return
    <2> QED
      BY <1>1, <2>1, <2>2, <2>3, MoveProgress, TruthFrame
  <1>5. ASSUME NEW r \in Request, NEW code \in Codes,
               Handle(r, code)
        PROVE  TruthInv'
    <2>1. /\ Goto(r, "set") /\ pc[r] = "run" /\ pc[r] \notin Settled
          /\ ran' \in {ran, ran \cup {r}}
      BY <1>5 DEF Handle, Settled
    <2>2. UNCHANGED <<record, result>>
      BY <1>5 DEF Handle
    <2>3. /\ answer'[r] = [by |-> r, code |-> code]
          /\ \A q \in Request \ {r} : answer'[q] \in Old
      BY <1>0, <1>1, <1>5 DEF Handle
    <2>4. r \notin ran /\ pc'[r] \in Settled
      BY <1>0, <2>1 DEF RanInv, Past, Goto, Settled
    <2>5. True(answer'[r], ran', pc')
      BY <1>5, <2>3, <2>4 DEF Handle, True
    <2>6. Progress
      BY <2>1, MoveProgress
    <2> QED
      BY <1>1, <2>2, <2>3, <2>5, <2>6, TruthFrame
  <1>6. ASSUME NEW r \in Request, Set(r) \/ SetFails(r) PROVE TruthInv'
    <2>1. Goto(r, "done") /\ "done" \in Settled
      BY <1>6 DEF Set, SetFails, Settled
    <2>2. record' \in Old
      BY <1>1, <1>6 DEF Set, SetFails
    <2>3. UNCHANGED <<result, answer, ran>>
      BY <1>6 DEF Set, SetFails
    <2> QED
      BY <1>1, <2>1, <2>2, <2>3, MoveProgress, TruthFrame
  <1>7. ASSUME NEW r \in Request,
               ResultFound(r) \/ NoResult(r) \/ NoLock(r) \/ LockFound(r)
                  \/ ReadFails(r) \/ WaitDeadline(r) \/ AcquireLock(r) \/ AcquireLockFails(r)
        PROVE  TruthInv'
    <2>1. \E p : Goto(r, p)
      BY <1>7 DEF ResultFound, NoResult, NoLock, LockFound, ReadFails, WaitDeadline,
                  AcquireLock, AcquireLockFails, Return
    <2>2. pc[r] \notin Settled
      BY <1>7 DEF ResultFound, NoResult, NoLock, LockFound, ReadFails, WaitDeadline,
                  AcquireLock, AcquireLockFails, ReadsResult, Settled
    <2>3. UNCHANGED <<record, result, ran>>
      BY <1>7 DEF ResultFound, NoResult, NoLock, LockFound, ReadFails, WaitDeadline,
                  AcquireLock, AcquireLockFails
    <2>4. \A q \in Request : answer'[q] \in Old
      BY <1>1, <1>2, <1>7
      DEF ResultFound, NoResult, NoLock, LockFound, ReadFails, WaitDeadline, AcquireLock,
          AcquireLockFails, Return
    <2>5. Progress
      BY <2>1, <2>2, <2>3, MoveProgress
    <2> QED
      BY <1>1, <2>3, <2>4, <2>5, TruthFrame
  <1>8. ASSUME NEW r \in Request, Execute(r) PROVE TruthInv'
    <2>1. \E p : Goto(r, p) /\ pc[r] \notin Settled
      BY <1>8 DEF Execute, Settled
    <2>2. /\ ran' \in {ran, ran \cup {r}}
          /\ UNCHANGED <<record, result>>
      BY <1>8 DEF Execute
    <2>3. \A q \in Request \ {r} : answer'[q] \in Old
      BY <1>0, <1>1, <1>8 DEF Execute
    <2>4. answer'[r] \in Old \/ True(answer'[r], ran', pc')
      <3>1. \/ answer'[r] = Failed
            \/ answer'[r] = [by |-> r, code |-> "ok"] /\ r \in ran'
        BY <1>0, <1>8 DEF Execute
      <3>2. ASSUME answer'[r] = [by |-> r, code |-> "ok"], r \in ran'
            PROVE  True(answer'[r], ran', pc')
        BY <3>2 DEF True
      <3> QED
        BY <1>1, <3>1, <3>2
    <2>5. Progress
      BY <2>1, <2>2, MoveProgress
    <2> QED
      BY <1>1, <2>2, <2>3, <2>4, <2>5, TruthFrame
  <1>9. ASSUME NEW r \in Request,
               StoreIdempotencyResult(r) \/ StoreIdempotencyResultFails(r)
                  \/ ReleaseLock(r)
        PROVE  TruthInv'
    <2>1. \E p : Goto(r, p) /\ pc[r] \notin Settled
      BY <1>9 DEF StoreIdempotencyResult, StoreIdempotencyResultFails,
                  ReleaseLock, Settled
    <2>2. result' \in Old
      BY <1>1, <1>9 DEF StoreIdempotencyResult, StoreIdempotencyResultFails,
                        ReleaseLock
    <2>3. UNCHANGED <<record, answer, ran>>
      BY <1>9 DEF StoreIdempotencyResult, StoreIdempotencyResultFails,
                  ReleaseLock
    <2> QED
      BY <1>1, <2>1, <2>2, <2>3, MoveProgress, TruthFrame
  <1>10. ASSUME pc' = pc, ran' = ran, answer' = answer,
                record' \in Old, result' \in Old
         PROVE  TruthInv'
    <2>1. Progress
      BY <1>10 DEF Progress
    <2> QED
      BY <1>1, <1>10, <2>1, TruthFrame
  <1>11. ASSUME NEW r \in Request, Disconnect(r) PROVE TruthInv'
    BY <1>1, <1>10, <1>11 DEF Disconnect
  <1>12. CASE ExpireRecord \/ ExpireResult \/ ExpireLock \/ UNCHANGED vars
    BY <1>1, <1>10, <1>12 DEF ExpireRecord, ExpireResult, ExpireLock, vars
  <1>13. ASSUME NEW S \in SUBSET InFlight, Crash(S) PROVE TruthInv'
    <2>1. Progress
      BY <1>0, <1>13 DEF Crash, Progress, Settled
    <2>2. record' \in Old /\ UNCHANGED <<result, answer>>
      BY <1>1, <1>13 DEF Crash
    <2> QED
      BY <1>1, <2>1, <2>2, TruthFrame
  <1>14. ASSUME NEW r \in Request, Step(r) PROVE TruthInv'
    BY <1>14, <1>3, <1>4, <1>5, <1>6, <1>7, <1>8, <1>9
    DEF Step, WrapperStep, TwoPhaseStep
  <1> QED
    BY <1>11, <1>12, <1>13, <1>14, NextSteps

LEMMA TruthInit == Init => TruthInv
  BY DEF Init, TruthInv, True, None

(* Nobody is ever told, by the operation or by a replay of its response,   *)
(* that it took effect when it did not, or that it was refused when it     *)
(* took effect.                                                            *)
THEOREM AnswersAreTrue == Spec => []AnswerIsTrue
  <1> DEFINE Inv == TypeInv /\ RanInv /\ TruthInv
  <1>1. Init => Inv
    BY TypeInit, RanInit, TruthInit
  <1>2. Inv /\ [Next]_vars => Inv'
    BY TypeStep, RanStep, TruthStep
  <1>3. Inv => AnswerIsTrue
    BY DEF TruthInv, True, AnswerIsTrue
  <1> HIDE DEF Inv
  <1> QED
    BY <1>1, <1>2, <1>3, PTL DEF Spec

-----------------------------------------------------------------------------
(* What ExecuteIdempotent reaches before a lock expires. *)

\* ExecuteIdempotent comes to execute, or to a result, only after a lock has
\* reached its TTL: while its own lock is there, the second check cannot decode
\* it and gives up.  The comments of redis_idempotency.go promise otherwise.
ExecutesOnlyAfterExpiry ==
    (result # None \/ \E r \in Request : pc[r] \in {"execute", "store"})
        => lockExpired

Holding == {"recheck", "recheck_lock", "release"}

\* Until a lock has expired there is one holder at most, its lock is there,
\* and nobody has come further.
HolderInv ==
    ~lockExpired =>
        /\ result = None
        /\ \A r \in Request : pc[r] \notin {"execute", "store"}
        /\ \A r \in Request : pc[r] \in Holding => lock
        /\ \A r, q \in Request :
              pc[r] \in Holding /\ pc[q] \in Holding => r = q

LEMMA HolderStep == TypeInv /\ HolderInv /\ [Next]_vars => HolderInv'
  <1> SUFFICES ASSUME TypeInv, HolderInv, [Next]_vars PROVE HolderInv'
    OBVIOUS
  <1> USE DEF storeVars, history
  <1>0. pc \in [Request -> PC] /\ lock \in BOOLEAN
    BY DEF TypeInv, TypeOK, PC
  \* A holder stays one or gives up; nobody else becomes one.
  <1>1. ASSUME NEW r \in Request, NEW p, Goto(r, p),
               p \notin {"execute", "store"},
               p \in Holding => pc[r] \in Holding,
               UNCHANGED <<result, lockExpired>>,
               lock => lock'
        PROVE  HolderInv'
    BY <1>0, <1>1 DEF HolderInv, Goto
  <1>2. ASSUME NEW r \in Request, WrapperArrives(r) \/ TwoPhaseArrives(r)
        PROVE  HolderInv'
    <2>1. \E p \in {"get", "check"} : Goto(r, p)
      BY <1>2 DEF WrapperArrives, TwoPhaseArrives
    <2>2. UNCHANGED <<result, lockExpired, lock>>
      BY <1>2 DEF WrapperArrives, TwoPhaseArrives
    <2> QED
      BY <1>1, <2>1, <2>2 DEF Holding
  <1>3. ASSUME NEW r \in Request, WrapperStep(r) PROVE HolderInv'
    <2>1. \E p \in {"done", "run", "set"} : Goto(r, p)
      BY <1>3 DEF WrapperStep, GetHit, GetMiss, GetFails, Handle, Set, SetFails,
                  Return
    <2>2. UNCHANGED <<result, lockExpired, lock>>
      BY <1>3 DEF WrapperStep, GetHit, GetMiss, GetFails, Handle, Set, SetFails
    <2> QED
      BY <1>1, <2>1, <2>2 DEF Holding
  <1>4. ASSUME NEW r \in Request, TwoPhaseStep(r), lockExpired
        PROVE  HolderInv'
    <2>1. lockExpired'
      BY <1>4 DEF TwoPhaseStep, ResultFound, NoResult, NoLock, LockFound,
                  ReadFails, WaitDeadline, Return, AcquireLock, AcquireLockFails, Execute,
                  StoreIdempotencyResult, StoreIdempotencyResultFails,
                  ReleaseLock
    <2> QED
      BY <2>1 DEF HolderInv
  <1>5. ASSUME NEW r \in Request, TwoPhaseStep(r), ~lockExpired
        PROVE  HolderInv'
    <2>1. /\ result = None /\ pc[r] \notin {"execute", "store"}
          /\ pc[r] \in Holding => lock
      BY <1>5 DEF HolderInv
    <2>2. CASE ResultFound(r) \/ Execute(r) \/ StoreIdempotencyResult(r)
                  \/ StoreIdempotencyResultFails(r)
      BY <2>1, <2>2 DEF ResultFound, Execute, StoreIdempotencyResult,
                        StoreIdempotencyResultFails
    <2>3. CASE NoResult(r)
      <3>1. \E p \in LockPC : /\ Goto(r, p)
                              /\ p = "recheck_lock" => pc[r] = "recheck"
        BY <2>3 DEF NoResult, ReadsResult, ReadsLock, LockPC
      <3>2. UNCHANGED <<result, lockExpired, lock>>
        BY <2>3 DEF NoResult
      <3> QED
        BY <1>1, <3>1, <3>2 DEF LockPC, Holding
    <2>4. CASE NoLock(r)
      <3>1. pc[r] # "recheck_lock"
        BY <2>1, <2>4 DEF NoLock, Holding
      <3>2. Goto(r, "lock") \/ Goto(r, "done")
        BY <2>4, <3>1 DEF NoLock, Return
      <3>3. UNCHANGED <<result, lockExpired, lock>>
        BY <2>4 DEF NoLock
      <3> QED
        BY <1>1, <3>2, <3>3 DEF Holding
    <2>5. CASE LockFound(r) \/ ReadFails(r) \/ WaitDeadline(r)
      <3>1. \E p \in {"release", "done"} :
               /\ Goto(r, p)
               /\ p = "release" => pc[r] \in {"recheck", "recheck_lock"}
        BY <2>5 DEF LockFound, ReadFails, WaitDeadline, Return
      <3>2. UNCHANGED <<result, lockExpired, lock>>
        BY <2>5 DEF LockFound, ReadFails, WaitDeadline
      <3> QED
        BY <1>1, <3>1, <3>2 DEF Holding
    <2>6. CASE AcquireLock(r)
      <3>1. UNCHANGED <<result, lockExpired>> /\ lock' = TRUE
        BY <2>6 DEF AcquireLock
      <3>2. CASE lock
        <4>1. Goto(r, "wait")
          BY <2>6, <3>2 DEF AcquireLock
        <4> QED
          BY <1>1, <3>1, <4>1 DEF Holding
      <3>3. CASE ~lock
        <4>1. \A q \in Request : pc[q] \notin Holding
          BY <1>5, <3>3 DEF HolderInv
        <4>2. pc' = [pc EXCEPT ![r] = "recheck"]
          BY <2>6, <3>3 DEF AcquireLock, Goto
        <4>3. \A q \in Request : /\ pc'[q] \in Holding => q = r
                                 /\ pc'[q] \notin {"execute", "store"}
          BY <1>0, <1>5, <4>1, <4>2 DEF HolderInv
        <4> QED
          BY <2>1, <3>1, <4>3 DEF HolderInv
      <3> QED
        BY <3>2, <3>3
    <2>7. CASE AcquireLockFails(r)
      <3>1. Goto(r, "done") /\ UNCHANGED <<result, lockExpired>>
        BY <2>7 DEF AcquireLockFails, Return
      <3>2. lock => lock'
        BY <1>0, <2>7 DEF AcquireLockFails
      <3> QED
        BY <1>1, <3>1, <3>2 DEF Holding
    <2>8. CASE ReleaseLock(r)
      <3>1. pc' = [pc EXCEPT ![r] = "done"] /\ pc[r] = "release"
            /\ UNCHANGED <<result, lockExpired>>
        BY <2>8 DEF ReleaseLock, Goto
      <3>2. \A q \in Request : pc'[q] \notin Holding
        BY <1>0, <1>5, <3>1 DEF HolderInv, Holding
      <3>3. \A q \in Request : pc'[q] \notin {"execute", "store"}
        BY <1>0, <1>5, <3>1 DEF HolderInv
      <3> QED
        BY <2>1, <3>1, <3>2, <3>3 DEF HolderInv
    <2> QED
      BY <1>5, <2>2, <2>3, <2>4, <2>5, <2>6, <2>7, <2>8 DEF TwoPhaseStep
  <1>6. ASSUME NEW r \in Request, Disconnect(r) PROVE HolderInv'
    BY <1>6 DEF Disconnect, HolderInv
  <1>7. CASE ExpireRecord \/ UNCHANGED vars
    BY <1>7 DEF ExpireRecord, vars, HolderInv
  <1>8. CASE ExpireResult
    BY <1>8 DEF ExpireResult, HolderInv
  <1>9. CASE ExpireLock
    BY <1>9 DEF ExpireLock, HolderInv
  <1>10. ASSUME NEW S \in SUBSET InFlight, Crash(S) PROVE HolderInv'
    <2>1. /\ UNCHANGED <<lock, result, lockExpired>>
          /\ \A r \in Request : pc'[r] = "killed" \/ pc'[r] = pc[r]
      BY <1>0, <1>10 DEF Crash
    <2> QED
      BY <2>1 DEF HolderInv, Holding
  <1>11. ASSUME NEW r \in Request, Step(r) PROVE HolderInv'
    BY <1>11, <1>2, <1>3, <1>4, <1>5 DEF Step
  <1> QED
    BY <1>6, <1>7, <1>8, <1>9, <1>10, <1>11, NextSteps

LEMMA HolderInit == Init => HolderInv
  BY DEF Init, HolderInv, Holding

(* Whatever the requests, failures and crashes, the two-phase mechanism    *)
(* executes an operation, or stores a result, only after some lock has     *)
(* reached its TTL: what is documented as LOCK, EXECUTE, RESULT does not   *)
(* get past LOCK in one call.                                              *)
THEOREM ExecutionNeedsExpiry == Spec => []ExecutesOnlyAfterExpiry
  <1> DEFINE Inv == TypeInv /\ HolderInv
  <1>1. Init => Inv
    BY TypeInit, HolderInit
  <1>2. Inv /\ [Next]_vars => Inv'
    BY TypeStep, HolderStep
  <1>3. Inv => ExecutesOnlyAfterExpiry
    BY DEF HolderInv, ExecutesOnlyAfterExpiry
  <1> HIDE DEF Inv
  <1> QED
    BY <1>1, <1>2, <1>3, PTL DEF Spec
=============================================================================
