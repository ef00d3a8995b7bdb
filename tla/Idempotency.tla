---------------------------- MODULE Idempotency ----------------------------
(***************************************************************************)
(* Requests that carry one idempotency key.  Two mechanisms of the code    *)
(* keep such requests from running their operation again:                  *)
(*   wrapper    withIdempotency of api.go over idempotency/store.go, which *)
(*              main.go puts around POST /jobs, /states and reconcile;     *)
(*   two-phase  ExecuteIdempotent of store/redis_idempotency.go, with a    *)
(*              lock key and a result key (no handler calls it yet).       *)
(* They use different keys of the store.  One action is one call to the    *)
(* store or one run of the operation.                                      *)
(*                                                                         *)
(* The lock's value is the idempotency key itself.  It is the same for     *)
(* every request, so any of them may release the lock, and it is not the   *)
(* JSON of an IdempotencyResult, so decoding it fails (a key that happens  *)
(* to be a JSON object is left out).                                       *)
(*                                                                         *)
(* Env is the set of things that may happen besides:                       *)
(*   "redis_error" a call to Redis fails, applied or not;                  *)
(*   "disconnect"  the client goes away, which cancels the context that    *)
(*                 the calls to Redis are made with;                       *)
(*   "expiry"      records, results and locks reach their TTL;             *)
(*   "crash"       an API process dies with the requests it serves.        *)
(***************************************************************************)
EXTENDS FiniteSets

CONSTANTS
    Wrapped,   \* requests, retries included, that the wrapper may serve
    TwoPhase,  \* and those ExecuteIdempotent may serve
    Env        \* the disturbances that may happen

Request == Wrapped \cup TwoPhase

ASSUME IdempotencyAssumption ==
    Env \subseteq {"redis_error", "disconnect", "expiry", "crash"}

VARIABLES
    backend,     \* what NewStore was given: "redis", or "memory" for nil
    record,      \* the wrapper's stored response
    lock,        \* whether idempotency:lock:<key> exists
    result,      \* idempotency:result:<key>
    pc,          \* where each request is
    answer,      \* what it was answered
    gone,        \* requests whose client went away
    ran,         \* history: requests whose operation took effect
    covered,     \* history: requests that came when an answer was stored,
                 \* which has been there, and readable to them, since then
    lockExpired  \* history: the lock has reached its TTL at least once

storeVars == <<backend, record, lock, result>>
history == <<ran, covered, lockExpired>>
vars == <<storeVars, pc, answer, gone, history>>

\* "refused" stands for the answers given before anything is written (400, 401,
\* 404, 429, 503), "error" for the 500 after a call to the store failed.
Codes == {"ok", "refused", "error"}
Response == [by : Request, code : Codes]
None == [by |-> "none", code |-> "none"]
Failed == [by |-> "none", code |-> "failed"]

WrapperPC == {"get", "run", "set"}
TwoPhasePC == {"check", "check_lock", "lock", "recheck", "recheck_lock",
               "execute", "store", "release", "wait", "wait_lock"}

TypeOK ==
    /\ backend \in {"redis", "memory"}
    /\ record \in Response \cup {None}
    /\ lock \in BOOLEAN
    /\ result \in [by : Request, code : {"ok"}] \cup {None}
    /\ pc \in [Request -> WrapperPC \cup TwoPhasePC
                          \cup {"new", "done", "killed"}]
    /\ answer \in [Request -> Response \cup {None, Failed}]
    /\ gone \subseteq Request
    /\ ran \subseteq Request
    /\ covered \subseteq Request
    /\ lockExpired \in BOOLEAN

Init ==
    /\ backend \in {"redis", "memory"}
    /\ record = None
    /\ lock = FALSE
    /\ result = None
    /\ pc = [r \in Request |-> "new"]
    /\ answer = [r \in Request |-> None]
    /\ gone = {}
    /\ ran = {}
    /\ covered = {}
    /\ lockExpired = FALSE

InFlight == {r \in Request : pc[r] \in WrapperPC \cup TwoPhasePC}

Goto(r, step) == pc' = [pc EXCEPT ![r] = step]

Return(r, a) ==
    /\ Goto(r, "done")
    /\ answer' = [answer EXCEPT ![r] = a]

\* A call to Redis in the context of r goes through, or fails.
Answers(r) == r \notin gone
Fails(r) == r \in gone \/ "redis_error" \in Env

\* A write of r that fails may have been applied.
AppliedAnyway(r) == r \notin gone

-----------------------------------------------------------------------------
(* The wrapper. *)

WrapperArrives(r) ==
    /\ pc[r] = "new"
    /\ Goto(r, "get")
    /\ covered' = IF record # None THEN covered \cup {r} ELSE covered
    /\ UNCHANGED <<storeVars, answer, gone, ran, lockExpired>>

\* Mutant: only a success is worth replaying.
ReplayableSuccess(x) == x.code = "ok"

Replayable(x) == x # None

\* The map in memory needs no context.
StoreAnswers(r) == backend = "memory" \/ Answers(r)
StoreFails(r) == backend = "redis" /\ Fails(r)

GetHit(r) ==
    /\ pc[r] = "get"
    /\ StoreAnswers(r)
    /\ Replayable(record)
    /\ Return(r, record)
    /\ UNCHANGED <<storeVars, gone, history>>

GetMiss(r) ==
    /\ pc[r] = "get"
    /\ StoreAnswers(r)
    /\ ~Replayable(record)
    /\ Goto(r, "run")
    /\ UNCHANGED <<storeVars, answer, gone, history>>

\* An error of Redis counts as a miss.
GetFails(r) ==
    /\ pc[r] = "get"
    /\ StoreFails(r)
    /\ Goto(r, "run")
    /\ covered' = covered \ {r}
    /\ UNCHANGED <<storeVars, answer, gone, ran, lockExpired>>

\* next: the operation takes effect, or is refused, or a call to the store
\* fails, in which case it may have taken effect all the same.  The recorder
\* passes the response on at once.
Handle(r, code) ==
    /\ pc[r] = "run"
    /\ Goto(r, "set")
    /\ answer' = [answer EXCEPT ![r] = [by |-> r, code |-> code]]
    /\ \/ code = "ok" /\ ran' = ran \cup {r}
       \/ code = "refused" /\ UNCHANGED ran
       \/ code = "error" /\ Fails(r) /\ ran' \in {ran, ran \cup {r}}
    /\ UNCHANGED <<storeVars, gone, covered, lockExpired>>

\* Mutant: the recorder keeps its initial status 200.
SetDefaultStatus(r) ==
    /\ pc[r] = "set"
    /\ StoreAnswers(r)
    /\ record' = [by |-> r, code |-> "ok"]
    /\ Goto(r, "done")
    /\ UNCHANGED <<backend, lock, result, answer, gone, history>>

\* Whatever the response was, it is stored, over one that is there.
Set(r) ==
    /\ pc[r] = "set"
    /\ StoreAnswers(r)
    /\ record' = answer[r]
    /\ Goto(r, "done")
    /\ UNCHANGED <<backend, lock, result, answer, gone, history>>

SetFails(r) ==
    /\ pc[r] = "set"
    /\ StoreFails(r)
    /\ \/ UNCHANGED record
       \/ AppliedAnyway(r) /\ record' = answer[r]
    /\ Goto(r, "done")
    /\ UNCHANGED <<backend, lock, result, answer, gone, history>>

-----------------------------------------------------------------------------
(* ExecuteIdempotent. *)

TwoPhaseArrives(r) ==
    /\ pc[r] = "new"
    /\ Goto(r, "check")
    /\ covered' = IF result # None THEN covered \cup {r} ELSE covered
    /\ UNCHANGED <<storeVars, answer, gone, ran, lockExpired>>

\* The steps of GetIdempotencyState in its three callers.
ReadsResult == {"check", "recheck", "wait"}
ReadsLock == [check |-> "check_lock", recheck |-> "recheck_lock",
              wait |-> "wait_lock"]

\* A stored result ends the call; with the lock taken it is released first.
ResultFound(r) ==
    /\ pc[r] \in ReadsResult
    /\ Answers(r)
    /\ result # None
    /\ Goto(r, IF pc[r] = "recheck" THEN "release" ELSE "done")
    /\ answer' = [answer EXCEPT ![r] = result]
    /\ UNCHANGED <<storeVars, gone, history>>

NoResult(r) ==
    /\ pc[r] \in ReadsResult
    /\ Answers(r)
    /\ result = None
    /\ Goto(r, ReadsLock[pc[r]])
    /\ UNCHANGED <<storeVars, answer, gone, history>>

\* Neither key exists: go on to take the lock, or execute, or - in
\* WaitForIdempotencyResult - give up.
NoLock(r) ==
    /\ pc[r] \in {"check_lock", "recheck_lock", "wait_lock"}
    /\ Answers(r)
    /\ ~lock
    /\ \/ pc[r] = "check_lock" /\ Goto(r, "lock") /\ UNCHANGED answer
       \/ pc[r] = "recheck_lock" /\ Goto(r, "execute") /\ UNCHANGED answer
       \/ pc[r] = "wait_lock" /\ Return(r, Failed)
    /\ UNCHANGED <<storeVars, gone, history>>

\* The lock exists and its value is not JSON: GetIdempotencyState returns an
\* error, so nobody ever waits in a loop, and whoever took the lock gives up.
LockFound(r) ==
    /\ pc[r] \in {"check_lock", "recheck_lock", "wait_lock"}
    /\ Answers(r)
    /\ lock
    /\ Goto(r, IF pc[r] = "recheck_lock" THEN "release" ELSE "done")
    /\ answer' = [answer EXCEPT ![r] = Failed]
    /\ UNCHANGED <<storeVars, gone, history>>

\* The 30 s of WaitForIdempotencyResult are over when it looks at the clock.
WaitDeadline(r) ==
    /\ pc[r] = "wait"
    /\ Return(r, Failed)
    /\ UNCHANGED <<storeVars, gone, history>>

\* A read of Redis fails.
ReadFails(r) ==
    /\ pc[r] \in ReadsResult \cup {"check_lock", "recheck_lock", "wait_lock"}
    /\ Fails(r)
    /\ Goto(r, IF pc[r] \in {"recheck", "recheck_lock"} THEN "release"
               ELSE "done")
    /\ answer' = [answer EXCEPT ![r] = Failed]
    /\ UNCHANGED <<storeVars, gone, history>>

AcquireLock(r) ==
    /\ pc[r] = "lock"
    /\ Answers(r)
    /\ Goto(r, IF lock THEN "wait" ELSE "recheck")
    /\ lock' = TRUE
    /\ UNCHANGED <<backend, record, result, answer, gone, history>>

AcquireLockFails(r) ==
    /\ pc[r] = "lock"
    /\ Fails(r)
    /\ Return(r, Failed)
    /\ lock' \in {lock} \cup (IF AppliedAnyway(r) THEN {TRUE} ELSE {})
    /\ UNCHANGED <<backend, record, result, gone, history>>

\* Mutant: the outcome is stored before its error is looked at.
ExecuteStoresErrors(r) ==
    /\ pc[r] = "execute"
    /\ Goto(r, "store")
    /\ \/ /\ answer' = [answer EXCEPT ![r] = [by |-> r, code |-> "ok"]]
          /\ ran' = ran \cup {r}
       \/ /\ answer' = [answer EXCEPT ![r] = Failed]
          /\ UNCHANGED ran
    /\ UNCHANGED <<storeVars, gone, covered, lockExpired>>

\* An operation that returns an error may have taken effect.
Execute(r) ==
    /\ pc[r] = "execute"
    /\ \/ /\ Goto(r, "store")
          /\ answer' = [answer EXCEPT ![r] = [by |-> r, code |-> "ok"]]
          /\ ran' = ran \cup {r}
       \/ /\ Goto(r, "release")
          /\ answer' = [answer EXCEPT ![r] = Failed]
          /\ ran' \in {ran, ran \cup {r}}
    /\ UNCHANGED <<storeVars, gone, covered, lockExpired>>

StoreIdempotencyResult(r) ==
    /\ pc[r] = "store"
    /\ Answers(r)
    /\ result' = answer[r]
    /\ Goto(r, "release")
    /\ UNCHANGED <<backend, record, lock, answer, gone, history>>

\* The failure is logged, the result returned and the lock left to its TTL.
StoreIdempotencyResultFails(r) ==
    /\ pc[r] = "store"
    /\ Fails(r)
    /\ result' \in {result} \cup (IF AppliedAnyway(r) THEN {answer[r]} ELSE {})
    /\ Goto(r, "done")
    /\ UNCHANGED <<backend, record, lock, answer, gone, history>>

\* Mutant: the release is repeated until it succeeds.
ReleaseLockRetries(r) ==
    /\ pc[r] = "release"
    /\ Answers(r)
    /\ lock' = FALSE
    /\ Goto(r, "done")
    /\ UNCHANGED <<backend, record, result, answer, gone, history>>

\* ReleaseLock with the key as owner, which is everybody.
ReleaseLock(r) ==
    /\ pc[r] = "release"
    /\ \/ Answers(r) /\ lock' = FALSE
       \/ Fails(r) /\ UNCHANGED lock
    /\ Goto(r, "done")
    /\ UNCHANGED <<backend, record, result, answer, gone, history>>

-----------------------------------------------------------------------------
(* The environment. *)

Disconnect(r) ==
    /\ "disconnect" \in Env
    /\ r \in InFlight \ gone
    /\ gone' = gone \cup {r}
    /\ covered' = covered \ {r}
    /\ UNCHANGED <<storeVars, pc, answer, ran, lockExpired>>

Uncover(S) == covered' = covered \ S

ExpireRecord ==
    /\ "expiry" \in Env
    /\ record # None
    /\ record' = None
    /\ Uncover({r \in Request : pc[r] \in WrapperPC})
    /\ UNCHANGED <<backend, lock, result, pc, answer, gone, ran, lockExpired>>

ExpireResult ==
    /\ "expiry" \in Env
    /\ result # None
    /\ result' = None
    /\ Uncover({r \in Request : pc[r] \in TwoPhasePC})
    /\ UNCHANGED <<backend, record, lock, pc, answer, gone, ran, lockExpired>>

ExpireLock ==
    /\ "expiry" \in Env
    /\ lock
    /\ lock' = FALSE
    /\ lockExpired' = TRUE
    /\ UNCHANGED <<backend, record, result, pc, answer, gone, ran, covered>>

\* Requests may be spread over several processes if Redis is the backend; the
\* map in memory dies with the only one.
Crash(S) ==
    /\ "crash" \in Env
    /\ backend = "memory" => S = InFlight
    /\ pc' = [r \in Request |-> IF r \in S THEN "killed" ELSE pc[r]]
    /\ record' = IF backend = "memory" THEN None ELSE record
    /\ UNCHANGED <<backend, lock, result, answer, gone, history>>

WrapperStep(r) ==
    \/ GetHit(r) \/ GetMiss(r) \/ GetFails(r)
    \/ \E code \in Codes : Handle(r, code)
    \/ Set(r) \/ SetFails(r)

TwoPhaseStep(r) ==
    \/ ResultFound(r) \/ NoResult(r) \/ NoLock(r) \/ LockFound(r)
    \/ ReadFails(r) \/ WaitDeadline(r)
    \/ AcquireLock(r) \/ AcquireLockFails(r)
    \/ Execute(r)
    \/ StoreIdempotencyResult(r) \/ StoreIdempotencyResultFails(r)
    \/ ReleaseLock(r)

Next ==
    \/ \E r \in Wrapped : WrapperArrives(r) \/ WrapperStep(r)
    \/ \E r \in TwoPhase : TwoPhaseArrives(r) \/ TwoPhaseStep(r)
    \/ \E r \in Request : Disconnect(r)
    \/ ExpireRecord \/ ExpireResult \/ ExpireLock
    \/ \E S \in SUBSET InFlight : Crash(S)

Spec == Init /\ [][Next]_vars

\* Handlers return and calls to Redis have timeouts: the goroutine of a request
\* keeps running.  Nothing is assumed of locks and records expiring.
FairSpec ==
    /\ Spec
    /\ \A r \in Wrapped : WF_vars(WrapperStep(r))
    /\ \A r \in TwoPhase : WF_vars(TwoPhaseStep(r))

-----------------------------------------------------------------------------
(* Properties. *)

(* A request that comes when the key has a stored answer never runs its    *)
(* operation again, by either mechanism, whatever the requests beside it   *)
(* do, unless the answer expires, is lost with the process or cannot be    *)
(* read.                                                                   *)
RepeatNotRerun == ran \cap covered = {}

(* An answer, own or replayed, tells what happened: a success names a      *)
(* request whose operation took effect, a refusal (4xx, 503) one whose     *)
(* operation did not, also when duplicates, failed writes and crashes      *)
(* interleave.  A 500 promises neither: the write behind it may have been  *)
(* applied, and the 500 is stored and replayed nevertheless.               *)
AnswerIsTrue ==
    \A r \in Request :
        /\ answer[r].code = "ok" => answer[r].by \in ran
        /\ answer[r].code = "refused" => answer[r].by \notin ran

(* Every request is answered, unless its process dies, although calls to   *)
(* Redis fail, clients go away and locks are left behind.                  *)
RequestsEnd ==
    \A r \in Request : r \in InFlight ~> pc[r] \in {"done", "killed"}
=============================================================================
