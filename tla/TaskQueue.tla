----------------------------- MODULE TaskQueue -----------------------------
(***************************************************************************)
(* The order of scheduler/queue.go: Less compares two tasks by a priority  *)
(* that improves while they wait, cut to an integer, and by deadline when  *)
(* the integers are equal.  The heap keeps the order of the moments at     *)
(* which it compared, and time.Now() moves on; the theorems say which part *)
(* of the order does not depend on the moment.                             *)
(*                                                                         *)
(* Times are milliseconds, and the effective priority is counted in units  *)
(* of a ten-thousandth, so that one millisecond of waiting is one unit.    *)
(* A deadline of 0 is Go's zero time, which RehydrateQueue leaves.         *)
(***************************************************************************)
EXTENDS Integers, TLAPS

\* One point of priority: agingFactorSeconds.
Point == 10000

Task == [priority : Nat, submitTime : Nat, deadline : Nat]

EffPri(t, now) == Point * t.priority - (now - t.submitTime)

\* int(x): Go cuts towards zero, so the integer 0 stands for two points.
Trunc(x) == IF x >= 0 THEN x \div Point ELSE -((-x) \div Point)

Less(t, u, now) ==
    IF Trunc(EffPri(t, now)) = Trunc(EffPri(u, now))
    THEN t.deadline < u.deadline
    ELSE EffPri(t, now) < EffPri(u, now)

-----------------------------------------------------------------------------
(* What the proofs use of the division: cutting keeps the order, and two   *)
(* points of distance survive it.                                          *)
LEMMA TruncFacts ==
    ASSUME NEW x \in Int, NEW y \in Int
    PROVE  /\ Trunc(x) \in Int
           /\ x < y => Trunc(x) <= Trunc(y)
           /\ x + 2 * Point <= y => Trunc(x) < Trunc(y)
  BY DEF Trunc, Point

LEMMA EffPriType ==
    ASSUME NEW t \in Task, NEW now \in Nat
    PROVE  EffPri(t, now) \in Int
  BY DEF EffPri, Task, Point

(* At any one moment Less orders tasks by the integer, then the deadline.  *)
LEMMA LessByInteger ==
    ASSUME NEW t \in Task, NEW u \in Task, NEW now \in Nat
    PROVE  Less(t, u, now) <=>
               \/ Trunc(EffPri(t, now)) < Trunc(EffPri(u, now))
               \/ /\ Trunc(EffPri(t, now)) = Trunc(EffPri(u, now))
                  /\ t.deadline < u.deadline
  <1> DEFINE x == EffPri(t, now)
             y == EffPri(u, now)
  <1>1. x \in Int /\ y \in Int
    BY EffPriType
  <1>2. /\ Trunc(x) \in Int /\ Trunc(y) \in Int
        /\ x < y => Trunc(x) <= Trunc(y)
        /\ y < x => Trunc(y) <= Trunc(x)
    BY <1>1, TruncFacts
  <1>3. x = y => Trunc(x) = Trunc(y)
    OBVIOUS
  <1> HIDE DEF x, y
  <1>4. (IF Trunc(x) = Trunc(y) THEN t.deadline < u.deadline ELSE x < y)
        <=> \/ Trunc(x) < Trunc(y)
            \/ Trunc(x) = Trunc(y) /\ t.deadline < u.deadline
    BY <1>1, <1>2, <1>3
  <1> QED
    BY <1>4 DEF Less, x, y

(* At any one moment Less is a strict weak order, although it mixes two    *)
(* criteria: nothing precedes itself, precedence is transitive, and so is  *)
(* "neither precedes the other".  container/heap relies on it.             *)
THEOREM LessIsStrictWeakOrder ==
    ASSUME NEW t \in Task, NEW u \in Task, NEW v \in Task, NEW now \in Nat
    PROVE  /\ ~Less(t, t, now)
           /\ Less(t, u, now) /\ Less(u, v, now) => Less(t, v, now)
           /\ /\ ~Less(t, u, now) /\ ~Less(u, t, now)
              /\ ~Less(u, v, now) /\ ~Less(v, u, now)
              => ~Less(t, v, now) /\ ~Less(v, t, now)
  <1> DEFINE i(a) == Trunc(EffPri(a, now))
  <1>1. \A a \in Task : i(a) \in Int /\ a.deadline \in Nat
    BY EffPriType, TruncFacts DEF Task
  <1>2. \A a, b \in Task :
            Less(a, b, now) <=> \/ i(a) < i(b)
                                \/ i(a) = i(b) /\ a.deadline < b.deadline
    BY LessByInteger
  <1> HIDE DEF i
  <1> QED
    BY <1>1, <1>2

(* Two tasks that are two points apart at one moment are ordered the same  *)
(* way by every comparison, at whatever moment the heap makes it: waiting  *)
(* and the cut to an integer cannot turn them round.                       *)
THEOREM TwoPointsAreSettled ==
    ASSUME NEW t \in Task, NEW u \in Task, NEW now \in Nat, NEW later \in Nat,
           EffPri(t, now) + 2 * Point <= EffPri(u, now)
    PROVE  Less(t, u, later) /\ ~Less(u, t, later)
  <1>1. /\ EffPri(t, later) \in Int /\ EffPri(u, later) \in Int
        /\ EffPri(t, later) + 2 * Point <= EffPri(u, later)
    BY DEF EffPri, Task, Point
  <1>2. Trunc(EffPri(t, later)) < Trunc(EffPri(u, later))
    BY <1>1, TruncFacts
  <1>3. Trunc(EffPri(t, later)) \in Int /\ Trunc(EffPri(u, later)) \in Int
    BY <1>1, TruncFacts
  <1> QED
    BY <1>2, <1>3, LessByInteger

(* No starvation: whatever its priority, a task precedes, in every         *)
(* comparison, each task that is submitted ten seconds per point of        *)
(* priority between them, and twenty more, after it.                       *)
THEOREM WaitingWins ==
    ASSUME NEW t \in Task, NEW u \in Task, NEW now \in Nat,
           u.submitTime >= t.submitTime
                           + Point * (t.priority - u.priority) + 2 * Point
    PROVE  Less(t, u, now)
  <1>1. EffPri(t, now) + 2 * Point <= EffPri(u, now)
    BY DEF EffPri, Task, Point
  <1> QED
    BY <1>1, TwoPointsAreSettled
=============================================================================
