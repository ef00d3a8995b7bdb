---------------------------- MODULE MCScheduler ----------------------------
(* Instances of Scheduler for TLC. *)
EXTENDS Scheduler

CONSTANTS s1, a1, r1

\* One node for every state.
OneNode == [s \in State |-> a1]
=============================================================================
