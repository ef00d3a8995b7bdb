---------------------------- MODULE MCReconciler ----------------------------
(* Instances of Reconciler for TLC. *)
EXTENDS Reconciler

CONSTANTS s1, a1, r1, r2

\* One node for every state.
OneNode == [s \in State |-> a1]
=============================================================================
