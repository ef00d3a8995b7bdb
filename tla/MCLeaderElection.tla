-------------------------- MODULE MCLeaderElection --------------------------
(* Instances of LeaderElection for TLC.  A tick is 10 s: ttl = 30 s is 3   *)
(* ticks, the loop's period ttl/3 is 1, and the 5 s of Grace are less than *)
(* a tick.  Nodes are interchangeable.                                     *)
EXTENDS LeaderElection, TLC

CONSTANTS n1, n2

Symmetry == Permutations(Node)
=============================================================================
