--------------------------- MODULE MCDegradedMode ---------------------------
(* Instances of DegradedMode for TLC. *)
EXTENDS DegradedMode

CONSTANTS n1, k1, k2
=============================================================================
