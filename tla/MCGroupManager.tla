--------------------------- MODULE MCGroupManager ---------------------------
(* Finite instances of GroupManager for TLC. *)
EXTENDS GroupManager

CONSTANTS g1, g2, t1, l1, l2
=============================================================================
