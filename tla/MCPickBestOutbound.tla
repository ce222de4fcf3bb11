------------------------- MODULE MCPickBestOutbound -------------------------
(* A finite instance of PickBestOutbound for TLC. *)
EXTENDS PickBestOutbound, TLC

CONSTANTS a, b, c, nil

Symmetry == Permutations({a, b, c})
=============================================================================
