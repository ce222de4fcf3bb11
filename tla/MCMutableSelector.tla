-------------------------- MODULE MCMutableSelector --------------------------
(* A finite instance of MutableSelector for TLC. *)
EXTENDS MutableSelector, TLC

CONSTANTS a, b, c, p, q, k1, k2, nil

\* The configured tags are not interchangeable with the other, nor is the first.
Symmetry == Permutations({p, q}) \union Permutations({k1, k2})
=============================================================================
