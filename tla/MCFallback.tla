----------------------------- MODULE MCFallback -----------------------------
(* Finite instances of Fallback for TLC. *)
EXTENDS Fallback

CONSTANTS p, q, x, y, v, w, nobody
=============================================================================
