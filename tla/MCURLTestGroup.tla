--------------------------- MODULE MCURLTestGroup ---------------------------
(* Finite instances of URLTestGroup for TLC. *)
EXTENDS URLTestGroup

CONSTANTS a, b, n, p, q, nil
=============================================================================
