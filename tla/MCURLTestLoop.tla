--------------------------- MODULE MCURLTestLoop ---------------------------
(* Finite instances of URLTestLoop for TLC. *)
EXTENDS URLTestLoop

CONSTANTS l1, l2, nil
=============================================================================
