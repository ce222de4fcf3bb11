------------------------------ MODULE MCRuleSet ------------------------------
(* Finite instances of RuleSetHistory for TLC. *)
EXTENDS RuleSetHistory

CONSTANTS x, y, c1, c2, empty, garbage

Batch == {<<x>>, <<x, x>>}
Single == {<<x>>, <<y>>}
=============================================================================
