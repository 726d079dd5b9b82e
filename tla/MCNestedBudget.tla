--------------------------- MODULE MCNestedBudget ---------------------------
(* Two interpreters besides the host's: a chain of three, or two siblings.   *)
(* A child gets what its creator has left, so the limits of the host bound   *)
(* everything below it.                                                      *)
EXTENDS NestedBudget
=============================================================================
