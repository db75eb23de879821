------------------------- MODULE MCOrderController --------------------------
(* OrderController for TLC: controllers are interchangeable.                *)
EXTENDS OrderController, TLC

Symmetry == Permutations(Controllers)
============================================================================
