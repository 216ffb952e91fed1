------------------------------- MODULE MC_OMS -------------------------------
(* The OMS on a small instance. *)
EXTENDS OMS, TLC

Symmetry == Permutations(OrderIds) \cup Permutations(Assets)
=============================================================================
