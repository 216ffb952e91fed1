-------------------------- MODULE MC_PersistentMap ---------------------------
(* PersistentMap instantiated for TLC. *)
EXTENDS PersistentMap, TLC

Symmetry == Permutations(Keys) \cup Permutations(Values)
=============================================================================
