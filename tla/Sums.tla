-------------------------------- MODULE Sums --------------------------------
(* The sum of a function's values over its domain, by counting: every unit   *)
(* of every value is one pair, and the sum is the number of pairs.  Written  *)
(* without recursion, so that proofs can say how it grows.                   *)
EXTENDS Naturals, FiniteSets

Units(f) == UNION {{k} \X (1 .. f[k]) : k \in DOMAIN f}

SumOf(f) == Cardinality(Units(f))
=============================================================================
