----------------------------- MODULE MC_Pipeline -----------------------------
(***************************************************************************)
(* Two strategies in one asset; strategy 2 has the tighter ceiling.  A     *)
(* traded unit is one quantum, so that a partial fill of a netted order    *)
(* has to be rounded.                                                      *)
(***************************************************************************)
EXTENDS Pipeline

TwoStrategies == {1, 2}
OneStrategy == {1}

Delta(q, t) == [kind |-> "DELTA", target |-> q, terms |-> t]
Target(q, t) == [kind |-> "TARGET", target |-> q, terms |-> t]

Mixed == {Delta(3, "LIMIT"), Delta(-1, "LIMIT"), Target(1, "MARKET")}
Limits == {Delta(2, "LIMIT"), Delta(-2, "LIMIT")}

UpAndDown == {1, 2}
TwoPrices == {1, 2}
OnePrice == {1}

LooseAndTight == [s \in TwoStrategies |-> IF s = 1 THEN 7 ELSE 3]
TwoUnits == [s \in OneStrategy |-> 2]
=============================================================================
