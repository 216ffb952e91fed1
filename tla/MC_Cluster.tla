----------------------------- MODULE MC_Cluster -----------------------------
(* Cluster instantiated for TLC: three jobs, of which the most urgent needs  *)
(* a tag that only the smaller worker offers.                                *)
EXTENDS Cluster
PriorityOf == [j \in Jobs |-> IF j = "low" THEN 0 ELSE 1]
CreatedAt  == [j \in Jobs |-> IF j = "late" THEN 1 ELSE 0]
Needs      == [j \in Jobs |-> IF j = "tagged" THEN {"gpu"} ELSE {}]
Has        == [w \in Workers |-> IF w = 1 THEN {"gpu"} ELSE {}]
Room2      == [w \in Workers |-> w]
=============================================================================
