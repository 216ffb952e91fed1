---------------------------- MODULE MC_Lifecycle ----------------------------
(* Lifecycle instantiated for TLC: one principal who may do everything and   *)
(* one who may only deploy; a measurement of each version, and one of the    *)
(* first that does not pass.                                                 *)
EXTENDS Lifecycle
Grants   == {<<"lead", p>> : p \in {"promote", "retire", "approve", "deploy", "rollback"}}
              \union {<<"desk", "deploy">>}
Subject  == [id \in Evidence |-> IF id = "second" THEN 2 ELSE 1]
Accepted == Evidence \ {"failed"}

\* Model versions are interchangeable: the first strategy version that uses
\* one uses the first.  The measurement that does not pass is recorded first:
\* that it is there takes no choice away.
Representative ==
  /\ strategies # <<>> => strategies[1].model # 2
  /\ evidence # {} => "failed" \in evidence
=============================================================================
