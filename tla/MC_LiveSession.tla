--------------------------- MODULE MC_LiveSession ---------------------------
(* LiveSession instantiated for TLC. *)
EXTENDS LiveSession

\* The children that compete with an order sent whole are not themselves filled:
\* MC_LiveSession.cfg and MC_LiveChildren.cfg have their fills.
ChildrenIdle == \A f \in fills : ~IsChild(f.handle)
=============================================================================
