-------------------------- MODULE MC_VenueSnapshots --------------------------
(* VenueSnapshots instantiated for TLC. *)
EXTENDS VenueSnapshots

FillsAgain == FillEventKinds

NothingAgain == {}

\* Bound: no report about an account value refers to an order, so the two are
\* explored one at a time.
OneSubject ==
    \/ DOMAIN orders \cup DOMAIN venue = {}
    \/ /\ \A k \in AccountKeys : told[k] = 0
       /\ \A r \in sent \cup delivered : r.kind \in OrderEventKinds
=============================================================================
