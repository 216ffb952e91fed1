--------------------------- MODULE VenueSnapshots ---------------------------
(***************************************************************************)
(* Reconciling the mirror against a whole venue snapshot:                  *)
(* reconcile_snapshot of broker/reconciliation.py.                         *)
(*                                                                         *)
(* The venue produces a snapshot at one instant and it is compared with    *)
(* the mirror at any later one, while reports go on arriving.  The         *)
(* comparison is a pure function of the two, so it is an operator here;    *)
(* the properties are about every snapshot and every instant at which it   *)
(* could be evaluated.  Duplicated records and foreign accounts in a       *)
(* snapshot are left out: a snapshot is a function of its keys.            *)
(***************************************************************************)
EXTENDS BrokerMirror

CONSTANT MaxAge         \* max_age_seconds, in ticks of the venue's clock

ASSUME AgeAssumption == MaxAge \in Nat

VARIABLE snapshot       \* the latest snapshot received, or NoSnapshot

NoSnapshot == [as_of |-> 0, orders |-> EmptyMap, executions |-> EmptyMap,
               account |-> EmptyMap, unexamined |-> {"executions", "account"}]

all == <<vars, snapshot>>

\* Every fill the venue made for one of the given orders.
VenueFills(listed) ==
    LET fills == {r \in sent : r.kind \in FillEventKinds /\ r.order \in listed}
    IN  [e \in {r.at : r \in fills} |->
            LET r == CHOOSE r \in fills : r.at = e
            IN  [order |-> r.order, quantity |-> r.quantity]]

\* The venue lists its orders, except finished ones it may have purged, and
\* the fills of those, the account's values, or neither.
TakeSnapshot(purged, unexamined) ==
    LET listed == DOMAIN venue \ purged
    IN  /\ \A o \in purged : venue[o].status \in TerminalStatuses
        /\ snapshot' = [as_of |-> clock,
                        orders |-> [o \in listed |-> venue[o]],
                        executions |-> IF "executions" \in unexamined THEN EmptyMap
                                       ELSE VenueFills(listed),
                        account |-> IF "account" \in unexamined THEN EmptyMap ELSE told,
                        unexamined |-> unexamined]
        /\ UNCHANGED vars

SnapshotInit == Init /\ snapshot = NoSnapshot

SnapshotNext ==
    \/ Next /\ UNCHANGED snapshot
    \/ \E purged \in SUBSET DOMAIN venue, unexamined \in SUBSET {"executions", "account"} :
          TakeSnapshot(purged, unexamined)

SnapshotSpec == SnapshotInit /\ [][SnapshotNext]_all

-----------------------------------------------------------------------------
(* The comparison *)

\* Mutant: the fills applied do not count towards the mirror's age.
mirror_high_waterIgnoresFills ==
    {orders[o].updated : o \in {o \in DOMAIN orders : orders[o].filled = 0}}

\* _mirror_high_water: the instants recorded on orders and on fills.
mirror_high_water == {orders[o].updated : o \in DOMAIN orders} \cup DOMAIN executions

freshness(evaluated_at) ==
    CASE snapshot.as_of > evaluated_at -> "FROM_THE_FUTURE"
      [] evaluated_at >= snapshot.as_of /\ evaluated_at - snapshot.as_of > MaxAge -> "TOO_OLD"
      [] evaluated_at >= snapshot.as_of /\ evaluated_at - snapshot.as_of <= MaxAge ->
            IF \E t \in mirror_high_water : snapshot.as_of < t
            THEN "PREDATES_MIRROR" ELSE "CURRENT"

Listed == DOMAIN snapshot.orders

\* Mutant: a listed order is compared by its quantity alone.
order_divergencesQuantityOnly ==
    {<<"MISSING_ORDER", o>> :
        o \in {o \in DOMAIN orders \ Listed : ~is_terminal(orders[o])}}
    \cup {<<"ORDER_QUANTITY", o>> :
        o \in {o \in Listed \cap DOMAIN orders : orders[o].quantity # snapshot.orders[o].quantity}}

\* _order_divergences
order_divergences ==
    LET both == Listed \cap DOMAIN orders
    IN  {<<"MISSING_ORDER", o>> :
            o \in {o \in DOMAIN orders \ Listed : ~is_terminal(orders[o])}}
        \cup {<<"UNKNOWN_ORDER", o>> : o \in Listed \ DOMAIN orders}
        \cup {<<"ORDER_QUANTITY", o>> :
                o \in {o \in both : orders[o].quantity # snapshot.orders[o].quantity}}
        \cup {<<"ORDER_FILLED_QUANTITY", o>> :
                o \in {o \in both : orders[o].filled # snapshot.orders[o].filled}}
        \cup {<<"ORDER_STATUS", o>> :
                o \in {o \in both :
                         ~statuses_consistent(orders[o].status, snapshot.orders[o].status)}}

\* _execution_divergences: a fill of the mirror is expected in the snapshot only
\* if the snapshot lists the order.
execution_divergences ==
    IF "executions" \in snapshot.unexamined THEN {}
    ELSE {<<"UNKNOWN_EXECUTION", e>> : e \in DOMAIN snapshot.executions \ DOMAIN executions}
         \cup {<<"EXECUTION_MISMATCH", e>> :
                 e \in {e \in DOMAIN snapshot.executions \cap DOMAIN executions :
                          snapshot.executions[e] # executions[e]}}
         \cup {<<"MISSING_EXECUTION", e>> :
                 e \in {e \in DOMAIN executions \ DOMAIN snapshot.executions :
                          executions[e].order \in Listed}}

\* _position_divergences and _account_divergences
account_divergences ==
    IF "account" \in snapshot.unexamined THEN {}
    ELSE {<<"POSITION_QUANTITY", k>> :
            k \in {k \in AccountKeys : account[k] # snapshot.account[k]}}

\* reconcile_snapshot: nothing is compared unless the snapshot is current.
reconcile_snapshot(evaluated_at) ==
    IF freshness(evaluated_at) # "CURRENT" THEN {}
    ELSE order_divergences \cup execution_divergences \cup account_divergences

reconciled(evaluated_at) ==
    freshness(evaluated_at) = "CURRENT" /\ reconcile_snapshot(evaluated_at) = {}

fully_reconciled(evaluated_at) == reconciled(evaluated_at) /\ snapshot.unexamined = {}

-----------------------------------------------------------------------------
(* Properties *)

Instants == 0..clock

\* A snapshot that is compared never blames the mirror for knowing more than
\* it does: however late it arrives, a difference in fills is always a fill
\* the venue made and the mirror has not applied.
FillDivergenceIsMissedFill ==
    \A t \in Instants : \A d \in reconcile_snapshot(t) :
        /\ d[1] \notin {"MISSING_EXECUTION", "EXECUTION_MISMATCH"}
        /\ d[1] = "ORDER_FILLED_QUANTITY" =>
              orders[d[2]].filled < snapshot.orders[d[2]].filled

\* "Nothing left unexamined": a snapshot of the venue as it is now that fully
\* reconciles proves the mirror right about every order listed and every
\* account value, even after reports were lost with a session or refused.
ReconciledIsTrue ==
    snapshot.as_of = clock /\ fully_reconciled(clock) =>
        /\ \A o \in Listed :
              /\ o \in DOMAIN orders
              /\ orders[o].filled = venue[o].filled
              /\ orders[o].quantity = venue[o].quantity
              /\ is_terminal(orders[o]) <=> venue[o].status \in TerminalStatuses
        /\ account = told

\* reconcile_snapshot: one "taken before the mirror's newest change describes a
\* venue the mirror has heard more from since" and is not compared.  So a
\* position that a compared snapshot disputes is not one the mirror holds at
\* the venue's latest word.
DisputedPositionIsWrong ==
    \A t \in Instants : \A d \in reconcile_snapshot(t) :
        d[1] = "POSITION_QUANTITY" => account[d[2]] # told[d[2]]
=============================================================================
