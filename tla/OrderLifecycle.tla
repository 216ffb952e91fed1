--------------------------- MODULE OrderLifecycle ---------------------------
(***************************************************************************)
(* The order lifecycle that the OMS and the broker mirror both read:       *)
(* core/lifecycle.py.  Everything here is constant: the declared table     *)
(* status -> (event -> status), the two rows that also read the filled     *)
(* quantity, and the classification of a report against the status an      *)
(* order holds.                                                            *)
(***************************************************************************)
EXTENDS Naturals

\* core/enums.py OrderStatus
OrderStatus == {"NEW", "PENDING", "ACCEPTED", "PARTIALLY_FILLED",
                "CANCEL_PENDING", "FILLED", "CANCELLED", "REJECTED", "EXPIRED"}

TerminalStatuses == {"FILLED", "CANCELLED", "REJECTED", "EXPIRED"}

WorkingStatuses == OrderStatus \ TerminalStatuses

CancelRequestable == {"NEW", "PENDING", "ACCEPTED", "PARTIALLY_FILLED"}

\* ExecutionEventKind, the part about one order
FillEventKinds == {"partially_filled", "filled"}

StatusEventKinds ==
    {"accepted", "rejected", "cancelled", "expired", "cancel_rejected"}

OrderEventKinds == FillEventKinds \cup StatusEventKinds \cup {"replaced"}

\* An answer of next_order_status: a status, or None for "no such transition".
None == "none"

\* Mutant: the table has a row for an amendment of a closed order.
HasRowWhenClosed(status, event) ==
    \/ event = "replaced"
    \/ event \in {"cancelled", "expired"} /\ status \in WorkingStatuses
    \/ event = "accepted"        /\ status \in {"NEW", "PENDING"}
    \/ event = "rejected"        /\ status \in WorkingStatuses \ {"PARTIALLY_FILLED"}
    \/ event \in FillEventKinds  /\ status \in WorkingStatuses \ {"NEW", "PENDING"}
    \/ event = "cancel_rejected" /\ status = "CANCEL_PENDING"

\* Mutant: a partly filled order has no row for its next fill.
HasRowFirstFillOnly(status, event) ==
    \/ event \in {"cancelled", "expired", "replaced"} /\ status \in WorkingStatuses
    \/ event = "accepted"        /\ status \in {"NEW", "PENDING"}
    \/ event = "rejected"        /\ status \in WorkingStatuses \ {"PARTIALLY_FILLED"}
    \/ event \in FillEventKinds  /\ status \in {"ACCEPTED", "CANCEL_PENDING"}
    \/ event = "cancel_rejected" /\ status = "CANCEL_PENDING"

(***************************************************************************)
(* ORDER_TRANSITIONS.  The rows share most of their entries, so the table  *)
(* is written by event: the statuses that have a row for it, and where     *)
(* the row leads.                                                          *)
(***************************************************************************)
HasRow(status, event) ==
    \/ event \in {"cancelled", "expired", "replaced"} /\ status \in WorkingStatuses
    \/ event = "accepted"        /\ status \in {"NEW", "PENDING"}
    \/ event = "rejected"        /\ status \in WorkingStatuses \ {"PARTIALLY_FILLED"}
    \/ event \in FillEventKinds  /\ status \in WorkingStatuses \ {"NEW", "PENDING"}
    \/ event = "cancel_rejected" /\ status = "CANCEL_PENDING"

RowTarget(status, event) ==
    CASE event = "replaced"         -> status
      [] event = "accepted"         -> "ACCEPTED"
      [] event = "rejected"         -> "REJECTED"
      [] event = "cancelled"        -> "CANCELLED"
      [] event = "expired"          -> "EXPIRED"
      [] event = "filled"           -> "FILLED"
      [] event = "partially_filled" -> IF status = "CANCEL_PENDING"
                                       THEN "CANCEL_PENDING" ELSE "PARTIALLY_FILLED"
      [] event = "cancel_rejected"  -> "ACCEPTED"

working_status_for(filled) ==
    IF filled > 0 THEN "PARTIALLY_FILLED" ELSE "ACCEPTED"

next_order_status(status, event, filled) ==
    IF \/ ~HasRow(status, event)
       \/ event = "rejected" /\ filled > 0
    THEN None
    ELSE IF event = "cancel_rejected"
         THEN working_status_for(filled)
         ELSE RowTarget(status, event)

(***************************************************************************)
(* _successors and _closure: the statuses an order can still reach, by     *)
(* events or by a cancel request.  The worklist computes the least set     *)
(* that holds the successors of the start and is closed under successors.  *)
(***************************************************************************)
Successors(status) ==
    {RowTarget(status, e) : e \in {e \in OrderEventKinds : HasRow(status, e)}}
    \cup (IF status \in CancelRequestable THEN {"CANCEL_PENDING"} ELSE {})
    \cup (IF status = "CANCEL_PENDING" THEN {"PARTIALLY_FILLED"} ELSE {})

Closure ==
    LET Closed(R) == \A u \in R : Successors(u) \subseteq R
        ClosedSets == {R \in SUBSET OrderStatus : Closed(R)}
    IN  [s \in OrderStatus |->
            {t \in OrderStatus : \A R \in ClosedSets :
                                    Successors(s) \subseteq R => t \in R}]

reachable_statuses(status) == Closure[status]

\* The status a status event reports, wherever it is applied.
Reported(event, filled) ==
    CASE event = "accepted"        -> "ACCEPTED"
      [] event = "rejected"        -> "REJECTED"
      [] event = "cancelled"       -> "CANCELLED"
      [] event = "expired"         -> "EXPIRED"
      [] event = "cancel_rejected" -> working_status_for(filled)

Classification == {"TRANSITION", "DUPLICATE", "STALE", "CONFLICT"}

classify_order_event(status, event, filled) ==
    IF next_order_status(status, event, filled) # None
    THEN "TRANSITION"
    ELSE IF Reported(event, filled) = status
         THEN "DUPLICATE"
         ELSE IF status \in reachable_statuses(Reported(event, filled))
              THEN "STALE"
              ELSE "CONFLICT"
=============================================================================
