----------------------------- MODULE LiveSession -----------------------------
(***************************************************************************)
(* The live driver: runtime/live.py over runtime/broker_routing.py, the    *)
(* settlement of a fill in runtime/execution_pipeline.py and the restart   *)
(* of runtime/live_snapshot.py.  It composes the OMS, the broker mirror,   *)
(* the portfolio and the order bindings.                                   *)
(*                                                                         *)
(* Every call of the driver takes a LiveRunState and returns a new one, so *)
(* a call that raises changes nothing here -- but what it already sent has *)
(* reached the venue.  LiveSession.advance is the sequence settle, Place,  *)
(* route_working_orders; route=False stops it before the last.             *)
(*                                                                         *)
(* The venue is external.  The adapter is the one the repository tests     *)
(* against it (tests/reference_adapter): it answers a submission with the  *)
(* venue's own view of the order, and poll_executions fetches fills.       *)
(* One asset, bought, in the currency of the budget.  An order reserves    *)
(* capital at a reference price and its fills consume it at theirs, so a   *)
(* fill carries what it cost; cash is left out.                            *)
(***************************************************************************)
EXTENDS OrderLifecycle, FiniteSets, FiniteSetsExt, Sums

CONSTANTS
    MaxOrders,          \* OMS orders the strategies ask for
    OrderQuantity,      \* what each of them is for
    Commitment,         \* capital reserved for an order, at the reference price
    Notionals,          \* what a fill may cost, at its execution price
    MaxChildren,        \* children of one order an algorithm sends
    MaxFills,           \* fills the venue makes
    MaxRestarts,        \* crashes of the process
    Delivery,           \* how fills reach the caller: "pushed", "polled" or both
    SavesEveryCall,     \* TRUE if every state is captured before the next crash
    LosesResponses      \* TRUE if the answer to a submission may be lost

ASSUME SessionBounds ==
    /\ {MaxOrders, OrderQuantity, MaxChildren, MaxFills, MaxRestarts} \subseteq Nat
    /\ Commitment \in Nat \ {0} /\ Notionals \subseteq Nat
    /\ Delivery \subseteq {"pushed", "polled"}
    /\ {SavesEveryCall, LosesResponses} \subseteq BOOLEAN

VARIABLES
    orders,         \* run.pipeline.oms: order id -> [status, filled]
    reserved,       \* run.pipeline.allocation.reservations: order id -> capital held
    reports,        \* run.pipeline.execution.reports: the fills booked
    position,       \* run.pipeline.portfolio: the quantity held
    mapping,        \* ExternalOrderMap.to_oms: handle -> order id
    children,       \* ChildOrderBindings.to_parent: handle -> order id
    held,           \* orders an execution algorithm works
    mirror,         \* BrokerState.orders: handle -> order
    executions,     \* BrokerState.executions: the fills the mirror has applied
    breaks,         \* ReconciliationLog.breaks
    settled,        \* the fills settle has recorded
    connected,      \* BrokerState.connection_status
    saved,          \* the LiveRunSnapshot last captured
    polled,         \* external: fills a poll returned, still in the caller's hands
    venue,          \* external: the venue's orders
    fills,          \* external: the fills the venue has made
    algorithmic,    \* external: orders the caller has ever held
    resent,         \* external: a handle was submitted that the venue already had
    restarts        \* external: crashes so far

pipeline == <<orders, reserved, reports, position>>

broker == <<mirror, executions, connected>>

bindings == <<mapping, children, held>>

logs == <<breaks, settled>>

outside == <<venue, fills, algorithmic, resent, restarts>>

vars == <<pipeline, broker, bindings, logs, saved, polled, outside>>

OrderIds == 1..MaxOrders

\* broker_order_id_for and child_broker_order_id: a handle is derived from the
\* order's id and the child's sequence, which starts at 1; 0 is the order whole.
Handles == OrderIds \X (0..MaxChildren)

broker_order_id_for(o) == <<o, 0>>

child_broker_order_id(o, n) == <<o, n>>

\* _parse_child_handle
ParentOf(handle) == handle[1]

IsChild(handle) == handle[2] > 0

VenueOrder == [status: OrderStatus, quantity: Nat, filled: Nat]

Fill == [id: Nat, handle: Handles, quantity: Nat, notional: Nat]

EmptyMap == [x \in {} |-> 0]

MapSet(map, key, value) ==
    [k \in DOMAIN map \cup {key} |-> IF k = key THEN value ELSE map[k]]

MapDelete(map, key) == [k \in DOMAIN map \ {key} |-> map[k]]

is_open(o) == orders[o].status \in WorkingStatuses

remaining_quantity(o) == OrderQuantity - orders[o].filled

working_orders == {o \in DOMAIN orders : is_open(o)}

is_terminal(order) == order.status \in TerminalStatuses

\* ChildOrderBindings.children_of
children_of(o) == {h \in DOMAIN children : children[h] = o}

\* ChildOrderBindings.from_mirror: a mirror order records the OMS order it
\* represents, which for every handle AlphaLab submits is the one it encodes.
from_mirror(orders_of_mirror) ==
    [h \in {h \in DOMAIN orders_of_mirror : IsChild(h)} |-> ParentOf(h)]

\* live_snapshot.capture
Captured ==
    [orders |-> orders, reserved |-> reserved, reports |-> reports, position |-> position,
     mapping |-> mapping, held |-> held, mirror |-> mirror, executions |-> executions,
     breaks |-> breaks, connected |-> connected]

Init ==
    /\ orders = EmptyMap /\ reserved = EmptyMap /\ reports = {} /\ position = 0
    /\ mapping = EmptyMap /\ children = EmptyMap /\ held = {}
    /\ mirror = EmptyMap /\ executions = {} /\ connected = FALSE
    /\ breaks = {} /\ settled = {}
    /\ saved = Captured
    /\ polled = {} /\ venue = EmptyMap /\ fills = {}
    /\ algorithmic = {} /\ resent = FALSE /\ restarts = 0

connect ==
    /\ ~connected /\ connected' = TRUE
    /\ UNCHANGED <<pipeline, mirror, executions, bindings, logs, saved, polled, outside>>

disconnect ==
    /\ connected /\ connected' = FALSE
    /\ UNCHANGED <<pipeline, mirror, executions, bindings, logs, saved, polled, outside>>

\* The run step of advance places an order: _submit_and_accept_order, under
\* EXTERNAL routing.  Ids are minted in sequence, and again after a restart.
Place ==
    LET o == Cardinality(DOMAIN orders) + 1
    IN  /\ o <= MaxOrders
        /\ orders' = MapSet(orders, o, [status |-> "ACCEPTED", filled |-> 0])
        /\ reserved' = MapSet(reserved, o, Commitment)
        /\ UNCHANGED <<reports, position, broker, bindings, logs, saved, polled, outside>>

-----------------------------------------------------------------------------
(* Routing *)

\* LiveRunState._at_venue and .unrouted_orders
unrouted_orders ==
    {o \in working_orders : /\ broker_order_id_for(o) \notin DOMAIN mapping
                            /\ children_of(o) = {}
                            /\ o \notin held}

\* External: the venue answers a submission with the order it holds, or takes
\* it, or refuses it.
VenueTakes(handle, quantity, answer) ==
    IF handle \in DOMAIN venue THEN answer = venue[handle]
    ELSE \E status \in {"ACCEPTED", "REJECTED"} :
            answer = [status |-> status, quantity |-> quantity, filled |-> 0]

Answers == [status: OrderStatus, quantity: 1..OrderQuantity, filled: 0..OrderQuantity]

\* RestVenueBroker.submit_order over a set of handles: the answers become the
\* mirror's orders.
submit_orders(handles, answers) ==
    /\ mirror' = [h \in DOMAIN mirror \cup handles |->
                     IF h \in handles THEN answers[h] ELSE mirror[h]]
    /\ venue' = [h \in DOMAIN venue \cup handles |->
                     IF h \in handles THEN answers[h] ELSE venue[h]]
    /\ resent' = (resent \/ handles \cap DOMAIN venue # {})

\* LiveSession.route_working_orders with route_order: nothing is sent unless
\* connected; validate_order_submission refuses a handle the mirror holds.  An
\* order is bound whatever the venue answered.
route_working_orders ==
    LET handles == {broker_order_id_for(o) : o \in unrouted_orders}
    IN  /\ connected /\ handles # {} /\ handles \cap DOMAIN mirror = {}
        /\ \E answers \in [handles -> Answers] :
              /\ \A h \in handles :
                    VenueTakes(h, remaining_quantity(ParentOf(h)), answers[h])
              /\ submit_orders(handles, answers)
        /\ mapping' = [h \in DOMAIN mapping \cup handles |-> ParentOf(h)]
        /\ UNCHANGED <<pipeline, executions, connected, children, held, logs, saved, polled,
                       fills, algorithmic, restarts>>

\* The answer to the last of the submissions is lost: the call raises, and the
\* caller is left with the state it had.  Orders go out in placement order.
RouteUnanswered ==
    /\ LosesResponses /\ connected
    /\ \E last \in unrouted_orders :
          LET handles == {broker_order_id_for(o) : o \in {o \in unrouted_orders : o <= last}}
          IN  /\ handles \cap DOMAIN mirror = {}
              /\ venue' = [h \in DOMAIN venue \cup handles |->
                              IF h \in DOMAIN venue THEN venue[h]
                              ELSE [status |-> "ACCEPTED", filled |-> 0,
                                    quantity |-> remaining_quantity(ParentOf(h))]]
              /\ resent' = (resent \/ handles \cap DOMAIN venue # {})
    /\ UNCHANGED <<pipeline, broker, bindings, logs, saved, polled, fills, algorithmic, restarts>>

\* LiveSession.hold
hold(o) ==
    /\ o \in working_orders /\ broker_order_id_for(o) \notin DOMAIN mapping
    /\ held' = held \cup {o}
    /\ algorithmic' = algorithmic \cup {o}
    /\ UNCHANGED <<pipeline, broker, mapping, children, logs, saved, polled, venue, fills,
                   resent, restarts>>

\* _working_at_venue
working_at_venue(o) ==
    MapThenSumSet(LAMBDA h : mirror[h].quantity - mirror[h].filled,
                  {h \in children_of(o) \cap DOMAIN mirror : ~is_terminal(mirror[h])})

\* Mutant: a parent already at the venue whole takes children.
ChildMayBeSentTwice(o, n, quantity) ==
    /\ connected
    /\ is_open(o)
    /\ working_at_venue(o) + quantity <= remaining_quantity(o)
    /\ child_broker_order_id(o, n) \notin DOMAIN children \cup DOMAIN mirror

\* The gates of route_child_order, in its order.
ChildMayBeSent(o, n, quantity) ==
    /\ connected
    /\ broker_order_id_for(o) \notin DOMAIN mapping
    /\ is_open(o)
    /\ working_at_venue(o) + quantity <= remaining_quantity(o)
    /\ child_broker_order_id(o, n) \notin DOMAIN children \cup DOMAIN mirror

\* LiveSession.route_child
route_child(o, n, quantity) ==
    LET handle == child_broker_order_id(o, n)
    IN  /\ ChildMayBeSent(o, n, quantity)
        /\ \E answer \in Answers : /\ VenueTakes(handle, quantity, answer)
                                   /\ submit_orders({handle}, [h \in {handle} |-> answer])
        /\ children' = MapSet(children, handle, o)
        /\ UNCHANGED <<pipeline, executions, connected, mapping, held, logs, saved, polled,
                       fills, algorithmic, restarts>>

-----------------------------------------------------------------------------
(* Settlement *)

ExecutionBreaks == {"UNKNOWN_ORDER", "TERMINAL_ORDER", "OVERFILL"}

\* Mutant: a redelivered fill is not recognised by the mirror.
classify_executionRepeats(f) ==
    IF f.handle \notin DOMAIN mirror THEN "UNKNOWN_ORDER"
    ELSE IF is_terminal(mirror[f.handle]) THEN "TERMINAL_ORDER"
    ELSE IF mirror[f.handle].filled + f.quantity > mirror[f.handle].quantity THEN "OVERFILL"
    ELSE "APPLIED"

\* classify_execution; the venue makes no fill of nothing.
classify_execution(f) ==
    IF f \in executions THEN "DUPLICATE"
    ELSE IF f.handle \notin DOMAIN mirror THEN "UNKNOWN_ORDER"
    ELSE IF is_terminal(mirror[f.handle]) THEN "TERMINAL_ORDER"
    ELSE IF mirror[f.handle].filled + f.quantity > mirror[f.handle].quantity THEN "OVERFILL"
    ELSE "APPLIED"

\* _status_after_fill; cancels in flight are BrokerMirror's.
AfterFill(order, quantity) ==
    LET filled == order.filled + quantity
    IN  [order EXCEPT !.filled = filled,
                      !.status = IF filled = order.quantity THEN "FILLED"
                                                            ELSE "PARTIALLY_FILLED"]

\* apply_execution, on the mirror
apply_execution(f) ==
    IF classify_execution(f) = "APPLIED"
    THEN /\ mirror' = [mirror EXCEPT ![f.handle] = AfterFill(@, f.quantity)]
         /\ executions' = executions \cup {f}
    ELSE UNCHANGED <<mirror, executions>>

\* _oms_order_for: the mapping alone says which order a fill belongs to.
HasOrder(f) == f.handle \in DOMAIN mapping /\ mapping[f.handle] \in DOMAIN orders

\* execution_report_from_broker
ReportKind(o, f) ==
    IF f.quantity >= remaining_quantity(o) THEN "filled" ELSE "partially_filled"

\* Mutant: a report already applied is applied again.
AlreadyBookedNever(f) == FALSE

AlreadyBooked(f) == f \in reports

\* OMSEngine.fill and .partial_fill refuse the report, and the call raises.
Raises(f) ==
    LET o == mapping[f.handle]
    IN  /\ classify_execution(f) \notin ExecutionBreaks /\ HasOrder(f) /\ ~AlreadyBooked(f)
        /\ \/ next_order_status(orders[o].status, ReportKind(o, f), orders[o].filled) = None
           \/ f.quantity > remaining_quantity(o)

\* Mutant: any fill frees what its order holds, as if it were the last.
ConsumedWhole(o, notional) == MapDelete(reserved, o)

\* AllocationEngine.apply_execution: a fill consumes what its order holds, up to
\* what it cost.  A reservation that is used up is deleted, and the order may
\* still be working.
Consumed(o, notional) ==
    IF o \notin DOMAIN reserved THEN reserved
    ELSE IF notional >= reserved[o] THEN MapDelete(reserved, o)
    ELSE MapSet(reserved, o, reserved[o] - notional)

\* _release_if_terminal: what an order that is over still holds is freed.
Released(reservations, o, status) ==
    IF status \in TerminalStatuses THEN MapDelete(reservations, o) ELSE reservations

\* ExecutionPipeline.apply_execution_report with _apply_reports: the OMS, the
\* portfolio, the capital the fill consumed, and the rest of it when the order
\* is over.
apply_execution_report(f) ==
    IF AlreadyBooked(f) THEN UNCHANGED pipeline
    ELSE LET o      == mapping[f.handle]
             status == next_order_status(orders[o].status, ReportKind(o, f), orders[o].filled)
         IN  /\ orders' = [orders EXCEPT ![o] = [status |-> status,
                                                 filled |-> @.filled + f.quantity]]
             /\ reports' = reports \cup {f}
             /\ position' = position + f.quantity
             /\ reserved' = Released(Consumed(o, f.notional), o, status)

\* Mutant: a fill the mirror already holds is not given to the portfolio.
BooksUnlessDuplicate(f) == classify_execution(f) = "APPLIED" /\ HasOrder(f)

\* A break stops a fill; a duplicate at the mirror does not.
Books(f) == classify_execution(f) \notin ExecutionBreaks /\ HasOrder(f)

\* LiveSession.settle, one execution of its loop.
settle(f) ==
    /\ f \in polled \/ "pushed" \in Delivery
    /\ ~Raises(f)
    /\ apply_execution(f)
    /\ breaks' = IF classify_execution(f) \in ExecutionBreaks THEN breaks \cup {f} ELSE breaks
    /\ IF Books(f) THEN apply_execution_report(f) ELSE UNCHANGED pipeline
    /\ settled' = settled \cup {f}
    /\ polled' = polled \ {f}
    /\ UNCHANGED <<connected, bindings, saved, outside>>

\* RestVenueBroker.poll_executions, one execution of its loop: only a fill that
\* was applied is returned, and a break is not recorded.
poll_executions(f) ==
    /\ "polled" \in Delivery /\ classify_execution(f) = "APPLIED"
    /\ apply_execution(f)
    /\ polled' = polled \cup {f}
    /\ UNCHANGED <<pipeline, connected, bindings, logs, saved, outside>>

-----------------------------------------------------------------------------
(* Orders that end without a fill *)

\* Mutant: an order that expired is not reported to the mirror.
MirrorEndCancelledOnly(handle) ==
    /\ handle \in DOMAIN mirror \cap DOMAIN venue
    /\ venue[handle].status = "CANCELLED" /\ ~is_terminal(mirror[handle])
    /\ mirror' = [mirror EXCEPT ![handle].status = "CANCELLED"]
    /\ UNCHANGED <<pipeline, executions, connected, bindings, logs, saved, polled, outside>>

\* The mirror learns of it (apply_venue_event; BrokerMirror has the detail).
MirrorEnd(handle) ==
    /\ handle \in DOMAIN mirror \cap DOMAIN venue
    /\ venue[handle].status \in {"CANCELLED", "EXPIRED"} /\ ~is_terminal(mirror[handle])
    /\ mirror' = [mirror EXCEPT ![handle].status = venue[handle].status]
    /\ UNCHANGED <<pipeline, executions, connected, bindings, logs, saved, polled, outside>>

\* External: what the venue has told the caller about an order sent whole, or
\* about one of its children once none of them works.
ReportedDead(o, status) ==
    LET whole == broker_order_id_for(o)
        sent  == {h \in DOMAIN venue : ParentOf(h) = o}
    IN  /\ \A h \in sent : is_terminal(venue[h])
        /\ \E h \in sent : venue[h].status = status /\ (whole \in sent => h = whole)

\* ExecutionPipeline.apply_terminal_outcome with _terminate_order
apply_terminal_outcome(o, outcome) ==
    LET event  == CASE outcome = "CANCELLED" -> "cancelled"
                    [] outcome = "EXPIRED"   -> "expired"
                    [] outcome = "REJECTED"  -> "rejected"
        status == next_order_status(orders[o].status, event, orders[o].filled)
    IN  /\ ReportedDead(o, outcome)
        /\ status # None
        /\ orders' = [orders EXCEPT ![o].status = status]
        /\ reserved' = Released(reserved, o, status)
        /\ UNCHANGED <<reports, position, broker, bindings, logs, saved, polled, outside>>

-----------------------------------------------------------------------------
(* Capture and restart *)

\* A caller that captures after every call always has its last state to restore.
capture ==
    /\ ~SavesEveryCall
    /\ saved # Captured /\ saved' = Captured
    /\ UNCHANGED <<pipeline, broker, bindings, logs, polled, outside>>

LastCaptured == IF SavesEveryCall THEN Captured ELSE saved

\* Mutant: the holds are not carried over.
RestoredForgetsHolds(snapshot) == [snapshot EXCEPT !.held = {}]

\* Mutant: the portfolio is restored without the ledger of what it has booked.
RestoredForgetsReports(snapshot) == [snapshot EXCEPT !.reports = {}]

Restored(snapshot) == snapshot

\* The process dies and live_snapshot.restore rebuilds the run: routed and
\* settled are not carried, and what a poll had returned dies with the caller.
restore ==
    LET state == Restored(LastCaptured)
    IN  /\ restarts < MaxRestarts /\ restarts' = restarts + 1
        /\ orders' = state.orders /\ reserved' = state.reserved
        /\ reports' = state.reports /\ position' = state.position
        /\ mapping' = state.mapping /\ held' = state.held
        /\ mirror' = state.mirror /\ executions' = state.executions
        /\ connected' = state.connected /\ breaks' = state.breaks
        /\ children' = from_mirror(state.mirror)
        /\ settled' = {} /\ polled' = {}
        /\ UNCHANGED <<saved, venue, fills, algorithmic, resent>>

-----------------------------------------------------------------------------
(* The venue *)

Trade(handle, quantity, notional) ==
    LET order == venue[handle]
    IN  /\ Cardinality(fills) < MaxFills
        /\ ~is_terminal(order) /\ order.filled + quantity <= order.quantity
        /\ venue' = [venue EXCEPT ![handle] = AfterFill(@, quantity)]
        /\ fills' = fills \cup {[id |-> Cardinality(fills) + 1, handle |-> handle,
                                 quantity |-> quantity, notional |-> notional]}
        /\ UNCHANGED <<pipeline, broker, bindings, logs, saved, polled, algorithmic, resent,
                       restarts>>

End(handle, status) ==
    /\ ~is_terminal(venue[handle])
    /\ venue' = [venue EXCEPT ![handle].status = status]
    /\ UNCHANGED <<pipeline, broker, bindings, logs, saved, polled, fills, algorithmic, resent,
                   restarts>>

-----------------------------------------------------------------------------
Quantities == 1..OrderQuantity

Next ==
    \/ connect \/ disconnect \/ Place
    \/ route_working_orders \/ RouteUnanswered
    \/ \E o \in DOMAIN orders :
          \/ hold(o)
          \/ \E n \in 1..MaxChildren, q \in Quantities : route_child(o, n, q)
          \/ \E outcome \in {"CANCELLED", "EXPIRED", "REJECTED"} :
                apply_terminal_outcome(o, outcome)
    \/ \E f \in fills : settle(f) \/ poll_executions(f)
    \/ \E h \in DOMAIN venue :
          \/ MirrorEnd(h)
          \/ \E q \in Quantities, n \in Notionals : Trade(h, q, n)
          \/ \E s \in {"CANCELLED", "EXPIRED"} : End(h, s)
    \/ capture \/ restore

Spec == Init /\ [][Next]_vars

\* The caller hands every fill the venue redelivers to settle, and passes on
\* what the venue says of a finished order.
Fairness ==
    /\ \A id \in 1..MaxFills : WF_vars(\E f \in fills : f.id = id /\ settle(f))
    /\ \A h \in Handles : WF_vars(MirrorEnd(h))

FairSpec == Spec /\ Fairness

-----------------------------------------------------------------------------
(* Properties *)

\* Types; an OMS order is never filled beyond its quantity, and only orders the
\* mirror holds are bound.
TypeOK ==
    /\ DOMAIN orders \subseteq OrderIds
    /\ orders \in [DOMAIN orders -> [status: OrderStatus, filled: 0..OrderQuantity]]
    /\ DOMAIN reserved \subseteq OrderIds /\ reserved \in [DOMAIN reserved -> Nat]
    /\ held \subseteq OrderIds /\ algorithmic \subseteq OrderIds
    /\ UNION {reports, executions, breaks, settled, polled, fills} \subseteq Fill
    /\ position \in Nat
    /\ DOMAIN mirror \subseteq Handles /\ mirror \in [DOMAIN mirror -> VenueOrder]
    /\ DOMAIN venue \subseteq Handles /\ venue \in [DOMAIN venue -> VenueOrder]
    /\ DOMAIN mapping \cup DOMAIN children \subseteq DOMAIN mirror
    /\ mapping \in [DOMAIN mapping -> OrderIds] /\ children \in [DOMAIN children -> OrderIds]
    /\ {connected, resent} \subseteq BOOLEAN
    /\ restarts \in 0..MaxRestarts

Total(set) == SumOf([f \in set |-> f.quantity])

\* "A genuine redelivery books nothing twice however it arrives" (settle): what
\* each OMS order has filled, and the position, are the fills booked, each
\* counted once, and the portfolio books only what the mirror has applied.
LedgersAgree ==
    /\ \A o \in DOMAIN orders :
          orders[o].filled = Total({f \in reports : ParentOf(f.handle) = o})
    /\ position = Total(reports)
    /\ reports \subseteq executions

\* "One parent is worked one way" (broker_routing): no order is bound both whole
\* and in children, and a held order is never bound whole.
WorkedOneWay ==
    \A h \in DOMAIN mapping : children_of(mapping[h]) = {} /\ mapping[h] \notin held

\* "from_mirror rebuilds them exactly" (live_snapshot): at every moment the
\* bindings a restart would rebuild are the bindings the run holds.
BindingsRebuilt == children = from_mirror(mirror)

\* A held order "reaches the venue only as the children route_child sends for
\* it, now and after a restart" (hold), and a restarted run "never re-sends" an
\* order the venue holds.
HeldNeverSentWhole ==
    /\ \A o \in algorithmic : broker_order_id_for(o) \notin DOMAIN venue
    /\ ~resent

\* Every fill settle has taken for an order of the run is in the portfolio, or is
\* on the reconciliation log for a human: none is dropped between two ledgers.
SettledIsAccounted ==
    \A f \in settled : f.handle \in DOMAIN mapping => f \in reports \cup breaks

\* "A fill consumes the reservation up to what it executed" and "an order that is
\* still working keeps its reservation" (apply_execution, _release_if_terminal):
\* the capital held is, for each working order, what it was given less what its
\* booked fills cost, until they have used it up - a fill counted once however
\* often it is delivered, at whatever price, before and after a restart - and
\* nothing is held for an order that is over, however it ended.
SpentOn(o) == SumOf([f \in {f \in reports : ParentOf(f.handle) = o} |-> f.notional])

ReservedIsUnspent ==
    reserved = [o \in {o \in working_orders : SpentOn(o) < Commitment} |->
                   Commitment - SpentOn(o)]

\* The run refuses a fill that the mirror accepts (and settle raises) only if the
\* caller closed the OMS order before the mirror heard of it.
RefusedOnlyIfClosedFirst ==
    \A f \in fills : Raises(f) => ~is_open(mapping[f.handle])

\* "A live adapter reusing that function ... is what makes a venue redelivering
\* its whole fill history after a reconnect safe" (reference adapter): the mirror
\* never counts more of an order as filled than the venue has filled.
MirrorNotAhead ==
    \A h \in DOMAIN mirror \cap DOMAIN venue : mirror[h].filled <= venue[h].filled

\* An order is worked one way, and a restart finds the bindings of every child.
HandlesAgree == WorkedOneWay /\ BindingsRebuilt

\* With every call saved and no answer lost: the session is well formed, its
\* handles agree, and its mirror is not ahead of the venue.
SessionInv == TypeOK /\ HandlesAgree /\ MirrorNotAhead

\* A child "must not put more at the venue than the parent has left unfilled"
\* (route_child_order): what the children of an order trade fits the order.
ParentNotOvertraded ==
    \A o \in OrderIds : Total({f \in fills : ParentOf(f.handle) = o}) <= OrderQuantity

\* Polling for "everything the venue still holds ... is what a recovering process
\* wants" (poll_executions): a fill of a bound order that the mirror has applied
\* is booked, or is still on its way to settle.
PolledIsBooked ==
    \A f \in executions : f.handle \in DOMAIN mapping => f \in reports \cup polled

\* Every fill of an order the run sent whole ends in the portfolio or on the
\* reconciliation log, whatever is lost, redelivered or restarted.
FillsAreSettled ==
    \A id \in 1..MaxFills :
        (\E f \in fills : f.id = id /\ ~IsChild(f.handle))
            ~> (\E f \in reports \cup breaks : f.id = id)
=============================================================================
