-------------------------------- MODULE OMS --------------------------------
(***************************************************************************)
(* The order management system: oms/engine.py over oms/order.py,           *)
(* oms/state.py and oms/book.py, and the capture / restore round trip of   *)
(* oms/snapshot.py.                                                        *)
(*                                                                         *)
(* A call that the code refuses by raising returns no new state, so it is  *)
(* no step here: the refusals are the guards.                              *)
(*                                                                         *)
(* A PersistentSet iterates in insertion order.  It is modelled as a       *)
(* function from its members to the moment each was inserted, a position   *)
(* of the history log; iteration is by increasing position.  Timestamps,   *)
(* prices of fills and the average fill price are left out.                *)
(***************************************************************************)
EXTENDS OrderLifecycle, Sequences

CONSTANTS
    OrderIds,       \* identities a caller may submit an order under
    Assets,         \* assets an order may be for
    OrderTypes,     \* types an order may have
    MaxQuantity,    \* quantities are 1..MaxQuantity
    MaxHistory      \* bound on the length of the history log

ASSUME BoundsAssumption == MaxQuantity \in Nat /\ MaxHistory \in Nat

VARIABLES
    orders,             \* OrderBook._orders: id -> Order
    placed,             \* insertion positions of OrderBook._orders
    active_orders,      \* PersistentSet of the ids still working
    completed_orders,   \* PersistentSet of the ids no longer working
    working_by_asset,   \* asset -> PersistentSet; an empty set has no entry
    history             \* the event log (history and events grow together)

vars == <<orders, placed, active_orders, completed_orders, working_by_asset, history>>

Quantities == 1..MaxQuantity

\* core/enums.py OrderType: only the two limit types name a limit price
\* (OrderTerms), and only a stop-limit order is triggered and then works on.
AllOrderTypes == {"market", "limit", "stop", "stop_limit"}

ASSUME OrderTypesAssumption == OrderTypes \subseteq AllOrderTypes

NamesLimit(type) == type \in {"limit", "stop_limit"}

Order == [asset: Assets, type: OrderTypes, limit: BOOLEAN, status: OrderStatus,
          quantity: Nat, filled: Nat, remaining: Nat, triggered: BOOLEAN]

EventKinds == {"submitted"} \cup OrderEventKinds

Event == [kind: EventKinds, id: OrderIds, quantity: Nat]

is_open(order) == order.status \in WorkingStatuses

-----------------------------------------------------------------------------
(* PersistentSet and PersistentMap, as far as the engine uses them *)

EmptyMap == [x \in {} |-> 0]

MapSet(map, key, value) ==
    [k \in DOMAIN map \cup {key} |-> IF k = key THEN value ELSE map[k]]

MapDelete(map, key) == [k \in DOMAIN map \ {key} |-> map[k]]

\* PersistentSet.add: a member already held keeps its place.
SetAdd(set, member, now) ==
    IF member \in DOMAIN set THEN set ELSE MapSet(set, member, now)

\* PersistentSet.discard: a no-op if the member is absent.
SetDiscard(set, member) == MapDelete(set, member)

Held(index, asset) == IF asset \in DOMAIN index THEN index[asset] ELSE EmptyMap

\* Mutant: the entry of an asset with nothing working is kept, empty.
IndexPutKeepsEmpty(index, asset, working) == MapSet(index, asset, working)

\* The index entry is written when it has members and deleted when it has none.
IndexPut(index, asset, working) ==
    IF DOMAIN working = {} THEN MapDelete(index, asset)
                           ELSE MapSet(index, asset, working)

-----------------------------------------------------------------------------
Init ==
    /\ orders = EmptyMap
    /\ placed = EmptyMap
    /\ active_orders = EmptyMap
    /\ completed_orders = EmptyMap
    /\ working_by_asset = EmptyMap
    /\ history = <<>>

Now == Len(history)

\* Mutant: storing an order again moves it to the end of its asset's index.
StoreMovesToEnd(id, order) ==
    /\ orders' = MapSet(orders, id, order)
    /\ placed' = SetAdd(placed, id, Now)
    /\ active_orders' = IF is_open(order) THEN SetAdd(active_orders, id, Now)
                                          ELSE SetDiscard(active_orders, id)
    /\ completed_orders' = IF is_open(order) THEN SetDiscard(completed_orders, id)
                                             ELSE SetAdd(completed_orders, id, Now)
    /\ working_by_asset' =
          LET held == SetDiscard(Held(working_by_asset, order.asset), id)
          IN  IndexPut(working_by_asset, order.asset,
                       IF is_open(order) THEN SetAdd(held, id, Now) ELSE held)

\* OMSEngine._store without its event: book, both sets and the index together.
Store(id, order) ==
    LET held == Held(working_by_asset, order.asset)
    IN  /\ orders' = MapSet(orders, id, order)
        /\ placed' = SetAdd(placed, id, Now)
        /\ IF is_open(order)
           THEN /\ active_orders' = SetAdd(active_orders, id, Now)
                /\ completed_orders' = SetDiscard(completed_orders, id)
                /\ working_by_asset' =
                      IndexPut(working_by_asset, order.asset, SetAdd(held, id, Now))
           ELSE /\ active_orders' = SetDiscard(active_orders, id)
                /\ completed_orders' = SetAdd(completed_orders, id, Now)
                /\ working_by_asset' =
                      IndexPut(working_by_asset, order.asset, SetDiscard(held, id))

Log(kind, id, quantity) ==
    /\ Now < MaxHistory
    /\ history' = Append(history, [kind |-> kind, id |-> id, quantity |-> quantity])

\* Order._next
next_status(id, event) ==
    next_order_status(orders[id].status, event, orders[id].filled)

-----------------------------------------------------------------------------
(* The operations *)

\* OMSEngine.submit of the order the pipeline builds: NEW, nothing filled, its
\* prices those its type names.  A second order under a known id is refused.
submit(id, asset, type, quantity) ==
    /\ id \notin DOMAIN orders
    /\ Store(id, [asset |-> asset, type |-> type, limit |-> NamesLimit(type),
                  status |-> "NEW", quantity |-> quantity, filled |-> 0,
                  remaining |-> quantity, triggered |-> FALSE])
    /\ Log("submitted", id, quantity)

\* accept, reject, cancel and expire: one status event each, no quantity.
StatusEvent(id, event) ==
    /\ id \in DOMAIN orders
    /\ next_status(id, event) # None
    /\ Store(id, [orders[id] EXCEPT !.status = next_status(id, event)])
    /\ Log(event, id, 0)

accept(id) == StatusEvent(id, "accepted")

reject(id) == StatusEvent(id, "rejected")

cancel(id) == StatusEvent(id, "cancelled")

expire(id) == StatusEvent(id, "expired")

\* The order after a fill of the given quantity (Order._filled_by onwards).
FilledBy(id, event, quantity) ==
    [orders[id] EXCEPT !.status = next_status(id, event),
                       !.filled = @ + quantity,
                       !.remaining = orders[id].quantity - (orders[id].filled + quantity)]

\* A partial fill must leave quantity working.
partial_fill(id, quantity) ==
    /\ id \in DOMAIN orders
    /\ next_status(id, "partially_filled") # None
    /\ quantity > 0
    /\ orders[id].filled + quantity < orders[id].quantity
    /\ Store(id, FilledBy(id, "partially_filled", quantity))
    /\ Log("partially_filled", id, quantity)

\* Mutant: a complete fill may execute more than was working.
fillBeyond(id, quantity) ==
    /\ id \in DOMAIN orders
    /\ next_status(id, "filled") # None
    /\ quantity > 0
    /\ orders[id].filled + quantity >= orders[id].quantity
    /\ Store(id, FilledBy(id, "filled", quantity))
    /\ Log("filled", id, quantity)

\* A complete fill must complete the order exactly.
fill(id, quantity) ==
    /\ id \in DOMAIN orders
    /\ next_status(id, "filled") # None
    /\ quantity > 0
    /\ orders[id].filled + quantity = orders[id].quantity
    /\ Store(id, FilledBy(id, "filled", quantity))
    /\ Log("filled", id, quantity)

\* trigger: recorded once, logs nothing, leaves the status alone.  The pipeline
\* asks it of a stop-limit order that is still working.
trigger(id) ==
    /\ id \in DOMAIN orders
    /\ orders[id].type = "stop_limit" /\ is_open(orders[id])
    /\ ~orders[id].triggered
    /\ Store(id, [orders[id] EXCEPT !.triggered = TRUE])
    /\ UNCHANGED history

\* Mutant: the log records what is left working instead of the new quantity.
replaceLogsRemaining(id, quantity, new_limit) ==
    /\ id \in DOMAIN orders
    /\ next_status(id, "replaced") # None
    /\ quantity > orders[id].filled
    /\ Store(id, [orders[id] EXCEPT !.quantity = quantity,
                                    !.remaining = quantity - orders[id].filled])
    /\ Log("replaced", id, quantity - orders[id].filled)

\* replace: a new quantity above what has filled, and perhaps a new limit.
replace(id, quantity, new_limit) ==
    /\ id \in DOMAIN orders
    /\ next_status(id, "replaced") # None
    /\ quantity > orders[id].filled
    /\ Store(id, [orders[id] EXCEPT !.status = next_status(id, "replaced"),
                                    !.quantity = quantity,
                                    !.remaining = quantity - orders[id].filled,
                                    !.limit = @ \/ new_limit])
    /\ Log("replaced", id, quantity)

\* snapshot.capture then snapshot.restore in a new process: everything is
\* written except the working index, which is rebuilt from active_orders.
RebuiltIndex ==
    [a \in {orders[o].asset : o \in DOMAIN active_orders} |->
        [o \in {o \in DOMAIN active_orders : orders[o].asset = a} |-> active_orders[o]]]

restore ==
    /\ working_by_asset' = RebuiltIndex
    /\ UNCHANGED <<orders, placed, active_orders, completed_orders, history>>

Next ==
    \/ \E id \in OrderIds, a \in Assets, t \in OrderTypes, q \in Quantities :
          submit(id, a, t, q)
    \/ \E id \in OrderIds : \/ accept(id) \/ reject(id) \/ cancel(id)
                            \/ expire(id) \/ trigger(id)
    \/ \E id \in OrderIds, q \in Quantities : partial_fill(id, q) \/ fill(id, q)
    \/ \E id \in OrderIds, q \in Quantities, l \in BOOLEAN : replace(id, q, l)
    \/ restore

Spec == Init /\ [][Next]_vars

-----------------------------------------------------------------------------
(* Properties *)

IsOrderedSet(set) == DOMAIN set \subseteq OrderIds /\ set \in [DOMAIN set -> Nat]

\* Every variable holds a value of the shape its dataclass declares.
TypeOK ==
    /\ DOMAIN orders \subseteq OrderIds /\ orders \in [DOMAIN orders -> Order]
    /\ IsOrderedSet(placed)
    /\ IsOrderedSet(active_orders)
    /\ IsOrderedSet(completed_orders)
    /\ DOMAIN working_by_asset \subseteq Assets
    /\ \A a \in DOMAIN working_by_asset : IsOrderedSet(working_by_asset[a])
    /\ history \in Seq(Event)

\* OMSState: "active_orders and completed_orders partition the book's orders by
\* whether they are still working", whatever events, amendments and restores
\* came before.
Partition ==
    /\ DOMAIN placed = DOMAIN orders
    /\ DOMAIN active_orders = {id \in DOMAIN orders : is_open(orders[id])}
    /\ DOMAIN completed_orders = {id \in DOMAIN orders : ~is_open(orders[id])}

Accounts(o) ==
    /\ o.filled + o.remaining = o.quantity
    /\ o.status = "FILLED" <=> o.remaining = 0
    /\ o.status \in {"NEW", "ACCEPTED", "REJECTED"} => o.filled = 0
    /\ o.status = "PARTIALLY_FILLED" => o.filled > 0
    /\ o.status \notin {"PENDING", "CANCEL_PENDING"}

\* The quantities of an order agree with each other and with its status: what
\* is filled and what remains add up, FILLED means nothing remains, a working
\* order has something left, and only an order that has not traded is NEW,
\* ACCEPTED or REJECTED.
FillAccounting == \A id \in DOMAIN orders : Accounts(orders[id])

\* The derived index that a run trades from is, at every moment, exactly what
\* restore would rebuild from a snapshot: same assets, same orders, same
\* order of working.  A restart can therefore not change which order is
\* worked next.
RestoreIsExact == working_by_asset = RebuiltIndex

\* working_orders_for: "in the order they were placed".  Within an asset the
\* working orders iterate in the order the book received them, although each
\* was stored again at every transition.
WorkedInPlacementOrder ==
    \A a \in DOMAIN working_by_asset :
        \A x, y \in DOMAIN working_by_asset[a] :
            working_by_asset[a][x] < working_by_asset[a][y] <=> placed[x] < placed[y]

\* The book is consistent: the sets that partition it, the quantities of each
\* order, and the order in which its working orders come up.
BookInv == Partition /\ FillAccounting /\ WorkedInPlacementOrder

\* The orders a log has events of.
Logged(log) == {log[i].id : i \in DOMAIN log}

\* What the log says of one order: its events applied in turn.
Unlogged == [status |-> "none", quantity |-> 0, filled |-> 0]

Applied(order, event) ==
    CASE event.kind = "submitted" ->
            [status |-> "NEW", quantity |-> event.quantity, filled |-> 0]
      [] event.kind = "replaced" -> [order EXCEPT !.quantity = event.quantity]
      [] OTHER -> [order EXCEPT
                     !.status = next_order_status(order.status, event.kind, order.filled),
                     !.filled = @ + event.quantity]

Replayed(log, id) ==
    LET after[n \in 0..Len(log)] ==
            IF n = 0 THEN Unlogged
            ELSE IF log[n].id = id THEN Applied(after[n - 1], log[n]) ELSE after[n - 1]
    IN  after[Len(log)]

\* The log alone explains the book: replaying the events of an order through
\* the lifecycle table gives the status and quantities the book holds, so
\* every transition logged what it did, once and in order.
HistoryExplainsBook ==
    /\ Logged(history) = DOMAIN orders
    /\ \A id \in DOMAIN orders :
          Replayed(history, id) = [status |-> orders[id].status, quantity |-> orders[id].quantity,
                                   filled |-> orders[id].filled]

ClosedOrdersKept ==
    \A id \in DOMAIN orders :
        ~is_open(orders[id]) => id \in DOMAIN orders' /\ orders'[id] = orders[id]

\* Nothing any caller does moves an order out of a terminal status, changes
\* what it filled, or takes it out of the book.
TerminalIsFinal == [][ClosedOrdersKept]_vars
=============================================================================
