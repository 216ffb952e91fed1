------------------------------ MODULE OMSProofs ------------------------------
(***************************************************************************)
(* The OMS keeps its structures in agreement for every set of orders and   *)
(* assets and every bound.                                                 *)
(*                                                                         *)
(* RestoreIsExact and WorkedInPlacementOrder are not inductive alone: that *)
(* the index of an asset agrees with the active set needs the partition,   *)
(* and that it iterates in placement order needs ActiveAsPlaced -- an      *)
(* order enters the active set once, with its placement, because a status  *)
(* that left the active set is never left again.                           *)
(***************************************************************************)
EXTENDS OMS, WellFoundedInduction, TLAPS

\* An order's place among the active ones is its place in the book.
ActiveAsPlaced ==
    \A id \in DOMAIN active_orders : active_orders[id] = placed[id]

\* RestoreIsExact, entry by entry and member by member.
IndexAgrees ==
    /\ working_by_asset = [a \in DOMAIN working_by_asset |-> working_by_asset[a]]
    /\ \A a : a \in DOMAIN working_by_asset
                <=> \E o \in DOMAIN active_orders : orders[o].asset = a
    /\ \A a \in DOMAIN working_by_asset :
          /\ IsOrderedSet(working_by_asset[a])
          /\ \A o : o \in DOMAIN working_by_asset[a]
                     <=> o \in DOMAIN active_orders /\ orders[o].asset = a
          /\ \A o \in DOMAIN working_by_asset[a] : working_by_asset[a][o] = active_orders[o]

\* The agreement of the book, the two sets and the index.
Agreement == Partition /\ IndexAgrees /\ ActiveAsPlaced

IInv == TypeOK /\ Agreement /\ FillAccounting

-----------------------------------------------------------------------------
(* The lifecycle table *)

\* A transition exists only for a working order, and leads to a status.
LEMMA TransitionFacts ==
    ASSUME NEW s \in OrderStatus, NEW e \in OrderEventKinds, NEW f \in Nat,
           next_order_status(s, e, f) # None
    PROVE  /\ s \in WorkingStatuses
           /\ next_order_status(s, e, f) \in OrderStatus
<1>1. HasRow(s, e)
  BY DEF next_order_status
<1>2. s \in WorkingStatuses
  BY <1>1 DEF HasRow, WorkingStatuses, TerminalStatuses, OrderStatus
<1>3. RowTarget(s, e) \in OrderStatus
  BY DEF RowTarget, OrderStatus, OrderEventKinds, FillEventKinds, StatusEventKinds
<1>4. working_status_for(f) \in OrderStatus
  BY DEF working_status_for, OrderStatus
<1> QED
  BY <1>2, <1>3, <1>4 DEF next_order_status

-----------------------------------------------------------------------------
(* The index *)

\* An index that agrees member by member is the one restore rebuilds.
LEMMA IndexExact ==
    ASSUME IndexAgrees
    PROVE  RestoreIsExact
<1>1. ASSUME NEW a \in DOMAIN working_by_asset
      PROVE  working_by_asset[a] =
               [o \in {o \in DOMAIN active_orders : orders[o].asset = a} |-> active_orders[o]]
  <2>1. DOMAIN working_by_asset[a] = {o \in DOMAIN active_orders : orders[o].asset = a}
    BY DEF IndexAgrees
  <2>2. working_by_asset[a] =
          [o \in DOMAIN working_by_asset[a] |-> working_by_asset[a][o]]
    BY DEF IndexAgrees, IsOrderedSet
  <2>3. \A o \in DOMAIN working_by_asset[a] : working_by_asset[a][o] = active_orders[o]
    BY DEF IndexAgrees
  <2> QED
    BY <2>1, <2>2, <2>3
<1>2. DOMAIN working_by_asset = {orders[o].asset : o \in DOMAIN active_orders}
  <2>1. \A a : a \in DOMAIN working_by_asset
                <=> a \in {orders[o].asset : o \in DOMAIN active_orders}
    BY DEF IndexAgrees
  <2> QED
    BY <2>1
<1>3. working_by_asset = [a \in DOMAIN working_by_asset |-> working_by_asset[a]]
  BY DEF IndexAgrees
<1> QED
  BY <1>1, <1>2, <1>3 DEF RestoreIsExact, RebuiltIndex

-----------------------------------------------------------------------------
(* Storing an order *)

\* Storing a new working order keeps the structures in agreement.
LEMMA StoreNew ==
    ASSUME TypeOK, Agreement, NEW id \in OrderIds, id \notin DOMAIN orders,
           NEW order \in Order, is_open(order), Store(id, order)
    PROVE  Agreement'
<1> USE DEF Agreement, Partition
<1>1. Partition'
  BY DEF TypeOK, IsOrderedSet, Store, MapSet, SetAdd, SetDiscard, MapDelete
<1>2. ActiveAsPlaced'
  BY DEF TypeOK, IsOrderedSet, ActiveAsPlaced, Store, MapSet, SetAdd
<1>3. IndexAgrees'
  <2> DEFINE held == Held(working_by_asset, order.asset)
             work == SetAdd(held, id, Now)
  <2>1. id \notin DOMAIN active_orders
    OBVIOUS
  <2>2. /\ \A o : o \in DOMAIN held
                    <=> o \in DOMAIN active_orders /\ orders[o].asset = order.asset
        /\ \A o \in DOMAIN held : held[o] = active_orders[o]
        /\ IsOrderedSet(held)
    BY DEF IndexAgrees, Held, EmptyMap, IsOrderedSet
  <2>3. /\ orders' = MapSet(orders, id, order)
        /\ active_orders' = MapSet(active_orders, id, Now)
        /\ working_by_asset' = MapSet(working_by_asset, order.asset, work)
        /\ work = MapSet(held, id, Now)
    BY <2>1, <2>2 DEF Store, SetAdd, IndexPut, MapSet
  <2>4. Now \in Nat
    BY DEF TypeOK, Now
  <2>5. IsOrderedSet(work)
    BY <2>2, <2>3, <2>4 DEF IsOrderedSet, MapSet
  <2>6. /\ DOMAIN active_orders' = DOMAIN active_orders \cup {id}
        /\ active_orders'[id] = Now /\ orders'[id] = order
        /\ \A o \in DOMAIN active_orders :
              active_orders'[o] = active_orders[o] /\ orders'[o] = orders[o]
    BY <2>1, <2>3 DEF MapSet
  <2>7. /\ DOMAIN working_by_asset' = DOMAIN working_by_asset \cup {order.asset}
        /\ working_by_asset'[order.asset] = work
        /\ \A a \in DOMAIN working_by_asset \ {order.asset} :
              working_by_asset'[a] = working_by_asset[a]
        /\ working_by_asset' = [a \in DOMAIN working_by_asset' |-> working_by_asset'[a]]
    BY <2>3 DEF MapSet
  <2>8. /\ DOMAIN work = DOMAIN held \cup {id}
        /\ work[id] = Now
        /\ \A o \in DOMAIN held : work[o] = held[o]
    BY <2>1, <2>2, <2>3 DEF MapSet
  <2> HIDE DEF work, held
  <2>9. \A a : a \in DOMAIN working_by_asset'
               <=> \E o \in DOMAIN active_orders' : orders'[o].asset = a
    BY <2>6, <2>7 DEF IndexAgrees
  <2>10. ASSUME NEW a \in DOMAIN working_by_asset'
         PROVE  /\ IsOrderedSet(working_by_asset'[a])
                /\ \A o : o \in DOMAIN working_by_asset'[a]
                           <=> o \in DOMAIN active_orders' /\ orders'[o].asset = a
                /\ \A o \in DOMAIN working_by_asset'[a] :
                      working_by_asset'[a][o] = active_orders'[o]
    <3>1. CASE a = order.asset
      BY <3>1, <2>1, <2>2, <2>5, <2>6, <2>7, <2>8
    <3>2. CASE a # order.asset
      BY <3>2, <2>1, <2>6, <2>7 DEF IndexAgrees
    <3> QED BY <3>1, <3>2
  <2> QED
    BY <2>7, <2>9, <2>10 DEF IndexAgrees, IsOrderedSet
<1> QED
  BY <1>1, <1>2, <1>3

\* Storing a new version of a working order, for the same asset, keeps the
\* structures in agreement whether the order goes on working or not.
LEMMA StoreWorking ==
    ASSUME TypeOK, Agreement, NEW id \in DOMAIN orders, is_open(orders[id]),
           NEW order \in Order, order.asset = orders[id].asset, Store(id, order)
    PROVE  Agreement'
<1> USE DEF Agreement, Partition
<1>1. Partition'
  BY DEF TypeOK, IsOrderedSet, Store, MapSet, SetAdd, SetDiscard, MapDelete
<1>2. ActiveAsPlaced'
  BY DEF TypeOK, IsOrderedSet, ActiveAsPlaced, Store, MapSet, SetAdd, SetDiscard, MapDelete
<1>3. IndexAgrees'
  <2> DEFINE held == Held(working_by_asset, order.asset)
  <2>1. id \in DOMAIN active_orders /\ orders' = MapSet(orders, id, order)
    BY DEF Store
  <2>2. order.asset \in DOMAIN working_by_asset /\ held = working_by_asset[order.asset]
    BY <2>1 DEF IndexAgrees, Held
  <2>3. CASE is_open(order)
    <3>1. active_orders' = active_orders
      BY <2>1, <2>3 DEF Store, SetAdd
    <3>2. SetAdd(held, id, Now) = held /\ id \in DOMAIN held
      BY <2>1, <2>2 DEF IndexAgrees, SetAdd
    <3>3. working_by_asset' = MapSet(working_by_asset, order.asset, held)
      BY <2>3, <3>2 DEF Store, IndexPut
    <3>4. working_by_asset' = working_by_asset
      BY <2>2, <3>3 DEF MapSet, IndexAgrees
    <3>5. \A o \in DOMAIN active_orders : orders'[o].asset = orders[o].asset
      BY <2>1 DEF MapSet
    <3> QED
      BY <3>1, <3>4, <3>5 DEF IndexAgrees, IsOrderedSet
  <2>4. CASE ~is_open(order)
    <3> DEFINE work == MapDelete(held, id)
    <3>1. active_orders' = MapDelete(active_orders, id)
      BY <2>4 DEF Store, SetDiscard
    <3>2. IsOrderedSet(work)
      BY <2>2 DEF IndexAgrees, IsOrderedSet, MapDelete
    <3>3. CASE DOMAIN work = {}
      <4>1. working_by_asset' = MapDelete(working_by_asset, order.asset)
        BY <2>4, <3>3 DEF Store, IndexPut, SetDiscard
      <4> QED
        BY <2>1, <2>2, <3>1, <3>3, <4>1 DEF IndexAgrees, IsOrderedSet, MapDelete, MapSet
    <3>4. CASE DOMAIN work # {}
      <4>1. working_by_asset' = MapSet(working_by_asset, order.asset, work)
        BY <2>4, <3>4 DEF Store, IndexPut, SetDiscard
      <4> QED
        BY <2>1, <2>2, <3>1, <3>2, <3>4, <4>1 DEF IndexAgrees, IsOrderedSet, MapDelete, MapSet
    <3> QED
      BY <3>3, <3>4
  <2> QED
    BY <2>3, <2>4
<1> QED
  BY <1>1, <1>2, <1>3

-----------------------------------------------------------------------------
(* One step *)

\* Storing an order of the right shape keeps every variable but the log typed.
LEMMA StoreTyped ==
    ASSUME TypeOK, NEW id \in OrderIds, NEW order \in Order, Store(id, order),
           history' \in Seq(Event)
    PROVE  TypeOK'
<1> DEFINE held == Held(working_by_asset, order.asset)
<1>1. Now \in Nat /\ order.asset \in Assets
  BY DEF TypeOK, Now, Order
<1>2. IsOrderedSet(held)
  BY DEF TypeOK, Held, EmptyMap, IsOrderedSet
<1>3. \A set : IsOrderedSet(set) =>
         IsOrderedSet(SetAdd(set, id, Now)) /\ IsOrderedSet(SetDiscard(set, id))
  BY <1>1 DEF IsOrderedSet, SetAdd, SetDiscard, MapSet, MapDelete
<1>4. DOMAIN orders' \subseteq OrderIds /\ orders' \in [DOMAIN orders' -> Order]
  BY DEF TypeOK, Store, MapSet
<1>5. IsOrderedSet(placed') /\ IsOrderedSet(active_orders') /\ IsOrderedSet(completed_orders')
  BY <1>3 DEF TypeOK, Store
<1>6. \E work : IsOrderedSet(work)
               /\ working_by_asset' = IndexPut(working_by_asset, order.asset, work)
  BY <1>2, <1>3 DEF Store
<1>7. /\ DOMAIN working_by_asset' \subseteq Assets
      /\ \A a \in DOMAIN working_by_asset' : IsOrderedSet(working_by_asset'[a])
  BY <1>1, <1>6 DEF TypeOK, IndexPut, MapSet, MapDelete
<1> QED
  BY <1>4, <1>5, <1>7 DEF TypeOK, IsOrderedSet

\* Storing an order whose quantities agree keeps the quantities agreeing.
LEMMA StoreAccounts ==
    ASSUME FillAccounting, NEW id, NEW order, Accounts(order), Store(id, order)
    PROVE  FillAccounting'
BY DEF FillAccounting, Accounts, Store, MapSet

\* An operation on a known order: the order was working, keeps its asset, and
\* its new version has agreeing quantities.
LEMMA Transition ==
    ASSUME IInv, NEW id \in DOMAIN orders, NEW e \in OrderEventKinds,
           next_status(id, e) # None,
           NEW order \in Order, order.asset = orders[id].asset, Accounts(order),
           Store(id, order), NEW q \in Nat, Log(e, id, q)
    PROVE  IInv'
<1>1. id \in OrderIds /\ orders[id] \in Order
  BY DEF IInv, TypeOK
<1>2. is_open(orders[id])
  BY <1>1, TransitionFacts DEF next_status, is_open, Order
<1>3. history' \in Seq(Event)
  BY <1>1 DEF IInv, TypeOK, Log, Event, EventKinds
<1>4. TypeOK'
  BY <1>1, <1>3, StoreTyped DEF IInv
<1>5. Agreement'
  BY <1>2, StoreWorking DEF IInv
<1>6. FillAccounting'
  BY StoreAccounts DEF IInv
<1> QED
  BY <1>4, <1>5, <1>6 DEF IInv

LEMMA InitInv == Init => IInv
<1> SUFFICES ASSUME Init PROVE IInv
  OBVIOUS
<1> USE DEF Init, EmptyMap
<1>1. TypeOK
  BY DEF TypeOK, IsOrderedSet
<1>2. Agreement
  BY DEF Agreement, Partition, IndexAgrees, ActiveAsPlaced, IsOrderedSet
<1>3. FillAccounting
  BY DEF FillAccounting
<1> QED
  BY <1>1, <1>2, <1>3 DEF IInv

LEMMA SubmitInv ==
    ASSUME IInv, NEW id \in OrderIds, NEW a \in Assets, NEW t \in OrderTypes,
           NEW q \in Quantities, submit(id, a, t, q)
    PROVE  IInv'
<1> DEFINE order == [asset |-> a, type |-> t, limit |-> NamesLimit(t), status |-> "NEW",
                     quantity |-> q, filled |-> 0, remaining |-> q, triggered |-> FALSE]
<1>1. q \in Nat /\ q > 0
  BY BoundsAssumption DEF Quantities
<1>2. order \in Order
  BY <1>1 DEF Order, OrderStatus, NamesLimit
<1>3. is_open(order) /\ Accounts(order)
  BY <1>1 DEF is_open, WorkingStatuses, TerminalStatuses, OrderStatus, Accounts
<1>4. id \notin DOMAIN orders /\ Store(id, order) /\ Log("submitted", id, q)
  BY DEF submit
<1>5. history' \in Seq(Event)
  BY <1>1, <1>4 DEF IInv, TypeOK, Log, Event, EventKinds
<1> HIDE DEF order
<1>6. TypeOK'
  BY <1>2, <1>4, <1>5, StoreTyped DEF IInv
<1>7. Agreement'
  BY <1>2, <1>3, <1>4, StoreNew DEF IInv
<1>8. FillAccounting'
  BY <1>3, <1>4, StoreAccounts DEF IInv
<1> QED
  BY <1>6, <1>7, <1>8 DEF IInv

\* What the table says of the two fill events and of the events that end an
\* order: used to show that the quantities still agree with the status.
LEMMA TargetFacts ==
    ASSUME NEW s \in OrderStatus, NEW f \in Nat, s \notin {"PENDING", "CANCEL_PENDING"}
    PROVE  /\ next_order_status(s, "accepted", f) # None =>
                 s = "NEW" /\ next_order_status(s, "accepted", f) = "ACCEPTED"
           /\ next_order_status(s, "rejected", f) # None =>
                 f = 0 /\ next_order_status(s, "rejected", f) = "REJECTED"
           /\ next_order_status(s, "cancelled", f) # None =>
                 next_order_status(s, "cancelled", f) = "CANCELLED"
           /\ next_order_status(s, "expired", f) # None =>
                 next_order_status(s, "expired", f) = "EXPIRED"
           /\ next_order_status(s, "partially_filled", f) # None =>
                 next_order_status(s, "partially_filled", f) = "PARTIALLY_FILLED"
           /\ next_order_status(s, "filled", f) # None =>
                 next_order_status(s, "filled", f) = "FILLED"
           /\ next_order_status(s, "replaced", f) # None =>
                 next_order_status(s, "replaced", f) = s
<1>1. \A e : next_order_status(s, e, f) # None =>
             HasRow(s, e) /\ ~(e = "rejected" /\ f > 0)
  BY DEF next_order_status
<1>2. \A e : e # "cancel_rejected" /\ next_order_status(s, e, f) # None =>
             next_order_status(s, e, f) = RowTarget(s, e)
  BY DEF next_order_status
<1>3. /\ RowTarget(s, "accepted") = "ACCEPTED" /\ RowTarget(s, "rejected") = "REJECTED"
      /\ RowTarget(s, "cancelled") = "CANCELLED" /\ RowTarget(s, "expired") = "EXPIRED"
      /\ RowTarget(s, "partially_filled") = "PARTIALLY_FILLED"
      /\ RowTarget(s, "filled") = "FILLED" /\ RowTarget(s, "replaced") = s
  BY DEF RowTarget
<1>4. HasRow(s, "accepted") => s = "NEW"
  BY DEF HasRow, FillEventKinds
<1> QED
  BY <1>1, <1>2, <1>3, <1>4

LEMMA StatusEventInv ==
    ASSUME IInv, NEW id \in OrderIds,
           NEW e \in {"accepted", "rejected", "cancelled", "expired"}, StatusEvent(id, e)
    PROVE  IInv'
<1> DEFINE order == [orders[id] EXCEPT !.status = next_status(id, e)]
<1>1. /\ id \in DOMAIN orders /\ next_status(id, e) # None
      /\ Store(id, order) /\ Log(e, id, 0)
  BY DEF StatusEvent
<1>2. orders[id] \in Order /\ Accounts(orders[id])
  BY <1>1 DEF IInv, TypeOK, FillAccounting
<1>3. e \in OrderEventKinds
  BY DEF OrderEventKinds, StatusEventKinds
<1>4. is_open(orders[id]) /\ next_status(id, e) \in OrderStatus
  BY <1>1, <1>2, <1>3, TransitionFacts DEF next_status, is_open, Order
<1>5. order \in Order /\ order.asset = orders[id].asset
  BY <1>2, <1>4 DEF Order
<1>6. /\ orders[id].status \in OrderStatus \ {"PENDING", "CANCEL_PENDING"}
      /\ orders[id].filled \in Nat
  BY <1>2 DEF Order, Accounts
<1>7. \/ next_status(id, e) \in {"CANCELLED", "EXPIRED"}
      \/ next_status(id, e) = "ACCEPTED" /\ orders[id].status = "NEW"
      \/ next_status(id, e) = "REJECTED" /\ orders[id].filled = 0
  BY <1>1, <1>6, TargetFacts DEF next_status
<1>8. Accounts(order)
  BY <1>2, <1>4, <1>7 DEF Accounts, Order, is_open, WorkingStatuses, TerminalStatuses
<1> HIDE DEF order
<1> QED
  BY <1>1, <1>3, <1>5, <1>8, Transition

LEMMA PartialFillInv ==
    ASSUME IInv, NEW id \in OrderIds, NEW q \in Quantities, partial_fill(id, q)
    PROVE  IInv'
<1> DEFINE order == FilledBy(id, "partially_filled", q)
<1>1. /\ id \in DOMAIN orders /\ next_status(id, "partially_filled") # None
      /\ q > 0 /\ orders[id].filled + q < orders[id].quantity
      /\ Store(id, order) /\ Log("partially_filled", id, q)
  BY DEF partial_fill
<1>2. orders[id] \in Order /\ Accounts(orders[id]) /\ q \in Nat
  BY <1>1, BoundsAssumption DEF IInv, TypeOK, FillAccounting, Quantities
<1>3. next_status(id, "partially_filled") = "PARTIALLY_FILLED"
  BY <1>1, <1>2, TargetFacts DEF next_status, Order, Accounts
<1>4. /\ order \in Order /\ order.asset = orders[id].asset
      /\ Accounts(order)
  <2>1. /\ order.status = "PARTIALLY_FILLED" /\ order.filled = orders[id].filled + q
        /\ order.quantity = orders[id].quantity
        /\ order.remaining = orders[id].quantity - (orders[id].filled + q)
        /\ order.asset = orders[id].asset
    BY <1>2, <1>3 DEF FilledBy, Order
  <2>2. orders[id].quantity \in Nat /\ orders[id].filled \in Nat
    BY <1>2 DEF Order
  <2>3. order.remaining \in Nat /\ order.remaining > 0 /\ order.filled \in Nat /\ order.filled > 0
        /\ order.filled + order.remaining = order.quantity
    BY <1>1, <1>2, <2>1, <2>2
  <2>4. order \in Order
    <3>1. order = [orders[id] EXCEPT !.status = order.status, !.filled = order.filled,
                                     !.remaining = order.remaining]
      BY <1>2 DEF FilledBy, Order
    <3>2. order.status \in OrderStatus
      BY <2>1 DEF OrderStatus
    <3> HIDE DEF order
    <3> QED
      BY <1>2, <2>3, <3>1, <3>2 DEF Order
  <2> HIDE DEF order
  <2>5. Accounts(order)
    BY <2>1, <2>3 DEF Accounts
  <2> QED
    BY <2>1, <2>4, <2>5
<1>5. "partially_filled" \in OrderEventKinds
  BY DEF OrderEventKinds, FillEventKinds
<1> HIDE DEF order
<1> QED
  BY <1>1, <1>2, <1>4, <1>5, Transition

LEMMA FillInv ==
    ASSUME IInv, NEW id \in OrderIds, NEW q \in Quantities, fill(id, q)
    PROVE  IInv'
<1> DEFINE order == FilledBy(id, "filled", q)
<1>1. /\ id \in DOMAIN orders /\ next_status(id, "filled") # None
      /\ q > 0 /\ orders[id].filled + q = orders[id].quantity
      /\ Store(id, order) /\ Log("filled", id, q)
  BY DEF fill
<1>2. orders[id] \in Order /\ Accounts(orders[id]) /\ q \in Nat
  BY <1>1, BoundsAssumption DEF IInv, TypeOK, FillAccounting, Quantities
<1>3. next_status(id, "filled") = "FILLED"
  BY <1>1, <1>2, TargetFacts DEF next_status, Order, Accounts
<1>4. /\ order \in Order /\ order.asset = orders[id].asset
      /\ Accounts(order)
  <2>1. /\ order.status = "FILLED" /\ order.filled = orders[id].filled + q
        /\ order.quantity = orders[id].quantity
        /\ order.remaining = orders[id].quantity - (orders[id].filled + q)
        /\ order.asset = orders[id].asset
    BY <1>2, <1>3 DEF FilledBy, Order
  <2>2. orders[id].quantity \in Nat /\ orders[id].filled \in Nat
    BY <1>2 DEF Order
  <2>3. order.remaining \in Nat /\ order.remaining = 0 /\ order.filled \in Nat /\ order.filled > 0
        /\ order.filled + order.remaining = order.quantity
    BY <1>1, <1>2, <2>1, <2>2
  <2>4. order \in Order
    <3>1. order = [orders[id] EXCEPT !.status = order.status, !.filled = order.filled,
                                     !.remaining = order.remaining]
      BY <1>2 DEF FilledBy, Order
    <3>2. order.status \in OrderStatus
      BY <2>1 DEF OrderStatus
    <3> HIDE DEF order
    <3> QED
      BY <1>2, <2>3, <3>1, <3>2 DEF Order
  <2> HIDE DEF order
  <2>5. Accounts(order)
    BY <2>1, <2>3 DEF Accounts
  <2> QED
    BY <2>1, <2>4, <2>5
<1>5. "filled" \in OrderEventKinds
  BY DEF OrderEventKinds, FillEventKinds
<1> HIDE DEF order
<1> QED
  BY <1>1, <1>2, <1>4, <1>5, Transition

LEMMA TriggerInv ==
    ASSUME IInv, NEW id \in OrderIds, trigger(id)
    PROVE  IInv'
<1> DEFINE order == [orders[id] EXCEPT !.triggered = TRUE]
<1>1. id \in DOMAIN orders /\ is_open(orders[id]) /\ Store(id, order) /\ history' = history
  BY DEF trigger
<1>2. orders[id] \in Order /\ Accounts(orders[id])
  BY <1>1 DEF IInv, TypeOK, FillAccounting
<1>3. order \in Order /\ order.asset = orders[id].asset /\ Accounts(order)
  BY <1>2 DEF Order, Accounts
<1> HIDE DEF order
<1>4. TypeOK'
  BY <1>1, <1>3, StoreTyped DEF IInv, TypeOK
<1>5. Agreement'
  BY <1>1, <1>3, StoreWorking DEF IInv
<1>6. FillAccounting'
  BY <1>1, <1>3, StoreAccounts DEF IInv
<1> QED
  BY <1>4, <1>5, <1>6 DEF IInv

LEMMA ReplaceInv ==
    ASSUME IInv, NEW id \in OrderIds, NEW q \in Quantities, NEW l \in BOOLEAN,
           replace(id, q, l)
    PROVE  IInv'
<1> DEFINE order == [orders[id] EXCEPT !.status = next_status(id, "replaced"),
                                       !.quantity = q,
                                       !.remaining = q - orders[id].filled,
                                       !.limit = @ \/ l]
<1>1. /\ id \in DOMAIN orders /\ next_status(id, "replaced") # None
      /\ q > orders[id].filled /\ Store(id, order) /\ Log("replaced", id, q)
  BY DEF replace
<1>2. orders[id] \in Order /\ Accounts(orders[id]) /\ q \in Nat
  BY <1>1, BoundsAssumption DEF IInv, TypeOK, FillAccounting, Quantities
<1>3. "replaced" \in OrderEventKinds
  BY DEF OrderEventKinds
<1>4. next_status(id, "replaced") = orders[id].status /\ is_open(orders[id])
  BY <1>1, <1>2, <1>3, TargetFacts, TransitionFacts DEF next_status, Order, Accounts, is_open
<1>5. /\ orders[id].filled \in Nat /\ q - orders[id].filled \in Nat
      /\ q - orders[id].filled > 0
      /\ orders[id].filled + (q - orders[id].filled) = q
      /\ (orders[id].limit \/ l) \in BOOLEAN
  BY <1>1, <1>2 DEF Order
<1>6. order \in Order /\ order.asset = orders[id].asset
  BY <1>2, <1>4, <1>5 DEF Order
<1>7. Accounts(order)
  <2>1. /\ order.status = orders[id].status /\ order.quantity = q
        /\ order.filled = orders[id].filled /\ order.remaining = q - orders[id].filled
    BY <1>2, <1>4 DEF Order
  <2>2. orders[id].status # "FILLED"
    BY <1>4 DEF is_open, WorkingStatuses, TerminalStatuses
  <2> HIDE DEF order
  <2> QED
    BY <1>2, <1>5, <2>1, <2>2 DEF Accounts
<1> HIDE DEF order
<1> QED
  BY <1>1, <1>2, <1>3, <1>6, <1>7, Transition

LEMMA RestoreInv == ASSUME IInv, restore PROVE IInv'
<1>1. RestoreIsExact
  BY IndexExact DEF IInv, Agreement
<1>2. UNCHANGED vars
  BY <1>1 DEF restore, RestoreIsExact, vars
<1> QED
  BY <1>2 DEF IInv, TypeOK, IsOrderedSet, Agreement, Partition, IndexAgrees, ActiveAsPlaced,
              FillAccounting, vars

\* The inductive invariant holds of every step.
LEMMA StepInv == IInv /\ [Next]_vars => IInv'
<1> SUFFICES ASSUME IInv, [Next]_vars PROVE IInv'
  OBVIOUS
<1>1. CASE UNCHANGED vars
  BY <1>1 DEF IInv, TypeOK, IsOrderedSet, Agreement, Partition, IndexAgrees, ActiveAsPlaced,
              FillAccounting, vars
<1>2. ASSUME NEW id \in OrderIds, NEW a \in Assets, NEW t \in OrderTypes, NEW q \in Quantities,
             submit(id, a, t, q)
      PROVE  IInv'
  BY <1>2, SubmitInv
<1>3. ASSUME NEW id \in OrderIds, accept(id) \/ reject(id) \/ cancel(id) \/ expire(id)
      PROVE  IInv'
  BY <1>3, StatusEventInv DEF accept, reject, cancel, expire
<1>4. ASSUME NEW id \in OrderIds, trigger(id) PROVE IInv'
  BY <1>4, TriggerInv
<1>5. ASSUME NEW id \in OrderIds, NEW q \in Quantities, partial_fill(id, q) \/ fill(id, q)
      PROVE  IInv'
  BY <1>5, PartialFillInv, FillInv
<1>6. ASSUME NEW id \in OrderIds, NEW q \in Quantities, NEW l \in BOOLEAN, replace(id, q, l)
      PROVE  IInv'
  BY <1>6, ReplaceInv
<1>7. CASE restore
  BY <1>7, RestoreInv
<1> QED
  BY <1>1, <1>2, <1>3, <1>4, <1>5, <1>6, <1>7 DEF Next

-----------------------------------------------------------------------------
(* The log *)

\* A set of numbers that has a member has a least one.
LEMMA LeastNumber ==
    ASSUME NEW S \in SUBSET Nat, S # {}
    PROVE  \E n \in S : \A m \in S : n <= m
<1> DEFINE Less == OpToRel(<, Nat)
<1>1. IsWellFoundedOn(Less, Nat)
  BY NatLessThanWellFounded
<1>2. PICK n \in S : \A m \in S : ~(<<m, n>> \in Less)
  <2> HIDE DEF Less
  <2> QED
    BY <1>1, WFMin
<1>3. n \in Nat /\ \A m \in Nat : m < n => m \notin S
  BY <1>2 DEF OpToRel
<1> QED
  BY <1>3

\* A function that replays a log, event by event.
Replays(log, id, after) ==
    after = [n \in 0..Len(log) |->
                IF n = 0 THEN Unlogged
                ELSE IF log[n].id = id THEN Applied(after[n - 1], log[n]) ELSE after[n - 1]]

Replayable(log) == \A id : \E after : Replays(log, id, after)

\* What a log says once an event has been added to it.
Reads(longer, log, event) ==
    \A id : Replayed(longer, id) =
        IF event.id = id THEN Applied(Replayed(log, id), event) ELSE Replayed(log, id)

\* One more event: it is applied to what the log before it says.
LEMMA ReplayGrows ==
    ASSUME NEW log \in Seq(Event), NEW event \in Event, Replayable(log),
           NEW longer, longer = Append(log, event)
    PROVE  Replayable(longer) /\ Reads(longer, log, event)
<1>1. /\ longer \in Seq(Event) /\ Len(log) \in Nat /\ Len(longer) = Len(log) + 1
      /\ longer[Len(log) + 1] = event
      /\ \A n \in 1..Len(log) : longer[n] = log[n]
  OBVIOUS
<1>2. ASSUME NEW id
      PROVE  /\ \E after : Replays(longer, id, after)
             /\ Replayed(longer, id) =
                 IF event.id = id THEN Applied(Replayed(log, id), event) ELSE Replayed(log, id)
  <2> DEFINE last == Len(log)
             before == CHOOSE after : Replays(log, id, after)
             next == IF event.id = id THEN Applied(before[last], event) ELSE before[last]
             more == [n \in 0..(last + 1) |-> IF n = last + 1 THEN next ELSE before[n]]
             chosen == CHOOSE after : Replays(longer, id, after)
  <2>1. Replays(log, id, before)
    BY DEF Replayable
  <2>2. Replayed(log, id) = before[last]
    BY DEF Replayed, Replays
  <2>3. Replayed(longer, id) = chosen[last + 1]
    BY <1>1 DEF Replayed, Replays
  <2> HIDE DEF before, chosen
  <2>4. Replays(longer, id, more)
    <3>1. more = [n \in 0..(last + 1) |->
                    IF n = 0 THEN Unlogged
                    ELSE IF longer[n].id = id THEN Applied(more[n - 1], longer[n]) ELSE more[n - 1]]
      <4>1. ASSUME NEW n \in 0..(last + 1)
            PROVE  more[n] = IF n = 0 THEN Unlogged
                             ELSE IF longer[n].id = id THEN Applied(more[n - 1], longer[n])
                             ELSE more[n - 1]
        <5>1. CASE n = last + 1
          BY <1>1, <5>1
        <5>2. CASE n \in 1..last
          <6>1. more[n] = before[n] /\ more[n - 1] = before[n - 1] /\ longer[n] = log[n]
            BY <1>1, <5>2
          <6>2. before[n] = IF log[n].id = id THEN Applied(before[n - 1], log[n]) ELSE before[n - 1]
            BY <1>1, <2>1, <5>2 DEF Replays
          <6> QED
            BY <1>1, <5>2, <6>1, <6>2
        <5>3. CASE n = 0
          BY <1>1, <2>1, <5>3 DEF Replays
        <5> QED
          BY <1>1, <5>1, <5>2, <5>3
      <4> HIDE DEF more
      <4>2. DOMAIN more = 0..(last + 1) /\ more = [n \in DOMAIN more |-> more[n]]
        BY DEF more
      <4> QED
        BY <4>1, <4>2
    <3> QED
      BY <1>1, <3>1 DEF Replays
  <2>5. Replays(longer, id, chosen)
    BY <2>4 DEF chosen
  <2>6. \A n \in 0..(last + 1) : chosen[n] = more[n]
    <3> SUFFICES ASSUME NEW m \in 0..(last + 1), chosen[m] # more[m] PROVE FALSE
      OBVIOUS
    <3> DEFINE differ == {n \in 0..(last + 1) : chosen[n] # more[n]}
    <3>1. PICK n \in differ : \A k \in differ : n <= k
      <4>1. differ \in SUBSET Nat /\ differ # {}
        BY <1>1
      <4> HIDE DEF differ, more
      <4> QED
        BY <4>1, LeastNumber
    <3>2. n # 0 => chosen[n - 1] = more[n - 1]
      <4>1. n # 0 => n - 1 \in 0..(last + 1) /\ ~(n <= n - 1)
        BY <1>1, <3>1
      <4> HIDE DEF more
      <4> QED
        BY <3>1, <4>1
    <3> HIDE DEF more
    <3>3. /\ n \in 0..Len(longer) /\ chosen[n] # more[n]
          /\ n # 0 => chosen[n - 1] = more[n - 1]
      BY <1>1, <3>1, <3>2
    <3>4. \A k \in 0..Len(longer) : \A after : Replays(longer, id, after) =>
             after[k] = IF k = 0 THEN Unlogged
                        ELSE IF longer[k].id = id THEN Applied(after[k - 1], longer[k])
                        ELSE after[k - 1]
      BY DEF Replays
    <3> QED
      BY <2>4, <2>5, <3>3, <3>4
  <2> QED
    BY <1>1, <2>2, <2>3, <2>4, <2>6
<1> QED
  BY <1>2 DEF Replayable, Reads

\* What the log says of each order, and that it says it.
HistoryInv == Replayable(history) /\ HistoryExplainsBook

\* A status event or a fill, applied.
LEMMA AppliedEvent ==
    ASSUME NEW s, NEW q, NEW f, NEW event,
           event.kind # "submitted", event.kind # "replaced"
    PROVE  Applied([status |-> s, quantity |-> q, filled |-> f], event) =
             [status |-> next_order_status(s, event.kind, f), quantity |-> q,
              filled |-> f + event.quantity]
<1> DEFINE r == [status |-> s, quantity |-> q, filled |-> f]
<1>1. Applied(r, event) = [r EXCEPT !.status = next_order_status(r.status, event.kind, r.filled),
                                    !.filled = @ + event.quantity]
  <2> HIDE DEF r
  <2> QED
    BY DEF Applied
<1> QED
  BY <1>1

\* One event about one order, applied to the book and to the log.
LEMMA LoggedStep ==
    ASSUME IInv, HistoryInv, NEW id \in OrderIds, NEW order, Store(id, order),
           NEW kind \in EventKinds, NEW quantity \in Nat, Log(kind, id, quantity),
           [status |-> order.status, quantity |-> order.quantity, filled |-> order.filled] =
             Applied(Replayed(history, id), [kind |-> kind, id |-> id, quantity |-> quantity])
    PROVE  HistoryInv'
<1> DEFINE event == [kind |-> kind, id |-> id, quantity |-> quantity]
<1>1. history \in Seq(Event) /\ event \in Event /\ history' = Append(history, event)
  BY DEF IInv, TypeOK, Event, Log
<1> HIDE DEF event
<1>2. /\ Replayable(history')
      /\ \A o : Replayed(history', o) =
           IF event.id = o THEN Applied(Replayed(history, o), event) ELSE Replayed(history, o)
  <2>1. Replayable(history)
    BY DEF HistoryInv
  <2>2. Replayable(history') /\ Reads(history', history, event)
    BY <1>1, <2>1, ReplayGrows
  <2> QED
    BY <2>2 DEF Reads
<1>3. event.id = id
  BY DEF event
<1>4. orders' = MapSet(orders, id, order)
  BY DEF Store
<1>5. DOMAIN orders' = DOMAIN orders \cup {id}
  BY <1>4 DEF MapSet
<1>6. Logged(history') = DOMAIN orders \cup {id}
  <2>1. /\ DOMAIN history' = DOMAIN history \cup {Len(history) + 1}
        /\ history'[Len(history) + 1] = event
        /\ \A i \in DOMAIN history : history'[i] = history[i]
    BY <1>1
  <2>2. Logged(history) = DOMAIN orders
    BY DEF HistoryInv, HistoryExplainsBook
  <2> QED
    BY <1>3, <2>1, <2>2 DEF Logged
<1>7. ASSUME NEW o \in DOMAIN orders'
      PROVE  Replayed(history', o) = [status |-> orders'[o].status, quantity |-> orders'[o].quantity,
                                      filled |-> orders'[o].filled]
  <2>1. CASE o = id
    <3>1. orders'[o] = order
      BY <1>4, <2>1 DEF MapSet
    <3> QED
      BY <1>2, <1>3, <2>1, <3>1 DEF event
  <2>2. CASE o # id
    <3>1. o \in DOMAIN orders /\ orders'[o] = orders[o]
      BY <1>4, <1>5, <2>2 DEF MapSet
    <3>2. Replayed(history', o) = Replayed(history, o)
      BY <1>2, <1>3, <2>2
    <3> QED
      BY <3>1, <3>2 DEF HistoryInv, HistoryExplainsBook
  <2> QED
    BY <2>1, <2>2
<1> QED
  BY <1>2, <1>5, <1>6, <1>7 DEF HistoryInv, HistoryExplainsBook

\* Every operation logs what it does to its order.
LEMMA HistoryStep ==
    ASSUME IInv, HistoryInv, [Next]_vars
    PROVE  HistoryInv'
<1>1. ASSUME NEW id \in DOMAIN orders
      PROVE  /\ orders[id] \in Order
             /\ Replayed(history, id) = [status |-> orders[id].status,
                  quantity |-> orders[id].quantity, filled |-> orders[id].filled]
  BY <1>1 DEF IInv, TypeOK, HistoryInv, HistoryExplainsBook
<1>2. CASE UNCHANGED vars
  BY <1>2 DEF vars, HistoryInv, HistoryExplainsBook
<1>3. ASSUME NEW id \in OrderIds, NEW a \in Assets, NEW t \in OrderTypes, NEW q \in Quantities,
             submit(id, a, t, q)
      PROVE  HistoryInv'
  <2> DEFINE order == [asset |-> a, type |-> t, limit |-> NamesLimit(t), status |-> "NEW",
                       quantity |-> q, filled |-> 0, remaining |-> q, triggered |-> FALSE]
  <2>1. "submitted" \in EventKinds /\ q \in Nat
    BY BoundsAssumption DEF EventKinds, Quantities
  <2>2. Store(id, order) /\ Log("submitted", id, q)
    BY <1>3 DEF submit
  <2>3. Applied(Replayed(history, id), [kind |-> "submitted", id |-> id, quantity |-> q]) =
          [status |-> order.status, quantity |-> order.quantity, filled |-> order.filled]
    BY DEF Applied
  <2> HIDE DEF order
  <2> QED
    BY <2>1, <2>2, <2>3, LoggedStep
<1>4. ASSUME NEW id \in OrderIds, NEW e \in {"accepted", "rejected", "cancelled", "expired"},
             StatusEvent(id, e)
      PROVE  HistoryInv'
  <2>1. e \in EventKinds /\ e # "submitted" /\ e # "replaced"
    BY DEF EventKinds, OrderEventKinds, StatusEventKinds
  <2>2. id \in DOMAIN orders
    BY <1>4 DEF StatusEvent
  <2>3. Applied(Replayed(history, id), [kind |-> e, id |-> id, quantity |-> 0]) =
          [status |-> next_status(id, e), quantity |-> orders[id].quantity, filled |-> orders[id].filled]
    <3>1. Applied(Replayed(history, id), [kind |-> e, id |-> id, quantity |-> 0]) =
            [status |-> next_status(id, e), quantity |-> orders[id].quantity,
             filled |-> orders[id].filled + 0]
      BY <1>1, <2>1, <2>2, AppliedEvent DEF next_status
    <3> QED
      BY <1>1, <2>2, <3>1 DEF Order
  <2> DEFINE order == [orders[id] EXCEPT !.status = next_status(id, e)]
  <2>4. Store(id, order) /\ Log(e, id, 0)
    BY <1>4 DEF StatusEvent
  <2>5. /\ order.status = next_status(id, e) /\ order.quantity = orders[id].quantity
        /\ order.filled = orders[id].filled
    BY <1>1, <2>2 DEF Order
  <2> HIDE DEF order
  <2> QED
    BY <2>1, <2>3, <2>4, <2>5, LoggedStep
<1>5. ASSUME NEW id \in OrderIds, trigger(id)
      PROVE  HistoryInv'
  <2>1. id \in DOMAIN orders /\ orders' = MapSet(orders, id, [orders[id] EXCEPT !.triggered = TRUE])
        /\ history' = history
    BY <1>5 DEF trigger, Store
  <2>2. /\ DOMAIN orders' = DOMAIN orders
        /\ \A o \in DOMAIN orders : /\ orders'[o].status = orders[o].status
                                    /\ orders'[o].quantity = orders[o].quantity
                                    /\ orders'[o].filled = orders[o].filled
    BY <1>1, <2>1 DEF MapSet, Order
  <2>3. \A o \in DOMAIN orders :
           Replayed(history, o) = [status |-> orders'[o].status, quantity |-> orders'[o].quantity,
                                   filled |-> orders'[o].filled]
    BY <1>1, <2>2
  <2> QED
    BY <2>1, <2>2, <2>3 DEF HistoryInv, HistoryExplainsBook
<1>6. ASSUME NEW id \in DOMAIN orders, NEW e \in FillEventKinds, NEW q \in Quantities,
             Store(id, FilledBy(id, e, q)), Log(e, id, q)
      PROVE  HistoryInv'
  <2>1. /\ e \in EventKinds /\ e # "submitted" /\ e # "replaced" /\ q \in Nat
        /\ id \in OrderIds
    BY BoundsAssumption DEF EventKinds, OrderEventKinds, FillEventKinds, Quantities, IInv, TypeOK
  <2>2. Applied(Replayed(history, id), [kind |-> e, id |-> id, quantity |-> q]) =
          [status |-> next_status(id, e), quantity |-> orders[id].quantity,
           filled |-> orders[id].filled + q]
    BY <1>1, <2>1, AppliedEvent DEF next_status
  <2> DEFINE order == FilledBy(id, e, q)
  <2>3. /\ order.status = next_status(id, e) /\ order.quantity = orders[id].quantity
        /\ order.filled = orders[id].filled + q
    BY <1>1 DEF FilledBy, Order
  <2> HIDE DEF order
  <2>4. [status |-> order.status, quantity |-> order.quantity, filled |-> order.filled] =
          Applied(Replayed(history, id), [kind |-> e, id |-> id, quantity |-> q])
    BY <2>2, <2>3
  <2>5. Store(id, order) /\ Log(e, id, q)
    BY <1>6 DEF order
  <2> QED
    BY <2>1, <2>4, <2>5, LoggedStep
<1>7. ASSUME NEW id \in OrderIds, NEW q \in Quantities, NEW l \in BOOLEAN, replace(id, q, l)
      PROVE  HistoryInv'
  <2> DEFINE order == [orders[id] EXCEPT !.status = next_status(id, "replaced"),
                       !.quantity = q, !.remaining = q - orders[id].filled, !.limit = @ \/ l]
  <2>1. /\ id \in DOMAIN orders /\ next_status(id, "replaced") # None
        /\ Log("replaced", id, q) /\ Store(id, order)
    BY <1>7 DEF replace
  <2>2. "replaced" \in EventKinds /\ q \in Nat
    BY BoundsAssumption DEF EventKinds, OrderEventKinds, Quantities
  <2>3. next_status(id, "replaced") = orders[id].status
    BY <2>1 DEF next_status, next_order_status, RowTarget
  <2>4. Applied(Replayed(history, id), [kind |-> "replaced", id |-> id, quantity |-> q]) =
          [status |-> orders[id].status, quantity |-> q, filled |-> orders[id].filled]
    BY <1>1, <2>1 DEF Applied
  <2>5. /\ order.status = orders[id].status /\ order.quantity = q
        /\ order.filled = orders[id].filled
    BY <1>1, <2>1, <2>3 DEF Order
  <2> HIDE DEF order
  <2> QED
    BY <2>1, <2>2, <2>4, <2>5, LoggedStep
<1>8. CASE restore
  BY <1>8 DEF restore, HistoryInv, HistoryExplainsBook
<1>9. ASSUME NEW id \in OrderIds, accept(id) \/ reject(id) \/ cancel(id) \/ expire(id)
      PROVE  HistoryInv'
  BY <1>4, <1>9 DEF accept, reject, cancel, expire
<1>10. ASSUME NEW id \in OrderIds, NEW q \in Quantities, partial_fill(id, q) \/ fill(id, q)
       PROVE  HistoryInv'
  BY <1>6, <1>10 DEF partial_fill, fill, FillEventKinds
<1> QED
  BY <1>2, <1>3, <1>5, <1>7, <1>8, <1>9, <1>10 DEF Next

-----------------------------------------------------------------------------
(* The theorems *)

\* The inductive invariant holds throughout.
THEOREM Invariant == Spec => []IInv
<1>1. Init => IInv
  BY InitInv
<1>2. IInv /\ [Next]_vars => IInv'
  BY StepInv
<1> QED
  BY <1>1, <1>2, PTL DEF Spec

\* Every variable of the OMS keeps the shape its dataclass declares, for every
\* set of orders and assets.
THEOREM TypeCorrect == Spec => []TypeOK
<1>1. IInv => TypeOK
  BY DEF IInv
<1> QED
  BY <1>1, Invariant, PTL

\* The active and completed sets partition the book by whether orders work.
THEOREM PartitionHolds == Spec => []Partition
<1>1. IInv => Partition
  BY DEF IInv, Agreement
<1> QED
  BY <1>1, Invariant, PTL

\* Filled and remaining quantities always add up and agree with the status.
THEOREM FillAccountingHolds == Spec => []FillAccounting
<1>1. IInv => FillAccounting
  BY DEF IInv
<1> QED
  BY <1>1, Invariant, PTL

\* restore rebuilds exactly the working index the running OMS holds.
THEOREM RestoreIsExactHolds == Spec => []RestoreIsExact
<1>1. IInv => RestoreIsExact
  BY IndexExact DEF IInv, Agreement
<1> QED
  BY <1>1, Invariant, PTL

\* An asset's working orders iterate in the order they were placed.
THEOREM PlacementOrderHolds == Spec => []WorkedInPlacementOrder
<1>1. IInv => WorkedInPlacementOrder
  BY DEF IInv, Agreement, IndexAgrees, ActiveAsPlaced, WorkedInPlacementOrder
<1> QED
  BY <1>1, Invariant, PTL

(* The book is consistent in every reachable state: its partition by         *)
(* active_orders and completed_orders, the quantities Order keeps, and the   *)
(* order working_orders_for iterates in.                                     *)
THEOREM BookHolds == Spec => []BookInv
<1>1. Partition /\ FillAccounting /\ WorkedInPlacementOrder => BookInv
  BY DEF BookInv
<1> QED
  BY <1>1, PartitionHolds, FillAccountingHolds, PlacementOrderHolds, PTL

\* Replaying the log of an order through the lifecycle table gives the status
\* and the quantities the book holds of it.
THEOREM HistoryExplainsBookHolds == Spec => []HistoryExplainsBook
<1>1. Init => HistoryInv
  <2> SUFFICES ASSUME Init PROVE HistoryInv
    OBVIOUS
  <2>1. history = <<>> /\ DOMAIN orders = {}
    BY DEF Init, EmptyMap
  <2>2. \A id : Replays(history, id, [n \in 0..0 |-> Unlogged])
    BY <2>1 DEF Replays
  <2> QED
    BY <2>1, <2>2 DEF HistoryInv, Replayable, HistoryExplainsBook, Logged
<1>2. IInv /\ HistoryInv /\ [Next]_vars => HistoryInv'
  BY HistoryStep
<1>3. HistoryInv => HistoryExplainsBook
  BY DEF HistoryInv
<1> QED
  BY <1>1, <1>2, <1>3, Invariant, PTL DEF Spec

\* Storing an order that is new or was working leaves every closed one alone.
LEMMA StoreKeepsClosed ==
    ASSUME NEW id, NEW order, Store(id, order),
           id \in DOMAIN orders => is_open(orders[id]),
           NEW c \in DOMAIN orders, ~is_open(orders[c])
    PROVE  c \in DOMAIN orders' /\ orders'[c] = orders[c]
BY DEF Store, MapSet

\* No operation moves an order out of a terminal status or changes it there.
THEOREM TerminalIsFinalHolds == Spec => TerminalIsFinal
<1>1. IInv /\ [Next]_vars => [ClosedOrdersKept]_vars
  <2> SUFFICES ASSUME IInv, Next PROVE ClosedOrdersKept
    OBVIOUS
  <2>1. ASSUME NEW id \in DOMAIN orders, NEW e \in OrderEventKinds,
               next_status(id, e) # None
        PROVE  is_open(orders[id])
    BY <2>1, TransitionFacts DEF IInv, TypeOK, Order, next_status, is_open
  <2>2. /\ {"accepted", "rejected", "cancelled", "expired"} \subseteq OrderEventKinds
        /\ {"partially_filled", "filled", "replaced"} \subseteq OrderEventKinds
    BY DEF OrderEventKinds, StatusEventKinds, FillEventKinds
  <2>3. ASSUME NEW id \in OrderIds, NEW a \in Assets, NEW t \in OrderTypes,
               NEW q \in Quantities, submit(id, a, t, q)
        PROVE  ClosedOrdersKept
    BY <2>3, StoreKeepsClosed DEF ClosedOrdersKept, submit
  <2>4. ASSUME NEW id \in OrderIds, accept(id) \/ reject(id) \/ cancel(id) \/ expire(id)
        PROVE  ClosedOrdersKept
    BY <2>1, <2>2, <2>4, StoreKeepsClosed DEF ClosedOrdersKept, accept, reject, cancel, expire, StatusEvent
  <2>5. ASSUME NEW id \in OrderIds, trigger(id) PROVE ClosedOrdersKept
    BY <2>5, StoreKeepsClosed DEF ClosedOrdersKept, trigger
  <2>6. ASSUME NEW id \in OrderIds, NEW q \in Quantities, partial_fill(id, q) \/ fill(id, q)
        PROVE  ClosedOrdersKept
    BY <2>1, <2>2, <2>6, StoreKeepsClosed DEF ClosedOrdersKept, partial_fill, fill
  <2>7. ASSUME NEW id \in OrderIds, NEW q \in Quantities, NEW l \in BOOLEAN, replace(id, q, l)
        PROVE  ClosedOrdersKept
    BY <2>1, <2>2, <2>7, StoreKeepsClosed DEF ClosedOrdersKept, replace
  <2>8. CASE restore
    BY <2>8 DEF ClosedOrdersKept, restore
  <2> QED
    BY <2>3, <2>4, <2>5, <2>6, <2>7, <2>8 DEF Next
<1> QED
  BY <1>1, Invariant, PTL DEF Spec, TerminalIsFinal
=============================================================================
