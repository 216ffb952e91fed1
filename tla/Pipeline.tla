------------------------------ MODULE Pipeline ------------------------------
(***************************************************************************)
(* One asset's orders through the execution pipeline under simulated       *)
(* routing (runtime/execution_pipeline.py).  A step works the orders left  *)
(* resting, then carries out the strategies' cancels and amends, allocates *)
(* their intents and routes the requests that come back.  A timer, a slice *)
(* and the feedback round are the same without the first part, and what    *)
(* they place rests.                                                       *)
(*                                                                         *)
(* The OMS, the portfolio's position and the allocation ledgers form one   *)
(* value the step evolves: an amend is tried on a copy and kept only if    *)
(* its replacement is placed.  What the market, the fill policy, the       *)
(* venue's rules and the risk gate decide is nondeterministic.             *)
(***************************************************************************)
EXTENDS Allocation, OrderLifecycle

CONSTANTS
    Prices,          \* per quantum, of events and of executions
    Intents,         \* what a strategy may ask for
    Amends,          \* signed quantities an amend may name
    SameEvent,       \* fill_timing is SAME_EVENT
    MaxOrders        \* bound: orders placed

AllTerms == {"MARKET", "STOP", "LIMIT", "IOC", "FOK"}

ASSUME PipelineAssumption ==
    /\ Prices \subseteq Nat \ {0} /\ IsFiniteSet(Prices) /\ Prices # {}
    /\ \A i \in Intents : /\ i.kind \in {"DELTA", "TARGET"} /\ i.terms \in AllTerms
                          /\ i.target \in Int /\ Truncate(i.target) = i.target
    /\ \A q \in Amends : q \in Int \ {0} /\ Truncate(q) = q
    /\ SameEvent \in BOOLEAN /\ MaxOrders \in Nat

VARIABLES
    st,              \* [orders, position, allocation]: what a step evolves
    price,           \* the asset's market price
    phase,           \* of the step: idle, work, instruct, amend, route
    due,             \* working orders still to have their turn
    todo,            \* requests still to be routed
    rest             \* what the step places rests until the next event

vars == <<st, price, phase, due, todo, rest>>

Phases == {"idle", "work", "instruct", "amend", "route"}

is_open(order) == order.status \in WorkingStatuses

\* working_orders_for: identifiers grow, so the order of placement is theirs.
Working(s) == {i \in DOMAIN s.orders : is_open(s.orders[i])}

remaining(order) == order.quantity - order.filled

\* _committed_positions: filled plus working, signed.
committed_position(s) ==
    s.position + Total([i \in Working(s) |-> remaining(s.orders[i])])

\* _working_shares: each strategy's part of what is still working.
working_shares(s) ==
    [r \in Strategies |->
        Total([i \in Working(s) |->
                  Get(split_by_contribution(remaining(s.orders[i]),
                                            s.allocation.contributions[i]), r)])]

SetStatus(s, i, event) ==
    [s EXCEPT !.orders[i].status =
        next_order_status(@, event, Magnitude(s.orders[i].filled))]

\* Mutant: a request that is dropped frees its capital and keeps its entry.
retire_dropped_requestHalf(s, i) ==
    [s EXCEPT !.allocation = release_reservation(@, i)]

\* _retire_dropped_request: a request that will never be an order.
retire_dropped_request(s, i) ==
    [s EXCEPT !.allocation = retire_contributions(release_reservation(@, i), i)]

\* _release_if_terminal: every end of an order comes through here.
release_if_terminal(s, i) ==
    IF is_open(s.orders[i]) THEN s ELSE retire_dropped_request(s, i)

\* _end_unfilled, _expire, _close_unfilled_order, _withdraw_partial_remainder
End(s, i, event) == release_if_terminal(SetStatus(s, i, event), i)

(***************************************************************************)
(* _apply_reports for one fill: the OMS, the portfolio, each strategy's    *)
(* position, the reservation, and what a closed order still holds.  The    *)
(* strategies' shares are read while the contributions are still there.    *)
(***************************************************************************)
Report(s, i, quantity, paid) ==
    LET full == quantity = remaining(s.orders[i])
        event == IF full THEN "filled" ELSE "partially_filled"
        booked == [SetStatus(s, i, event) EXCEPT
                      !.orders[i].filled = @ + quantity,
                      !.position = @ + quantity,
                      !.allocation = apply_execution(
                          record_fill(@, i, quantity, paid),
                          i, Magnitude(quantity) * paid)]
    IN  release_if_terminal(booked, i)

(***************************************************************************)
(* _work_order: what may come of an order's turn.  fill is what executes,  *)
(* paid its price, end the event that closes the remainder or None.  An    *)
(* order that is immediate, or had its one market attempt, never rests     *)
(* with a remainder; fill-or-kill fills all or nothing.  A halt, or a      *)
(* price that does not reach the order, leaves it resting.  (A policy that *)
(* rejects an order with fills makes the step raise, and nothing happens.) *)
(* Auctions are left out: an order that is immediate can rest in one.      *)
(***************************************************************************)
Turns(order) ==
    LET left  == remaining(order)
        sign  == IF left > 0 THEN 1 ELSE -1
        parts == {sign * n * Unit : n \in 1..(Magnitude(left) \div Unit)} \ {left}
        OneShot == order.terms \in {"MARKET", "STOP", "IOC"}
        full    == [fill : {left}, paid : Prices, end : {None}]
        none(e) == [fill |-> 0, paid |-> 0, end |-> e]
        some(e) == [fill : parts, paid : Prices, end : {e}]
    IN  full \cup {none("expired")}
        \cup (IF order.terms = "FOK" THEN {none("cancelled")}
              ELSE IF OneShot THEN some("cancelled")
                       \cup {none("cancelled")}
              ELSE some(None))
        \cup (IF order.terms \in {"IOC", "FOK"} THEN {} ELSE {none(None)})
        \cup (IF order.filled = 0 /\ order.terms # "FOK" THEN {none("rejected")} ELSE {})

work_order(s, i, turn) ==
    LET filled == IF turn.fill = 0 THEN s ELSE Report(s, i, turn.fill, turn.paid)
    IN  IF turn.end = None THEN filled ELSE End(filled, i, turn.end)

\* _submit_and_accept_order
submit_and_accept(s, request) ==
    [s EXCEPT !.orders = With(@, request.id,
        [status |-> "ACCEPTED", terms |-> request.terms,
         quantity |-> request.quantity, filled |-> 0])]

\* A number no order has; numbers grow, so they give the order of placement.
FreshId(s) == Max(DOMAIN s.orders \cup {0}) + 1

Idle == phase' = "idle" /\ todo' = <<>> /\ rest' = FALSE
-----------------------------------------------------------------------------
Init ==
    /\ st = [orders |-> <<>>, position |-> 0, allocation |-> AllocationInit]
    /\ price \in Prices
    /\ phase = "idle" /\ due = {} /\ todo = <<>> /\ rest = FALSE

\* process_market_event: the price first, then the orders left working.
MarketEvent(p) ==
    /\ phase = "idle"
    /\ price' = p
    /\ due' = Working(st)
    /\ phase' = IF due' = {} THEN "instruct" ELSE "work"
    /\ rest' = ~SameEvent
    /\ UNCHANGED <<st, todo>>

\* _deliver_instant and the feedback round: no order has a turn.
DeliverInstant ==
    /\ phase = "idle"
    /\ phase' = "instruct" /\ rest' = TRUE
    /\ UNCHANGED <<st, price, due, todo>>

\* _fill_working_orders, one order of it: the one placed first.
WorkNext ==
    /\ phase = "work"
    /\ \E turn \in Turns(st.orders[Min(due)]) : st' = work_order(st, Min(due), turn)
    /\ due' = due \ {Min(due)}
    /\ phase' = IF due' = {} THEN "instruct" ELSE "work"
    /\ UNCHANGED <<price, todo, rest>>

SoleOrders(s, strategy) ==
    {i \in Working(s) : DOMAIN s.allocation.contributions[i] = {strategy}}

\* The orders that are the strategy's alone, withdrawn in the order of placement.
Withdrawn(s, strategy) ==
    LET after[i \in 0..(FreshId(s) - 1)] ==
            IF i = 0 THEN s
            ELSE IF i \in SoleOrders(after[i - 1], strategy)
                 THEN End(after[i - 1], i, "cancelled")
                 ELSE after[i - 1]
    IN  after[FreshId(s) - 1]

\* _cancels_requested
CancelIntent(strategy) ==
    /\ phase = "instruct"
    /\ SoleOrders(st, strategy) # {}
    /\ st' = Withdrawn(st, strategy)
    /\ UNCHANGED <<price, phase, due, todo, rest>>

\* _amendable: the one order the strategy works, and works alone.
Amendable(strategy) ==
    LET part == {i \in Working(st) : strategy \in DOMAIN st.allocation.contributions[i]}
    IN  {i \in part : /\ Cardinality(part) = 1
                      /\ part = SoleOrders(st, strategy)
                      /\ st.orders[i].terms # "MARKET"}

still_added(reserved, before, was, now, Adds(_, _)) ==
    IF Adds(before, was) = 0
    THEN Quantize(reserved * Magnitude(now), Magnitude(was))
    ELSE Quantize(reserved * Adds(before, now), Adds(before, was))

(***************************************************************************)
(* _reduce_in_place: the order keeps its place; its contribution and what  *)
(* it holds of the budget and of its strategy's ceiling shrink with it.    *)
(***************************************************************************)
reduce_in_place(s, strategy, i, left) ==
    LET a   == s.allocation
        was == remaining(s.orders[i])
        cut == s.orders[i].filled + left
        kept == still_added(Get(a.reservations, i), committed_position(s) - was,
                            was, left, adds_to_account)
        own  == still_added(Get(a.capital[strategy].reserved, i),
                            a.positions[strategy] + working_shares(s)[strategy] - was,
                            was, left, adding_exposure)
        freed == IF i \in DOMAIN a.reservations
                 THEN [a EXCEPT !.notional = @ - (a.reservations[i] - kept),
                                !.reservations[i] = kept]
                 ELSE a
    IN  [s EXCEPT
            !.orders[i].quantity = cut,
            !.allocation = [freed EXCEPT
                !.contributions[i] = [r \in {strategy} |-> cut],
                !.capital[strategy] = reduce(@, i, own)]]

AmendDown(strategy, left) ==
    /\ phase \in {"instruct", "amend"}
    /\ \E i \in Amendable(strategy) :
        /\ Magnitude(left) < Magnitude(remaining(st.orders[i]))
        /\ (left > 0) = (remaining(st.orders[i]) > 0)
        /\ st' = reduce_in_place(st, strategy, i, left)
    /\ phase' = "amend"
    /\ UNCHANGED <<price, due, todo, rest>>

\* _forced_target: the target that makes allocation trade exactly this.
forced_target(s, strategy, trade, terms) ==
    [r \in {strategy} |->
        [kind |-> "TARGET", terms |-> terms,
         target |-> s.allocation.positions[r] + working_shares(s)[r] + trade]]

\* Mutant: the book without the order is kept though nothing replaced it.
KeptCommitsTrial(s, trial) == trial

\* What is kept of an amend whose replacement was refused.
Kept(s, trial) == s

(***************************************************************************)
(* _replace_atomically: another quantity or price.  The replacement is     *)
(* allocated and routed against the book without the order; if allocation  *)
(* or a gate refuses it, the book is as it was.                            *)
(***************************************************************************)
AmendReplace(strategy, trade, placed) ==
    /\ phase \in {"instruct", "amend"}
    /\ \E i \in Amendable(strategy) :
        LET gone == End(st, i, "cancelled")
            made == allocate(gone.allocation,
                             forced_target(gone, strategy, trade, st.orders[i].terms),
                             price, committed_position(gone), working_shares(gone),
                             FreshId(gone))
            trial == [gone EXCEPT !.allocation = made.state]
        IN  /\ (trade > 0) = (remaining(st.orders[i]) > 0)
            /\ IF made.requests = <<>> \/ ~placed
               THEN st' = Kept(st, IF made.requests = <<>> THEN trial
                                   ELSE retire_dropped_request(trial, made.requests[1].id))
               ELSE LET sent == submit_and_accept(trial, made.requests[1])
                        id   == made.requests[1].id
                    IN  IF rest THEN st' = sent
                        ELSE \E turn \in Turns(sent.orders[id]) :
                                st' = work_order(sent, id, turn)
    /\ FreshId(st) <= MaxOrders
    /\ phase' = "amend"
    /\ UNCHANGED <<price, due, todo, rest>>

\* _allocate: the batch's intents, all at once.
Allocate(intents) ==
    /\ phase \in {"instruct", "amend"}
    /\ \E made \in {allocate(st.allocation, intents, price, committed_position(st),
                             working_shares(st), FreshId(st))} :
           /\ FreshId(st) + Len(made.requests) <= MaxOrders + 1
           /\ st' = [st EXCEPT !.allocation = made.state]
           /\ IF made.requests = <<>> THEN Idle
              ELSE todo' = made.requests /\ phase' = "route" /\ UNCHANGED rest
    /\ UNCHANGED <<price, due>>

Routed == IF Len(todo) = 1 THEN Idle
          ELSE todo' = Tail(todo) /\ UNCHANGED <<phase, rest>>

\* _route_requests: margin, borrow, band, tick, price, settlement, cash,
\* delivery, terms or risk refuses the request, and it is dropped.
RouteDropped ==
    /\ phase = "route"
    /\ st' = retire_dropped_request(st, Head(todo).id)
    /\ Routed
    /\ UNCHANGED <<price, due>>

RoutePlaced ==
    /\ phase = "route"
    /\ LET sent == submit_and_accept(st, Head(todo))
           id   == Head(todo).id
       IN  IF rest THEN st' = sent
           ELSE \E turn \in Turns(sent.orders[id]) :
                   st' = work_order(sent, id, turn)
    /\ Routed
    /\ UNCHANGED <<price, due>>

Batches == UNION {[D -> Intents] : D \in SUBSET Strategies}

Next ==
    \/ \E p \in Prices : MarketEvent(p)
    \/ DeliverInstant
    \/ WorkNext
    \/ \E s \in Strategies : CancelIntent(s)
    \/ \E s \in Strategies, q \in Amends : AmendDown(s, q)
    \/ \E s \in Strategies, q \in Amends, placed \in BOOLEAN : AmendReplace(s, q, placed)
    \/ \E b \in Batches : Allocate(b)
    \/ RouteDropped
    \/ RoutePlaced

Spec == Init /\ [][Next]_vars
-----------------------------------------------------------------------------
Ids == 1..MaxOrders

\* A value for each order and ledger entry, within its width.
TypeOK ==
    /\ DOMAIN st.orders \subseteq Ids
    /\ \A i \in DOMAIN st.orders :
        LET o == st.orders[i]
        IN  /\ o.status \in OrderStatus /\ o.terms \in AllTerms
            /\ o.quantity \in Int /\ o.filled \in Int
            /\ Magnitude(o.filled) <= Magnitude(o.quantity)
            /\ o.status = "FILLED" <=> o.filled = o.quantity
    /\ st.position \in Int
    /\ DOMAIN st.allocation.positions = Strategies
    /\ DOMAIN st.allocation.capital = Strategies
    /\ price \in Prices /\ phase \in Phases /\ rest \in BOOLEAN

\* The requests allocation made that have not been routed yet.
Pending == IF phase = "route" THEN {todo[n].id : n \in DOMAIN todo} ELSE {}

(***************************************************************************)
(* The ledgers describe exactly the orders and requests that are alive.    *)
(* Whatever mix of fills at any price, withdrawals, expiries, refusals and *)
(* amends a step makes, an order or request has contributions as long as   *)
(* it lives and no longer ("a contribution exists exactly as long as the   *)
(* request does"), capital is held for no other, each running total is the *)
(* sum it is kept for, and what is outstanding is within the budget.       *)
(***************************************************************************)
LedgersDescribeOrders ==
    LET a == st.allocation
        live == Working(st) \cup Pending
    IN  /\ DOMAIN a.contributions = live
        /\ DOMAIN a.reservations \subseteq live
        /\ a.notional = Total(a.reservations)
        /\ a.notional <= Budget
        /\ \A s \in Strategies :
            LET c == a.capital[s]
            IN  /\ c.reserved_total = Total(c.reserved)
                /\ \A i \in DOMAIN c.reserved :
                        i \in live /\ s \in DOMAIN a.contributions[i]

\* The book is well formed and the ledgers describe it.
PipelineInv == TypeOK /\ LedgersDescribeOrders

(***************************************************************************)
(* What the strategies hold adds up to what the account holds, however     *)
(* netted orders were split, and each strategy's deployed capital is a     *)
(* cost its own position can have: between the lowest and the highest      *)
(* price for each quantum it holds, nothing when it holds nothing.         *)
(***************************************************************************)
StrategiesExplainPosition ==
    LET a == st.allocation
    IN  /\ Total(a.positions) = st.position
        /\ \A s \in Strategies :
            /\ a.capital[s].deployed >= Magnitude(a.positions[s]) * Min(Prices)
            /\ a.capital[s].deployed <= Magnitude(a.positions[s]) * Max(Prices)

(***************************************************************************)
(* An amend is all or nothing (FUT-031): either a replacement has been     *)
(* placed and one order was withdrawn for it, or every order keeps its     *)
(* status, nothing traded, and nothing is reserved anew.                   *)
(***************************************************************************)
AmendAllOrNothing ==
    [][ phase' = "amend" =>
          \/ /\ Cardinality(DOMAIN st'.orders) = Cardinality(DOMAIN st.orders) + 1
             /\ Cardinality(Working(st) \ Working(st')) = 1
          \/ /\ DOMAIN st'.orders = DOMAIN st.orders
             /\ Working(st') = Working(st)
             /\ st'.position = st.position
             /\ st'.allocation.notional <= st.allocation.notional
             /\ DOMAIN st'.allocation.reservations = DOMAIN st.allocation.reservations
      ]_vars

(***************************************************************************)
(* ceilings.py on a strategy whose working orders offset each other: the   *)
(* ledger "errs toward refusing, never toward overcommitting".  So what a  *)
(* strategy's position cost is never beyond its ceiling, while the price   *)
(* stands still.                                                           *)
(***************************************************************************)
NeverOvercommitted ==
    \A s \in Strategies : st.allocation.capital[s].deployed <= Ceiling[s]
=============================================================================
