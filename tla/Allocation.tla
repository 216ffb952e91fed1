----------------------------- MODULE Allocation -----------------------------
(***************************************************************************)
(* The allocation engine for one asset (allocation/engine.py, ceilings.py, *)
(* netting.py, budget.py; core/contribution.py): intents are sized, judged *)
(* against each strategy's ceiling, netted by terms, judged long-only and  *)
(* against the budget, and turned into requests, each with a reservation   *)
(* and the contributions it was netted from.                               *)
(*                                                                         *)
(* The engine is pure.  An AllocationState is a record                     *)
(*   notional      notional_allocated, kept beside the sum it stands for   *)
(*   reservations  order -> capital held for it                            *)
(*   contributions order -> (strategy -> signed quantity asked)            *)
(*   positions     strategy -> its own signed position                     *)
(*   capital       strategy -> what it has committed of its ceiling        *)
(* Quantities are whole numbers of the quantum a fill is divided in; a     *)
(* traded unit is Unit of them.  A price is a value per quantum.           *)
(***************************************************************************)
EXTENDS Integers, Sequences, FiniteSetsExt, Sums

CONSTANTS
    Strategies,      \* strategy identifiers, numbers in their sorted order
    Unit,            \* quanta in one traded unit
    Budget,          \* the smaller of available capital and maximum exposure
    Ceiling,         \* strategy_budgets as enforced ceilings, per strategy
    AllowShorting    \* AllocationConstraints.allow_shorting

ASSUME AllocationAssumption ==
    /\ Strategies \subseteq Nat /\ IsFiniteSet(Strategies) /\ Strategies # {}
    /\ Unit \in Nat \ {0} /\ Budget \in Nat
    /\ Ceiling \in [Strategies -> Nat]
    /\ AllowShorting \in BOOLEAN

Magnitude(x) == IF x < 0 THEN -x ELSE x

\* The sum of a map of numbers of either sign.
Total(f) ==
    SumOf([k \in DOMAIN f |-> IF f[k] > 0 THEN f[k] ELSE 0])
        - SumOf([k \in DOMAIN f |-> IF f[k] < 0 THEN -f[k] ELSE 0])

With(f, key, value) ==
    [k \in DOMAIN f \cup {key} |-> IF k = key THEN value ELSE f[k]]

Without(f, key) == [k \in DOMAIN f \ {key} |-> f[k]]

Get(f, key) == IF key \in DOMAIN f THEN f[key] ELSE 0

\* A quotient rounded to the quantum, ties to even.
Quantize(n, d) ==
    LET m == IF d < 0 THEN -n ELSE n
        k == Magnitude(d)
        q == m \div k
        r == m % k
    IN  IF 2 * r > k \/ (2 * r = k /\ q % 2 = 1) THEN q + 1 ELSE q

\* Toward zero, onto whole units.
Truncate(x) ==
    LET whole == (Magnitude(x) \div Unit) * Unit IN IF x < 0 THEN -whole ELSE whole

\* Mutant: the last strategy's share is rounded like the others.
split_by_contributionRounded(amount, contributions) ==
    LET net == Total(contributions)
    IN  [s \in DOMAIN contributions |->
            Quantize(amount * contributions[s], IF net = 0 THEN 1 ELSE net)]

(***************************************************************************)
(* Divide an amount by signed contribution.  Every part but the last is    *)
(* rounded; the last is what remains.                                      *)
(***************************************************************************)
split_by_contribution(amount, contributions) ==
    LET net  == Total(contributions)
        last == CHOOSE s \in DOMAIN contributions : \A r \in DOMAIN contributions : r <= s
        Part(s) == IF net = 0
                   THEN Quantize(amount, Cardinality(DOMAIN contributions))
                   ELSE Quantize(amount * contributions[s], net)
        head == [s \in DOMAIN contributions \ {last} |-> Part(s)]
    IN  [s \in DOMAIN contributions |->
            IF s = last THEN amount - Total(head) ELSE head[s]]

(***************************************************************************)
(* ceilings.py: a strategy's positions at cost, and what its working       *)
(* orders will deploy.                                                     *)
(***************************************************************************)
NoCapital == [deployed |-> 0, reserved |-> <<>>, reserved_total |-> 0]

\* The whole new size when a delta crosses zero; its growth otherwise.
adding_exposure(held, delta) ==
    LET after == held + delta
    IN  IF held = 0 \/ (after # 0 /\ (held > 0) = (after > 0))
        THEN Max({0, Magnitude(after) - Magnitude(held)})
        ELSE Magnitude(after)

reserve(capital, order, amount) ==
    IF amount <= 0 THEN capital
    ELSE [capital EXCEPT
            !.reserved = With(@, order, Get(capital.reserved, order) + amount),
            !.reserved_total = @ + amount]

release(capital, order) ==
    [capital EXCEPT !.reserved = Without(@, order),
                    !.reserved_total = @ - Get(capital.reserved, order)]

\* Hold at most amount for an order that was cut in place.
reduce(capital, order, amount) ==
    IF order \notin DOMAIN capital.reserved \/ amount >= Get(capital.reserved, order)
    THEN capital
    ELSE [capital EXCEPT
            !.reserved = IF amount > 0 THEN With(@, order, amount)
                         ELSE Without(@, order),
            !.reserved_total = @ - (capital.reserved[order] - amount)]

(***************************************************************************)
(* A share of a fill: growth deploys what it cost, a reduction releases    *)
(* the same fraction of the cost, a crossing releases it whole.  What is   *)
(* deployed is converted from the order's reservation, as far as it goes.  *)
(***************************************************************************)
capital_fill(capital, order, held, quantity, value) ==
    LET after   == held + quantity
        deploys == adding_exposure(held, quantity) * value
        kept    == IF held # 0 /\ (after = 0 \/ (held > 0) # (after > 0)) THEN 0
                   ELSE IF Magnitude(after) < Magnitude(held)
                   THEN Quantize(capital.deployed * Magnitude(after), Magnitude(held))
                   ELSE capital.deployed
        back    == Get(capital.reserved, order)
        converted == Min({back, deploys})
    IN  [deployed |-> kept + deploys,
         reserved |-> IF order \notin DOMAIN capital.reserved \/ deploys = 0
                      THEN capital.reserved
                      ELSE IF back > converted
                      THEN With(capital.reserved, order, back - converted)
                      ELSE Without(capital.reserved, order),
         reserved_total |-> capital.reserved_total - converted]
-----------------------------------------------------------------------------
AllocationInit == [notional |-> 0, reservations |-> <<>>, contributions |-> <<>>,
                   positions |-> [s \in Strategies |-> 0],
                   capital |-> [s \in Strategies |-> NoCapital]]

\* The pipeline asks only for an order that holds a reservation.
release_reservation(state, order) ==
    IF order \notin DOMAIN state.reservations THEN state
    ELSE [state EXCEPT !.notional = @ - state.reservations[order],
                       !.reservations = Without(@, order)]

\* An order's life has ended: its entry goes, and what it reserved of ceilings.
retire_contributions(state, order) ==
    IF order \notin DOMAIN state.contributions THEN state
    ELSE [state EXCEPT
            !.contributions = Without(@, order),
            !.capital = [s \in Strategies |->
                            IF s \in DOMAIN state.contributions[order]
                            THEN release(@[s], order) ELSE @[s]]]

\* A fill is added to the positions of those who asked for the order.
record_fill(state, order, quantity, value) ==
    IF order \notin DOMAIN state.contributions THEN state
    ELSE LET share == split_by_contribution(quantity, state.contributions[order])
         IN  [state EXCEPT
                !.positions = [s \in Strategies |-> @[s] + Get(share, s)],
                !.capital = [s \in Strategies |->
                    IF s \in DOMAIN share
                    THEN capital_fill(@[s], order, state.positions[s], share[s], value)
                    ELSE @[s]]]

\* A fill consumes its order's reservation, up to what it executed.
apply_execution(state, order, notional) ==
    LET reserved == Get(state.reservations, order)
        consumed == Min({reserved, notional})
    IN  IF order \notin DOMAIN state.reservations THEN state
        ELSE [state EXCEPT
                !.notional = @ - consumed,
                !.reservations = IF reserved = consumed THEN Without(@, order)
                                 ELSE With(@, order, reserved - consumed)]
-----------------------------------------------------------------------------
(***************************************************************************)
(* allocate.  A batch is a function from the strategies that ask to their  *)
(* intents: a delta, or a target for the position that counts the          *)
(* strategy's own position and its share of what is working.  Strategies   *)
(* are dispatched in order, so the batch is in the order of its domain.    *)
(***************************************************************************)
sized(state, intent, s, working) ==
    IF intent.kind = "DELTA" THEN intent.target
    ELSE Truncate(intent.target - (state.positions[s] + working[s]))

committed(capital) == capital.deployed + capital.reserved_total

\* What the delta of a strategy commits of its ceiling.
CeilingCommitment(state, delta, s, price, working) ==
    adding_exposure(state.positions[s] + working[s], delta) * price

\* _within_ceilings: a delta that adds nothing always passes.
Admitted(state, delta, s, price, working) ==
    LET commitment == CeilingCommitment(state, delta, s, price, working)
    IN  \/ commitment = 0
        \/ committed(state.capital[s]) + commitment <= Ceiling[s]

validate_long_only(delta, held) == AllowShorting \/ held + delta >= 0

\* The exposure an order adds to the account's committed position.
adds_to_account(held, delta) ==
    Max({0, Magnitude(held + delta) - Magnitude(held)})

\* net_by_terms and contributions_by_terms: one order for each of the terms,
\* under the first strategy that asked for them.
Netted(state, intents, price, working) ==
    LET delta == [s \in DOMAIN intents |-> sized(state, intents[s], s, working)]
        within == {s \in DOMAIN intents :
                      delta[s] # 0 /\ Admitted(state, delta[s], s, price, working)}
        Alike(s) == {r \in within : intents[r].terms = intents[s].terms}
        first == {s \in within : s = Min(Alike(s))}
    IN  [s \in first |->
            [terms |-> intents[s].terms,
             contributions |-> [r \in Alike(s) |-> delta[r]],
             quantity |-> Total([r \in Alike(s) |-> delta[r]])]]

\* One order, judged on the position the earlier ones leave.
Judged(done, order, price) ==
    IF order.quantity = 0 \/ ~validate_long_only(order.quantity, done.held)
    THEN done
    ELSE LET after == done.held + order.quantity
             sent  == [terms |-> order.terms, quantity |-> order.quantity,
                       contributions |-> order.contributions,
                       commitment |-> adds_to_account(done.held, order.quantity) * price]
         IN  IF Magnitude(after) < Magnitude(done.held)
             THEN [done EXCEPT !.held = after, !.reducing = Append(@, sent)]
             ELSE [done EXCEPT !.held = after, !.adding = Append(@, sent)]

\* Reductions are sent first.
Sent(done) == done.reducing \o done.adding

\* The orders of the batch, judged in the order their terms were first asked for.
Emitted(state, intents, price, held, working) ==
    LET netted == Netted(state, intents, price, working)
        top == Max(Strategies) + 1
        judged[n \in 0..top] ==
            IF n = 0 THEN [held |-> held, reducing |-> <<>>, adding |-> <<>>]
            ELSE IF n - 1 \in DOMAIN netted
                 THEN Judged(judged[n - 1], netted[n - 1], price)
                 ELSE judged[n - 1]
    IN  Sent(judged[top])

\* Reserve for one emitted order, under its identifier.
Reserved(state, order, id, price, working) ==
    [state EXCEPT
        !.notional = @ + order.commitment,
        !.reservations = With(@, id, order.commitment),
        !.contributions = With(@, id, order.contributions),
        !.capital = [s \in Strategies |->
            IF s \in DOMAIN order.contributions
            THEN reserve(@[s], id, CeilingCommitment(state, order.contributions[s],
                                                     s, price, working))
            ELSE @[s]]]

WithinBudget(state, orders) ==
    state.notional + Total([i \in DOMAIN orders |-> orders[i].commitment]) <= Budget

(***************************************************************************)
(* A batch beyond the budget is dropped whole.  Identifiers are fresh: the *)
(* numbers from id on.                                                     *)
(***************************************************************************)
Budgeted(state, orders, price, working, id) ==
    LET put[n \in 0..Len(orders)] ==
            IF n = 0 THEN state
            ELSE Reserved(put[n - 1], orders[n], id + n - 1, price, working)
    IN  IF ~WithinBudget(state, orders)
        THEN [state |-> state, requests |-> <<>>]
        ELSE [state |-> put[Len(orders)],
              requests |-> [n \in DOMAIN orders |->
                               [id |-> id + n - 1, terms |-> orders[n].terms,
                                quantity |-> orders[n].quantity]]]

allocate(state, intents, price, held, working, id) ==
    Budgeted(state, Emitted(state, intents, price, held, working), price, working, id)
=============================================================================
