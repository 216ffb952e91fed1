------------------------- MODULE BrokerMirrorProofs -------------------------
(***************************************************************************)
(* What the mirror of a venue keeps whatever reports arrive, in whatever   *)
(* order and however often, for every set of orders and every bound.       *)
(*                                                                         *)
(* TerminalAbsorbs and FillsCountedOnce need that an order the mirror      *)
(* holds is one the venue holds (an order is staged once) and that every   *)
(* recorded execution is of an order it holds.  CancelRemembered needs     *)
(* more: who answers which cancel, and that one is in flight at a time;    *)
(* the two carry each other.  What a snapshot of the venue says of the     *)
(* mirror needs where every recorded execution comes from.                 *)
(***************************************************************************)
EXTENDS VenueSnapshots, FiniteSetTheorems, TLAPS

-----------------------------------------------------------------------------
(* Sums: a sum is a number, it is 0 over nothing, and a new key adds its     *)
(* own value.                                                                *)

LEMMA UnitsOfOne ==
  ASSUME NEW k, NEW n \in Nat
  PROVE  IsFiniteSet({k} \X (1 .. n)) /\ Cardinality({k} \X (1 .. n)) = n
<1>1. IsFiniteSet({k}) /\ Cardinality({k}) = 1
  BY FS_Singleton
<1>2. IsFiniteSet(1 .. n) /\ Cardinality(1 .. n) = n
  BY FS_Interval
<1>3. /\ IsFiniteSet({k} \X (1 .. n))
      /\ Cardinality({k} \X (1 .. n)) = Cardinality({k}) * Cardinality(1 .. n)
  BY <1>1, <1>2, FS_Product
<1>4. 1 * n = n
  OBVIOUS
<1> QED
  BY <1>1, <1>2, <1>3, <1>4

LEMMA SumType ==
  ASSUME NEW S, IsFiniteSet(S), NEW f \in [S -> Nat]
  PROVE  IsFiniteSet(Units(f)) /\ SumOf(f) \in Nat
<1> DEFINE part == [k \in S |-> {k} \X (1 .. f[k])]
           parts == {{k} \X (1 .. f[k]) : k \in S}
<1>1. IsFiniteSet(parts)
  <2>1. part \in Surjection(S, parts)
    BY DEF Surjection
  <2> QED
    BY <2>1, FS_Surjection
<1>2. \A p \in parts : IsFiniteSet(p)
  <2>1. \A k \in S : IsFiniteSet({k} \X (1 .. f[k]))
    BY UnitsOfOne
  <2> QED
    BY <2>1
<1>3. IsFiniteSet(UNION parts)
  BY <1>1, <1>2, FS_UNION
<1>4. Units(f) = UNION parts
  BY DEF Units
<1> QED
  BY <1>3, <1>4, FS_CardinalityType DEF SumOf

LEMMA SumOfNone ==
  ASSUME NEW f, DOMAIN f = {}
  PROVE  SumOf(f) = 0
<1>1. Units(f) = {}
  BY DEF Units
<1> QED
  BY <1>1, FS_EmptySet DEF SumOf

\* The sum over a larger domain, by one key.
LEMMA SumGrows ==
  ASSUME NEW S, IsFiniteSet(S), NEW f \in [S -> Nat],
         NEW k, k \notin S, NEW g \in [S \cup {k} -> Nat],
         \A x \in S : g[x] = f[x]
  PROVE  SumOf(g) = SumOf(f) + g[k]
<1> DEFINE new == {k} \X (1 .. g[k])
<1>1. IsFiniteSet(Units(f)) /\ IsFiniteSet(new) /\ Cardinality(new) = g[k]
  BY SumType, UnitsOfOne
<1>2. Units(g) = Units(f) \cup new
  BY DEF Units
<1>3. Units(f) \cap new = {}
  BY DEF Units
<1>4. Cardinality(Units(f)) \in Nat /\ g[k] \in Nat
  BY <1>1, FS_CardinalityType
<1> QED
  BY <1>1, <1>2, <1>3, <1>4, FS_Union, FS_EmptySet DEF SumOf

\* The sum over part of the domain is no larger.
LEMMA SumMonotone ==
  ASSUME NEW T, IsFiniteSet(T), NEW g \in [T -> Nat],
         NEW S, S \subseteq T, NEW f \in [S -> Nat], \A x \in S : f[x] = g[x]
  PROVE  SumOf(f) <= SumOf(g)
<1>1. IsFiniteSet(Units(g))
  BY SumType
<1>2. Units(f) \subseteq Units(g)
  BY DEF Units
<1> QED
  BY <1>1, <1>2, FS_Subset DEF SumOf

-----------------------------------------------------------------------------
\* What the mirror's invariant rests on beside its types.
Known ==
  /\ {clock, number} \subseteq Nat
  /\ DOMAIN orders \subseteq DOMAIN venue
  /\ IsFiniteSet(DOMAIN executions)
  /\ \A e \in DOMAIN executions : executions[e].order \in DOMAIN orders

\* What an order has filled fits it, and it is FILLED when nothing is left.
Fits(order) ==
  /\ order.filled <= order.quantity
  /\ order.status = "FILLED" <=> order.filled = order.quantity

IInv == TypeOK /\ Known /\ FillsFit /\ FillsCountedOnce

-----------------------------------------------------------------------------
(* The lifecycle table *)

\* A status event moves a working order, never to FILLED, and a cancelling one
\* to its end unless it refuses the cancel.
LEMMA StatusMoves ==
  ASSUME NEW s \in OrderStatus, NEW e \in StatusEventKinds, NEW f \in Nat,
         next_order_status(s, e, f) # None
  PROVE  /\ s \in WorkingStatuses
         /\ next_order_status(s, e, f) \in OrderStatus \ {"FILLED"}
         /\ s = "CANCEL_PENDING" /\ e # "cancel_rejected"
              => next_order_status(s, e, f) \in TerminalStatuses
<1>1. HasRow(s, e)
  BY DEF next_order_status
<1>2. s \in WorkingStatuses
  BY <1>1 DEF HasRow, WorkingStatuses, TerminalStatuses, OrderStatus
<1>3. e = "accepted" => s # "CANCEL_PENDING"
  BY <1>1 DEF HasRow, FillEventKinds
<1>4. CASE e = "cancel_rejected"
  BY <1>2, <1>4 DEF next_order_status, working_status_for, OrderStatus, None
<1>5. CASE e # "cancel_rejected"
  <2>1. next_order_status(s, e, f) = RowTarget(s, e)
    BY <1>5 DEF next_order_status
  <2>2. /\ RowTarget(s, e) \in OrderStatus \ {"FILLED"}
        /\ e # "accepted" => RowTarget(s, e) \in TerminalStatuses
    BY <1>5 DEF RowTarget, StatusEventKinds, OrderStatus, TerminalStatuses
  <2> QED
    BY <1>2, <1>3, <1>5, <2>1, <2>2
<1> QED
  BY <1>4, <1>5

\* A status and its canonical form are terminal, or cancelling, together.
LEMMA Canonical ==
  ASSUME NEW s \in OrderStatus \cup BrokerLocal
  PROVE  /\ canonical_status(s) \in OrderStatus
         /\ canonical_status(s) \in TerminalStatuses <=> s \in TerminalStatuses
         /\ canonical_status(s) = "FILLED" <=> s = "FILLED"
BY DEF canonical_status, OrderStatus, BrokerLocal, TerminalStatuses

-----------------------------------------------------------------------------
(* One order of the mirror replaced *)

LEMMA OrderReplaced ==
  ASSUME TypeOK, NEW o \in DOMAIN orders, NEW new \in BrokerOrder,
         orders' = [orders EXCEPT ![o] = new]
  PROVE  /\ DOMAIN orders' = DOMAIN orders
         /\ orders' \in [DOMAIN orders' -> BrokerOrder]
         /\ \A x \in DOMAIN orders : orders'[x] = IF x = o THEN new ELSE orders[x]
BY DEF TypeOK

\* A change that a report or a request may make to an order it finds.
Change(order, new) ==
  /\ new \in BrokerOrder /\ ~is_terminal(order)
  /\ Fits(order) => Fits(new)

KeepsCancel(order, new) ==
  canonical_status(order.status) = "CANCEL_PENDING" =>
    is_terminal(new) \/ canonical_status(new.status) = "CANCEL_PENDING"

LEMMA StatusChange ==
  ASSUME TypeOK, NEW r \in Report, r.kind \in StatusEventKinds,
         StatusOutcome(r) = "APPLIED", ApplyStatus(r)
  PROVE  /\ r.order \in DOMAIN orders
         /\ \E new : /\ orders' = [orders EXCEPT ![r.order] = new]
                     /\ Change(orders[r.order], new)
                     /\ new.filled = orders[r.order].filled
                     /\ r.kind # "cancel_rejected" => KeepsCancel(orders[r.order], new)
<1> DEFINE order == orders[r.order]
           status == canonical_status(order.status)
           after == next_order_status(status, r.kind, order.filled)
           new == [order EXCEPT !.status = after, !.updated = Later(@, r.at)]
<1>1. r.order \in DOMAIN orders /\ after # None
  BY DEF StatusOutcome, classify_order_event
<1>2. order \in BrokerOrder /\ r.at \in Nat
  BY <1>1 DEF TypeOK, Report
<1>3. /\ order.status \in OrderStatus \cup BrokerLocal
      /\ order.filled \in Nat /\ order.quantity \in Nat /\ order.updated \in Nat
  BY <1>2 DEF BrokerOrder
<1>4. /\ status \in OrderStatus
      /\ status \in TerminalStatuses <=> order.status \in TerminalStatuses
      /\ status = "FILLED" <=> order.status = "FILLED"
  BY <1>3, Canonical
<1> HIDE DEF status
<1>5. /\ status \in WorkingStatuses /\ after \in OrderStatus \ {"FILLED"}
      /\ status = "CANCEL_PENDING" /\ r.kind # "cancel_rejected" => after \in TerminalStatuses
  BY <1>1, <1>3, <1>4, StatusMoves
<1>6. orders' = [orders EXCEPT ![r.order] = new]
  BY DEF ApplyStatus, status
<1> HIDE DEF after
<1>7. /\ new \in BrokerOrder /\ new.status = after
      /\ new.filled = order.filled /\ new.quantity = order.quantity
  BY <1>2, <1>3, <1>5 DEF BrokerOrder, Later
<1>8. ~is_terminal(order) /\ order.status # "FILLED"
  BY <1>4, <1>5 DEF is_terminal, WorkingStatuses, TerminalStatuses
<1> HIDE DEF new
<1>9. Fits(order) => Fits(new)
  BY <1>3, <1>5, <1>7, <1>8 DEF Fits
<1>10. r.kind # "cancel_rejected" => KeepsCancel(order, new)
  BY <1>5, <1>7 DEF KeepsCancel, is_terminal, status
<1> QED
  BY <1>1, <1>6, <1>7, <1>8, <1>9, <1>10 DEF Change

LEMMA FillChange ==
  ASSUME TypeOK, NEW r \in Report, FillOutcome(r) = "APPLIED", ApplyFill(r)
  PROVE  /\ r.order \in DOMAIN orders /\ r.quantity \in Nat \ {0}
         /\ r.at \in Nat \ DOMAIN executions
         /\ \E new : /\ orders' = [orders EXCEPT ![r.order] = new]
                     /\ Change(orders[r.order], new)
                     /\ new.filled = orders[r.order].filled + r.quantity
                     /\ KeepsCancel(orders[r.order], new)
<1> DEFINE order == orders[r.order]
           filled == order.filled + r.quantity
           after == status_after_fill(order, filled)
           new == [order EXCEPT !.filled = filled, !.status = after,
                                !.updated = Later(@, r.at)]
<1>1. /\ r.order \in DOMAIN orders /\ r.quantity # 0 /\ r.at \notin DOMAIN executions
      /\ ~is_terminal(order) /\ ~(filled > order.quantity)
  BY DEF FillOutcome
<1>2. order \in BrokerOrder /\ r.at \in Nat /\ r.quantity \in Nat
  BY <1>1 DEF TypeOK, Report
<1>3. /\ order.status \in OrderStatus \cup BrokerLocal
      /\ order.filled \in Nat /\ order.quantity \in Nat /\ order.updated \in Nat
  BY <1>2 DEF BrokerOrder
<1>4. orders' = [orders EXCEPT ![r.order] = new]
  BY DEF ApplyFill
<1>5. /\ filled \in Nat /\ after \in OrderStatus \cup BrokerLocal
      /\ after = "FILLED" <=> filled = order.quantity
  BY <1>1, <1>2, <1>3 DEF status_after_fill, is_terminal, TerminalStatuses, OrderStatus
<1>6. canonical_status(order.status) = "CANCEL_PENDING" =>
        after = "FILLED" \/ canonical_status(after) = "CANCEL_PENDING"
  BY DEF status_after_fill
<1> HIDE DEF after, filled
<1>7. /\ new \in BrokerOrder /\ new.status = after
      /\ new.filled = filled /\ new.quantity = order.quantity
  BY <1>2, <1>3, <1>5 DEF BrokerOrder, Later
<1> HIDE DEF new
<1>8. Fits(new)
  BY <1>1, <1>2, <1>3, <1>5, <1>7 DEF Fits, filled
<1>9. KeepsCancel(order, new)
  BY <1>6, <1>7 DEF KeepsCancel, is_terminal, TerminalStatuses
<1> QED
  BY <1>1, <1>2, <1>4, <1>7, <1>8, <1>9 DEF Change, filled

\* What the number alone decides is never that a report applies.
LEMMA GateWord ==
  ASSUME TypeOK, NEW r \in Report, NEW key, NEW holds
  PROVE  SequenceGate(r, key, holds) # "APPLIED"
<1>1. r.seq \in Nat /\ (key \in DOMAIN venue_sequences => venue_sequences[key] \in Nat)
  BY DEF TypeOK, Report
<1> QED
  BY <1>1 DEF SequenceGate, Numbered

LEMMA ReplacedChange ==
  ASSUME TypeOK, NEW r \in Report, ReplacedOutcome(r) = "APPLIED", ApplyReplaced(r)
  PROVE  /\ r.order \in DOMAIN orders
         /\ \/ orders' = orders
            \/ \E new : /\ orders' = [orders EXCEPT ![r.order] = new]
                        /\ Change(orders[r.order], new)
                        /\ new.filled = orders[r.order].filled
                        /\ KeepsCancel(orders[r.order], new)
<1> DEFINE order == orders[r.order]
           new == [order EXCEPT !.quantity = r.quantity, !.updated = Later(@, r.at)]
<1>1. r.order \in DOMAIN orders /\ r.quantity # 0
  BY DEF ReplacedOutcome
<1>2. order \in BrokerOrder /\ r.at \in Nat /\ r.quantity \in Nat
  BY <1>1 DEF TypeOK, Report
<1>3. /\ order.status \in OrderStatus \cup BrokerLocal
      /\ order.filled \in Nat /\ order.quantity \in Nat /\ order.updated \in Nat
  BY <1>2 DEF BrokerOrder
<1>4. CASE Stands(r)
  BY <1>1, <1>4 DEF ApplyReplaced
<1>5. CASE ~Stands(r)
  <2>1. orders' = [orders EXCEPT ![r.order] = new]
    BY <1>5 DEF ApplyReplaced
  <2>2. HasRow(canonical_status(order.status), "replaced") /\ ~(r.quantity <= order.filled)
    BY <1>1, <1>5, GateWord DEF ReplacedOutcome, Report
  <2>3. canonical_status(order.status) \in WorkingStatuses
    BY <2>2 DEF HasRow, FillEventKinds
  <2>4. ~is_terminal(order) /\ order.status # "FILLED"
    BY <1>3, <2>3, Canonical DEF is_terminal, WorkingStatuses, TerminalStatuses
  <2>5. /\ new \in BrokerOrder /\ new.status = order.status
        /\ new.filled = order.filled /\ new.quantity = r.quantity
    BY <1>2, <1>3 DEF BrokerOrder, Later
  <2> HIDE DEF new
  <2>6. Fits(new)
    BY <1>2, <1>3, <2>2, <2>4, <2>5 DEF Fits
  <2>7. KeepsCancel(order, new)
    BY <2>5 DEF KeepsCancel
  <2> QED
    BY <1>1, <2>1, <2>4, <2>5, <2>6, <2>7 DEF Change
<1> QED
  BY <1>4, <1>5

\* A cancel request marks a working order as cancelling.
LEMMA RequestChange ==
  ASSUME TypeOK, Known, NEW q, issue_cancel(q)
  PROVE  /\ q.order \in DOMAIN orders
         /\ canonical_status(orders[q.order].status) # "CANCEL_PENDING"
         /\ \E new : /\ orders' = [orders EXCEPT ![q.order] = new]
                     /\ Change(orders[q.order], new)
                     /\ new.filled = orders[q.order].filled
                     /\ canonical_status(new.status) = "CANCEL_PENDING"
<1> DEFINE order == orders[q.order]
           new == [order EXCEPT !.status = "PENDING_CANCEL", !.updated = Later(@, clock)]
<1>1. /\ q.order \in DOMAIN orders /\ ~is_terminal(order)
      /\ canonical_status(order.status) # "CANCEL_PENDING"
      /\ orders' = [orders EXCEPT ![q.order] = new]
  BY DEF issue_cancel
<1>2. order \in BrokerOrder /\ clock \in Nat
  BY <1>1 DEF TypeOK, Known
<1>3. /\ order.status \in OrderStatus \cup BrokerLocal
      /\ order.filled \in Nat /\ order.quantity \in Nat /\ order.updated \in Nat
  BY <1>2 DEF BrokerOrder
<1>4. /\ new \in BrokerOrder /\ new.status = "PENDING_CANCEL"
      /\ new.filled = order.filled /\ new.quantity = order.quantity
  BY <1>2, <1>3 DEF BrokerOrder, BrokerLocal, Later
<1> HIDE DEF new
<1>5. Fits(order) => Fits(new)
  BY <1>1, <1>3, <1>4 DEF Fits, is_terminal, TerminalStatuses
<1>6. canonical_status(new.status) = "CANCEL_PENDING"
  BY <1>4 DEF canonical_status
<1> QED
  BY <1>1, <1>4, <1>5, <1>6 DEF Change

\* What follows from a change for the orders as a whole.
LEMMA ChangeStep ==
  ASSUME TypeOK, FillsFit, NEW o \in DOMAIN orders, NEW new, Change(orders[o], new),
         orders' = [orders EXCEPT ![o] = new]
  PROVE  /\ DOMAIN orders' = DOMAIN orders
         /\ orders' \in [DOMAIN orders' -> BrokerOrder]
         /\ \A x \in DOMAIN orders : orders'[x] = IF x = o THEN new ELSE orders[x]
         /\ FillsFit' /\ ClosedKept
<1>1. /\ DOMAIN orders' = DOMAIN orders
      /\ orders' \in [DOMAIN orders' -> BrokerOrder]
      /\ \A x \in DOMAIN orders : orders'[x] = IF x = o THEN new ELSE orders[x]
  BY OrderReplaced DEF Change
<1>2. Fits(new) /\ ~is_terminal(orders[o])
  BY DEF Change, FillsFit, Fits
<1>3. FillsFit'
  BY <1>1, <1>2 DEF FillsFit, Fits
<1>4. ClosedKept
  BY <1>1, <1>2 DEF ClosedKept
<1> QED
  BY <1>1, <1>3, <1>4

-----------------------------------------------------------------------------
(* A report delivered *)

\* The kinds of report are told apart, and an account report names its value.
LEMMA AccountFacts ==
  ASSUME TypeOK, NEW r \in Report, AccountOutcome(r) = "APPLIED",
         r.kind \notin OrderEventKinds, ApplyAccount(r)
  PROVE  /\ UNCHANGED <<orders, executions>>
         /\ account' \in [AccountKeys -> Nat]
         /\ DOMAIN venue_sequences' \subseteq Entities
         /\ venue_sequences' \in [DOMAIN venue_sequences' -> Nat]
<1>1. r.kind # "foreign_account"
  BY DEF AccountOutcome
<1>2. r.kind \in AccountKeys /\ r.quantity \in Nat /\ r.seq \in Nat
  BY <1>1 DEF Report, ReportKinds
<1>3. /\ UNCHANGED <<orders, executions>>
      /\ account' = [account EXCEPT ![r.kind] = r.quantity]
      /\ venue_sequences' = NumberedSequences(r, r.kind)
  BY DEF ApplyAccount
<1>4. account' \in [AccountKeys -> Nat]
  BY <1>2, <1>3 DEF TypeOK
<1> QED
  BY <1>2, <1>3, <1>4 DEF TypeOK, NumberedSequences, MapSet, Entities

LEMMA Delivered ==
  ASSUME TypeOK, NEW r \in Report, apply_venue_event(r)
  PROVE  /\ \/ orders' = orders
            \/ /\ r.order \in DOMAIN orders
               /\ \E new : /\ orders' = [orders EXCEPT ![r.order] = new]
                           /\ Change(orders[r.order], new)
                           /\ r.kind # "cancel_rejected" => KeepsCancel(orders[r.order], new)
         /\ \/ executions' = executions /\ \A o \in DOMAIN orders :
                                             orders'[o].filled = orders[o].filled
            \/ /\ r.kind \in FillEventKinds
               /\ FillOutcome(r) = "APPLIED" /\ ApplyFill(r)
         /\ account' \in [AccountKeys -> Nat]
         /\ DOMAIN venue_sequences' \subseteq Entities
         /\ venue_sequences' \in [DOMAIN venue_sequences' -> Nat]
<1>1. CASE classify_venue_event(r) # "APPLIED"
  BY <1>1 DEF apply_venue_event, TypeOK
<1> SUFFICES ASSUME classify_venue_event(r) = "APPLIED"
             PROVE  /\ \/ orders' = orders
                       \/ /\ r.order \in DOMAIN orders
                          /\ \E new : /\ orders' = [orders EXCEPT ![r.order] = new]
                                      /\ Change(orders[r.order], new)
                                      /\ r.kind # "cancel_rejected" =>
                                           KeepsCancel(orders[r.order], new)
                    /\ \/ executions' = executions /\ \A o \in DOMAIN orders :
                                                        orders'[o].filled = orders[o].filled
                       \/ /\ r.kind \in FillEventKinds
                          /\ FillOutcome(r) = "APPLIED" /\ ApplyFill(r)
                    /\ account' \in [AccountKeys -> Nat]
                    /\ DOMAIN venue_sequences' \subseteq Entities
                    /\ venue_sequences' \in [DOMAIN venue_sequences' -> Nat]
  BY <1>1
<1>2. CASE r.kind \in StatusEventKinds
  <2>0. r.kind \notin FillEventKinds \cup {"replaced"}
    BY <1>2 DEF FillEventKinds, StatusEventKinds
  <2>1. StatusOutcome(r) = "APPLIED" /\ ApplyStatus(r)
    BY <1>2, <2>0 DEF classify_venue_event, apply_venue_event
  <2>2. UNCHANGED <<executions, account, venue_sequences>>
    BY <2>1 DEF ApplyStatus
  <2>3. /\ r.order \in DOMAIN orders
        /\ \E new : /\ orders' = [orders EXCEPT ![r.order] = new]
                    /\ Change(orders[r.order], new)
                    /\ new.filled = orders[r.order].filled
                    /\ r.kind # "cancel_rejected" => KeepsCancel(orders[r.order], new)
    BY <1>2, <2>1, StatusChange
  <2>4. \A o \in DOMAIN orders : orders'[o].filled = orders[o].filled
    BY <2>3, OrderReplaced DEF Change
  <2> QED
    BY <2>2, <2>3, <2>4 DEF TypeOK
<1>3. CASE r.kind \in FillEventKinds
  <2>1. r.kind \notin StatusEventKinds \cup {"replaced"} /\ r.kind # "cancel_rejected"
    BY <1>3 DEF FillEventKinds, StatusEventKinds
  <2>2. FillOutcome(r) = "APPLIED" /\ ApplyFill(r)
    BY <1>3, <2>1 DEF classify_venue_event, apply_venue_event
  <2>3. UNCHANGED <<account, venue_sequences>>
    BY <2>2 DEF ApplyFill
  <2>4. /\ r.order \in DOMAIN orders
        /\ \E new : /\ orders' = [orders EXCEPT ![r.order] = new]
                    /\ Change(orders[r.order], new)
                    /\ KeepsCancel(orders[r.order], new)
    BY <2>2, FillChange
  <2> QED
    BY <1>3, <2>2, <2>3, <2>4 DEF TypeOK
<1>4. CASE r.kind = "replaced"
  <2>1. r.kind \notin StatusEventKinds \cup FillEventKinds /\ r.kind # "cancel_rejected"
    BY <1>4 DEF FillEventKinds, StatusEventKinds
  <2>2. ReplacedOutcome(r) = "APPLIED" /\ ApplyReplaced(r)
    BY <1>4, <2>1 DEF classify_venue_event, apply_venue_event
  <2>3. /\ UNCHANGED <<executions, account>>
        /\ venue_sequences' = NumberedSequences(r, r.order)
    BY <2>2 DEF ApplyReplaced
  <2>4. /\ r.order \in DOMAIN orders
        /\ \/ orders' = orders
           \/ \E new : /\ orders' = [orders EXCEPT ![r.order] = new]
                       /\ Change(orders[r.order], new)
                       /\ new.filled = orders[r.order].filled
                       /\ KeepsCancel(orders[r.order], new)
    BY <2>2, ReplacedChange
  <2>5. \A o \in DOMAIN orders : orders'[o].filled = orders[o].filled
    BY <2>4, OrderReplaced DEF Change
  <2>6. /\ DOMAIN venue_sequences' \subseteq Entities
        /\ venue_sequences' \in [DOMAIN venue_sequences' -> Nat]
    BY <2>3, <2>4 DEF TypeOK, NumberedSequences, MapSet, Entities, Report
  <2> QED
    BY <2>1, <2>3, <2>4, <2>5, <2>6 DEF TypeOK
<1>5. CASE r.kind \notin OrderEventKinds
  <2>1. r.kind \notin StatusEventKinds \cup FillEventKinds \cup {"replaced"}
    BY <1>5 DEF OrderEventKinds
  <2>2. AccountOutcome(r) = "APPLIED" /\ ApplyAccount(r)
    BY <2>1 DEF classify_venue_event, apply_venue_event
  <2> QED
    BY <1>5, <2>2, AccountFacts
<1> QED
  BY <1>2, <1>3, <1>4, <1>5 DEF OrderEventKinds

\* A recorded fill is counted once, for its order and no other.
LEMMA FillCounted ==
  ASSUME IInv, NEW r \in Report, FillOutcome(r) = "APPLIED", ApplyFill(r)
  PROVE  /\ FillsCountedOnce'
         /\ DOMAIN executions' \subseteq Nat /\ IsFiniteSet(DOMAIN executions')
         /\ executions' \in [DOMAIN executions' -> [order: Orders, quantity: Nat]]
         /\ \A e \in DOMAIN executions' : executions'[e].order \in DOMAIN orders
<1> DEFINE entry == [order |-> r.order, quantity |-> r.quantity]
           Of(x) == {e \in DOMAIN executions : executions[e].order = x}
           Now(x) == {e \in DOMAIN executions' : executions'[e].order = x}
           sum(x) == [e \in Of(x) |-> executions[e].quantity]
           next(x) == [e \in Now(x) |-> executions'[e].quantity]
<1>1. PICK new : /\ orders' = [orders EXCEPT ![r.order] = new]
                 /\ Change(orders[r.order], new)
                 /\ new.filled = orders[r.order].filled + r.quantity
  BY FillChange DEF IInv
<1>2. /\ r.order \in DOMAIN orders /\ r.quantity \in Nat /\ r.at \in Nat \ DOMAIN executions
      /\ executions' = MapSet(executions, r.at, entry)
  BY FillChange DEF IInv, ApplyFill
<1>3. /\ DOMAIN orders' = DOMAIN orders
      /\ \A x \in DOMAIN orders : orders'[x] = IF x = r.order THEN new ELSE orders[x]
  BY <1>1, <1>2, OrderReplaced DEF Change, IInv
<1>4. /\ DOMAIN executions' = DOMAIN executions \cup {r.at}
      /\ executions'[r.at] = entry
      /\ \A e \in DOMAIN executions : executions'[e] = executions[e]
  BY <1>2 DEF MapSet
<1>5. entry \in [order: Orders, quantity: Nat] /\ entry.order = r.order
      /\ entry.quantity = r.quantity
  BY <1>2 DEF IInv, TypeOK
<1>6. IsFiniteSet(DOMAIN executions')
  BY <1>4, FS_AddElement DEF IInv, Known
<1>7. executions' \in [DOMAIN executions' -> [order: Orders, quantity: Nat]]
  <2>1. executions' = [e \in DOMAIN executions' |-> executions'[e]]
    BY <1>2 DEF MapSet
  <2> QED
    BY <1>4, <1>5, <2>1 DEF IInv, TypeOK
<1> HIDE DEF entry
<1>8. ASSUME NEW x \in DOMAIN orders
      PROVE  /\ IsFiniteSet(Of(x)) /\ sum(x) \in [Of(x) -> Nat]
             /\ r.at \notin Of(x) /\ orders[x].filled = SumOf(sum(x))
  <2>1. IsFiniteSet(Of(x))
    BY FS_Subset DEF IInv, Known
  <2> QED
    BY <1>2, <2>1 DEF IInv, TypeOK, FillsCountedOnce
<1>9. ASSUME NEW x \in DOMAIN orders
      PROVE  orders'[x].filled = SumOf(next(x))
  <2>1. CASE x = r.order
    <3>1. Now(x) = Of(x) \cup {r.at}
      BY <1>4, <1>5, <2>1
    <3>2. next(x) \in [Of(x) \cup {r.at} -> Nat]
      BY <1>7, <3>1
    <3>3. /\ next(x)[r.at] = r.quantity
          /\ \A e \in Of(x) : next(x)[e] = sum(x)[e]
      BY <1>4, <1>5, <3>1
    <3> HIDE DEF Now, next, Of, sum
    <3>4. /\ IsFiniteSet(Of(x)) /\ sum(x) \in [Of(x) -> Nat]
          /\ r.at \notin Of(x) /\ orders[x].filled = SumOf(sum(x))
      BY <1>8
    <3>5. SumOf(next(x)) = SumOf(sum(x)) + next(x)[r.at]
      BY <3>2, <3>3, <3>4, SumGrows
    <3> QED
      BY <1>1, <1>3, <2>1, <3>3, <3>4, <3>5
  <2>2. CASE x # r.order
    <3>1. Now(x) = Of(x)
      BY <1>4, <1>5, <2>2
    <3>2. next(x) = sum(x)
      BY <1>4, <3>1
    <3> QED
      BY <1>3, <1>8, <2>2, <3>2
  <2> QED
    BY <2>1, <2>2
<1>10. FillsCountedOnce'
  BY <1>3, <1>9 DEF FillsCountedOnce
<1>11. /\ DOMAIN executions' \subseteq Nat
       /\ \A e \in DOMAIN executions' : executions'[e].order \in DOMAIN orders
  BY <1>2, <1>4, <1>5 DEF IInv, TypeOK, Known
<1> QED
  BY <1>6, <1>7, <1>10, <1>11

\* Orders change and none of their fills: what is recorded still adds up.
LEMMA CountedKept ==
  ASSUME IInv, executions' = executions, DOMAIN orders' = DOMAIN orders,
         \A o \in DOMAIN orders : orders'[o].filled = orders[o].filled
  PROVE  FillsCountedOnce'
BY DEF IInv, FillsCountedOnce

LEMMA DeliverStep ==
  ASSUME IInv, NEW r \in sent, Deliver(r)
  PROVE  IInv' /\ ClosedKept
<1>1. r \in Report /\ apply_venue_event(r)
  BY DEF IInv, TypeOK, Deliver
<1>2. /\ UNCHANGED <<connected, ledger, venue, told, clock, number, session, asked, sent, lost>>
      /\ delivered' = delivered \cup {r} /\ broken' \in BOOLEAN
  BY <1>1 DEF Deliver, apply_venue_event, IInv, TypeOK
<1>3. /\ account' \in [AccountKeys -> Nat]
      /\ DOMAIN venue_sequences' \subseteq Entities
      /\ venue_sequences' \in [DOMAIN venue_sequences' -> Nat]
      /\ \/ executions' = executions /\ \A o \in DOMAIN orders :
                                          orders'[o].filled = orders[o].filled
         \/ FillOutcome(r) = "APPLIED" /\ ApplyFill(r)
  BY <1>1, Delivered DEF IInv
<1>4. /\ DOMAIN orders' = DOMAIN orders
      /\ orders' \in [DOMAIN orders' -> BrokerOrder]
      /\ FillsFit' /\ ClosedKept
  <2>1. CASE orders' = orders
    BY <2>1 DEF IInv, TypeOK, FillsFit, ClosedKept
  <2>2. CASE orders' # orders
    BY <1>1, <2>2, Delivered, ChangeStep DEF IInv
  <2> QED
    BY <2>1, <2>2
<1>5. /\ FillsCountedOnce'
      /\ DOMAIN executions' \subseteq Nat /\ IsFiniteSet(DOMAIN executions')
      /\ executions' \in [DOMAIN executions' -> [order: Orders, quantity: Nat]]
      /\ \A e \in DOMAIN executions' : executions'[e].order \in DOMAIN orders'
  <2>1. CASE FillOutcome(r) = "APPLIED" /\ ApplyFill(r)
    BY <1>1, <1>4, <2>1, FillCounted
  <2>2. CASE executions' = executions /\ \A o \in DOMAIN orders :
                                           orders'[o].filled = orders[o].filled
    BY <1>4, <2>2, CountedKept DEF IInv, TypeOK, Known
  <2> QED
    BY <1>3, <2>1, <2>2
<1>6. TypeOK'
  BY <1>1, <1>2, <1>3, <1>4, <1>5 DEF IInv, TypeOK, ledger
<1>7. Known'
  BY <1>2, <1>4, <1>5 DEF IInv, Known
<1> QED
  BY <1>4, <1>5, <1>6, <1>7 DEF IInv

-----------------------------------------------------------------------------
(* Requests *)

LEMMA CancelStep ==
  ASSUME IInv, NEW o \in Orders, NEW n \in Nat, Cancel(o, n)
  PROVE  IInv' /\ ClosedKept
<1> DEFINE q == [kind |-> "cancel", order |-> o, number |-> n, quantity |-> 0]
<1>1. /\ issue_cancel(q) /\ asked' = asked \cup {q}
      /\ UNCHANGED <<venue, told, clock, number, session, sent, delivered, lost>>
  BY DEF Cancel, Ask
<1>2. q \in Request /\ q.order = o /\ q.number = n
  BY DEF Request
<1> HIDE DEF q
<1>3. PICK new : /\ o \in DOMAIN orders
                 /\ orders' = [orders EXCEPT ![o] = new]
                 /\ Change(orders[o], new) /\ new.filled = orders[o].filled
  BY <1>1, <1>2, RequestChange DEF IInv
<1>4. /\ DOMAIN orders' = DOMAIN orders
      /\ orders' \in [DOMAIN orders' -> BrokerOrder]
      /\ \A x \in DOMAIN orders : orders'[x] = IF x = o THEN new ELSE orders[x]
      /\ FillsFit' /\ ClosedKept
  BY <1>3, ChangeStep DEF IInv
<1>5. /\ issued' = issued \cup {q} /\ latest_cancel' = MapSet(latest_cancel, o, n)
      /\ UNCHANGED <<executions, account, venue_sequences, connected, latest_revision, broken>>
  BY <1>1, <1>2 DEF issue_cancel
<1>6. FillsCountedOnce'
  BY <1>3, <1>4, <1>5, CountedKept
<1>7. TypeOK'
  BY <1>1, <1>2, <1>4, <1>5 DEF IInv, TypeOK, MapSet
<1>8. Known'
  BY <1>1, <1>4, <1>5 DEF IInv, Known
<1> QED
  BY <1>4, <1>6, <1>7, <1>8 DEF IInv

LEMMA AmendStep ==
  ASSUME IInv, NEW o \in Orders, NEW n \in Nat, NEW quantity \in Nat, Amend(o, n, quantity)
  PROVE  IInv' /\ ClosedKept
<1> DEFINE q == [kind |-> "modify", order |-> o, number |-> n, quantity |-> quantity]
<1>1. /\ issue_modify(q) /\ asked' = asked \cup {q}
      /\ UNCHANGED <<venue, told, clock, number, session, sent, delivered, lost>>
  BY DEF Amend, Ask
<1>2. q \in Request /\ q.order = o /\ q.number = n /\ q.quantity = quantity
  BY DEF Request
<1> HIDE DEF q
<1>3. /\ issued' = issued \cup {q}
      /\ latest_revision' = MapSet(latest_revision, o, <<n, quantity>>)
      /\ UNCHANGED <<mirror, latest_cancel, broken>>
  BY <1>1, <1>2 DEF issue_modify
<1>4. /\ DOMAIN latest_revision' \subseteq Orders
      /\ latest_revision' \in [DOMAIN latest_revision' -> Nat \X Nat]
  BY <1>3 DEF IInv, TypeOK, MapSet
<1>5. TypeOK'
  BY <1>1, <1>2, <1>3, <1>4 DEF IInv, TypeOK, mirror
<1>6. Known' /\ FillsFit' /\ FillsCountedOnce' /\ ClosedKept
  BY <1>1, <1>3 DEF IInv, Known, FillsFit, FillsCountedOnce, ClosedKept, mirror
<1> QED
  BY <1>5, <1>6 DEF IInv

-----------------------------------------------------------------------------
(* The venue and the network *)

\* Whatever happens outside: reports and requests come and go, the venue's
\* orders are never forgotten, and the mirror is as it was.
LEMMA OutsideStep ==
  ASSUME IInv, UNCHANGED <<orders, executions, account, ledger, broken>>,
         venue_sequences' \in {venue_sequences, EmptyMap}, connected' \in BOOLEAN,
         {clock', number'} \subseteq Nat, DOMAIN venue \subseteq DOMAIN venue',
         sent' \subseteq Report, delivered' \subseteq Report, asked' \subseteq Request
  PROVE  IInv' /\ ClosedKept
<1>1. TypeOK'
  BY DEF IInv, TypeOK, ledger, EmptyMap
<1>2. Known' /\ FillsFit' /\ FillsCountedOnce' /\ ClosedKept
  BY DEF IInv, Known, FillsFit, FillsCountedOnce, ClosedKept
<1> QED
  BY <1>1, <1>2 DEF IInv

LEMMA SendOK ==
  ASSUME IInv, NEW kind \in ReportKinds, NEW o \in Orders \cup {NoOrder},
         NEW quantity \in Nat, NEW seq \in Nat, Send(kind, o, quantity, seq)
  PROVE  sent' \subseteq Report /\ {clock', number'} \subseteq Nat
<1>1. clock \in Nat /\ number \in Nat
  BY DEF IInv, Known
<1> QED
  BY <1>1 DEF Send, IInv, TypeOK, Report

LEMMA SubmitStep ==
  ASSUME IInv, NEW o \in Orders, NEW quantity \in Quantities, Submit(o, quantity)
  PROVE  IInv' /\ ClosedKept
<1> DEFINE new == [status |-> "SUBMITTED", quantity |-> quantity, filled |-> 0,
                   updated |-> clock']
<1>1. /\ o \notin DOMAIN venue /\ clock' = clock + 1
      /\ orders' = MapSet(orders, o, new)
      /\ DOMAIN venue' = DOMAIN venue \cup {o}
      /\ UNCHANGED <<executions, account, venue_sequences, connected, ledger, told, number,
                     session, asked, sent, delivered, lost, broken>>
  BY DEF Submit, MapSet
<1>2. o \notin DOMAIN orders /\ clock \in Nat /\ quantity \in Nat \ {0}
  BY <1>1 DEF IInv, Known, Quantities
<1>3. new \in BrokerOrder /\ new.filled = 0 /\ Fits(new)
  BY <1>1, <1>2 DEF BrokerOrder, BrokerLocal, Fits
<1> HIDE DEF new
<1>4. /\ DOMAIN orders' = DOMAIN orders \cup {o} /\ orders'[o] = new
      /\ \A x \in DOMAIN orders : orders'[x] = orders[x]
      /\ orders' = [x \in DOMAIN orders' |-> orders'[x]]
  BY <1>1, <1>2 DEF MapSet
<1>5. TypeOK'
  BY <1>1, <1>2, <1>3, <1>4 DEF IInv, TypeOK, ledger
<1>6. Known'
  BY <1>1, <1>2, <1>4 DEF IInv, Known
<1>7. FillsFit' /\ ClosedKept
  BY <1>2, <1>3, <1>4 DEF IInv, FillsFit, Fits, ClosedKept
<1>8. FillsCountedOnce'
  <2> SUFFICES ASSUME NEW x \in DOMAIN orders'
               PROVE  orders'[x].filled =
                        SumOf([e \in {e \in DOMAIN executions : executions[e].order = x} |->
                                 executions[e].quantity])
    BY <1>1 DEF FillsCountedOnce
  <2>1. CASE x = o
    <3> DEFINE sum == [e \in {e \in DOMAIN executions : executions[e].order = x} |->
                         executions[e].quantity]
    <3>1. DOMAIN sum = {}
      BY <1>2, <2>1 DEF IInv, Known
    <3> HIDE DEF sum
    <3>2. SumOf(sum) = 0
      BY <3>1, SumOfNone
    <3> QED
      BY <1>3, <1>4, <2>1, <3>2 DEF sum
  <2>2. CASE x # o
    BY <1>4, <2>2 DEF IInv, FillsCountedOnce
  <2> QED
    BY <2>1, <2>2
<1> QED
  BY <1>5, <1>6, <1>7, <1>8 DEF IInv

LEMMA VenueStep ==
  ASSUME IInv, NEW kind \in ReportKinds, NEW o \in Orders \cup {NoOrder},
         NEW quantity \in Nat, NEW seq \in Nat, Send(kind, o, quantity, seq),
         DOMAIN venue \subseteq DOMAIN venue', asked' \subseteq asked, VenueOnly
  PROVE  IInv' /\ ClosedKept
<1>1. /\ UNCHANGED <<orders, executions, account, ledger, broken, venue_sequences, connected,
                     delivered>>
  BY DEF VenueOnly, mirror
<1>2. /\ venue_sequences' \in {venue_sequences, EmptyMap} /\ connected' \in BOOLEAN
      /\ delivered' \subseteq Report /\ asked' \subseteq Request
  BY <1>1 DEF IInv, TypeOK
<1> QED
  BY <1>1, <1>2, SendOK, OutsideStep

LEMMA SubmitElsewhereStep ==
  ASSUME IInv, NEW o \in Orders, NEW quantity, SubmitElsewhere(o, quantity)
  PROVE  IInv' /\ ClosedKept
<1>1. /\ "accepted" \in ReportKinds /\ Send("accepted", o, 0, 0)
      /\ DOMAIN venue' = DOMAIN venue \cup {o} /\ asked' = asked /\ VenueOnly
  BY DEF SubmitElsewhere, ReportKinds, OrderEventKinds, StatusEventKinds, MapSet
<1> QED
  BY <1>1, VenueStep

LEMMA DecideStep ==
  ASSUME IInv, NEW o \in Orders, Decide(o)
  PROVE  IInv' /\ ClosedKept
<1>1. PICK kind \in {"accepted", "rejected", "expired"} : Send(kind, o, 0, 0)
  BY DEF Decide
<1>2. /\ kind \in ReportKinds
      /\ DOMAIN venue' = DOMAIN venue /\ asked' = asked /\ VenueOnly
  BY DEF Decide, ReportKinds, OrderEventKinds, StatusEventKinds
<1> QED
  BY <1>1, <1>2, VenueStep

LEMMA TradeStep ==
  ASSUME IInv, NEW o \in Orders, NEW quantity \in Quantities, Trade(o, quantity)
  PROVE  IInv' /\ ClosedKept
<1>1. PICK kind \in FillEventKinds : Send(kind, o, quantity, 0)
  BY DEF Trade, FillEventKinds
<1>2. /\ kind \in ReportKinds /\ quantity \in Nat
      /\ DOMAIN venue' = DOMAIN venue /\ asked' = asked /\ VenueOnly
  BY DEF Trade, ReportKinds, OrderEventKinds, Quantities
<1> QED
  BY <1>1, <1>2, VenueStep

LEMMA DeclareStep ==
  ASSUME IInv, NEW key \in AccountKeys, NEW numbered \in BOOLEAN, NEW value \in Quantities,
         Declare(key, numbered, value)
  PROVE  IInv' /\ ClosedKept
<1>1. PICK seq \in {0, number + 1} : Send(key, NoOrder, value, seq)
  BY DEF Declare
<1>2. /\ key \in ReportKinds /\ value \in Nat /\ seq \in Nat
      /\ venue' = venue /\ asked' = asked /\ VenueOnly
  BY DEF Declare, ReportKinds, Quantities, IInv, Known
<1> QED
  BY <1>1, <1>2, VenueStep

LEMMA DeclareForeignStep ==
  ASSUME IInv, DeclareForeign
  PROVE  IInv' /\ ClosedKept
<1>1. /\ "foreign_account" \in ReportKinds /\ Send("foreign_account", NoOrder, 0, 0)
      /\ venue' = venue /\ asked' = asked /\ VenueOnly
  BY DEF DeclareForeign, ReportKinds
<1> QED
  BY <1>1, VenueStep

LEMMA AnswerCancelStep ==
  ASSUME IInv, NEW q \in asked, AnswerCancel(q)
  PROVE  IInv' /\ ClosedKept
<1>1. PICK kind \in {"cancelled", "cancel_rejected"} : Send(kind, q.order, q.number, 0)
  BY DEF AnswerCancel
<1>2. /\ kind \in ReportKinds /\ q.order \in Orders /\ q.number \in Nat
      /\ DOMAIN venue' = DOMAIN venue /\ asked' \subseteq asked /\ VenueOnly
  BY DEF AnswerCancel, ReportKinds, OrderEventKinds, StatusEventKinds, IInv, TypeOK, Request
<1> QED
  BY <1>1, <1>2, VenueStep

LEMMA AnswerAmendStep ==
  ASSUME IInv, NEW q \in asked, AnswerAmend(q)
  PROVE  IInv' /\ ClosedKept
<1>1. /\ q.order \in Orders /\ q.quantity \in Nat /\ asked' \subseteq asked /\ VenueOnly
      /\ DOMAIN venue' = DOMAIN venue
  BY DEF AnswerAmend, IInv, TypeOK, Request
<1>2. CASE Send("replaced", q.order, q.quantity, number + 1)
  <2>1. "replaced" \in ReportKinds /\ number + 1 \in Nat
    BY DEF ReportKinds, OrderEventKinds, IInv, Known
  <2> QED
    BY <1>1, <1>2, <2>1, VenueStep
<1>3. CASE UNCHANGED <<venue, clock, sent, number>>
  BY <1>1, <1>3, OutsideStep DEF VenueOnly, mirror, IInv, TypeOK, Known
<1> QED
  BY <1>2, <1>3 DEF AnswerAmend

LEMMA LoseRequestStep ==
  ASSUME IInv, NEW q \in asked, LoseRequest(q)
  PROVE  IInv' /\ ClosedKept
BY OutsideStep DEF LoseRequest, mirror, IInv, TypeOK, Known

LEMMA DropStep ==
  ASSUME IInv, Drop
  PROVE  IInv' /\ ClosedKept
BY OutsideStep DEF Drop, disconnect, outside, IInv, TypeOK, Known

LEMMA ReconnectStep ==
  ASSUME IInv, Reconnect
  PROVE  IInv' /\ ClosedKept
BY OutsideStep DEF Reconnect, connect, IInv, TypeOK, Known

-----------------------------------------------------------------------------
(* The invariant *)

LEMMA InitInv == Init => IInv
<1> SUFFICES ASSUME Init PROVE IInv
  OBVIOUS
<1>1. DOMAIN EmptyMap = {} /\ \A T : EmptyMap \in [{} -> T]
  BY DEF EmptyMap
<1>2. TypeOK
  BY <1>1 DEF Init, TypeOK
<1>3. Known
  BY <1>1, FS_EmptySet DEF Init, Known
<1>4. FillsFit /\ FillsCountedOnce
  BY <1>1 DEF Init, FillsFit, FillsCountedOnce
<1> QED
  BY <1>2, <1>3, <1>4 DEF IInv

LEMMA NextInv == IInv /\ [Next]_vars => IInv' /\ ClosedKept
<1> SUFFICES ASSUME IInv, [Next]_vars PROVE IInv' /\ ClosedKept
  OBVIOUS
<1>1. CASE \E r \in sent : Deliver(r)
  BY <1>1, DeliverStep
<1>2. CASE \E o \in Orders, q \in Quantities :
             Submit(o, q) \/ SubmitElsewhere(o, q) \/ Trade(o, q)
  BY <1>2, SubmitStep, SubmitElsewhereStep, TradeStep
<1>3. CASE \E o \in Orders : Decide(o)
  BY <1>3, DecideStep
<1>4. CASE \E o \in Orders, n \in 1..MaxAttempts : Cancel(o, n)
  BY <1>4, CancelStep
<1>5. CASE \E o \in Orders, n \in 1..MaxRevisions, q \in Quantities : Amend(o, n, q)
  BY <1>5, AmendStep DEF Quantities
<1>6. CASE \E k \in AccountKeys, numbered \in BOOLEAN, v \in Quantities :
             Declare(k, numbered, v)
  BY <1>6, DeclareStep
<1>7. CASE DeclareForeign
  BY <1>7, DeclareForeignStep
<1>8. CASE \E q \in asked : AnswerCancel(q) \/ AnswerAmend(q) \/ LoseRequest(q)
  BY <1>8, AnswerCancelStep, AnswerAmendStep, LoseRequestStep
<1>9. CASE Drop \/ Reconnect
  BY <1>9, DropStep, ReconnectStep
<1>10. CASE UNCHANGED vars
  <2>1. UNCHANGED <<mirror, ledger, outside, broken>>
    BY <1>10 DEF vars
  <2>2. connected' \in BOOLEAN /\ {clock', number'} \subseteq Nat
    BY <2>1 DEF mirror, outside, IInv, TypeOK, Known
  <2> QED
    BY <2>1, <2>2, OutsideStep DEF mirror, outside, IInv, TypeOK
<1> QED
  BY <1>1, <1>2, <1>3, <1>4, <1>5, <1>6, <1>7, <1>8, <1>9, <1>10 DEF Next

LEMMA Invariant == Spec => []IInv
<1>1. IInv /\ [Next]_vars => IInv'
  BY NextInv
<1> QED
  BY <1>1, InitInv, PTL DEF Spec

\* Every mirror is one its classes allow, what it has filled fits what it holds
\* ordered, and it calls an order FILLED exactly when nothing is left of it.
THEOREM MirrorTheorem == Spec => []MirrorInv
<1>1. IInv => MirrorInv
  BY DEF IInv, MirrorInv
<1> QED
  BY <1>1, Invariant, PTL

\* What an order has filled is the sum of the executions recorded for it, however
\* often the venue delivers each fill and whatever happens to the order between.
THEOREM FillsCountedOnceTheorem == Spec => []FillsCountedOnce
<1>1. IInv => FillsCountedOnce
  BY DEF IInv
<1> QED
  BY <1>1, Invariant, PTL

\* No report and no request changes an order the mirror holds as finished.
THEOREM TerminalAbsorbsTheorem == Spec => TerminalAbsorbs
<1>1. IInv /\ [Next]_vars => [ClosedKept]_vars
  BY NextInv
<1> QED
  BY <1>1, Invariant, PTL DEF Spec, TerminalAbsorbs

-----------------------------------------------------------------------------
(* Cancels in flight *)

CancelAnswers == {"cancelled", "cancel_rejected"}

AnswersCancel(r, q) ==
  r.kind \in CancelAnswers /\ r.order = q.order /\ r.quantity = q.number

Requests ==
  /\ asked \subseteq issued
  /\ \A q \in issued : q.kind = "cancel" => q.quantity = 0 /\ q.order \in DOMAIN orders

\* Every answer is to a cancel that was issued and is no longer on its way, and
\* a cancel has one answer.
OneAnswer ==
  /\ \A r \in sent : r.kind \in CancelAnswers =>
       \E q \in issued \ asked : q.kind = "cancel" /\ AnswersCancel(r, q)
  /\ \A r, s \in sent :
       /\ r.kind \in CancelAnswers /\ s.kind \in CancelAnswers
       /\ r.order = s.order /\ r.quantity = s.quantity
       => r = s

OneOutstanding == \A o \in DOMAIN orders : \A p, q \in Outstanding(o) : p = q

Cancels == Requests /\ OneAnswer /\ OneOutstanding /\ CancelRemembered

LEMMA SameCancel ==
  ASSUME IInv, Requests, NEW p \in issued, NEW q \in issued,
         p.kind = "cancel", q.kind = "cancel", p.order = q.order, p.number = q.number
  PROVE  p = q
BY DEF IInv, TypeOK, Requests, Request

\* Nothing is asked, answered or applied: what is outstanding can only shrink.
LEMMA QuietStep ==
  ASSUME IInv, Cancels, UNCHANGED <<orders, issued, delivered>>, asked' \subseteq asked,
         \A r \in sent' \ sent : r.kind \notin CancelAnswers
  PROVE  Cancels'
<1>1. \A o : Outstanding(o)' \subseteq Outstanding(o)
  BY DEF Outstanding, CancelAnswers
<1>2. Requests'
  BY DEF Cancels, Requests
<1>3. OneAnswer'
  <2>1. \A r \in sent' : r.kind \in CancelAnswers => r \in sent
    OBVIOUS
  <2>2. \A r \in sent' : r.kind \in CancelAnswers =>
          \E q \in issued \ asked' : q.kind = "cancel" /\ AnswersCancel(r, q)
    BY <2>1 DEF Cancels, OneAnswer
  <2>3. \A r, s \in sent' :
          /\ r.kind \in CancelAnswers /\ s.kind \in CancelAnswers
          /\ r.order = s.order /\ r.quantity = s.quantity
          => r = s
    BY <2>1 DEF Cancels, OneAnswer
  <2> QED
    BY <2>2, <2>3 DEF OneAnswer, AnswersCancel
<1>4. OneOutstanding'
  BY <1>1 DEF Cancels, OneOutstanding
<1>5. CancelRemembered'
  BY <1>1 DEF Cancels, CancelRemembered
<1> QED
  BY <1>2, <1>3, <1>4, <1>5 DEF Cancels

\* The answer to a cancel leaves at most that cancel outstanding, as it was.
LEMMA CancelAnswered ==
  ASSUME IInv, Cancels, NEW q \in asked, AnswerCancel(q)
  PROVE  Cancels'
<1>1. /\ UNCHANGED <<orders, issued, delivered>> /\ asked' = asked \ {q}
      /\ q.kind = "cancel"
  BY DEF AnswerCancel, VenueOnly, mirror, ledger
<1>2. PICK r : sent' = sent \cup {r} /\ AnswersCancel(r, q)
  <2>1. PICK kind \in CancelAnswers : Send(kind, q.order, q.number, 0)
    BY DEF AnswerCancel, CancelAnswers
  <2> DEFINE r == [kind |-> kind, order |-> q.order, quantity |-> q.number,
                   seq |-> 0, at |-> clock + 1]
  <2>2. sent' = sent \cup {r} /\ AnswersCancel(r, q)
    BY <2>1 DEF Send, AnswersCancel
  <2> QED
    BY <2>2
<1>3. q \in issued
  BY DEF Cancels, Requests
<1>4. \A p \in issued : p.kind = "cancel" /\ AnswersCancel(r, p) => p = q
  BY <1>1, <1>2, <1>3, SameCancel DEF AnswersCancel, Cancels
<1>5. \A o : Outstanding(o)' \subseteq Outstanding(o)
  <2> SUFFICES ASSUME NEW o, NEW p \in Outstanding(o)'
               PROVE  p \in Outstanding(o)
    OBVIOUS
  <2>1. /\ p \in issued /\ p.kind = "cancel" /\ p.order = o
        /\ \/ p \in asked'
           \/ \E s \in sent' \ delivered : AnswersCancel(s, p)
    BY <1>1 DEF Outstanding, AnswersCancel, CancelAnswers
  <2>2. p \in asked \/ \E s \in sent \ delivered : AnswersCancel(s, p)
    BY <1>1, <1>2, <1>4, <2>1
  <2> QED
    BY <2>1, <2>2 DEF Outstanding, AnswersCancel, CancelAnswers
<1>6. Requests'
  BY <1>1 DEF Cancels, Requests
<1>7. OneAnswer'
  <2>1. \A s \in sent' : s.kind \in CancelAnswers =>
          \E p \in issued \ asked' : p.kind = "cancel" /\ AnswersCancel(s, p)
    BY <1>1, <1>2, <1>3 DEF Cancels, OneAnswer
  <2>2. ASSUME NEW s \in sent, s.kind \in CancelAnswers,
               s.order = r.order, s.quantity = r.quantity
        PROVE  FALSE
    <3>1. PICK p \in issued \ asked : p.kind = "cancel" /\ AnswersCancel(s, p)
      BY <2>2 DEF Cancels, OneAnswer
    <3>2. p = q
      BY <1>4, <1>2, <2>2, <3>1 DEF AnswersCancel
    <3> QED
      BY <3>1, <3>2
  <2>3. \A s, t \in sent' :
          /\ s.kind \in CancelAnswers /\ t.kind \in CancelAnswers
          /\ s.order = t.order /\ s.quantity = t.quantity
          => s = t
    BY <1>2, <2>2 DEF Cancels, OneAnswer
  <2> QED
    BY <1>1, <2>1, <2>3 DEF OneAnswer, AnswersCancel
<1>8. OneOutstanding' /\ CancelRemembered'
  BY <1>1, <1>5 DEF Cancels, OneOutstanding, CancelRemembered
<1> QED
  BY <1>6, <1>7, <1>8 DEF Cancels

\* A cancel is issued only when none is outstanding.
LEMMA CancelIssued ==
  ASSUME IInv, Cancels, NEW o \in Orders, NEW n \in Nat, Cancel(o, n)
  PROVE  Cancels'
<1> DEFINE q == [kind |-> "cancel", order |-> o, number |-> n, quantity |-> 0]
<1>1. /\ issue_cancel(q) /\ asked' = asked \cup {q} /\ UNCHANGED <<sent, delivered>>
      /\ issued' = issued \cup {q} /\ q \notin issued
      /\ ~is_terminal(orders[q.order])
  BY DEF Cancel, Ask, issue_cancel
<1>2. q.order = o /\ q.number = n /\ q.kind = "cancel" /\ q.quantity = 0
  OBVIOUS
<1> HIDE DEF q
<1>3. /\ o \in DOMAIN orders /\ canonical_status(orders[o].status) # "CANCEL_PENDING"
      /\ \E new : /\ orders' = [orders EXCEPT ![o] = new]
                  /\ Change(orders[o], new)
                  /\ canonical_status(new.status) = "CANCEL_PENDING"
  BY <1>1, <1>2, RequestChange DEF IInv
<1>4. /\ DOMAIN orders' = DOMAIN orders
      /\ canonical_status(orders'[o].status) = "CANCEL_PENDING"
      /\ \A x \in DOMAIN orders \ {o} : orders'[x] = orders[x]
  BY <1>3, OrderReplaced DEF Change, IInv
<1>5. Outstanding(o) = {}
  BY <1>1, <1>2, <1>3 DEF Cancels, CancelRemembered
<1>6. \A x : Outstanding(x)' \subseteq Outstanding(x) \cup {q}
  BY <1>1 DEF Outstanding
<1>7. \A x : x # o => q \notin Outstanding(x)'
  BY <1>2 DEF Outstanding
<1>8. Requests'
  BY <1>1, <1>2, <1>3, <1>4 DEF Cancels, Requests
<1>9. OneAnswer'
  <2>1. \A r \in sent : r.kind \in CancelAnswers =>
          \E p \in issued' \ asked' : p.kind = "cancel" /\ AnswersCancel(r, p)
    BY <1>1 DEF Cancels, OneAnswer
  <2> QED
    BY <1>1, <2>1 DEF Cancels, OneAnswer, AnswersCancel
<1>10. OneOutstanding'
  BY <1>4, <1>5, <1>6, <1>7 DEF Cancels, OneOutstanding
<1>11. CancelRemembered'
  BY <1>4, <1>6, <1>7 DEF Cancels, CancelRemembered
<1> QED
  BY <1>8, <1>9, <1>10, <1>11 DEF Cancels

LEMMA AmendIssued ==
  ASSUME IInv, Cancels, NEW o \in Orders, NEW n \in Nat, NEW quantity, Amend(o, n, quantity)
  PROVE  Cancels'
<1> DEFINE q == [kind |-> "modify", order |-> o, number |-> n, quantity |-> quantity]
<1>1. /\ asked' = asked \cup {q} /\ issued' = issued \cup {q} /\ q \notin issued
      /\ UNCHANGED <<orders, sent, delivered>>
  BY DEF Amend, Ask, issue_modify, mirror
<1>2. q.kind = "modify"
  OBVIOUS
<1> HIDE DEF q
<1>3. \A x : Outstanding(x)' \subseteq Outstanding(x)
  BY <1>1, <1>2 DEF Outstanding
<1>4. Requests'
  BY <1>1, <1>2 DEF Cancels, Requests
<1>5. OneAnswer'
  <2>1. \A r \in sent : r.kind \in CancelAnswers =>
          \E p \in issued' \ asked' : p.kind = "cancel" /\ AnswersCancel(r, p)
    BY <1>1 DEF Cancels, OneAnswer
  <2> QED
    BY <1>1, <2>1 DEF Cancels, OneAnswer, AnswersCancel
<1>6. OneOutstanding' /\ CancelRemembered'
  BY <1>1, <1>3 DEF Cancels, OneOutstanding, CancelRemembered
<1> QED
  BY <1>4, <1>5, <1>6 DEF Cancels

\* An order enters the mirror with no cancel of its own.
LEMMA SubmitKeepsCancels ==
  ASSUME IInv, Cancels, NEW o \in Orders, NEW quantity \in Quantities, Submit(o, quantity)
  PROVE  Cancels'
<1>1. /\ o \notin DOMAIN venue
      /\ DOMAIN orders' = DOMAIN orders \cup {o}
      /\ \A x \in DOMAIN orders : x # o => orders'[x] = orders[x]
      /\ UNCHANGED <<issued, asked, sent, delivered>>
  BY DEF Submit, MapSet, ledger
<1>2. o \notin DOMAIN orders
  BY <1>1 DEF IInv, Known
<1>3. \A x : Outstanding(x)' = Outstanding(x)
  BY <1>1 DEF Outstanding
<1>4. Outstanding(o) = {}
  BY <1>2 DEF Cancels, Requests, Outstanding
<1>5. Requests' /\ OneAnswer'
  BY <1>1 DEF Cancels, Requests, OneAnswer, AnswersCancel
<1>6. OneOutstanding' /\ CancelRemembered'
  BY <1>1, <1>2, <1>3, <1>4 DEF Cancels, OneOutstanding, CancelRemembered
<1> QED
  BY <1>5, <1>6 DEF Cancels

\* The one report that ends a cancel without ending the order is its refusal,
\* and a refusal delivered once ends the cancel it answers.
LEMMA DeliverKeepsCancels ==
  ASSUME "cancel_rejected" \notin Redelivered, IInv, Cancels, NEW r \in sent, Deliver(r)
  PROVE  Cancels'
<1>1. /\ r \in Report /\ apply_venue_event(r) /\ Deliverable(r)
      /\ UNCHANGED <<issued, asked, sent>> /\ delivered' = delivered \cup {r}
  BY DEF IInv, TypeOK, Deliver, ledger
<1>2. \A o : Outstanding(o)' \subseteq Outstanding(o)
  BY <1>1 DEF Outstanding
<1>3. \/ orders' = orders
      \/ /\ r.order \in DOMAIN orders
         /\ \E new : /\ orders' = [orders EXCEPT ![r.order] = new]
                     /\ Change(orders[r.order], new)
                     /\ r.kind # "cancel_rejected" => KeepsCancel(orders[r.order], new)
  BY <1>1, Delivered DEF IInv
<1>4. /\ DOMAIN orders' = DOMAIN orders
      /\ \A o \in DOMAIN orders : orders'[o] = orders[o] \/
           /\ o = r.order /\ ~is_terminal(orders[o])
           /\ r.kind # "cancel_rejected" => KeepsCancel(orders[o], orders'[o])
  <2>1. CASE orders' = orders
    BY <2>1
  <2>2. CASE orders' # orders
    <3>1. PICK new : /\ r.order \in DOMAIN orders
                     /\ orders' = [orders EXCEPT ![r.order] = new]
                     /\ Change(orders[r.order], new)
                     /\ r.kind # "cancel_rejected" => KeepsCancel(orders[r.order], new)
      BY <1>3, <2>2
    <3>2. new \in BrokerOrder /\ ~is_terminal(orders[r.order])
      BY <3>1 DEF Change
    <3> QED
      BY <3>1, <3>2, OrderReplaced DEF IInv
  <2> QED
    BY <2>1, <2>2
<1>5. ASSUME r.kind = "cancel_rejected"
      PROVE  Outstanding(r.order)' = {}
  <2>1. ~Absolute(r)
    BY <1>5, AccountKeysNamed DEF Absolute, OrderEventKinds, StatusEventKinds
  <2>2. r \notin delivered
    BY <1>1, <1>5, <2>1 DEF Deliverable
  <2>3. PICK q \in issued \ asked : q.kind = "cancel" /\ AnswersCancel(r, q)
    BY <1>5 DEF Cancels, OneAnswer, CancelAnswers
  <2>4. q \in Outstanding(r.order) /\ q.order \in DOMAIN orders
    BY <2>2, <2>3 DEF Outstanding, AnswersCancel, CancelAnswers, Cancels, Requests
  <2>5. \A p \in Outstanding(r.order) : p = q
    BY <2>3, <2>4 DEF AnswersCancel, Cancels, OneOutstanding
  <2>6. \A s \in sent : AnswersCancel(s, q) => s = r
    BY <2>3 DEF AnswersCancel, Cancels, OneAnswer
  <2>7. q \notin Outstanding(r.order)'
    BY <1>1, <2>3, <2>6 DEF Outstanding, AnswersCancel, CancelAnswers
  <2> QED
    BY <1>2, <2>5, <2>7
<1>6. Requests' /\ OneAnswer'
  BY <1>1, <1>4 DEF Cancels, Requests, OneAnswer, AnswersCancel
<1>7. OneOutstanding'
  BY <1>2, <1>4 DEF Cancels, OneOutstanding
<1>8. CancelRemembered'
  <2> SUFFICES ASSUME NEW o \in DOMAIN orders, Outstanding(o)' # {}
               PROVE  \/ is_terminal(orders'[o])
                      \/ canonical_status(orders'[o].status) = "CANCEL_PENDING"
    BY <1>4 DEF CancelRemembered
  <2>1. is_terminal(orders[o]) \/ canonical_status(orders[o].status) = "CANCEL_PENDING"
    BY <1>2 DEF Cancels, CancelRemembered
  <2>2. CASE orders'[o] = orders[o]
    BY <2>1, <2>2
  <2>3. CASE orders'[o] # orders[o]
    BY <1>4, <1>5, <2>1, <2>3 DEF KeepsCancel
  <2> QED
    BY <2>2, <2>3
<1> QED
  BY <1>6, <1>7, <1>8 DEF Cancels

\* The venue and the network send no answer of their own accord.
LEMMA OthersKeepCancels ==
  ASSUME IInv, Cancels,
         \/ \E o \in Orders, q \in Quantities : SubmitElsewhere(o, q) \/ Trade(o, q)
         \/ \E o \in Orders : Decide(o)
         \/ \E k \in AccountKeys, numbered \in BOOLEAN, v \in Quantities :
              Declare(k, numbered, v)
         \/ DeclareForeign
         \/ \E q \in asked : AnswerAmend(q) \/ LoseRequest(q)
         \/ Drop \/ Reconnect \/ UNCHANGED vars
  PROVE  Cancels'
<1>1. \A kind, o, quantity, seq : Send(kind, o, quantity, seq) /\ kind \notin CancelAnswers
         => \A r \in sent' \ sent : r.kind \notin CancelAnswers
  BY DEF Send
<1>2. ASSUME VenueOnly, asked' \subseteq asked,
             \A r \in sent' \ sent : r.kind \notin CancelAnswers
      PROVE  Cancels'
  BY <1>2, QuietStep DEF VenueOnly, mirror, ledger
<1>3. CASE \E o \in Orders, q \in Quantities : SubmitElsewhere(o, q)
  BY <1>1, <1>2, <1>3 DEF SubmitElsewhere, CancelAnswers
<1>4. ASSUME NEW o \in Orders, NEW q \in Quantities, Trade(o, q)
      PROVE  Cancels'
  <2>1. PICK kind \in {"filled", "partially_filled"} : Send(kind, o, q, 0)
    BY <1>4 DEF Trade
  <2> QED
    BY <1>1, <1>2, <1>4, <2>1 DEF Trade, CancelAnswers
<1>5. CASE \E o \in Orders : Decide(o)
  BY <1>1, <1>2, <1>5 DEF Decide, CancelAnswers
<1>6. ASSUME NEW k \in AccountKeys, NEW numbered \in BOOLEAN, NEW v \in Quantities,
             Declare(k, numbered, v)
      PROVE  Cancels'
  <2>1. k \notin CancelAnswers
    BY AccountKeysNamed DEF OrderEventKinds, StatusEventKinds, CancelAnswers
  <2>2. PICK seq \in {0, number + 1} : Send(k, NoOrder, v, seq)
    BY <1>6 DEF Declare
  <2> QED
    BY <1>1, <1>2, <1>6, <2>1, <2>2 DEF Declare
<1>7. CASE DeclareForeign
  BY <1>1, <1>2, <1>7 DEF DeclareForeign, CancelAnswers
<1>8. ASSUME NEW q \in asked, AnswerAmend(q)
      PROVE  Cancels'
  BY <1>1, <1>2, <1>8 DEF AnswerAmend, CancelAnswers
<1>9. CASE \E q \in asked : LoseRequest(q)
  BY <1>9, QuietStep DEF LoseRequest, mirror, ledger
<1>10. CASE Drop
  BY <1>10, QuietStep DEF Drop, ledger, outside
<1>11. CASE Reconnect
  BY <1>11, QuietStep DEF Reconnect, ledger
<1>12. CASE UNCHANGED vars
  BY <1>12, QuietStep DEF vars, mirror, ledger, outside
<1> QED
  BY <1>3, <1>4, <1>5, <1>6, <1>7, <1>8, <1>9, <1>10, <1>11, <1>12

LEMMA CancelsInvariant ==
  ASSUME "cancel_rejected" \notin Redelivered
  PROVE  Spec => [](IInv /\ Cancels)
<1>1. Init => Cancels
  BY DEF Init, EmptyMap, Cancels, Requests, OneAnswer, OneOutstanding, CancelRemembered
<1>2. IInv /\ Cancels /\ [Next]_vars => Cancels'
  <2> SUFFICES ASSUME IInv, Cancels, [Next]_vars PROVE Cancels'
    OBVIOUS
  <2>1. CASE \E r \in sent : Deliver(r)
    BY <2>1, DeliverKeepsCancels
  <2>2. CASE \E o \in Orders, q \in Quantities : Submit(o, q)
    BY <2>2, SubmitKeepsCancels
  <2>3. CASE \E o \in Orders, n \in 1..MaxAttempts : Cancel(o, n)
    BY <2>3, CancelIssued
  <2>4. CASE \E o \in Orders, n \in 1..MaxRevisions, q \in Quantities : Amend(o, n, q)
    BY <2>4, AmendIssued
  <2>5. CASE \E q \in asked : AnswerCancel(q)
    BY <2>5, CancelAnswered
  <2> QED
    BY <2>1, <2>2, <2>3, <2>4, <2>5, OthersKeepCancels DEF Next
<1> QED
  BY <1>1, <1>2, InitInv, NextInv, PTL DEF Spec

\* A mirror never forgets a cancel in flight: while its answer is not delivered
\* the order reads as cancelling or as finished.  It needs what the venue does
\* about refusals: the code gives a refusal no attempt number, so one that were
\* delivered again would end a later cancel.
THEOREM CancelRememberedTheorem ==
  ASSUME "cancel_rejected" \notin Redelivered
  PROVE  Spec => []CancelRemembered
<1>1. IInv /\ Cancels => CancelRemembered
  BY DEF Cancels
<1> QED
  BY <1>1, CancelsInvariant, PTL

\* Under the same condition one cancel is outstanding per order at a time.
THEOREM OneCancelTheorem ==
  ASSUME "cancel_rejected" \notin Redelivered
  PROVE  Spec => []OneCancelOutstanding
<1>1. IInv /\ Cancels => OneCancelOutstanding
  <2> SUFFICES ASSUME IInv, Cancels, NEW o \in Orders
               PROVE  Cardinality(Outstanding(o)) <= 1
    BY DEF OneCancelOutstanding
  <2>1. CASE Outstanding(o) = {}
    BY <2>1, FS_EmptySet
  <2>2. CASE Outstanding(o) # {}
    <3>1. PICK q \in Outstanding(o) : TRUE
      BY <2>2
    <3>2. o \in DOMAIN orders
      BY <3>1 DEF Outstanding, Cancels, Requests
    <3>3. Outstanding(o) = {q}
      BY <3>1, <3>2 DEF Cancels, OneOutstanding
    <3>4. Cardinality({q}) = 1
      BY FS_Singleton
    <3> QED
      BY <3>3, <3>4
  <2> QED
    BY <2>1, <2>2
<1> QED
  BY <1>1, CancelsInvariant, PTL

-----------------------------------------------------------------------------
(* Snapshots of the venue *)

\* The fills the venue made: a dropped session takes no fill with it, and no
\* two fills have one execution_id.
Fills(reports) == {r \in reports : r.kind \in FillEventKinds}

FillsOf(fills, o, upto) == {r \in fills : r.order = o /\ r.at <= upto}

Times(fills) == {r.at : r \in fills}

At(fills, t) == CHOOSE r \in fills : r.at = t

QuantityAt(fills) == [t \in Times(fills) |-> At(fills, t).quantity]

Filled(fills, o, upto) == SumOf(QuantityAt(FillsOf(fills, o, upto)))

EntryOf(r) == [order |-> r.order, quantity |-> r.quantity]

FromFills(map, fills) == \A e \in DOMAIN map : \E r \in fills : r.at = e /\ map[e] = EntryOf(r)

VenueOrder == [status: OrderStatus, quantity: Nat, filled: Nat]

GoodFills(fills, orders_known, now) ==
  /\ IsFiniteSet(fills) /\ fills \subseteq Report
  /\ \A r \in fills : r.order \in orders_known /\ r.at <= now
  /\ \A r, s \in fills : r.at = s.at => r = s

\* The venue's own records, and where the mirror's executions come from.
VenueOK ==
  /\ DOMAIN venue \subseteq Orders /\ venue \in [DOMAIN venue -> VenueOrder]
  /\ told \in [AccountKeys -> Nat]
  /\ GoodFills(Fills(sent), DOMAIN venue, clock)
  /\ FromFills(executions, Fills(sent))
  /\ \A o \in DOMAIN venue : venue[o].filled = Filled(Fills(sent), o, clock)

\* A snapshot counts the fills made until it was taken, and lists them; while
\* the venue's clock stands it is the venue.
SnapshotOK ==
  /\ snapshot.as_of \in Nat /\ snapshot.as_of <= clock
  /\ \A o \in Listed : snapshot.orders[o].filled = Filled(Fills(sent), o, snapshot.as_of)
  /\ "executions" \notin snapshot.unexamined =>
       /\ FromFills(snapshot.executions, Fills(sent))
       /\ \A r \in Fills(sent) :
            r.order \in Listed /\ r.at <= snapshot.as_of => r.at \in DOMAIN snapshot.executions
  /\ snapshot.as_of = clock =>
       /\ Listed \subseteq DOMAIN venue
       /\ \A o \in Listed : snapshot.orders[o] = venue[o]
       /\ "account" \notin snapshot.unexamined => snapshot.account = told

SInv == IInv /\ VenueOK /\ SnapshotOK

LEMMA AtIs ==
  ASSUME NEW fills, NEW r \in fills, \A s, t \in fills : s.at = t.at => s = t
  PROVE  At(fills, r.at) = r
BY DEF At

\* The fills of an order until an instant, as a map of numbers.
LEMMA FillMap ==
  ASSUME NEW fills, NEW known, NEW now, GoodFills(fills, known, now), NEW o, NEW upto
  PROVE  /\ IsFiniteSet(Times(FillsOf(fills, o, upto)))
         /\ QuantityAt(FillsOf(fills, o, upto)) \in [Times(FillsOf(fills, o, upto)) -> Nat]
         /\ \A r \in FillsOf(fills, o, upto) :
              QuantityAt(FillsOf(fills, o, upto))[r.at] = r.quantity
<1> DEFINE part == FillsOf(fills, o, upto)
<1>1. part \subseteq fills /\ IsFiniteSet(part)
  BY FS_Subset DEF GoodFills, FillsOf
<1>2. \A s, t \in part : s.at = t.at => s = t
  BY <1>1 DEF GoodFills
<1>3. \A r \in part : r.quantity \in Nat
  BY <1>1 DEF GoodFills, Report
<1> HIDE DEF part
<1>4. \A r \in part : At(part, r.at) = r
  BY <1>2, AtIs
<1>5. IsFiniteSet(Times(part))
  <2>1. [r \in part |-> r.at] \in Surjection(part, Times(part))
    BY DEF Surjection, Times
  <2> QED
    BY <1>1, <2>1, FS_Surjection
<1>6. QuantityAt(part) \in [Times(part) -> Nat]
  BY <1>3, <1>4 DEF QuantityAt, Times
<1>7. \A r \in part : QuantityAt(part)[r.at] = r.quantity
  BY <1>4 DEF QuantityAt, Times
<1> QED
  BY <1>5, <1>6, <1>7 DEF part

LEMMA FilledNat ==
  ASSUME NEW fills, NEW known, NEW now, GoodFills(fills, known, now), NEW o, NEW upto
  PROVE  Filled(fills, o, upto) \in Nat
BY FillMap, SumType DEF Filled

\* An order with no fills has filled nothing.
LEMMA FilledNothing ==
  ASSUME NEW fills, NEW o, NEW upto, \A r \in fills : r.order # o
  PROVE  Filled(fills, o, upto) = 0
<1>1. DOMAIN QuantityAt(FillsOf(fills, o, upto)) = {}
  BY DEF QuantityAt, Times, FillsOf
<1> QED
  BY <1>1, SumOfNone DEF Filled

\* A later fill does not count until an earlier instant.
LEMMA FilledUntil ==
  ASSUME NEW fills, NEW r, NEW o, NEW upto, ~(r.order = o /\ r.at <= upto)
  PROVE  Filled(fills \cup {r}, o, upto) = Filled(fills, o, upto)
<1>1. FillsOf(fills \cup {r}, o, upto) = FillsOf(fills, o, upto)
  BY DEF FillsOf
<1> QED
  BY <1>1 DEF Filled

\* Time alone fills nothing.
LEMMA FilledSince ==
  ASSUME NEW fills, NEW known, NEW now \in Nat, GoodFills(fills, known, now), NEW o,
         NEW later \in Nat, now <= later
  PROVE  Filled(fills, o, later) = Filled(fills, o, now)
<1>1. FillsOf(fills, o, later) = FillsOf(fills, o, now)
  BY DEF FillsOf, GoodFills, Report
<1> QED
  BY <1>1 DEF Filled

\* A new fill adds its quantity to its order.
LEMMA FilledMore ==
  ASSUME NEW fills, NEW known, NEW now \in Nat, GoodFills(fills, known, now),
         NEW r \in Report, r.at = now + 1, GoodFills(fills \cup {r}, known, now + 1)
  PROVE  Filled(fills \cup {r}, r.order, now + 1) = Filled(fills, r.order, now) + r.quantity
<1> DEFINE before == FillsOf(fills, r.order, now)
           after == FillsOf(fills \cup {r}, r.order, now + 1)
<1>1. after = before \cup {r}
  BY DEF FillsOf, GoodFills, Report
<1>2. Times(after) = Times(before) \cup {r.at}
  BY <1>1 DEF Times
<1>3. r.at \notin Times(before)
  BY DEF Times, FillsOf
<1>4. /\ IsFiniteSet(Times(before)) /\ QuantityAt(before) \in [Times(before) -> Nat]
      /\ \A s \in before : QuantityAt(before)[s.at] = s.quantity
  BY FillMap
<1>5. /\ QuantityAt(after) \in [Times(after) -> Nat]
      /\ \A s \in after : QuantityAt(after)[s.at] = s.quantity
  <2> DEFINE more == fills \cup {r}
             next == now + 1
  <2>1. GoodFills(more, known, next)
    OBVIOUS
  <2> HIDE DEF more, next
  <2>2. /\ QuantityAt(FillsOf(more, r.order, next)) \in [Times(FillsOf(more, r.order, next)) -> Nat]
        /\ \A s \in FillsOf(more, r.order, next) :
             QuantityAt(FillsOf(more, r.order, next))[s.at] = s.quantity
    BY <2>1, FillMap
  <2> QED
    BY <2>2 DEF more, next
<1> HIDE DEF before, after
<1>6. QuantityAt(after)[r.at] = r.quantity
  BY <1>1, <1>5
<1>7. \A t \in Times(before) : QuantityAt(after)[t] = QuantityAt(before)[t]
  BY <1>1, <1>4, <1>5 DEF Times
<1>8. SumOf(QuantityAt(after)) = SumOf(QuantityAt(before)) + QuantityAt(after)[r.at]
  BY <1>2, <1>3, <1>4, <1>5, <1>7, SumGrows
<1> QED
  BY <1>6, <1>8 DEF Filled, before, after

-----------------------------------------------------------------------------
(* A step of the venue, as its fills see it *)

\* No fill is made: an order may enter with nothing filled, time may pass, and
\* the mirror may have recorded a fill there is.
Quiet ==
  /\ Fills(sent') = Fills(sent) /\ clock' \in {clock, clock + 1}
  /\ told' \in [AccountKeys -> Nat]
  /\ DOMAIN venue \subseteq DOMAIN venue' /\ DOMAIN venue' \subseteq Orders
  /\ venue' \in [DOMAIN venue' -> VenueOrder]
  /\ \A o \in DOMAIN venue' :
       venue'[o].filled = IF o \in DOMAIN venue THEN venue[o].filled ELSE 0
  /\ FromFills(executions', Fills(sent))
  /\ clock' = clock => UNCHANGED <<venue, told>>

\* A fill is made and nothing else.
Traded(r) ==
  /\ r \in Report /\ r.at = clock + 1 /\ r.order \in DOMAIN venue
  /\ Fills(sent') = Fills(sent) \cup {r} /\ clock' = clock + 1
  /\ UNCHANGED <<told, executions>>
  /\ DOMAIN venue' = DOMAIN venue /\ venue' \in [DOMAIN venue' -> VenueOrder]
  /\ \A o \in DOMAIN venue :
       venue'[o].filled = IF o = r.order THEN venue[o].filled + r.quantity ELSE venue[o].filled

VenueMove == Quiet \/ \E r : Traded(r)

LEMMA FillsGrow ==
  ASSUME NEW fills, NEW known, NEW now \in Nat, GoodFills(fills, known, now),
         NEW r \in Report, r.at = now + 1, r.order \in known
  PROVE  GoodFills(fills \cup {r}, known, now + 1)
<1>1. IsFiniteSet(fills \cup {r})
  BY FS_AddElement DEF GoodFills
<1>2. \A s \in fills : s.at \in Nat /\ s.at <= now
  BY DEF GoodFills, Report
<1>3. \A s, t \in fills \cup {r} : s.at = t.at => s = t
  BY <1>2 DEF GoodFills
<1>4. \A s \in fills \cup {r} : s.order \in known /\ s.at <= now + 1
  BY <1>2 DEF GoodFills
<1> QED
  BY <1>1, <1>3, <1>4 DEF GoodFills

LEMMA QuietVenue ==
  ASSUME clock \in Nat, VenueOK, Quiet
  PROVE  VenueOK'
<1>1. Fills(sent)' = Fills(sent) /\ clock' \in Nat /\ clock <= clock'
  BY DEF Quiet
<1>2. GoodFills(Fills(sent), DOMAIN venue, clock)
  BY DEF VenueOK
<1>3. GoodFills(Fills(sent), DOMAIN venue', clock')
  BY <1>1, <1>2 DEF GoodFills, Quiet, Report
<1>4. ASSUME NEW o \in DOMAIN venue'
      PROVE  venue'[o].filled = Filled(Fills(sent), o, clock')
  <2>1. Filled(Fills(sent), o, clock') = Filled(Fills(sent), o, clock)
    BY <1>1, <1>2, FilledSince
  <2>2. CASE o \in DOMAIN venue
    BY <2>1, <2>2 DEF Quiet, VenueOK
  <2>3. CASE o \notin DOMAIN venue
    <3>1. Filled(Fills(sent), o, clock) = 0
      BY <1>2, <2>3, FilledNothing DEF GoodFills
    <3> QED
      BY <2>1, <2>3, <3>1 DEF Quiet
  <2> QED
    BY <2>2, <2>3
<1> QED
  BY <1>1, <1>3, <1>4 DEF VenueOK, Quiet

LEMMA TradedVenue ==
  ASSUME clock \in Nat, VenueOK, NEW r, Traded(r)
  PROVE  VenueOK'
<1> DEFINE fills == Fills(sent)
<1>1. /\ r \in Report /\ r.at = clock + 1 /\ r.order \in DOMAIN venue
      /\ Fills(sent)' = fills \cup {r} /\ clock' = clock + 1
  BY DEF Traded
<1>2. GoodFills(fills, DOMAIN venue, clock)
  BY DEF VenueOK
<1>3. GoodFills(fills \cup {r}, DOMAIN venue, clock + 1)
  BY <1>1, <1>2, FillsGrow
<1>4. Filled(fills \cup {r}, r.order, clock + 1) = Filled(fills, r.order, clock) + r.quantity
  BY <1>1, <1>2, <1>3, FilledMore
<1>5. \A o \in DOMAIN venue : o # r.order =>
        Filled(fills \cup {r}, o, clock + 1) = Filled(fills, o, clock)
  <2> SUFFICES ASSUME NEW o \in DOMAIN venue, o # r.order
               PROVE  Filled(fills \cup {r}, o, clock + 1) = Filled(fills, o, clock)
    OBVIOUS
  <2>1. Filled(fills \cup {r}, o, clock + 1) = Filled(fills, o, clock + 1)
    BY FilledUntil
  <2>2. clock + 1 \in Nat /\ clock <= clock + 1
    OBVIOUS
  <2> QED
    BY <1>2, <2>1, <2>2, FilledSince
<1>6. FromFills(executions, fills \cup {r})
  BY DEF VenueOK, FromFills
<1>7. \A o \in DOMAIN venue : venue[o].filled = Filled(fills, o, clock)
  BY DEF VenueOK
<1> HIDE DEF fills
<1>8. \A o \in DOMAIN venue : venue'[o].filled = Filled(fills \cup {r}, o, clock + 1)
  BY <1>4, <1>5, <1>7 DEF Traded
<1> QED
  BY <1>1, <1>3, <1>6, <1>8 DEF VenueOK, Traded

LEMMA SnapshotKept ==
  ASSUME clock \in Nat, VenueOK, SnapshotOK, VenueMove, UNCHANGED snapshot
  PROVE  SnapshotOK'
<1> DEFINE fills == Fills(sent)
<1>1. /\ snapshot.as_of \in Nat /\ snapshot.as_of <= clock
      /\ \A o \in Listed : snapshot.orders[o].filled = Filled(fills, o, snapshot.as_of)
      /\ "executions" \notin snapshot.unexamined =>
           /\ FromFills(snapshot.executions, fills)
           /\ \A r \in fills :
                r.order \in Listed /\ r.at <= snapshot.as_of => r.at \in DOMAIN snapshot.executions
  BY DEF SnapshotOK
<1>2. Listed' = Listed
  BY DEF Listed
<1>3. clock <= clock' /\ clock' \in Nat
  BY DEF VenueMove, Quiet, Traded
<1>4. /\ snapshot.as_of = clock' => clock' = clock
      /\ clock' = clock => UNCHANGED <<venue, told>>
  BY <1>1, <1>3 DEF VenueMove, Quiet, Traded
<1>5. /\ \A o \in Listed : snapshot.orders[o].filled = Filled(Fills(sent'), o, snapshot.as_of)
      /\ "executions" \notin snapshot.unexamined =>
           /\ FromFills(snapshot.executions, Fills(sent'))
           /\ \A r \in Fills(sent') :
                r.order \in Listed /\ r.at <= snapshot.as_of => r.at \in DOMAIN snapshot.executions
  <2>1. CASE Fills(sent') = fills
    BY <1>1, <2>1
  <2>2. CASE \E r : Traded(r)
    <3>1. PICK r : Traded(r)
      BY <2>2
    <3>2. Fills(sent') = fills \cup {r} /\ r.at = clock + 1
      BY <3>1 DEF Traded
    <3>3. ~(r.at <= snapshot.as_of)
      BY <1>1, <3>2
    <3>4. \A o \in Listed : Filled(fills \cup {r}, o, snapshot.as_of) = Filled(fills, o, snapshot.as_of)
      BY <3>3, FilledUntil
    <3>5. FromFills(snapshot.executions, fills) => FromFills(snapshot.executions, fills \cup {r})
      BY DEF FromFills
    <3> HIDE DEF fills
    <3> QED
      BY <1>1, <3>2, <3>3, <3>4, <3>5
  <2> QED
    BY <2>1, <2>2 DEF VenueMove, Quiet
<1> QED
  BY <1>1, <1>2, <1>3, <1>4, <1>5 DEF SnapshotOK

\* What is sent with a report of another kind than a fill.
LEMMA SentOther ==
  ASSUME NEW kind, kind \notin FillEventKinds, NEW o, NEW quantity, NEW seq,
         Send(kind, o, quantity, seq)
  PROVE  Fills(sent') = Fills(sent) /\ clock' = clock + 1
BY DEF Send, Fills

LEMMA OtherVenue ==
  ASSUME IInv, VenueOK, NEW kind, kind \notin FillEventKinds, NEW o, NEW quantity, NEW seq,
         Send(kind, o, quantity, seq), VenueOnly, told' \in [AccountKeys -> Nat],
         DOMAIN venue \subseteq DOMAIN venue', DOMAIN venue' \subseteq Orders,
         venue' \in [DOMAIN venue' -> VenueOrder],
         \A x \in DOMAIN venue' :
           venue'[x].filled = IF x \in DOMAIN venue THEN venue[x].filled ELSE 0
  PROVE  Quiet
<1>1. Fills(sent') = Fills(sent) /\ clock' = clock + 1 /\ clock \in Nat
  BY SentOther DEF IInv, Known
<1>2. FromFills(executions', Fills(sent))
  BY DEF VenueOK, VenueOnly, mirror
<1> QED
  BY <1>1, <1>2 DEF Quiet

\* One order of the venue changes and none is filled.
LEMMA VenueRevised ==
  ASSUME VenueOK, NEW o \in DOMAIN venue, NEW new \in VenueOrder, new.filled = venue[o].filled,
         venue' = [venue EXCEPT ![o] = new]
  PROVE  /\ DOMAIN venue \subseteq DOMAIN venue' /\ DOMAIN venue' \subseteq Orders
         /\ venue' \in [DOMAIN venue' -> VenueOrder]
         /\ \A x \in DOMAIN venue' :
              venue'[x].filled = IF x \in DOMAIN venue THEN venue[x].filled ELSE 0
BY DEF VenueOK

LEMMA VenueUnrevised ==
  ASSUME VenueOK, venue' = venue
  PROVE  /\ DOMAIN venue \subseteq DOMAIN venue' /\ DOMAIN venue' \subseteq Orders
         /\ venue' \in [DOMAIN venue' -> VenueOrder]
         /\ \A x \in DOMAIN venue' :
              venue'[x].filled = IF x \in DOMAIN venue THEN venue[x].filled ELSE 0
BY DEF VenueOK

LEMMA VenueAdded ==
  ASSUME VenueOK, NEW o \in Orders, o \notin DOMAIN venue, NEW new \in VenueOrder, new.filled = 0,
         venue' = MapSet(venue, o, new)
  PROVE  /\ DOMAIN venue \subseteq DOMAIN venue' /\ DOMAIN venue' \subseteq Orders
         /\ venue' \in [DOMAIN venue' -> VenueOrder]
         /\ \A x \in DOMAIN venue' :
              venue'[x].filled = IF x \in DOMAIN venue THEN venue[x].filled ELSE 0
BY DEF VenueOK, MapSet

LEMMA SubmitQuiet ==
  ASSUME IInv, VenueOK, NEW o \in Orders, NEW q \in Quantities, Submit(o, q)
  PROVE  Quiet
<1> DEFINE new == [status |-> "PENDING", quantity |-> q, filled |-> 0]
<1>1. /\ o \notin DOMAIN venue /\ clock' = clock + 1 /\ UNCHANGED <<executions, told, sent>>
      /\ venue' = MapSet(venue, o, new)
  BY DEF Submit
<1>2. new \in VenueOrder /\ new.filled = 0
  BY DEF VenueOrder, OrderStatus, Quantities
<1> HIDE DEF new
<1>3. clock \in Nat /\ FromFills(executions', Fills(sent)) /\ told' \in [AccountKeys -> Nat]
  BY <1>1 DEF IInv, Known, VenueOK
<1>4. Fills(sent') = Fills(sent)
  BY <1>1
<1> QED
  BY <1>1, <1>2, <1>3, <1>4, VenueAdded DEF Quiet

LEMMA SubmitElsewhereQuiet ==
  ASSUME IInv, VenueOK, NEW o \in Orders, NEW q \in Quantities, SubmitElsewhere(o, q)
  PROVE  Quiet
<1> DEFINE new == [status |-> "ACCEPTED", quantity |-> q, filled |-> 0]
<1>1. /\ o \notin DOMAIN venue /\ Send("accepted", o, 0, 0) /\ VenueOnly /\ UNCHANGED told
      /\ venue' = MapSet(venue, o, new)
  BY DEF SubmitElsewhere
<1>2. new \in VenueOrder /\ new.filled = 0
  BY DEF VenueOrder, OrderStatus, Quantities
<1> HIDE DEF new
<1>3. "accepted" \notin FillEventKinds /\ told' \in [AccountKeys -> Nat]
  BY <1>1 DEF FillEventKinds, VenueOK
<1> QED
  BY <1>1, <1>2, <1>3, VenueAdded, OtherVenue

LEMMA DecideQuiet ==
  ASSUME IInv, VenueOK, NEW o \in Orders, Decide(o)
  PROVE  Quiet
<1>1. PICK kind \in {"accepted", "rejected", "expired"} :
        LET after == next_order_status(venue[o].status, kind, venue[o].filled)
        IN  /\ after # None
            /\ venue' = [venue EXCEPT ![o].status = after]
            /\ Send(kind, o, 0, 0)
  BY DEF Decide
<1> DEFINE after == next_order_status(venue[o].status, kind, venue[o].filled)
           new == [venue[o] EXCEPT !.status = after]
<1>2. /\ o \in DOMAIN venue /\ venue[o] \in VenueOrder /\ VenueOnly /\ UNCHANGED told
      /\ kind \in StatusEventKinds /\ kind \notin FillEventKinds
  BY DEF Decide, Working, VenueOK, StatusEventKinds, FillEventKinds
<1>3. after \in OrderStatus
  BY <1>1, <1>2, StatusMoves DEF VenueOrder
<1> HIDE DEF after
<1>4. venue' = [venue EXCEPT ![o] = new]
  BY <1>1 DEF after
<1>5. new \in VenueOrder /\ new.filled = venue[o].filled
  BY <1>2, <1>3 DEF VenueOrder
<1> HIDE DEF new
<1>6. told' \in [AccountKeys -> Nat] /\ Send(kind, o, 0, 0)
  BY <1>1, <1>2 DEF VenueOK
<1> QED
  BY <1>2, <1>4, <1>5, <1>6, VenueRevised, OtherVenue

LEMMA TradeMoves ==
  ASSUME IInv, VenueOK, NEW o \in Orders, NEW q \in Quantities, Trade(o, q)
  PROVE  \E r : Traded(r)
<1> DEFINE filled == venue[o].filled + q
           after  == IF filled = venue[o].quantity THEN "FILLED" ELSE "PARTIALLY_FILLED"
           kind == IF after = "FILLED" THEN "filled" ELSE "partially_filled"
           new == [venue[o] EXCEPT !.status = after, !.filled = filled]
           r == [kind |-> kind, order |-> o, quantity |-> q, seq |-> 0, at |-> clock + 1]
<1>1. /\ o \in DOMAIN venue /\ VenueOnly /\ UNCHANGED told
      /\ venue' = [venue EXCEPT ![o].status = after, ![o].filled = filled]
      /\ Send(kind, o, q, 0)
  BY DEF Trade, Working
<1>2. /\ venue[o] \in VenueOrder /\ clock \in Nat /\ q \in Nat
  BY <1>1 DEF VenueOK, IInv, Known, Quantities
<1>3. /\ after \in OrderStatus /\ filled \in Nat
      /\ kind \in FillEventKinds /\ kind \in ReportKinds
  BY <1>2 DEF OrderStatus, VenueOrder, FillEventKinds, ReportKinds, OrderEventKinds
<1>4. sent' = sent \cup {r} /\ clock' = clock + 1
  BY <1>1 DEF Send
<1> HIDE DEF after, filled, kind
<1>5. venue' = [venue EXCEPT ![o] = new]
  BY <1>1
<1>6. new \in VenueOrder /\ new.filled = filled
  BY <1>2, <1>3 DEF VenueOrder
<1>7. r \in Report /\ r.at = clock + 1 /\ r.order = o /\ r.kind \in FillEventKinds /\ r.quantity = q
  BY <1>2, <1>3 DEF Report
<1> HIDE DEF new, r
<1>8. Fills(sent') = Fills(sent) \cup {r}
  BY <1>4, <1>7 DEF Fills
<1>9. UNCHANGED executions
  BY <1>1 DEF VenueOnly, mirror
<1>10. DOMAIN venue' = DOMAIN venue /\ venue' \in [DOMAIN venue' -> VenueOrder]
  BY <1>1, <1>5, <1>6 DEF VenueOK
<1>11. \A x \in DOMAIN venue :
         venue'[x].filled = IF x = r.order THEN venue[x].filled + r.quantity ELSE venue[x].filled
  BY <1>1, <1>5, <1>6, <1>7 DEF VenueOK, filled
<1> QED
  BY <1>1, <1>4, <1>7, <1>8, <1>9, <1>10, <1>11 DEF Traded

LEMMA DeclareQuiet ==
  ASSUME IInv, VenueOK, NEW key \in AccountKeys, NEW numbered \in BOOLEAN, NEW v \in Quantities,
         Declare(key, numbered, v)
  PROVE  Quiet
<1>1. PICK seq \in {0, number + 1} : Send(key, NoOrder, v, seq)
  BY DEF Declare
<1>2. VenueOnly /\ told' = [told EXCEPT ![key] = v] /\ venue' = venue
  BY DEF Declare
<1>3. key \notin FillEventKinds
  BY AccountKeysNamed DEF OrderEventKinds
<1>4. told' \in [AccountKeys -> Nat]
  BY <1>2 DEF VenueOK, Quantities
<1> QED
  BY <1>1, <1>2, <1>3, <1>4, VenueUnrevised, OtherVenue

LEMMA DeclareForeignQuiet ==
  ASSUME IInv, VenueOK, DeclareForeign
  PROVE  Quiet
<1>1. /\ Send("foreign_account", NoOrder, 0, 0) /\ VenueOnly /\ UNCHANGED <<venue, told>>
      /\ "foreign_account" \notin FillEventKinds
  BY DEF DeclareForeign, FillEventKinds
<1> QED
  BY <1>1, VenueUnrevised, OtherVenue DEF VenueOK

LEMMA AnswerCancelQuiet ==
  ASSUME IInv, VenueOK, NEW q \in asked, AnswerCancel(q)
  PROVE  Quiet
<1> DEFINE o == q.order
<1>1. VenueOnly /\ UNCHANGED told /\ told' \in [AccountKeys -> Nat]
  BY DEF AnswerCancel, VenueOK
<1>2. {"cancelled", "cancel_rejected"} \cap FillEventKinds = {}
  BY DEF FillEventKinds
<1>3. CASE UNCHANGED venue /\ Send("cancel_rejected", o, q.number, 0)
  BY <1>1, <1>2, <1>3, VenueUnrevised, OtherVenue
<1>4. CASE /\ Working(o) /\ venue' = [venue EXCEPT ![o].status = "CANCELLED"]
           /\ Send("cancelled", o, q.number, 0)
  <2> DEFINE new == [venue[o] EXCEPT !.status = "CANCELLED"]
  <2>1. o \in DOMAIN venue /\ venue' = [venue EXCEPT ![o] = new]
    BY <1>4 DEF Working
  <2>2. new \in VenueOrder /\ new.filled = venue[o].filled
    BY <2>1 DEF VenueOK, VenueOrder, OrderStatus
  <2> HIDE DEF new, o
  <2> QED
    BY <1>1, <1>2, <1>4, <2>1, <2>2, VenueRevised, OtherVenue
<1> QED
  BY <1>3, <1>4 DEF AnswerCancel

LEMMA AnswerAmendQuiet ==
  ASSUME IInv, VenueOK, NEW q \in asked, AnswerAmend(q)
  PROVE  Quiet
<1> DEFINE o == q.order
<1>1. /\ VenueOnly /\ UNCHANGED told /\ told' \in [AccountKeys -> Nat] /\ q.quantity \in Nat
      /\ FromFills(executions', Fills(sent))
  BY DEF AnswerAmend, VenueOK, IInv, TypeOK, Request, VenueOnly, mirror
<1>2. CASE UNCHANGED <<venue, clock, sent, number>>
  <2>1. Fills(sent') = Fills(sent)
    BY <1>2
  <2> QED
    BY <1>1, <1>2, <2>1, VenueUnrevised DEF Quiet
<1>3. CASE /\ Working(o) /\ venue' = [venue EXCEPT ![o].quantity = q.quantity]
           /\ Send("replaced", o, q.quantity, number + 1)
  <2> DEFINE new == [venue[o] EXCEPT !.quantity = q.quantity]
  <2>1. /\ o \in DOMAIN venue /\ venue' = [venue EXCEPT ![o] = new]
        /\ "replaced" \notin FillEventKinds
    BY <1>3 DEF Working, FillEventKinds
  <2>2. new \in VenueOrder /\ new.filled = venue[o].filled
    BY <1>1, <2>1 DEF VenueOK, VenueOrder
  <2> HIDE DEF new, o
  <2> QED
    BY <1>1, <1>3, <2>1, <2>2, VenueRevised, OtherVenue
<1> QED
  BY <1>2, <1>3 DEF AnswerAmend

\* A fill applied is one the venue made.
LEMMA DeliverQuiet ==
  ASSUME IInv, VenueOK, NEW r \in sent, Deliver(r)
  PROVE  Quiet
<1>1. r \in Report /\ apply_venue_event(r) /\ UNCHANGED <<venue, told, clock, sent>>
  BY DEF IInv, TypeOK, Deliver
<1>2. FromFills(executions', Fills(sent))
  <2>1. CASE executions' = executions
    BY <2>1 DEF VenueOK
  <2>2. CASE r.kind \in FillEventKinds /\ FillOutcome(r) = "APPLIED" /\ ApplyFill(r)
    <3>1. executions' = MapSet(executions, r.at, EntryOf(r)) /\ r \in Fills(sent)
      BY <2>2 DEF ApplyFill, EntryOf, Fills
    <3> QED
      BY <3>1 DEF VenueOK, FromFills, MapSet
  <2> QED
    BY <1>1, <2>1, <2>2, Delivered DEF IInv
<1>3. Fills(sent') = Fills(sent)
  BY <1>1
<1> QED
  BY <1>1, <1>2, <1>3, VenueUnrevised DEF Quiet, VenueOK

\* Neither a request nor a change of session touches the fills.
LEMMA SilentQuiet ==
  ASSUME IInv, VenueOK,
         \/ \E o \in Orders, n \in 1..MaxAttempts : Cancel(o, n)
         \/ \E o \in Orders, n \in 1..MaxRevisions, q \in Quantities : Amend(o, n, q)
         \/ \E q \in asked : LoseRequest(q)
         \/ Drop \/ Reconnect \/ UNCHANGED vars
  PROVE  Quiet
<1>1. UNCHANGED <<venue, told, clock, executions>> /\ (sent' = sent \/ Reconnect)
  <2>1. CASE \E o \in Orders, n \in 1..MaxAttempts : Cancel(o, n)
    BY <2>1 DEF Cancel, Ask, issue_cancel
  <2>2. CASE \E o \in Orders, n \in 1..MaxRevisions, q \in Quantities : Amend(o, n, q)
    BY <2>2 DEF Amend, Ask, issue_modify, mirror
  <2>3. CASE \E q \in asked : LoseRequest(q)
    BY <2>3 DEF LoseRequest, mirror
  <2>4. CASE Drop
    BY <2>4 DEF Drop, outside
  <2>5. CASE Reconnect
    BY <2>5 DEF Reconnect
  <2>6. CASE UNCHANGED vars
    BY <2>6 DEF vars, mirror, outside
  <2> QED
    BY <2>1, <2>2, <2>3, <2>4, <2>5, <2>6
<1>2. Fills(sent') = Fills(sent)
  <2>1. FillEventKinds \cap (AccountKeys \cup {"replaced"}) = {}
    BY AccountKeysNamed DEF OrderEventKinds, FillEventKinds
  <2>2. CASE Reconnect
    BY <2>1, <2>2 DEF Reconnect, Fills, Absolute
  <2> QED
    BY <1>1, <2>2
<1> QED
  BY <1>1, <1>2, VenueUnrevised DEF Quiet, VenueOK

LEMMA NextMoves ==
  ASSUME IInv, VenueOK, [Next]_vars
  PROVE  VenueMove
<1>1. CASE \E r \in sent : Deliver(r)
  BY <1>1, DeliverQuiet DEF VenueMove
<1>2. CASE \E o \in Orders, q \in Quantities :
             Submit(o, q) \/ SubmitElsewhere(o, q) \/ Trade(o, q)
  BY <1>2, SubmitQuiet, SubmitElsewhereQuiet, TradeMoves DEF VenueMove
<1>3. CASE \E o \in Orders : Decide(o)
  BY <1>3, DecideQuiet DEF VenueMove
<1>4. CASE \E k \in AccountKeys, numbered \in BOOLEAN, v \in Quantities :
             Declare(k, numbered, v)
  BY <1>4, DeclareQuiet DEF VenueMove
<1>5. CASE DeclareForeign
  BY <1>5, DeclareForeignQuiet DEF VenueMove
<1>6. CASE \E q \in asked : AnswerCancel(q) \/ AnswerAmend(q)
  BY <1>6, AnswerCancelQuiet, AnswerAmendQuiet DEF VenueMove
<1> QED
  BY <1>1, <1>2, <1>3, <1>4, <1>5, <1>6, SilentQuiet DEF VenueMove, Next

\* The fills listed in a snapshot are the venue's.
LEMMA ListedFills ==
  ASSUME NEW listed, \A r, s \in Fills(sent) : r.at = s.at => r = s
  PROVE  /\ FromFills(VenueFills(listed), Fills(sent))
         /\ \A r \in Fills(sent) : r.order \in listed => r.at \in DOMAIN VenueFills(listed)
<1> DEFINE fills == {r \in sent : r.kind \in FillEventKinds /\ r.order \in listed}
<1>1. VenueFills(listed) = [e \in Times(fills) |-> EntryOf(At(fills, e))]
  BY DEF VenueFills, Times, EntryOf, At
<1>2. fills \subseteq Fills(sent)
  BY DEF Fills
<1>3. \A r \in fills : At(fills, r.at) = r
  BY <1>2, AtIs
<1>4. \A r \in Fills(sent) : r.order \in listed => r \in fills
  BY DEF Fills
<1> HIDE DEF fills
<1> QED
  BY <1>1, <1>2, <1>3, <1>4 DEF FromFills, Times

LEMMA TakeSnapshotStep ==
  ASSUME IInv, VenueOK, NEW purged, NEW unexamined, TakeSnapshot(purged, unexamined)
  PROVE  SnapshotOK' /\ VenueOK' /\ IInv'
<1> DEFINE listed == DOMAIN venue \ purged
<1>1. UNCHANGED <<mirror, ledger, outside, broken>> /\ UNCHANGED vars
  BY DEF TakeSnapshot, vars
<1>2. IInv'
  BY <1>1, NextInv
<1>3. VenueOK'
  BY <1>1 DEF VenueOK, mirror, outside
<1>4. /\ snapshot'.as_of = clock /\ snapshot'.unexamined = unexamined
      /\ snapshot'.orders = [o \in listed |-> venue[o]]
      /\ "executions" \notin unexamined => snapshot'.executions = VenueFills(listed)
      /\ "account" \notin unexamined => snapshot'.account = told
  BY DEF TakeSnapshot
<1>5. Listed' = listed
  BY <1>4 DEF Listed
<1>6. clock \in Nat /\ clock' = clock /\ sent' = sent /\ venue' = venue /\ told' = told
  BY <1>1 DEF IInv, Known, outside
<1>7. \A r, s \in Fills(sent) : r.at = s.at => r = s
  BY DEF VenueOK, GoodFills
<1>8. \A o \in listed : snapshot'.orders[o] = venue[o] /\ venue[o].filled = Filled(Fills(sent), o, clock)
  BY <1>4 DEF VenueOK
<1>9. /\ FromFills(VenueFills(listed), Fills(sent))
      /\ \A r \in Fills(sent) : r.order \in listed => r.at \in DOMAIN VenueFills(listed)
  BY <1>7, ListedFills
<1>10. listed \subseteq DOMAIN venue
  OBVIOUS
<1> HIDE DEF listed
<1>11. SnapshotOK'
  BY <1>4, <1>5, <1>6, <1>8, <1>9, <1>10 DEF SnapshotOK
<1> QED
  BY <1>2, <1>3, <1>11

LEMMA SnapshotInvariant == SnapshotSpec => []SInv
<1>1. SnapshotInit => SInv
  <2> SUFFICES ASSUME SnapshotInit PROVE SInv
    OBVIOUS
  <2>1. Init /\ snapshot = NoSnapshot
    BY DEF SnapshotInit
  <2>2. DOMAIN EmptyMap = {} /\ \A T : EmptyMap \in [{} -> T]
    BY DEF EmptyMap
  <2>3. Fills(sent) = {}
    BY <2>1 DEF Init, Fills
  <2>4. VenueOK
    BY <2>1, <2>2, <2>3, FS_EmptySet DEF Init, VenueOK, GoodFills, FromFills
  <2>5. /\ snapshot.as_of = 0 /\ snapshot.orders = EmptyMap
        /\ snapshot.unexamined = {"executions", "account"} /\ clock = 0
    BY <2>1 DEF NoSnapshot, Init
  <2>6. SnapshotOK
    BY <2>2, <2>5 DEF SnapshotOK, Listed
  <2> QED
    BY <2>1, <2>4, <2>6, InitInv DEF SInv
<1>2. SInv /\ [SnapshotNext]_all => SInv'
  <2> SUFFICES ASSUME SInv, [SnapshotNext]_all PROVE SInv'
    OBVIOUS
  <2>1. IInv /\ VenueOK /\ SnapshotOK /\ clock \in Nat
    BY DEF SInv, IInv, Known
  <2>2. CASE [Next]_vars /\ UNCHANGED snapshot
    <3>1. IInv' /\ VenueMove
      BY <2>1, <2>2, NextInv, NextMoves
    <3>2. VenueOK'
      BY <2>1, <3>1, QuietVenue, TradedVenue DEF VenueMove
    <3>3. SnapshotOK'
      BY <2>1, <2>2, <3>1, SnapshotKept
    <3> QED
      BY <3>1, <3>2, <3>3 DEF SInv
  <2>3. CASE \E purged \in SUBSET DOMAIN venue, unexamined \in SUBSET {"executions", "account"} :
               TakeSnapshot(purged, unexamined)
    BY <2>1, <2>3, TakeSnapshotStep DEF SInv
  <2> QED
    BY <2>2, <2>3 DEF SnapshotNext, all
<1> QED
  BY <1>1, <1>2, PTL DEF SnapshotSpec

\* What the mirror has filled of a listed order, when nothing it has recorded is
\* younger than the snapshot, the snapshot has filled too.
LEMMA FilledWithin ==
  ASSUME SInv, NEW o \in Listed \cap DOMAIN orders,
         \A e \in DOMAIN executions : ~(snapshot.as_of < e)
  PROVE  orders[o].filled <= snapshot.orders[o].filled
<1> DEFINE fills == Fills(sent)
           part == FillsOf(fills, o, snapshot.as_of)
           counted == {e \in DOMAIN executions : executions[e].order = o}
           sum == [e \in counted |-> executions[e].quantity]
<1>1. /\ GoodFills(fills, DOMAIN venue, clock) /\ FromFills(executions, fills)
      /\ snapshot.as_of \in Nat /\ DOMAIN executions \subseteq Nat
      /\ snapshot.orders[o].filled = Filled(fills, o, snapshot.as_of)
      /\ orders[o].filled = SumOf(sum)
  BY DEF SInv, VenueOK, SnapshotOK, IInv, TypeOK, FillsCountedOnce
<1>2. sum \in [counted -> Nat]
  BY DEF SInv, IInv, TypeOK
<1>3. /\ IsFiniteSet(Times(part)) /\ QuantityAt(part) \in [Times(part) -> Nat]
      /\ \A r \in part : QuantityAt(part)[r.at] = r.quantity
  BY <1>1, FillMap
<1>4. ASSUME NEW e \in counted
      PROVE  e \in Times(part) /\ sum[e] = QuantityAt(part)[e]
  <2>1. PICK r \in fills : r.at = e /\ executions[e] = EntryOf(r)
    BY <1>1 DEF FromFills
  <2>2. r \in part /\ executions[e].quantity = r.quantity
    BY <1>1, <2>1 DEF FillsOf, EntryOf
  <2> QED
    BY <1>3, <2>1, <2>2 DEF Times
<1>5. counted \subseteq Times(part) /\ \A e \in counted : sum[e] = QuantityAt(part)[e]
  BY <1>4
<1> HIDE DEF fills, part, counted, sum
<1>6. SumOf(sum) <= SumOf(QuantityAt(part))
  BY <1>2, <1>3, <1>5, SumMonotone
<1> QED
  BY <1>1, <1>6 DEF Filled, part

\* An execution of the mirror no younger than the snapshot is one it lists as it
\* is, if it lists the order.
LEMMA ExecutionListed ==
  ASSUME SInv, "executions" \notin snapshot.unexamined, NEW e \in DOMAIN executions,
         ~(snapshot.as_of < e)
  PROVE  /\ executions[e].order \in Listed => e \in DOMAIN snapshot.executions
         /\ e \in DOMAIN snapshot.executions => snapshot.executions[e] = executions[e]
<1>1. PICK r \in Fills(sent) : r.at = e /\ executions[e] = EntryOf(r)
  BY DEF SInv, VenueOK, FromFills
<1>2. e \in Nat /\ snapshot.as_of \in Nat /\ executions[e].order = r.order
  BY <1>1 DEF SInv, SnapshotOK, IInv, TypeOK, EntryOf
<1>3. executions[e].order \in Listed => e \in DOMAIN snapshot.executions
  BY <1>1, <1>2 DEF SInv, SnapshotOK
<1>4. ASSUME e \in DOMAIN snapshot.executions
      PROVE  snapshot.executions[e] = executions[e]
  <2>1. PICK s \in Fills(sent) : s.at = e /\ snapshot.executions[e] = EntryOf(s)
    BY <1>4 DEF SInv, SnapshotOK, FromFills
  <2>2. s = r
    BY <1>1, <2>1 DEF SInv, VenueOK, GoodFills
  <2> QED
    BY <1>1, <2>1, <2>2
<1> QED
  BY <1>3, <1>4

\* A snapshot that is compared never blames the mirror for knowing more than it
\* does: a difference in fills is always a fill the venue made and the mirror
\* has not applied, whenever the snapshot was taken, whatever it leaves out and
\* however late it arrives.
THEOREM FillDivergenceTheorem == SnapshotSpec => []FillDivergenceIsMissedFill
<1>1. SInv => FillDivergenceIsMissedFill
  <2> SUFFICES ASSUME SInv, NEW t \in Instants, NEW d \in reconcile_snapshot(t)
               PROVE  /\ d[1] \notin {"MISSING_EXECUTION", "EXECUTION_MISMATCH"}
                      /\ d[1] = "ORDER_FILLED_QUANTITY" =>
                           orders[d[2]].filled < snapshot.orders[d[2]].filled
    BY DEF FillDivergenceIsMissedFill
  <2>1. freshness(t) = "CURRENT"
    BY DEF reconcile_snapshot
  <2>2. \A e \in DOMAIN executions : ~(snapshot.as_of < e)
    <3>1. t \in Nat /\ snapshot.as_of \in Nat
      BY DEF Instants, SInv, SnapshotOK, IInv, Known
    <3>2. ~ \E u \in mirror_high_water : snapshot.as_of < u
      BY <2>1, <3>1, AgeAssumption DEF freshness
    <3> QED
      BY <3>2 DEF mirror_high_water
  <2>3. CASE d \in order_divergences
    <3>1. d[1] \notin {"MISSING_EXECUTION", "EXECUTION_MISMATCH"}
      BY <2>3 DEF order_divergences
    <3>2. ASSUME d[1] = "ORDER_FILLED_QUANTITY"
          PROVE  orders[d[2]].filled < snapshot.orders[d[2]].filled
      <4>1. PICK o \in Listed \cap DOMAIN orders :
              d[2] = o /\ orders[o].filled # snapshot.orders[o].filled
        BY <2>3, <3>2 DEF order_divergences
      <4>2. orders[o].filled <= snapshot.orders[o].filled
        BY <2>2, FilledWithin
      <4>3. orders[o].filled \in Nat
        BY DEF SInv, IInv, TypeOK, BrokerOrder
      <4>4. snapshot.orders[o].filled \in Nat
        BY FilledNat DEF SInv, SnapshotOK, VenueOK
      <4> QED
        BY <4>1, <4>2, <4>3, <4>4
    <3> QED
      BY <3>1, <3>2
  <2>4. CASE d \in execution_divergences
    <3>1. "executions" \notin snapshot.unexamined
      BY <2>4 DEF execution_divergences
    <3>2. d[1] = "UNKNOWN_EXECUTION"
      BY <2>2, <2>4, <3>1, ExecutionListed DEF execution_divergences
    <3> QED
      BY <3>2
  <2>5. CASE d \in account_divergences
    <3>1. d[1] = "POSITION_QUANTITY"
      BY <2>5 DEF account_divergences
    <3> QED
      BY <3>1
  <2> QED
    BY <2>1, <2>3, <2>4, <2>5 DEF reconcile_snapshot
<1> QED
  BY <1>1, SnapshotInvariant, PTL

\* A status consistent with the venue's is terminal when the venue's is.
LEMMA ConsistentEnds ==
  ASSUME NEW local, NEW remote, statuses_consistent(local, remote)
  PROVE  local \in TerminalStatuses <=> remote \in TerminalStatuses
BY DEF statuses_consistent, StatusEquivalents, BrokerLocal, TerminalStatuses

\* A full reconciliation against a snapshot of the venue as it is now proves the
\* mirror right about every order listed and every account value, even after
\* reports were lost with a session or refused.
THEOREM ReconciledIsTrueTheorem == SnapshotSpec => []ReconciledIsTrue
<1>1. SInv => ReconciledIsTrue
  <2> SUFFICES ASSUME SInv, snapshot.as_of = clock, fully_reconciled(clock)
               PROVE  /\ \A o \in Listed :
                           /\ o \in DOMAIN orders
                           /\ orders[o].filled = venue[o].filled
                           /\ orders[o].quantity = venue[o].quantity
                           /\ is_terminal(orders[o]) <=> venue[o].status \in TerminalStatuses
                      /\ account = told
    BY DEF ReconciledIsTrue
  <2>1. /\ order_divergences = {} /\ account_divergences = {} /\ snapshot.unexamined = {}
    BY DEF fully_reconciled, reconciled, reconcile_snapshot
  <2>2. ASSUME NEW o \in Listed
        PROVE  /\ o \in DOMAIN orders
               /\ orders[o].filled = venue[o].filled
               /\ orders[o].quantity = venue[o].quantity
               /\ is_terminal(orders[o]) <=> venue[o].status \in TerminalStatuses
    <3>1. snapshot.orders[o] = venue[o]
      BY DEF SInv, SnapshotOK
    <3>2. o \in DOMAIN orders
      BY <2>1 DEF order_divergences
    <3>3. /\ orders[o].filled = snapshot.orders[o].filled
          /\ orders[o].quantity = snapshot.orders[o].quantity
          /\ statuses_consistent(orders[o].status, snapshot.orders[o].status)
      BY <2>1, <3>2 DEF order_divergences
    <3> QED
      BY <3>1, <3>2, <3>3, ConsistentEnds DEF is_terminal
  <2>3. \A k \in AccountKeys : account[k] = snapshot.account[k]
    BY <2>1 DEF account_divergences
  <2>4. snapshot.account = told /\ told \in [AccountKeys -> Nat] /\ account \in [AccountKeys -> Nat]
    BY <2>1 DEF SInv, SnapshotOK, VenueOK, IInv, TypeOK
  <2>5. account = told
    BY <2>3, <2>4
  <2> QED
    BY <2>2, <2>5
<1> QED
  BY <1>1, SnapshotInvariant, PTL
=============================================================================
