-------------------------- MODULE LiveSessionProofs --------------------------
(***************************************************************************)
(* What a live run keeps between its OMS, its mirror of the venue, its     *)
(* portfolio and its bindings, for every number of orders, children, fills *)
(* and restarts, whether or not answers are lost and states are captured.  *)
(*                                                                         *)
(* A restart goes back to a state captured earlier, so the invariant is a  *)
(* predicate of a captured state, and both the run's present state and the *)
(* one saved satisfy it.  That the ledgers agree needs the bindings (a     *)
(* fill booked is a fill of an order sent whole), and that a fill of an    *)
(* open order is never refused needs what the mirror has counted.          *)
(***************************************************************************)
EXTENDS LiveSession, FiniteSetTheorems, TLAPS

-----------------------------------------------------------------------------
(* Sums: a sum is a number, it is 0 over nothing, and a new key adds its     *)
(* own value.                                                                *)

LEMMA UnitsOfOne ==
  ASSUME NEW k, NEW n \in Nat
  PROVE  IsFiniteSet({k} \X (1 .. n)) /\ Cardinality({k} \X (1 .. n)) = n
<1>1. IsFiniteSet({k}) /\ Cardinality({k}) = 1
  BY FS_Singleton
<1>2. IsFiniteSet(1 .. n) /\ Cardinality(1 .. n) = n
  BY FS_Interval
<1>3. /\ IsFiniteSet({k} \X (1 .. n))
      /\ Cardinality({k} \X (1 .. n)) = Cardinality({k}) * Cardinality(1 .. n)
  BY <1>1, <1>2, FS_Product
<1>4. 1 * n = n
  OBVIOUS
<1> QED
  BY <1>1, <1>2, <1>3, <1>4

LEMMA SumType ==
  ASSUME NEW S, IsFiniteSet(S), NEW f \in [S -> Nat]
  PROVE  IsFiniteSet(Units(f)) /\ SumOf(f) \in Nat
<1> DEFINE part == [k \in S |-> {k} \X (1 .. f[k])]
           parts == {{k} \X (1 .. f[k]) : k \in S}
<1>1. IsFiniteSet(parts)
  <2>1. part \in Surjection(S, parts)
    BY DEF Surjection
  <2> QED
    BY <2>1, FS_Surjection
<1>2. \A p \in parts : IsFiniteSet(p)
  <2>1. \A k \in S : IsFiniteSet({k} \X (1 .. f[k]))
    BY UnitsOfOne
  <2> QED
    BY <2>1
<1>3. IsFiniteSet(UNION parts)
  BY <1>1, <1>2, FS_UNION
<1>4. Units(f) = UNION parts
  BY DEF Units
<1> QED
  BY <1>3, <1>4, FS_CardinalityType DEF SumOf

LEMMA SumOfNone ==
  ASSUME NEW f, DOMAIN f = {}
  PROVE  SumOf(f) = 0
<1>1. Units(f) = {}
  BY DEF Units
<1> QED
  BY <1>1, FS_EmptySet DEF SumOf

\* The sum over a larger domain, by one key.
LEMMA SumGrows ==
  ASSUME NEW S, IsFiniteSet(S), NEW f \in [S -> Nat],
         NEW k, k \notin S, NEW g \in [S \cup {k} -> Nat],
         \A x \in S : g[x] = f[x]
  PROVE  SumOf(g) = SumOf(f) + g[k]
<1> DEFINE new == {k} \X (1 .. g[k])
<1>1. IsFiniteSet(Units(f)) /\ IsFiniteSet(new) /\ Cardinality(new) = g[k]
  BY SumType, UnitsOfOne
<1>2. Units(g) = Units(f) \cup new
  BY DEF Units
<1>3. Units(f) \cap new = {}
  BY DEF Units
<1>4. Cardinality(Units(f)) \in Nat /\ g[k] \in Nat
  BY <1>1, FS_CardinalityType
<1> QED
  BY <1>1, <1>2, <1>3, <1>4, FS_Union, FS_EmptySet DEF SumOf

\* The sum over part of the domain is no larger.
LEMMA SumMonotone ==
  ASSUME NEW T, IsFiniteSet(T), NEW g \in [T -> Nat],
         NEW S, S \subseteq T, NEW f \in [S -> Nat], \A x \in S : f[x] = g[x]
  PROVE  SumOf(f) <= SumOf(g)
<1>1. IsFiniteSet(Units(g))
  BY SumType
<1>2. Units(f) \subseteq Units(g)
  BY DEF Units
<1> QED
  BY <1>1, <1>2, FS_Subset DEF SumOf

-----------------------------------------------------------------------------
Of(fs, o) == {f \in fs : ParentOf(f.handle) = o}
At(fs, h) == {f \in fs : f.handle = h}

\* A placed order has been acknowledged: no status before ACCEPTED.
OrderRecords == [status : OrderStatus \ {"NEW", "PENDING"}, filled : 0 .. OrderQuantity]

WorkingIn(s) == {o \in DOMAIN s.orders : s.orders[o].status \in WorkingStatuses}

\* What the booked fills of an order cost, and what its reservation is then.
Spent(fs) == SumOf([f \in fs |-> f.notional])

SpentIn(s, o) == Spent(Of(s.reports, o))

UnspentIn(s) ==
  [o \in {o \in WorkingIn(s) : SpentIn(s, o) < Commitment} |-> Commitment - SpentIn(s, o)]

\* A map with one entry replaced, and one with the answers to submissions added.
Put(map, key, value) == [map EXCEPT ![key] = value]

Answered(map, H, answers) ==
  [h \in DOMAIN map \cup H |-> IF h \in H THEN answers[h] ELSE map[h]]

\* The bindings of the orders a mirror holds whole.
WholeIn(map) == [h \in {h \in DOMAIN map : ~IsChild(h)} |-> ParentOf(h)]

\* The OMS, the reservations and the portfolio.
BooksOK(s) ==
  /\ DOMAIN s.orders \subseteq OrderIds
  /\ \E n \in Nat : DOMAIN s.orders = 1 .. n
  /\ s.orders \in [DOMAIN s.orders -> OrderRecords]
  /\ s.reserved = UnspentIn(s)
  /\ s.reports \subseteq s.executions
  /\ \A f \in s.reports : f.handle \in DOMAIN s.mapping
  /\ \A o \in DOMAIN s.orders : s.orders[o].filled = Total(Of(s.reports, o))
  /\ s.position = Total(s.reports)

\* The handles: whole orders are mapped, and an order is worked one way.
BindingsOK(s) ==
  /\ DOMAIN s.mirror \subseteq Handles
  /\ s.mapping = WholeIn(s.mirror)
  /\ \A h \in DOMAIN s.mirror : ParentOf(h) \in DOMAIN s.orders
  /\ s.held \subseteq OrderIds
  /\ \A h \in DOMAIN s.mapping :
       /\ ParentOf(h) \notin s.held
       /\ \A c \in DOMAIN s.mirror : IsChild(c) => ParentOf(c) # ParentOf(h)

\* The mirror has at least the fills it has applied, and within the order.
MirrorOK(s) ==
  /\ s.mirror \in [DOMAIN s.mirror -> VenueOrder]
  /\ s.executions \subseteq Fill /\ IsFiniteSet(s.executions)
  /\ s.breaks \subseteq Fill
  /\ s.connected \in BOOLEAN
  /\ \A f \in s.executions : f.handle \in DOMAIN s.mirror
  /\ \A h \in DOMAIN s.mirror :
       /\ Total(At(s.executions, h)) <= s.mirror[h].filled
       /\ s.mirror[h].filled <= s.mirror[h].quantity
       /\ s.mirror[h].quantity <= OrderQuantity

StateOK(s) == BooksOK(s) /\ BindingsOK(s) /\ MirrorOK(s)

\* What is not captured: the bindings of children, which a restart rebuilds, the
\* venue, and the caller's side.
ChildrenOK == children = from_mirror(mirror)

VenueOK ==
  /\ DOMAIN venue \subseteq Handles /\ venue \in [DOMAIN venue -> VenueOrder]
  /\ \A h \in DOMAIN venue : /\ venue[h].filled <= venue[h].quantity
                             /\ venue[h].quantity <= OrderQuantity
  /\ fills \subseteq Fill /\ IsFiniteSet(fills)

CallerOK ==
  /\ polled \subseteq Fill /\ settled \subseteq Fill
  /\ algorithmic \subseteq OrderIds /\ resent \in BOOLEAN
  /\ restarts \in 0 .. MaxRestarts
  /\ \A f \in settled : f \in reports \cup breaks \/ IsChild(f.handle)

OutsideOK == ChildrenOK /\ VenueOK /\ CallerOK

IInv == StateOK(Captured) /\ StateOK(saved) /\ OutsideOK

-----------------------------------------------------------------------------
(* Sums of fills *)

LEMMA TotalType ==
  ASSUME NEW S \in SUBSET Fill, IsFiniteSet(S)
  PROVE  Total(S) \in Nat
BY SumType DEF Total, Fill

LEMMA TotalNone == Total({}) = 0
BY SumOfNone DEF Total

LEMMA TotalAdds ==
  ASSUME NEW S \in SUBSET Fill, IsFiniteSet(S), NEW f \in Fill, f \notin S
  PROVE  Total(S \cup {f}) = Total(S) + f.quantity
<1> DEFINE was == [g \in S |-> g.quantity]
           now == [g \in S \cup {f} |-> g.quantity]
<1>1. was \in [S -> Nat] /\ now \in [S \cup {f} -> Nat]
  BY DEF Fill
<1>2. now[f] = f.quantity /\ \A g \in S : now[g] = was[g]
  OBVIOUS
<1> HIDE DEF was, now
<1>3. SumOf(now) = SumOf(was) + now[f]
  BY <1>1, <1>2, SumGrows
<1> QED
  BY <1>2, <1>3 DEF Total, was, now

\* The same of what fills cost.
LEMMA SpentType ==
  ASSUME NEW S \in SUBSET Fill, IsFiniteSet(S)
  PROVE  Spent(S) \in Nat
BY SumType DEF Spent, Fill

LEMMA SpentNone == Spent({}) = 0
BY SumOfNone DEF Spent

LEMMA SpentAdds ==
  ASSUME NEW S \in SUBSET Fill, IsFiniteSet(S), NEW f \in Fill, f \notin S
  PROVE  Spent(S \cup {f}) = Spent(S) + f.notional
<1> DEFINE was == [g \in S |-> g.notional]
           now == [g \in S \cup {f} |-> g.notional]
<1>1. was \in [S -> Nat] /\ now \in [S \cup {f} -> Nat]
  BY DEF Fill
<1>2. now[f] = f.notional /\ \A g \in S : now[g] = was[g]
  OBVIOUS
<1> HIDE DEF was, now
<1>3. SumOf(now) = SumOf(was) + now[f]
  BY <1>1, <1>2, SumGrows
<1> QED
  BY <1>2, <1>3 DEF Spent, was, now

LEMMA TotalMonotone ==
  ASSUME NEW T \in SUBSET Fill, IsFiniteSet(T), NEW S \in SUBSET T
  PROVE  IsFiniteSet(S) /\ Total(S) <= Total(T)
<1> DEFINE f == [g \in S |-> g.quantity]
           t == [g \in T |-> g.quantity]
<1>1. t \in [T -> Nat] /\ f \in [S -> Nat] /\ \A g \in S : f[g] = t[g]
  BY DEF Fill
<1> HIDE DEF f, t
<1>2. SumOf(f) <= SumOf(t)
  BY <1>1, SumMonotone
<1> QED
  BY <1>2, FS_Subset DEF Total, f, t

-----------------------------------------------------------------------------
(* What each operation does to a state *)

SameBooks(s, t) ==
  /\ t.orders = s.orders /\ t.reserved = s.reserved
  /\ t.reports = s.reports /\ t.position = s.position

SameBindings(s, t) == t.mapping = s.mapping /\ t.held = s.held

SameLogs(s, t) == t.breaks = s.breaks /\ t.connected = s.connected

SameMirror(s, t) == t.mirror = s.mirror /\ t.executions = s.executions

\* The log of breaks and the connection are free.
LEMMA Noted ==
  ASSUME NEW s, StateOK(s), NEW t, SameBooks(s, t), SameBindings(s, t), SameMirror(s, t),
         t.breaks \subseteq Fill, t.connected \in BOOLEAN
  PROVE  StateOK(t)
<1> USE DEF SameBooks, SameBindings, SameMirror
<1>1. BooksOK(t)
  BY DEF StateOK, BooksOK, UnspentIn, SpentIn, WorkingIn
<1>2. BindingsOK(t)
  BY DEF StateOK, BindingsOK
<1>3. MirrorOK(t)
  BY DEF StateOK, MirrorOK
<1> QED
  BY <1>1, <1>2, <1>3 DEF StateOK

LEMMA Handled ==
  ASSUME NEW h \in Handles
  PROVE  /\ ParentOf(h) \in OrderIds
         /\ ~IsChild(h) <=> h = broker_order_id_for(ParentOf(h))
BY DEF Handles, ParentOf, IsChild, broker_order_id_for

\* Handles are submitted, and the answers become the mirror's orders.
LEMMA Submitted ==
  ASSUME NEW s, StateOK(s), NEW t, SameBooks(s, t), SameLogs(s, t),
         t.held = s.held, t.executions = s.executions,
         NEW H \in SUBSET Handles, H \cap DOMAIN s.mirror = {},
         NEW answers \in [H -> VenueOrder],
         t.mirror = Answered(s.mirror, H, answers), t.mapping = WholeIn(t.mirror),
         \A h \in H : /\ ParentOf(h) \in DOMAIN s.orders
                      /\ ~IsChild(h) => ParentOf(h) \notin s.held
                      /\ answers[h].filled <= answers[h].quantity
                      /\ answers[h].quantity <= OrderQuantity,
         \A h, c \in DOMAIN t.mirror : ~IsChild(h) /\ IsChild(c) => ParentOf(c) # ParentOf(h)
  PROVE  StateOK(t)
<1> USE DEF SameBooks, SameLogs
<1>1. /\ DOMAIN t.mirror = DOMAIN s.mirror \cup H
      /\ \A h \in DOMAIN s.mirror : t.mirror[h] = s.mirror[h]
      /\ \A h \in H : t.mirror[h] = answers[h]
      /\ t.mirror = [h \in DOMAIN t.mirror |-> t.mirror[h]]
  BY DEF Answered
<1>2. /\ DOMAIN s.mapping = {h \in DOMAIN s.mirror : ~IsChild(h)}
      /\ DOMAIN t.mapping = {h \in DOMAIN t.mirror : ~IsChild(h)}
  BY DEF StateOK, BindingsOK, WholeIn
<1>3. BooksOK(t)
  <2>1. \A f \in t.reports : f.handle \in DOMAIN t.mapping
    BY <1>1, <1>2 DEF StateOK, BooksOK
  <2>2. t.reserved = UnspentIn(t)
    BY DEF StateOK, BooksOK, UnspentIn, SpentIn, WorkingIn
  <2> QED
    BY <2>1, <2>2 DEF StateOK, BooksOK
<1>4. BindingsOK(t)
  <2>1. /\ DOMAIN t.mirror \subseteq Handles
        /\ \A h \in DOMAIN t.mirror : ParentOf(h) \in DOMAIN t.orders
    BY <1>1 DEF StateOK, BindingsOK
  <2>2. \A h \in DOMAIN t.mapping :
           /\ ParentOf(h) \notin t.held
           /\ \A c \in DOMAIN t.mirror : IsChild(c) => ParentOf(c) # ParentOf(h)
    BY <1>1, <1>2 DEF StateOK, BindingsOK
  <2>3. t.held \subseteq OrderIds
    BY DEF StateOK, BindingsOK
  <2> QED
    BY <2>1, <2>2, <2>3 DEF BindingsOK
<1>5. MirrorOK(t)
  <2>1. t.mirror \in [DOMAIN t.mirror -> VenueOrder]
    BY <1>1 DEF StateOK, MirrorOK
  <2>2. ASSUME NEW h \in H
        PROVE  Total(At(t.executions, h)) = 0
    <3>1. At(t.executions, h) = {}
      BY DEF StateOK, MirrorOK, At
    <3> QED
      BY <3>1, TotalNone
  <2>3. \A h \in DOMAIN t.mirror :
          /\ Total(At(t.executions, h)) <= t.mirror[h].filled
          /\ t.mirror[h].filled <= t.mirror[h].quantity
          /\ t.mirror[h].quantity <= OrderQuantity
    <3>1. \A h \in H : answers[h].filled \in Nat
      BY DEF VenueOrder
    <3> QED
      BY <1>1, <2>2, <3>1 DEF StateOK, MirrorOK
  <2>4. /\ t.executions \subseteq Fill /\ IsFiniteSet(t.executions)
        /\ t.breaks \subseteq Fill /\ t.connected \in BOOLEAN
        /\ \A f \in t.executions : f.handle \in DOMAIN t.mirror
    BY <1>1 DEF StateOK, MirrorOK
  <2> QED
    BY <2>1, <2>3, <2>4 DEF MirrorOK
<1> QED
  BY <1>3, <1>4, <1>5 DEF StateOK

LEMMA Holds ==
  ASSUME NEW s, StateOK(s), NEW t, SameBooks(s, t), SameLogs(s, t), SameMirror(s, t),
         t.mapping = s.mapping, NEW o \in OrderIds, t.held = s.held \cup {o},
         broker_order_id_for(o) \notin DOMAIN s.mapping
  PROVE  StateOK(t)
<1> USE DEF SameBooks, SameLogs, SameMirror
<1>1. \A h \in DOMAIN s.mapping : ParentOf(h) # o
  <2>1. \A h \in DOMAIN s.mapping : h \in Handles /\ ~IsChild(h)
    BY DEF StateOK, BindingsOK, WholeIn
  <2> QED
    BY <2>1, Handled
<1>2. BooksOK(t)
  BY DEF StateOK, BooksOK, UnspentIn, SpentIn, WorkingIn
<1>3. BindingsOK(t)
  BY <1>1 DEF StateOK, BindingsOK
<1>4. MirrorOK(t)
  BY DEF StateOK, MirrorOK
<1> QED
  BY <1>2, <1>3, <1>4 DEF StateOK

\* An order is placed under the next id.
LEMMA Placed ==
  ASSUME NEW s, StateOK(s), NEW t, SameBindings(s, t), SameLogs(s, t), SameMirror(s, t),
         NEW o, o = Cardinality(DOMAIN s.orders) + 1, o <= MaxOrders,
         t.orders = MapSet(s.orders, o, [status |-> "ACCEPTED", filled |-> 0]),
         t.reserved = MapSet(s.reserved, o, Commitment),
         t.reports = s.reports, t.position = s.position
  PROVE  StateOK(t)
<1> DEFINE new == [status |-> "ACCEPTED", filled |-> 0]
<1> USE DEF SameBindings, SameLogs, SameMirror
<1>1. PICK n \in Nat : DOMAIN s.orders = 1 .. n
  BY DEF StateOK, BooksOK
<1>2. o = n + 1
  <2>1. Cardinality(1 .. n) = n
    BY FS_Interval
  <2> QED
    BY <1>1, <2>1
<1>3. /\ o \notin DOMAIN s.orders /\ o \in OrderIds /\ n + 1 \in Nat
      /\ DOMAIN t.orders = DOMAIN s.orders \cup {o}
      /\ DOMAIN t.orders = 1 .. n + 1
      /\ t.orders[o] = new /\ \A x \in DOMAIN s.orders : t.orders[x] = s.orders[x]
      /\ t.orders = [x \in DOMAIN t.orders |-> t.orders[x]]
  BY <1>1, <1>2, SessionBounds DEF MapSet, OrderIds
<1>4. new \in OrderRecords /\ new.status \in WorkingStatuses /\ new.filled = 0
  BY SessionBounds DEF OrderRecords, OrderStatus, WorkingStatuses, TerminalStatuses
<1> HIDE DEF new
<1>5. t.orders \in [DOMAIN t.orders -> OrderRecords]
  BY <1>3, <1>4 DEF StateOK, BooksOK
<1>0. Of(t.reports, o) = {}
  <2>1. \A f \in s.reports : ParentOf(f.handle) \in DOMAIN s.orders
    BY DEF StateOK, BooksOK, BindingsOK, WholeIn
  <2> QED
    BY <1>3, <2>1 DEF Of
<1>6. t.reserved = UnspentIn(t)
  <2>1. WorkingIn(t) = WorkingIn(s) \cup {o} /\ o \notin WorkingIn(s)
    BY <1>3, <1>4 DEF WorkingIn
  <2>2. SpentIn(t, o) = 0 /\ \A x : SpentIn(t, x) = SpentIn(s, x)
    BY <1>0, SpentNone DEF SpentIn
  <2>3. Commitment \in Nat \ {0}
    BY SessionBounds
  <2>4. s.reserved = UnspentIn(s)
    BY DEF StateOK, BooksOK
  <2>5. {x \in WorkingIn(t) : SpentIn(t, x) < Commitment} = DOMAIN UnspentIn(s) \cup {o}
    BY <2>1, <2>2, <2>3 DEF UnspentIn
  <2>6. UnspentIn(t)[o] = Commitment
        /\ \A x \in DOMAIN UnspentIn(s) : x # o /\ UnspentIn(t)[x] = UnspentIn(s)[x]
    BY <2>1, <2>2, <2>3, <2>5 DEF UnspentIn
  <2>7. /\ DOMAIN UnspentIn(t) = DOMAIN UnspentIn(s) \cup {o}
        /\ UnspentIn(t) = [x \in DOMAIN UnspentIn(t) |-> UnspentIn(t)[x]]
    BY <2>5 DEF UnspentIn
  <2> QED
    BY <2>4, <2>6, <2>7 DEF MapSet
<1>7. ASSUME NEW x \in DOMAIN t.orders
      PROVE  t.orders[x].filled = Total(Of(t.reports, x))
  <2>1. CASE x = o
    BY <1>0, <1>3, <1>4, <2>1, TotalNone
  <2>2. CASE x # o
    BY <1>3, <2>2 DEF StateOK, BooksOK
  <2> QED
    BY <2>1, <2>2
<1>8. BooksOK(t)
  BY <1>3, <1>5, <1>6, <1>7 DEF StateOK, BooksOK
<1>9. BindingsOK(t)
  BY <1>3 DEF StateOK, BindingsOK
<1>10. MirrorOK(t)
  BY DEF StateOK, MirrorOK
<1> QED
  BY <1>8, <1>9, <1>10 DEF StateOK

LEMMA AfterFillType ==
  ASSUME NEW order \in VenueOrder, NEW quantity \in Nat
  PROVE  /\ AfterFill(order, quantity) \in VenueOrder
         /\ AfterFill(order, quantity).filled = order.filled + quantity
         /\ AfterFill(order, quantity).quantity = order.quantity
<1> DEFINE status == IF order.filled + quantity = order.quantity THEN "FILLED"
                                                                 ELSE "PARTIALLY_FILLED"
<1>1. status \in OrderStatus
  BY DEF OrderStatus
<1>2. AfterFill(order, quantity) =
        [order EXCEPT !.filled = order.filled + quantity, !.status = status]
  BY DEF AfterFill
<1> HIDE DEF status
<1>3. /\ order = [status |-> order.status, quantity |-> order.quantity, filled |-> order.filled]
      /\ order.status \in OrderStatus /\ order.quantity \in Nat /\ order.filled \in Nat
  BY DEF VenueOrder
<1>4. AfterFill(order, quantity) =
        [status |-> status, quantity |-> order.quantity, filled |-> order.filled + quantity]
  BY <1>2, <1>3
<1> QED
  BY <1>1, <1>3, <1>4 DEF VenueOrder

\* The mirror applies a fill it has not applied before, within the order.
LEMMA Applied ==
  ASSUME NEW s, StateOK(s), NEW t, SameBooks(s, t), SameBindings(s, t), SameLogs(s, t),
         NEW f \in Fill, f \notin s.executions, f.handle \in DOMAIN s.mirror,
         s.mirror[f.handle].filled + f.quantity <= s.mirror[f.handle].quantity,
         t.mirror = Put(s.mirror, f.handle, AfterFill(s.mirror[f.handle], f.quantity)),
         t.executions = s.executions \cup {f}
  PROVE  StateOK(t)
<1> DEFINE h == f.handle
           after == AfterFill(s.mirror[h], f.quantity)
<1> USE DEF SameBooks, SameBindings, SameLogs
<1>1. /\ DOMAIN t.mirror = DOMAIN s.mirror
      /\ t.mirror[h] = after
      /\ \A c \in DOMAIN s.mirror : c # h => t.mirror[c] = s.mirror[c]
      /\ t.mirror = [c \in DOMAIN t.mirror |-> t.mirror[c]]
  BY DEF Put
<1>2. s.mirror[h] \in VenueOrder /\ f.quantity \in Nat
  BY DEF StateOK, MirrorOK, Fill
<1>3. /\ after \in VenueOrder
      /\ after.filled = s.mirror[h].filled + f.quantity
      /\ after.quantity = s.mirror[h].quantity
  BY <1>2, AfterFillType
<1> HIDE DEF after
<1>4. BooksOK(t)
  <2>1. t.reserved = UnspentIn(t)
    BY DEF StateOK, BooksOK, UnspentIn, SpentIn, WorkingIn
  <2> QED
    BY <2>1 DEF StateOK, BooksOK
<1>5. BindingsOK(t)
  BY <1>1 DEF StateOK, BindingsOK, WholeIn
<1>6. MirrorOK(t)
  <2>1. t.mirror \in [DOMAIN t.mirror -> VenueOrder]
    BY <1>1, <1>3 DEF StateOK, MirrorOK
  <2>2. ASSUME NEW c \in DOMAIN t.mirror
        PROVE  /\ Total(At(t.executions, c)) <= t.mirror[c].filled
               /\ t.mirror[c].filled <= t.mirror[c].quantity
               /\ t.mirror[c].quantity <= OrderQuantity
    <3>1. CASE c = h
      <4> DEFINE at == At(s.executions, h)
      <4>1. at \in SUBSET Fill /\ IsFiniteSet(at) /\ f \notin at
        BY FS_Subset DEF StateOK, MirrorOK, At
      <4>2. At(t.executions, h) = at \cup {f}
        BY DEF At
      <4>3. Total(at) <= s.mirror[h].filled /\ s.mirror[h].quantity <= OrderQuantity
        BY DEF StateOK, MirrorOK
      <4> HIDE DEF at
      <4>4. Total(at) \in Nat /\ Total(at \cup {f}) = Total(at) + f.quantity
        BY <4>1, TotalType, TotalAdds
      <4>5. s.mirror[h].filled \in Nat
        BY <1>2 DEF VenueOrder
      <4>6. Total(At(t.executions, c)) = Total(at) + f.quantity
        BY <3>1, <4>2, <4>4
      <4>7. /\ t.mirror[c].filled = s.mirror[h].filled + f.quantity
            /\ t.mirror[c].quantity = s.mirror[h].quantity
        BY <1>1, <1>3, <3>1
      <4> QED
        BY <1>2, <4>3, <4>4, <4>5, <4>6, <4>7
    <3>2. CASE c # h
      <4>1. At(t.executions, c) = At(s.executions, c)
        BY <3>2 DEF At
      <4> QED
        BY <1>1, <3>2, <4>1 DEF StateOK, MirrorOK
    <3> QED
      BY <3>1, <3>2
  <2>3. IsFiniteSet(t.executions)
    BY FS_AddElement DEF StateOK, MirrorOK
  <2>4. /\ t.executions \subseteq Fill
        /\ t.breaks \subseteq Fill /\ t.connected \in BOOLEAN
        /\ \A g \in t.executions : g.handle \in DOMAIN t.mirror
    BY <1>1 DEF StateOK, MirrorOK
  <2> QED
    BY <2>1, <2>2, <2>3, <2>4 DEF MirrorOK
<1> QED
  BY <1>4, <1>5, <1>6 DEF StateOK

\* The venue's word that an order has ended, on the mirror.
LEMMA MirrorEnded ==
  ASSUME NEW s, StateOK(s), NEW t, SameBooks(s, t), SameBindings(s, t), SameLogs(s, t),
         t.executions = s.executions,
         NEW h \in DOMAIN s.mirror, NEW status \in OrderStatus,
         t.mirror = Put(s.mirror, h, [s.mirror[h] EXCEPT !.status = status])
  PROVE  StateOK(t)
<1> USE DEF SameBooks, SameBindings, SameLogs
<1>1. /\ DOMAIN t.mirror = DOMAIN s.mirror
      /\ t.mirror[h] = [s.mirror[h] EXCEPT !.status = status]
      /\ \A c \in DOMAIN s.mirror : c # h => t.mirror[c] = s.mirror[c]
      /\ t.mirror = [c \in DOMAIN t.mirror |-> t.mirror[c]]
  BY DEF Put
<1>2. s.mirror[h] \in VenueOrder
  BY DEF StateOK, MirrorOK
<1>3. /\ t.mirror[h] \in VenueOrder
      /\ t.mirror[h].filled = s.mirror[h].filled /\ t.mirror[h].quantity = s.mirror[h].quantity
  BY <1>1, <1>2 DEF VenueOrder
<1>4. BooksOK(t)
  <2>1. t.reserved = UnspentIn(t)
    BY DEF StateOK, BooksOK, UnspentIn, SpentIn, WorkingIn
  <2> QED
    BY <2>1 DEF StateOK, BooksOK
<1>5. BindingsOK(t)
  BY <1>1 DEF StateOK, BindingsOK, WholeIn
<1>6. MirrorOK(t)
  <2>1. t.mirror \in [DOMAIN t.mirror -> VenueOrder]
    BY <1>1, <1>3 DEF StateOK, MirrorOK
  <2>2. ASSUME NEW c \in DOMAIN t.mirror
        PROVE  /\ Total(At(t.executions, c)) <= t.mirror[c].filled
               /\ t.mirror[c].filled <= t.mirror[c].quantity
               /\ t.mirror[c].quantity <= OrderQuantity
    <3>1. t.mirror[c].filled = s.mirror[c].filled /\ t.mirror[c].quantity = s.mirror[c].quantity
      BY <1>1, <1>3
    <3> QED
      BY <1>1, <3>1 DEF StateOK, MirrorOK
  <2>3. /\ t.executions \subseteq Fill /\ IsFiniteSet(t.executions)
        /\ t.breaks \subseteq Fill /\ t.connected \in BOOLEAN
        /\ \A g \in t.executions : g.handle \in DOMAIN t.mirror
    BY <1>1 DEF StateOK, MirrorOK
  <2> QED
    BY <2>1, <2>2, <2>3 DEF MirrorOK
<1> QED
  BY <1>4, <1>5, <1>6 DEF StateOK

\* Where the table leads an acknowledged order: by a fill, and by an end.
LEMMA FillStatus ==
  ASSUME NEW status \in OrderStatus \ {"NEW", "PENDING"}, NEW filled, NEW kind \in FillEventKinds,
         next_order_status(status, kind, filled) # None
  PROVE  /\ status \in WorkingStatuses
         /\ next_order_status(status, kind, filled) \in OrderStatus \ {"NEW", "PENDING"}
BY DEF next_order_status, HasRow, RowTarget, FillEventKinds, WorkingStatuses,
       OrderStatus, TerminalStatuses, None

LEMMA EndStatus ==
  ASSUME NEW status \in OrderStatus \ {"NEW", "PENDING"}, NEW filled,
         NEW event \in {"cancelled", "expired", "rejected"},
         next_order_status(status, event, filled) # None
  PROVE  /\ status \in WorkingStatuses
         /\ next_order_status(status, event, filled) \in TerminalStatuses
BY DEF next_order_status, HasRow, RowTarget, FillEventKinds, WorkingStatuses,
       OrderStatus, TerminalStatuses, None

\* What a fill that cost so much leaves of the reservations: Consumed, of a map.
ConsumedFrom(map, o, notional) ==
  IF o \notin DOMAIN map THEN map
  ELSE IF notional >= map[o] THEN MapDelete(map, o)
  ELSE MapSet(map, o, map[o] - notional)

\* A working order of s is another record in t.
MovesTo(s, t, o, new) ==
  /\ BooksOK(s) /\ o \in DOMAIN s.orders /\ new \in OrderRecords
  /\ s.orders[o].status \in WorkingStatuses
  /\ t.orders = Put(s.orders, o, new)

\* It still works unless the new record is of an order that is over.
LEMMA Moved ==
  ASSUME NEW s, NEW t, NEW o, NEW new, MovesTo(s, t, o, new)
  PROVE  /\ DOMAIN t.orders = DOMAIN s.orders
         /\ t.orders[o] = new /\ \A x \in DOMAIN s.orders : x # o => t.orders[x] = s.orders[x]
         /\ t.orders \in [DOMAIN t.orders -> OrderRecords]
         /\ o \in WorkingIn(s)
         /\ WorkingIn(t) = IF new.status \in TerminalStatuses THEN WorkingIn(s) \ {o}
                           ELSE WorkingIn(s)
<1> USE DEF MovesTo
<1>1. /\ DOMAIN t.orders = DOMAIN s.orders
      /\ t.orders[o] = new /\ \A x \in DOMAIN s.orders : x # o => t.orders[x] = s.orders[x]
      /\ t.orders = [x \in DOMAIN t.orders |-> t.orders[x]]
  BY DEF Put
<1>2. t.orders \in [DOMAIN t.orders -> OrderRecords]
  BY <1>1 DEF BooksOK
<1>3. new.status \in TerminalStatuses <=> new.status \notin WorkingStatuses
  BY DEF OrderRecords, WorkingStatuses, TerminalStatuses
<1>4. o \in WorkingIn(s)
  BY DEF WorkingIn
<1>5. CASE new.status \in TerminalStatuses
  BY <1>1, <1>2, <1>3, <1>4, <1>5 DEF WorkingIn
<1>6. CASE new.status \notin TerminalStatuses
  BY <1>1, <1>2, <1>3, <1>4, <1>6 DEF WorkingIn
<1> QED
  BY <1>1, <1>2, <1>4, <1>5, <1>6

\* A reservation follows its order: an order that is over holds nothing.
LEMMA ReleasedFollows ==
  ASSUME NEW s, NEW t, NEW o, NEW map, NEW status,
         map = [x \in {x \in WorkingIn(s) : SpentIn(t, x) < Commitment} |->
                   Commitment - SpentIn(t, x)],
         WorkingIn(t) = IF status \in TerminalStatuses THEN WorkingIn(s) \ {o}
                        ELSE WorkingIn(s),
         t.reserved = Released(map, o, status)
  PROVE  t.reserved = UnspentIn(t)
<1>1. CASE status \notin TerminalStatuses
  BY <1>1 DEF Released, UnspentIn
<1>2. CASE status \in TerminalStatuses
  <2>1. t.reserved = [x \in DOMAIN map \ {o} |-> map[x]]
    BY <1>2 DEF Released, MapDelete
  <2>2. DOMAIN map \ {o} = {x \in WorkingIn(t) : SpentIn(t, x) < Commitment}
    BY <1>2
  <2>3. \A x \in DOMAIN map \ {o} : map[x] = Commitment - SpentIn(t, x)
    OBVIOUS
  <2> QED
    BY <2>1, <2>2, <2>3 DEF UnspentIn
<1> QED
  BY <1>1, <1>2

\* And it loses what the fills booked for its order cost.
LEMMA ConsumedFollows ==
  ASSUME NEW s, NEW t, NEW o \in WorkingIn(s), NEW n \in Nat,
         s.reserved = UnspentIn(s), SpentIn(s, o) \in Nat,
         SpentIn(t, o) = SpentIn(s, o) + n,
         \A x : x # o => SpentIn(t, x) = SpentIn(s, x)
  PROVE  ConsumedFrom(s.reserved, o, n) =
           [x \in {x \in WorkingIn(s) : SpentIn(t, x) < Commitment} |->
               Commitment - SpentIn(t, x)]
<1> DEFINE was == s.reserved
           left == {x \in WorkingIn(s) : SpentIn(t, x) < Commitment}
<1>1. Commitment \in Nat
  BY SessionBounds
<1>2. /\ DOMAIN was = {x \in WorkingIn(s) : SpentIn(s, x) < Commitment}
      /\ \A x \in DOMAIN was : was[x] = Commitment - SpentIn(s, x)
      /\ was = [x \in DOMAIN was |-> was[x]]
  BY DEF UnspentIn
<1>3. \A x : x # o => (x \in left <=> x \in DOMAIN was)
  BY <1>2
<1> HIDE DEF was
<1>4. CASE o \notin DOMAIN was
  <2>1. ~(SpentIn(s, o) < Commitment)
    BY <1>2, <1>4
  <2>2. ~(SpentIn(t, o) < Commitment)
    BY <1>1, <2>1
  <2>3. left = DOMAIN was
    BY <1>3, <1>4, <2>2
  <2>4. \A x \in left : was[x] = Commitment - SpentIn(t, x)
    BY <1>2, <1>4, <2>3
  <2> QED
    BY <1>2, <1>4, <2>3, <2>4 DEF ConsumedFrom, was
<1>5. CASE o \in DOMAIN was /\ n >= was[o]
  <2>1. ~(SpentIn(t, o) < Commitment)
    BY <1>1, <1>2, <1>5
  <2>2. left = DOMAIN was \ {o}
    BY <1>3, <2>1
  <2>3. \A x \in left : was[x] = Commitment - SpentIn(t, x)
    BY <1>2, <2>2
  <2> QED
    BY <1>5, <2>2, <2>3 DEF ConsumedFrom, MapDelete, was
<1>6. CASE o \in DOMAIN was /\ ~(n >= was[o])
  <2>1. was[o] = Commitment - SpentIn(s, o)
    BY <1>2, <1>6
  <2>2. SpentIn(t, o) < Commitment /\ was[o] - n = Commitment - SpentIn(t, o)
    BY <1>1, <1>6, <2>1
  <2>3. left = DOMAIN was \cup {o}
    BY <1>3, <1>6, <2>2
  <2>4. \A x \in left : x # o => was[x] = Commitment - SpentIn(t, x)
    BY <1>2, <2>3
  <2> QED
    BY <1>6, <2>2, <2>3, <2>4 DEF ConsumedFrom, MapSet, was
<1> QED
  BY <1>4, <1>5, <1>6

\* A fill of an order sent whole reaches the OMS and the portfolio.
LEMMA Booked ==
  ASSUME NEW s, StateOK(s), NEW t, SameBindings(s, t), SameLogs(s, t), SameMirror(s, t),
         NEW f \in s.executions, f \notin s.reports, f.handle \in DOMAIN s.mapping,
         NEW o, o = ParentOf(f.handle), NEW kind \in FillEventKinds, NEW status,
         f.quantity <= OrderQuantity - s.orders[o].filled,
         status = next_order_status(s.orders[o].status, kind, s.orders[o].filled),
         status # None,
         t.orders = Put(s.orders, o, [status |-> status,
                                      filled |-> s.orders[o].filled + f.quantity]),
         t.reserved = Released(ConsumedFrom(s.reserved, o, f.notional), o, status),
         t.reports = s.reports \cup {f}, t.position = s.position + f.quantity
  PROVE  StateOK(t)
<1> DEFINE new == [status |-> status, filled |-> s.orders[o].filled + f.quantity]
<1> USE DEF SameBindings, SameLogs, SameMirror
<1>1. /\ o \in DOMAIN s.orders
      /\ s.orders[o] \in OrderRecords
      /\ f \in Fill /\ f.quantity \in Nat /\ f.notional \in Nat
      /\ s.reports \in SUBSET Fill /\ IsFiniteSet(s.reports)
  <2>1. o \in DOMAIN s.orders
    BY DEF StateOK, BindingsOK, WholeIn
  <2>2. f \in Fill /\ s.reports \in SUBSET Fill
    BY DEF StateOK, BooksOK, MirrorOK
  <2>3. IsFiniteSet(s.reports)
    BY FS_Subset DEF StateOK, BooksOK, MirrorOK
  <2> QED
    BY <2>1, <2>2, <2>3 DEF StateOK, BooksOK, Fill
<1>2. s.orders[o].filled \in 0 .. OrderQuantity
      /\ s.orders[o].status \in OrderStatus \ {"NEW", "PENDING"}
  BY <1>1 DEF OrderRecords
<1>3. s.orders[o].status \in WorkingStatuses /\ status \in OrderStatus \ {"NEW", "PENDING"}
  BY <1>2, FillStatus
<1>4. new \in OrderRecords /\ new.status = status
      /\ new.filled = s.orders[o].filled + f.quantity
  <2>1. s.orders[o].filled + f.quantity \in 0 .. OrderQuantity
    BY <1>1, <1>2, SessionBounds
  <2> QED
    BY <1>3, <2>1 DEF OrderRecords
<1> HIDE DEF new
<1>5. BooksOK(s) /\ t.orders = Put(s.orders, o, new)
  BY <1>4 DEF StateOK, new
<1>6. /\ DOMAIN t.orders = DOMAIN s.orders
      /\ t.orders[o] = new /\ \A x \in DOMAIN s.orders : x # o => t.orders[x] = s.orders[x]
      /\ t.orders \in [DOMAIN t.orders -> OrderRecords]
      /\ o \in WorkingIn(s)
      /\ WorkingIn(t) = IF status \in TerminalStatuses THEN WorkingIn(s) \ {o}
                        ELSE WorkingIn(s)
  <2>1. MovesTo(s, t, o, new)
    BY <1>1, <1>3, <1>4, <1>5 DEF MovesTo
  <2> QED
    BY <1>4, <2>1, Moved
<1>0. t.reserved = UnspentIn(t)
  <2> DEFINE of == Of(s.reports, o)
  <2>1. of \in SUBSET Fill /\ IsFiniteSet(of) /\ f \notin of
    BY <1>1, FS_Subset DEF Of
  <2>2. Of(t.reports, o) = of \cup {f} /\ \A x : x # o => Of(t.reports, x) = Of(s.reports, x)
    BY DEF Of
  <2>3. SpentIn(s, o) = Spent(of) /\ SpentIn(t, o) = Spent(of \cup {f})
    BY <2>2 DEF SpentIn
  <2>4. \A x : x # o => SpentIn(t, x) = SpentIn(s, x)
    BY <2>2 DEF SpentIn
  <2> HIDE DEF of
  <2>5. SpentIn(s, o) \in Nat /\ SpentIn(t, o) = SpentIn(s, o) + f.notional
    BY <1>1, <2>1, <2>3, SpentType, SpentAdds
  <2>6. s.reserved = UnspentIn(s)
    BY <1>5 DEF BooksOK
  <2>7. ConsumedFrom(s.reserved, o, f.notional) =
          [x \in {x \in WorkingIn(s) : SpentIn(t, x) < Commitment} |->
              Commitment - SpentIn(t, x)]
    BY <1>1, <1>6, <2>4, <2>5, <2>6, ConsumedFollows
  <2> QED
    BY <1>6, <2>7, ReleasedFollows
<1>7. ASSUME NEW x \in DOMAIN t.orders
      PROVE  t.orders[x].filled = Total(Of(t.reports, x))
  <2> DEFINE of == Of(s.reports, x)
  <2>1. of \in SUBSET Fill /\ IsFiniteSet(of) /\ f \notin of
    BY <1>1, FS_Subset DEF Of
  <2>2. s.orders[x].filled = Total(of)
    BY <1>6 DEF StateOK, BooksOK
  <2>3. CASE x = o
    <3>1. Of(t.reports, x) = of \cup {f}
      BY <2>3 DEF Of
    <3> HIDE DEF of
    <3>2. Total(of \cup {f}) = Total(of) + f.quantity
      BY <1>1, <2>1, TotalAdds
    <3> QED
      BY <1>4, <1>6, <2>2, <2>3, <3>1, <3>2
  <2>4. CASE x # o
    <3>1. Of(t.reports, x) = of
      BY <2>4 DEF Of
    <3> QED
      BY <1>6, <2>2, <2>4, <3>1
  <2> QED
    BY <2>3, <2>4
<1>8. t.position = Total(t.reports)
  BY <1>1, TotalAdds DEF StateOK, BooksOK
<1>9. /\ DOMAIN t.orders \subseteq OrderIds
      /\ \E n \in Nat : DOMAIN t.orders = 1 .. n
      /\ t.reports \subseteq t.executions
      /\ \A g \in t.reports : g.handle \in DOMAIN t.mapping
  BY <1>6 DEF StateOK, BooksOK
<1>10. BooksOK(t)
  BY <1>0, <1>6, <1>7, <1>8, <1>9 DEF BooksOK
<1>11. BindingsOK(t)
  BY <1>6 DEF StateOK, BindingsOK
<1>12. MirrorOK(t)
  BY DEF StateOK, MirrorOK
<1> QED
  BY <1>10, <1>11, <1>12 DEF StateOK

\* An order ends by the venue's word.
LEMMA Ended ==
  ASSUME NEW s, StateOK(s), NEW t, SameBindings(s, t), SameLogs(s, t), SameMirror(s, t),
         NEW o \in DOMAIN s.orders, NEW event \in {"cancelled", "expired", "rejected"}, NEW status,
         status = next_order_status(s.orders[o].status, event, s.orders[o].filled),
         status # None,
         t.orders = Put(s.orders, o, [s.orders[o] EXCEPT !.status = status]),
         t.reserved = Released(s.reserved, o, status),
         t.reports = s.reports, t.position = s.position
  PROVE  StateOK(t)
<1> DEFINE new == [s.orders[o] EXCEPT !.status = status]
<1> USE DEF SameBindings, SameLogs, SameMirror
<1>1. s.orders[o] \in OrderRecords
  BY DEF StateOK, BooksOK
<1>2. s.orders[o].status \in OrderStatus \ {"NEW", "PENDING"}
  BY <1>1 DEF OrderRecords
<1>3. s.orders[o].status \in WorkingStatuses /\ status \in TerminalStatuses
  BY <1>2, EndStatus
<1>4. new \in OrderRecords /\ new.status = status /\ new.filled = s.orders[o].filled
  BY <1>1, <1>3 DEF OrderRecords, OrderStatus, TerminalStatuses
<1>5. BooksOK(s) /\ t.orders = Put(s.orders, o, new)
  BY <1>4 DEF StateOK
<1> HIDE DEF new
<1>6. /\ DOMAIN t.orders = DOMAIN s.orders
      /\ t.orders[o] = new /\ \A x \in DOMAIN s.orders : x # o => t.orders[x] = s.orders[x]
      /\ t.orders \in [DOMAIN t.orders -> OrderRecords]
      /\ WorkingIn(t) = IF status \in TerminalStatuses THEN WorkingIn(s) \ {o}
                        ELSE WorkingIn(s)
  <2>1. MovesTo(s, t, o, new)
    BY <1>3, <1>4, <1>5 DEF MovesTo
  <2> QED
    BY <1>4, <2>1, Moved
<1>0. t.reserved = UnspentIn(t)
  <2>1. \A x : SpentIn(t, x) = SpentIn(s, x)
    BY DEF SpentIn
  <2>2. s.reserved = [x \in {x \in WorkingIn(s) : SpentIn(t, x) < Commitment} |->
                         Commitment - SpentIn(t, x)]
    BY <1>5, <2>1 DEF BooksOK, UnspentIn
  <2> QED
    BY <1>6, <2>2, ReleasedFollows
<1>7. \A x \in DOMAIN t.orders : t.orders[x].filled = s.orders[x].filled
  BY <1>4, <1>6
<1>8. BooksOK(t)
  BY <1>0, <1>6, <1>7 DEF StateOK, BooksOK
<1>9. BindingsOK(t)
  BY <1>6 DEF StateOK, BindingsOK
<1>10. MirrorOK(t)
  BY DEF StateOK, MirrorOK
<1> QED
  BY <1>8, <1>9, <1>10 DEF StateOK

-----------------------------------------------------------------------------
(* What each action does to the state that would be captured *)

LEMMA CapturedFields ==
  /\ Captured.orders = orders /\ Captured.reserved = reserved
  /\ Captured.reports = reports /\ Captured.position = position
  /\ Captured.mapping = mapping /\ Captured.held = held
  /\ Captured.mirror = mirror /\ Captured.executions = executions
  /\ Captured.breaks = breaks /\ Captured.connected = connected
BY DEF Captured

LEMMA NextFields ==
  /\ Captured'.orders = orders' /\ Captured'.reserved = reserved'
  /\ Captured'.reports = reports' /\ Captured'.position = position'
  /\ Captured'.mapping = mapping' /\ Captured'.held = held'
  /\ Captured'.mirror = mirror' /\ Captured'.executions = executions'
  /\ Captured'.breaks = breaks' /\ Captured'.connected = connected'
BY DEF Captured

LEMMA ConnectStep ==
  ASSUME IInv, connect \/ disconnect
  PROVE  StateOK(Captured')
<1> DEFINE s == Captured
           t == Captured'
<1>1. /\ SameBooks(s, t) /\ SameBindings(s, t) /\ SameMirror(s, t)
      /\ t.breaks = s.breaks /\ t.connected \in BOOLEAN
  BY CapturedFields, NextFields
  DEF connect, disconnect, pipeline, bindings, logs, SameBooks, SameBindings, SameMirror
<1>2. StateOK(s) /\ s.breaks \subseteq Fill
  BY DEF IInv, StateOK, MirrorOK
<1> HIDE DEF s, t
<1> QED
  BY <1>1, <1>2, Noted DEF t

LEMMA SameCaptured ==
  ASSUME IInv, UNCHANGED <<pipeline, broker, bindings, breaks>>
  PROVE  StateOK(Captured')
<1>1. Captured' = Captured
  BY DEF Captured, pipeline, broker, bindings
<1> QED
  BY <1>1 DEF IInv

LEMMA PlaceStep ==
  ASSUME IInv, Place
  PROVE  StateOK(Captured')
<1> DEFINE s == Captured
           t == Captured'
           o == Cardinality(DOMAIN s.orders) + 1
<1>1. /\ SameBindings(s, t) /\ SameMirror(s, t) /\ SameLogs(s, t)
      /\ o <= MaxOrders
      /\ t.orders = MapSet(s.orders, o, [status |-> "ACCEPTED", filled |-> 0])
      /\ t.reserved = MapSet(s.reserved, o, Commitment)
      /\ t.reports = s.reports /\ t.position = s.position
  BY CapturedFields, NextFields
  DEF Place, broker, bindings, logs, SameMirror, SameBindings, SameLogs
<1>2. StateOK(s)
  BY DEF IInv
<1> HIDE DEF s, t
<1> QED
  BY <1>1, <1>2, Placed DEF t

LEMMA HoldStep ==
  ASSUME IInv, NEW o \in DOMAIN orders, hold(o)
  PROVE  StateOK(Captured')
<1> DEFINE s == Captured
           t == Captured'
<1>1. StateOK(s)
  BY DEF IInv
<1>2. o \in OrderIds
  BY <1>1, CapturedFields DEF StateOK, BooksOK
<1>3. /\ SameBooks(s, t) /\ SameLogs(s, t) /\ SameMirror(s, t)
      /\ t.mapping = s.mapping /\ t.held = s.held \cup {o}
      /\ broker_order_id_for(o) \notin DOMAIN s.mapping
  BY CapturedFields, NextFields
  DEF hold, broker, pipeline, logs, SameMirror, SameBooks, SameLogs
<1> HIDE DEF s, t
<1> QED
  BY <1>1, <1>2, <1>3, Holds DEF t

\* What the venue answers is an order of its own, within what was asked.
LEMMA VenueAnswers ==
  ASSUME IInv, NEW h \in Handles, NEW quantity, NEW answer \in Answers,
         VenueTakes(h, quantity, answer)
  PROVE  /\ answer \in VenueOrder
         /\ answer.filled <= answer.quantity /\ answer.quantity <= OrderQuantity
<1>1. /\ answer.status \in OrderStatus
      /\ answer.quantity \in 1 .. OrderQuantity /\ answer.filled \in 0 .. OrderQuantity
      /\ answer = [status |-> answer.status, quantity |-> answer.quantity,
                   filled |-> answer.filled]
  BY DEF Answers
<1>2. answer \in VenueOrder
  BY <1>1, SessionBounds DEF VenueOrder
<1>3. CASE h \in DOMAIN venue
  BY <1>1, <1>2, <1>3, SessionBounds DEF VenueTakes, IInv, OutsideOK, VenueOK
<1>4. CASE h \notin DOMAIN venue
  <2>1. answer.filled = 0
    BY <1>4 DEF VenueTakes
  <2> QED
    BY <1>1, <1>2, <2>1, SessionBounds
<1> QED
  BY <1>3, <1>4

LEMMA RouteStep ==
  ASSUME IInv, route_working_orders
  PROVE  StateOK(Captured')
<1> DEFINE s == Captured
           t == Captured'
           H == {broker_order_id_for(o) : o \in unrouted_orders}
<1>1. StateOK(s)
  BY DEF IInv
<1>2. PICK answers \in [H -> Answers] :
        /\ \A h \in H : VenueTakes(h, remaining_quantity(ParentOf(h)), answers[h])
        /\ mirror' = Answered(mirror, H, answers)
  BY DEF route_working_orders, submit_orders, Answered
<1>3. /\ SameBooks(s, t) /\ SameLogs(s, t)
      /\ t.held = s.held /\ t.executions = s.executions
      /\ H \cap DOMAIN s.mirror = {}
      /\ t.mirror = Answered(s.mirror, H, answers)
      /\ t.mapping = [h \in DOMAIN s.mapping \cup H |-> ParentOf(h)]
  BY <1>2, CapturedFields, NextFields
  DEF route_working_orders, pipeline, logs, SameBooks, SameLogs
<1>4. ASSUME NEW h \in H
      PROVE  /\ h \in Handles /\ ~IsChild(h)
             /\ ParentOf(h) \in DOMAIN s.orders /\ ParentOf(h) \notin s.held
             /\ \A c \in DOMAIN s.mirror : IsChild(c) => ParentOf(c) # ParentOf(h)
  <2>1. PICK o \in unrouted_orders : h = broker_order_id_for(o)
    OBVIOUS
  <2>2. o \in DOMAIN s.orders /\ o \in OrderIds /\ o \notin s.held /\ children_of(o) = {}
    BY <1>1, CapturedFields DEF unrouted_orders, working_orders, StateOK, BooksOK
  <2>3. h \in Handles /\ ParentOf(h) = o /\ ~IsChild(h)
    BY <2>1, <2>2, SessionBounds DEF broker_order_id_for, Handles, ParentOf, IsChild
  <2>4. \A c \in DOMAIN s.mirror : IsChild(c) => ParentOf(c) # o
    BY <2>2, CapturedFields DEF children_of, IInv, OutsideOK, ChildrenOK, from_mirror
  <2> QED
    BY <2>2, <2>3, <2>4
<1>5. H \in SUBSET Handles
  BY <1>4
<1>6. ASSUME NEW h \in H
      PROVE  /\ answers[h] \in VenueOrder
             /\ answers[h].filled <= answers[h].quantity
             /\ answers[h].quantity <= OrderQuantity
  <2>1. /\ VenueTakes(h, remaining_quantity(ParentOf(h)), answers[h])
        /\ answers[h] \in Answers /\ h \in Handles
    BY <1>2, <1>5
  <2> QED
    BY <2>1, VenueAnswers
<1>7. answers \in [H -> VenueOrder]
  BY <1>2, <1>6
<1> HIDE DEF H
<1>8. DOMAIN t.mirror = DOMAIN s.mirror \cup H
  BY <1>3 DEF Answered
<1>9. DOMAIN s.mapping = {h \in DOMAIN s.mirror : ~IsChild(h)}
  BY <1>1 DEF StateOK, BindingsOK, WholeIn
<1>10. t.mapping = WholeIn(t.mirror)
  <2>1. DOMAIN s.mapping \cup H = {h \in DOMAIN t.mirror : ~IsChild(h)}
    BY <1>4, <1>8, <1>9
  <2> QED
    BY <1>3, <2>1 DEF WholeIn
<1>11. \A h, c \in DOMAIN t.mirror : ~IsChild(h) /\ IsChild(c) => ParentOf(c) # ParentOf(h)
  BY <1>1, <1>4, <1>8, <1>9 DEF StateOK, BindingsOK
<1> HIDE DEF s, t
<1> QED
  BY <1>1, <1>3, <1>4, <1>5, <1>6, <1>7, <1>10, <1>11, Submitted DEF t

LEMMA ChildStep ==
  ASSUME IInv, NEW o \in DOMAIN orders, NEW n \in 1 .. MaxChildren, NEW q \in Quantities,
         route_child(o, n, q)
  PROVE  StateOK(Captured')
<1> DEFINE s == Captured
           t == Captured'
           handle == child_broker_order_id(o, n)
           H == {handle}
<1>1. StateOK(s)
  BY DEF IInv
<1>2. PICK answer \in Answers :
        /\ VenueTakes(handle, q, answer)
        /\ submit_orders({handle}, [h \in {handle} |-> answer])
  BY DEF route_child
<1> DEFINE answers == [h \in {handle} |-> answer]
<1>3. /\ SameBooks(s, t) /\ SameLogs(s, t)
      /\ t.held = s.held /\ t.executions = s.executions /\ t.mapping = s.mapping
      /\ H \cap DOMAIN s.mirror = {}
      /\ t.mirror = Answered(s.mirror, H, answers)
      /\ broker_order_id_for(o) \notin DOMAIN s.mapping
  BY <1>2, CapturedFields, NextFields
  DEF route_child, ChildMayBeSent, submit_orders, Answered, pipeline, logs, SameBooks, SameLogs
<1>4. o \in OrderIds /\ o \in DOMAIN s.orders
  BY <1>1, CapturedFields DEF StateOK, BooksOK
<1>5. handle \in Handles /\ IsChild(handle) /\ ParentOf(handle) = o
  BY <1>4, SessionBounds DEF child_broker_order_id, Handles, ParentOf, IsChild
<1> HIDE DEF handle
<1>6. /\ answer \in VenueOrder
      /\ answer.filled <= answer.quantity /\ answer.quantity <= OrderQuantity
  BY <1>2, <1>5, VenueAnswers
<1>7. answers \in [H -> VenueOrder] /\ answers[handle] = answer
  BY <1>6
<1> HIDE DEF answers
<1>8. DOMAIN t.mirror = DOMAIN s.mirror \cup H
  BY <1>3 DEF Answered
<1>9. DOMAIN s.mapping = {h \in DOMAIN s.mirror : ~IsChild(h)}
  BY <1>1 DEF StateOK, BindingsOK, WholeIn
<1>10. t.mapping = WholeIn(t.mirror)
  <2>1. {h \in DOMAIN s.mirror : ~IsChild(h)} = {h \in DOMAIN t.mirror : ~IsChild(h)}
    BY <1>5, <1>8
  <2> QED
    BY <1>1, <1>3, <2>1 DEF WholeIn, StateOK, BindingsOK
<1>11. \A h, c \in DOMAIN t.mirror : ~IsChild(h) /\ IsChild(c) => ParentOf(c) # ParentOf(h)
  <2> SUFFICES ASSUME NEW h \in DOMAIN t.mirror, NEW c \in DOMAIN t.mirror,
                      ~IsChild(h), IsChild(c)
               PROVE  ParentOf(c) # ParentOf(h)
    OBVIOUS
  <2>1. h \in DOMAIN s.mapping /\ h \in Handles
    BY <1>1, <1>5, <1>8, <1>9 DEF StateOK, BindingsOK
  <2>2. ParentOf(h) # o
    BY <1>3, <2>1, Handled
  <2> QED
    BY <1>1, <1>5, <1>8, <2>1, <2>2 DEF StateOK, BindingsOK
<1>12. H \in SUBSET Handles
       /\ \A h \in H : /\ ParentOf(h) \in DOMAIN s.orders
                       /\ ~IsChild(h) => ParentOf(h) \notin s.held
                       /\ answers[h].filled <= answers[h].quantity
                       /\ answers[h].quantity <= OrderQuantity
  BY <1>4, <1>5, <1>6, <1>7
<1> HIDE DEF s, t, H
<1> QED
  BY <1>1, <1>3, <1>7, <1>10, <1>11, <1>12, Submitted DEF t

LEMMA PollStep ==
  ASSUME IInv, NEW f \in fills, poll_executions(f)
  PROVE  StateOK(Captured')
<1> DEFINE s == Captured
           t == Captured'
<1>1. StateOK(s) /\ f \in Fill
  BY DEF IInv, OutsideOK, VenueOK
<1>2. /\ f \notin s.executions /\ f.handle \in DOMAIN s.mirror
      /\ ~(s.mirror[f.handle].filled + f.quantity > s.mirror[f.handle].quantity)
  BY CapturedFields DEF poll_executions, classify_execution
<1>3. s.mirror[f.handle].filled + f.quantity <= s.mirror[f.handle].quantity
  BY <1>1, <1>2 DEF StateOK, MirrorOK, VenueOrder, Fill
<1>4. /\ SameBooks(s, t) /\ SameBindings(s, t) /\ SameLogs(s, t)
      /\ t.mirror = Put(s.mirror, f.handle, AfterFill(s.mirror[f.handle], f.quantity))
      /\ t.executions = s.executions \cup {f}
  BY CapturedFields, NextFields
  DEF poll_executions, apply_execution, pipeline, bindings, logs, SameBooks, SameBindings,
      SameLogs, Put
<1> HIDE DEF s, t
<1> QED
  BY <1>1, <1>2, <1>3, <1>4, Applied DEF t

LEMMA MirrorEndStep ==
  ASSUME IInv, NEW h \in DOMAIN venue, MirrorEnd(h)
  PROVE  StateOK(Captured')
<1> DEFINE s == Captured
           t == Captured'
           status == venue[h].status
<1>1. StateOK(s)
  BY DEF IInv
<1>2. status \in OrderStatus /\ h \in DOMAIN s.mirror
  BY CapturedFields DEF MirrorEnd, IInv, OutsideOK, VenueOK, VenueOrder
<1>3. /\ SameBooks(s, t) /\ SameBindings(s, t) /\ SameLogs(s, t)
      /\ t.executions = s.executions
      /\ t.mirror = Put(s.mirror, h, [s.mirror[h] EXCEPT !.status = status])
  BY CapturedFields, NextFields
  DEF MirrorEnd, pipeline, bindings, logs, SameBooks, SameBindings, SameLogs, Put
<1> HIDE DEF s, t, status
<1> QED
  BY <1>1, <1>2, <1>3, MirrorEnded DEF t

LEMMA TerminalStep ==
  ASSUME IInv, NEW o \in DOMAIN orders, NEW outcome \in {"CANCELLED", "EXPIRED", "REJECTED"},
         apply_terminal_outcome(o, outcome)
  PROVE  StateOK(Captured')
<1> DEFINE s == Captured
           t == Captured'
           event == CASE outcome = "CANCELLED" -> "cancelled"
                      [] outcome = "EXPIRED"   -> "expired"
                      [] outcome = "REJECTED"  -> "rejected"
           status == next_order_status(s.orders[o].status, event, s.orders[o].filled)
<1>1. StateOK(s) /\ o \in DOMAIN s.orders
  BY CapturedFields DEF IInv
<1>2. event \in {"cancelled", "expired", "rejected"}
  OBVIOUS
<1>3. /\ SameBindings(s, t) /\ SameMirror(s, t) /\ SameLogs(s, t)
      /\ status # None
      /\ t.orders = Put(s.orders, o, [s.orders[o] EXCEPT !.status = status])
      /\ t.reserved = Released(s.reserved, o, status)
      /\ t.reports = s.reports /\ t.position = s.position
  BY CapturedFields, NextFields
  DEF apply_terminal_outcome, broker, bindings, logs, SameBindings, SameMirror, SameLogs, Put
<1> HIDE DEF s, t, event
<1> QED
  BY <1>1, <1>2, <1>3, Ended DEF t

LEMMA RestoreStep ==
  ASSUME IInv, restore
  PROVE  StateOK(Captured')
<1> DEFINE s == LastCaptured
           t == Captured'
<1>1. StateOK(s)
  BY DEF IInv, LastCaptured
<1>2. /\ SameBooks(s, t) /\ SameBindings(s, t) /\ SameMirror(s, t)
      /\ t.breaks = s.breaks /\ t.connected = s.connected
  BY NextFields DEF restore, Restored, SameBooks, SameBindings, SameMirror
<1> HIDE DEF s, t
<1>3. t.breaks \subseteq Fill /\ t.connected \in BOOLEAN
  BY <1>1, <1>2 DEF StateOK, MirrorOK
<1> QED
  BY <1>1, <1>2, <1>3, Noted DEF t

\* The mirror's part of a settlement: a fill it has not applied, or nothing.
LEMMA MirrorPart ==
  ASSUME IInv, NEW f \in fills, settle(f), NEW mid,
         mid = [Captured EXCEPT !.mirror = mirror', !.executions = executions']
  PROVE  /\ StateOK(mid)
         /\ classify_execution(f) \notin ExecutionBreaks => f \in mid.executions
<1> DEFINE s == Captured
<1>1. StateOK(s) /\ f \in Fill
  BY DEF IInv, OutsideOK, VenueOK
<1>2. /\ SameBooks(s, mid) /\ SameBindings(s, mid) /\ SameLogs(s, mid)
      /\ mid.mirror = mirror' /\ mid.executions = executions'
  BY DEF SameBooks, SameBindings, SameLogs, Captured
<1>3. CASE classify_execution(f) = "APPLIED"
  <2>1. /\ f \notin s.executions /\ f.handle \in DOMAIN s.mirror
        /\ ~(s.mirror[f.handle].filled + f.quantity > s.mirror[f.handle].quantity)
    BY <1>3, CapturedFields DEF classify_execution
  <2>2. s.mirror[f.handle].filled + f.quantity <= s.mirror[f.handle].quantity
    BY <1>1, <2>1 DEF StateOK, MirrorOK, VenueOrder, Fill
  <2>3. /\ mid.mirror = Put(s.mirror, f.handle, AfterFill(s.mirror[f.handle], f.quantity))
        /\ mid.executions = s.executions \cup {f}
    BY <1>2, <1>3, CapturedFields DEF settle, apply_execution, Put
  <2> HIDE DEF s
  <2>4. StateOK(mid)
    BY <1>1, <1>2, <2>1, <2>2, <2>3, Applied
  <2> QED
    BY <2>3, <2>4
<1>4. CASE classify_execution(f) # "APPLIED"
  <2>1. SameMirror(s, mid) /\ mid.breaks = s.breaks /\ mid.connected = s.connected
    BY <1>2, <1>4, CapturedFields DEF settle, apply_execution, SameMirror, SameLogs
  <2>2. s.breaks \subseteq Fill /\ s.connected \in BOOLEAN
    BY <1>1 DEF StateOK, MirrorOK
  <2>3. classify_execution(f) \notin ExecutionBreaks => f \in s.executions
    BY <1>4, CapturedFields DEF classify_execution, ExecutionBreaks
  <2> HIDE DEF s
  <2>4. StateOK(mid)
    BY <1>1, <1>2, <2>1, <2>2, Noted
  <2> QED
    BY <2>1, <2>3, <2>4 DEF SameMirror
<1> QED
  BY <1>3, <1>4

LEMMA SettleStep ==
  ASSUME IInv, NEW f \in fills, settle(f)
  PROVE  StateOK(Captured')
<1> DEFINE s == [Captured EXCEPT !.mirror = mirror', !.executions = executions']
           t == Captured'
           o == mapping[f.handle]
           kind == ReportKind(o, f)
           status == next_order_status(orders[o].status, kind, orders[o].filled)
<1>1. /\ StateOK(s) /\ f \in Fill
      /\ classify_execution(f) \notin ExecutionBreaks => f \in s.executions
  BY MirrorPart DEF IInv, OutsideOK, VenueOK
<1>2. /\ SameMirror(s, t) /\ SameBindings(s, t)
      /\ s.orders = orders /\ s.reserved = reserved /\ s.reports = reports
      /\ s.position = position /\ s.mapping = mapping
      /\ t.orders = orders' /\ t.reserved = reserved' /\ t.reports = reports'
      /\ t.position = position' /\ t.breaks = breaks' /\ s.breaks = breaks
      /\ t.connected = s.connected /\ s.connected \in BOOLEAN /\ s.breaks \subseteq Fill
  <2>1. /\ SameMirror(s, t) /\ SameBindings(s, t) /\ t.connected = s.connected
        /\ s.orders = orders /\ s.reserved = reserved /\ s.reports = reports
        /\ s.position = position /\ s.mapping = mapping /\ s.breaks = breaks
    BY DEF SameMirror, SameBindings, Captured, settle, bindings
  <2> HIDE DEF s
  <2>2. s.connected \in BOOLEAN /\ s.breaks \subseteq Fill
    BY <1>1 DEF StateOK, MirrorOK
  <2> HIDE DEF t
  <2> QED
    BY <2>1, <2>2, NextFields DEF t
<1> HIDE DEF s, t
<1>3. breaks' \subseteq Fill
  BY <1>1, <1>2 DEF settle
<1>4. CASE ~Books(f) \/ AlreadyBooked(f)
  <2>1. SameBooks(s, t)
    BY <1>2, <1>4 DEF settle, apply_execution_report, pipeline, SameBooks
  <2> QED
    BY <1>1, <1>2, <1>3, <2>1, Noted DEF t
<1>5. CASE Books(f) /\ ~AlreadyBooked(f)
  <2>1. /\ classify_execution(f) \notin ExecutionBreaks /\ HasOrder(f)
        /\ f.handle \in DOMAIN s.mapping /\ f \notin s.reports
    BY <1>2, <1>5 DEF Books, HasOrder, AlreadyBooked
  <2>2. o = ParentOf(f.handle) /\ o \in DOMAIN s.orders
    BY <1>1, <1>2, <2>1 DEF StateOK, BindingsOK, WholeIn, HasOrder
  <2>3. status # None /\ ~(f.quantity > remaining_quantity(o))
    BY <1>5, <2>1 DEF settle, Raises
  <2>4. s.orders[o].filled \in Nat
    BY <1>1, <2>2, SessionBounds DEF StateOK, BooksOK, OrderRecords
  <2>5. f.quantity <= OrderQuantity - s.orders[o].filled
    BY <1>1, <1>2, <2>3, <2>4, SessionBounds DEF remaining_quantity, Fill
  <2>6. kind \in FillEventKinds
    BY DEF ReportKind, FillEventKinds
  <2>7. apply_execution_report(f)
    BY <1>5 DEF settle
  <2>8. /\ t.orders = Put(s.orders, o, [status |-> status,
                                        filled |-> s.orders[o].filled + f.quantity])
        /\ t.reserved = Released(ConsumedFrom(s.reserved, o, f.notional), o, status)
        /\ t.reports = s.reports \cup {f} /\ t.position = s.position + f.quantity
    BY <1>2, <1>5, <2>7 DEF apply_execution_report, Put, Consumed, ConsumedFrom
  <2>9. SameLogs(s, t)
    BY <1>2, <1>5 DEF Books, settle, SameLogs
  <2>10. status = next_order_status(s.orders[o].status, kind, s.orders[o].filled)
    BY <1>2
  <2> HIDE DEF kind, status, o
  <2> QED
    BY <1>1, <1>2, <2>1, <2>2, <2>3, <2>5, <2>6, <2>8, <2>9, <2>10, Booked DEF t
<1> QED
  BY <1>4, <1>5

-----------------------------------------------------------------------------
(* What each action does to the rest *)

\* The bindings of children are those the mirror records, so a restart that
\* rebuilds them changes nothing.
LEMMA ChildrenKept ==
  ASSUME IInv, UNCHANGED children, DOMAIN mirror' = DOMAIN mirror
  PROVE  ChildrenOK'
BY DEF IInv, OutsideOK, ChildrenOK, from_mirror

LEMMA RouteChildren ==
  ASSUME IInv, route_working_orders
  PROVE  ChildrenOK'
<1> DEFINE H == {broker_order_id_for(o) : o \in unrouted_orders}
<1>1. DOMAIN mirror' = DOMAIN mirror \cup H /\ children' = children
  BY DEF route_working_orders, submit_orders
<1>2. \A h \in H : ~IsChild(h)
  BY DEF broker_order_id_for, IsChild
<1> HIDE DEF H
<1>3. {h \in DOMAIN mirror' : IsChild(h)} = {h \in DOMAIN mirror : IsChild(h)}
  BY <1>1, <1>2
<1> QED
  BY <1>1, <1>3 DEF IInv, OutsideOK, ChildrenOK, from_mirror

LEMMA ChildChildren ==
  ASSUME IInv, NEW o \in DOMAIN orders, NEW n \in 1 .. MaxChildren, NEW q \in Quantities,
         route_child(o, n, q)
  PROVE  ChildrenOK'
<1> DEFINE handle == child_broker_order_id(o, n)
<1>1. DOMAIN mirror' = DOMAIN mirror \cup {handle} /\ children' = MapSet(children, handle, o)
  BY DEF route_child, submit_orders
<1>2. IsChild(handle) /\ ParentOf(handle) = o
  BY SessionBounds DEF child_broker_order_id, IsChild, ParentOf
<1> HIDE DEF handle
<1>3. {h \in DOMAIN mirror' : IsChild(h)} = {h \in DOMAIN mirror : IsChild(h)} \cup {handle}
  BY <1>1, <1>2
<1>4. /\ DOMAIN children = {h \in DOMAIN mirror : IsChild(h)}
      /\ \A h \in DOMAIN children : children[h] = ParentOf(h)
  BY DEF IInv, OutsideOK, ChildrenOK, from_mirror
<1>5. children' = [h \in {h \in DOMAIN mirror' : IsChild(h)} |-> ParentOf(h)]
  BY <1>1, <1>2, <1>3, <1>4 DEF MapSet
<1> QED
  BY <1>5 DEF ChildrenOK, from_mirror

\* The venue's orders stay typed, and within their quantity.
LEMMA VenueKept ==
  ASSUME VenueOK, UNCHANGED <<venue, fills>>
  PROVE  VenueOK'
BY DEF VenueOK

LEMMA VenueAdds ==
  ASSUME VenueOK, UNCHANGED fills, NEW H \in SUBSET Handles, NEW answers,
         DOMAIN venue' = DOMAIN venue \cup H, venue' = [h \in DOMAIN venue' |-> venue'[h]],
         \A h \in DOMAIN venue \ H : venue'[h] = venue[h],
         \A h \in H : /\ venue'[h] = answers[h] /\ answers[h] \in VenueOrder
                      /\ answers[h].filled <= answers[h].quantity
                      /\ answers[h].quantity <= OrderQuantity
  PROVE  VenueOK'
<1>1. \A h \in DOMAIN venue' : /\ venue'[h] \in VenueOrder
                               /\ venue'[h].filled <= venue'[h].quantity
                               /\ venue'[h].quantity <= OrderQuantity
  BY DEF VenueOK
<1>2. DOMAIN venue' \subseteq Handles /\ venue' \in [DOMAIN venue' -> VenueOrder]
  BY <1>1 DEF VenueOK
<1> QED
  BY <1>1, <1>2 DEF VenueOK

LEMMA RouteVenue ==
  ASSUME IInv, route_working_orders
  PROVE  VenueOK'
<1> DEFINE H == {broker_order_id_for(o) : o \in unrouted_orders}
<1>1. PICK answers \in [H -> Answers] :
        /\ \A h \in H : VenueTakes(h, remaining_quantity(ParentOf(h)), answers[h])
        /\ venue' = [h \in DOMAIN venue \cup H |->
                       IF h \in H THEN answers[h] ELSE venue[h]]
  BY DEF route_working_orders, submit_orders
<1>2. H \in SUBSET Handles
  <2>1. unrouted_orders \subseteq OrderIds
    BY CapturedFields DEF IInv, StateOK, BooksOK, unrouted_orders, working_orders
  <2> QED
    BY <2>1, SessionBounds DEF broker_order_id_for, Handles
<1>3. UNCHANGED fills
  BY DEF route_working_orders
<1> HIDE DEF H
<1>4. ASSUME NEW h \in H
      PROVE  /\ answers[h] \in VenueOrder
             /\ answers[h].filled <= answers[h].quantity
             /\ answers[h].quantity <= OrderQuantity
  <2>1. /\ VenueTakes(h, remaining_quantity(ParentOf(h)), answers[h])
        /\ answers[h] \in Answers /\ h \in Handles
    BY <1>1, <1>2
  <2> QED
    BY <2>1, VenueAnswers
<1>5. /\ DOMAIN venue' = DOMAIN venue \cup H
      /\ venue' = [h \in DOMAIN venue' |-> venue'[h]]
      /\ \A h \in DOMAIN venue \ H : venue'[h] = venue[h]
      /\ \A h \in H : venue'[h] = answers[h]
  BY <1>1
<1> QED
  BY <1>2, <1>3, <1>4, <1>5, VenueAdds DEF IInv, OutsideOK

LEMMA UnansweredVenue ==
  ASSUME IInv, RouteUnanswered
  PROVE  VenueOK'
<1>1. PICK last \in unrouted_orders :
        LET H == {broker_order_id_for(o) : o \in {o \in unrouted_orders : o <= last}}
        IN  venue' = [h \in DOMAIN venue \cup H |->
                        IF h \in DOMAIN venue THEN venue[h]
                        ELSE [status |-> "ACCEPTED", filled |-> 0,
                              quantity |-> remaining_quantity(ParentOf(h))]]
  BY DEF RouteUnanswered
<1> DEFINE H == {broker_order_id_for(o) : o \in {o \in unrouted_orders : o <= last}}
           new == H \ DOMAIN venue
           answers == [h \in new |-> [status |-> "ACCEPTED", filled |-> 0,
                                      quantity |-> remaining_quantity(ParentOf(h))]]
<1>2. ASSUME NEW h \in H
      PROVE  h \in Handles /\ ParentOf(h) \in DOMAIN orders
  <2>1. PICK o \in unrouted_orders : h = broker_order_id_for(o)
    OBVIOUS
  <2>2. o \in DOMAIN orders /\ o \in OrderIds
    BY CapturedFields DEF IInv, StateOK, BooksOK, unrouted_orders, working_orders
  <2> QED
    BY <2>1, <2>2, SessionBounds DEF broker_order_id_for, Handles, ParentOf
<1>3. \A o \in DOMAIN orders : remaining_quantity(o) \in Nat
                               /\ remaining_quantity(o) <= OrderQuantity
  <2>1. \A o \in DOMAIN orders : orders[o].filled \in 0 .. OrderQuantity
    BY CapturedFields DEF IInv, StateOK, BooksOK, OrderRecords
  <2> QED
    BY <2>1, SessionBounds DEF remaining_quantity
<1>4. ASSUME NEW h \in new
      PROVE  /\ answers[h] \in VenueOrder
             /\ answers[h].filled <= answers[h].quantity
             /\ answers[h].quantity <= OrderQuantity
  <2>1. /\ answers[h].status = "ACCEPTED" /\ answers[h].filled = 0
        /\ answers[h].quantity = remaining_quantity(ParentOf(h))
        /\ answers[h] = [status |-> answers[h].status, filled |-> answers[h].filled,
                         quantity |-> answers[h].quantity]
    OBVIOUS
  <2>2. remaining_quantity(ParentOf(h)) \in Nat
        /\ remaining_quantity(ParentOf(h)) <= OrderQuantity
    BY <1>2, <1>3
  <2> HIDE DEF answers
  <2>3. answers[h] \in VenueOrder
    BY <2>1, <2>2 DEF VenueOrder, OrderStatus
  <2> QED
    BY <2>1, <2>2, <2>3
<1>5. /\ DOMAIN venue' = DOMAIN venue \cup new
      /\ venue' = [h \in DOMAIN venue' |-> venue'[h]]
      /\ \A h \in DOMAIN venue \ new : venue'[h] = venue[h]
      /\ \A h \in new : venue'[h] = answers[h]
  BY <1>1
<1>6. new \in SUBSET Handles /\ UNCHANGED fills
  BY <1>2 DEF RouteUnanswered
<1> HIDE DEF new, answers
<1> QED
  BY <1>4, <1>5, <1>6, VenueAdds DEF IInv, OutsideOK

LEMMA ChildVenue ==
  ASSUME IInv, NEW o \in DOMAIN orders, NEW n \in 1 .. MaxChildren, NEW q \in Quantities,
         route_child(o, n, q)
  PROVE  VenueOK'
<1> DEFINE handle == child_broker_order_id(o, n)
           H == {handle}
<1>1. PICK answer \in Answers :
        /\ VenueTakes(handle, q, answer)
        /\ venue' = [h \in DOMAIN venue \cup {handle} |->
                       IF h \in {handle} THEN [g \in {handle} |-> answer][h] ELSE venue[h]]
  BY DEF route_child, submit_orders
<1>2. handle \in Handles
  BY CapturedFields, SessionBounds
  DEF IInv, StateOK, BooksOK, child_broker_order_id, Handles
<1>3. UNCHANGED fills
  BY DEF route_child
<1> HIDE DEF handle
<1>4. /\ answer \in VenueOrder
      /\ answer.filled <= answer.quantity /\ answer.quantity <= OrderQuantity
  BY <1>1, <1>2, VenueAnswers
<1> DEFINE answers == [h \in H |-> answer]
<1>5. /\ H \in SUBSET Handles
      /\ DOMAIN venue' = DOMAIN venue \cup H
      /\ venue' = [h \in DOMAIN venue' |-> venue'[h]]
      /\ \A h \in DOMAIN venue \ H : venue'[h] = venue[h]
      /\ \A h \in H : /\ venue'[h] = answers[h] /\ answers[h] \in VenueOrder
                      /\ answers[h].filled <= answers[h].quantity
                      /\ answers[h].quantity <= OrderQuantity
  BY <1>1, <1>2, <1>4
<1> HIDE DEF H, answers
<1> QED
  BY <1>3, <1>5, VenueAdds DEF IInv, OutsideOK

LEMMA TradeVenue ==
  ASSUME IInv, NEW h \in DOMAIN venue, NEW q \in Quantities,
         NEW cost \in Notionals, Trade(h, q, cost)
  PROVE  VenueOK'
<1> DEFINE after == AfterFill(venue[h], q)
           fill == [id |-> Cardinality(fills) + 1, handle |-> h, quantity |-> q,
                 notional |-> cost]
<1>1. /\ VenueOK /\ venue[h] \in VenueOrder /\ h \in Handles /\ q \in Nat
  BY SessionBounds DEF IInv, OutsideOK, VenueOK, Quantities
<1>0. cost \in Nat
  BY SessionBounds
<1>2. /\ venue[h].filled + q <= venue[h].quantity
      /\ venue' = [venue EXCEPT ![h] = after]
      /\ fills' = fills \cup {fill}
  BY DEF Trade
<1>3. /\ after \in VenueOrder /\ after.filled = venue[h].filled + q
      /\ after.quantity = venue[h].quantity
  BY <1>1, AfterFillType
<1> HIDE DEF after
<1>4. /\ DOMAIN venue' = DOMAIN venue
      /\ venue'[h] = after /\ \A g \in DOMAIN venue : g # h => venue'[g] = venue[g]
      /\ venue' = [g \in DOMAIN venue' |-> venue'[g]]
  BY <1>2
<1>5. \A g \in DOMAIN venue' : /\ venue'[g] \in VenueOrder
                               /\ venue'[g].filled <= venue'[g].quantity
                               /\ venue'[g].quantity <= OrderQuantity
  BY <1>1, <1>2, <1>3, <1>4 DEF VenueOK
<1>6. DOMAIN venue' \subseteq Handles /\ venue' \in [DOMAIN venue' -> VenueOrder]
  BY <1>1, <1>4, <1>5 DEF VenueOK
<1>7. fill \in Fill
  BY <1>0, <1>1, FS_CardinalityType DEF VenueOK, Fill
<1> HIDE DEF fill
<1>8. fills' \subseteq Fill /\ IsFiniteSet(fills')
  BY <1>1, <1>2, <1>7, FS_AddElement DEF VenueOK
<1> QED
  BY <1>5, <1>6, <1>8 DEF VenueOK

LEMMA EndVenue ==
  ASSUME IInv, NEW h \in DOMAIN venue, NEW status \in {"CANCELLED", "EXPIRED"}, End(h, status)
  PROVE  VenueOK'
<1>1. VenueOK /\ venue[h] \in VenueOrder
  BY DEF IInv, OutsideOK, VenueOK
<1>2. /\ DOMAIN venue' = DOMAIN venue
      /\ venue'[h] = [venue[h] EXCEPT !.status = status]
      /\ \A g \in DOMAIN venue : g # h => venue'[g] = venue[g]
      /\ venue' = [g \in DOMAIN venue' |-> venue'[g]]
      /\ fills' = fills
  BY DEF End
<1>3. /\ venue'[h] \in VenueOrder
      /\ venue'[h].filled = venue[h].filled /\ venue'[h].quantity = venue[h].quantity
  BY <1>1, <1>2 DEF VenueOrder, OrderStatus
<1>4. \A g \in DOMAIN venue' : /\ venue'[g] \in VenueOrder
                               /\ venue'[g].filled <= venue'[g].quantity
                               /\ venue'[g].quantity <= OrderQuantity
  BY <1>1, <1>2, <1>3 DEF VenueOK
<1>5. DOMAIN venue' \subseteq Handles /\ venue' \in [DOMAIN venue' -> VenueOrder]
  BY <1>1, <1>2, <1>4 DEF VenueOK
<1> QED
  BY <1>1, <1>2, <1>4, <1>5 DEF VenueOK

\* The caller's side: a fill it has settled is booked, or on the log of breaks,
\* or a child's.
LEMMA CallerKept ==
  ASSUME CallerOK, UNCHANGED <<settled, restarts>>, polled' = polled,
         reports \subseteq reports', breaks \subseteq breaks',
         algorithmic' \subseteq OrderIds, resent' \in BOOLEAN
  PROVE  CallerOK'
BY DEF CallerOK

LEMMA SettleCaller ==
  ASSUME IInv, NEW f \in fills, settle(f)
  PROVE  CallerOK'
<1>1. CallerOK /\ f \in Fill
  BY DEF IInv, OutsideOK, VenueOK
<1>2. /\ UNCHANGED <<algorithmic, resent, restarts>>
      /\ settled' = settled \cup {f} /\ polled' = polled \ {f}
      /\ reports \subseteq reports' /\ breaks \subseteq breaks'
  BY DEF settle, outside, apply_execution_report, pipeline
<1>3. f \in reports' \cup breaks' \/ IsChild(f.handle)
  <2>1. CASE classify_execution(f) \in ExecutionBreaks
    BY <2>1 DEF settle
  <2>2. CASE Books(f)
    <3>1. f \in reports'
      BY <2>2 DEF settle, apply_execution_report, AlreadyBooked, pipeline
    <3> QED
      BY <3>1
  <2>3. CASE classify_execution(f) \notin ExecutionBreaks /\ ~Books(f)
    <3>1. ~HasOrder(f)
      BY <2>3 DEF Books
    <3>2. f.handle \in DOMAIN mirror
      BY <2>3, CapturedFields DEF classify_execution, ExecutionBreaks, IInv, StateOK, MirrorOK
    <3>3. mapping = WholeIn(mirror) /\ \A h \in DOMAIN mirror : ParentOf(h) \in DOMAIN orders
      BY CapturedFields DEF IInv, StateOK, BindingsOK
    <3> QED
      BY <3>1, <3>2, <3>3 DEF HasOrder, WholeIn
  <2> QED
    BY <2>1, <2>2, <2>3
<1> QED
  BY <1>1, <1>2, <1>3 DEF CallerOK

LEMMA InitInv == Init => IInv
<1> SUFFICES ASSUME Init PROVE IInv
  OBVIOUS
<1>1. \A S : EmptyMap \in [{} -> S] /\ DOMAIN EmptyMap = {}
  BY DEF EmptyMap
<1> DEFINE s == Captured
<1>2. /\ s.orders = EmptyMap /\ s.mapping = EmptyMap /\ s.mirror = EmptyMap
      /\ s.reserved = EmptyMap /\ s.reports = {} /\ s.position = 0 /\ s.held = {}
      /\ s.executions = {} /\ s.breaks = {} /\ s.connected = FALSE
  BY CapturedFields DEF Init
<1> HIDE DEF s
<1>3. BooksOK(s)
  <2>1. \E n \in Nat : DOMAIN s.orders = 1 .. n
    <3>1. 1 .. 0 = {}
      OBVIOUS
    <3> QED
      BY <1>1, <1>2, <3>1
  <2>2. s.reserved = UnspentIn(s)
    <3>1. {o \in WorkingIn(s) : SpentIn(s, o) < Commitment} = {}
      BY <1>1, <1>2 DEF WorkingIn
    <3> QED
      BY <1>2, <3>1 DEF UnspentIn, EmptyMap
  <2> QED
    BY <1>1, <1>2, <2>1, <2>2, TotalNone DEF BooksOK
<1>4. BindingsOK(s)
  <2>1. EmptyMap = WholeIn(EmptyMap)
    BY <1>1 DEF WholeIn, EmptyMap
  <2> QED
    BY <1>1, <1>2, <2>1 DEF BindingsOK
<1>5. MirrorOK(s)
  BY <1>1, <1>2, FS_EmptySet DEF MirrorOK
<1>6. StateOK(Captured) /\ StateOK(saved)
  BY <1>3, <1>4, <1>5 DEF StateOK, Init, s
<1>7. ChildrenOK
  BY <1>1 DEF Init, ChildrenOK, from_mirror, EmptyMap
<1>8. VenueOK
  BY <1>1, FS_EmptySet DEF Init, VenueOK
<1>9. CallerOK
  <2>1. MaxRestarts \in Nat /\ 0 \in 0 .. MaxRestarts
    BY SessionBounds
  <2>2. resent \in BOOLEAN
    BY DEF Init
  <2> QED
    BY <2>1, <2>2 DEF Init, CallerOK
<1> QED
  BY <1>6, <1>7, <1>8, <1>9 DEF IInv, OutsideOK

LEMMA NextInv == IInv /\ [Next]_vars => IInv'
<1> SUFFICES ASSUME IInv, [Next]_vars PROVE IInv'
  OBVIOUS
<1>1. CallerOK /\ VenueOK /\ algorithmic \subseteq OrderIds /\ resent \in BOOLEAN
  BY DEF IInv, OutsideOK, CallerOK
<1>2. ASSUME UNCHANGED saved, StateOK(Captured'), ChildrenOK', VenueOK', CallerOK'
      PROVE  IInv'
  BY <1>2 DEF IInv, OutsideOK
<1>3. ASSUME connect \/ disconnect
      PROVE  IInv'
  <2>1. UNCHANGED <<saved, children, mirror, venue, fills, settled, restarts, polled, reports,
                    breaks, algorithmic, resent>>
    BY <1>3 DEF connect, disconnect, pipeline, bindings, logs, outside
  <2> QED
    BY <1>1, <1>2, <1>3, <2>1, ConnectStep, ChildrenKept, VenueKept, CallerKept
<1>4. ASSUME Place
      PROVE  IInv'
  <2>1. UNCHANGED <<saved, children, mirror, venue, fills, settled, restarts, polled, reports,
                    breaks, algorithmic, resent>>
    BY <1>4 DEF Place, broker, bindings, logs, outside
  <2> QED
    BY <1>1, <1>2, <1>4, <2>1, PlaceStep, ChildrenKept, VenueKept, CallerKept
<1>5. ASSUME route_working_orders
      PROVE  IInv'
  <2>1. /\ UNCHANGED <<saved, settled, restarts, polled, reports, breaks, algorithmic>>
        /\ resent' \in BOOLEAN
    BY <1>5, <1>1 DEF route_working_orders, submit_orders, pipeline, logs
  <2> QED
    BY <1>1, <1>2, <1>5, <2>1, RouteStep, RouteChildren, RouteVenue, CallerKept
<1>6. ASSUME RouteUnanswered
      PROVE  IInv'
  <2>1. /\ UNCHANGED <<saved, settled, restarts, polled, reports, breaks, algorithmic>>
        /\ UNCHANGED <<children, mirror>>
        /\ resent' \in BOOLEAN
        /\ UNCHANGED <<pipeline, broker, bindings, breaks>>
    BY <1>6, <1>1 DEF RouteUnanswered, pipeline, logs, broker, bindings
  <2> QED
    BY <1>1, <1>2, <1>6, <2>1, SameCaptured, ChildrenKept, UnansweredVenue, CallerKept
<1>7. ASSUME NEW o \in DOMAIN orders, hold(o)
      PROVE  IInv'
  <2>1. UNCHANGED <<saved, children, mirror, venue, fills, settled, restarts, polled, reports,
                    breaks, resent>>
    BY <1>7 DEF hold, pipeline, broker, logs
  <2>2. algorithmic' \subseteq OrderIds
    BY <1>1, <1>7, CapturedFields DEF hold, IInv, StateOK, BooksOK
  <2> QED
    BY <1>1, <1>2, <1>7, <2>1, <2>2, HoldStep, ChildrenKept, VenueKept, CallerKept
<1>8. ASSUME NEW o \in DOMAIN orders, NEW n \in 1 .. MaxChildren, NEW q \in Quantities,
             route_child(o, n, q)
      PROVE  IInv'
  <2>1. /\ UNCHANGED <<saved, settled, restarts, polled, reports, breaks, algorithmic>>
        /\ resent' \in BOOLEAN
    BY <1>1, <1>8 DEF route_child, submit_orders, pipeline, logs
  <2> QED
    BY <1>1, <1>2, <1>8, <2>1, ChildStep, ChildChildren, ChildVenue, CallerKept
<1>9. ASSUME NEW o \in DOMAIN orders, NEW outcome \in {"CANCELLED", "EXPIRED", "REJECTED"},
             apply_terminal_outcome(o, outcome)
      PROVE  IInv'
  <2>1. UNCHANGED <<saved, children, mirror, venue, fills, settled, restarts, polled, reports,
                    breaks, algorithmic, resent>>
    BY <1>9 DEF apply_terminal_outcome, broker, bindings, logs, outside
  <2> QED
    BY <1>1, <1>2, <1>9, <2>1, TerminalStep, ChildrenKept, VenueKept, CallerKept
<1>10. ASSUME NEW f \in fills, settle(f)
       PROVE  IInv'
  <2>1. /\ UNCHANGED <<saved, children, venue, fills>>
        /\ DOMAIN mirror' = DOMAIN mirror
    BY <1>10 DEF settle, apply_execution, bindings, outside
  <2> QED
    BY <1>1, <1>2, <1>10, <2>1, SettleStep, ChildrenKept, VenueKept, SettleCaller
<1>11. ASSUME NEW f \in fills, poll_executions(f)
       PROVE  IInv'
  <2>1. /\ UNCHANGED <<saved, children, venue, fills, settled, restarts, reports, breaks,
                       algorithmic, resent>>
        /\ DOMAIN mirror' = DOMAIN mirror /\ polled' = polled \cup {f}
    BY <1>11 DEF poll_executions, apply_execution, bindings, outside, pipeline, logs
  <2>2. CallerOK'
    BY <1>1, <2>1 DEF CallerOK, VenueOK
  <2> QED
    BY <1>1, <1>2, <1>11, <2>1, <2>2, PollStep, ChildrenKept, VenueKept
<1>12. ASSUME NEW h \in DOMAIN venue, MirrorEnd(h)
       PROVE  IInv'
  <2>1. /\ UNCHANGED <<saved, children, venue, fills, settled, restarts, polled, reports,
                       breaks, algorithmic, resent>>
        /\ DOMAIN mirror' = DOMAIN mirror
    BY <1>12 DEF MirrorEnd, pipeline, bindings, logs, outside
  <2> QED
    BY <1>1, <1>2, <1>12, <2>1, MirrorEndStep, ChildrenKept, VenueKept, CallerKept
<1>13. ASSUME NEW h \in DOMAIN venue, NEW q \in Quantities,
         NEW cost \in Notionals, Trade(h, q, cost)
       PROVE  IInv'
  <2>1. /\ UNCHANGED <<saved, children, mirror, settled, restarts, polled, reports, breaks,
                       algorithmic, resent>>
        /\ UNCHANGED <<pipeline, broker, bindings, breaks>>
    BY <1>13 DEF Trade, pipeline, broker, bindings, logs
  <2> QED
    BY <1>1, <1>2, <1>13, <2>1, SameCaptured, ChildrenKept, TradeVenue, CallerKept
<1>14. ASSUME NEW h \in DOMAIN venue, NEW status \in {"CANCELLED", "EXPIRED"}, End(h, status)
       PROVE  IInv'
  <2>1. /\ UNCHANGED <<saved, children, mirror, settled, restarts, polled, reports, breaks,
                       algorithmic, resent>>
        /\ UNCHANGED <<pipeline, broker, bindings, breaks>>
    BY <1>14 DEF End, pipeline, broker, bindings, logs
  <2> QED
    BY <1>1, <1>2, <1>14, <2>1, SameCaptured, ChildrenKept, EndVenue, CallerKept
<1>15. ASSUME capture
       PROVE  IInv'
  <2>1. /\ saved' = Captured
        /\ UNCHANGED <<children, mirror, venue, fills, settled, restarts, polled, reports,
                       breaks, algorithmic, resent>>
        /\ UNCHANGED <<pipeline, broker, bindings, breaks>>
    BY <1>15 DEF capture, pipeline, broker, bindings, logs, outside
  <2>2. StateOK(saved')
    BY <2>1 DEF IInv
  <2>3. ChildrenOK' /\ VenueOK' /\ CallerOK' /\ StateOK(Captured')
    BY <1>1, <2>1, SameCaptured, ChildrenKept, VenueKept, CallerKept
  <2> QED
    BY <2>2, <2>3 DEF IInv, OutsideOK
<1>16. ASSUME restore
       PROVE  IInv'
  <2>1. /\ UNCHANGED <<saved, venue, fills, algorithmic, resent>>
        /\ settled' = {} /\ polled' = {}
        /\ restarts' = restarts + 1 /\ restarts < MaxRestarts
        /\ children' = from_mirror(mirror')
    BY <1>16 DEF restore
  <2>2. CallerOK'
    <3>1. restarts' \in 0 .. MaxRestarts
      BY <1>1, <2>1, SessionBounds DEF CallerOK
    <3> QED
      BY <1>1, <2>1, <3>1 DEF CallerOK
  <2>3. ChildrenOK'
    BY <2>1 DEF ChildrenOK, from_mirror
  <2> QED
    BY <1>1, <1>2, <1>16, <2>1, <2>2, <2>3, RestoreStep, VenueKept
<1>17. ASSUME UNCHANGED vars
       PROVE  IInv'
  <2>1. /\ UNCHANGED <<saved, children, mirror, venue, fills, settled, restarts, polled, reports,
                       breaks, algorithmic, resent>>
        /\ UNCHANGED <<pipeline, broker, bindings, breaks>>
    BY <1>17 DEF vars, pipeline, broker, bindings, logs, outside
  <2> QED
    BY <1>1, <1>2, <2>1, SameCaptured, ChildrenKept, VenueKept, CallerKept
<1> QED
  BY <1>3, <1>4, <1>5, <1>6, <1>7, <1>8, <1>9, <1>10, <1>11, <1>12, <1>13, <1>14, <1>15,
     <1>16, <1>17 DEF Next

LEMMA Invariant == Spec => []IInv
BY InitInv, NextInv, PTL DEF Spec

-----------------------------------------------------------------------------
(* What follows from the invariant *)

LEMMA Typed == IInv => TypeOK
<1> SUFFICES ASSUME IInv PROVE TypeOK
  OBVIOUS
<1>1. BooksOK(Captured) /\ BindingsOK(Captured) /\ MirrorOK(Captured)
      /\ ChildrenOK /\ VenueOK /\ CallerOK
  BY DEF IInv, StateOK, OutsideOK
<1>2. /\ DOMAIN orders \subseteq OrderIds
      /\ orders \in [DOMAIN orders -> [status : OrderStatus, filled : 0 .. OrderQuantity]]
  <2>1. \A r \in OrderRecords : r \in [status : OrderStatus, filled : 0 .. OrderQuantity]
    BY DEF OrderRecords
  <2>2. orders \in [DOMAIN orders -> OrderRecords] /\ DOMAIN orders \subseteq OrderIds
    BY <1>1, CapturedFields DEF BooksOK
  <2> QED
    BY <2>1, <2>2
<1>3. held \subseteq OrderIds /\ algorithmic \subseteq OrderIds
  BY <1>1, CapturedFields DEF BindingsOK, CallerOK
<1>0. DOMAIN reserved \subseteq OrderIds /\ reserved \in [DOMAIN reserved -> Nat]
  <2> DEFINE s == Captured
  <2>1. s.reserved = UnspentIn(s) /\ DOMAIN s.orders \subseteq OrderIds
    BY <1>1 DEF BooksOK
  <2>2. \A o : SpentIn(s, o) \in Nat
    <3>1. s.reports \in SUBSET Fill /\ IsFiniteSet(s.reports)
      BY <1>1, FS_Subset DEF BooksOK, MirrorOK
    <3>2. \A o : Of(s.reports, o) \in SUBSET Fill /\ IsFiniteSet(Of(s.reports, o))
      BY <3>1, FS_Subset DEF Of
    <3> QED
      BY <3>2, SpentType DEF SpentIn
  <2> HIDE DEF s
  <2>3. DOMAIN s.reserved \subseteq OrderIds /\ s.reserved \in [DOMAIN s.reserved -> Nat]
    BY <2>1, <2>2, SessionBounds DEF UnspentIn, WorkingIn
  <2> QED
    BY <2>3, CapturedFields DEF s
<1>4. /\ reports \in SUBSET executions /\ executions \in SUBSET Fill /\ IsFiniteSet(executions)
      /\ breaks \subseteq Fill /\ settled \subseteq Fill /\ polled \subseteq Fill
      /\ fills \subseteq Fill
  BY <1>1, CapturedFields DEF BooksOK, MirrorOK, VenueOK, CallerOK
<1>5. UNION {reports, executions, breaks, settled, polled, fills} \subseteq Fill
  BY <1>4
<1>6. position \in Nat
  BY <1>1, <1>4, CapturedFields, FS_Subset, TotalType DEF BooksOK
<1>7. /\ DOMAIN mirror \subseteq Handles /\ mirror \in [DOMAIN mirror -> VenueOrder]
      /\ DOMAIN venue \subseteq Handles /\ venue \in [DOMAIN venue -> VenueOrder]
  BY <1>1, CapturedFields DEF BindingsOK, MirrorOK, VenueOK
<1>8. \A h \in DOMAIN mirror : ParentOf(h) \in OrderIds
  BY <1>7, Handled
<1>9. /\ DOMAIN mapping \cup DOMAIN children \subseteq DOMAIN mirror
      /\ mapping \in [DOMAIN mapping -> OrderIds]
  BY <1>1, <1>8, CapturedFields DEF BindingsOK, WholeIn, ChildrenOK, from_mirror
<1>10. children \in [DOMAIN children -> OrderIds]
  BY <1>1, <1>8 DEF ChildrenOK, from_mirror
<1>11. {connected, resent} \subseteq BOOLEAN /\ restarts \in 0 .. MaxRestarts
  BY <1>1, CapturedFields DEF MirrorOK, CallerOK
<1> QED
  BY <1>0, <1>2, <1>3, <1>5, <1>6, <1>7, <1>9, <1>10, <1>11 DEF TypeOK

\* The state of a run is well formed throughout, restarts included.
THEOREM TypesTheorem == Spec => []TypeOK
BY Invariant, Typed, PTL

LEMMA Agreed == IInv => HandlesAgree
<1> SUFFICES ASSUME IInv PROVE HandlesAgree
  OBVIOUS
<1>1. BindingsOK(Captured) /\ ChildrenOK
  BY DEF IInv, StateOK, OutsideOK
<1>2. \A h \in DOMAIN mapping : mapping[h] = ParentOf(h) /\ h \in DOMAIN mirror
  BY <1>1, CapturedFields DEF BindingsOK, WholeIn
<1>3. ASSUME NEW h \in DOMAIN mapping
      PROVE  children_of(mapping[h]) = {} /\ mapping[h] \notin held
  <2>1. ParentOf(h) \notin held
        /\ \A c \in DOMAIN mirror : IsChild(c) => ParentOf(c) # ParentOf(h)
    BY <1>1, CapturedFields DEF BindingsOK
  <2> QED
    BY <1>1, <1>2, <2>1 DEF children_of, ChildrenOK, from_mirror
<1> QED
  BY <1>1, <1>3 DEF HandlesAgree, WorkedOneWay, BindingsRebuilt, ChildrenOK

\* An order is worked one way, and a restart rebuilds the bindings of every child.
THEOREM HandlesAgreeTheorem == Spec => []HandlesAgree
BY Invariant, Agreed, PTL

\* What is reserved is what the booked fills of a working order have not spent of
\* its commitment, whatever they cost, and nothing for an order that is over.
THEOREM ReservedIsUnspentTheorem == Spec => []ReservedIsUnspent
<1>1. IInv => ReservedIsUnspent
  <2> SUFFICES ASSUME IInv PROVE ReservedIsUnspent
    OBVIOUS
  <2>1. reserved = UnspentIn(Captured)
    BY CapturedFields DEF IInv, StateOK, BooksOK
  <2>2. WorkingIn(Captured) = working_orders
    BY CapturedFields DEF WorkingIn, working_orders, is_open
  <2>3. \A o : SpentIn(Captured, o) = SpentOn(o)
    BY CapturedFields DEF SpentIn, Spent, SpentOn, Of
  <2> QED
    BY <2>1, <2>2, <2>3 DEF UnspentIn, ReservedIsUnspent
<1> QED
  BY Invariant, <1>1, PTL

\* What the OMS has filled and what the portfolio holds are the fills booked,
\* each once, and the portfolio books only what the mirror has applied.
THEOREM LedgersAgreeTheorem == Spec => []LedgersAgree
<1>1. IInv => LedgersAgree
  <2> SUFFICES ASSUME IInv PROVE LedgersAgree
    OBVIOUS
  <2>1. BooksOK(Captured)
    BY DEF IInv, StateOK
  <2> QED
    BY <2>1, CapturedFields DEF BooksOK, LedgersAgree, Of
<1> QED
  BY Invariant, <1>1, PTL

\* No fill of an order of the run is dropped between the portfolio and the log.
THEOREM SettledIsAccountedTheorem == Spec => []SettledIsAccounted
<1>1. IInv => SettledIsAccounted
  <2> SUFFICES ASSUME IInv, NEW f \in settled, f.handle \in DOMAIN mapping
               PROVE  f \in reports \cup breaks
    BY DEF SettledIsAccounted
  <2>1. ~IsChild(f.handle)
    BY CapturedFields DEF IInv, StateOK, BindingsOK, WholeIn
  <2> QED
    BY <2>1 DEF IInv, OutsideOK, CallerOK
<1> QED
  BY Invariant, <1>1, PTL

\* A working order that has been acknowledged has a row for every fill.
LEMMA OpenTakesFills ==
  ASSUME NEW status \in WorkingStatuses \ {"NEW", "PENDING"}, NEW filled,
         NEW kind \in FillEventKinds
  PROVE  next_order_status(status, kind, filled) # None
BY DEF next_order_status, HasRow, RowTarget, FillEventKinds, None

\* What is booked of an order sent whole is at most what its handle has traded.
LEMMA BookedIsApplied ==
  ASSUME IInv, NEW h \in DOMAIN mapping
  PROVE  /\ Of(reports, ParentOf(h)) \subseteq At(executions, h)
         /\ At(executions, h) \in SUBSET Fill /\ IsFiniteSet(At(executions, h))
         /\ Total(At(executions, h)) <= mirror[h].filled
         /\ mirror[h].filled <= mirror[h].quantity /\ mirror[h].quantity <= OrderQuantity
         /\ mirror[h] \in VenueOrder
<1>1. BooksOK(Captured) /\ BindingsOK(Captured) /\ MirrorOK(Captured)
  BY DEF IInv, StateOK
<1>2. \A g \in DOMAIN mapping : g \in Handles /\ ~IsChild(g) /\ g \in DOMAIN mirror
  BY <1>1, CapturedFields DEF BindingsOK, WholeIn
<1>3. Of(reports, ParentOf(h)) \subseteq At(executions, h)
  <2> SUFFICES ASSUME NEW f \in reports, ParentOf(f.handle) = ParentOf(h)
               PROVE  f \in executions /\ f.handle = h
    BY DEF Of, At
  <2>1. f \in executions /\ f.handle \in DOMAIN mapping
    BY <1>1, CapturedFields DEF BooksOK
  <2> QED
    BY <1>2, <2>1, Handled
<1>4. At(executions, h) \in SUBSET Fill /\ IsFiniteSet(At(executions, h))
  BY <1>1, CapturedFields, FS_Subset DEF MirrorOK, At
<1> QED
  BY <1>1, <1>2, <1>3, <1>4, CapturedFields DEF MirrorOK

LEMMA Refused == IInv => RefusedOnlyIfClosedFirst
<1> SUFFICES ASSUME IInv, NEW f \in fills, Raises(f), is_open(mapping[f.handle])
             PROVE  FALSE
  BY DEF RefusedOnlyIfClosedFirst
<1> DEFINE h == f.handle
           o == mapping[h]
           booked == Of(reports, ParentOf(h))
           applied == At(executions, h)
<1>1. /\ classify_execution(f) \notin ExecutionBreaks
      /\ h \in DOMAIN mapping /\ o \in DOMAIN orders /\ f \notin reports
      /\ \/ next_order_status(orders[o].status, ReportKind(o, f), orders[o].filled) = None
         \/ f.quantity > remaining_quantity(o)
  BY DEF Raises, HasOrder, AlreadyBooked
<1>2. o = ParentOf(h) /\ f \in Fill /\ f.quantity \in Nat
  BY <1>1, CapturedFields
  DEF IInv, StateOK, BindingsOK, WholeIn, OutsideOK, VenueOK, Fill
<1>3. /\ booked \subseteq applied
      /\ applied \in SUBSET Fill /\ IsFiniteSet(applied)
      /\ Total(applied) <= mirror[h].filled
      /\ mirror[h].filled <= mirror[h].quantity /\ mirror[h].quantity <= OrderQuantity
      /\ mirror[h].filled \in Nat /\ mirror[h].quantity \in Nat
  BY <1>1, BookedIsApplied DEF VenueOrder
<1>4. /\ orders[o].filled = Total(booked)
      /\ orders[o].status \in OrderStatus \ {"NEW", "PENDING"}
  BY <1>1, <1>2, CapturedFields DEF IInv, StateOK, BooksOK, OrderRecords
<1>5. f \notin booked
  BY <1>1 DEF Of
<1> HIDE DEF booked, applied
<1>6. booked \in SUBSET Fill /\ IsFiniteSet(booked) /\ Total(booked) \in Nat
  BY <1>3, FS_Subset, TotalType
<1>7. Total(booked) + f.quantity <= OrderQuantity
  <2>1. CASE f \in executions
    <3>1. booked \cup {f} \in SUBSET applied
      BY <1>3, <2>1 DEF applied, At
    <3>2. Total(booked \cup {f}) <= Total(applied)
      BY <1>3, <3>1, TotalMonotone
    <3>3. Total(booked \cup {f}) = Total(booked) + f.quantity
      BY <1>2, <1>5, <1>6, TotalAdds
    <3>4. Total(applied) \in Nat
      BY <1>3, TotalType
    <3> QED
      BY <1>2, <1>3, <1>6, <3>2, <3>3, <3>4, SessionBounds
  <2>2. CASE f \notin executions
    <3>1. ~(mirror[h].filled + f.quantity > mirror[h].quantity)
      BY <1>1, <2>2 DEF classify_execution, ExecutionBreaks
    <3>2. Total(booked) <= Total(applied) /\ Total(applied) \in Nat
      BY <1>3, TotalMonotone, TotalType
    <3> QED
      BY <1>2, <1>3, <1>6, <3>1, <3>2, SessionBounds
  <2> QED
    BY <2>1, <2>2
<1>8. ~(f.quantity > remaining_quantity(o))
  BY <1>2, <1>4, <1>6, <1>7, SessionBounds DEF remaining_quantity
<1>9. orders[o].status \in WorkingStatuses \ {"NEW", "PENDING"}
  BY <1>4 DEF is_open
<1>10. ReportKind(o, f) \in FillEventKinds
  BY DEF ReportKind, FillEventKinds
<1> QED
  BY <1>1, <1>8, <1>9, <1>10, OpenTakesFills

\* The run refuses a fill that the mirror accepts only if the caller closed the
\* OMS order before the mirror heard of it.
THEOREM RefusedOnlyIfClosedFirstTheorem == Spec => []RefusedOnlyIfClosedFirst
BY Invariant, Refused, PTL

-----------------------------------------------------------------------------
(* With every call saved and no answer lost, the mirror and the venue hold  *)
(* the same orders, and each has filled what it has counted.                *)

InStep ==
  /\ DOMAIN venue = DOMAIN mirror
  /\ algorithmic \subseteq held /\ resent = FALSE
  /\ executions \subseteq fills
  /\ \A f \in fills : f.id \in 1 .. Cardinality(fills) /\ f.handle \in DOMAIN venue
  /\ \A h \in DOMAIN venue : venue[h].filled = Total(At(fills, h))
  /\ \A h \in DOMAIN mirror : mirror[h].filled = Total(At(executions, h))

LEMMA SentInStep ==
  ASSUME IInv, InStep, NEW H \in SUBSET Handles, NEW answers,
         H \cap DOMAIN mirror = {}, \A h \in H : answers[h].filled = 0,
         submit_orders(H, answers), UNCHANGED <<executions, fills, algorithmic, held>>
  PROVE  InStep'
<1>1. /\ DOMAIN mirror' = DOMAIN mirror \cup H /\ DOMAIN venue' = DOMAIN venue \cup H
      /\ \A h \in DOMAIN mirror : mirror'[h] = mirror[h] /\ venue'[h] = venue[h]
      /\ \A h \in H : mirror'[h].filled = 0 /\ venue'[h].filled = 0
      /\ resent' = FALSE
  BY DEF submit_orders, InStep
<1>2. ASSUME NEW h \in H
      PROVE  Total(At(fills, h)) = 0 /\ Total(At(executions, h)) = 0
  <2>1. At(fills, h) = {} /\ At(executions, h) = {}
    BY DEF InStep, At
  <2> QED
    BY <2>1, TotalNone
<1>3. \A h \in DOMAIN venue' : venue'[h].filled = Total(At(fills, h))
  BY <1>1, <1>2 DEF InStep
<1>4. \A h \in DOMAIN mirror' : mirror'[h].filled = Total(At(executions, h))
  BY <1>1, <1>2 DEF InStep
<1> QED
  BY <1>1, <1>3, <1>4 DEF InStep, At

LEMMA AppliedInStep ==
  ASSUME IInv, InStep, NEW f \in fills, apply_execution(f),
         UNCHANGED <<venue, fills, algorithmic, held, resent>>
  PROVE  InStep'
<1>1. CASE classify_execution(f) = "APPLIED"
  <2> DEFINE h == f.handle
  <2>1. /\ f \notin executions /\ h \in DOMAIN mirror
        /\ DOMAIN mirror' = DOMAIN mirror
        /\ mirror'[h] = AfterFill(mirror[h], f.quantity)
        /\ \A g \in DOMAIN mirror : g # h => mirror'[g] = mirror[g]
        /\ executions' = executions \cup {f}
    BY <1>1 DEF apply_execution, classify_execution
  <2>2. f \in Fill /\ f.quantity \in Nat /\ mirror[h] \in VenueOrder
    BY <2>1, CapturedFields DEF IInv, StateOK, MirrorOK, OutsideOK, VenueOK, Fill
  <2>3. mirror'[h].filled = mirror[h].filled + f.quantity
    BY <2>1, <2>2, AfterFillType
  <2>4. /\ At(executions, h) \in SUBSET Fill /\ IsFiniteSet(At(executions, h))
        /\ f \notin At(executions, h)
    BY <2>1, CapturedFields, FS_Subset DEF IInv, StateOK, MirrorOK, At
  <2>5. ASSUME NEW g \in DOMAIN mirror'
        PROVE  mirror'[g].filled = Total(At(executions', g))
    <3>1. mirror[g].filled = Total(At(executions, g))
      BY <2>1 DEF InStep
    <3>2. CASE g = h
      <4>1. At(executions', g) = At(executions, h) \cup {f}
        BY <2>1, <3>2 DEF At
      <4>2. Total(At(executions, h) \cup {f}) = Total(At(executions, h)) + f.quantity
        BY <2>2, <2>4, TotalAdds
      <4> QED
        BY <2>3, <3>1, <3>2, <4>1, <4>2
    <3>3. CASE g # h
      <4>1. At(executions', g) = At(executions, g)
        BY <2>1, <3>3 DEF At
      <4> QED
        BY <2>1, <3>1, <3>3, <4>1
    <3> QED
      BY <3>2, <3>3
  <2> QED
    BY <2>1, <2>5 DEF InStep
<1>2. CASE classify_execution(f) # "APPLIED"
  BY <1>2 DEF apply_execution, InStep
<1> QED
  BY <1>1, <1>2

LEMMA TradeInStep ==
  ASSUME IInv, InStep, NEW h \in DOMAIN venue, NEW q \in Quantities,
         NEW cost \in Notionals, Trade(h, q, cost)
  PROVE  InStep'
<1> DEFINE f == [id |-> Cardinality(fills) + 1, handle |-> h, quantity |-> q,
                 notional |-> cost]
           n == Cardinality(fills)
<1>1. /\ n \in Nat /\ IsFiniteSet(fills) /\ fills \subseteq Fill
      /\ venue[h] \in VenueOrder /\ q \in Nat /\ h \in Handles /\ cost \in Nat
  BY FS_CardinalityType, SessionBounds DEF IInv, OutsideOK, VenueOK, Quantities
<1>2. /\ DOMAIN venue' = DOMAIN venue
      /\ venue'[h] = AfterFill(venue[h], q)
      /\ \A g \in DOMAIN venue : g # h => venue'[g] = venue[g]
      /\ fills' = fills \cup {f}
      /\ UNCHANGED <<mirror, executions, held, algorithmic, resent>>
  BY DEF Trade, broker, bindings
<1>3. venue'[h].filled = venue[h].filled + q
  BY <1>1, <1>2, AfterFillType
<1>4. f \in Fill /\ f.id = n + 1 /\ f.handle = h /\ f.quantity = q
  BY <1>1 DEF Fill
<1> HIDE DEF f
<1>5. f \notin fills
  <2>1. \A g \in fills : g.id \in 1 .. n
    BY DEF InStep
  <2> QED
    BY <1>1, <1>4, <2>1
<1>6. Cardinality(fills') = n + 1
  BY <1>1, <1>2, <1>5, FS_AddElement
<1>7. \A g \in fills' : g.id \in 1 .. Cardinality(fills') /\ g.handle \in DOMAIN venue'
  <2>1. \A g \in fills : g.id \in 1 .. n /\ g.handle \in DOMAIN venue
    BY DEF InStep
  <2> HIDE DEF n
  <2> QED
    BY <1>1, <1>2, <1>4, <1>6, <2>1
<1>8. ASSUME NEW g \in DOMAIN venue'
      PROVE  venue'[g].filled = Total(At(fills', g))
  <2>1. venue[g].filled = Total(At(fills, g))
    BY <1>2 DEF InStep
  <2>2. CASE g = h
    <3>1. At(fills', g) = At(fills, h) \cup {f}
      BY <1>2, <1>4, <2>2 DEF At
    <3>2. At(fills, h) \in SUBSET Fill /\ IsFiniteSet(At(fills, h)) /\ f \notin At(fills, h)
      BY <1>1, <1>5, FS_Subset DEF At
    <3>3. Total(At(fills, h) \cup {f}) = Total(At(fills, h)) + q
      BY <1>4, <3>2, TotalAdds
    <3> QED
      BY <1>3, <2>1, <2>2, <3>1, <3>3
  <2>3. CASE g # h
    <3>1. At(fills', g) = At(fills, g)
      BY <1>2, <1>4, <2>3 DEF At
    <3> QED
      BY <1>2, <2>1, <2>3, <3>1
  <2> QED
    BY <2>2, <2>3
<1>9. executions' \subseteq fills'
  BY <1>2 DEF InStep
<1> QED
  BY <1>2, <1>7, <1>8, <1>9 DEF InStep

LEMMA RouteInStep ==
  ASSUME IInv, InStep, route_working_orders
  PROVE  InStep'
<1> DEFINE H == {broker_order_id_for(o) : o \in unrouted_orders}
<1>1. PICK answers \in [H -> Answers] :
        /\ \A h \in H : VenueTakes(h, remaining_quantity(ParentOf(h)), answers[h])
        /\ submit_orders(H, answers)
  BY DEF route_working_orders
<1>2. H \in SUBSET Handles
  <2>1. unrouted_orders \subseteq OrderIds
    BY CapturedFields DEF IInv, StateOK, BooksOK, unrouted_orders, working_orders
  <2> QED
    BY <2>1, SessionBounds DEF broker_order_id_for, Handles
<1>3. /\ H \cap DOMAIN mirror = {}
      /\ UNCHANGED <<executions, fills, algorithmic, held>>
  BY DEF route_working_orders
<1> HIDE DEF H
<1>4. \A h \in H : answers[h].filled = 0
  BY <1>1, <1>3 DEF VenueTakes, InStep
<1> QED
  BY <1>1, <1>2, <1>3, <1>4, SentInStep

LEMMA ChildInStep ==
  ASSUME IInv, InStep, NEW o \in DOMAIN orders, NEW n \in 1 .. MaxChildren,
         NEW q \in Quantities, route_child(o, n, q)
  PROVE  InStep'
<1> DEFINE handle == child_broker_order_id(o, n)
           H == {handle}
<1>1. PICK answer \in Answers :
        /\ VenueTakes(handle, q, answer)
        /\ submit_orders({handle}, [h \in {handle} |-> answer])
  BY DEF route_child
<1> DEFINE answers == [h \in H |-> answer]
<1>2. handle \in Handles
  BY CapturedFields, SessionBounds
  DEF IInv, StateOK, BooksOK, child_broker_order_id, Handles
<1>3. /\ H \cap DOMAIN mirror = {}
      /\ UNCHANGED <<executions, fills, algorithmic, held>>
  BY DEF route_child, ChildMayBeSent
<1>4. \A h \in H : answers[h].filled = 0
  BY <1>1, <1>3 DEF VenueTakes, InStep
<1>5. H \in SUBSET Handles /\ submit_orders(H, answers)
  BY <1>1, <1>2
<1> HIDE DEF H, answers
<1> QED
  BY <1>3, <1>4, <1>5, SentInStep

\* Nothing that moves these two sides has happened.
LEMMA IdleInStep ==
  ASSUME InStep, UNCHANGED <<mirror, executions, venue, fills, algorithmic, resent>>,
         held \subseteq held'
  PROVE  InStep'
BY DEF InStep

LEMMA InStepKept ==
  ASSUME SavesEveryCall, ~LosesResponses, IInv, InStep, [Next]_vars
  PROVE  InStep'
<1>1. CASE connect \/ disconnect \/ Place
  BY <1>1, IdleInStep DEF connect, disconnect, Place, broker, bindings, outside
<1>2. CASE route_working_orders
  BY <1>2, RouteInStep
<1>3. CASE RouteUnanswered
  BY <1>3 DEF RouteUnanswered
<1>4. ASSUME NEW o \in DOMAIN orders, hold(o)
      PROVE  InStep'
  BY <1>4 DEF hold, broker, InStep
<1>5. ASSUME NEW o \in DOMAIN orders, NEW n \in 1 .. MaxChildren, NEW q \in Quantities,
             route_child(o, n, q)
      PROVE  InStep'
  BY <1>5, ChildInStep
<1>6. ASSUME NEW o \in DOMAIN orders, NEW outcome \in {"CANCELLED", "EXPIRED", "REJECTED"},
             apply_terminal_outcome(o, outcome)
      PROVE  InStep'
  BY <1>6, IdleInStep DEF apply_terminal_outcome, broker, bindings, outside
<1>7. ASSUME NEW f \in fills, settle(f) \/ poll_executions(f)
      PROVE  InStep'
  BY <1>7, AppliedInStep DEF settle, poll_executions, bindings, outside
<1>8. ASSUME NEW h \in DOMAIN venue, MirrorEnd(h)
      PROVE  InStep'
  <2>1. /\ UNCHANGED <<executions, venue, fills, algorithmic, resent, held>>
        /\ mirror' = [mirror EXCEPT ![h].status = venue[h].status]
    BY <1>8 DEF MirrorEnd, bindings, outside
  <2>2. /\ DOMAIN mirror' = DOMAIN mirror
        /\ \A g \in DOMAIN mirror : g # h => mirror'[g] = mirror[g]
        /\ h \in DOMAIN mirror /\ mirror'[h] = [mirror[h] EXCEPT !.status = venue[h].status]
        /\ mirror[h] \in VenueOrder
    BY <2>1, CapturedFields DEF InStep, IInv, StateOK, MirrorOK
  <2>3. \A g \in DOMAIN mirror : mirror'[g].filled = mirror[g].filled
    BY <2>2 DEF VenueOrder
  <2> QED
    BY <2>1, <2>2, <2>3 DEF InStep
<1>9. ASSUME NEW h \in DOMAIN venue, NEW q \in Quantities,
         NEW cost \in Notionals, Trade(h, q, cost)
      PROVE  InStep'
  BY <1>9, TradeInStep
<1>10. ASSUME NEW h \in DOMAIN venue, NEW status \in {"CANCELLED", "EXPIRED"}, End(h, status)
       PROVE  InStep'
  <2>1. /\ UNCHANGED <<mirror, executions, fills, algorithmic, resent, held>>
        /\ venue' = [venue EXCEPT ![h].status = status]
    BY <1>10 DEF End, broker, bindings
  <2>2. /\ DOMAIN venue' = DOMAIN venue
        /\ \A g \in DOMAIN venue : g # h => venue'[g] = venue[g]
        /\ venue'[h] = [venue[h] EXCEPT !.status = status]
        /\ venue[h] \in VenueOrder
    BY <2>1 DEF IInv, OutsideOK, VenueOK
  <2>3. \A g \in DOMAIN venue : venue'[g].filled = venue[g].filled
    BY <2>2 DEF VenueOrder
  <2> QED
    BY <2>1, <2>2, <2>3 DEF InStep
<1>11. CASE capture
  BY <1>11 DEF capture
<1>12. CASE restore
  <2>1. LastCaptured = Captured
    BY DEF LastCaptured
  <2>2. UNCHANGED <<mirror, executions, held, venue, fills, algorithmic, resent>>
    BY <1>12, <2>1, CapturedFields DEF restore, Restored
  <2> QED
    BY <2>2, IdleInStep
<1>13. CASE UNCHANGED vars
  BY <1>13, IdleInStep DEF vars, broker, bindings, outside
<1> QED
  BY <1>1, <1>2, <1>3, <1>4, <1>5, <1>6, <1>7, <1>8, <1>9, <1>10, <1>11, <1>12, <1>13 DEF Next

LEMMA InitInStep == Init => InStep
<1> SUFFICES ASSUME Init PROVE InStep
  OBVIOUS
<1>1. DOMAIN EmptyMap = {}
  BY DEF EmptyMap
<1> QED
  BY <1>1 DEF Init, InStep

LEMMA StaysInStep ==
  ASSUME SavesEveryCall, ~LosesResponses
  PROVE  Spec => []InStep
<1>1. IInv /\ InStep /\ [Next]_vars => InStep'
  BY InStepKept
<1> QED
  BY <1>1, InitInStep, Invariant, PTL DEF Spec

\* When every call is saved and no answer is lost, an order an algorithm works
\* never reaches the venue whole, and nothing is sent twice, restarts included.
THEOREM HeldNeverSentWholeTheorem ==
  ASSUME SavesEveryCall, ~LosesResponses
  PROVE  Spec => []HeldNeverSentWhole
<1>1. IInv /\ InStep => HeldNeverSentWhole
  <2> SUFFICES ASSUME IInv, InStep, NEW o \in algorithmic,
                      broker_order_id_for(o) \in DOMAIN venue
               PROVE  FALSE
    BY DEF HeldNeverSentWhole, InStep
  <2>1. o \in held
    BY DEF InStep
  <2>2. broker_order_id_for(o) \in DOMAIN mapping /\ ParentOf(broker_order_id_for(o)) = o
    BY CapturedFields
    DEF InStep, IInv, StateOK, BindingsOK, WholeIn, broker_order_id_for, IsChild, ParentOf
  <2> QED
    BY <2>1, <2>2, CapturedFields DEF IInv, StateOK, BindingsOK
<1> QED
  BY <1>1, Invariant, StaysInStep, PTL

\* Under the same, the session is well formed, its handles agree, and its mirror
\* never counts more of an order as filled than the venue has filled.
THEOREM SessionTheorem ==
  ASSUME SavesEveryCall, ~LosesResponses
  PROVE  Spec => []SessionInv
<1>1. IInv /\ InStep => MirrorNotAhead
  <2> SUFFICES ASSUME IInv, InStep, NEW h \in DOMAIN mirror
               PROVE  mirror[h].filled <= venue[h].filled
    BY DEF MirrorNotAhead
  <2>1. mirror[h].filled = Total(At(executions, h)) /\ venue[h].filled = Total(At(fills, h))
    BY DEF InStep
  <2>2. At(executions, h) \in SUBSET At(fills, h)
    BY DEF InStep, At
  <2>3. At(fills, h) \in SUBSET Fill /\ IsFiniteSet(At(fills, h))
    BY FS_Subset DEF IInv, OutsideOK, VenueOK, At
  <2> QED
    BY <2>1, <2>2, <2>3, TotalMonotone
<1>2. IInv /\ InStep => SessionInv
  BY <1>1, Typed, Agreed DEF SessionInv
<1> QED
  BY <1>2, Invariant, StaysInStep, PTL
=============================================================================
