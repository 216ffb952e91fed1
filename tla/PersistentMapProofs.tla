------------------------ MODULE PersistentMapProofs --------------------------
(***************************************************************************)
(* Every map ever made reads and iterates for ever as the dict the same    *)
(* writes would have built, for any keys, values, rebase parameters and    *)
(* any number of maps: PersistentMap implements OrderedMaps.               *)
(*                                                                         *)
(* A write adds an entry under a version above that of every view of its   *)
(* store, and at most one insertion, so a map that exists sees neither.    *)
(* That the map just made iterates as it should needs to know which of a   *)
(* key's insertions is its current one.                                    *)
(***************************************************************************)
EXTENDS PersistentMap, SequenceTheorems, FiniteSetTheorems,
        WellFoundedInduction, TLAPS

-----------------------------------------------------------------------------
(* Functions and sequences *)

IsFunction(f) == f = [x \in DOMAIN f |-> f[x]]

IsSequence(q) == q \in Seq({q[i] : i \in DOMAIN q})

\* Functions with the same domain and values are the same.
LEMMA SameFunctions ==
    ASSUME NEW f, NEW g, IsFunction(f), IsFunction(g), DOMAIN f = DOMAIN g,
           \A x \in DOMAIN f : f[x] = g[x]
    PROVE  f = g
  BY DEF IsFunction

\* A sequence over any set is a sequence of its own elements.
LEMMA SequenceFacts ==
    ASSUME NEW T, NEW q \in Seq(T)
    PROVE  IsSequence(q)
  <1> DEFINE S == {q[i] : i \in DOMAIN q}
  <1>1. Len(q) \in Nat /\ q \in [1..Len(q) -> T]
    BY SeqDef
  <1>2. q \in [1..Len(q) -> S]
    BY <1>1
  <1> HIDE DEF S
  <1>3. q \in Seq(S)
    BY <1>1, <1>2, SeqDef
  <1> QED
    BY <1>3 DEF S, IsSequence

\* A function on 1..n is a sequence of n elements.
LEMMA FunctionIsSequence ==
    ASSUME NEW f, IsFunction(f), NEW n \in Nat, DOMAIN f = 1..n
    PROVE  IsSequence(f) /\ Len(f) = n
  <1> DEFINE S == {f[i] : i \in DOMAIN f}
  <1>1. f \in [1..n -> S]
    BY DEF IsFunction
  <1> HIDE DEF S
  <1>2. f \in Seq(S)
    BY <1>1, SeqDef
  <1>3. DOMAIN f = 1..Len(f) /\ Len(f) \in Nat
    BY <1>2
  <1>4. Len(f) = n
    BY <1>3
  <1> QED
    BY <1>2, <1>4 DEF S, IsSequence

LEMMA SequenceIsFunction ==
    ASSUME NEW q, IsSequence(q)
    PROVE  IsFunction(q) /\ Len(q) \in Nat /\ DOMAIN q = 1..Len(q)
  <1> DEFINE S == {q[i] : i \in DOMAIN q}
  <1>1. q \in Seq(S)
    BY DEF IsSequence
  <1> HIDE DEF S
  <1>2. Len(q) \in Nat /\ q \in [1..Len(q) -> S]
    BY <1>1, SeqDef
  <1> QED
    BY <1>2 DEF IsFunction

\* Appending keeps a sequence one, with one more element at its end.
LEMMA AppendFacts ==
    ASSUME NEW q, IsSequence(q), NEW x
    PROVE  /\ IsSequence(Append(q, x))
           /\ Len(q) \in Nat
           /\ DOMAIN q = 1..Len(q)
           /\ Len(Append(q, x)) = Len(q) + 1
           /\ DOMAIN Append(q, x) = 1..(Len(q) + 1)
           /\ \A i \in DOMAIN q : Append(q, x)[i] = q[i]
           /\ Append(q, x)[Len(q) + 1] = x
  <1> DEFINE S == {q[i] : i \in DOMAIN q}
             T == S \cup {x}
             r == Append(q, x)
  <1>1. q \in Seq(S) /\ q \in Seq(T)
    BY DEF IsSequence
  <1>2. /\ r \in Seq(T) /\ Len(q) \in Nat /\ DOMAIN q = 1..Len(q)
        /\ Len(r) = Len(q) + 1 /\ DOMAIN r = 1..(Len(q) + 1)
    BY <1>1
  <1>3. \A i \in DOMAIN q : r[i] = q[i]
    BY <1>1
  <1>4. r[Len(q) + 1] = x
    BY <1>1
  <1>5. IsSequence(r)
    BY <1>2, SequenceFacts
  <1> QED
    BY <1>2, <1>3, <1>4, <1>5

-----------------------------------------------------------------------------
(* Numbers *)

\* A set of numbers that is not empty has a first.
LEMMA FirstExists ==
    ASSUME NEW V, V \subseteq Nat, V # {}
    PROVE  First(V) \in V /\ \A w \in V : First(V) <= w
  <1> DEFINE Less == OpToRel(<, Nat)
  <1>1. IsWellFoundedOn(Less, Nat)
    BY NatLessThanWellFounded
  <1>2. PICK v \in V : \A w \in V : ~(<<w, v>> \in Less)
    <2> HIDE DEF Less
    <2> QED
      BY <1>1, WFMin
  <1>3. ASSUME NEW w \in V PROVE v <= w
    <2>1. ~(w < v) /\ w \in Nat /\ v \in Nat
      BY <1>2 DEF OpToRel
    <2> QED
      BY <2>1
  <1> QED
    BY <1>3 DEF First

\* A bounded set of numbers that is not empty has a largest: the least of its
\* bounds is in it.
LEMMA NewestExists ==
    ASSUME NEW V, NEW bound \in Nat, V \subseteq 0..bound, V # {}
    PROVE  Newest(V) \in V /\ \A w \in V : w <= Newest(V)
  <1> DEFINE Bounds == {b \in Nat : \A v \in V : v <= b}
             Less == OpToRel(<, Nat)
  <1>1. IsWellFoundedOn(Less, Nat)
    BY NatLessThanWellFounded
  <1>2. Bounds \subseteq Nat /\ Bounds # {}
    <2>1. bound \in Bounds
      OBVIOUS
    <2> QED
      BY <2>1
  <1>3. PICK b \in Bounds : \A c \in Bounds : ~(<<c, b>> \in Less)
    <2> HIDE DEF Bounds, Less
    <2> QED
      BY <1>1, <1>2, WFMin
  <1>4. \A c \in Bounds : ~(c < b)
    BY <1>2, <1>3 DEF OpToRel
  <1>5. b \in V
    <2> SUFFICES ASSUME b \notin V PROVE FALSE
      OBVIOUS
    <2>1. PICK v \in V : TRUE
      OBVIOUS
    <2>2. b # 0
      BY <1>2, <2>1
    <2>3. b - 1 \in Bounds
      BY <1>2, <2>2
    <2> QED
      BY <1>2, <1>4, <2>3
  <1> QED
    BY <1>5 DEF Newest

\* It is the one that bounds the others.
LEMMA NewestIs ==
    ASSUME NEW V, V \subseteq Nat, NEW v \in V, \A w \in V : w <= v
    PROVE  Newest(V) = v
  <1>1. Newest(V) \in V /\ \A w \in V : w <= Newest(V)
    BY DEF Newest
  <1>2. Newest(V) <= v /\ v <= Newest(V) /\ Newest(V) \in Nat /\ v \in Nat
    BY <1>1
  <1> QED
    BY <1>2

\* How many of a set of numbers are at or below one of them.
UpTo(P, p) == {q \in P : q <= p}

LEMMA UpToFacts ==
    ASSUME NEW P, IsFiniteSet(P), P \subseteq Nat
    PROVE  /\ Cardinality(P) \in Nat
           /\ \A p \in P : Cardinality(UpTo(P, p)) \in 1..Cardinality(P)
           /\ \A p, q \in P : p < q => Cardinality(UpTo(P, p)) < Cardinality(UpTo(P, q))
  <1>1. Cardinality(P) \in Nat
    BY FS_CardinalityType
  <1>2. ASSUME NEW p \in P
        PROVE  IsFiniteSet(UpTo(P, p)) /\ Cardinality(UpTo(P, p)) \in 1..Cardinality(P)
    <2>1. UpTo(P, p) \in SUBSET P /\ p \in UpTo(P, p)
      BY DEF UpTo
    <2>2. IsFiniteSet(UpTo(P, p)) /\ Cardinality(UpTo(P, p)) <= Cardinality(P)
      BY <2>1, FS_Subset
    <2>3. Cardinality(UpTo(P, p)) \in Nat /\ Cardinality(UpTo(P, p)) # 0
      BY <2>1, <2>2, FS_CardinalityType, FS_EmptySet
    <2> QED
      BY <1>1, <2>2, <2>3
  <1>3. ASSUME NEW p \in P, NEW q \in P, p < q
        PROVE  Cardinality(UpTo(P, p)) < Cardinality(UpTo(P, q))
    <2>1. UpTo(P, p) \in SUBSET UpTo(P, q) /\ q \in UpTo(P, q) /\ q \notin UpTo(P, p)
      <3>1. p \in Nat /\ q \in Nat
        OBVIOUS
      <3>2. \A r \in P : r \in Nat /\ (r <= p => r <= q)
        BY <1>3, <3>1
      <3>3. ~(q <= p)
        BY <1>3, <3>1
      <3>4. q \in UpTo(P, q) /\ q \notin UpTo(P, p)
        BY <3>1, <3>3 DEF UpTo
      <3>5. UpTo(P, p) \in SUBSET UpTo(P, q)
        BY <3>2 DEF UpTo
      <3> QED
        BY <3>4, <3>5
    <2>2. /\ Cardinality(UpTo(P, p)) <= Cardinality(UpTo(P, q))
          /\ Cardinality(UpTo(P, p)) # Cardinality(UpTo(P, q))
      BY <1>2, <2>1, FS_Subset
    <2> QED
      BY <1>1, <1>2, <2>2
  <1> QED
    BY <1>1, <1>2, <1>3

LEMMA AscendingFacts ==
    ASSUME NEW P, IsFiniteSet(P), P \subseteq Nat
    PROVE  /\ Cardinality(P) \in Nat
           /\ DOMAIN Ascending(P) = 1..Cardinality(P)
           /\ \A n \in 1..Cardinality(P) : Ascending(P)[n] \in P
           /\ \A m, n \in 1..Cardinality(P) : m < n => Ascending(P)[m] < Ascending(P)[n]
           /\ \A p \in P : \E n \in 1..Cardinality(P) : Ascending(P)[n] = p
  <1> DEFINE C == Cardinality(P)
             rank == [p \in P |-> Cardinality(UpTo(P, p))]
             f == Ascending(P)
  <1>1. /\ C \in Nat /\ \A p \in P : Cardinality(UpTo(P, p)) \in 1..C
        /\ \A p, q \in P : p < q => Cardinality(UpTo(P, p)) < Cardinality(UpTo(P, q))
    BY UpToFacts
  <1>2. \A p, q \in P : Cardinality(UpTo(P, p)) = Cardinality(UpTo(P, q)) => p = q
    <2> SUFFICES ASSUME NEW p \in P, NEW q \in P,
                        Cardinality(UpTo(P, p)) = Cardinality(UpTo(P, q))
                 PROVE  p = q
      OBVIOUS
    <2>1. ~(p < q) /\ ~(q < p)
      BY <1>1
    <2> QED
      BY <2>1
  <1>3. \A n \in 1..C : \E p \in P : Cardinality(UpTo(P, p)) = n
    <2>1. IsFiniteSet(1..C) /\ Cardinality(1..C) = C
      BY <1>1, FS_Interval
    <2>2. rank \in Injection(P, 1..C)
      <3>1. rank \in [P -> 1..C]
        BY <1>1
      <3>2. \A p, q \in P : rank[p] = rank[q] => p = q
        BY <1>2
      <3> HIDE DEF rank
      <3> QED
        BY <3>1, <3>2 DEF Injection, IsInjective
    <2>3. rank \in Surjection(P, 1..C)
      <3> HIDE DEF rank, C
      <3> QED
        BY <2>1, <2>2, FS_Injection DEF C
    <2> QED
      BY <2>3 DEF Surjection
  <1>4. f = [n \in 1..C |-> CHOOSE p \in P : Cardinality(UpTo(P, p)) = n]
    BY DEF Ascending, UpTo
  <1>5. \A n \in 1..C : f[n] \in P /\ Cardinality(UpTo(P, f[n])) = n
    BY <1>3, <1>4
  <1>6. DOMAIN f = 1..C
    BY <1>4
  <1> HIDE DEF f, C
  <1>7. ASSUME NEW m \in 1..C, NEW n \in 1..C, m < n PROVE f[m] < f[n]
    <2>0. f[m] \in P /\ f[n] \in P
      BY <1>5
    <2>1. f[m] \in Nat /\ f[n] \in Nat
      BY <2>0
    <2>2. /\ m \in Int /\ n \in Int /\ m # n
          /\ Cardinality(UpTo(P, f[m])) = m /\ Cardinality(UpTo(P, f[n])) = n
      BY <1>1, <1>5, <1>7
    <2>3. f[m] # f[n]
      BY <2>2
    <2>4. ~(f[n] < f[m])
      <3>1. f[n] < f[m] => n < m
        BY <1>1, <2>0, <2>2
      <3> QED
        BY <1>7, <2>2, <3>1
    <2> QED
      BY <2>1, <2>3, <2>4
  <1>8. \A p \in P : \E n \in 1..C : f[n] = p
    BY <1>1, <1>2, <1>5
  <1> QED
    BY <1>1, <1>5, <1>6, <1>7, <1>8 DEF f, C

\* An ascending sequence of them all is the one.
LEMMA AscendingIs ==
    ASSUME NEW P, IsFiniteSet(P), P \subseteq Nat, NEW length \in Nat,
           NEW f, IsFunction(f), DOMAIN f = 1..length, \A n \in 1..length : f[n] \in P,
           \A m, n \in 1..length : m < n => f[m] < f[n],
           \A p \in P : \E n \in 1..length : f[n] = p
    PROVE  Cardinality(P) = length /\ Ascending(P) = f
  <1>1. \A m, n \in 1..length : f[m] = f[n] => m = n
    <2> SUFFICES ASSUME NEW m \in 1..length, NEW n \in 1..length, f[m] = f[n]
                 PROVE  m = n
      OBVIOUS
    <2>1. ~(m < n) /\ ~(n < m)
      <3>1. f[m] \in Nat
        OBVIOUS
      <3> QED
        BY <3>1
    <2> QED
      BY <2>1
  <1>2. ASSUME NEW n \in 0..length
        PROVE  Cardinality({f[m] : m \in 1..n}) = n
    <2> DEFINE g == [m \in 1..n |-> f[m]]
               S == {f[m] : m \in 1..n}
    <2>1. \A m \in 1..n : m \in 1..length
      OBVIOUS
    <2>2. g \in Bijection(1..n, S)
      <3>1. g \in [1..n -> S]
        OBVIOUS
      <3>2. \A m, k \in 1..n : g[m] = g[k] => m = k
        BY <1>1, <2>1
      <3>3. \A x \in S : \E m \in 1..n : g[m] = x
        OBVIOUS
      <3> HIDE DEF g, S
      <3> QED
        BY <3>1, <3>2, <3>3 DEF Bijection, Injection, Surjection, IsInjective
    <2>3. IsFiniteSet(1..n) /\ Cardinality(1..n) = n
      BY FS_Interval
    <2>4. ExistsBijection(1..n, S)
      BY <2>2 DEF ExistsBijection
    <2> HIDE DEF S
    <2> QED
      BY <2>3, <2>4, FS_Bijection DEF S
  <1>3. Cardinality(P) = length
    <2>1. P = {f[m] : m \in 1..length}
      OBVIOUS
    <2>2. length \in 0..length
      OBVIOUS
    <2> QED
      BY <1>2, <2>1, <2>2
  <1>4. ASSUME NEW n \in 1..length PROVE Cardinality(UpTo(P, f[n])) = n
    <2>1. \A m \in 1..length : f[m] <= f[n] <=> m <= n
      <3> TAKE m \in 1..length
      <3>1. f[m] \in Nat /\ f[n] \in Nat
        OBVIOUS
      <3>2. m < n \/ m = n \/ n < m
        OBVIOUS
      <3> QED
        BY <3>1, <3>2
    <2>2. UpTo(P, f[n]) = {f[m] : m \in 1..n}
      <3>1. \A p \in UpTo(P, f[n]) : \E m \in 1..n : f[m] = p
        <4> TAKE p \in UpTo(P, f[n])
        <4>1. PICK m \in 1..length : f[m] = p
          BY DEF UpTo
        <4>2. m \in 1..n
          BY <2>1, <4>1 DEF UpTo
        <4> QED
          BY <4>1, <4>2
      <3>2. \A m \in 1..n : f[m] \in UpTo(P, f[n])
        BY <2>1 DEF UpTo
      <3> QED
        BY <3>1, <3>2
    <2> QED
      BY <1>2, <2>2
  <1>5. \A n \in 1..length : (CHOOSE p \in P : Cardinality(UpTo(P, p)) = n) = f[n]
    <2> TAKE n \in 1..length
    <2>1. f[n] \in P /\ Cardinality(UpTo(P, f[n])) = n
      BY <1>4
    <2>2. \A p \in P : Cardinality(UpTo(P, p)) = n => p = f[n]
      BY <1>4
    <2> QED
      BY <2>1, <2>2
  <1>6. Ascending(P) = [n \in 1..length |-> CHOOSE p \in P : Cardinality(UpTo(P, p)) = n]
    BY <1>3 DEF Ascending, UpTo
  <1>7. f = [n \in 1..length |-> f[n]]
    BY DEF IsFunction
  <1> QED
    BY <1>3, <1>5, <1>6, <1>7

\* One more number, above the others, comes last.
LEMMA AscendingAdds ==
    ASSUME NEW P, IsFiniteSet(P), P \subseteq Nat, NEW x \in Nat, \A p \in P : p < x
    PROVE  /\ Cardinality(P \cup {x}) = Cardinality(P) + 1
           /\ Ascending(P \cup {x})[Cardinality(P) + 1] = x
           /\ \A n \in 1..Cardinality(P) : Ascending(P \cup {x})[n] = Ascending(P)[n]
  <1> DEFINE C == Cardinality(P)
             a == Ascending(P)
             f == [n \in 1..(C + 1) |-> IF n = C + 1 THEN x ELSE a[n]]
             Q == P \cup {x}
  <1>1. /\ C \in Nat /\ \A n \in 1..C : a[n] \in P
        /\ \A m, n \in 1..C : m < n => a[m] < a[n]
        /\ \A p \in P : \E n \in 1..C : a[n] = p
    BY AscendingFacts
  <1> HIDE DEF C, a
  <1>2. \A n \in 1..(C + 1) : n # C + 1 => n \in 1..C
    BY <1>1
  <1>3. \A n \in 1..C : n \in 1..(C + 1) /\ n # C + 1
    BY <1>1
  <1>4. IsFunction(f) /\ DOMAIN f = 1..(C + 1) /\ C + 1 \in 1..(C + 1) /\ C + 1 \in Nat
    BY <1>1 DEF IsFunction
  <1>5. f[C + 1] = x /\ \A n \in 1..C : f[n] = a[n]
    BY <1>3, <1>4
  <1> HIDE DEF f
  <1>6. IsFiniteSet(Q) /\ Q \subseteq Nat
    BY FS_AddElement
  <1>7. \A n \in 1..(C + 1) : f[n] \in Q
    BY <1>1, <1>2, <1>5
  <1>8. ASSUME NEW m \in 1..(C + 1), NEW n \in 1..(C + 1), m < n PROVE f[m] < f[n]
    <2>1. m # C + 1
      BY <1>1, <1>8
    <2>2. m \in 1..C /\ f[m] = a[m] /\ a[m] \in P
      BY <1>1, <1>2, <1>5, <2>1
    <2>3. CASE n = C + 1
      BY <1>5, <2>2, <2>3
    <2>4. CASE n # C + 1
      BY <1>1, <1>2, <1>5, <1>8, <2>2, <2>4
    <2> QED
      BY <2>3, <2>4
  <1>9. \A p \in Q : \E n \in 1..(C + 1) : f[n] = p
    BY <1>1, <1>3, <1>4, <1>5
  <1> HIDE DEF Q
  <1>10. Cardinality(Q) = C + 1 /\ Ascending(Q) = f
    BY <1>4, <1>6, <1>7, <1>8, <1>9, AscendingIs
  <1> QED
    BY <1>5, <1>10 DEF C, a, Q

\* One number fewer: those after it close up.
LEMMA AscendingRemoves ==
    ASSUME NEW P, IsFiniteSet(P), P \subseteq Nat, NEW at \in 1..Cardinality(P)
    PROVE  /\ Cardinality(P \ {Ascending(P)[at]}) = Cardinality(P) - 1
           /\ \A n \in 1..(Cardinality(P) - 1) :
                 Ascending(P \ {Ascending(P)[at]})[n]
                     = Ascending(P)[IF n < at THEN n ELSE n + 1]
  <1> DEFINE C == Cardinality(P)
             a == Ascending(P)
             To(n) == IF n < at THEN n ELSE n + 1
             f == [n \in 1..(C - 1) |-> a[To(n)]]
             Q == P \ {a[at]}
  <1>1. /\ C \in Nat /\ \A n \in 1..C : a[n] \in P
        /\ \A m, n \in 1..C : m < n => a[m] < a[n]
        /\ \A p \in P : \E n \in 1..C : a[n] = p
    BY AscendingFacts
  <1> HIDE DEF a
  <1>0. at \in 1..C
    OBVIOUS
  <1> HIDE DEF C
  <1>2. C - 1 \in Nat
    BY <1>0, <1>1
  <1>3. \A n \in 1..(C - 1) : To(n) \in 1..C /\ To(n) # at
    BY <1>0, <1>1
  <1>4. \A m, n \in 1..(C - 1) : m < n => To(m) < To(n)
    BY <1>0, <1>1
  <1>5. \A k \in 1..C : k # at => \E n \in 1..(C - 1) : To(n) = k
    <2> SUFFICES ASSUME NEW k \in 1..C, k # at PROVE \E n \in 1..(C - 1) : To(n) = k
      OBVIOUS
    <2>1. CASE k < at
      <3>1. k \in 1..(C - 1) /\ To(k) = k
        BY <1>0, <1>1, <2>1
      <3> QED
        BY <3>1
    <2>2. CASE at < k
      <3>1. k - 1 \in 1..(C - 1) /\ To(k - 1) = k
        BY <1>0, <1>1, <2>2
      <3> QED
        BY <3>1
    <2> QED
      BY <1>0, <1>1, <2>1, <2>2
  <1>6. \A m, n \in 1..C : a[m] = a[n] => m = n
    <2> SUFFICES ASSUME NEW m \in 1..C, NEW n \in 1..C, a[m] = a[n] PROVE m = n
      OBVIOUS
    <2>1. a[m] \in Nat /\ ~(a[m] < a[n]) /\ ~(a[n] < a[m])
      <3>1. a[m] \in Nat
        BY <1>1
      <3> QED
        BY <3>1
    <2>2. ~(m < n) /\ ~(n < m)
      BY <1>1, <2>1
    <2> QED
      BY <1>1, <2>2
  <1> HIDE DEF To
  <1>7. IsFunction(f) /\ DOMAIN f = 1..(C - 1) /\ \A n \in 1..(C - 1) : f[n] = a[To(n)]
    BY DEF IsFunction
  <1> HIDE DEF f
  <1>8. IsFiniteSet(Q) /\ Q \subseteq Nat
    BY FS_RemoveElement
  <1>9. \A n \in 1..(C - 1) : f[n] \in Q
    BY <1>0, <1>1, <1>3, <1>6, <1>7
  <1>10. \A m, n \in 1..(C - 1) : m < n => f[m] < f[n]
    BY <1>1, <1>3, <1>4, <1>7
  <1>11. \A p \in Q : \E n \in 1..(C - 1) : f[n] = p
    <2> TAKE p \in Q
    <2>1. PICK k \in 1..C : a[k] = p
      BY <1>1
    <2>2. k # at
      BY <2>1
    <2>3. PICK n \in 1..(C - 1) : To(n) = k
      BY <1>5, <2>2
    <2> QED
      BY <1>7, <2>1, <2>3
  <1> HIDE DEF Q
  <1>12. Cardinality(Q) = C - 1 /\ Ascending(Q) = f
    BY <1>2, <1>7, <1>8, <1>9, <1>10, <1>11, AscendingIs
  <1> QED
    BY <1>7, <1>12 DEF C, a, Q, To

\* The numbers 1..n are in ascending order.
LEMMA AscendingInterval ==
    ASSUME NEW count \in Nat, NEW P, P = 1..count
    PROVE  /\ Cardinality(P) = count
           /\ \A i \in 1..count : Ascending(P)[i] = i
  <1>1. PICK f : f = [i \in 1..count |-> i]
    OBVIOUS
  <1>2. IsFunction(f) /\ DOMAIN f = 1..count /\ \A i \in 1..count : f[i] = i
    BY <1>1 DEF IsFunction
  <1>3. IsFiniteSet(P) /\ P \subseteq Nat
    BY FS_Interval
  <1>4. \A i \in 1..count : f[i] \in P
    BY <1>2
  <1>5. \A i, j \in 1..count : i < j => f[i] < f[j]
    BY <1>2
  <1>6. \A p \in P : \E i \in 1..count : f[i] = p
    BY <1>2
  <1>7. Cardinality(P) = count /\ Ascending(P) = f
    BY <1>2, <1>3, <1>4, <1>5, <1>6, AscendingIs
  <1> QED
    BY <1>2, <1>7

-----------------------------------------------------------------------------
(* Stores *)

\* What a chain holds under a version.
Entries == Values \cup {MISSING}

\* A chain holds a value, or the tombstone, for at least one version, up to
\* the live one.
ChainOK(chain, live) ==
    /\ IsFunction(chain) /\ DOMAIN chain # {} /\ DOMAIN chain \subseteq 0..live
    /\ \A v \in DOMAIN chain : chain[v] \in Entries

ChainsOK(chains, live) ==
    /\ IsFunction(chains) /\ DOMAIN chains \subseteq Keys
    /\ \A k \in DOMAIN chains : ChainOK(chains[k], live)

\* Insertions are of keys that have a chain, in ascending versions, and a key
\* is not inserted twice under one version.
InsertionsOK(insertions, chains, live) ==
    /\ insertions \in Seq(Insertion)
    /\ \A i \in DOMAIN insertions :
          insertions[i].at <= live /\ insertions[i].key \in DOMAIN chains
    /\ \A i, j \in DOMAIN insertions : i < j =>
          /\ insertions[i].at <= insertions[j].at
          /\ insertions[i].key = insertions[j].key => insertions[i].at < insertions[j].at

\* The one insertion of a key that was never deleted and written again is
\* under the first version of its chain.
InsertedOnce(insertions, chains, key) ==
    \E i \in DOMAIN insertions :
        /\ insertions[i].key = key /\ insertions[i].at = First(DOMAIN chains[key])
        /\ \A j \in DOMAIN insertions : insertions[j].key = key => j = i

\* The history of any other key is the versions of its insertions, and ends
\* with the newest.
HistoryOK(insertions, history, key) ==
    /\ IsSequence(history) /\ Len(history) # 0
    /\ \A n \in DOMAIN history : \E i \in DOMAIN insertions :
          insertions[i].key = key /\ insertions[i].at = history[n]
    /\ \A i \in DOMAIN insertions : insertions[i].key = key =>
          /\ insertions[i].at <= history[Len(history)]
          /\ \E n \in DOMAIN history : history[n] = insertions[i].at

Sound(store) ==
    /\ store.live_version \in Nat /\ store.entries \in Nat
    /\ ChainsOK(store.chains, store.live_version)
    /\ InsertionsOK(store.insertions, store.chains, store.live_version)
    /\ \A k \in DOMAIN store.chains : k \notin DOMAIN store.reinsertions =>
          InsertedOnce(store.insertions, store.chains, k)
    /\ DOMAIN store.reinsertions \subseteq DOMAIN store.chains
    /\ \A k \in DOMAIN store.reinsertions :
          HistoryOK(store.insertions, store.reinsertions[k], k)

\* The newest entry of a chain at or below a version, if it has one.
LEMMA VisibleFacts ==
    ASSUME NEW live \in Nat, NEW chain, ChainOK(chain, live), NEW version \in Nat,
           Visible(chain, version) # {}
    PROVE  /\ Newest(Visible(chain, version)) \in Visible(chain, version)
           /\ Newest(Visible(chain, version)) \in DOMAIN chain
  <1> DEFINE V == Visible(chain, version)
  <1>1. V \subseteq 0..version /\ V \subseteq DOMAIN chain
    <2> SUFFICES ASSUME NEW v \in V PROVE v \in 0..version /\ v \in DOMAIN chain
      OBVIOUS
    <2>1. v \in DOMAIN chain /\ v <= version /\ v \in 0..live
      BY DEF Visible, ChainOK
    <2> QED
      BY <2>1
  <1> HIDE DEF V
  <1>2. Newest(V) \in V
    BY <1>1, NewestExists DEF V
  <1> QED
    BY <1>1, <1>2 DEF V

\* A read yields a value or nothing; at the live version it is the last entry.
LEMMA LookupFacts ==
    ASSUME NEW store, store.live_version \in Nat, ChainsOK(store.chains, store.live_version),
           NEW k
    PROVE  /\ \A version \in Nat : Lookup(store, version, k) \in Entries
           /\ k \in DOMAIN store.chains =>
                 Lookup(store, store.live_version, k)
                     = store.chains[k][Newest(DOMAIN store.chains[k])]
  <1> DEFINE chain == store.chains[k]
             live == store.live_version
  <1>1. k \in DOMAIN store.chains => ChainOK(chain, live)
    BY DEF ChainsOK
  <1> HIDE DEF chain, live
  <1>2. ASSUME NEW version \in Nat PROVE Lookup(store, version, k) \in Entries
    <2>1. CASE k \notin DOMAIN store.chains \/ Visible(chain, version) = {}
      BY <2>1 DEF Lookup, chain, Entries
    <2>2. CASE k \in DOMAIN store.chains /\ Visible(chain, version) # {}
      <3>1. Newest(Visible(chain, version)) \in DOMAIN chain
        BY <1>1, <2>2, VisibleFacts DEF live
      <3>2. chain[Newest(Visible(chain, version))] \in Entries
        BY <1>1, <2>2, <3>1 DEF ChainOK
      <3> QED
        BY <2>2, <3>2 DEF Lookup, chain
    <2> QED
      BY <2>1, <2>2
  <1>3. ASSUME k \in DOMAIN store.chains
        PROVE  Lookup(store, live, k) = chain[Newest(DOMAIN chain)]
    <2>1. Visible(chain, live) = DOMAIN chain /\ DOMAIN chain # {}
      BY <1>1, <1>3 DEF Visible, ChainOK
    <2> QED
      BY <1>3, <2>1 DEF Lookup, chain
  <1> QED
    BY <1>2, <1>3 DEF chain, live

\* The one entry a write adds to the chains of its store.
Adds(written, store, key, value) ==
    /\ written.chains = MapSet(store.chains, key,
                           IF key \in DOMAIN store.chains
                           THEN MapSet(store.chains[key], store.live_version + 1, value)
                           ELSE [v \in {store.live_version + 1} |-> value])
    /\ written.live_version = store.live_version + 1
    /\ written.entries = store.entries + 1

\* An entry after the live version ends a chain, and begins none that exists.
LEMMA ChainWritten ==
    ASSUME NEW live \in Nat, NEW chain, ChainOK(chain, live),
           NEW value \in Entries,
           NEW longer, longer = MapSet(chain, live + 1, value)
    PROVE  /\ ChainOK(longer, live + 1)
           /\ First(DOMAIN longer) = First(DOMAIN chain)
           /\ \A version \in 0..live :
                 /\ Visible(longer, version) = Visible(chain, version)
                 /\ \A v \in Visible(chain, version) : longer[v] = chain[v]
           /\ longer[Newest(DOMAIN longer)] = value
  <1>1. /\ DOMAIN longer = DOMAIN chain \cup {live + 1} /\ IsFunction(longer)
        /\ longer[live + 1] = value /\ \A v \in DOMAIN chain : longer[v] = chain[v]
    <2>1. \A v \in DOMAIN chain : v # live + 1
      BY DEF ChainOK
    <2> QED
      BY <2>1 DEF MapSet, IsFunction
  <1>2. /\ DOMAIN chain \subseteq 0..live /\ DOMAIN chain # {}
        /\ \A v \in DOMAIN chain : chain[v] \in Entries
    BY DEF ChainOK
  <1>3. ChainOK(longer, live + 1)
    BY <1>1, <1>2 DEF ChainOK
  <1>4. First(DOMAIN longer) = First(DOMAIN chain)
    <2>1. DOMAIN chain \subseteq Nat /\ DOMAIN longer \subseteq Nat /\ DOMAIN longer # {}
      BY <1>1, <1>2
    <2>2. First(DOMAIN chain) \in DOMAIN chain /\ \A w \in DOMAIN chain : First(DOMAIN chain) <= w
      BY <1>2, <2>1, FirstExists
    <2>3. First(DOMAIN longer) \in DOMAIN longer /\ \A w \in DOMAIN longer : First(DOMAIN longer) <= w
      BY <2>1, FirstExists
    <2> QED
      BY <1>1, <1>2, <2>2, <2>3
  <1>5. ASSUME NEW version \in 0..live
        PROVE  /\ Visible(longer, version) = Visible(chain, version)
               /\ \A v \in Visible(chain, version) : longer[v] = chain[v]
    BY <1>1 DEF Visible
  <1>6. longer[Newest(DOMAIN longer)] = value
    <2>1. DOMAIN longer \subseteq Nat /\ live + 1 \in DOMAIN longer /\ \A w \in DOMAIN longer : w <= live + 1
      BY <1>1, <1>2
    <2>2. Newest(DOMAIN longer) = live + 1
      BY <2>1, NewestIs
    <2> QED
      BY <1>1, <2>2
  <1> QED
    BY <1>3, <1>4, <1>5, <1>6

Starts(chain, version, value) == chain = [v \in {version} |-> value]

LEMMA ChainStarted ==
    ASSUME NEW live \in Nat, NEW value \in Entries,
           NEW chain, Starts(chain, live + 1, value)
    PROVE  /\ ChainOK(chain, live + 1)
           /\ First(DOMAIN chain) = live + 1
           /\ \A version \in 0..live : Visible(chain, version) = {}
           /\ chain[Newest(DOMAIN chain)] = value
  <1>1. DOMAIN chain = {live + 1} /\ chain[live + 1] = value /\ IsFunction(chain)
    BY DEF IsFunction, Starts
  <1>2. First(DOMAIN chain) = live + 1 /\ Newest(DOMAIN chain) = live + 1
    BY <1>1 DEF First, Newest
  <1> QED
    BY <1>1, <1>2 DEF ChainOK, Visible

\* The written key's chain, and the others.
LEMMA ChainsWritten ==
    ASSUME NEW store, Sound(store), NEW key \in Keys, NEW value \in Entries,
           NEW written, Adds(written, store, key, value)
    PROVE  /\ ChainsOK(written.chains, written.live_version)
           /\ DOMAIN written.chains = DOMAIN store.chains \cup {key}
           /\ \A k \in DOMAIN store.chains :
                 First(DOMAIN written.chains[k]) = First(DOMAIN store.chains[k])
           /\ key \notin DOMAIN store.chains =>
                 First(DOMAIN written.chains[key]) = store.live_version + 1
           /\ \A k \in DOMAIN store.chains : k # key => written.chains[k] = store.chains[k]
           /\ key \in DOMAIN store.chains =>
                 written.chains[key] = MapSet(store.chains[key], store.live_version + 1, value)
           /\ key \notin DOMAIN store.chains =>
                 Starts(written.chains[key], store.live_version + 1, value)
  <1> DEFINE live == store.live_version
             chains == store.chains
             after == written.chains
  <1>1. live \in Nat /\ ChainsOK(chains, live) /\ written.live_version = live + 1
    BY DEF Sound, Adds
  <1>2. /\ IsFunction(after) /\ DOMAIN after = DOMAIN chains \cup {key}
        /\ \A k \in DOMAIN chains : k # key => after[k] = chains[k]
        /\ key \in DOMAIN chains => after[key] = MapSet(chains[key], live + 1, value)
        /\ key \notin DOMAIN chains => Starts(after[key], live + 1, value)
    BY DEF Adds, MapSet, IsFunction, Starts
  <1> HIDE DEF live, chains, after
  <1>3. \A k \in DOMAIN chains : ChainOK(chains[k], live)
    BY <1>1 DEF ChainsOK
  <1>4. /\ ChainOK(after[key], live + 1)
        /\ key \in DOMAIN chains => First(DOMAIN after[key]) = First(DOMAIN chains[key])
        /\ key \notin DOMAIN chains => First(DOMAIN after[key]) = live + 1
    <2>1. CASE key \in DOMAIN chains
      BY <1>1, <1>2, <1>3, <2>1, ChainWritten
    <2>2. CASE key \notin DOMAIN chains
      BY <1>1, <1>2, <2>2, ChainStarted
    <2> QED
      BY <2>1, <2>2
  <1>5. \A k \in DOMAIN chains : k # key => ChainOK(after[k], live + 1)
    <2> SUFFICES ASSUME NEW k \in DOMAIN chains, k # key PROVE ChainOK(chains[k], live + 1)
      BY <1>2
    <2>1. ChainOK(chains[k], live)
      BY <1>3
    <2> QED
      BY <1>1, <2>1 DEF ChainOK
  <1>6. ChainsOK(after, live + 1)
    BY <1>1, <1>2, <1>4, <1>5 DEF ChainsOK
  <1> QED
    BY <1>1, <1>2, <1>4, <1>6 DEF live, chains, after

\* What reads as what after a write: at every version up to the live one as
\* before; at the next, the key as written and every other as at the live one.
LEMMA ReadsOfWrite ==
    ASSUME NEW store, Sound(store), NEW key \in Keys, NEW value \in Entries,
           NEW written, Adds(written, store, key, value), NEW k
    PROVE  /\ \A version \in 0..store.live_version :
                 Lookup(written, version, k) = Lookup(store, version, k)
           /\ Lookup(written, store.live_version + 1, k)
                  = IF k = key THEN value ELSE Lookup(store, store.live_version, k)
  <1> DEFINE live == store.live_version
             chains == store.chains
             after == written.chains
  <1>1. live \in Nat /\ ChainsOK(chains, live) /\ written.live_version = live + 1
    BY DEF Sound, Adds
  <1>2. /\ ChainsOK(after, live + 1) /\ DOMAIN after = DOMAIN chains \cup {key}
        /\ \A x \in DOMAIN chains : x # key => after[x] = chains[x]
        /\ key \in DOMAIN chains => after[key] = MapSet(chains[key], live + 1, value)
        /\ key \notin DOMAIN chains => Starts(after[key], live + 1, value)
    BY <1>1, ChainsWritten
  <1>3. \A x \in DOMAIN chains : ChainOK(chains[x], live)
    BY <1>1 DEF ChainsOK
  <1>4. k \in DOMAIN after => Lookup(written, live + 1, k) = after[k][Newest(DOMAIN after[k])]
    BY <1>1, <1>2, LookupFacts
  <1>5. k \in DOMAIN chains => Lookup(store, live, k) = chains[k][Newest(DOMAIN chains[k])]
    BY <1>1, LookupFacts
  <1> HIDE DEF live, chains, after
  <1>6. ASSUME NEW version \in 0..live
        PROVE  Lookup(written, version, k) = Lookup(store, version, k)
    <2>1. CASE k # key
      BY <1>2, <2>1 DEF Lookup, chains, after
    <2>2. CASE k = key /\ key \in DOMAIN chains
      <3>1. /\ Visible(after[k], version) = Visible(chains[k], version)
            /\ \A v \in Visible(chains[k], version) : after[k][v] = chains[k][v]
        BY <1>1, <1>2, <1>3, <2>2, ChainWritten
      <3>2. Visible(chains[k], version) # {} =>
               Newest(Visible(chains[k], version)) \in Visible(chains[k], version)
        BY <1>1, <1>3, <2>2, VisibleFacts
      <3> QED
        BY <1>2, <2>2, <3>1, <3>2 DEF Lookup, chains, after
    <2>3. CASE k = key /\ key \notin DOMAIN chains
      <3>1. Visible(after[k], version) = {}
        BY <1>1, <1>2, <2>3, ChainStarted
      <3> QED
        BY <2>3, <3>1 DEF Lookup, chains, after
    <2> QED
      BY <2>1, <2>2, <2>3
  <1>7. Lookup(written, live + 1, k) = IF k = key THEN value ELSE Lookup(store, live, k)
    <2>1. CASE k = key
      <3>1. after[key][Newest(DOMAIN after[key])] = value
        <4>1. CASE key \in DOMAIN chains
          BY <1>1, <1>2, <1>3, <4>1, ChainWritten
        <4>2. CASE key \notin DOMAIN chains
          BY <1>1, <1>2, <4>2, ChainStarted
        <4> QED
          BY <4>1, <4>2
      <3> QED
        BY <1>2, <1>4, <2>1, <3>1
    <2>2. CASE k # key /\ k \in DOMAIN chains
      BY <1>2, <1>4, <1>5, <2>2
    <2>3. CASE k # key /\ k \notin DOMAIN chains
      BY <1>2, <2>3 DEF Lookup, chains, after
    <2> QED
      BY <2>1, <2>2, <2>3
  <1> QED
    BY <1>6, <1>7 DEF live, chains, after

\* What set and delete take for the live value of a key is that.
LEMMA HoldsFacts ==
    ASSUME NEW store, NEW key
    PROVE  Holds(store, key) <=> Lookup(store, store.live_version, key) # MISSING
  BY DEF Holds, Lookup

-----------------------------------------------------------------------------
(* What a store yields at a version *)

\* The insertion is the newest of its key's at the version.
IsCurrent(store, version, i) ==
    \A j \in DOMAIN store.insertions :
        /\ store.insertions[j].key = store.insertions[i].key
        /\ store.insertions[j].at <= version
        => store.insertions[j].at <= store.insertions[i].at

LEMMA InsertionFacts ==
    ASSUME NEW store, Sound(store)
    PROVE  /\ IsSequence(store.insertions)
           /\ Len(store.insertions) \in Nat
           /\ DOMAIN store.insertions = 1..Len(store.insertions)
           /\ \A i \in DOMAIN store.insertions :
                 /\ store.insertions[i].key \in DOMAIN store.chains
                 /\ store.insertions[i].key \in Keys
                 /\ store.insertions[i].at \in 0..store.live_version
           /\ store.live_version \in Nat
           /\ DOMAIN store.insertions \subseteq Nat
  <1>1. /\ store.live_version \in Nat
        /\ InsertionsOK(store.insertions, store.chains, store.live_version)
    BY DEF Sound
  <1> DEFINE insertions == store.insertions
  <1>2. insertions \in Seq(Insertion) /\ IsSequence(insertions)
    BY <1>1, SequenceFacts DEF InsertionsOK
  <1>3. Len(insertions) \in Nat /\ DOMAIN insertions = 1..Len(insertions)
    BY <1>2
  <1>4. \A i \in DOMAIN insertions :
           /\ insertions[i] \in Insertion
           /\ insertions[i].at <= store.live_version /\ insertions[i].key \in DOMAIN store.chains
    BY <1>1, <1>2 DEF InsertionsOK
  <1>5. \A i \in DOMAIN insertions :
           insertions[i].key \in Keys /\ insertions[i].at \in 0..store.live_version
    BY <1>1, <1>4 DEF Insertion
  <1>6. DOMAIN insertions \subseteq Nat
    BY <1>3
  <1> QED
    BY <1>1, <1>2, <1>3, <1>4, <1>5, <1>6

Reinserted(history, version) == {history[i] : i \in DOMAIN history} \cap 0..version

LEMMA CurrentOf ==
    ASSUME NEW store, NEW version, NEW insertion,
           insertion.key \in DOMAIN store.reinsertions
    PROVE  Current(store, version, insertion) <=>
              insertion.at = Newest(Reinserted(store.reinsertions[insertion.key], version))
  BY DEF Current, Reinserted

\* _live is what it is for: of a key inserted more than once, the newest.
LEMMA CurrentIs ==
    ASSUME NEW store, Sound(store), NEW version \in Nat, NEW i \in DOMAIN store.insertions,
           store.insertions[i].at <= version
    PROVE  Current(store, version, store.insertions[i]) <=> IsCurrent(store, version, i)
  <1> DEFINE insertions == store.insertions
             key == insertions[i].key
             at  == insertions[i].at
  <1>1. /\ key \in DOMAIN store.chains /\ at \in 0..version
        /\ \A j \in DOMAIN insertions : insertions[j].at \in Nat
    BY InsertionFacts
  <1>2. CASE key \notin DOMAIN store.reinsertions
    <2>1. InsertedOnce(insertions, store.chains, key)
      BY <1>1, <1>2 DEF Sound
    <2>2. \A j \in DOMAIN insertions : insertions[j].key = key => j = i
      BY <2>1 DEF InsertedOnce
    <2> QED
      BY <1>1, <1>2, <2>2 DEF Current, IsCurrent
  <1>3. CASE key \in DOMAIN store.reinsertions
    <2> DEFINE history == store.reinsertions[key]
               H == Reinserted(history, version)
    <2>1. HistoryOK(insertions, history, key)
      BY <1>3 DEF Sound
    <2>2. Current(store, version, insertions[i]) <=> at = Newest(H)
      BY <1>3, CurrentOf
    <2>3. \A h \in H : /\ h \in 0..version
                       /\ \E j \in DOMAIN insertions : insertions[j].key = key /\ insertions[j].at = h
      <3> TAKE h \in H
      <3>1. h \in 0..version /\ \E n \in DOMAIN history : history[n] = h
        BY DEF Reinserted
      <3>2. \A n \in DOMAIN history : \E j \in DOMAIN insertions :
               insertions[j].key = key /\ insertions[j].at = history[n]
        BY <2>1 DEF HistoryOK
      <3> HIDE DEF H, history, insertions, key
      <3> QED
        BY <3>1, <3>2
    <2>4. \A j \in DOMAIN insertions :
             insertions[j].key = key /\ insertions[j].at <= version => insertions[j].at \in H
      <3> TAKE j \in DOMAIN insertions
      <3> HAVE insertions[j].key = key /\ insertions[j].at <= version
      <3>1. PICK n \in DOMAIN history : history[n] = insertions[j].at
        BY <2>1 DEF HistoryOK
      <3>2. insertions[j].at \in 0..version
        BY <1>1
      <3> QED
        BY <3>1, <3>2 DEF Reinserted
    <2> HIDE DEF H, history
    <2>5. H \subseteq 0..version /\ at \in H
      BY <1>1, <2>3, <2>4
    <2>6. Newest(H) \in H /\ \A w \in H : w <= Newest(H)
      BY <2>5, NewestExists
    <2>7. ASSUME at = Newest(H) PROVE IsCurrent(store, version, i)
      BY <2>4, <2>6, <2>7 DEF IsCurrent
    <2>8. ASSUME IsCurrent(store, version, i) PROVE at = Newest(H)
      <3>1. \A w \in H : w <= at
        BY <2>3, <2>8 DEF IsCurrent
      <3>2. H \subseteq Nat
        BY <2>3
      <3> QED
        BY <2>5, <3>1, <3>2, NewestIs
    <2> QED
      BY <2>2, <2>7, <2>8
  <1> QED
    BY <1>2, <1>3

Yields(store, version, i) ==
    /\ store.insertions[i].at <= version
    /\ IsCurrent(store, version, i)
    /\ Lookup(store, version, store.insertions[i].key) # MISSING

\* A view yields the newest insertion of each key it holds, and no key twice.
LEMMA YieldedFacts ==
    ASSUME NEW store, Sound(store), NEW version \in Nat
    PROVE  /\ Yielded(store, version) = {i \in DOMAIN store.insertions : Yields(store, version, i)}
           /\ \A i \in Yielded(store, version) :
                 i \in DOMAIN store.insertions /\ Yields(store, version, i)
           /\ \A i \in DOMAIN store.insertions :
                 Yields(store, version, i) => i \in Yielded(store, version)
           /\ Yielded(store, version) \subseteq Nat
           /\ IsFiniteSet(Yielded(store, version))
           /\ \A i, j \in Yielded(store, version) :
                 store.insertions[i].key = store.insertions[j].key => i = j
  <1> DEFINE Y == Yielded(store, version)
             insertions == store.insertions
  <1>1. /\ \A i \in DOMAIN insertions : i \in Y <=> Yields(store, version, i)
        /\ Y \subseteq DOMAIN insertions
    <2>1. \A i \in DOMAIN insertions :
             i \in Y <=> /\ insertions[i].at <= version
                         /\ Current(store, version, insertions[i])
                         /\ Lookup(store, version, insertions[i].key) # MISSING
      BY DEF Yielded
    <2>2. \A i \in DOMAIN insertions : insertions[i].at <= version =>
             (Current(store, version, insertions[i]) <=> IsCurrent(store, version, i))
      BY CurrentIs
    <2>3. Y \subseteq DOMAIN insertions
      BY DEF Yielded
    <2> HIDE DEF Y
    <2> QED
      BY <2>1, <2>2, <2>3 DEF Yields
  <1>2. /\ DOMAIN insertions = 1..Len(insertions) /\ DOMAIN insertions \subseteq Nat
        /\ \A i \in DOMAIN insertions : insertions[i].at \in Nat
    BY InsertionFacts
  <1>3. IsFiniteSet(DOMAIN insertions)
    BY <1>2, InsertionFacts, FS_Interval
  <1> HIDE DEF Y
  <1>4. IsFiniteSet(Y) /\ Y \subseteq Nat
    BY <1>1, <1>2, <1>3, FS_Subset
  <1>5. ASSUME NEW i \in Y, NEW j \in Y, insertions[i].key = insertions[j].key PROVE i = j
    <2>1. /\ i \in DOMAIN insertions /\ j \in DOMAIN insertions
          /\ Yields(store, version, i) /\ Yields(store, version, j)
      BY <1>1
    <2>2. insertions[i].at = insertions[j].at
      <3>1. insertions[i].at <= insertions[j].at /\ insertions[j].at <= insertions[i].at
        BY <1>5, <2>1 DEF Yields, IsCurrent
      <3>2. insertions[i].at \in Nat /\ insertions[j].at \in Nat
        BY <1>2, <2>1
      <3> QED
        BY <3>1, <3>2
    <2>3. \A a, b \in DOMAIN insertions : a < b =>
             (insertions[a].key = insertions[b].key => insertions[a].at < insertions[b].at)
      BY DEF Sound, InsertionsOK
    <2>4. ~(i < j) /\ ~(j < i)
      BY <1>2, <1>5, <2>1, <2>2, <2>3
    <2> QED
      BY <1>2, <2>1, <2>4
  <1>6. Y = {i \in DOMAIN insertions : Yields(store, version, i)}
    BY <1>1
  <1> QED
    BY <1>1, <1>4, <1>5, <1>6 DEF Y

\* A key that a store holds is yielded at its live version.
LEMMA HeldIsYielded ==
    ASSUME NEW store, Sound(store), NEW key,
           Lookup(store, store.live_version, key) # MISSING
    PROVE  \E i \in Yielded(store, store.live_version) : store.insertions[i].key = key
  <1> DEFINE insertions == store.insertions
             live == store.live_version
             At == {insertions[i].at : i \in {j \in DOMAIN insertions : insertions[j].key = key}}
  <1>1. /\ \A i \in DOMAIN insertions : insertions[i].at \in 0..live
        /\ live \in Nat
    BY InsertionFacts
  <1>2. key \in DOMAIN store.chains
    BY DEF Lookup
  <1>3. PICK i \in DOMAIN insertions : insertions[i].key = key
    <2>1. CASE key \notin DOMAIN store.reinsertions
      BY <1>2, <2>1 DEF Sound, InsertedOnce
    <2>2. CASE key \in DOMAIN store.reinsertions
      <3> DEFINE history == store.reinsertions[key]
      <3>1. HistoryOK(insertions, history, key)
        BY <2>2 DEF Sound
      <3>2. 1 \in DOMAIN history
        BY <3>1, SequenceIsFunction DEF HistoryOK
      <3> HIDE DEF history
      <3> QED
        BY <3>1, <3>2 DEF HistoryOK
    <2> QED
      BY <2>1, <2>2
  <1>4. At \subseteq 0..live /\ insertions[i].at \in At
    BY <1>1, <1>3
  <1>5. \A j \in DOMAIN insertions : insertions[j].key = key => insertions[j].at \in At
    OBVIOUS
  <1>6. \A a \in At : \E j \in DOMAIN insertions : insertions[j].key = key /\ insertions[j].at = a
    OBVIOUS
  <1> HIDE DEF At
  <1>7. Newest(At) \in At /\ \A a \in At : a <= Newest(At)
    BY <1>1, <1>4, NewestExists
  <1>8. PICK j \in DOMAIN insertions : insertions[j].key = key /\ insertions[j].at = Newest(At)
    BY <1>6, <1>7
  <1>9. Yields(store, live, j)
    BY <1>1, <1>5, <1>7, <1>8 DEF Yields, IsCurrent
  <1> QED
    BY <1>1, <1>8, <1>9, YieldedFacts

\* The items of a map: one for each insertion yielded, in that order.
Lists(items, store, version, Y, C) ==
    /\ C \in Nat /\ IsSequence(items) /\ Len(items) = C /\ DOMAIN items = 1..C
    /\ \A n \in 1..C : LET i == Ascending(Y)[n]
                           key == store.insertions[i].key
                       IN  i \in Y /\ items[n] = <<key, Lookup(store, version, key)>>
    /\ \A i \in Y : \E n \in 1..C : Ascending(Y)[n] = i

LEMMA ItemsFacts ==
    ASSUME NEW store, Sound(store), NEW version \in Nat, NEW Y, Y = Yielded(store, version)
    PROVE  Lists(ItemsAt(store, version), store, version, Y, Cardinality(Y))
  <1>1. IsFiniteSet(Y) /\ Y \subseteq Nat
    BY YieldedFacts
  <1>2. PICK live : live = Ascending(Y)
    OBVIOUS
  <1>3. PICK C : C = Cardinality(Y)
    OBVIOUS
  <1>4. /\ C \in Nat /\ DOMAIN live = 1..C /\ \A n \in 1..C : live[n] \in Y
        /\ \A i \in Y : \E n \in 1..C : live[n] = i
    BY <1>1, <1>2, <1>3, AscendingFacts
  <1>5. PICK items : items = [n \in DOMAIN live |->
                    <<store.insertions[live[n]].key,
                      Lookup(store, version, store.insertions[live[n]].key)>>]
    OBVIOUS
  <1>6. items = ItemsAt(store, version)
    BY <1>2, <1>5 DEF ItemsAt
  <1>7. /\ IsFunction(items) /\ DOMAIN items = 1..C
        /\ \A n \in 1..C : items[n] = <<store.insertions[live[n]].key,
                                       Lookup(store, version, store.insertions[live[n]].key)>>
    BY <1>4, <1>5 DEF IsFunction
  <1>8. IsSequence(items) /\ Len(items) = C
    BY <1>4, <1>7, FunctionIsSequence
  <1>9. Lists(items, store, version, Y, C)
    BY <1>2, <1>4, <1>7, <1>8 DEF Lists
  <1> QED
    BY <1>3, <1>6, <1>9

\* Items: a value for each of some keys, none of them twice.
AreItems(items) ==
    /\ IsSequence(items)
    /\ \A n \in DOMAIN items :
          /\ items[n] = <<items[n][1], items[n][2]>>
          /\ items[n][1] \in Keys /\ items[n][2] \in Values
    /\ \A m, n \in DOMAIN items : items[m][1] = items[n][1] => m = n

LEMMA YieldsItems ==
    ASSUME NEW store, Sound(store), NEW version \in Nat
    PROVE  AreItems(ItemsAt(store, version))
  <1> DEFINE items == ItemsAt(store, version)
             Y == Yielded(store, version)
             live == Ascending(Y)
             C == Cardinality(Y)
             insertions == store.insertions
  <1>1. /\ IsSequence(items) /\ DOMAIN items = 1..C
        /\ \A n \in 1..C : /\ live[n] \in Y
                           /\ items[n] = <<insertions[live[n]].key,
                                           Lookup(store, version, insertions[live[n]].key)>>
    BY ItemsFacts DEF Lists
  <1>2. /\ IsFiniteSet(Y) /\ Y \subseteq Nat
        /\ \A i \in Y : i \in DOMAIN insertions /\ Yields(store, version, i)
        /\ \A i, j \in Y : insertions[i].key = insertions[j].key => i = j
    BY YieldedFacts
  <1>3. \A m, n \in 1..C : m < n => live[m] < live[n]
    BY <1>2, AscendingFacts
  <1>4. \A i \in Y : /\ insertions[i].key \in Keys
                     /\ Lookup(store, version, insertions[i].key) \in Values
    <2> TAKE i \in Y
    <2>1. insertions[i].key \in Keys
      BY <1>2, InsertionFacts
    <2>2. /\ Lookup(store, version, insertions[i].key) # MISSING
          /\ Lookup(store, version, insertions[i].key) \in Entries
      BY <1>2, LookupFacts DEF Yields, Sound
    <2> QED
      BY <2>1, <2>2 DEF Entries
  <1> HIDE DEF items, live, Y, C
  <1>5. \A n \in DOMAIN items :
          /\ items[n] = <<items[n][1], items[n][2]>>
          /\ items[n][1] \in Keys /\ items[n][2] \in Values
    BY <1>1, <1>4
  <1>6. ASSUME NEW m \in DOMAIN items, NEW n \in DOMAIN items, items[m][1] = items[n][1]
        PROVE  m = n
    <2>1. live[m] = live[n]
      <3>1. /\ live[m] \in Y /\ items[m][1] = insertions[live[m]].key
            /\ live[n] \in Y /\ items[n][1] = insertions[live[n]].key
        BY <1>1
      <3> QED
        BY <1>2, <1>6, <3>1
    <2>2. m \in 1..C /\ n \in 1..C /\ m \in Int /\ n \in Int
      BY <1>1
    <2>3. live[m] \in Nat
      BY <1>1, <1>2, <2>2
    <2>4. ~(m < n) /\ ~(n < m)
      <3>1. ~(live[m] < live[n]) /\ ~(live[n] < live[m])
        BY <2>1, <2>3
      <3> QED
        BY <1>3, <2>2, <3>1
    <2> QED
      BY <2>2, <2>4
  <1> QED
    BY <1>1, <1>5, <1>6 DEF AreItems, items

\* A store made of items holds them as they were.
LEMMA FreshStoreFacts ==
    ASSUME NEW items, AreItems(items), NEW store, store = FreshStore(items)
    PROVE  /\ Sound(store) /\ store.live_version = 0 /\ store.entries = Len(items)
           /\ Cardinality(Yielded(store, 0)) = Len(items)
           /\ ItemsAt(store, 0) = items
  <1> DEFINE N == Len(items)
             insertions == store.insertions
             chains == store.chains
             Made(key) == {i \in DOMAIN items : items[i][1] = key}
  <1>1. /\ N \in Nat /\ DOMAIN items = 1..N /\ IsFunction(items)
        /\ \A n \in 1..N : /\ items[n] = <<items[n][1], items[n][2]>>
                           /\ items[n][1] \in Keys /\ items[n][2] \in Values
        /\ \A m, n \in 1..N : items[m][1] = items[n][1] => m = n
    BY SequenceIsFunction DEF AreItems
  <1>0. /\ store.live_version = 0 /\ store.entries = N
        /\ DOMAIN store.reinsertions = {}
    BY DEF FreshStore
  <1>2. /\ insertions = [i \in DOMAIN items |-> [key |-> items[i][1], at |-> 0]]
        /\ chains = [k \in {items[i][1] : i \in DOMAIN items} |->
                        [v \in {0} |->
                            items[CHOOSE i \in DOMAIN items : items[i][1] = k][2]]]
    BY DEF FreshStore
  <1> HIDE DEF N, insertions, chains
  <1>3. /\ IsFunction(insertions) /\ DOMAIN insertions = 1..N
        /\ \A i \in 1..N : /\ insertions[i] = [key |-> items[i][1], at |-> 0]
                           /\ insertions[i].key = items[i][1] /\ insertions[i].at = 0
    BY <1>1, <1>2 DEF IsFunction
  <1>4. ASSUME NEW n \in 1..N
        PROVE  /\ items[n][1] \in DOMAIN chains
               /\ chains[items[n][1]] = [v \in {0} |-> items[n][2]]
    <2>1. (CHOOSE i \in DOMAIN items : items[i][1] = items[n][1]) = n
      BY <1>1
    <2> QED
      BY <1>1, <1>2, <2>1
  <1>5. /\ IsFunction(chains) /\ DOMAIN chains \subseteq Keys
        /\ \A k \in DOMAIN chains : \E n \in 1..N : k = items[n][1]
    <2>1. IsFunction(chains) /\ DOMAIN chains = {items[i][1] : i \in DOMAIN items}
      BY <1>2 DEF IsFunction
    <2>2. \A k \in DOMAIN chains : \E n \in 1..N : k = items[n][1]
      BY <1>1, <2>1
    <2> QED
      BY <1>1, <2>1, <2>2
  <1>6. ASSUME NEW n \in 1..N
        PROVE  /\ ChainOK(chains[items[n][1]], 0)
               /\ First(DOMAIN chains[items[n][1]]) = 0
               /\ Newest(DOMAIN chains[items[n][1]]) = 0
               /\ chains[items[n][1]][0] = items[n][2]
    <2> DEFINE chain == chains[items[n][1]]
    <2>1. IsFunction(chain) /\ DOMAIN chain = {0} /\ chain[0] = items[n][2]
      BY <1>4 DEF IsFunction
    <2> HIDE DEF chain
    <2>2. First(DOMAIN chain) = 0 /\ Newest(DOMAIN chain) = 0
      BY <2>1 DEF First, Newest
    <2>3. ChainOK(chain, 0)
      BY <1>1, <2>1 DEF ChainOK, Entries
    <2> QED
      BY <2>1, <2>2, <2>3 DEF chain
  <1>7. ChainsOK(chains, 0)
    BY <1>5, <1>6 DEF ChainsOK
  <1>8. InsertionsOK(insertions, chains, 0)
    <2>1. insertions \in Seq(Insertion)
      <3>1. \A i \in 1..N : insertions[i] \in Insertion
        BY <1>1, <1>3 DEF Insertion
      <3>2. insertions \in [1..N -> Insertion]
        BY <1>3, <3>1 DEF IsFunction
      <3> QED
        BY <1>1, <3>2, SeqDef
    <2>2. \A i \in DOMAIN insertions : insertions[i].at <= 0 /\ insertions[i].key \in DOMAIN chains
      BY <1>3, <1>4
    <2>3. \A i, j \in DOMAIN insertions : i < j =>
             /\ insertions[i].at <= insertions[j].at
             /\ insertions[i].key # insertions[j].key
      BY <1>1, <1>3
    <2> QED
      BY <2>1, <2>2, <2>3 DEF InsertionsOK
  <1>9. \A k \in DOMAIN chains : InsertedOnce(insertions, chains, k)
    <2> TAKE k \in DOMAIN chains
    <2>1. PICK n \in 1..N : k = items[n][1]
      BY <1>5
    <2>2. /\ n \in DOMAIN insertions /\ insertions[n].key = k
          /\ insertions[n].at = First(DOMAIN chains[k])
          /\ \A j \in DOMAIN insertions : insertions[j].key = k => j = n
      BY <1>1, <1>3, <1>6, <2>1
    <2> QED
      BY <2>2 DEF InsertedOnce
  <1>10. Sound(store)
    BY <1>0, <1>1, <1>7, <1>8, <1>9 DEF Sound, insertions, chains
  <1>11. \A n \in 1..N : Lookup(store, 0, items[n][1]) = items[n][2]
    <2> TAKE n \in 1..N
    <2>1. ChainsOK(store.chains, store.live_version) /\ items[n][1] \in DOMAIN store.chains
      BY <1>0, <1>4, <1>7 DEF chains
    <2>2. Lookup(store, 0, items[n][1]) = chains[items[n][1]][Newest(DOMAIN chains[items[n][1]])]
      BY <1>0, <2>1, LookupFacts DEF chains
    <2> QED
      BY <1>6, <2>2
  <1>12. Yielded(store, 0) = 1..N
    <2>1. \A i \in 1..N : Yields(store, 0, i)
      <3> TAKE i \in 1..N
      <3>1. Lookup(store, 0, items[i][1]) # MISSING
        BY <1>1, <1>11, MapAssumption
      <3>2. \A j \in 1..N : store.insertions[j].at = 0 /\ store.insertions[j].key = items[j][1]
        BY <1>3 DEF insertions
      <3>3. DOMAIN store.insertions = 1..N
        BY <1>3 DEF insertions
      <3> QED
        BY <3>1, <3>2, <3>3 DEF Yields, IsCurrent
    <2>2. DOMAIN store.insertions = 1..N
      BY <1>3 DEF insertions
    <2>3. \A i \in 1..N : i \in Yielded(store, 0)
      BY <1>10, <2>1, <2>2, YieldedFacts
    <2>4. \A i \in Yielded(store, 0) : i \in 1..N
      BY <1>10, <2>2, YieldedFacts
    <2> QED
      BY <2>3, <2>4
  <1>13. /\ Cardinality(Yielded(store, 0)) = N
         /\ \A i \in 1..N : Ascending(Yielded(store, 0))[i] = i
    BY <1>1, <1>12, AscendingInterval
  <1>14. ItemsAt(store, 0) = items
    <2> DEFINE same == ItemsAt(store, 0)
    <2>1. \A n \in 1..N : store.insertions[n].key = items[n][1]
      BY <1>3 DEF insertions
    <2>2. /\ IsSequence(same) /\ DOMAIN same = 1..N
          /\ \A n \in 1..N :
                LET i == Ascending(Yielded(store, 0))[n]
                    key == store.insertions[i].key
                IN  same[n] = <<key, Lookup(store, 0, key)>>
      <3> DEFINE C == Cardinality(Yielded(store, 0))
                 live == Ascending(Yielded(store, 0))
      <3>1. /\ IsSequence(same) /\ DOMAIN same = 1..C
            /\ \A n \in 1..C :
                  same[n] = <<store.insertions[live[n]].key,
                              Lookup(store, 0, store.insertions[live[n]].key)>>
        <4>1. Lists(same, store, 0, Yielded(store, 0), C)
          BY <1>10, ItemsFacts
        <4> HIDE DEF same, C
        <4> QED
          BY <4>1 DEF Lists
      <3> HIDE DEF same, live
      <3> QED
        BY <1>13, <3>1 DEF live
    <2>3. \A n \in 1..N : same[n] = <<items[n][1], items[n][2]>>
      BY <1>11, <1>13, <2>1, <2>2
    <2> HIDE DEF same
    <2>4. IsFunction(same)
      BY <2>2, SequenceIsFunction
    <2>5. same = items
      BY <1>1, <2>2, <2>3, <2>4, SameFunctions
    <2> QED
      BY <2>5 DEF same
  <1> QED
    BY <1>0, <1>10, <1>13, <1>14 DEF N

\* A _branch of the newest view, which reads no version, holds its items.
LEMMA RebasedFacts ==
    ASSUME NEW store, Sound(store)
    PROVE  RebasedItems(store) = ItemsAt(store, store.live_version)
  <1> DEFINE insertions == store.insertions
             live == store.live_version
             Last(key) == store.chains[key][Newest(DOMAIN store.chains[key])]
             Ends(i) == /\ insertions[i].key \in DOMAIN store.reinsertions =>
                              LET history == store.reinsertions[insertions[i].key]
                              IN  history[Len(history)] = insertions[i].at
                        /\ Last(insertions[i].key) # MISSING
  <1>1. /\ live \in Nat
        /\ \A i \in DOMAIN insertions : /\ insertions[i].key \in DOMAIN store.chains
                                        /\ insertions[i].at \in 0..live
    BY InsertionFacts
  <1>2. \A i \in DOMAIN insertions : Last(insertions[i].key) = Lookup(store, live, insertions[i].key)
    BY <1>1, LookupFacts DEF Sound
  <1>3. ASSUME NEW i \in DOMAIN insertions,
               insertions[i].key \in DOMAIN store.reinsertions
        PROVE  LET history == store.reinsertions[insertions[i].key]
               IN  history[Len(history)] = insertions[i].at <=> IsCurrent(store, live, i)
    <2> DEFINE key == insertions[i].key
               history == store.reinsertions[key]
               last == history[Len(history)]
    <2>1. HistoryOK(insertions, history, key)
      BY <1>3 DEF Sound
    <2>2. Len(history) \in DOMAIN history
      BY <2>1, SequenceIsFunction DEF HistoryOK
    <2> HIDE DEF history, key
    <2>3. PICK j \in DOMAIN insertions : insertions[j].key = key /\ insertions[j].at = last
      BY <2>1, <2>2 DEF HistoryOK
    <2>4. \A m \in DOMAIN insertions : insertions[m].key = key => insertions[m].at <= last
      BY <2>1 DEF HistoryOK
    <2>5. last \in 0..live /\ insertions[i].at \in 0..live /\ insertions[i].at <= last
      BY <1>1, <2>3, <2>4 DEF key
    <2>6. ASSUME last = insertions[i].at PROVE IsCurrent(store, live, i)
      BY <2>4, <2>6 DEF IsCurrent, key
    <2>7. ASSUME IsCurrent(store, live, i) PROVE last <= insertions[i].at
      BY <2>3, <2>5, <2>7 DEF IsCurrent, key
    <2>8. last = insertions[i].at <=> IsCurrent(store, live, i)
      BY <2>5, <2>6, <2>7
    <2> QED
      BY <2>8 DEF history, key
  <1>4. ASSUME NEW i \in DOMAIN insertions,
               insertions[i].key \notin DOMAIN store.reinsertions
        PROVE  IsCurrent(store, live, i)
    <2>1. InsertedOnce(insertions, store.chains, insertions[i].key)
      BY <1>1, <1>4 DEF Sound
    <2>2. \A j \in DOMAIN insertions : insertions[j].key = insertions[i].key => j = i
      BY <2>1 DEF InsertedOnce
    <2> QED
      BY <1>1, <2>2 DEF IsCurrent
  <1>5. \A i \in DOMAIN insertions : Ends(i) <=> Yields(store, live, i)
    BY <1>1, <1>2, <1>3, <1>4 DEF Yields
  <1>6. {i \in DOMAIN insertions : Ends(i)} = Yielded(store, live)
    BY <1>1, <1>5, YieldedFacts
  <1> DEFINE Y == {i \in DOMAIN insertions : Ends(i)}
             rebased == [n \in DOMAIN Ascending(Y) |->
                            <<insertions[Ascending(Y)[n]].key, Last(insertions[Ascending(Y)[n]].key)>>]
  <1>7. RebasedItems(store) = rebased
    BY DEF RebasedItems
  <1> HIDE DEF Last, Ends
  <1>8. /\ DOMAIN Ascending(Y) = 1..Cardinality(Y)
        /\ \A n \in 1..Cardinality(Y) : Ascending(Y)[n] \in DOMAIN insertions
    <2>1. IsFiniteSet(Yielded(store, live)) /\ Yielded(store, live) \subseteq Nat
      BY <1>1, YieldedFacts
    <2>2. IsFiniteSet(Y) /\ Y \subseteq Nat
      BY <1>6, <2>1
    <2>3. Y \subseteq DOMAIN insertions
      OBVIOUS
    <2> HIDE DEF Y
    <2> QED
      BY <2>2, <2>3, AscendingFacts
  <1>9. Y = Yielded(store, live)
    BY <1>6
  <1> HIDE DEF Y
  <1>10. /\ IsFunction(rebased) /\ DOMAIN rebased = DOMAIN Ascending(Y)
         /\ \A n \in DOMAIN rebased :
               rebased[n] = <<insertions[Ascending(Y)[n]].key,
                              Lookup(store, live, insertions[Ascending(Y)[n]].key)>>
    BY <1>2, <1>8 DEF IsFunction
  <1> HIDE DEF rebased
  <1>11. PICK items : items = ItemsAt(store, live)
    OBVIOUS
  <1>12. /\ IsSequence(items) /\ DOMAIN items = 1..Cardinality(Y)
         /\ \A n \in 1..Cardinality(Y) :
               items[n] = <<insertions[Ascending(Y)[n]].key,
                            Lookup(store, live, insertions[Ascending(Y)[n]].key)>>
    <2>1. Lists(items, store, live, Y, Cardinality(Y))
      BY <1>1, <1>9, <1>11, ItemsFacts
    <2> HIDE DEF insertions, live
    <2> QED
      BY <2>1 DEF Lists, insertions
  <1>13. rebased = items
    BY <1>8, <1>10, <1>12, SequenceIsFunction, SameFunctions
  <1> QED
    BY <1>7, <1>11, <1>13

-----------------------------------------------------------------------------
(* Writes to a store *)

\* A write to a key the store holds, or its deletion.
Keeps(written, store) ==
    written.insertions = store.insertions /\ written.reinsertions = store.reinsertions

\* A write to a key the store does not hold.
Inserts(written, store, key) ==
    /\ written.insertions
           = Append(store.insertions, [key |-> key, at |-> store.live_version + 1])
    /\ written.reinsertions =
           IF key \in DOMAIN store.chains
           THEN MapSet(store.reinsertions, key,
                    IF key \in DOMAIN store.reinsertions
                    THEN Append(store.reinsertions[key], store.live_version + 1)
                    ELSE <<First(DOMAIN store.chains[key]), store.live_version + 1>>)
           ELSE store.reinsertions

LEMMA SetIs ==
    ASSUME NEW store, NEW key, NEW value, NEW written,
           written = StoreWith(store, store.live_version + 1, key, value)
    PROVE  /\ Adds(written, store, key, value)
           /\ IF Holds(store, key) THEN Keeps(written, store) ELSE Inserts(written, store, key)
  <1>1. Adds(written, store, key, value)
    BY DEF StoreWith, Adds
  <1>2. CASE Holds(store, key)
    BY <1>1, <1>2 DEF StoreWith, Keeps
  <1>3. CASE ~Holds(store, key)
    BY <1>1, <1>3 DEF StoreWith, Inserts
  <1> QED
    BY <1>1, <1>2, <1>3

LEMMA DeleteIs ==
    ASSUME NEW store, NEW key, Holds(store, key), NEW written,
           written = StoreWithout(store, store.live_version + 1, key)
    PROVE  Adds(written, store, key, MISSING) /\ Keeps(written, store)
  BY DEF StoreWithout, Adds, Keeps, Holds

LEMMA KeepingIsSound ==
    ASSUME NEW store, Sound(store), NEW key \in DOMAIN store.chains,
           NEW value \in Entries,
           NEW written, Adds(written, store, key, value), Keeps(written, store)
    PROVE  Sound(written)
  <1> DEFINE insertions == store.insertions
             live == store.live_version
             chains == store.chains
             after == written.chains
  <1>1. /\ live \in Nat /\ store.entries \in Nat /\ ChainsOK(chains, live)
        /\ InsertionsOK(insertions, chains, live)
        /\ \A k \in DOMAIN chains : k \notin DOMAIN store.reinsertions =>
              InsertedOnce(insertions, chains, k)
        /\ DOMAIN store.reinsertions \subseteq DOMAIN chains
        /\ \A k \in DOMAIN store.reinsertions :
              HistoryOK(insertions, store.reinsertions[k], k)
    BY DEF Sound
  <1>2. /\ written.live_version = live + 1 /\ written.entries = store.entries + 1
        /\ written.insertions = insertions /\ written.reinsertions = store.reinsertions
    BY DEF Adds, Keeps
  <1>3. key \in Keys
    BY <1>1 DEF ChainsOK
  <1>4. /\ ChainsOK(after, live + 1) /\ DOMAIN after = DOMAIN chains
        /\ \A k \in DOMAIN chains : First(DOMAIN after[k]) = First(DOMAIN chains[k])
    <2>1. /\ ChainsOK(after, written.live_version) /\ DOMAIN after = DOMAIN chains \cup {key}
          /\ \A k \in DOMAIN chains : First(DOMAIN after[k]) = First(DOMAIN chains[k])
      BY <1>3, ChainsWritten
    <2> QED
      BY <1>2, <2>1
  <1> HIDE DEF insertions, live, chains, after
  <1>5. InsertionsOK(insertions, after, live + 1)
    <2>1. \A i \in DOMAIN insertions : insertions[i].at <= live + 1
      <3> TAKE i \in DOMAIN insertions
      <3>1. insertions[i].at <= live /\ insertions[i].at \in Nat
        BY InsertionFacts DEF insertions, live
      <3> QED
        BY <1>1, <3>1
    <2> QED
      BY <1>1, <1>4, <2>1 DEF InsertionsOK
  <1>6. \A k \in DOMAIN after : k \notin DOMAIN store.reinsertions =>
           InsertedOnce(insertions, after, k)
    BY <1>1, <1>4 DEF InsertedOnce
  <1> QED
    BY <1>1, <1>2, <1>4, <1>5, <1>6 DEF Sound, insertions, after, chains

\* One more insertion, after all others.
Follows(longer, insertions, key, at) ==
    /\ DOMAIN longer = DOMAIN insertions \cup {Len(insertions) + 1}
    /\ Len(insertions) + 1 \notin DOMAIN insertions
    /\ \A i \in DOMAIN insertions : longer[i] = insertions[i]
    /\ longer[Len(insertions) + 1].key = key /\ longer[Len(insertions) + 1].at = at

LEMMA HistoryKept ==
    ASSUME NEW insertions, NEW longer, NEW key, NEW at, Follows(longer, insertions, key, at),
           NEW k, k # key, NEW history, HistoryOK(insertions, history, k)
    PROVE  HistoryOK(longer, history, k)
  BY DEF HistoryOK, Follows

LEMMA HistoryGrows ==
    ASSUME NEW insertions, NEW longer, NEW key, NEW at \in Nat,
           Follows(longer, insertions, key, at),
           \A i \in DOMAIN insertions : insertions[i].at \in Nat /\ insertions[i].at < at,
           NEW history, HistoryOK(insertions, history, key),
           NEW grown, grown = Append(history, at)
    PROVE  HistoryOK(longer, grown, key)
  <1>1. /\ IsSequence(grown) /\ Len(history) \in Nat /\ Len(grown) = Len(history) + 1
        /\ DOMAIN history = 1..Len(history) /\ DOMAIN grown = 1..(Len(history) + 1)
        /\ \A n \in DOMAIN history : grown[n] = history[n]
        /\ grown[Len(history) + 1] = at
    BY AppendFacts DEF HistoryOK
  <1>2. Len(grown) # 0 /\ grown[Len(grown)] = at
    BY <1>1
  <1>3. \A n \in DOMAIN grown : \E i \in DOMAIN longer :
           longer[i].key = key /\ longer[i].at = grown[n]
    <2> TAKE n \in DOMAIN grown
    <2>1. CASE n \in DOMAIN history
      <3>1. PICK i \in DOMAIN insertions : insertions[i].key = key /\ insertions[i].at = history[n]
        BY <2>1 DEF HistoryOK
      <3>2. i \in DOMAIN longer /\ longer[i] = insertions[i] /\ grown[n] = history[n]
        BY <1>1, <2>1 DEF Follows
      <3> QED
        BY <3>1, <3>2
    <2>2. CASE n \notin DOMAIN history
      <3>1. n = Len(history) + 1
        BY <1>1, <2>2
      <3> QED
        BY <1>1, <3>1 DEF Follows
    <2> QED
      BY <2>1, <2>2
  <1>4. ASSUME NEW i \in DOMAIN longer, longer[i].key = key
        PROVE  longer[i].at <= at /\ \E n \in DOMAIN grown : grown[n] = longer[i].at
    <2>1. CASE i \in DOMAIN insertions
      <3>1. insertions[i] = longer[i]
        BY <2>1 DEF Follows
      <3>2. PICK n \in DOMAIN history : history[n] = insertions[i].at
        BY <1>4, <2>1, <3>1 DEF HistoryOK
      <3>3. n \in DOMAIN grown /\ grown[n] = longer[i].at
        BY <1>1, <3>1, <3>2
      <3>4. longer[i].at <= at
        BY <2>1, <3>1
      <3> QED
        BY <3>3, <3>4
    <2>2. CASE i \notin DOMAIN insertions
      <3>1. longer[i].at = at
        BY <2>2 DEF Follows
      <3>2. Len(history) + 1 \in DOMAIN grown
        BY <1>1
      <3> QED
        BY <1>1, <3>1, <3>2
    <2> QED
      BY <2>1, <2>2
  <1> QED
    BY <1>1, <1>2, <1>3, <1>4 DEF HistoryOK

LEMMA HistoryBegins ==
    ASSUME NEW insertions, NEW longer, NEW key, NEW at \in Nat,
           Follows(longer, insertions, key, at),
           \A i \in DOMAIN insertions : insertions[i].at \in Nat /\ insertions[i].at < at,
           NEW chains, InsertedOnce(insertions, chains, key),
           NEW history, history = <<First(DOMAIN chains[key]), at>>
    PROVE  HistoryOK(longer, history, key)
  <1>1. PICK i \in DOMAIN insertions :
           /\ insertions[i].key = key /\ insertions[i].at = First(DOMAIN chains[key])
           /\ \A j \in DOMAIN insertions : insertions[j].key = key => j = i
    BY DEF InsertedOnce
  <1> DEFINE first == First(DOMAIN chains[key])
             last  == Len(insertions) + 1
  <1>2. history \in Seq({first, at}) /\ Len(history) = 2 /\ DOMAIN history = {1, 2}
        /\ history[1] = first /\ history[2] = at
    OBVIOUS
  <1> HIDE DEF first
  <1>3. IsSequence(history)
    BY <1>2, SequenceFacts
  <1>4. /\ i \in DOMAIN longer /\ longer[i].key = key /\ longer[i].at = first
        /\ last \in DOMAIN longer /\ longer[last].key = key /\ longer[last].at = at
        /\ first \in Nat /\ first < at
    BY <1>1 DEF Follows, first
  <1>5. \A j \in DOMAIN longer : longer[j].key = key => j = i \/ j = last
    BY <1>1 DEF Follows
  <1> HIDE DEF last
  <1>6. \A j \in DOMAIN longer : longer[j].key = key => longer[j].at = first \/ longer[j].at = at
    BY <1>4, <1>5
  <1>7. \A n \in DOMAIN history : \E j \in DOMAIN longer :
           longer[j].key = key /\ longer[j].at = history[n]
    BY <1>2, <1>4
  <1>8. \A j \in DOMAIN longer : longer[j].key = key =>
           longer[j].at <= at /\ \E n \in DOMAIN history : history[n] = longer[j].at
    BY <1>2, <1>4, <1>6
  <1> QED
    BY <1>2, <1>3, <1>7, <1>8 DEF HistoryOK

LEMMA InsertingIsSound ==
    ASSUME NEW store, Sound(store), NEW key \in Keys, NEW value \in Entries,
           NEW written, Adds(written, store, key, value), Inserts(written, store, key)
    PROVE  /\ Sound(written)
           /\ Follows(written.insertions, store.insertions, key, store.live_version + 1)
  <1> DEFINE insertions == store.insertions
             longer == written.insertions
             live == store.live_version
             chains == store.chains
             after == written.chains
             histories == store.reinsertions
             updated == written.reinsertions
             new == [key |-> key, at |-> live + 1]
  <1>1. /\ live \in Nat /\ store.entries \in Nat /\ ChainsOK(chains, live)
        /\ InsertionsOK(insertions, chains, live)
        /\ \A k \in DOMAIN chains : k \notin DOMAIN histories =>
              InsertedOnce(insertions, chains, k)
        /\ DOMAIN histories \subseteq DOMAIN chains
        /\ \A k \in DOMAIN histories : HistoryOK(insertions, histories[k], k)
    BY DEF Sound
  <1>2. /\ written.live_version = live + 1 /\ written.entries = store.entries + 1
        /\ longer = Append(insertions, new)
    BY DEF Adds, Inserts
  <1>3. /\ DOMAIN updated = IF key \in DOMAIN chains THEN DOMAIN histories \cup {key}
                                                    ELSE DOMAIN histories
        /\ \A k \in DOMAIN histories : k # key => updated[k] = histories[k]
        /\ key \in DOMAIN chains =>
              updated[key] = IF key \in DOMAIN histories
                             THEN Append(histories[key], live + 1)
                             ELSE <<First(DOMAIN chains[key]), live + 1>>
    <2>1. CASE key \in DOMAIN chains
      BY <2>1 DEF Inserts, MapSet
    <2>2. CASE key \notin DOMAIN chains
      BY <2>2 DEF Inserts
    <2> QED
      BY <2>1, <2>2
  <1>4. /\ ChainsOK(after, written.live_version) /\ DOMAIN after = DOMAIN chains \cup {key}
        /\ \A k \in DOMAIN chains : First(DOMAIN after[k]) = First(DOMAIN chains[k])
        /\ key \notin DOMAIN chains => First(DOMAIN after[key]) = live + 1
    BY ChainsWritten
  <1>5. /\ IsSequence(insertions) /\ DOMAIN insertions = 1..Len(insertions)
        /\ Len(insertions) \in Nat
        /\ \A i \in DOMAIN insertions :
              /\ insertions[i].key \in DOMAIN chains
              /\ insertions[i].at \in Nat /\ insertions[i].at < live + 1
    <2>1. \A i \in DOMAIN insertions : insertions[i].at \in 0..live
      BY InsertionFacts
    <2> QED
      BY <1>1, <2>1, InsertionFacts
  <1> HIDE DEF insertions, longer, live, chains, after, histories, updated
  <1>6. longer \in Seq(Insertion) /\ Follows(longer, insertions, key, live + 1)
    <2>1. new \in Insertion /\ new.key = key /\ new.at = live + 1
      BY <1>1 DEF Insertion
    <2>2. longer \in Seq(Insertion)
      BY <1>1, <1>2, <2>1 DEF InsertionsOK
    <2>3. /\ DOMAIN longer = 1..(Len(insertions) + 1)
          /\ \A i \in DOMAIN insertions : longer[i] = insertions[i]
          /\ longer[Len(insertions) + 1] = new
      BY <1>2, <1>5, AppendFacts
    <2> HIDE DEF new
    <2>4. /\ DOMAIN longer = DOMAIN insertions \cup {Len(insertions) + 1}
          /\ Len(insertions) + 1 \notin DOMAIN insertions
      BY <1>5, <2>3
    <2> QED
      BY <2>1, <2>2, <2>3, <2>4 DEF Follows
  <1> HIDE DEF new
  <1>7. InsertionsOK(longer, after, live + 1)
    <2> DEFINE last == Len(insertions) + 1
    <2>1. /\ DOMAIN longer = DOMAIN insertions \cup {last}
          /\ \A i \in DOMAIN insertions : longer[i] = insertions[i]
          /\ longer[last].key = key /\ longer[last].at = live + 1
          /\ \A i \in DOMAIN insertions : i \in Nat /\ i < last
          /\ last \in Nat
      BY <1>5, <1>6 DEF Follows
    <2> HIDE DEF last
    <2>2. \A i \in DOMAIN longer : longer[i].at <= live + 1 /\ longer[i].key \in DOMAIN after
      BY <1>1, <1>4, <1>5, <2>1
    <2>3. ASSUME NEW i \in DOMAIN longer, NEW j \in DOMAIN longer, i < j
          PROVE  /\ longer[i].at <= longer[j].at
                 /\ longer[i].key = longer[j].key => longer[i].at < longer[j].at
      <3>1. i \in DOMAIN insertions
        BY <2>1, <2>3
      <3>2. CASE j = last
        BY <1>1, <1>5, <2>1, <3>1, <3>2
      <3>3. CASE j \in DOMAIN insertions
        BY <1>1, <2>1, <2>3, <3>1, <3>3 DEF InsertionsOK
      <3> QED
        BY <2>1, <3>2, <3>3
    <2> QED
      BY <1>6, <2>2, <2>3 DEF InsertionsOK
  <1>8. ASSUME NEW k \in DOMAIN after, k \notin DOMAIN updated
        PROVE  InsertedOnce(longer, after, k)
    <2>1. CASE k = key
      <3>1. key \notin DOMAIN chains
        BY <1>3, <1>8, <2>1
      <3>2. \A i \in DOMAIN insertions : insertions[i].key # key
        BY <1>5, <3>1
      <3> QED
        BY <1>4, <1>6, <2>1, <3>1, <3>2 DEF InsertedOnce, Follows
    <2>2. CASE k # key
      <3>1. k \in DOMAIN chains /\ k \notin DOMAIN histories
        BY <1>3, <1>4, <1>8, <2>2
      <3>2. InsertedOnce(insertions, chains, k)
        BY <1>1, <3>1
      <3> QED
        BY <1>4, <1>6, <2>2, <3>1, <3>2 DEF InsertedOnce, Follows
    <2> QED
      BY <2>1, <2>2
  <1>9. ASSUME NEW k \in DOMAIN updated
        PROVE  HistoryOK(longer, updated[k], k)
    <2>1. CASE k # key
      <3>1. k \in DOMAIN histories /\ updated[k] = histories[k]
        BY <1>3, <2>1
      <3>2. HistoryOK(insertions, histories[k], k)
        BY <1>1, <3>1
      <3> QED
        BY <1>6, <2>1, <3>1, <3>2, HistoryKept
    <2>2. CASE k = key
      <3>1. key \in DOMAIN chains /\ live + 1 \in Nat
        BY <1>1, <1>3, <2>2
      <3>2. CASE key \in DOMAIN histories
        <4>1. HistoryOK(insertions, histories[key], key)
              /\ updated[key] = Append(histories[key], live + 1)
          BY <1>1, <1>3, <3>1, <3>2
        <4> QED
          BY <1>5, <1>6, <2>2, <3>1, <4>1, HistoryGrows
      <3>3. CASE key \notin DOMAIN histories
        <4>1. InsertedOnce(insertions, chains, key)
              /\ updated[key] = <<First(DOMAIN chains[key]), live + 1>>
          BY <1>1, <1>3, <3>1, <3>3
        <4> QED
          BY <1>5, <1>6, <2>2, <3>1, <4>1, HistoryBegins
      <3> QED
        BY <3>2, <3>3
    <2> QED
      BY <2>1, <2>2
  <1>10. DOMAIN updated \subseteq DOMAIN after
    BY <1>1, <1>3, <1>4
  <1> QED
    BY <1>1, <1>2, <1>4, <1>6, <1>7, <1>8, <1>9, <1>10
       DEF Sound, longer, after, updated, insertions, live

\* The insertions of the store stay where they are; any other is of the written
\* key, under the version of the write.
Extends(written, store, key) ==
    /\ DOMAIN store.insertions \subseteq DOMAIN written.insertions
    /\ \A i \in DOMAIN store.insertions : written.insertions[i] = store.insertions[i]
    /\ \A i \in DOMAIN written.insertions :
          i \in DOMAIN store.insertions
          \/ /\ written.insertions[i].at = store.live_version + 1
             /\ written.insertions[i].key = key

\* A write leaves what a store yields at every version up to the live one.
LEMMA OldVersions ==
    ASSUME NEW store, Sound(store), NEW key \in Keys, NEW value \in Entries,
           NEW written, Sound(written), Adds(written, store, key, value), Extends(written, store, key),
           NEW version \in 0..store.live_version
    PROVE  /\ Yielded(written, version) = Yielded(store, version)
           /\ ItemsAt(written, version) = ItemsAt(store, version)
  <1> DEFINE insertions == store.insertions
             longer == written.insertions
             live == store.live_version
  <1>1. /\ live \in Nat /\ version \in Nat /\ version <= live
        /\ \A i \in DOMAIN insertions : insertions[i].at \in Nat
        /\ \A i \in DOMAIN longer : longer[i].at \in Nat
    BY InsertionFacts
  <1>2. /\ DOMAIN insertions \subseteq DOMAIN longer
        /\ \A i \in DOMAIN insertions : longer[i] = insertions[i]
        /\ \A i \in DOMAIN longer : i \in DOMAIN insertions \/ longer[i].at = live + 1
    BY DEF Extends
  <1>3. \A i \in DOMAIN longer : longer[i].at <= version => i \in DOMAIN insertions
    BY <1>1, <1>2
  <1>4. \A k : Lookup(written, version, k) = Lookup(store, version, k)
    BY ReadsOfWrite
  <1>5. \A i \in DOMAIN insertions : Yields(written, version, i) <=> Yields(store, version, i)
    <2> TAKE i \in DOMAIN insertions
    <2>1. IsCurrent(written, version, i) <=> IsCurrent(store, version, i)
      BY <1>2, <1>3 DEF IsCurrent
    <2> QED
      BY <1>2, <1>4, <2>1 DEF Yields
  <1>6. \A i \in DOMAIN longer : Yields(written, version, i) => i \in DOMAIN insertions
    BY <1>3 DEF Yields
  <1>7. Yielded(written, version) = Yielded(store, version)
    <2>1. \A i : i \in Yielded(written, version) <=>
                    i \in DOMAIN longer /\ Yields(written, version, i)
      BY <1>1, YieldedFacts
    <2>2. \A i : i \in Yielded(store, version) <=>
                    i \in DOMAIN insertions /\ Yields(store, version, i)
      BY <1>1, YieldedFacts
    <2>3. \A i : i \in Yielded(written, version) <=> i \in Yielded(store, version)
      BY <1>2, <1>5, <1>6, <2>1, <2>2
    <2> QED
      BY <2>3
  <1> DEFINE Y == Yielded(store, version)
             order == Ascending(Y)
             C == Cardinality(Y)
             before == ItemsAt(store, version)
             now == ItemsAt(written, version)
  <1>8. /\ IsSequence(before) /\ DOMAIN before = 1..C
        /\ \A n \in 1..C : /\ order[n] \in Y
                           /\ before[n] = <<insertions[order[n]].key,
                                            Lookup(store, version, insertions[order[n]].key)>>
    <2>1. Lists(before, store, version, Y, C)
      BY <1>1, ItemsFacts
    <2> HIDE DEF before, Y, C
    <2> QED
      BY <2>1 DEF Lists
  <1>9. /\ IsSequence(now) /\ DOMAIN now = 1..C
        /\ \A n \in 1..C : now[n] = <<longer[order[n]].key,
                                      Lookup(written, version, longer[order[n]].key)>>
    <2>1. Lists(now, written, version, Y, C)
      BY <1>1, <1>7, ItemsFacts
    <2> HIDE DEF now, Y, C
    <2> QED
      BY <2>1 DEF Lists
  <1>10. \A i \in Y : i \in DOMAIN insertions
    BY <1>1, YieldedFacts
  <1> HIDE DEF Y, order, C, before, now
  <1>11. now = before
    <2>1. \A n \in 1..C : now[n] = before[n]
      BY <1>2, <1>4, <1>8, <1>9, <1>10
    <2> QED
      BY <1>8, <1>9, <2>1, SequenceIsFunction, SameFunctions
  <1> QED
    BY <1>7, <1>11 DEF now, before

\* At its own version a write leaves what is yielded of every other key.
LEMMA OthersYield ==
    ASSUME NEW store, Sound(store), NEW key \in Keys, NEW value \in Entries,
           NEW written, Sound(written), Adds(written, store, key, value),
           Extends(written, store, key)
    PROVE  \A i \in DOMAIN store.insertions : store.insertions[i].key # key =>
              (i \in Yielded(written, store.live_version + 1)
               <=> i \in Yielded(store, store.live_version))
  <1>0. ASSUME NEW k
        PROVE  Lookup(written, store.live_version + 1, k)
                   = IF k = key THEN value ELSE Lookup(store, store.live_version, k)
    BY ReadsOfWrite
  <1> DEFINE insertions == store.insertions
             longer == written.insertions
             live == store.live_version
  <1>1. /\ live \in Nat /\ live + 1 \in Nat
        /\ \A j \in DOMAIN insertions : insertions[j].at \in Nat /\ insertions[j].at <= live
    BY InsertionFacts
  <1>2. /\ DOMAIN insertions \subseteq DOMAIN longer
        /\ \A j \in DOMAIN insertions : longer[j] = insertions[j]
        /\ \A j \in DOMAIN longer : j \in DOMAIN insertions \/ longer[j].key = key
    BY DEF Extends
  <1>3. ASSUME NEW i \in DOMAIN insertions, insertions[i].key # key
        PROVE  Yields(written, live + 1, i) <=> Yields(store, live, i)
    <2>1. Lookup(written, live + 1, insertions[i].key) = Lookup(store, live, insertions[i].key)
      BY <1>0, <1>3
    <2>2. \A j \in DOMAIN insertions : insertions[j].at <= live /\ insertions[j].at <= live + 1
      BY <1>1
    <2>3. IsCurrent(written, live + 1, i) <=> IsCurrent(store, live, i)
      BY <1>2, <1>3, <2>2 DEF IsCurrent
    <2> QED
      BY <1>2, <2>1, <2>2, <2>3 DEF Yields
  <1>4. \A i \in DOMAIN insertions :
           /\ i \in Yielded(written, live + 1) <=> Yields(written, live + 1, i)
           /\ i \in Yielded(store, live) <=> Yields(store, live, i)
    BY <1>1, <1>2, YieldedFacts
  <1> QED
    BY <1>3, <1>4

\* The items of a store's live version have the keys it holds.
LEMMA HeldInItems ==
    ASSUME NEW store, Sound(store), NEW items, items = ItemsAt(store, store.live_version),
           NEW key
    PROVE  /\ Maps!Holds(items, key) <=> Holds(store, key)
           /\ Holds(store, key) => Len(items) # 0
  <1> DEFINE insertions == store.insertions
             live == store.live_version
             Y == Yielded(store, live)
             C == Cardinality(Y)
             order == Ascending(Y)
  <1>1. live \in Nat
    BY InsertionFacts
  <1>2. /\ DOMAIN items = 1..C /\ Len(items) = C /\ C \in Nat
        /\ \A n \in 1..C : /\ order[n] \in Y
                           /\ items[n] = <<insertions[order[n]].key,
                                           Lookup(store, live, insertions[order[n]].key)>>
        /\ \A i \in Y : \E n \in 1..C : order[n] = i
    <2>1. Lists(items, store, live, Y, C)
      BY <1>1, ItemsFacts
    <2> HIDE DEF Y, C, live
    <2> QED
      BY <2>1 DEF Lists
  <1>3. \A i \in Y : Lookup(store, live, insertions[i].key) # MISSING
    BY <1>1, YieldedFacts DEF Yields
  <1>4. ASSUME Holds(store, key) PROVE \E n \in 1..C : insertions[order[n]].key = key
    <2>1. PICK i \in Y : insertions[i].key = key
      BY <1>4, HeldIsYielded, HoldsFacts
    <2> QED
      BY <1>2, <2>1
  <1> HIDE DEF Y, C, order
  <1>5. ASSUME Maps!Holds(items, key) PROVE Holds(store, key)
    <2>1. PICK n \in 1..C : items[n][1] = key
      BY <1>2, <1>5 DEF Maps!Holds
    <2>2. order[n] \in Y /\ insertions[order[n]].key = key
      BY <1>2, <2>1
    <2> QED
      BY <1>3, <2>2, HoldsFacts
  <1>6. ASSUME Holds(store, key) PROVE Maps!Holds(items, key) /\ Len(items) # 0
    BY <1>2, <1>4, <1>6 DEF Maps!Holds
  <1> QED
    BY <1>5, <1>6

\* A write to a key the store holds: its item has the new value, in its place.
LEMMA Rewritten ==
    ASSUME NEW store, Sound(store), NEW key \in Keys, NEW value \in Values,
           NEW written, Sound(written), Adds(written, store, key, value),
           Holds(store, key), Keeps(written, store)
    PROVE  /\ Cardinality(Yielded(written, store.live_version + 1))
                  = Cardinality(Yielded(store, store.live_version))
           /\ ItemsAt(written, store.live_version + 1)
                  = Maps!With(ItemsAt(store, store.live_version), key, value)
  <1> DEFINE insertions == store.insertions
             live == store.live_version
             Y == Yielded(store, live)
             C == Cardinality(Y)
             order == Ascending(Y)
             before == ItemsAt(store, live)
             now == ItemsAt(written, live + 1)
  <1>1. /\ live \in Nat /\ live + 1 \in Nat
        /\ \A i \in DOMAIN insertions : insertions[i].at \in Nat /\ insertions[i].at <= live
    BY InsertionFacts
  <1>2. value # MISSING /\ value \in Entries
    BY MapAssumption DEF Entries
  <1>3. /\ written.insertions = insertions
        /\ \A k : Lookup(written, live + 1, k) = IF k = key THEN value ELSE Lookup(store, live, k)
    BY <1>2, ReadsOfWrite DEF Keeps
  <1>4. Lookup(store, live, key) # MISSING
    BY HoldsFacts
  <1>5. \A i \in DOMAIN insertions : Yields(written, live + 1, i) <=> Yields(store, live, i)
    <2> TAKE i \in DOMAIN insertions
    <2>1. \A j \in DOMAIN insertions : insertions[j].at <= live /\ insertions[j].at <= live + 1
      BY <1>1
    <2>2. IsCurrent(written, live + 1, i) <=> IsCurrent(store, live, i)
      BY <1>3, <2>1 DEF IsCurrent
    <2> QED
      BY <1>2, <1>3, <1>4, <2>1, <2>2 DEF Yields
  <1>6. Yielded(written, live + 1) = Y
    <2>1. \A i : i \in Yielded(written, live + 1) <=>
                    i \in DOMAIN insertions /\ Yields(written, live + 1, i)
      BY <1>1, <1>3, YieldedFacts
    <2>2. \A i : i \in Y <=> i \in DOMAIN insertions /\ Yields(store, live, i)
      BY <1>1, YieldedFacts
    <2>3. \A i : i \in Yielded(written, live + 1) <=> i \in Y
      BY <1>5, <2>1, <2>2
    <2> QED
      BY <2>3
  <1>7. /\ IsSequence(before) /\ DOMAIN before = 1..C
        /\ \A n \in 1..C : before[n] = <<insertions[order[n]].key,
                                         Lookup(store, live, insertions[order[n]].key)>>
    <2>1. Lists(before, store, live, Y, C)
      BY <1>1, ItemsFacts
    <2> HIDE DEF before, Y, C, live
    <2> QED
      BY <2>1 DEF Lists
  <1>8. /\ IsSequence(now) /\ DOMAIN now = 1..C
        /\ \A n \in 1..C : now[n] = <<insertions[order[n]].key,
                                      Lookup(written, live + 1, insertions[order[n]].key)>>
    <2>1. Lists(now, written, live + 1, Y, C)
      BY <1>1, <1>6, ItemsFacts
    <2> HIDE DEF now, Y, C, live
    <2> QED
      BY <1>3, <2>1 DEF Lists
  <1>9. Maps!Holds(before, key)
    BY HeldInItems
  <1> HIDE DEF Y, C, order, before, now
  <1>10. PICK with : with = [n \in DOMAIN before |->
                                IF before[n][1] = key THEN <<key, value>> ELSE before[n]]
    OBVIOUS
  <1>11. with = Maps!With(before, key, value)
    BY <1>9, <1>10 DEF Maps!With
  <1>12. IsFunction(with) /\ DOMAIN with = 1..C /\ \A n \in 1..C : with[n] = now[n]
    <2>1. IsFunction(with) /\ DOMAIN with = 1..C
      BY <1>7, <1>10 DEF IsFunction
    <2>2. \A n \in 1..C : with[n] = IF before[n][1] = key THEN <<key, value>> ELSE before[n]
      BY <1>7, <1>10
    <2>3. \A n \in 1..C : with[n] = now[n]
      BY <1>3, <1>7, <1>8, <2>2
    <2> QED
      BY <2>1, <2>3
  <1>13. with = now
    BY <1>8, <1>12, SequenceIsFunction, SameFunctions
  <1> QED
    BY <1>6, <1>11, <1>13 DEF now, before, Y

\* A write to a key the store does not hold: one more item, the last.
LEMMA Inserted ==
    ASSUME NEW store, Sound(store), NEW key \in Keys, NEW value \in Values,
           NEW written, Sound(written), Adds(written, store, key, value),
           ~Holds(store, key),
           Follows(written.insertions, store.insertions, key, store.live_version + 1)
    PROVE  /\ Extends(written, store, key)
           /\ Cardinality(Yielded(written, store.live_version + 1))
                  = Cardinality(Yielded(store, store.live_version)) + 1
           /\ ItemsAt(written, store.live_version + 1)
                  = Maps!With(ItemsAt(store, store.live_version), key, value)
  <1> DEFINE insertions == store.insertions
             longer == written.insertions
             last == Len(insertions) + 1
             live == store.live_version
             Y == Yielded(store, live)
             Z == Yielded(written, live + 1)
             C == Cardinality(Y)
             before == ItemsAt(store, live)
             now == ItemsAt(written, live + 1)
  <1>1. /\ live \in Nat /\ live + 1 \in Nat /\ last \in Nat
        /\ DOMAIN insertions = 1..Len(insertions)
        /\ \A i \in DOMAIN insertions :
              insertions[i].at \in Nat /\ insertions[i].at < live + 1 /\ i < last /\ i \in Nat
    <2>1. /\ \A i \in DOMAIN insertions : insertions[i].at \in 0..live
          /\ live \in Nat /\ Len(insertions) \in Nat /\ DOMAIN insertions = 1..Len(insertions)
      BY InsertionFacts
    <2> QED
      BY <2>1
  <1>2. /\ DOMAIN longer = DOMAIN insertions \cup {last} /\ last \notin DOMAIN insertions
        /\ \A i \in DOMAIN insertions : longer[i] = insertions[i]
        /\ longer[last].key = key /\ longer[last].at = live + 1
    BY DEF Follows
  <1>3. Extends(written, store, key)
    BY <1>2 DEF Extends
  <1>4. value # MISSING /\ value \in Entries
    BY MapAssumption DEF Entries
  <1>5. \A k : Lookup(written, live + 1, k) = IF k = key THEN value ELSE Lookup(store, live, k)
    BY <1>4, ReadsOfWrite
  <1>6. Lookup(store, live, key) = MISSING
    BY HoldsFacts
  <1>7. /\ \A i : i \in Y <=> i \in DOMAIN insertions /\ Yields(store, live, i)
        /\ Y \subseteq Nat /\ IsFiniteSet(Y)
    BY <1>1, YieldedFacts
  <1>8. \A i : i \in Z <=> i \in DOMAIN longer /\ Yields(written, live + 1, i)
    BY <1>1, YieldedFacts
  <1>9. \A i \in DOMAIN insertions : insertions[i].key # key => (i \in Z <=> i \in Y)
    BY <1>3, <1>4, OthersYield
  <1>10. \A i \in Y : insertions[i].key # key
    BY <1>6, <1>7 DEF Yields
  <1> HIDE DEF insertions, longer, last, live, Y, Z, C, before, now
  <1>11. last \in Z
    <2>1. IsCurrent(written, live + 1, last)
      BY <1>2 DEF IsCurrent, longer
    <2>2. Yields(written, live + 1, last)
      BY <1>1, <1>2, <1>4, <1>5, <2>1 DEF Yields, longer
    <2> QED
      BY <1>2, <1>8, <2>2
  <1>12. ASSUME NEW i \in DOMAIN insertions, insertions[i].key = key PROVE i \notin Z
    <2>1. longer[last].key = longer[i].key /\ longer[last].at = live + 1
          /\ longer[i].at < live + 1 /\ longer[i].at \in Nat /\ last \in DOMAIN longer
      BY <1>1, <1>2, <1>12
    <2>2. ~(longer[last].at <= longer[i].at) /\ longer[last].at <= live + 1
      BY <1>1, <2>1
    <2>3. ~IsCurrent(written, live + 1, i)
      BY <2>1, <2>2 DEF IsCurrent, longer
    <2> QED
      BY <1>8, <2>3 DEF Yields
  <1>13. Z = Y \cup {last}
    <2>1. \A i : i \in Z <=> i \in Y \/ i = last
      BY <1>2, <1>7, <1>8, <1>9, <1>10, <1>11, <1>12
    <2> QED
      BY <2>1
  <1>14. \A i \in Y : i < last
    BY <1>1, <1>7
  <1>15. /\ Cardinality(Z) = C + 1 /\ Ascending(Z)[C + 1] = last
         /\ \A n \in 1..C : Ascending(Z)[n] = Ascending(Y)[n]
    BY <1>1, <1>7, <1>13, <1>14, AscendingAdds DEF C
  <1>16. /\ IsSequence(before) /\ DOMAIN before = 1..C /\ C \in Nat /\ Len(before) = C
         /\ \A n \in 1..C : /\ Ascending(Y)[n] \in Y
                            /\ before[n] = <<insertions[Ascending(Y)[n]].key,
                                             Lookup(store, live, insertions[Ascending(Y)[n]].key)>>
    <2>1. Lists(before, store, live, Y, C)
      BY <1>1, ItemsFacts DEF before, Y, C
    <2> QED
      BY <2>1 DEF Lists, insertions
  <1>17. /\ IsSequence(now) /\ DOMAIN now = 1..(C + 1)
         /\ \A n \in 1..(C + 1) :
               now[n] = <<longer[Ascending(Z)[n]].key,
                          Lookup(written, live + 1, longer[Ascending(Z)[n]].key)>>
    <2>1. Lists(now, written, live + 1, Z, Cardinality(Z))
      BY <1>1, ItemsFacts DEF now, Z
    <2> QED
      BY <1>15, <2>1 DEF Lists, longer
  <1>18. Maps!With(before, key, value) = Append(before, <<key, value>>)
    <2>1. ~Maps!Holds(before, key)
      BY HeldInItems DEF before, live
    <2> QED
      BY <2>1 DEF Maps!With
  <1>19. PICK with : with = Append(before, <<key, value>>)
    OBVIOUS
  <1>20. /\ IsSequence(with) /\ DOMAIN with = 1..(C + 1)
         /\ \A n \in 1..C : with[n] = before[n]
         /\ with[C + 1] = <<key, value>>
    BY <1>16, <1>19, AppendFacts
  <1>21. \A n \in 1..(C + 1) : with[n] = now[n]
    <2> TAKE n \in 1..(C + 1)
    <2>1. CASE n = C + 1
      BY <1>2, <1>5, <1>15, <1>17, <1>20, <2>1
    <2>2. CASE n # C + 1
      <3>1. n \in 1..C
        BY <1>16, <2>2
      <3>2. /\ Ascending(Z)[n] \in Y /\ Ascending(Z)[n] = Ascending(Y)[n]
            /\ before[n] = <<insertions[Ascending(Z)[n]].key,
                             Lookup(store, live, insertions[Ascending(Z)[n]].key)>>
        BY <1>15, <1>16, <3>1
      <3>3. /\ longer[Ascending(Z)[n]] = insertions[Ascending(Z)[n]]
            /\ insertions[Ascending(Z)[n]].key # key
        BY <1>2, <1>7, <1>10, <3>2
      <3> QED
        BY <1>5, <1>17, <1>20, <3>1, <3>2, <3>3
    <2> QED
      BY <2>1, <2>2
  <1>22. with = now
    BY <1>17, <1>20, <1>21, SequenceIsFunction, SameFunctions
  <1> QED
    BY <1>3, <1>15, <1>18, <1>19, <1>22 DEF now, before, C, Y, Z, live

\* A deletion: the items after the key's close up.
LEMMA Deleted ==
    ASSUME NEW store, Sound(store), NEW key \in Keys,
           NEW written, Sound(written), Adds(written, store, key, MISSING),
           Holds(store, key), Keeps(written, store)
    PROVE  /\ Cardinality(Yielded(written, store.live_version + 1))
                  = Cardinality(Yielded(store, store.live_version)) - 1
           /\ ItemsAt(written, store.live_version + 1)
                  = Maps!Without(ItemsAt(store, store.live_version), key)
  <1> DEFINE insertions == store.insertions
             live == store.live_version
             Y == Yielded(store, live)
             Z == Yielded(written, live + 1)
             C == Cardinality(Y)
             order == Ascending(Y)
             before == ItemsAt(store, live)
             now == ItemsAt(written, live + 1)
  <1>1. live \in Nat /\ live + 1 \in Nat
    BY InsertionFacts
  <1>2. written.insertions = insertions /\ Extends(written, store, key)
    BY DEF Keeps, Extends
  <1>0. MISSING \in Entries
    BY DEF Entries
  <1>3. \A k : Lookup(written, live + 1, k) = IF k = key THEN MISSING ELSE Lookup(store, live, k)
    BY <1>0, ReadsOfWrite
  <1>4. /\ \A i : i \in Y => i \in DOMAIN insertions
        /\ Y \subseteq Nat /\ IsFiniteSet(Y)
        /\ \A i, j \in Y : insertions[i].key = insertions[j].key => i = j
    BY <1>1, YieldedFacts
  <1>5. \A i : i \in Z => i \in DOMAIN insertions /\ insertions[i].key # key
    <2>1. \A i : i \in Z => i \in DOMAIN insertions /\ Yields(written, live + 1, i)
      BY <1>1, <1>2, YieldedFacts
    <2> QED
      BY <1>2, <1>3, <2>1 DEF Yields
  <1>6. \A i \in DOMAIN insertions : insertions[i].key # key => (i \in Z <=> i \in Y)
    BY <1>0, <1>2, OthersYield
  <1>7. /\ IsSequence(before) /\ DOMAIN before = 1..C /\ Len(before) = C /\ C \in Nat
        /\ \A n \in 1..C : /\ order[n] \in Y
                           /\ before[n] = <<insertions[order[n]].key,
                                            Lookup(store, live, insertions[order[n]].key)>>
        /\ \A i \in Y : \E n \in 1..C : order[n] = i
    <2>1. Lists(before, store, live, Y, C)
      BY <1>1, ItemsFacts
    <2> HIDE DEF before, Y, C, live
    <2> QED
      BY <2>1 DEF Lists
  <1>8. AreItems(before)
    BY <1>1, YieldsItems
  <1>9. PICK at \in 1..C : insertions[order[at]].key = key
    <2>1. PICK i \in Y : insertions[i].key = key
      BY HeldIsYielded, HoldsFacts
    <2> QED
      BY <1>7, <2>1
  <1> HIDE DEF insertions, live, Y, Z, C, order, before, now
  <1>10. Z = Y \ {order[at]}
    <2>1. order[at] \in Y /\ \A i \in Y : insertions[i].key = key => i = order[at]
      BY <1>4, <1>7, <1>9
    <2>2. \A i : i \in Z <=> i \in Y /\ i # order[at]
      BY <1>4, <1>5, <1>6, <1>9, <2>1
    <2> QED
      BY <2>2
  <1> DEFINE To(n) == IF n < at THEN n ELSE n + 1
  <1>11. /\ Cardinality(Z) = C - 1
         /\ \A n \in 1..(C - 1) : Ascending(Z)[n] = order[To(n)]
    BY <1>4, <1>10, AscendingRemoves DEF C, order
  <1>12. \A n \in 1..(C - 1) : To(n) \in 1..C
    BY <1>7
  <1>13. /\ IsSequence(now) /\ DOMAIN now = 1..(C - 1)
         /\ \A n \in 1..(C - 1) :
               /\ Ascending(Z)[n] \in Z
               /\ now[n] = <<insertions[Ascending(Z)[n]].key,
                             Lookup(written, live + 1, insertions[Ascending(Z)[n]].key)>>
    <2>1. Lists(now, written, live + 1, Z, Cardinality(Z))
      BY <1>1, ItemsFacts DEF now, Z
    <2> QED
      BY <1>2, <1>11, <2>1 DEF Lists
  <1>14. (CHOOSE i \in DOMAIN before : before[i][1] = key) = at
    <2>1. at \in DOMAIN before /\ before[at][1] = key
      BY <1>7, <1>9
    <2>2. \A i \in DOMAIN before : before[i][1] = key => i = at
      BY <1>8, <2>1 DEF AreItems
    <2> QED
      BY <2>1, <2>2
  <1>15. PICK without : without = [n \in 1..(C - 1) |-> before[To(n)]]
    OBVIOUS
  <1>16. without = Maps!Without(before, key)
    BY <1>7, <1>14, <1>15 DEF Maps!Without
  <1> HIDE DEF To
  <1>17. IsFunction(without) /\ DOMAIN without = 1..(C - 1)
         /\ \A n \in 1..(C - 1) : without[n] = before[To(n)]
    BY <1>15 DEF IsFunction
  <1>18. \A n \in 1..(C - 1) : without[n] = now[n]
    <2> TAKE n \in 1..(C - 1)
    <2>1. /\ Ascending(Z)[n] = order[To(n)] /\ To(n) \in 1..C /\ Ascending(Z)[n] \in Z
          /\ insertions[Ascending(Z)[n]].key # key
      BY <1>5, <1>11, <1>12, <1>13
    <2>2. before[To(n)] = <<insertions[Ascending(Z)[n]].key,
                            Lookup(store, live, insertions[Ascending(Z)[n]].key)>>
      BY <1>7, <2>1
    <2> QED
      BY <1>3, <1>13, <1>17, <2>1, <2>2
  <1>19. without = now
    BY <1>13, <1>17, <1>18, SequenceIsFunction, SameFunctions
  <1> QED
    BY <1>11, <1>16, <1>19 DEF now, before, C, Y, Z, live

\* A write in short: the store grows by an entry and a version, and is at every
\* version up to the live one what it was.
Succeeds(written, store) ==
    /\ Sound(written)
    /\ written.live_version = store.live_version + 1
    /\ written.entries = store.entries + 1
    /\ \A version \in 0..store.live_version :
          /\ Yielded(written, version) = Yielded(store, version)
          /\ ItemsAt(written, version) = ItemsAt(store, version)
    /\ \A version \in 0..store.live_version, k \in Keys :
          Lookup(written, version, k) = Lookup(store, version, k)

LEMMA SetWrites ==
    ASSUME NEW store, Sound(store), NEW key \in Keys, NEW value \in Values,
           NEW written, written = StoreWith(store, store.live_version + 1, key, value)
    PROVE  /\ Succeeds(written, store)
           /\ Cardinality(Yielded(written, written.live_version))
                  = Cardinality(Yielded(store, store.live_version))
                        + (IF Holds(store, key) THEN 0 ELSE 1)
           /\ ItemsAt(written, written.live_version)
                  = Maps!With(ItemsAt(store, store.live_version), key, value)
  <1> DEFINE live == store.live_version
  <1>1. value \in Entries
    BY DEF Entries
  <1>2. /\ Adds(written, store, key, value)
        /\ IF Holds(store, key) THEN Keeps(written, store) ELSE Inserts(written, store, key)
    BY SetIs
  <1>3. /\ live \in Nat /\ written.live_version = live + 1 /\ written.entries = store.entries + 1
    BY <1>2, InsertionFacts DEF Adds
  <1>4. Cardinality(Yielded(store, live)) \in Nat
    BY <1>3, YieldedFacts, FS_CardinalityType
  <1>5. /\ Sound(written) /\ Extends(written, store, key)
        /\ Cardinality(Yielded(written, live + 1))
               = Cardinality(Yielded(store, live)) + (IF Holds(store, key) THEN 0 ELSE 1)
        /\ ItemsAt(written, live + 1) = Maps!With(ItemsAt(store, live), key, value)
    <2>1. CASE Holds(store, key)
      <3>1. key \in DOMAIN store.chains /\ Keeps(written, store)
        BY <1>2, <2>1 DEF Holds
      <3>2. Sound(written)
        BY <1>1, <1>2, <3>1, KeepingIsSound
      <3>3. Extends(written, store, key)
        BY <3>1 DEF Keeps, Extends
      <3>4. /\ Cardinality(Yielded(written, live + 1)) = Cardinality(Yielded(store, live))
            /\ ItemsAt(written, live + 1) = Maps!With(ItemsAt(store, live), key, value)
        BY <1>2, <2>1, <3>1, <3>2, Rewritten
      <3> QED
        BY <1>4, <2>1, <3>2, <3>3, <3>4
    <2>2. CASE ~Holds(store, key)
      <3>1. /\ Sound(written)
            /\ Follows(written.insertions, store.insertions, key, live + 1)
        BY <1>1, <1>2, <2>2, InsertingIsSound
      <3>2. /\ Extends(written, store, key)
            /\ Cardinality(Yielded(written, live + 1)) = Cardinality(Yielded(store, live)) + 1
            /\ ItemsAt(written, live + 1) = Maps!With(ItemsAt(store, live), key, value)
        BY <1>2, <2>2, <3>1, Inserted
      <3> QED
        BY <2>2, <3>1, <3>2
    <2> QED
      BY <2>1, <2>2
  <1>6. \A version \in 0..live : /\ Yielded(written, version) = Yielded(store, version)
                                 /\ ItemsAt(written, version) = ItemsAt(store, version)
    BY <1>1, <1>2, <1>5, OldVersions
  <1>7. \A version \in 0..live, k \in Keys : Lookup(written, version, k) = Lookup(store, version, k)
    BY <1>1, <1>2, ReadsOfWrite
  <1> QED
    BY <1>3, <1>5, <1>6, <1>7 DEF Succeeds

LEMMA DeleteWrites ==
    ASSUME NEW store, Sound(store), NEW key \in Keys, Holds(store, key),
           NEW written, written = StoreWithout(store, store.live_version + 1, key)
    PROVE  /\ Succeeds(written, store)
           /\ Cardinality(Yielded(written, written.live_version))
                  = Cardinality(Yielded(store, store.live_version)) - 1
           /\ ItemsAt(written, written.live_version)
                  = Maps!Without(ItemsAt(store, store.live_version), key)
           /\ Maps!Holds(ItemsAt(store, store.live_version), key)
  <1> DEFINE live == store.live_version
  <1>1. MISSING \in Entries
    BY DEF Entries
  <1>2. Adds(written, store, key, MISSING) /\ Keeps(written, store)
    BY DeleteIs
  <1>3. /\ live \in Nat /\ written.live_version = live + 1 /\ written.entries = store.entries + 1
    BY <1>2, InsertionFacts DEF Adds
  <1>4. Sound(written)
    BY <1>1, <1>2, KeepingIsSound DEF Holds
  <1>5. Extends(written, store, key)
    BY <1>2 DEF Keeps, Extends
  <1>6. /\ Cardinality(Yielded(written, live + 1)) = Cardinality(Yielded(store, live)) - 1
        /\ ItemsAt(written, live + 1) = Maps!Without(ItemsAt(store, live), key)
    BY <1>2, <1>4, Deleted
  <1>7. \A version \in 0..live : /\ Yielded(written, version) = Yielded(store, version)
                                 /\ ItemsAt(written, version) = ItemsAt(store, version)
    BY <1>1, <1>2, <1>4, <1>5, OldVersions
  <1>8. \A version \in 0..live, k \in Keys : Lookup(written, version, k) = Lookup(store, version, k)
    BY <1>1, <1>2, ReadsOfWrite
  <1>9. Maps!Holds(ItemsAt(store, live), key)
    BY HeldInItems
  <1> QED
    BY <1>3, <1>4, <1>6, <1>7, <1>8, <1>9 DEF Succeeds

-----------------------------------------------------------------------------
(* The state *)

ViewOK(made, view) ==
    /\ view \in View /\ view.store \in DOMAIN made
    /\ view.version <= made[view.store].live_version
    /\ view.size = Cardinality(Yielded(made[view.store], view.version))

IInv ==
    /\ IsSequence(stores) /\ IsSequence(views)
    /\ \A s \in DOMAIN stores : Sound(stores[s])
    /\ \A i \in DOMAIN views : ViewOK(stores, views[i])
    /\ EntriesBounded

\* What a write extends has few entries, and what it leaves.
Few(entries, size) ==
    \/ entries <= RebaseFactor * size + RebaseSlack
    \/ entries = size

Bound(entries, size) == entries <= RebaseFactor * (size + 1) + RebaseSlack + 1

\* What a write extends: a store at its live version, one that exists or the
\* next to be made, that holds the items of the view and few entries more.
BaseOK(base, items) ==
    /\ Sound(base.store) /\ base.version = base.store.live_version
    /\ base.size \in Nat /\ base.size = Cardinality(Yielded(base.store, base.version))
    /\ base.id \in DOMAIN stores \/ base.id = Len(stores) + 1
    /\ base.id \in DOMAIN stores => base.store = stores[base.id]
    /\ ItemsAt(base.store, base.version) = items
    /\ Few(base.store.entries, base.size)

LEMMA BaseFacts ==
    ASSUME IInv, NEW i \in DOMAIN views, NEW base, base = Base(views[i])
    PROVE  BaseOK(base, Items(views[i]))
  <1> DEFINE view == views[i]
             store == stores[view.store]
  <1>1. /\ view.store \in DOMAIN stores /\ Sound(store) /\ store.live_version \in Nat
        /\ view.version \in Nat /\ view.size \in Nat
        /\ view.size = Cardinality(Yielded(store, view.version))
    <2>1. ViewOK(stores, view)
      BY DEF IInv
    <2>2. view.store \in DOMAIN stores /\ Sound(store)
      BY <2>1 DEF IInv, ViewOK
    <2> HIDE DEF view, store
    <2>3. /\ view.version \in Nat /\ view.size \in Nat
      BY <2>1 DEF ViewOK, View
    <2> QED
      BY <2>1, <2>2, <2>3, InsertionFacts DEF ViewOK, store
  <1>2. Items(view) = ItemsAt(store, view.version)
    BY DEF Items
  <1>3. BranchItems(view) = Items(view)
    <2>1. CASE IsNewest(view)
      <3>1. view.version = store.live_version /\ BranchItems(view) = RebasedItems(store)
        BY <2>1 DEF IsNewest, BranchItems
      <3> QED
        BY <1>1, <1>2, <3>1, RebasedFacts
    <2>2. CASE ~IsNewest(view)
      BY <2>2 DEF BranchItems
    <2> QED
      BY <2>1, <2>2
  <1>4. Len(stores) \in Nat /\ DOMAIN stores = 1..Len(stores)
    BY SequenceIsFunction DEF IInv
  <1>5. CASE MustBranch(view)
    <2> DEFINE items == Items(view)
    <2>1. /\ base.id = Len(stores) + 1 /\ base.store = FreshStore(items)
          /\ base.version = 0 /\ base.size = Len(items)
      BY <1>3, <1>5 DEF Base
    <2>2. AreItems(items)
      BY <1>1, <1>2, YieldsItems
    <2> HIDE DEF items
    <2>3. /\ Sound(base.store) /\ base.store.live_version = 0 /\ base.store.entries = Len(items)
          /\ Cardinality(Yielded(base.store, 0)) = Len(items) /\ ItemsAt(base.store, 0) = items
      BY <2>1, <2>2, FreshStoreFacts
    <2>4. Len(items) \in Nat
      BY <2>2, SequenceIsFunction DEF AreItems
    <2>5. base.id \notin DOMAIN stores
      BY <1>4, <2>1
    <2>6. BaseOK(base, items)
      BY <2>1, <2>3, <2>4, <2>5 DEF BaseOK, Few
    <2> QED
      BY <2>6 DEF items
  <1>6. CASE ~MustBranch(view)
    <2>1. /\ base.id = view.store /\ base.store = store
          /\ base.version = view.version /\ base.size = view.size
      BY <1>6 DEF Base
    <2>2. /\ view.version = store.live_version
          /\ ~(store.entries > RebaseFactor * view.size + RebaseSlack)
      BY <1>6 DEF MustBranch, IsNewest, rebase_due
    <2>3. store.entries <= RebaseFactor * view.size + RebaseSlack
      <3>1. store.entries \in Int /\ RebaseFactor * view.size + RebaseSlack \in Int
        BY <1>1, MapAssumption DEF Sound
      <3> QED
        BY <2>2, <3>1
    <2> HIDE DEF store, view
    <2> QED
      BY <1>1, <1>2, <2>1, <2>2, <2>3 DEF BaseOK, Few, store, view
  <1> QED
    BY <1>5, <1>6

LEMMA FewMore ==
    ASSUME NEW size \in Nat, NEW next \in Nat, size <= next + 1,
           NEW entries \in Nat, Few(entries, size)
    PROVE  Bound(entries + 1, next)
  <1>1. RebaseFactor \in Nat \ {0} /\ RebaseSlack \in Nat
    BY MapAssumption
  <1>2. PICK F \in Nat \ {0} : F = RebaseFactor
    BY <1>1
  <1>3. PICK d \in Nat : next + 1 = size + d
    <2>1. (next + 1) - size \in Nat /\ next + 1 = size + ((next + 1) - size)
      OBVIOUS
    <2> QED
      BY <2>1
  <1>4. PICK e \in Nat : F = 1 + e
    <2>1. F - 1 \in Nat /\ F = 1 + (F - 1)
      OBVIOUS
    <2> QED
      BY <2>1
  <1>5. F * (size + d) = F * size + F * d /\ F * size \in Nat /\ F * d \in Nat
    OBVIOUS
  <1>6. F * size = size + e * size /\ e * size \in Nat
    BY <1>4
  <1>7. F * size <= F * (next + 1) /\ size <= F * size /\ F * (next + 1) \in Nat
    BY <1>3, <1>5, <1>6
  <1>8. entries <= F * size + RebaseSlack \/ entries = size
    BY <1>2 DEF Few
  <1>9. entries + 1 <= F * (next + 1) + RebaseSlack + 1
    BY <1>1, <1>5, <1>7, <1>8
  <1> QED
    BY <1>2, <1>9 DEF Bound

\* Publishing such a write keeps the invariant, every read and every map, and
\* makes one map, of the items of the written store.
LEMMA PublishStep ==
    ASSUME IInv, NEW base, NEW items, BaseOK(base, items),
           NEW written, Succeeds(written, base.store),
           NEW size, size = Cardinality(Yielded(written, written.live_version)),
           size \in Nat, base.size <= size + 1,
           Publish(base, written, size)
    PROVE  /\ IInv' /\ ReadsKept
           /\ Len(Mapped') = Len(Mapped) + 1
           /\ \A j \in DOMAIN Mapped : Mapped'[j] = Mapped[j]
           /\ Mapped'[Len(Mapped')] = ItemsAt(written, written.live_version)
  <1> DEFINE new == [store |-> base.id, version |-> written.live_version, size |-> size]
             live == base.store.live_version
             last == Len(views) + 1
  <1>1. /\ Sound(base.store) /\ Sound(written) /\ written.live_version = live + 1
        /\ written.entries = base.store.entries + 1
        /\ live \in Nat /\ written.live_version \in Nat
    <2>1. Sound(base.store) /\ Sound(written) /\ written.live_version = live + 1
          /\ written.entries = base.store.entries + 1
      BY DEF BaseOK, Succeeds
    <2> QED
      BY <2>1, InsertionFacts
  <1>2. /\ IsSequence(views') /\ Len(views) \in Nat /\ DOMAIN views = 1..Len(views)
        /\ Len(views') = last /\ DOMAIN views' = 1..last
        /\ \A j \in DOMAIN views : views'[j] = views[j]
        /\ views'[last] = new
    BY AppendFacts DEF Publish, IInv
  <1>3. \A j \in DOMAIN views' : j \in DOMAIN views \/ j = last
    BY <1>2
  <1>4. /\ IsSequence(stores') /\ DOMAIN stores' = DOMAIN stores \cup {base.id}
        /\ \A s \in DOMAIN stores : s # base.id => stores'[s] = stores[s]
        /\ stores'[base.id] = written
    <2>1. IsSequence(stores)
      BY DEF IInv
    <2>2. CASE base.id \in DOMAIN stores
      <3>1. stores' = [stores EXCEPT ![base.id] = written]
        BY <2>2 DEF Publish
      <3> DEFINE T == {stores[s] : s \in DOMAIN stores} \cup {written}
      <3>2. stores \in Seq(T) /\ base.id \in 1..Len(stores)
        BY <2>1, <2>2 DEF IsSequence
      <3>3. stores' \in Seq(T)
        BY <3>1, <3>2, ExceptSeq
      <3>4. IsSequence(stores')
        BY <3>3, SequenceFacts
      <3> QED
        BY <2>2, <3>1, <3>4
    <2>3. CASE base.id \notin DOMAIN stores
      <3>1. base.id = Len(stores) + 1 /\ stores' = Append(stores, written)
        BY <2>3 DEF Publish, BaseOK
      <3>2. /\ IsSequence(Append(stores, written))
            /\ DOMAIN stores = 1..Len(stores) /\ Len(stores) \in Nat
            /\ DOMAIN Append(stores, written) = 1..(Len(stores) + 1)
            /\ \A s \in DOMAIN stores : Append(stores, written)[s] = stores[s]
            /\ Append(stores, written)[Len(stores) + 1] = written
        BY <2>1, AppendFacts
      <3>3. 1..(Len(stores) + 1) = 1..Len(stores) \cup {Len(stores) + 1}
        BY <3>2
      <3> QED
        BY <3>1, <3>2, <3>3
    <2> QED
      BY <2>2, <2>3
  <1>5. \A s \in DOMAIN stores' : Sound(stores'[s])
    <2>1. \A s \in DOMAIN stores : Sound(stores[s])
      BY DEF IInv
    <2> QED
      BY <1>1, <1>4, <2>1
  <1>6. ASSUME NEW j \in DOMAIN views
        PROVE  /\ views[j].store \in DOMAIN stores /\ views[j].store \in DOMAIN stores'
               /\ views[j].version \in Nat
               /\ views[j].version <= stores[views[j].store].live_version
               /\ views[j].version <= stores'[views[j].store].live_version
               /\ views[j].store = base.id => views[j].version < stores'[base.id].live_version
               /\ Yielded(stores'[views[j].store], views[j].version)
                      = Yielded(stores[views[j].store], views[j].version)
               /\ ItemsAt(stores'[views[j].store], views[j].version)
                      = ItemsAt(stores[views[j].store], views[j].version)
               /\ \A k \in Keys : Lookup(stores'[views[j].store], views[j].version, k)
                                  = Lookup(stores[views[j].store], views[j].version, k)
    <2>1. /\ views[j].store \in DOMAIN stores /\ views[j].version \in Nat
          /\ views[j].version <= stores[views[j].store].live_version
      BY DEF IInv, ViewOK, View
    <2>2. CASE views[j].store # base.id
      BY <1>4, <2>1, <2>2
    <2>3. CASE views[j].store = base.id
      <3>1. base.store = stores[base.id] /\ stores'[base.id] = written
        BY <1>4, <2>1, <2>3 DEF BaseOK
      <3>2. views[j].version \in 0..live /\ views[j].version < written.live_version
            /\ views[j].version <= written.live_version
        BY <1>1, <2>1, <2>3, <3>1
      <3> QED
        BY <1>4, <2>1, <2>3, <3>1, <3>2 DEF Succeeds
    <2> QED
      BY <2>2, <2>3
  <1>7. \A j \in DOMAIN views' : ViewOK(stores', views'[j])
    <2>1. ASSUME NEW j \in DOMAIN views PROVE ViewOK(stores', views[j])
      <3>1. views[j] \in View /\ views[j].size = Cardinality(Yielded(stores[views[j].store], views[j].version))
        BY DEF IInv, ViewOK
      <3> QED
        BY <1>6, <3>1 DEF ViewOK
    <2>2. ViewOK(stores', new)
      <3>1. base.id \in Nat
        <4>1. Len(stores) \in Nat /\ DOMAIN stores = 1..Len(stores)
          BY SequenceIsFunction DEF IInv
        <4> QED
          BY <4>1 DEF BaseOK
      <3>2. new \in View
        BY <1>1, <3>1 DEF View
      <3> QED
        BY <1>1, <1>4, <3>2 DEF ViewOK
    <2> QED
      BY <1>2, <1>3, <2>1, <2>2
  <1>8. EntriesBounded'
    <2>1. ASSUME NEW j \in DOMAIN views,
                 views[j].version = stores'[views[j].store].live_version
          PROVE  stores'[views[j].store].entries
                     <= RebaseFactor * (views[j].size + 1) + RebaseSlack + 1
      <3>1. views[j].store # base.id
        <4>1. stores'[base.id].live_version \in Nat
          BY <1>1, <1>4
        <4> QED
          BY <1>6, <2>1, <4>1
      <3>2. stores'[views[j].store] = stores[views[j].store]
        BY <1>4, <1>6, <3>1
      <3> QED
        BY <2>1, <3>2 DEF IInv, EntriesBounded, IsNewest
    <2>2. written.entries <= RebaseFactor * (size + 1) + RebaseSlack + 1
      <3>1. base.size \in Nat /\ Few(base.store.entries, base.size)
        BY DEF BaseOK
      <3>2. base.store.entries \in Nat
        BY <1>1 DEF Sound
      <3>3. Bound(base.store.entries + 1, size)
        BY <3>1, <3>2, FewMore
      <3> QED
        BY <1>1, <3>3 DEF Bound
    <2>3. new.store = base.id /\ new.size = size
      OBVIOUS
    <2> HIDE DEF new
    <2> SUFFICES ASSUME NEW j \in DOMAIN views',
                        views'[j].version = stores'[views'[j].store].live_version
                 PROVE  stores'[views'[j].store].entries
                            <= RebaseFactor * (views'[j].size + 1) + RebaseSlack + 1
      BY DEF EntriesBounded, IsNewest
    <2> QED
      BY <1>2, <1>3, <1>4, <2>1, <2>2, <2>3
  <1>9. ReadsKept
    BY <1>2, <1>6 DEF ReadsKept
  <1>10. /\ DOMAIN Mapped = 1..Len(views) /\ IsFunction(Mapped)
         /\ \A j \in DOMAIN views : Mapped[j] = ItemsAt(stores[views[j].store], views[j].version)
    BY <1>2 DEF Mapped, Items, IsFunction
  <1>11. /\ DOMAIN Mapped' = 1..last /\ IsFunction(Mapped')
         /\ \A j \in DOMAIN views' :
               Mapped'[j] = ItemsAt(stores'[views'[j].store], views'[j].version)
    BY <1>2 DEF Mapped, Items, IsFunction
  <1>12. Len(Mapped) = Len(views) /\ Len(Mapped') = last
    BY <1>2, <1>10, <1>11, FunctionIsSequence
  <1>13. \A j \in DOMAIN Mapped : Mapped'[j] = Mapped[j]
    <2>1. \A j \in DOMAIN views : j \in DOMAIN views'
      BY <1>2
    <2> QED
      BY <1>2, <1>6, <1>10, <1>11, <2>1
  <1>14. Mapped'[last] = ItemsAt(written, written.live_version)
    <2>1. last \in DOMAIN views' /\ new.store = base.id /\ new.version = written.live_version
      BY <1>2
    <2> HIDE DEF new
    <2> QED
      BY <1>2, <1>4, <1>11, <2>1
  <1>15. IInv'
    BY <1>2, <1>4, <1>5, <1>7, <1>8 DEF IInv
  <1> QED
    BY <1>9, <1>12, <1>13, <1>14, <1>15

-----------------------------------------------------------------------------
(* Operations *)

LEMMA MappedIs ==
    ASSUME IInv, NEW i \in DOMAIN views
    PROVE  i \in DOMAIN Mapped /\ Mapped[i] = Items(views[i])
  BY DEF Mapped

\* set and delete publish such a write, of a map made from the view's.
LEMMA SetStep ==
    ASSUME IInv, NEW i \in DOMAIN views, NEW key \in Keys, NEW value \in Values,
           set(views[i], key, value)
    PROVE  IInv' /\ ReadsKept /\ Maps!MapsNext
  <1> DEFINE items   == Items(views[i])
             base    == Base(views[i])
             written == StoreWith(base.store, base.version + 1, key, value)
             size    == IF Holds(base.store, key) THEN base.size ELSE base.size + 1
  <1>1. Publish(base, written, size)
    BY DEF set
  <1>2. BaseOK(base, items)
    BY BaseFacts
  <1> HIDE DEF base, items
  <1>3. /\ Sound(base.store) /\ base.version = base.store.live_version
        /\ base.size \in Nat /\ base.size = Cardinality(Yielded(base.store, base.version))
        /\ ItemsAt(base.store, base.version) = items
    BY <1>2 DEF BaseOK
  <1>4. written = StoreWith(base.store, base.store.live_version + 1, key, value)
    BY <1>3
  <1> HIDE DEF written
  <1>5. /\ Succeeds(written, base.store)
        /\ Cardinality(Yielded(written, written.live_version))
               = Cardinality(Yielded(base.store, base.store.live_version))
                     + (IF Holds(base.store, key) THEN 0 ELSE 1)
        /\ ItemsAt(written, written.live_version)
               = Maps!With(ItemsAt(base.store, base.store.live_version), key, value)
    BY <1>3, <1>4, SetWrites
  <1>6. /\ size = Cardinality(Yielded(written, written.live_version))
        /\ size \in Nat /\ base.size <= size + 1
    BY <1>3, <1>5
  <1> HIDE DEF size
  <1>7. /\ IInv' /\ ReadsKept
        /\ Len(Mapped') = Len(Mapped) + 1
        /\ \A j \in DOMAIN Mapped : Mapped'[j] = Mapped[j]
        /\ Mapped'[Len(Mapped')] = ItemsAt(written, written.live_version)
    BY <1>1, <1>2, <1>5, <1>6, PublishStep
  <1>8. i \in DOMAIN Mapped /\ Mapped[i] = items
    BY MappedIs DEF items
  <1>9. Maps!MadeFrom(Mapped[i], Mapped'[Len(Mapped')])
    BY <1>3, <1>5, <1>7, <1>8 DEF Maps!MadeFrom
  <1> QED
    BY <1>7, <1>8, <1>9 DEF Maps!MapsNext

LEMMA DeleteStep ==
    ASSUME IInv, NEW i \in DOMAIN views, NEW key \in Keys, delete(views[i], key)
    PROVE  IInv' /\ ReadsKept /\ Maps!MapsNext
  <1> DEFINE items   == Items(views[i])
             base    == Base(views[i])
             written == StoreWithout(base.store, base.version + 1, key)
             size    == base.size - 1
  <1>1. Publish(base, written, size) /\ Holds(base.store, key)
    BY DEF delete
  <1>2. BaseOK(base, items)
    BY BaseFacts
  <1> HIDE DEF base, items
  <1>3. /\ Sound(base.store) /\ base.version = base.store.live_version
        /\ base.size \in Nat /\ base.size = Cardinality(Yielded(base.store, base.version))
        /\ ItemsAt(base.store, base.version) = items
    BY <1>2 DEF BaseOK
  <1>4. written = StoreWithout(base.store, base.store.live_version + 1, key)
    BY <1>3
  <1> HIDE DEF written
  <1>5. /\ Succeeds(written, base.store)
        /\ Cardinality(Yielded(written, written.live_version))
               = Cardinality(Yielded(base.store, base.store.live_version)) - 1
        /\ ItemsAt(written, written.live_version)
               = Maps!Without(ItemsAt(base.store, base.store.live_version), key)
        /\ Maps!Holds(ItemsAt(base.store, base.store.live_version), key)
    BY <1>1, <1>3, <1>4, DeleteWrites
  <1>6. size \in Nat
    <2>1. Len(ItemsAt(base.store, base.version)) # 0
      BY <1>1, <1>3, HeldInItems
    <2>2. base.version \in Nat
      BY <1>3, InsertionFacts
    <2>3. Lists(ItemsAt(base.store, base.version), base.store, base.version,
                Yielded(base.store, base.version), Cardinality(Yielded(base.store, base.version)))
      BY <1>3, <2>2, ItemsFacts
    <2>4. base.size # 0
      BY <1>3, <2>1, <2>3 DEF Lists
    <2> QED
      BY <1>3, <2>4
  <1>7. size = Cardinality(Yielded(written, written.live_version)) /\ base.size <= size + 1
    BY <1>3, <1>5
  <1> HIDE DEF size
  <1>8. /\ IInv' /\ ReadsKept
        /\ Len(Mapped') = Len(Mapped) + 1
        /\ \A j \in DOMAIN Mapped : Mapped'[j] = Mapped[j]
        /\ Mapped'[Len(Mapped')] = ItemsAt(written, written.live_version)
    BY <1>1, <1>2, <1>5, <1>6, <1>7, PublishStep
  <1>9. i \in DOMAIN Mapped /\ Mapped[i] = items
    BY MappedIs DEF items
  <1>10. Maps!MadeFrom(Mapped[i], Mapped'[Len(Mapped')])
    BY <1>3, <1>5, <1>8, <1>9 DEF Maps!MadeFrom
  <1> QED
    BY <1>8, <1>9, <1>10 DEF Maps!MapsNext

LEMMA NextStep ==
    ASSUME IInv, Next
    PROVE  IInv' /\ ReadsKept /\ Maps!MapsNext
  BY SetStep, DeleteStep DEF Next

\* The empty map.
LEMMA InitHolds ==
    ASSUME Init
    PROVE  IInv /\ Maps!MapsInit
  <1> DEFINE empty == FreshStore(<<>>)
             view == [store |-> 1, version |-> 0, size |-> 0]
  <1>1. /\ stores \in Seq({empty}) /\ DOMAIN stores = {1} /\ stores[1] = empty
        /\ views \in Seq({view}) /\ DOMAIN views = {1} /\ views[1] = view
    BY DEF Init
  <1>2. IsSequence(stores) /\ IsSequence(views)
    BY <1>1, SequenceFacts
  <1>3. AreItems(<<>>)
    <2>1. IsSequence(<<>>)
      <3>1. <<>> \in Seq({})
        OBVIOUS
      <3> QED
        BY <3>1, SequenceFacts
    <2> QED
      BY <2>1 DEF AreItems
  <1> HIDE DEF empty
  <1>4. /\ Sound(empty) /\ empty.live_version = 0 /\ empty.entries = 0
        /\ Cardinality(Yielded(empty, 0)) = 0 /\ ItemsAt(empty, 0) = <<>>
    BY <1>3, FreshStoreFacts DEF empty
  <1>5. ViewOK(stores, views[1])
    BY <1>1, <1>4 DEF ViewOK, View
  <1>6. EntriesBounded
    <2>1. 0 <= RebaseFactor * (0 + 1) + RebaseSlack + 1
      BY MapAssumption
    <2> QED
      BY <1>1, <1>4, <2>1 DEF EntriesBounded
  <1>7. Items(views[1]) = <<>>
    BY <1>1, <1>4 DEF Items
  <1>8. Mapped = << <<>> >>
    <2>1. /\ IsFunction(Mapped) /\ DOMAIN Mapped = {1} /\ Mapped[1] = <<>>
      BY <1>1, <1>7 DEF Mapped, IsFunction
    <2>2. /\ IsFunction(<< <<>> >>) /\ DOMAIN << <<>> >> = {1} /\ << <<>> >>[1] = <<>>
      BY DEF IsFunction
    <2> QED
      BY <2>1, <2>2, SameFunctions
  <1> QED
    BY <1>1, <1>2, <1>4, <1>5, <1>6, <1>8 DEF IInv, Maps!MapsInit

LEMMA Stutters ==
    ASSUME IInv, UNCHANGED vars
    PROVE  IInv' /\ UNCHANGED Mapped
  <1>1. stores' = stores /\ views' = views
    BY DEF vars
  <1>2. EntriesBounded' <=> EntriesBounded
    BY <1>1 DEF EntriesBounded, IsNewest
  <1> QED
    BY <1>1, <1>2 DEF IInv, Mapped, Items

-----------------------------------------------------------------------------
\* The inductive invariant: every store's insertions and histories agree with
\* its chains, no view is ahead of its store, and each view's stored count is
\* how many insertions it yields.
THEOREM Invariant == Spec => []IInv
  BY InitHolds, NextStep, Stutters, PTL DEF Spec

\* Every view is well formed, and its stored count is the number of items it
\* iterates.
THEOREM StoreInvHolds == Spec => []StoreInv
  <1>1. IInv => StoreInv
    <2> SUFFICES ASSUME IInv PROVE TypeOK /\ SizeIsCount
      BY DEF StoreInv
    <2>1. ASSUME NEW s \in DOMAIN stores
          PROVE  LET store == stores[s]
                 IN  /\ DOMAIN store.chains \subseteq Keys
                     /\ \A k \in DOMAIN store.chains :
                           /\ DOMAIN store.chains[k] \subseteq 0..store.live_version
                           /\ store.chains[k] \in [DOMAIN store.chains[k] -> Values \cup {MISSING}]
                     /\ store.insertions \in Seq(Insertion)
                     /\ \A i, j \in DOMAIN store.insertions :
                           i <= j => store.insertions[i].at <= store.insertions[j].at
                     /\ DOMAIN store.reinsertions \subseteq DOMAIN store.chains
                     /\ store.live_version \in Nat /\ store.entries \in Nat
      <3> DEFINE store == stores[s]
      <3>1. Sound(store)
        BY DEF IInv
      <3> HIDE DEF store
      <3>2. /\ DOMAIN store.chains \subseteq Keys
            /\ \A k \in DOMAIN store.chains :
                  /\ DOMAIN store.chains[k] \subseteq 0..store.live_version
                  /\ store.chains[k] \in [DOMAIN store.chains[k] -> Values \cup {MISSING}]
        BY <3>1 DEF Sound, ChainsOK, ChainOK, IsFunction, Entries
      <3>3. \A i, j \in DOMAIN store.insertions :
               i <= j => store.insertions[i].at <= store.insertions[j].at
        <4>1. /\ \A i \in DOMAIN store.insertions : i \in Nat /\ store.insertions[i].at \in Nat
              /\ \A i, j \in DOMAIN store.insertions :
                    i < j => store.insertions[i].at <= store.insertions[j].at
          BY <3>1, InsertionFacts DEF Sound, InsertionsOK
        <4> QED
          BY <4>1
      <3>4. /\ store.insertions \in Seq(Insertion)
            /\ DOMAIN store.reinsertions \subseteq DOMAIN store.chains
            /\ store.live_version \in Nat /\ store.entries \in Nat
        BY <3>1 DEF Sound, InsertionsOK
      <3> QED
        BY <3>2, <3>3, <3>4 DEF store
    <2>2. views \in Seq(View)
      <3>1. views \in Seq({views[i] : i \in DOMAIN views}) /\ \A i \in DOMAIN views : views[i] \in View
        BY DEF IInv, IsSequence, ViewOK
      <3>2. IsFunction(views) /\ Len(views) \in Nat /\ DOMAIN views = 1..Len(views)
        BY SequenceIsFunction DEF IInv
      <3>3. views \in [1..Len(views) -> View]
        BY <3>1, <3>2 DEF IsFunction
      <3> QED
        BY <3>2, <3>3, SeqDef
    <2>3. \A i \in DOMAIN views : /\ views[i].store \in DOMAIN stores
                                  /\ views[i].version <= stores[views[i].store].live_version
      BY DEF IInv, ViewOK
    <2>4. TypeOK
      BY <2>1, <2>2, <2>3 DEF TypeOK
    <2>5. SizeIsCount
      <3> SUFFICES ASSUME NEW i \in DOMAIN views PROVE views[i].size = Len(Items(views[i]))
        BY DEF SizeIsCount
      <3> DEFINE store == stores[views[i].store]
                 version == views[i].version
      <3>1. /\ Sound(store) /\ version \in Nat
            /\ views[i].size = Cardinality(Yielded(store, version))
        BY DEF IInv, ViewOK, View
      <3>2. Items(views[i]) = ItemsAt(store, version)
        BY DEF Items
      <3> HIDE DEF store, version
      <3>3. Lists(ItemsAt(store, version), store, version,
                  Yielded(store, version), Cardinality(Yielded(store, version)))
        BY <3>1, ItemsFacts
      <3> QED
        BY <3>1, <3>2, <3>3 DEF Lists
    <2> QED
      BY <2>4, <2>5
  <1> QED
    BY <1>1, Invariant, PTL

\* The store of a map that was just written holds few more entries than the
\* map has keys, however many writes and deletions went before.
THEOREM EntriesBoundedHolds == Spec => []EntriesBounded
  <1>1. IInv => EntriesBounded
    BY DEF IInv
  <1> QED
    BY <1>1, Invariant, PTL

\* No write through any view changes what a key reads as in a map that exists.
THEOREM ReadsNeverChangeHolds == Spec => ReadsNeverChange
  <1>1. IInv /\ [Next]_vars => [ReadsKept]_vars
    BY NextStep
  <1> QED
    BY <1>1, Invariant, PTL DEF Spec, ReadsNeverChange

\* Every map ever made iterates, for ever, as the dict the same writes would
\* have built: the persistent map implements the immutable ordered map.
THEOREM ImmutableHolds == Spec => Immutable
  <1>1. IInv /\ [Next]_vars => [Maps!MapsNext]_Mapped
    BY NextStep, Stutters
  <1> QED
    BY <1>1, InitHolds, Invariant, PTL DEF Spec, Immutable, Maps!MapsSpec
=============================================================================
