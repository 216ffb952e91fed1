--------------------------- MODULE ClusterProofs ---------------------------
(***************************************************************************)
(* No job of the cluster is lost or in two places, for any jobs, workers,  *)
(* capacities, priorities and tags.                                        *)
(*                                                                         *)
(* A job moves between the queue, the running jobs and the three ledgers   *)
(* of finished ones, and a worker's list of its jobs is kept apart from    *)
(* the jobs' record of their worker.  The containers are lists: the work   *)
(* is in what dropping a job, sorting and an assignment do to a list.      *)
(***************************************************************************)
EXTENDS Cluster, WellFoundedInduction, FiniteSetTheorems, TLAPS

-----------------------------------------------------------------------------
(* Lists without repetition.                                                *)

Members(s) == {s[n] : n \in DOMAIN s}

Distinct(s) == \A m, n \in DOMAIN s : s[m] = s[n] => m = n

InOrder(s) == \A m, n \in DOMAIN s : m < n => KeyAtMost(s[m], s[n])

\* A list is another's first n, thinned out.
Thins(f, t, s, n) ==
  /\ f \in [DOMAIN t -> 1..n]
  /\ \A a, b \in DOMAIN t : a < b => f[a] < f[b]
  /\ \A a \in DOMAIN t : t[a] = s[f[a]]

ThinnedFrom(t, s, n) == \E f : Thins(f, t, s, n)

LEMMA LengthIsCardinality ==
  ASSUME NEW S, NEW s \in Seq(S), Distinct(s)
  PROVE  /\ IsFiniteSet(Members(s)) /\ Cardinality(Members(s)) = Len(s)
<1> DEFINE f == [n \in 1..Len(s) |-> s[n]]
<1>1. Len(s) \in Nat /\ DOMAIN s = 1..Len(s)
  OBVIOUS
<1>2. f \in Bijection(1..Len(s), Members(s))
  <2>1. f \in [1..Len(s) -> Members(s)]
    BY <1>1 DEF Members
  <2>2. \A m, n \in 1..Len(s) : f[m] = f[n] => m = n
    BY <1>1 DEF Distinct
  <2>3. \A x \in Members(s) : \E n \in 1..Len(s) : f[n] = x
    BY <1>1 DEF Members
  <2> HIDE DEF f
  <2> QED
    BY <2>1, <2>2, <2>3 DEF Bijection, Injection, Surjection, IsInjective
<1>3. IsFiniteSet(1..Len(s)) /\ Cardinality(1..Len(s)) = Len(s)
  BY <1>1, FS_Interval
<1>4. ExistsBijection(1..Len(s), Members(s))
  BY <1>2 DEF ExistsBijection
<1> QED
  BY <1>3, <1>4, FS_Bijection

LEMMA EmptyList ==
  ASSUME NEW S
  PROVE  <<>> \in Seq(S) /\ Members(<<>>) = {} /\ Distinct(<<>>) /\ InOrder(<<>>)
         /\ DOMAIN <<>> = {} /\ Len(<<>>) = 0
BY DEF Members, Distinct, InOrder

LEMMA Appended ==
  ASSUME NEW S, NEW s \in Seq(S), NEW x \in S
  PROVE  /\ Append(s, x) \in Seq(S)
         /\ Len(Append(s, x)) = Len(s) + 1
         /\ Members(Append(s, x)) = Members(s) \cup {x}
         /\ Distinct(s) /\ x \notin Members(s) => Distinct(Append(s, x))
<1>1. /\ Append(s, x) \in Seq(S) /\ Len(Append(s, x)) = Len(s) + 1
      /\ DOMAIN s = 1..Len(s) /\ DOMAIN Append(s, x) = 1..(Len(s) + 1) /\ Len(s) \in Nat
      /\ \A n \in 1..Len(s) : Append(s, x)[n] = s[n]
      /\ Append(s, x)[Len(s) + 1] = x
  OBVIOUS
<1> DEFINE t == Append(s, x)
<1> HIDE DEF t
<1>2. \A n \in 1..(Len(s) + 1) : n \in 1..Len(s) \/ n = Len(s) + 1
  BY <1>1
<1>3. Members(t) = Members(s) \cup {x}
  BY <1>1, <1>2 DEF Members, t
<1>4. ASSUME Distinct(s), x \notin Members(s) PROVE Distinct(t)
  BY <1>1, <1>2, <1>4 DEF Distinct, Members, t
<1> QED
  BY <1>1, <1>3, <1>4 DEF t

LEMMA ThinnedEmpty ==
  ASSUME NEW s
  PROVE  ThinnedFrom(<<>>, s, 0)
<1>1. DOMAIN <<>> = {}
  OBVIOUS
<1>2. Thins([a \in {} |-> 0], <<>>, s, 0)
  BY <1>1 DEF Thins
<1> QED
  BY <1>2 DEF ThinnedFrom

LEMMA ThinsStay ==
  ASSUME NEW S, NEW t \in Seq(S), NEW s \in Seq(S), NEW n \in 1..Len(s),
         ThinnedFrom(t, s, n - 1)
  PROVE  ThinnedFrom(t, s, n)
<1>1. PICK f : Thins(f, t, s, n - 1)
  BY DEF ThinnedFrom
<1>2. f \in [DOMAIN t -> 1..n]
  BY <1>1 DEF Thins
<1> QED
  BY <1>1, <1>2 DEF Thins, ThinnedFrom

LEMMA ThinsAppend ==
  ASSUME NEW S, NEW t \in Seq(S), NEW s \in Seq(S), NEW n \in 1..Len(s),
         ThinnedFrom(t, s, n - 1)
  PROVE  ThinnedFrom(Append(t, s[n]), s, n)
<1>1. PICK f : Thins(f, t, s, n - 1)
  BY DEF ThinnedFrom
<1> DEFINE x == s[n]
           g == [a \in 1..(Len(t) + 1) |-> IF a = Len(t) + 1 THEN n ELSE f[a]]
<1>2. x \in S
  OBVIOUS
<1> DEFINE u == Append(t, x)
<1>3. /\ DOMAIN u = 1..(Len(t) + 1) /\ DOMAIN t = 1..Len(t) /\ Len(t) \in Nat
      /\ \A a \in 1..Len(t) : u[a] = t[a]
      /\ u[Len(t) + 1] = x
  BY <1>2
<1> HIDE DEF u
<1>4. \A a \in 1..(Len(t) + 1) : a \in 1..Len(t) \/ a = Len(t) + 1
  BY <1>3
<1>5. \A a \in 1..Len(t) : f[a] \in 1..(n - 1) /\ g[a] = f[a]
  BY <1>1, <1>3 DEF Thins
<1>6. g[Len(t) + 1] = n
  BY <1>3
<1>7. g \in [DOMAIN u -> 1..n]
  <2>1. \A a \in 1..(Len(t) + 1) : g[a] \in 1..n
    <3> HIDE DEF g
    <3> QED
      BY <1>4, <1>5, <1>6
  <2> QED
    BY <1>3, <2>1
<1> HIDE DEF g
<1>8. \A a, b \in DOMAIN u : a < b => g[a] < g[b]
  <2> SUFFICES ASSUME NEW a \in DOMAIN u, NEW b \in DOMAIN u, a < b
               PROVE  g[a] < g[b]
    OBVIOUS
  <2>1. a \in 1..Len(t)
    BY <1>3
  <2>2. CASE b \in 1..Len(t)
    BY <1>1, <1>3, <1>5, <2>1, <2>2 DEF Thins
  <2>3. CASE b = Len(t) + 1
    BY <1>5, <1>6, <2>1, <2>3
  <2> QED
    BY <1>3, <1>4, <2>2, <2>3
<1>9. \A a \in DOMAIN u : u[a] = s[g[a]]
  BY <1>1, <1>3, <1>4, <1>5, <1>6 DEF Thins
<1> QED
  BY <1>7, <1>8, <1>9 DEF Thins, ThinnedFrom, u

\* What is thinned out keeps what a list is made for.
LEMMA ThinsKeep ==
  ASSUME NEW S, NEW s \in Seq(S), NEW t \in Seq(S), ThinnedFrom(t, s, Len(s))
  PROVE  /\ Members(t) \subseteq Members(s)
         /\ Distinct(s) => Distinct(t)
         /\ InOrder(s) => InOrder(t)
<1>1. PICK f : Thins(f, t, s, Len(s))
  BY DEF ThinnedFrom
<1>2. DOMAIN s = 1..Len(s) /\ DOMAIN t = 1..Len(t) /\ Len(t) \in Nat
  OBVIOUS
<1>3. /\ \A a \in DOMAIN t : f[a] \in DOMAIN s /\ t[a] = s[f[a]]
      /\ \A a, b \in DOMAIN t : a < b => f[a] < f[b]
  BY <1>1, <1>2 DEF Thins
<1>4. Members(t) \subseteq Members(s)
  BY <1>3 DEF Members
<1>5. ASSUME Distinct(s) PROVE Distinct(t)
  <2> SUFFICES ASSUME NEW a \in DOMAIN t, NEW b \in DOMAIN t, t[a] = t[b] PROVE a = b
    BY DEF Distinct
  <2>1. f[a] = f[b]
    BY <1>3, <1>5 DEF Distinct
  <2>2. f[a] \in Int
    BY <1>2, <1>3
  <2>3. ~(a < b) /\ ~(b < a)
    BY <1>3, <2>1, <2>2
  <2> QED
    BY <1>2, <2>3
<1>6. ASSUME InOrder(s) PROVE InOrder(t)
  BY <1>3, <1>6 DEF InOrder
<1> QED
  BY <1>4, <1>5, <1>6

-----------------------------------------------------------------------------
(* Dropping a job.                                                          *)

\* The function Dropping is the last value of.
IsKept(kept, s, j, length) ==
  kept = [n \in 0..length |->
            IF n = 0 THEN <<>>
            ELSE IF s[n] = j THEN kept[n - 1] ELSE Append(kept[n - 1], s[n])]

LEMMA KeptExists ==
  ASSUME NEW s, NEW j, NEW length \in Nat
  PROVE  \E g : IsKept(g, s, j, length)
<1> DEFINE Step(g, n) == IF n = 0 THEN <<>>
                         ELSE IF s[n] = j THEN g[n - 1] ELSE Append(g[n - 1], s[n])
           Is(g, l) == g = [n \in 0..l |-> Step(g, n)]
           Missing == {l \in Nat : \A g : ~Is(g, l)}
           Less == OpToRel(<, Nat)
<1>1. SUFFICES ASSUME length \in Missing PROVE FALSE
  BY DEF IsKept
<1>2. PICK l \in Missing : \A k \in Missing : ~(<<k, l>> \in Less)
  <2>1. IsWellFoundedOn(Less, Nat) /\ Missing \subseteq Nat /\ Missing # {}
    BY <1>1, NatLessThanWellFounded
  <2> HIDE DEF Missing, Less
  <2> QED
    BY <2>1, WFMin
<1>3. l \in Nat /\ \A k \in Nat : k < l => k \notin Missing
  BY <1>2 DEF OpToRel
<1>4. l # 0
  <2>1. Is([n \in 0..0 |-> <<>>], 0)
    OBVIOUS
  <2> QED
    BY <1>2, <2>1
<1>5. l - 1 \in Nat /\ l - 1 < l
  BY <1>3, <1>4
<1>6. PICK g : Is(g, l - 1)
  BY <1>3, <1>5
<1> DEFINE h == [n \in 0..l |-> IF n = l THEN Step(g, l) ELSE g[n]]
<1>7. \A n \in 0..l : h[n] = Step(h, n)
  <2> SUFFICES ASSUME NEW n \in 0..l PROVE h[n] = Step(h, n)
    OBVIOUS
  <2>1. CASE n = l
    <3>1. h[n] = Step(g, l) /\ h[l - 1] = g[l - 1]
      BY <1>3, <1>5, <2>1
    <3> QED
      BY <1>4, <2>1, <3>1
  <2>2. CASE n # l
    <3>1. n \in 0..(l - 1) /\ h[n] = g[n]
      BY <1>3, <2>2
    <3>2. g[n] = Step(g, n)
      BY <1>6, <3>1
    <3>3. n # 0 => h[n - 1] = g[n - 1]
      BY <1>3, <2>2
    <3> QED
      BY <3>1, <3>2, <3>3
  <2> QED
    BY <2>1, <2>2
<1>8. Is(h, l)
  <2>1. h = [n \in 0..l |-> h[n]]
    OBVIOUS
  <2> HIDE DEF h
  <2> QED
    BY <1>7, <2>1
<1> QED
  BY <1>2, <1>8

LEMMA Dropped ==
  ASSUME NEW S, NEW s \in Seq(S), NEW j
  PROVE  /\ Dropping(s, j) \in Seq(S)
         /\ Members(Dropping(s, j)) = Members(s) \ {j}
         /\ ThinnedFrom(Dropping(s, j), s, Len(s))
<1> DEFINE kept == CHOOSE g : IsKept(g, s, j, Len(s))
           Good(n) == /\ kept[n] \in Seq(S)
                      /\ Members(kept[n]) = {s[i] : i \in 1..n} \ {j}
                      /\ ThinnedFrom(kept[n], s, n)
<1>1. Len(s) \in Nat /\ DOMAIN s = 1..Len(s) /\ \A n \in 1..Len(s) : s[n] \in S
  OBVIOUS
<1>2. Dropping(s, j) = kept[Len(s)]
  BY DEF Dropping, IsKept
<1>3. kept = [n \in 0..Len(s) |->
                IF n = 0 THEN <<>>
                ELSE IF s[n] = j THEN kept[n - 1] ELSE Append(kept[n - 1], s[n])]
  <2>1. IsKept(kept, s, j, Len(s))
    BY <1>1, KeptExists
  <2> HIDE DEF kept
  <2> QED
    BY <2>1 DEF IsKept
<1> HIDE DEF kept
<1>4. Good(0)
  <2>1. kept[0] = <<>>
    BY <1>1, <1>3
  <2>2. {s[i] : i \in 1..0} = {}
    OBVIOUS
  <2>3. ThinnedFrom(<<>>, s, 0)
    BY ThinnedEmpty
  <2>4. <<>> \in Seq(S) /\ Members(<<>>) = {}
    BY EmptyList
  <2> QED
    BY <2>1, <2>2, <2>3, <2>4
<1>5. ASSUME NEW n \in 1..Len(s), Good(n - 1) PROVE Good(n)
  <2>1. {s[i] : i \in 1..n} = {s[i] : i \in 1..(n - 1)} \cup {s[n]}
    <3>1. \A i \in 1..n : i \in 1..(n - 1) \/ i = n
      OBVIOUS
    <3>2. n \in 1..n /\ \A i \in 1..(n - 1) : i \in 1..n
      OBVIOUS
    <3> QED
      BY <3>1, <3>2
  <2>2. n \in 0..Len(s) /\ n # 0
    BY <1>1
  <2>3. CASE s[n] = j
    <3>1. kept[n] = kept[n - 1]
      BY <1>3, <2>2, <2>3
    <3>2. ThinnedFrom(kept[n - 1], s, n)
      BY <1>5, ThinsStay
    <3> QED
      BY <1>5, <2>1, <2>3, <3>1, <3>2
  <2>4. CASE s[n] # j
    <3>1. kept[n] = Append(kept[n - 1], s[n])
      BY <1>3, <2>2, <2>4
    <3>2. ThinnedFrom(Append(kept[n - 1], s[n]), s, n)
      BY <1>5, ThinsAppend
    <3>3. s[n] \in S
      BY <1>1
    <3>4. /\ Append(kept[n - 1], s[n]) \in Seq(S)
          /\ Members(Append(kept[n - 1], s[n])) = Members(kept[n - 1]) \cup {s[n]}
      BY <1>5, <3>3, Appended
    <3> QED
      BY <1>5, <2>1, <2>4, <3>1, <3>2, <3>4
  <2> QED
    BY <2>3, <2>4
<1> DEFINE Bad == {n \in 0..Len(s) : ~Good(n)}
           Less == OpToRel(<, Nat)
<1>6. Bad = {}
  <2> SUFFICES ASSUME Bad # {} PROVE FALSE
    OBVIOUS
  <2>1. PICK n \in Bad : \A k \in Bad : ~(<<k, n>> \in Less)
    <3>1. IsWellFoundedOn(Less, Nat)
      BY NatLessThanWellFounded
    <3>2. Bad \subseteq Nat
      BY <1>1
    <3> HIDE DEF Bad, Less
    <3> QED
      BY <3>1, <3>2, WFMin
  <2> HIDE DEF Good
  <2>2. n \in 0..Len(s) /\ ~Good(n)
    OBVIOUS
  <2>3. n # 0
    BY <1>4, <2>2
  <2>4. n - 1 \in 0..Len(s) /\ n \in 1..Len(s)
    BY <1>1, <2>2, <2>3
  <2>5. <<n - 1, n>> \in Less
    BY <1>1, <2>2, <2>4 DEF OpToRel
  <2>6. Good(n - 1)
    BY <2>1, <2>4, <2>5
  <2> QED
    BY <1>5, <2>2, <2>4, <2>6
<1>7. Good(Len(s))
  <2> HIDE DEF Good
  <2> QED
    BY <1>1, <1>6
<1> QED
  BY <1>1, <1>2, <1>7 DEF Members

-----------------------------------------------------------------------------
(* Sorting.  The relation "goes before" is a strict total order on the      *)
(* positions of a list, so that no two have one rank, and every rank is     *)
(* taken: there are as many as positions.                                   *)

IsOrder(order) ==
  /\ \A i, j \in Jobs : j \in order[i] \/ i \in order[j]
  /\ \A i, j, k \in Jobs : j \in order[i] /\ k \in order[j] => k \in order[i]

Below(s, order, a) == {b \in DOMAIN s : b # a /\ Before(s, order, b, a)}

LEMMA BeforeIsStrict ==
  ASSUME NEW order, IsOrder(order), NEW s \in Seq(Jobs)
  PROVE  /\ \A a, b \in DOMAIN s :
              a # b => Before(s, order, a, b) \/ Before(s, order, b, a)
         /\ \A a, b \in DOMAIN s :
              Before(s, order, a, b) => ~Before(s, order, b, a)
         /\ \A a, b, c \in DOMAIN s :
              Before(s, order, a, b) /\ Before(s, order, b, c) => Before(s, order, a, c)
<1>1. \A a \in DOMAIN s : s[a] \in Jobs /\ a \in Int
  OBVIOUS
<1>2. ASSUME NEW a \in DOMAIN s, NEW b \in DOMAIN s, a # b
      PROVE  Before(s, order, a, b) \/ Before(s, order, b, a)
  <2>1. a < b \/ b < a
    BY <1>1, <1>2
  <2> QED
    BY <1>1, <2>1 DEF Before, IsOrder
<1>3. ASSUME NEW a \in DOMAIN s, NEW b \in DOMAIN s, Before(s, order, a, b)
      PROVE  ~Before(s, order, b, a)
  <2>1. ~(a < b /\ b < a)
    BY <1>1
  <2> QED
    BY <1>3, <2>1 DEF Before
<1>4. ASSUME NEW a \in DOMAIN s, NEW b \in DOMAIN s, NEW c \in DOMAIN s,
             Before(s, order, a, b), Before(s, order, b, c)
      PROVE  Before(s, order, a, c)
  <2>1. s[b] \in order[s[a]] /\ s[c] \in order[s[b]] /\ s[c] \in order[s[a]]
    BY <1>1, <1>4 DEF Before, IsOrder
  <2>2. ASSUME s[a] \in order[s[c]] PROVE a < c
    <3>1. s[b] \in order[s[c]] /\ s[a] \in order[s[b]]
      BY <1>1, <2>1, <2>2 DEF IsOrder
    <3>2. a < b /\ b < c
      BY <1>4, <3>1 DEF Before
    <3> QED
      BY <1>1, <3>2
  <2> QED
    BY <2>1, <2>2 DEF Before
<1> QED
  BY <1>2, <1>3, <1>4

LEMMA Ranks ==
  ASSUME NEW order, IsOrder(order), NEW s \in Seq(Jobs)
  PROVE  /\ \A a \in DOMAIN s : Rank(s, order, a) \in DOMAIN s
         /\ \A a, b \in DOMAIN s :
              Before(s, order, a, b) => Rank(s, order, a) < Rank(s, order, b)
         /\ \A n \in DOMAIN s : \E a \in DOMAIN s : Rank(s, order, a) = n
<1> DEFINE D == DOMAIN s
<1>1. D = 1..Len(s) /\ Len(s) \in Nat /\ IsFiniteSet(D) /\ Cardinality(D) = Len(s)
  <2>1. D = 1..Len(s) /\ Len(s) \in Nat
    OBVIOUS
  <2>2. IsFiniteSet(1..Len(s)) /\ Cardinality(1..Len(s)) = Len(s)
    BY <2>1, FS_Interval
  <2> QED
    BY <2>1, <2>2
<1> HIDE DEF D
<1>2. \A a \in D : /\ IsFiniteSet(Below(s, order, a))
                   /\ Cardinality(Below(s, order, a)) \in 0..(Len(s) - 1)
                   /\ Rank(s, order, a) = Cardinality(Below(s, order, a)) + 1
  <2> TAKE a \in D
  <2>1. IsFiniteSet(D \ {a}) /\ Cardinality(D \ {a}) = Len(s) - 1
    <3>1. IsFiniteSet(D) /\ Cardinality(D) = Len(s) /\ a \in D
      BY <1>1
    <3>2. /\ IsFiniteSet(D \ {a})
          /\ Cardinality(D \ {a}) = IF a \in D THEN Cardinality(D) - 1
                                              ELSE Cardinality(D)
      BY <3>1, FS_RemoveElement, Zenon
    <3> QED
      BY <3>1, <3>2
  <2>2. Below(s, order, a) \in SUBSET (D \ {a})
    BY DEF Below, D
  <2>3. IsFiniteSet(Below(s, order, a)) /\ Cardinality(Below(s, order, a)) <= Len(s) - 1
    BY <2>1, <2>2, FS_Subset
  <2>4. Cardinality(Below(s, order, a)) \in Nat
    BY <2>3, FS_CardinalityType
  <2>5. Rank(s, order, a) = Cardinality(Below(s, order, a)) + 1
    BY DEF Rank, Below
  <2> QED
    BY <1>1, <2>3, <2>4, <2>5
<1>3. \A a \in D : Rank(s, order, a) \in D
  BY <1>1, <1>2
<1>4. ASSUME NEW a \in D, NEW b \in D, Before(s, order, a, b)
      PROVE  Rank(s, order, a) < Rank(s, order, b)
  <2>1. ~Before(s, order, b, a)
    BY <1>4, BeforeIsStrict DEF D
  <2>2. a # b
    BY <1>4, <2>1
  <2>3. a \in Below(s, order, b) /\ a \notin Below(s, order, a)
    BY <1>4, <2>2 DEF Below, D
  <2>4. Below(s, order, a) \in SUBSET Below(s, order, b)
    <3> SUFFICES ASSUME NEW c \in Below(s, order, a) PROVE c \in Below(s, order, b)
      OBVIOUS
    <3>1. c \in D /\ Before(s, order, c, a)
      BY DEF Below, D
    <3>2. Before(s, order, c, b) /\ c # b
      BY <1>4, <2>1, <3>1, BeforeIsStrict DEF D
    <3> QED
      BY <3>1, <3>2 DEF Below, D
  <2>5. /\ Cardinality(Below(s, order, a)) <= Cardinality(Below(s, order, b))
        /\ Cardinality(Below(s, order, a)) # Cardinality(Below(s, order, b))
    BY <1>2, <2>3, <2>4, FS_Subset
  <2> QED
    BY <1>2, <2>5
<1> DEFINE rank == [a \in D |-> Rank(s, order, a)]
<1>5. rank \in Injection(D, D)
  <2>1. rank \in [D -> D]
    BY <1>3
  <2>2. ASSUME NEW a \in D, NEW b \in D, rank[a] = rank[b] PROVE a = b
    <3>1. Rank(s, order, a) = Rank(s, order, b) /\ Rank(s, order, a) \in Int
      BY <1>1, <1>3, <2>2
    <3>2. ~Before(s, order, a, b) /\ ~Before(s, order, b, a)
      BY <1>4, <3>1
    <3> QED
      BY <3>2, BeforeIsStrict DEF D
  <2> HIDE DEF rank
  <2> QED
    BY <2>1, <2>2 DEF Injection, IsInjective
<1>6. rank \in Surjection(D, D)
  <2> HIDE DEF rank
  <2> QED
    BY <1>1, <1>5, FS_Injection
<1>7. \A n \in D : \E a \in D : Rank(s, order, a) = n
  BY <1>6 DEF Surjection
<1> QED
  BY <1>3, <1>4, <1>7 DEF D

LEMMA SortedList ==
  ASSUME NEW order, IsOrder(order), NEW s \in Seq(Jobs)
  PROVE  /\ Sorted(s, order) \in Seq(Jobs)
         /\ Len(Sorted(s, order)) = Len(s)
         /\ Members(Sorted(s, order)) = Members(s)
         /\ Distinct(s) => Distinct(Sorted(s, order))
         /\ \A m, n \in DOMAIN Sorted(s, order) :
              m < n => Sorted(s, order)[n] \in order[Sorted(s, order)[m]]
<1> DEFINE D == DOMAIN s
           t == Sorted(s, order)
           place(n) == CHOOSE a \in D : Rank(s, order, a) = n
<1>1. D = 1..Len(s) /\ Len(s) \in Nat /\ \A a \in D : s[a] \in Jobs
  OBVIOUS
<1>2. \A n \in D : place(n) \in D /\ Rank(s, order, place(n)) = n
  BY Ranks
<1>3. DOMAIN t = D /\ \A n \in D : t[n] = s[place(n)]
  BY DEF Sorted
<1> HIDE DEF place, D
<1>4. \A n \in D : t[n] \in Jobs
  BY <1>1, <1>2, <1>3
<1>5. t = [n \in 1..Len(s) |-> t[n]]
  BY <1>1 DEF Sorted, D
<1> HIDE DEF t
<1>6. t \in Seq(Jobs) /\ Len(t) = Len(s)
  BY <1>1, <1>4, <1>5
<1>7. \A a \in D : place(Rank(s, order, a)) = a
  <2> TAKE a \in D
  <2>1. Rank(s, order, a) \in D
    BY Ranks DEF D
  <2>2. /\ place(Rank(s, order, a)) \in D
        /\ Rank(s, order, place(Rank(s, order, a))) = Rank(s, order, a)
    BY <1>2, <2>1
  <2>3. \A b, c \in D : b # c => Rank(s, order, b) # Rank(s, order, c)
    <3> SUFFICES ASSUME NEW b \in D, NEW c \in D, b # c
                 PROVE  Rank(s, order, b) # Rank(s, order, c)
      OBVIOUS
    <3>1. Before(s, order, b, c) \/ Before(s, order, c, b)
      BY BeforeIsStrict DEF D
    <3>2. /\ Rank(s, order, b) < Rank(s, order, c) \/ Rank(s, order, c) < Rank(s, order, b)
          /\ Rank(s, order, b) \in D /\ Rank(s, order, c) \in D
      BY <3>1, Ranks DEF D
    <3> QED
      BY <1>1, <3>2
  <2> QED
    BY <2>2, <2>3
<1>8. Members(t) = Members(s)
  <2>1. \A a \in D : Rank(s, order, a) \in D
    BY Ranks DEF D
  <2>2. \A a \in D : \E n \in D : t[n] = s[a]
    BY <1>3, <1>7, <2>1
  <2>3. \A n \in D : \E a \in D : t[n] = s[a]
    BY <1>2, <1>3
  <2> QED
    BY <1>3, <2>2, <2>3 DEF Members, D
<1>9. ASSUME Distinct(s) PROVE Distinct(t)
  <2> SUFFICES ASSUME NEW m \in D, NEW n \in D, t[m] = t[n] PROVE m = n
    BY <1>3 DEF Distinct
  <2>1. place(m) = place(n)
    BY <1>2, <1>3, <1>9 DEF Distinct, D
  <2> QED
    BY <1>2, <2>1
<1>10. ASSUME NEW m \in D, NEW n \in D, m < n PROVE t[n] \in order[t[m]]
  <2>1. place(m) \in D /\ place(n) \in D /\ Rank(s, order, place(m)) = m
        /\ Rank(s, order, place(n)) = n
    BY <1>2
  <2>2. m # n /\ ~(n < m)
    BY <1>1, <1>10
  <2>3. Before(s, order, place(m), place(n))
    <3>1. place(m) # place(n)
      BY <2>1, <2>2
    <3>2. ~Before(s, order, place(n), place(m))
      BY <2>1, <2>2, Ranks DEF D
    <3> QED
      BY <2>1, <3>1, <3>2, BeforeIsStrict DEF D
  <2> QED
    BY <1>3, <2>3 DEF Before
<1> QED
  BY <1>3, <1>6, <1>8, <1>9, <1>10 DEF t

-----------------------------------------------------------------------------
(* Assignment.                                                              *)

LEMMA BestIsOne ==
  ASSUME NEW ws, NEW C, IsFiniteSet(C), C # {}, C \subseteq Nat,
         \A w \in C : Room(ws, w) \in Int
  PROVE  Best(ws, C) \in C
<1> DEFINE Beats(v, w) == Room(ws, v) > Room(ws, w)
                          \/ (Room(ws, v) = Room(ws, w) /\ v < w)
           Over(w) == {v \in C : Beats(v, w)}
           Counts == {Cardinality(Over(w)) : w \in C}
           Less == OpToRel(<, Nat)
<1>1. \A w \in C : IsFiniteSet(Over(w)) /\ Cardinality(Over(w)) \in Nat
  <2> TAKE w \in C
  <2>1. Over(w) \in SUBSET C
    OBVIOUS
  <2>2. IsFiniteSet(Over(w))
    BY <2>1, FS_Subset
  <2> QED
    BY <2>2, FS_CardinalityType
<1>2. PICK w \in C : \A v \in C : ~(Cardinality(Over(v)) < Cardinality(Over(w)))
  <2>1. PICK n \in Counts : \A m \in Counts : ~(<<m, n>> \in Less)
    <3>1. Counts \subseteq Nat /\ Counts # {}
      BY <1>1
    <3>2. IsWellFoundedOn(Less, Nat)
      BY NatLessThanWellFounded
    <3> HIDE DEF Counts, Less
    <3> QED
      BY <3>1, <3>2, WFMin
  <2>2. PICK w \in C : n = Cardinality(Over(w))
    OBVIOUS
  <2>3. ASSUME NEW v \in C, Cardinality(Over(v)) < Cardinality(Over(w)) PROVE FALSE
    <3>1. Cardinality(Over(v)) \in Nat /\ n \in Nat
      BY <1>1, <2>2
    <3>2. <<Cardinality(Over(v)), n>> \in Less
      BY <2>2, <2>3, <3>1 DEF OpToRel
    <3>3. Cardinality(Over(v)) \in Counts
      OBVIOUS
    <3> QED
      BY <2>1, <3>2, <3>3
  <2> QED
    BY <2>3
<1>3. ASSUME NEW v \in C PROVE ~Beats(v, w)
  <2> SUFFICES ASSUME Beats(v, w) PROVE FALSE
    OBVIOUS
  <2>1. /\ v \in Int /\ w \in Int /\ Room(ws, v) \in Int /\ Room(ws, w) \in Int
        /\ \A u \in C : u \in Int /\ Room(ws, u) \in Int
    OBVIOUS
  <2>2. v \in Over(w) /\ v \notin Over(v)
    BY <2>1
  <2>3. Over(v) \in SUBSET Over(w)
    <3> SUFFICES ASSUME NEW u \in C, Beats(u, v) PROVE Beats(u, w)
      OBVIOUS
    <3>1. Room(ws, u) \in Int /\ u \in Int
      BY <2>1
    <3> QED
      BY <2>1, <3>1
  <2>4. /\ Cardinality(Over(v)) <= Cardinality(Over(w))
        /\ Cardinality(Over(v)) # Cardinality(Over(w))
    <3>1. IsFiniteSet(Over(w))
      BY <1>1
    <3> HIDE DEF Over
    <3> QED
      BY <2>2, <2>3, <3>1, FS_Subset
  <2>5. Cardinality(Over(v)) \in Nat /\ Cardinality(Over(w)) \in Nat
    BY <1>1
  <2> HIDE DEF Over
  <2> QED
    BY <1>2, <2>4, <2>5
<1>4. \A v \in C : Room(ws, w) > Room(ws, v) \/ (Room(ws, w) = Room(ws, v) /\ w <= v)
  <2> TAKE v \in C
  <2>1. v \in Int /\ w \in Int /\ Room(ws, v) \in Int /\ Room(ws, w) \in Int
    OBVIOUS
  <2> QED
    BY <1>3, <2>1
<1> QED
  BY <1>4 DEF Best

IsFunction(f) == f = [x \in DOMAIN f |-> f[x]]

\* The registered nodes, and the running jobs, as their classes allow.
NodeOK(node, w) ==
  /\ node = [running |-> node.running, completed |-> node.completed,
             status |-> node.status]
  /\ node.running \in Seq(Jobs) /\ Distinct(node.running)
  /\ Len(node.running) <= Capacity[w]
  /\ node.completed \in Nat /\ node.status \in Statuses

NodesOK(ws) ==
  /\ IsFunction(ws)
  /\ DOMAIN ws \subseteq Workers /\ IsFiniteSet(DOMAIN ws)
  /\ \A w \in DOMAIN ws : NodeOK(ws[w], w)

RunningOK(r) ==
  /\ IsFunction(r)
  /\ DOMAIN r \subseteq Jobs /\ IsFiniteSet(DOMAIN r)
  /\ \A j \in DOMAIN r : r[j] \in [status : {"ASSIGNED", "RUNNING"}, worker : Workers]

\* A node lists the jobs it was given, but for those it lost when it left.
Agree(ws, r, lost) ==
  /\ \A w \in DOMAIN ws :
       Members(ws[w].running) = {j \in DOMAIN r \ lost : r[j].worker = w}
  /\ \A j \in DOMAIN r \ lost : r[j].worker \in DOMAIN ws

Given(ws, w, j) == [ws EXCEPT ![w].running = Append(@, j)]

Taken(r, j, w) == With(r, j, [status |-> "ASSIGNED", worker |-> w])

Listing(node, list) == [node EXCEPT !.running = list]

LEMMA ListingFacts ==
  ASSUME NEW node, node = [running |-> node.running, completed |-> node.completed,
                           status |-> node.status], NEW list
  PROVE  Listing(node, list) = [running |-> list, completed |-> node.completed,
                                status |-> node.status]
BY DEF Listing

LEMMA WithFacts ==
  ASSUME NEW f, NEW k, NEW v
  PROVE  /\ DOMAIN With(f, k, v) = DOMAIN f \cup {k}
         /\ IsFunction(With(f, k, v))
         /\ With(f, k, v)[k] = v
         /\ \A x \in DOMAIN f : x # k => With(f, k, v)[x] = f[x]
BY DEF With, IsFunction

LEMMA WithoutFacts ==
  ASSUME NEW f, NEW k
  PROVE  /\ DOMAIN Without(f, k) = DOMAIN f \ {k}
         /\ IsFunction(Without(f, k))
         /\ \A x \in DOMAIN f : x # k => Without(f, k)[x] = f[x]
BY DEF Without, IsFunction

LEMMA GivenFacts ==
  ASSUME NEW ws, NodesOK(ws), NEW w \in DOMAIN ws, NEW j \in Jobs,
         j \notin Members(ws[w].running), Room(ws, w) > 0
  PROVE  /\ NodesOK(Given(ws, w, j)) /\ DOMAIN Given(ws, w, j) = DOMAIN ws
         /\ Members(Given(ws, w, j)[w].running) = Members(ws[w].running) \cup {j}
         /\ \A v \in DOMAIN ws : v # w => Given(ws, w, j)[v] = ws[v]
<1> DEFINE list == Append(ws[w].running, j)
           node == [running |-> list, completed |-> ws[w].completed,
                    status |-> ws[w].status]
<1>1. NodeOK(ws[w], w) /\ ws = [v \in DOMAIN ws |-> ws[v]]
  BY DEF NodesOK, IsFunction
<1>2. /\ list \in Seq(Jobs) /\ Distinct(list) /\ Len(list) = Len(ws[w].running) + 1
      /\ Members(list) = Members(ws[w].running) \cup {j}
  BY <1>1, Appended DEF NodeOK
<1>3. Given(ws, w, j) = [v \in DOMAIN ws |-> IF v = w THEN node ELSE ws[v]]
  <2>1. Given(ws, w, j) = [v \in DOMAIN ws |-> IF v = w THEN Listing(ws[w], list) ELSE ws[v]]
    BY <1>1 DEF Given, Listing
  <2>2. Listing(ws[w], list) = node
    BY <1>1, ListingFacts DEF NodeOK
  <2> QED
    BY <2>1, <2>2
<1>4. Len(list) <= Capacity[w]
  <2>1. Capacity[w] \in Nat /\ Len(ws[w].running) \in Nat
    BY <1>1, ClusterAssumption DEF NodesOK, NodeOK
  <2> QED
    BY <1>2, <2>1 DEF Room
<1> HIDE DEF list
<1>5. NodeOK(node, w) /\ node.running = list
  BY <1>1, <1>2, <1>4 DEF NodeOK
<1> HIDE DEF node
<1>6. /\ DOMAIN Given(ws, w, j) = DOMAIN ws /\ Given(ws, w, j)[w] = node
      /\ \A v \in DOMAIN ws : v # w => Given(ws, w, j)[v] = ws[v]
  BY <1>3
<1>7. IsFunction(Given(ws, w, j))
  BY <1>3, <1>6 DEF IsFunction
<1>8. \A v \in DOMAIN ws : NodeOK(Given(ws, w, j)[v], v)
  BY <1>5, <1>6 DEF NodesOK
<1>9. NodesOK(Given(ws, w, j))
  BY <1>6, <1>7, <1>8 DEF NodesOK
<1> QED
  BY <1>2, <1>5, <1>6, <1>9

\* Nodes and running jobs that agree, and a free node for a job that waits.
Offered(ws, r, lost, w, j) ==
  /\ NodesOK(ws) /\ RunningOK(r) /\ Agree(ws, r, lost)
  /\ w \in DOMAIN ws /\ Room(ws, w) > 0
  /\ j \in Jobs /\ j \notin DOMAIN r /\ j \notin lost

\* They agree when it has the job.
Accepted(ws, r, lost, w, j) ==
  /\ NodesOK(Given(ws, w, j)) /\ RunningOK(Taken(r, j, w))
  /\ Agree(Given(ws, w, j), Taken(r, j, w), lost)
  /\ DOMAIN Given(ws, w, j) = DOMAIN ws
  /\ DOMAIN Taken(r, j, w) = DOMAIN r \cup {j}

LEMMA GivenAgrees ==
  ASSUME NEW ws, NEW r, NEW lost, NEW w, NEW j, Offered(ws, r, lost, w, j)
  PROVE  Accepted(ws, r, lost, w, j)
<1> USE DEF Offered
<1> DEFINE given == Given(ws, w, j)
           entry == [status |-> "ASSIGNED", worker |-> w]
           now == With(r, j, entry)
<1>1. j \notin Members(ws[w].running)
  BY DEF Agree
<1>2. /\ NodesOK(given) /\ DOMAIN given = DOMAIN ws
      /\ Members(given[w].running) = Members(ws[w].running) \cup {j}
      /\ \A v \in DOMAIN ws : v # w => given[v] = ws[v]
  BY <1>1, GivenFacts
<1>3. entry \in [status : {"ASSIGNED", "RUNNING"}, worker : Workers] /\ entry.worker = w
  BY DEF NodesOK
<1> HIDE DEF given, entry
<1>4. /\ DOMAIN now = DOMAIN r \cup {j} /\ IsFunction(now)
      /\ now[j] = entry /\ \A x \in DOMAIN r : now[x] = r[x]
  <2>1. /\ DOMAIN now = DOMAIN r \cup {j} /\ IsFunction(now)
        /\ now[j] = entry /\ \A x \in DOMAIN r : x # j => now[x] = r[x]
    BY DEF With, IsFunction
  <2> HIDE DEF now
  <2> QED
    BY <2>1
<1> HIDE DEF now
<1>5. RunningOK(now)
  <2>1. IsFiniteSet(DOMAIN now)
    BY <1>4, FS_AddElement DEF RunningOK
  <2> QED
    BY <1>3, <1>4, <2>1 DEF RunningOK
<1>6. ASSUME NEW v \in DOMAIN given
      PROVE  Members(given[v].running) = {x \in DOMAIN now \ lost : now[x].worker = v}
  <2>1. Members(ws[v].running) = {x \in DOMAIN r \ lost : r[x].worker = v}
    BY <1>2 DEF Agree
  <2>2. CASE v = w
    BY <1>2, <1>3, <1>4, <2>1, <2>2
  <2>3. CASE v # w
    BY <1>2, <1>3, <1>4, <2>1, <2>3
  <2> QED
    BY <2>2, <2>3
<1>7. \A x \in DOMAIN now \ lost : now[x].worker \in DOMAIN given
  BY <1>2, <1>3, <1>4 DEF Agree
<1> QED
  BY <1>2, <1>4, <1>5, <1>6, <1>7 DEF Agree, given, now, entry, Taken, Accepted

\* What an assignment has done when it has gone through the first n of q.
SoFar(acc, q, n) ==
  /\ acc = [queue |-> acc.queue, workers |-> acc.workers, running |-> acc.running]
  /\ acc.queue \in Seq(Jobs) /\ ThinnedFrom(acc.queue, q, n)
  /\ NodesOK(acc.workers) /\ RunningOK(acc.running)
  /\ Agree(acc.workers, acc.running, orphaned)
  /\ DOMAIN acc.workers = Registered
  /\ Running \subseteq DOMAIN acc.running
  /\ Members(acc.queue) \cup DOMAIN acc.running = Running \cup {q[i] : i \in 1..n}
  /\ Members(acc.queue) \cap DOMAIN acc.running = {}

\* A queue an assignment may go through.
Assignable(q) ==
  /\ q \in Seq(Jobs) /\ Distinct(q) /\ Members(q) \cap Running = {}
  /\ NodesOK(workers) /\ RunningOK(running_jobs)
  /\ Agree(workers, running_jobs, orphaned) /\ orphaned \subseteq Running

LEMMA QueuedAgain ==
  ASSUME NEW acc, acc = [queue |-> acc.queue, workers |-> acc.workers,
                         running |-> acc.running], NEW C, C = {}, NEW j
  PROVE  Place(acc, j, C) = [queue |-> Append(acc.queue, j), workers |-> acc.workers,
                             running |-> acc.running]
BY DEF Place

LEMMA GivenToOne ==
  ASSUME NEW acc, NEW C, C # {}, NEW j
  PROVE  LET w == Best(acc.workers, C)
         IN  Place(acc, j, C) = [queue |-> acc.queue, workers |-> Given(acc.workers, w, j),
               running |-> Taken(acc.running, j, w)]
BY DEF Place, Given, Taken

LEMMA PlacedFacts ==
  ASSUME NEW q, Assignable(q), NEW n \in 1..Len(q), NEW acc, SoFar(acc, q, n - 1), NEW asked
  PROVE  SoFar(Place(acc, q[n], Candidates(acc.workers, q[n], asked)), q, n)
<1> DEFINE j == q[n]
           C == Candidates(acc.workers, j, asked)
           next == Place(acc, j, C)
<1>1. q \in Seq(Jobs) /\ DOMAIN q = 1..Len(q) /\ Len(q) \in Nat /\ j \in Jobs /\ n \in DOMAIN q
  BY DEF Assignable
<1>2. {q[i] : i \in 1..n} = {q[i] : i \in 1..(n - 1)} \cup {j}
  <2>1. \A i \in 1..n : i \in 1..(n - 1) \/ i = n
    OBVIOUS
  <2>2. n \in 1..n /\ \A i \in 1..(n - 1) : i \in 1..n
    OBVIOUS
  <2> QED
    BY <2>1, <2>2
<1>3. j \notin {q[i] : i \in 1..(n - 1)} /\ j \notin Running
  <2>1. \A i \in 1..(n - 1) : i \in DOMAIN q /\ i # n
    BY <1>1
  <2>2. j \in Members(q)
    BY <1>1 DEF Members
  <2> QED
    BY <1>1, <2>1, <2>2 DEF Assignable, Distinct
<1>4. j \notin DOMAIN acc.running /\ j \notin Members(acc.queue) /\ j \notin orphaned
  BY <1>3 DEF SoFar, Assignable
<1> HIDE DEF C, j
<1>5. CASE C = {}
  <2>1. next = [queue |-> Append(acc.queue, j), workers |-> acc.workers,
                running |-> acc.running]
    BY <1>5, QueuedAgain DEF SoFar
  <2>2. /\ Append(acc.queue, j) \in Seq(Jobs)
        /\ Members(Append(acc.queue, j)) = Members(acc.queue) \cup {j}
    BY <1>1, Appended DEF SoFar
  <2>3. ThinnedFrom(Append(acc.queue, j), q, n)
    BY <1>1, ThinsAppend DEF SoFar, j
  <2> DEFINE list == Append(acc.queue, j)
  <2> HIDE DEF next, list
  <2>4. /\ next.queue = list /\ next.workers = acc.workers /\ next.running = acc.running
        /\ next = [queue |-> next.queue, workers |-> next.workers, running |-> next.running]
    BY <2>1 DEF list
  <2>5. /\ Members(list) \cup DOMAIN acc.running = Running \cup {q[i] : i \in 1..n}
        /\ Members(list) \cap DOMAIN acc.running = {}
    BY <1>2, <1>4, <2>2 DEF SoFar, list
  <2> HIDE DEF list
  <2>6. list \in Seq(Jobs) /\ ThinnedFrom(list, q, n)
    BY <2>2, <2>3 DEF list
  <2>7. SoFar(next, q, n)
    BY <2>4, <2>5, <2>6 DEF SoFar
  <2> QED
    BY <2>7 DEF next, j, C
<1>6. CASE C # {}
  <2> DEFINE w == Best(acc.workers, C)
             given == Given(acc.workers, w, j)
             now == Taken(acc.running, j, w)
  <2>1. next = [queue |-> acc.queue, workers |-> given, running |-> now]
    BY <1>6, GivenToOne
  <2>2. w \in C
    <3>1. C \in SUBSET DOMAIN acc.workers /\ IsFiniteSet(DOMAIN acc.workers)
          /\ DOMAIN acc.workers \subseteq Nat
      BY ClusterAssumption DEF C, Candidates, Free, SoFar, NodesOK
    <3>2. IsFiniteSet(C)
      BY <3>1, FS_Subset
    <3>3. \A v \in C : Room(acc.workers, v) \in Int
      <4> TAKE v \in C
      <4>1. NodeOK(acc.workers[v], v) /\ v \in Workers
        BY <3>1 DEF SoFar, NodesOK
      <4>2. Capacity[v] \in Nat /\ Len(acc.workers[v].running) \in Nat
        BY <4>1, ClusterAssumption DEF NodeOK
      <4> QED
        BY <4>2 DEF Room
    <3> QED
      BY <1>6, <3>1, <3>2, <3>3, BestIsOne
  <2>3. w \in DOMAIN acc.workers /\ Room(acc.workers, w) > 0
    BY <2>2 DEF C, Candidates, Free
  <2> HIDE DEF w
  <2>4. /\ NodesOK(given) /\ RunningOK(now) /\ Agree(given, now, orphaned)
        /\ DOMAIN given = DOMAIN acc.workers /\ DOMAIN now = DOMAIN acc.running \cup {j}
    <3>1. Offered(acc.workers, acc.running, orphaned, w, j)
      BY <1>1, <1>4, <2>3 DEF SoFar, Offered
    <3>2. Accepted(acc.workers, acc.running, orphaned, w, j)
      BY <3>1, GivenAgrees
    <3> QED
      BY <3>2 DEF Accepted
  <2>5. ThinnedFrom(acc.queue, q, n)
    BY <1>1, ThinsStay DEF SoFar
  <2> HIDE DEF next, given, now
  <2>6. /\ next.queue = acc.queue /\ next.workers = given /\ next.running = now
        /\ next = [queue |-> next.queue, workers |-> next.workers, running |-> next.running]
    BY <2>1
  <2>7. /\ Members(acc.queue) \cup DOMAIN now = Running \cup {q[i] : i \in 1..n}
        /\ Members(acc.queue) \cap DOMAIN now = {}
        /\ Running \subseteq DOMAIN now
    BY <1>2, <1>4, <2>4 DEF SoFar
  <2>8. acc.queue \in Seq(Jobs) /\ DOMAIN given = Registered
    BY <2>4 DEF SoFar
  <2>9. SoFar(next, q, n)
    BY <2>4, <2>5, <2>6, <2>7, <2>8 DEF SoFar
  <2> QED
    BY <2>9 DEF next, j, C
<1> QED
  BY <1>5, <1>6

\* The function an assignment is the last value of.
IsAfter(after, q, asked, length) ==
  after = [n \in 0..length |->
             IF n = 0 THEN [queue |-> <<>>, workers |-> workers, running |-> running_jobs]
             ELSE Place(after[n - 1], q[n], Candidates(after[n - 1].workers, q[n], asked))]

LEMMA AfterExists ==
  ASSUME NEW q, NEW asked, NEW length \in Nat
  PROVE  \E g : IsAfter(g, q, asked, length)
<1> DEFINE first == [queue |-> <<>>, workers |-> workers, running |-> running_jobs]
           Step(g, n) == IF n = 0 THEN first
                         ELSE Place(g[n - 1], q[n], Candidates(g[n - 1].workers, q[n], asked))
           Is(g, l) == g = [n \in 0..l |-> Step(g, n)]
           Missing == {l \in Nat : \A g : ~Is(g, l)}
           Less == OpToRel(<, Nat)
<1>1. SUFFICES ASSUME length \in Missing PROVE FALSE
  BY DEF IsAfter
<1> HIDE DEF first
<1>2. PICK l \in Missing : \A k \in Missing : ~(<<k, l>> \in Less)
  <2>1. IsWellFoundedOn(Less, Nat) /\ Missing \subseteq Nat /\ Missing # {}
    BY <1>1, NatLessThanWellFounded
  <2> HIDE DEF Missing, Less
  <2> QED
    BY <2>1, WFMin
<1>3. l \in Nat /\ \A k \in Nat : k < l => k \notin Missing
  BY <1>2 DEF OpToRel
<1>4. l # 0
  <2>1. Is([n \in 0..0 |-> first], 0)
    OBVIOUS
  <2> QED
    BY <1>2, <2>1
<1>5. l - 1 \in Nat /\ l - 1 < l
  BY <1>3, <1>4
<1>6. PICK g : Is(g, l - 1)
  BY <1>3, <1>5
<1> DEFINE h == [n \in 0..l |-> IF n = l THEN Step(g, l) ELSE g[n]]
<1>7. \A n \in 0..l : h[n] = Step(h, n)
  <2> SUFFICES ASSUME NEW n \in 0..l PROVE h[n] = Step(h, n)
    OBVIOUS
  <2>1. CASE n = l
    <3>1. h[n] = Step(g, l) /\ h[l - 1] = g[l - 1]
      BY <1>3, <1>5, <2>1
    <3> HIDE DEF h
    <3> QED
      BY <1>4, <2>1, <3>1
  <2>2. CASE n # l
    <3>1. n \in 0..(l - 1) /\ h[n] = g[n]
      BY <1>3, <2>2
    <3>2. g[n] = Step(g, n)
      BY <1>6, <3>1
    <3>3. n # 0 => h[n - 1] = g[n - 1]
      BY <1>3, <2>2
    <3> HIDE DEF h
    <3> QED
      BY <3>1, <3>2, <3>3
  <2> QED
    BY <2>1, <2>2
<1>8. Is(h, l)
  <2>1. h = [n \in 0..l |-> h[n]]
    OBVIOUS
  <2> HIDE DEF h
  <2> QED
    BY <1>7, <2>1
<1> QED
  BY <1>2, <1>8

LEMMA AssignmentFacts ==
  ASSUME NEW q, Assignable(q), NEW asked
  PROVE  SoFar(Assignment(q, asked), q, Len(q))
<1> DEFINE after == CHOOSE g : IsAfter(g, q, asked, Len(q))
           Good(n) == SoFar(after[n], q, n)
<1>1. Len(q) \in Nat
  BY DEF Assignable
<1>2. Assignment(q, asked) = after[Len(q)]
  BY DEF Assignment, IsAfter
<1>3. after = [n \in 0..Len(q) |->
                 IF n = 0 THEN [queue |-> <<>>, workers |-> workers, running |-> running_jobs]
                 ELSE Place(after[n - 1], q[n],
                            Candidates(after[n - 1].workers, q[n], asked))]
  <2>1. IsAfter(after, q, asked, Len(q))
    BY <1>1, AfterExists
  <2> HIDE DEF after
  <2> QED
    BY <2>1 DEF IsAfter
<1> HIDE DEF after
<1>4. Good(0)
  <2> DEFINE acc == [queue |-> <<>>, workers |-> workers, running |-> running_jobs]
  <2>1. after[0] = acc
    BY <1>1, <1>3
  <2>2. {q[i] : i \in 1..0} = {}
    OBVIOUS
  <2>3. ThinnedFrom(<<>>, q, 0)
    BY ThinnedEmpty
  <2>4. <<>> \in Seq(Jobs) /\ Members(<<>>) = {}
    BY EmptyList
  <2>5. acc.queue = <<>> /\ acc.workers = workers /\ acc.running = running_jobs
    OBVIOUS
  <2>6. acc = [queue |-> acc.queue, workers |-> acc.workers, running |-> acc.running]
    OBVIOUS
  <2> HIDE DEF acc
  <2>7. SoFar(acc, q, 0)
    BY <2>2, <2>3, <2>4, <2>5, <2>6 DEF SoFar, Assignable, Registered, Running
  <2> QED
    BY <2>1, <2>7
<1>5. ASSUME NEW n \in 1..Len(q), Good(n - 1) PROVE Good(n)
  <2>1. after[n] = Place(after[n - 1], q[n], Candidates(after[n - 1].workers, q[n], asked))
    BY <1>1, <1>3
  <2> QED
    BY <1>5, <2>1, PlacedFacts
<1> DEFINE Bad == {n \in 0..Len(q) : ~Good(n)}
           Less == OpToRel(<, Nat)
<1>6. Bad = {}
  <2> SUFFICES ASSUME Bad # {} PROVE FALSE
    OBVIOUS
  <2>1. PICK n \in Bad : \A k \in Bad : ~(<<k, n>> \in Less)
    <3>1. IsWellFoundedOn(Less, Nat)
      BY NatLessThanWellFounded
    <3>2. Bad \subseteq Nat
      BY <1>1
    <3> HIDE DEF Bad, Less
    <3> QED
      BY <3>1, <3>2, WFMin
  <2> HIDE DEF Good
  <2>2. n \in 0..Len(q) /\ ~Good(n)
    OBVIOUS
  <2>3. n # 0
    BY <1>4, <2>2
  <2>4. n - 1 \in 0..Len(q) /\ n \in 1..Len(q)
    BY <1>1, <2>2, <2>3
  <2>5. <<n - 1, n>> \in Less
    BY <1>1, <2>2, <2>4 DEF OpToRel
  <2>6. Good(n - 1)
    BY <2>1, <2>4, <2>5
  <2> QED
    BY <1>5, <2>2, <2>4, <2>6
<1>7. Good(Len(q))
  <2> HIDE DEF Good
  <2> QED
    BY <1>1, <1>6
<1> QED
  BY <1>2, <1>7

-----------------------------------------------------------------------------
(* The nodes and the running jobs: what each operation leaves of them.      *)

\* A node that leaves takes its jobs out of what the lists say.
LEMMA LeavingAgrees ==
  ASSUME NEW ws, NodesOK(ws), NEW r, RunningOK(r), NEW lost, Agree(ws, r, lost), NEW w
  PROVE  /\ NodesOK(Without(ws, w))
         /\ Agree(Without(ws, w), r, lost \cup {j \in DOMAIN r : r[j].worker = w})
<1> DEFINE left == Without(ws, w)
           gone == lost \cup {j \in DOMAIN r : r[j].worker = w}
<1>1. /\ DOMAIN left = DOMAIN ws \ {w} /\ IsFunction(left)
      /\ \A v \in DOMAIN ws : v # w => left[v] = ws[v]
  BY DEF Without, IsFunction
<1> HIDE DEF left
<1>2. NodesOK(left)
  <2>1. IsFiniteSet(DOMAIN left)
    BY <1>1, FS_RemoveElement DEF NodesOK
  <2> QED
    BY <1>1, <2>1 DEF NodesOK
<1>3. ASSUME NEW v \in DOMAIN left
      PROVE  Members(left[v].running) = {j \in DOMAIN r \ gone : r[j].worker = v}
  <2>1. Members(left[v].running) = {j \in DOMAIN r \ lost : r[j].worker = v}
    BY <1>1 DEF Agree
  <2>2. v # w
    BY <1>1
  <2> QED
    BY <2>1, <2>2
<1>4. \A j \in DOMAIN r \ gone : r[j].worker \in DOMAIN left
  BY <1>1 DEF Agree
<1> QED
  BY <1>2, <1>3, <1>4 DEF Agree, left

\* A node that arrives has none.
LEMMA ArrivingAgrees ==
  ASSUME NEW ws, NodesOK(ws), NEW r, NEW lost, Agree(ws, r, lost),
         NEW w \in Workers, w \notin DOMAIN ws, NEW node, NodeOK(node, w),
         Members(node.running) = {}
  PROVE  NodesOK(With(ws, w, node)) /\ Agree(With(ws, w, node), r, lost)
<1> DEFINE more == With(ws, w, node)
<1>1. /\ DOMAIN more = DOMAIN ws \cup {w} /\ IsFunction(more)
      /\ more[w] = node /\ \A v \in DOMAIN ws : v # w => more[v] = ws[v]
  BY DEF With, IsFunction
<1> HIDE DEF more
<1>2. NodesOK(more)
  <2>1. IsFiniteSet(DOMAIN more)
    BY <1>1, FS_AddElement DEF NodesOK
  <2> QED
    BY <1>1, <2>1 DEF NodesOK
<1>3. ASSUME NEW v \in DOMAIN more
      PROVE  Members(more[v].running) = {j \in DOMAIN r \ lost : r[j].worker = v}
  <2>1. CASE v = w
    BY <1>1, <2>1 DEF Agree
  <2>2. CASE v # w
    BY <1>1, <2>2 DEF Agree
  <2> QED
    BY <2>1, <2>2
<1>4. \A j \in DOMAIN r \ lost : r[j].worker \in DOMAIN more
  BY <1>1 DEF Agree
<1> QED
  BY <1>2, <1>3, <1>4 DEF Agree, more

\* Nodes whose lists are the same agree with the same jobs.
LEMMA SameLists ==
  ASSUME NEW ws, NEW r, NEW lost, Agree(ws, r, lost), NEW others,
         DOMAIN others = DOMAIN ws,
         \A w \in DOMAIN ws : others[w].running = ws[w].running
  PROVE  Agree(others, r, lost)
BY DEF Agree

\* One node replaced by another with the same list.
LEMMA NodeReplaced ==
  ASSUME NEW ws, NodesOK(ws), NEW w \in DOMAIN ws, NEW node, NodeOK(node, w),
         NEW others, others = [v \in DOMAIN ws |-> IF v = w THEN node ELSE ws[v]]
  PROVE  /\ NodesOK(others) /\ DOMAIN others = DOMAIN ws /\ others[w] = node
         /\ \A v \in DOMAIN ws : v # w => others[v] = ws[v]
<1>1. /\ DOMAIN others = DOMAIN ws /\ others[w] = node
      /\ \A v \in DOMAIN ws : v # w => others[v] = ws[v]
  OBVIOUS
<1>2. IsFunction(others)
  BY <1>1 DEF IsFunction
<1> QED
  BY <1>1, <1>2 DEF NodesOK

Ended(node) == [node EXCEPT !.completed = @ + 1]

Turned(node, status) == [node EXCEPT !.status = status]

LEMMA NodeFacts ==
  ASSUME NEW w, NEW node, NodeOK(node, w)
  PROVE  /\ NodeOK(Ended(node), w) /\ Ended(node).running = node.running
         /\ \A status \in Statuses :
              NodeOK(Turned(node, status), w) /\ Turned(node, status).running = node.running
<1> DEFINE n == [running |-> node.running, completed |-> node.completed + 1,
                 status |-> node.status]
           m(status) == [running |-> node.running, completed |-> node.completed,
                         status |-> status]
<1>1. node = [running |-> node.running, completed |-> node.completed,
              status |-> node.status]
  BY DEF NodeOK
<1>2. Ended(node) = n /\ \A status : Turned(node, status) = m(status)
  BY <1>1 DEF Ended, Turned
<1>3. NodeOK(n, w) /\ n.running = node.running
  BY DEF NodeOK
<1>4. \A status \in Statuses : NodeOK(m(status), w) /\ m(status).running = node.running
  BY DEF NodeOK
<1> HIDE DEF n, m
<1> QED
  BY <1>2, <1>3, <1>4

\* The worker's status, or the count of what it has completed, changes.
LEMMA NodeTurned ==
  ASSUME NEW ws, NodesOK(ws), NEW r, NEW lost, Agree(ws, r, lost),
         NEW w \in DOMAIN ws, NEW others,
         \/ others = [ws EXCEPT ![w].completed = @ + 1]
         \/ \E status \in Statuses : others = [ws EXCEPT ![w].status = status]
  PROVE  NodesOK(others) /\ Agree(others, r, lost) /\ DOMAIN others = DOMAIN ws
<1>1. ws = [v \in DOMAIN ws |-> ws[v]] /\ NodeOK(ws[w], w)
  BY DEF NodesOK, IsFunction
<1>2. PICK node : /\ others = [v \in DOMAIN ws |-> IF v = w THEN node ELSE ws[v]]
                  /\ NodeOK(node, w) /\ node.running = ws[w].running
  <2>1. CASE others = [ws EXCEPT ![w].completed = @ + 1]
    <3>1. others = [v \in DOMAIN ws |-> IF v = w THEN Ended(ws[w]) ELSE ws[v]]
      BY <1>1, <2>1 DEF Ended
    <3>2. NodeOK(Ended(ws[w]), w) /\ Ended(ws[w]).running = ws[w].running
      BY <1>1, NodeFacts
    <3> QED
      BY <3>1, <3>2
  <2>2. ASSUME NEW status \in Statuses, others = [ws EXCEPT ![w].status = status]
        PROVE  \E node : /\ others = [v \in DOMAIN ws |-> IF v = w THEN node ELSE ws[v]]
                         /\ NodeOK(node, w) /\ node.running = ws[w].running
    <3>1. others = [v \in DOMAIN ws |-> IF v = w THEN Turned(ws[w], status) ELSE ws[v]]
      BY <1>1, <2>2 DEF Turned
    <3>2. /\ NodeOK(Turned(ws[w], status), w)
          /\ Turned(ws[w], status).running = ws[w].running
      BY <1>1, <2>2, NodeFacts
    <3> QED
      BY <3>1, <3>2
  <2> QED
    BY <2>1, <2>2
<1>3. /\ NodesOK(others) /\ DOMAIN others = DOMAIN ws /\ others[w] = node
      /\ \A v \in DOMAIN ws : v # w => others[v] = ws[v]
  BY <1>2, NodeReplaced
<1>4. \A v \in DOMAIN ws : others[v].running = ws[v].running
  BY <1>2, <1>3
<1> QED
  BY <1>3, <1>4, SameLists

\* A job that ends, wherever its worker is.
LEMMA FreedAgrees ==
  ASSUME NodesOK(workers), RunningOK(running_jobs),
         Agree(workers, running_jobs, orphaned), NEW j \in Running
  PROVE  /\ NodesOK(Freed(j)) /\ DOMAIN Freed(j) = Registered
         /\ RunningOK(Without(running_jobs, j))
         /\ Agree(Freed(j), Without(running_jobs, j), orphaned \ {j})
<1> DEFINE w == running_jobs[j].worker
           rest == Without(running_jobs, j)
<1>1. /\ DOMAIN rest = Running \ {j} /\ IsFunction(rest)
      /\ \A x \in Running : x # j => rest[x] = running_jobs[x]
  BY DEF Without, IsFunction, Running
<1> HIDE DEF rest
<1>2. RunningOK(rest)
  <2>1. IsFiniteSet(DOMAIN rest)
    BY <1>1, FS_RemoveElement DEF RunningOK, Running
  <2> QED
    BY <1>1, <2>1 DEF RunningOK, Running
<1>3. \A v : {x \in DOMAIN rest \ (orphaned \ {j}) : rest[x].worker = v}
               = {x \in Running \ orphaned : running_jobs[x].worker = v} \ {j}
  BY <1>1
<1>4. /\ \A v \in Registered : Members(workers[v].running)
             = {x \in Running \ orphaned : running_jobs[x].worker = v}
      /\ \A x \in Running \ orphaned : running_jobs[x].worker \in Registered
  BY DEF Agree, Registered, Running
<1>5. CASE w \notin Registered
  <2>1. Freed(j) = workers
    BY <1>5 DEF Freed
  <2>2. \A v \in Registered : j \notin Members(workers[v].running)
    BY <1>4, <1>5
  <2>3. Agree(workers, rest, orphaned \ {j})
    BY <1>1, <1>3, <1>4, <2>2 DEF Agree, Registered
  <2> QED
    BY <1>2, <2>1, <2>3 DEF rest, Registered
<1>6. CASE w \in Registered
  <2> DEFINE list == Dropping(workers[w].running, j)
             node == Listing(workers[w], list)
  <2>1. workers = [v \in DOMAIN workers |-> workers[v]] /\ NodeOK(workers[w], w)
    BY <1>6 DEF NodesOK, IsFunction, Registered
  <2>2. Freed(j) = [v \in DOMAIN workers |-> IF v = w THEN node ELSE workers[v]]
    BY <1>6, <2>1 DEF Freed, Listing, Registered
  <2>3. workers[w].running \in Seq(Jobs) /\ Distinct(workers[w].running)
        /\ Len(workers[w].running) <= Capacity[w]
    BY <2>1 DEF NodeOK
  <2>4. /\ list \in Seq(Jobs) /\ Members(list) = Members(workers[w].running) \ {j}
        /\ ThinnedFrom(list, workers[w].running, Len(workers[w].running))
    BY <2>3, Dropped
  <2>5. Distinct(list) /\ Members(list) \subseteq Members(workers[w].running)
    BY <2>3, <2>4, ThinsKeep
  <2>6. Len(list) <= Capacity[w]
    <3>1. /\ IsFiniteSet(Members(workers[w].running))
          /\ Cardinality(Members(workers[w].running)) = Len(workers[w].running)
          /\ Cardinality(Members(list)) = Len(list)
      BY <2>3, <2>4, <2>5, LengthIsCardinality
    <3>2. Cardinality(Members(list)) <= Cardinality(Members(workers[w].running))
      BY <2>5, <3>1, FS_Subset
    <3>3. Capacity[w] \in Nat /\ Len(list) \in Nat /\ Len(workers[w].running) \in Nat
      <4>1. w \in Workers
        BY <1>6 DEF NodesOK, Registered
      <4>2. Capacity[w] \in Nat
        BY <4>1, ClusterAssumption
      <4> HIDE DEF list, w
      <4> QED
        BY <2>3, <2>4, <4>2
    <3> QED
      BY <2>3, <3>1, <3>2, <3>3
  <2>7. node = [running |-> list, completed |-> workers[w].completed,
                status |-> workers[w].status]
    BY <2>1, ListingFacts DEF NodeOK
  <2> HIDE DEF list, node
  <2>8. node.running = list /\ node.completed = workers[w].completed
        /\ node.status = workers[w].status
    BY <2>7
  <2>9. NodeOK(node, w)
    BY <2>1, <2>4, <2>5, <2>6, <2>7, <2>8 DEF NodeOK
  <2>10. /\ NodesOK(Freed(j)) /\ DOMAIN Freed(j) = Registered /\ Freed(j)[w] = node
         /\ \A v \in Registered : v # w => Freed(j)[v] = workers[v]
    <3> DEFINE freed == Freed(j)
    <3> HIDE DEF freed
    <3>1. freed = [v \in DOMAIN workers |-> IF v = w THEN node ELSE workers[v]]
      BY <2>2 DEF freed
    <3>2. /\ NodesOK(freed) /\ DOMAIN freed = DOMAIN workers /\ freed[w] = node
          /\ \A v \in DOMAIN workers : v # w => freed[v] = workers[v]
      BY <1>6, <2>9, <3>1, NodeReplaced DEF Registered
    <3> QED
      BY <3>2 DEF freed, Registered
  <2>11. ASSUME NEW v \in Registered
         PROVE  Members(Freed(j)[v].running)
                  = {x \in DOMAIN rest \ (orphaned \ {j}) : rest[x].worker = v}
    <3>1. CASE v = w
      BY <1>3, <1>4, <2>4, <2>8, <2>10, <3>1
    <3>2. CASE v # w
      <4>1. Freed(j)[v] = workers[v]
        BY <2>10, <3>2
      <4>2. Members(workers[v].running)
              = {x \in Running \ orphaned : running_jobs[x].worker = v}
        BY <1>4
      <4> QED
        BY <1>1, <3>2, <4>1, <4>2
    <3> QED
      BY <3>1, <3>2
  <2>12. \A x \in DOMAIN rest \ (orphaned \ {j}) : rest[x].worker \in Registered
    BY <1>1, <1>4
  <2>13. Agree(Freed(j), rest, orphaned \ {j})
    BY <2>10, <2>11, <2>12 DEF Agree
  <2> QED
    BY <1>2, <2>10, <2>13 DEF rest
<1> QED
  BY <1>5, <1>6

-----------------------------------------------------------------------------
(* The inductive invariant.                                                 *)

NodesAgree ==
  /\ NodesOK(workers) /\ RunningOK(running_jobs)
  /\ Agree(workers, running_jobs, orphaned) /\ orphaned \subseteq Running

QueueOK ==
  queued_jobs \in Seq(Jobs) /\ Distinct(queued_jobs) /\ queued_ids = Members(queued_jobs)

All == queued_ids \cup Running \cup Finished

\* A job is in one container.
Apart ==
  /\ queued_ids \cap Running = {}
  /\ queued_ids \cap Finished = {} /\ Running \cap Finished = {}
  /\ completed_jobs \cap failed_jobs = {}
  /\ completed_jobs \cap cancelled_jobs = {} /\ failed_jobs \cap cancelled_jobs = {}

EndsFinite ==
  IsFiniteSet(completed_jobs) /\ IsFiniteSet(failed_jobs) /\ IsFiniteSet(cancelled_jobs)

Counts ==
  /\ statistics \in [Counted -> Nat] /\ popped \in Nat
  /\ statistics["completed"] = Cardinality(completed_jobs)
  /\ statistics["failed"] = Cardinality(failed_jobs)
  /\ statistics["cancelled"] = Cardinality(cancelled_jobs)
  /\ statistics["submitted"] = Cardinality(All) + popped

Ordered == aged \in BOOLEAN /\ (~aged => InOrder(queued_jobs))

IInv == NodesAgree /\ QueueOK /\ Apart /\ EndsFinite /\ Counts /\ Ordered

LEMMA AllFinite ==
  ASSUME QueueOK, NodesAgree, EndsFinite
  PROVE  /\ IsFiniteSet(queued_ids) /\ IsFiniteSet(Running) /\ IsFiniteSet(Finished)
         /\ IsFiniteSet(All)
<1>1. IsFiniteSet(queued_ids)
  BY LengthIsCardinality DEF QueueOK
<1>2. IsFiniteSet(Running)
  BY DEF NodesAgree, RunningOK, Running
<1>3. IsFiniteSet(completed_jobs \cup failed_jobs)
  BY FS_Union DEF EndsFinite
<1>4. IsFiniteSet(Finished)
  BY <1>3, FS_Union DEF EndsFinite, Finished
<1>5. IsFiniteSet(queued_ids \cup Running)
  BY <1>1, <1>2, FS_Union
<1> QED
  BY <1>1, <1>2, <1>4, <1>5, FS_Union DEF All

LEMMA Disjoint ==
  ASSUME NEW A, IsFiniteSet(A), NEW B, IsFiniteSet(B), A \cap B = {}
  PROVE  Cardinality(A \cup B) = Cardinality(A) + Cardinality(B)
<1>1. Cardinality(A \cup B) = Cardinality(A) + Cardinality(B) - Cardinality(A \cap B)
  BY FS_Union
<1>2. Cardinality(A \cap B) = 0
  BY FS_EmptySet
<1>3. Cardinality(A) \in Nat /\ Cardinality(B) \in Nat
  BY FS_CardinalityType
<1> QED
  BY <1>1, <1>2, <1>3

LEMMA InvImplies == IInv => ClusterInv /\ WorkersAgree /\ OrderedUnlessAged
<1> SUFFICES ASSUME IInv PROVE ClusterInv /\ WorkersAgree /\ OrderedUnlessAged
  OBVIOUS
<1>1. TypeOK
  BY DEF IInv, TypeOK, NodesAgree, NodesOK, NodeOK, RunningOK, QueueOK, Registered, Running
<1>2. JobsConserved
  <2>1. Len(queued_jobs) = Cardinality(queued_ids)
    BY LengthIsCardinality DEF IInv, QueueOK
  <2>2. /\ IsFiniteSet(queued_ids) /\ IsFiniteSet(Running) /\ IsFiniteSet(Finished)
        /\ IsFiniteSet(completed_jobs) /\ IsFiniteSet(failed_jobs)
        /\ IsFiniteSet(cancelled_jobs)
    BY AllFinite DEF IInv, EndsFinite
  <2>3. Cardinality(Finished)
          = Cardinality(completed_jobs) + Cardinality(failed_jobs) + Cardinality(cancelled_jobs)
    <3>1. IsFiniteSet(completed_jobs \cup failed_jobs)
      BY <2>2, FS_Union
    <3>2. completed_jobs \cap failed_jobs = {}
          /\ (completed_jobs \cup failed_jobs) \cap cancelled_jobs = {}
      BY DEF IInv, Apart
    <3>3. Cardinality(completed_jobs \cup failed_jobs)
            = Cardinality(completed_jobs) + Cardinality(failed_jobs)
      BY <2>2, <3>2, Disjoint
    <3> QED
      BY <2>2, <3>1, <3>2, <3>3, Disjoint DEF Finished
  <2>4. Cardinality(All) = Cardinality(queued_ids) + Cardinality(Running) + Cardinality(Finished)
    <3>1. IsFiniteSet(queued_ids \cup Running)
      BY <2>2, FS_Union
    <3>2. queued_ids \cap Running = {} /\ (queued_ids \cup Running) \cap Finished = {}
      BY DEF IInv, Apart
    <3>3. Cardinality(queued_ids \cup Running) = Cardinality(queued_ids) + Cardinality(Running)
      BY <2>2, <3>2, Disjoint
    <3> QED
      BY <2>2, <3>1, <3>2, <3>3, Disjoint DEF All
  <2>5. /\ Cardinality(queued_ids) \in Nat /\ Cardinality(Running) \in Nat
        /\ Cardinality(completed_jobs) \in Nat /\ Cardinality(failed_jobs) \in Nat
        /\ Cardinality(cancelled_jobs) \in Nat
    BY <2>2, FS_CardinalityType
  <2>6. Cardinality(All) = Len(queued_jobs) + Cardinality(Running) + Cardinality(completed_jobs)
          + Cardinality(failed_jobs) + Cardinality(cancelled_jobs)
    BY <2>1, <2>3, <2>4, <2>5
  <2>7. queued_ids = {queued_jobs[n] : n \in DOMAIN queued_jobs}
    BY DEF IInv, QueueOK, Members
  <2> QED
    BY <2>1, <2>6, <2>7 DEF JobsConserved, IInv, Counts, All
<1>3. WorkersAgree
  <2>1. ASSUME NEW w \in Registered
        PROVE  LET mine == {j \in Running \ orphaned : running_jobs[j].worker = w}
               IN  /\ mine = {workers[w].running[n] : n \in DOMAIN workers[w].running}
                   /\ Len(workers[w].running) = Cardinality(mine)
    <3>1. workers[w].running \in Seq(Jobs) /\ Distinct(workers[w].running)
      BY DEF IInv, NodesAgree, NodesOK, NodeOK, Registered
    <3>2. Members(workers[w].running) = {j \in Running \ orphaned : running_jobs[j].worker = w}
      BY DEF IInv, NodesAgree, Agree, Registered, Running
    <3>3. Cardinality(Members(workers[w].running)) = Len(workers[w].running)
      BY <3>1, LengthIsCardinality
    <3> QED
      BY <3>2, <3>3 DEF Members
  <2>2. orphaned \subseteq Running /\ \A j \in Running \ orphaned : running_jobs[j].worker \in Registered
    BY DEF IInv, NodesAgree, Agree, Registered, Running
  <2> QED
    BY <2>1, <2>2 DEF WorkersAgree
<1>4. OrderedUnlessAged
  BY DEF IInv, Ordered, OrderedUnlessAged, InPriorityOrder, InOrder
<1> QED
  BY <1>1, <1>2, <1>3, <1>4 DEF ClusterInv

LEMMA InvInit == Init => IInv
<1> SUFFICES ASSUME Init PROVE IInv
  OBVIOUS
<1>1. /\ workers = <<>> /\ running_jobs = <<>> /\ queued_jobs = <<>> /\ queued_ids = {}
      /\ completed_jobs = {} /\ failed_jobs = {} /\ cancelled_jobs = {}
      /\ statistics = [c \in Counted |-> 0] /\ popped = 0 /\ orphaned = {} /\ aged = FALSE
  BY DEF Init
<1>2. DOMAIN <<>> = {} /\ IsFunction(<<>>) /\ IsFiniteSet({}) /\ Cardinality({}) = 0
  BY FS_EmptySet DEF IsFunction
<1>3. NodesAgree
  BY <1>1, <1>2 DEF NodesAgree, NodesOK, RunningOK, Agree
<1>4. QueueOK /\ Ordered
  BY <1>1, EmptyList DEF QueueOK, Ordered
<1>5. Running = {} /\ Finished = {} /\ All = {}
  BY <1>1, <1>2 DEF Running, Finished, All
<1>6. Apart /\ EndsFinite
  BY <1>1, <1>2, <1>5 DEF Apart, EndsFinite
<1>7. Counts
  BY <1>1, <1>2, <1>5 DEF Counts, Counted
<1> QED
  BY <1>3, <1>4, <1>6, <1>7 DEF IInv

-----------------------------------------------------------------------------
(* The actions.                                                             *)

\* What touches neither the containers nor the counts.
LEMMA SameContainers ==
  ASSUME IInv, UNCHANGED <<queueVars, endVars, statistics, popped, aged>>,
         Running' = Running, NodesAgree'
  PROVE  IInv'
<1>1. /\ queued_jobs' = queued_jobs /\ queued_ids' = queued_ids
      /\ completed_jobs' = completed_jobs /\ failed_jobs' = failed_jobs
      /\ cancelled_jobs' = cancelled_jobs
      /\ statistics' = statistics /\ popped' = popped /\ aged' = aged
  BY DEF queueVars, endVars
<1>2. Finished' = Finished /\ All' = All
  BY <1>1 DEF Finished, All
<1>3. QueueOK' /\ Ordered'
  BY <1>1 DEF IInv, QueueOK, Ordered
<1>4. Apart' /\ EndsFinite'
  BY <1>1, <1>2 DEF IInv, Apart, EndsFinite
<1>5. Counts'
  BY <1>1, <1>2 DEF IInv, Counts
<1> QED
  BY <1>3, <1>4, <1>5 DEF IInv

LEMMA RegisterKeeps ==
  ASSUME IInv, NEW w \in Workers, register(w)
  PROVE  IInv'
<1> DEFINE node == [running |-> <<>>, completed |-> 0, status |-> "IDLE"]
<1>1. /\ w \notin Registered /\ workers' = With(workers, w, node)
      /\ UNCHANGED <<queueVars, running_jobs, endVars, statistics, history>>
  BY DEF register
<1>2. NodeOK(node, w) /\ Members(node.running) = {}
  <2>1. Capacity[w] \in Nat
    BY ClusterAssumption
  <2>2. node.running = <<>>
    OBVIOUS
  <2> QED
    BY <2>1, <2>2, EmptyList DEF NodeOK, Statuses
<1> HIDE DEF node
<1>3. NodesOK(workers') /\ Agree(workers', running_jobs, orphaned)
  BY <1>1, <1>2, ArrivingAgrees DEF IInv, NodesAgree, Registered
<1>4. running_jobs' = running_jobs /\ orphaned' = orphaned /\ Running' = Running
  BY <1>1 DEF history, Running
<1>5. NodesAgree'
  BY <1>3, <1>4 DEF NodesAgree, IInv
<1> QED
  BY <1>1, <1>4, <1>5, SameContainers DEF history

LEMMA RemoveKeeps ==
  ASSUME IInv, NEW w \in Workers, remove(w)
  PROVE  IInv'
<1> DEFINE lost == orphaned \cup {j \in Running : running_jobs[j].worker = w}
<1>1. /\ workers' = Without(workers, w) /\ orphaned' = lost
      /\ UNCHANGED <<queueVars, running_jobs, endVars, statistics, popped, aged>>
  BY DEF remove
<1>2. NodesOK(workers') /\ Agree(workers', running_jobs, lost)
  BY <1>1, LeavingAgrees DEF IInv, NodesAgree, Running
<1>3. running_jobs' = running_jobs /\ Running' = Running
  BY <1>1 DEF Running
<1>4. lost \subseteq Running
  BY DEF IInv, NodesAgree
<1> HIDE DEF lost
<1>5. NodesAgree'
  BY <1>1, <1>2, <1>3, <1>4 DEF NodesAgree, IInv
<1> QED
  BY <1>1, <1>3, <1>5, SameContainers

LEMMA StatusKeeps ==
  ASSUME IInv, NEW w \in Workers, NEW s \in Statuses, update_status(w, s)
  PROVE  IInv'
<1>1. /\ w \in DOMAIN workers /\ workers' = [workers EXCEPT ![w].status = s]
      /\ UNCHANGED <<queueVars, running_jobs, endVars, statistics, history>>
  BY DEF update_status, Registered
<1>2. NodesOK(workers') /\ Agree(workers', running_jobs, orphaned)
  BY <1>1, NodeTurned DEF IInv, NodesAgree
<1>3. running_jobs' = running_jobs /\ orphaned' = orphaned /\ Running' = Running
  BY <1>1 DEF history, Running
<1>4. NodesAgree'
  BY <1>2, <1>3 DEF NodesAgree, IInv
<1> QED
  BY <1>1, <1>3, <1>4, SameContainers DEF history

LEMMA StartKeeps ==
  ASSUME IInv, NEW j \in Jobs, start_job(j)
  PROVE  IInv'
<1>1. /\ j \in Running /\ running_jobs' = [running_jobs EXCEPT ![j].status = "RUNNING"]
      /\ UNCHANGED <<workers, queueVars, endVars, statistics, history>>
  BY DEF start_job
<1>2. /\ running_jobs = [x \in Running |-> running_jobs[x]]
      /\ \A x \in Running :
           running_jobs[x] \in [status : {"ASSIGNED", "RUNNING"}, worker : Workers]
  BY DEF IInv, NodesAgree, RunningOK, IsFunction, Running
<1>3. running_jobs' = [x \in Running |->
         IF x = j THEN [running_jobs[x] EXCEPT !.status = "RUNNING"] ELSE running_jobs[x]]
  BY <1>1, <1>2
<1>4. /\ Running' = Running /\ IsFunction(running_jobs)'
      /\ \A x \in Running : /\ running_jobs'[x].worker = running_jobs[x].worker
                            /\ running_jobs'[x] \in
                                 [status : {"ASSIGNED", "RUNNING"}, worker : Workers]
  <2>1. DOMAIN running_jobs' = Running
    BY <1>3
  <2>2. running_jobs' = [x \in DOMAIN running_jobs' |-> running_jobs'[x]]
    BY <1>3, <2>1
  <2>3. \A x \in Running : /\ running_jobs'[x].worker = running_jobs[x].worker
                           /\ running_jobs'[x] \in
                                [status : {"ASSIGNED", "RUNNING"}, worker : Workers]
    BY <1>2, <1>3
  <2> QED
    BY <2>1, <2>2, <2>3 DEF Running, IsFunction
<1>5. workers' = workers /\ orphaned' = orphaned
  BY <1>1 DEF history
<1>6. RunningOK(running_jobs)'
  BY <1>4 DEF RunningOK, Running, IInv, NodesAgree
<1>7. Agree(workers, running_jobs, orphaned)'
  <2>1. ASSUME NEW w \in DOMAIN workers
        PROVE  Members(workers[w].running) = {x \in Running' \ orphaned : running_jobs'[x].worker = w}
    <3>1. Members(workers[w].running) = {x \in Running \ orphaned : running_jobs[x].worker = w}
      BY DEF IInv, NodesAgree, Agree, Running
    <3> QED
      BY <1>4, <3>1
  <2>2. \A x \in Running' \ orphaned : running_jobs'[x].worker \in DOMAIN workers
    BY <1>4 DEF IInv, NodesAgree, Agree, Running
  <2> QED
    BY <1>5, <2>1, <2>2 DEF Agree, Running
<1>8. NodesAgree'
  BY <1>4, <1>5, <1>6, <1>7 DEF NodesAgree, IInv
<1> QED
  BY <1>1, <1>4, <1>8, SameContainers DEF history

\* A job that waits or runs goes to one of the three ledgers, and is counted.
LEMMA FinishedOnce ==
  ASSUME IInv, NEW j \in queued_ids \cup Running,
         queued_ids' \cup Running' = (queued_ids \cup Running) \ {j},
         queued_ids' \cap Running' = {},
         \/ /\ completed_jobs' = completed_jobs \cup {j}
            /\ Count("completed") /\ UNCHANGED <<failed_jobs, cancelled_jobs>>
         \/ /\ failed_jobs' = failed_jobs \cup {j}
            /\ Count("failed") /\ UNCHANGED <<completed_jobs, cancelled_jobs>>
         \/ /\ cancelled_jobs' = cancelled_jobs \cup {j}
            /\ Count("cancelled") /\ UNCHANGED <<completed_jobs, failed_jobs>>,
         popped' = popped
  PROVE  Apart' /\ EndsFinite' /\ Counts'
<1>1. j \notin completed_jobs /\ j \notin failed_jobs /\ j \notin cancelled_jobs
  BY DEF IInv, Apart, Finished
<1>2. Finished' = Finished \cup {j} /\ All' = All
  BY DEF Finished, All
<1>3. Apart'
  <2>1. /\ completed_jobs' \cap failed_jobs' = {}
        /\ completed_jobs' \cap cancelled_jobs' = {} /\ failed_jobs' \cap cancelled_jobs' = {}
    BY <1>1 DEF IInv, Apart
  <2>2. (queued_ids' \cup Running') \cap Finished' = {}
    BY <1>2 DEF IInv, Apart
  <2> QED
    BY <2>1, <2>2 DEF Apart
<1>4. EndsFinite'
  <2>1. /\ IsFiniteSet(completed_jobs) /\ IsFiniteSet(failed_jobs)
        /\ IsFiniteSet(cancelled_jobs)
        /\ IsFiniteSet(completed_jobs \cup {j}) /\ IsFiniteSet(failed_jobs \cup {j})
        /\ IsFiniteSet(cancelled_jobs \cup {j})
    BY FS_AddElement DEF IInv, EndsFinite
  <2>2. /\ completed_jobs' \in {completed_jobs, completed_jobs \cup {j}}
        /\ failed_jobs' \in {failed_jobs, failed_jobs \cup {j}}
        /\ cancelled_jobs' \in {cancelled_jobs, cancelled_jobs \cup {j}}
    OBVIOUS
  <2> QED
    BY <2>1, <2>2 DEF EndsFinite
<1>5. /\ Cardinality(completed_jobs \cup {j}) = Cardinality(completed_jobs) + 1
      /\ Cardinality(failed_jobs \cup {j}) = Cardinality(failed_jobs) + 1
      /\ Cardinality(cancelled_jobs \cup {j}) = Cardinality(cancelled_jobs) + 1
  BY <1>1, FS_AddElement DEF IInv, EndsFinite
<1>6. /\ statistics \in [Counted -> Nat] /\ popped \in Nat
      /\ statistics["completed"] = Cardinality(completed_jobs)
      /\ statistics["failed"] = Cardinality(failed_jobs)
      /\ statistics["cancelled"] = Cardinality(cancelled_jobs)
      /\ statistics["submitted"] = Cardinality(All) + popped
  BY DEF IInv, Counts
<1>7. ASSUME NEW c \in {"completed", "failed", "cancelled"}, Count(c)
      PROVE  /\ statistics' \in [Counted -> Nat] /\ statistics'[c] = statistics[c] + 1
             /\ \A d \in Counted : d # c => statistics'[d] = statistics[d]
  BY <1>6, <1>7 DEF Count, Counted
<1>8. Counts'
  <2>1. CASE completed_jobs' = completed_jobs \cup {j}
             /\ Count("completed") /\ UNCHANGED <<failed_jobs, cancelled_jobs>>
    BY <1>2, <1>5, <1>6, <1>7, <2>1 DEF Counts, Counted
  <2>2. CASE failed_jobs' = failed_jobs \cup {j}
             /\ Count("failed") /\ UNCHANGED <<completed_jobs, cancelled_jobs>>
    BY <1>2, <1>5, <1>6, <1>7, <2>2 DEF Counts, Counted
  <2>3. CASE cancelled_jobs' = cancelled_jobs \cup {j}
             /\ Count("cancelled") /\ UNCHANGED <<completed_jobs, failed_jobs>>
    BY <1>2, <1>5, <1>6, <1>7, <2>3 DEF Counts, Counted
  <2> QED
    BY <2>1, <2>2, <2>3
<1> QED
  BY <1>3, <1>4, <1>8

\* The queue is as it was, and so is its order.
LEMMA SameQueue ==
  ASSUME IInv, UNCHANGED <<queueVars, aged>>
  PROVE  QueueOK' /\ Ordered' /\ queued_ids' = queued_ids
BY DEF IInv, QueueOK, Ordered, queueVars

\* A job that ran has ended.
LEMMA EndedKeeps ==
  ASSUME IInv, NEW j \in Running,
         NodesOK(workers'), Agree(workers', Without(running_jobs, j), orphaned \ {j}),
         running_jobs' = Without(running_jobs, j), orphaned' = orphaned \ {j},
         UNCHANGED <<queueVars, popped, aged>>,
         \/ /\ completed_jobs' = completed_jobs \cup {j}
            /\ Count("completed") /\ UNCHANGED <<failed_jobs, cancelled_jobs>>
         \/ /\ failed_jobs' = failed_jobs \cup {j}
            /\ Count("failed") /\ UNCHANGED <<completed_jobs, cancelled_jobs>>
         \/ /\ cancelled_jobs' = cancelled_jobs \cup {j}
            /\ Count("cancelled") /\ UNCHANGED <<completed_jobs, failed_jobs>>
  PROVE  IInv'
<1>1. RunningOK(Without(running_jobs, j))
  BY FreedAgrees DEF IInv, NodesAgree
<1>2. Running' = Running \ {j}
  BY WithoutFacts DEF Running
<1>3. NodesAgree'
  <2>1. orphaned' \subseteq Running'
    BY <1>2 DEF IInv, NodesAgree
  <2> QED
    BY <1>1, <2>1 DEF NodesAgree
<1>4. QueueOK' /\ Ordered' /\ queued_ids' = queued_ids
  BY SameQueue
<1>5. /\ queued_ids' \cup Running' = (queued_ids \cup Running) \ {j}
      /\ queued_ids' \cap Running' = {}
  BY <1>2, <1>4 DEF IInv, Apart
<1>6. Apart' /\ EndsFinite' /\ Counts'
  BY <1>5, FinishedOnce
<1> QED
  BY <1>3, <1>4, <1>6 DEF IInv

LEMMA FailKeeps ==
  ASSUME IInv, NEW j \in Jobs, fail_job(j)
  PROVE  IInv'
<1>1. /\ j \in Running /\ workers' = Freed(j) /\ running_jobs' = Without(running_jobs, j)
      /\ failed_jobs' = failed_jobs \cup {j} /\ orphaned' = orphaned \ {j} /\ Count("failed")
      /\ UNCHANGED <<queueVars, completed_jobs, cancelled_jobs, popped, aged>>
  BY DEF fail_job
<1>2. NodesOK(workers') /\ Agree(workers', Without(running_jobs, j), orphaned \ {j})
  BY <1>1, FreedAgrees DEF IInv, NodesAgree
<1> QED
  BY <1>1, <1>2, EndedKeeps

LEMMA CompleteKeeps ==
  ASSUME IInv, NEW j \in Jobs, complete_job(j)
  PROVE  IInv'
<1> DEFINE w == running_jobs[j].worker
<1>1. /\ j \in Running /\ running_jobs' = Without(running_jobs, j)
      /\ workers' = IF w \in Registered THEN [Freed(j) EXCEPT ![w].completed = @ + 1]
                    ELSE workers
      /\ completed_jobs' = completed_jobs \cup {j} /\ orphaned' = orphaned \ {j}
      /\ Count("completed")
      /\ UNCHANGED <<queueVars, failed_jobs, cancelled_jobs, popped, aged>>
  BY DEF complete_job
<1>2. /\ NodesOK(Freed(j)) /\ DOMAIN Freed(j) = Registered
      /\ Agree(Freed(j), Without(running_jobs, j), orphaned \ {j})
  BY <1>1, FreedAgrees DEF IInv, NodesAgree
<1>3. NodesOK(workers') /\ Agree(workers', Without(running_jobs, j), orphaned \ {j})
  <2>1. CASE w \in Registered
    <3> DEFINE freed == Freed(j)
    <3>1. /\ w \in DOMAIN freed /\ workers' = [freed EXCEPT ![w].completed = @ + 1]
          /\ NodesOK(freed) /\ Agree(freed, Without(running_jobs, j), orphaned \ {j})
      BY <1>1, <1>2, <2>1
    <3> HIDE DEF freed, w
    <3> QED
      BY <3>1, NodeTurned
  <2>2. CASE w \notin Registered
    <3>1. Freed(j) = workers
      BY <2>2 DEF Freed
    <3> QED
      BY <1>1, <1>2, <2>2, <3>1
  <2> QED
    BY <2>1, <2>2
<1> QED
  BY <1>1, <1>3, EndedKeeps

LEMMA CancelKeeps ==
  ASSUME IInv, NEW j \in Jobs, cancel(j)
  PROVE  IInv'
<1>1. /\ cancelled_jobs' = cancelled_jobs \cup {j} /\ orphaned' = orphaned \ {j}
      /\ Count("cancelled") /\ UNCHANGED <<completed_jobs, failed_jobs, popped, aged>>
  BY DEF cancel
<1>2. CASE /\ j \in queued_ids /\ queued_jobs' = Dropping(queued_jobs, j)
           /\ queued_ids' = queued_ids \ {j} /\ UNCHANGED <<workers, running_jobs>>
  <2>1. queued_jobs \in Seq(Jobs) /\ Distinct(queued_jobs) /\ queued_ids = Members(queued_jobs)
    BY DEF IInv, QueueOK
  <2>2. /\ queued_jobs' \in Seq(Jobs) /\ Members(queued_jobs') = Members(queued_jobs) \ {j}
        /\ ThinnedFrom(queued_jobs', queued_jobs, Len(queued_jobs))
    BY <1>2, <2>1, Dropped
  <2>3. Distinct(queued_jobs') /\ (InOrder(queued_jobs) => InOrder(queued_jobs'))
    BY <2>1, <2>2, ThinsKeep
  <2>4. QueueOK' /\ Ordered'
    BY <1>1, <1>2, <2>1, <2>2, <2>3 DEF IInv, QueueOK, Ordered
  <2>5. Running' = Running /\ j \notin Running
    BY <1>2 DEF IInv, Apart, Running
  <2>6. NodesAgree'
    <3>1. orphaned' = orphaned
      BY <1>1, <2>5 DEF IInv, NodesAgree
    <3> QED
      BY <1>2, <2>5, <3>1 DEF IInv, NodesAgree
  <2>7. /\ queued_ids' \cup Running' = (queued_ids \cup Running) \ {j}
        /\ queued_ids' \cap Running' = {}
    BY <1>2, <2>5 DEF IInv, Apart
  <2>8. Apart' /\ EndsFinite' /\ Counts'
    BY <1>1, <1>2, <2>7, FinishedOnce
  <2> QED
    BY <2>4, <2>6, <2>8 DEF IInv
<1>3. CASE /\ j \notin queued_ids /\ j \in Running /\ running_jobs[j].status = "ASSIGNED"
           /\ workers' = Freed(j) /\ running_jobs' = Without(running_jobs, j)
           /\ UNCHANGED queueVars
  <2>1. NodesOK(workers') /\ Agree(workers', Without(running_jobs, j), orphaned \ {j})
    BY <1>3, FreedAgrees DEF IInv, NodesAgree
  <2> QED
    BY <1>1, <1>3, <2>1, EndedKeeps
<1> QED
  BY <1>2, <1>3 DEF cancel

\* Both orders of the queue are orders.
LEMMA QueueOrders ==
  /\ IsOrder(QueueOrder)
  /\ \A now \in Clocks, rate \in Rates : IsOrder(AgedOrder(now, rate))
<1>1. \A j \in Jobs : Priority[j] \in Int /\ Created[j] \in Int
  BY ClusterAssumption
<1>2. IsOrder(QueueOrder)
  <2>1. /\ \A i, j \in Jobs : KeyAtMost(i, j) \/ KeyAtMost(j, i)
        /\ \A i, j, k \in Jobs : KeyAtMost(i, j) /\ KeyAtMost(j, k) => KeyAtMost(i, k)
    BY <1>1 DEF KeyAtMost
  <2>2. \A i, j \in Jobs : j \in QueueOrder[i] <=> KeyAtMost(i, j)
    BY DEF QueueOrder
  <2> QED
    BY <2>1, <2>2 DEF IsOrder
<1>3. ASSUME NEW now \in Clocks, NEW rate \in Rates PROVE IsOrder(AgedOrder(now, rate))
  <2> DEFINE effective(j) == effective_priority(j, now, rate)
  <2>1. now \in Int /\ rate \in Int
    BY ClusterAssumption
  <2>2. \A j \in Jobs : effective(j) \in Int
    <3> TAKE j \in Jobs
    <3> DEFINE age == IF now > Created[j] THEN now - Created[j] ELSE 0
    <3>1. age \in Int
      BY <1>1, <2>1
    <3>2. effective(j) = Priority[j] + rate * age
      BY DEF effective_priority
    <3> HIDE DEF age
    <3>3. rate * age \in Int
      BY <2>1, <3>1
    <3> QED
      BY <1>1, <3>2, <3>3
  <2>3. \A i, j \in Jobs : j \in AgedOrder(now, rate)[i] <=> effective(i) >= effective(j)
    BY DEF AgedOrder
  <2> HIDE DEF effective
  <2>4. /\ \A i, j \in Jobs : effective(i) >= effective(j) \/ effective(j) >= effective(i)
        /\ \A i, j, k \in Jobs : effective(i) >= effective(j) /\ effective(j) >= effective(k)
                                   => effective(i) >= effective(k)
    BY <2>2
  <2> QED
    BY <2>3, <2>4 DEF IsOrder
<1> QED
  BY <1>2, <1>3

\* A job that goes to the tail of an ordered queue keeps it ordered when it
\* belongs there.
LEMMA TailOrdered ==
  ASSUME NEW q \in Seq(Jobs), InOrder(q), NEW j \in Jobs,
         q = <<>> \/ KeyAtMost(Last(q), j)
  PROVE  InOrder(Append(q, j))
<1> DEFINE l == Len(q)
           t == Append(q, j)
<1>1. /\ l \in Nat /\ DOMAIN q = 1..l /\ DOMAIN t = 1..(l + 1)
      /\ \A n \in 1..l : t[n] = q[n] /\ q[n] \in Jobs
      /\ t[l + 1] = j
  OBVIOUS
<1>2. l # 0 => KeyAtMost(q[l], j)
  BY DEF Last
<1> HIDE DEF l, t
<1>3. ASSUME NEW m \in 1..(l + 1), NEW n \in 1..(l + 1), m < n PROVE KeyAtMost(t[m], t[n])
  <2>1. m \in 1..l /\ l # 0 /\ l \in 1..l
    BY <1>1, <1>3
  <2>2. CASE n \in 1..l
    BY <1>1, <1>3, <2>1, <2>2 DEF InOrder
  <2>3. CASE n = l + 1
    <3>1. KeyAtMost(q[l], j)
      BY <1>2, <2>1
    <3>2. CASE m = l
      BY <1>1, <2>1, <2>3, <3>1, <3>2
    <3>3. CASE m # l
      <4>1. m < l
        BY <2>1, <3>3
      <4>2. KeyAtMost(q[m], q[l])
        BY <1>1, <2>1, <4>1 DEF InOrder
      <4>3. KeyAtMost(q[m], j)
        <5>1. \A i, k \in Jobs : k \in QueueOrder[i] <=> KeyAtMost(i, k)
          BY DEF QueueOrder
        <5>2. q[m] \in Jobs /\ q[l] \in Jobs
          BY <1>1, <2>1
        <5> QED
          BY <3>1, <4>2, <5>1, <5>2, QueueOrders DEF IsOrder
      <4> QED
        BY <1>1, <2>1, <2>3, <4>3
    <3> QED
      BY <3>2, <3>3
  <2> QED
    BY <1>1, <2>2, <2>3
<1> QED
  BY <1>1, <1>3 DEF InOrder, t

LEMMA SubmitKeeps ==
  ASSUME IInv, NEW j \in Jobs, submit(j)
  PROVE  IInv'
<1> DEFINE t == Append(queued_jobs, j)
           belongs == queued_jobs = <<>> \/ KeyAtMost(Last(queued_jobs), j)
<1>1. /\ ~known(j) /\ queued_jobs' = Enqueued(j) /\ queued_ids' = queued_ids \cup {j}
      /\ Count("submitted")
      /\ aged' = (aged /\ queued_jobs # <<>> /\ KeyAtMost(Last(queued_jobs), j))
      /\ UNCHANGED <<workers, running_jobs, endVars, popped, orphaned>>
  BY DEF submit
<1>2. queued_jobs \in Seq(Jobs) /\ Distinct(queued_jobs) /\ queued_ids = Members(queued_jobs)
  BY DEF IInv, QueueOK
<1>3. j \notin queued_ids /\ j \notin Running /\ j \notin Finished
  BY <1>1 DEF known
<1>4. t \in Seq(Jobs) /\ Members(t) = queued_ids \cup {j} /\ Distinct(t)
  BY <1>2, <1>3, Appended
<1>5. queued_jobs' = IF belongs THEN t ELSE Sorted(t, QueueOrder)
  BY <1>1 DEF Enqueued
<1>6. belongs /\ InOrder(queued_jobs) => InOrder(t)
  BY <1>2, TailOrdered
<1>7. queued_jobs = <<>> => InOrder(queued_jobs)
  BY EmptyList
<1> HIDE DEF t
<1>8. /\ Sorted(t, QueueOrder) \in Seq(Jobs) /\ Members(Sorted(t, QueueOrder)) = Members(t)
      /\ Distinct(Sorted(t, QueueOrder)) /\ InOrder(Sorted(t, QueueOrder))
  <2> DEFINE u == Sorted(t, QueueOrder)
  <2>1. /\ u \in Seq(Jobs) /\ Members(u) = Members(t) /\ Distinct(u)
        /\ \A m, n \in DOMAIN u : m < n => u[n] \in QueueOrder[u[m]]
    BY <1>4, QueueOrders, SortedList
  <2>2. \A i, k \in Jobs : k \in QueueOrder[i] => KeyAtMost(i, k)
    BY DEF QueueOrder
  <2> HIDE DEF u
  <2>3. \A n \in DOMAIN u : u[n] \in Jobs
    BY <2>1
  <2>4. InOrder(u)
    BY <2>1, <2>2, <2>3 DEF InOrder
  <2> QED
    BY <2>1, <2>4 DEF u
<1>9. QueueOK'
  BY <1>1, <1>4, <1>5, <1>8 DEF QueueOK
<1>10. Ordered'
  <2>1. aged \in BOOLEAN /\ (~aged => InOrder(queued_jobs))
    BY DEF IInv, Ordered
  <2>2. aged' \in BOOLEAN
    BY <1>1, <2>1
  <2>3. ASSUME ~aged' PROVE InOrder(queued_jobs')
    <3>1. CASE belongs
      <4>1. InOrder(queued_jobs)
        BY <1>1, <1>7, <2>1, <2>3, <3>1
      <4> QED
        BY <1>5, <1>6, <3>1, <4>1
    <3>2. CASE ~belongs
      BY <1>5, <1>8, <3>2
    <3> QED
      BY <3>1, <3>2
  <2> QED
    BY <2>2, <2>3 DEF Ordered
<1>11. /\ Running' = Running /\ Finished' = Finished /\ orphaned' = orphaned
       /\ completed_jobs' = completed_jobs /\ failed_jobs' = failed_jobs
       /\ cancelled_jobs' = cancelled_jobs /\ popped' = popped
       /\ workers' = workers /\ running_jobs' = running_jobs
  BY <1>1 DEF Running, Finished, endVars
<1>12. NodesAgree' /\ EndsFinite'
  BY <1>11 DEF IInv, NodesAgree, EndsFinite
<1>13. Apart'
  BY <1>1, <1>3, <1>11 DEF IInv, Apart
<1>14. Counts'
  <2>1. All' = All \cup {j} /\ j \notin All
    BY <1>1, <1>3, <1>11 DEF All
  <2>2. Cardinality(All') = Cardinality(All) + 1 /\ Cardinality(All) \in Nat
    BY <2>1, AllFinite, FS_AddElement, FS_CardinalityType DEF IInv
  <2>3. /\ statistics' \in [Counted -> Nat]
        /\ statistics'["submitted"] = statistics["submitted"] + 1
        /\ \A c \in {"completed", "failed", "cancelled"} : statistics'[c] = statistics[c]
    BY <1>1 DEF Count, Counted, IInv, Counts
  <2> QED
    BY <1>11, <2>2, <2>3 DEF IInv, Counts
<1> QED
  BY <1>9, <1>10, <1>12, <1>13, <1>14 DEF IInv

LEMMA TailFacts ==
  ASSUME NEW S, NEW s \in Seq(S), s # <<>>, Distinct(s)
  PROVE  /\ Tail(s) \in Seq(S) /\ Distinct(Tail(s)) /\ Head(s) \in Members(s)
         /\ Members(Tail(s)) = Members(s) \ {Head(s)}
         /\ InOrder(s) => InOrder(Tail(s))
<1> DEFINE t == Tail(s)
           l == Len(s)
<1>1. /\ l \in Nat /\ l # 0 /\ DOMAIN s = 1..l /\ t \in Seq(S) /\ DOMAIN t = 1..(l - 1)
      /\ \A n \in 1..(l - 1) : t[n] = s[n + 1]
      /\ Head(s) = s[1] /\ 1 \in DOMAIN s
  OBVIOUS
<1> HIDE DEF t, l
<1>2. Distinct(t)
  <2> SUFFICES ASSUME NEW m \in DOMAIN t, NEW n \in DOMAIN t, t[m] = t[n] PROVE m = n
    BY DEF Distinct
  <2>1. s[m + 1] = s[n + 1] /\ m + 1 \in DOMAIN s /\ n + 1 \in DOMAIN s
    BY <1>1
  <2>2. m + 1 = n + 1
    BY <2>1 DEF Distinct
  <2> QED
    BY <1>1, <2>2
<1>3. Members(t) = Members(s) \ {Head(s)}
  <2>1. ASSUME NEW n \in 1..(l - 1) PROVE t[n] \in Members(s) /\ t[n] # s[1]
    <3>1. t[n] = s[n + 1] /\ n + 1 \in DOMAIN s /\ n + 1 # 1
      BY <1>1
    <3> QED
      BY <1>1, <3>1 DEF Members, Distinct
  <2>2. ASSUME NEW n \in DOMAIN s, s[n] # s[1] PROVE s[n] \in Members(t)
    <3>1. n # 1
      BY <2>2
    <3>2. n - 1 \in DOMAIN t /\ t[n - 1] = s[n]
      BY <1>1, <3>1
    <3> QED
      BY <3>2 DEF Members
  <2>3. \A x \in Members(t) : x \in Members(s) /\ x # s[1]
    BY <1>1, <2>1 DEF Members
  <2>4. \A x \in Members(s) : x # s[1] => x \in Members(t)
    BY <2>2 DEF Members
  <2> QED
    BY <1>1, <2>3, <2>4
<1>4. ASSUME InOrder(s) PROVE InOrder(t)
  <2> SUFFICES ASSUME NEW m \in DOMAIN t, NEW n \in DOMAIN t, m < n
               PROVE  KeyAtMost(t[m], t[n])
    BY DEF InOrder
  <2>1. /\ m + 1 \in DOMAIN s /\ n + 1 \in DOMAIN s /\ m + 1 < n + 1
        /\ t[m] = s[m + 1] /\ t[n] = s[n + 1]
    BY <1>1
  <2> QED
    BY <1>4, <2>1 DEF InOrder
<1> QED
  BY <1>1, <1>2, <1>3, <1>4 DEF t, Members

LEMMA PopKeeps ==
  ASSUME IInv, pop_next
  PROVE  IInv'
<1> DEFINE j == Head(queued_jobs)
<1>1. /\ queued_jobs # <<>> /\ queued_jobs' = Tail(queued_jobs)
      /\ queued_ids' = queued_ids \ {j} /\ popped' = popped + 1
      /\ UNCHANGED <<workers, running_jobs, endVars, statistics, orphaned, aged>>
  BY DEF pop_next
<1>2. queued_jobs \in Seq(Jobs) /\ Distinct(queued_jobs) /\ queued_ids = Members(queued_jobs)
  BY DEF IInv, QueueOK
<1>3. /\ queued_jobs' \in Seq(Jobs) /\ Distinct(queued_jobs') /\ j \in queued_ids
      /\ queued_ids' = Members(queued_jobs')
      /\ InOrder(queued_jobs) => InOrder(queued_jobs')
  BY <1>1, <1>2, TailFacts
<1> HIDE DEF j
<1>4. QueueOK' /\ Ordered'
  BY <1>1, <1>3 DEF IInv, QueueOK, Ordered
<1>5. /\ Running' = Running /\ Finished' = Finished /\ orphaned' = orphaned
      /\ completed_jobs' = completed_jobs /\ failed_jobs' = failed_jobs
      /\ cancelled_jobs' = cancelled_jobs /\ statistics' = statistics
      /\ workers' = workers /\ running_jobs' = running_jobs
  BY <1>1 DEF Running, Finished, endVars
<1>6. NodesAgree' /\ EndsFinite'
  BY <1>5 DEF IInv, NodesAgree, EndsFinite
<1>7. Apart'
  BY <1>1, <1>5 DEF IInv, Apart
<1>8. Counts'
  <2>1. All' = All \ {j} /\ j \in All
    BY <1>1, <1>3, <1>5 DEF All, IInv, Apart
  <2>2. Cardinality(All') = Cardinality(All) - 1 /\ Cardinality(All) \in Nat
    BY <2>1, AllFinite, FS_RemoveElement, FS_CardinalityType DEF IInv
  <2> QED
    BY <1>1, <1>5, <2>2 DEF IInv, Counts
<1> QED
  BY <1>4, <1>6, <1>7, <1>8 DEF IInv

\* An assignment goes through the queue, in its order or another.
LEMMA AssignKeeps ==
  ASSUME IInv, NEW q, q \in Seq(Jobs), Distinct(q), Members(q) = queued_ids,
         NEW asked, Assign(q, asked)
  PROVE  /\ NodesAgree' /\ QueueOK' /\ Apart' /\ EndsFinite' /\ Counts'
         /\ queued_jobs' \in Seq(Jobs) /\ ThinnedFrom(queued_jobs', q, Len(q))
<1> DEFINE done == Assignment(q, asked)
<1>1. /\ queued_jobs' = done.queue
      /\ queued_ids' = Members(done.queue)
      /\ workers' = done.workers /\ running_jobs' = done.running
      /\ UNCHANGED <<endVars, statistics, popped, orphaned>>
  BY DEF Assign, Members
<1>2. Assignable(q)
  BY DEF Assignable, IInv, NodesAgree, Apart
<1>3. SoFar(done, q, Len(q))
  BY <1>2, AssignmentFacts
<1> HIDE DEF done
<1>4. /\ done.queue \in Seq(Jobs) /\ ThinnedFrom(done.queue, q, Len(q))
      /\ NodesOK(done.workers) /\ RunningOK(done.running)
      /\ Agree(done.workers, done.running, orphaned)
      /\ Running \subseteq DOMAIN done.running
      /\ Members(done.queue) \cup DOMAIN done.running = Running \cup queued_ids
      /\ Members(done.queue) \cap DOMAIN done.running = {}
  <2>1. {q[i] : i \in 1..Len(q)} = queued_ids
    BY DEF Members
  <2> QED
    BY <1>3, <2>1 DEF SoFar
<1>5. Running' = DOMAIN done.running /\ orphaned' = orphaned
  BY <1>1 DEF Running
<1>6. NodesAgree'
  BY <1>1, <1>4, <1>5 DEF NodesAgree, IInv
<1>7. QueueOK'
  <2>1. Distinct(done.queue)
    BY <1>4, ThinsKeep
  <2> QED
    BY <1>1, <1>4, <2>1 DEF QueueOK
<1>8. /\ Finished' = Finished /\ completed_jobs' = completed_jobs
      /\ failed_jobs' = failed_jobs /\ cancelled_jobs' = cancelled_jobs
      /\ statistics' = statistics /\ popped' = popped
  BY <1>1 DEF Finished, endVars
<1>9. queued_ids' \cup Running' = queued_ids \cup Running /\ queued_ids' \cap Running' = {}
  BY <1>1, <1>4, <1>5
<1>10. Apart' /\ EndsFinite'
  BY <1>8, <1>9 DEF IInv, Apart, EndsFinite
<1>11. Counts'
  <2>1. All' = All
    BY <1>8, <1>9 DEF All
  <2> QED
    BY <1>8, <2>1 DEF IInv, Counts
<1> QED
  BY <1>1, <1>4, <1>6, <1>7, <1>10, <1>11

LEMMA AssignInOrderKeeps ==
  ASSUME IInv, NEW asked, Assign(queued_jobs, asked), aged' = aged
  PROVE  IInv'
<1>1. queued_jobs \in Seq(Jobs) /\ Distinct(queued_jobs) /\ Members(queued_jobs) = queued_ids
  BY DEF IInv, QueueOK
<1>2. /\ NodesAgree' /\ QueueOK' /\ Apart' /\ EndsFinite' /\ Counts'
      /\ queued_jobs' \in Seq(Jobs)
      /\ ThinnedFrom(queued_jobs', queued_jobs, Len(queued_jobs))
  BY <1>1, AssignKeeps
<1>3. InOrder(queued_jobs) => InOrder(queued_jobs')
  BY <1>1, <1>2, ThinsKeep
<1>4. Ordered'
  BY <1>3 DEF IInv, Ordered
<1> QED
  BY <1>2, <1>4 DEF IInv

LEMMA AgingKeeps ==
  ASSUME IInv, NEW now \in Clocks, NEW rate \in Rates, assign_jobs_with_aging(now, rate)
  PROVE  IInv'
<1> DEFINE q == Sorted(queued_jobs, AgedOrder(now, rate))
<1>1. Assign(q, NoTags) /\ aged' = TRUE
  BY DEF assign_jobs_with_aging
<1>2. queued_jobs \in Seq(Jobs) /\ Distinct(queued_jobs) /\ Members(queued_jobs) = queued_ids
  BY DEF IInv, QueueOK
<1>3. q \in Seq(Jobs) /\ Distinct(q) /\ Members(q) = queued_ids
  BY <1>2, QueueOrders, SortedList
<1> HIDE DEF q
<1>4. NodesAgree' /\ QueueOK' /\ Apart' /\ EndsFinite' /\ Counts'
  BY <1>1, <1>3, AssignKeeps
<1>5. Ordered'
  BY <1>1 DEF Ordered
<1> QED
  BY <1>4, <1>5 DEF IInv

LEMMA InvNext == IInv /\ [Next]_vars => IInv'
<1> SUFFICES ASSUME IInv, [Next]_vars PROVE IInv'
  OBVIOUS
<1>1. ASSUME NEW w \in Workers, register(w) PROVE IInv'
  BY <1>1, RegisterKeeps
<1>2. ASSUME NEW w \in Workers, remove(w) PROVE IInv'
  BY <1>2, RemoveKeeps
<1>3. ASSUME NEW w \in Workers, NEW s \in Statuses, update_status(w, s) PROVE IInv'
  BY <1>3, StatusKeeps
<1>4. ASSUME NEW j \in Jobs, submit(j) PROVE IInv'
  BY <1>4, SubmitKeeps
<1>5. ASSUME NEW j \in Jobs, cancel(j) PROVE IInv'
  BY <1>5, CancelKeeps
<1>6. ASSUME NEW j \in Jobs, start_job(j) PROVE IInv'
  BY <1>6, StartKeeps
<1>7. ASSUME NEW j \in Jobs, complete_job(j) PROVE IInv'
  BY <1>7, CompleteKeeps
<1>8. ASSUME NEW j \in Jobs, fail_job(j) PROVE IInv'
  BY <1>8, FailKeeps
<1>9. CASE pop_next
  BY <1>9, PopKeeps
<1>10. CASE assign_jobs
  BY <1>10, AssignInOrderKeeps DEF assign_jobs
<1>11. CASE assign_jobs_with_affinity
  BY <1>11, AssignInOrderKeeps DEF assign_jobs_with_affinity
<1>12. ASSUME NEW now \in Clocks, NEW rate \in Rates, assign_jobs_with_aging(now, rate)
       PROVE  IInv'
  BY <1>12, AgingKeeps
<1>13. CASE UNCHANGED vars
  <2>1. Running' = Running /\ NodesAgree'
    BY <1>13 DEF vars, history, queueVars, endVars, Running, NodesAgree, IInv
  <2> QED
    BY <1>13, <2>1, SameContainers DEF vars, history
<1> QED
  BY <1>1, <1>2, <1>3, <1>4, <1>5, <1>6, <1>7, <1>8, <1>9, <1>10, <1>11, <1>12, <1>13 DEF Next

-----------------------------------------------------------------------------
(* What holds of every cluster.                                             *)

LEMMA Invariant == Spec => []IInv
<1> QED
  BY InvInit, InvNext, PTL DEF Spec

\* Every container has its shape, no worker runs more than its capacity, and
\* DistributedState loses no job: it is in one place at a time, and the
\* statistics count what the containers hold and what pop_next took.
THEOREM ClusterTheorem == Spec => []ClusterInv
<1> QED
  BY Invariant, InvImplies, PTL

\* WorkerNode.running_jobs and DistributedState.running_jobs say the same of
\* every registered worker, but for the jobs it had when it was removed.
THEOREM WorkersAgreeTheorem == Spec => []WorkersAgree
<1> QED
  BY Invariant, InvImplies, PTL

\* The queue is in priority order from any change but an aging assignment to
\* the next: appending without sorting never breaks it.
THEOREM OrderedTheorem == Spec => []OrderedUnlessAged
<1> QED
  BY Invariant, InvImplies, PTL
=============================================================================
