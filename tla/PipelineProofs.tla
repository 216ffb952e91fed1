--------------------------- MODULE PipelineProofs ---------------------------
(***************************************************************************)
(* The ledgers of the execution pipeline describe its orders, and the      *)
(* strategies explain the account, for any strategies, prices, intents,    *)
(* amends, budget and ceilings.                                            *)
(*                                                                         *)
(* The argument is about a book, a value of st: each thing a step does to  *)
(* one -- a fill, the end of an order, a cut, a placement, an allocation   *)
(* -- leaves a sound book sound, and a step of the pipeline is a sequence  *)
(* of these.  An amend is proved in the same way: its trial is a sound     *)
(* book whether it is kept or not.                                         *)
(***************************************************************************)
EXTENDS Pipeline, WellFoundedInduction, FiniteSetTheorems, TLAPS

-----------------------------------------------------------------------------
(* Numbers and finite sets.                                                 *)

\* A set of numbers that has a member has a least one.
LEMMA LeastNumber ==
    ASSUME NEW S \in SUBSET Nat, S # {}
    PROVE  \E n \in S : \A m \in S : n <= m
<1> DEFINE Less == OpToRel(<, Nat)
<1>1. IsWellFoundedOn(Less, Nat)
  BY NatLessThanWellFounded
<1>2. PICK n \in S : \A m \in S : ~(<<m, n>> \in Less)
  <2> HIDE DEF Less
  <2> QED
    BY <1>1, WFMin
<1>3. n \in Nat /\ \A m \in Nat : m < n => m \notin S
  BY <1>2 DEF OpToRel
<1> QED
  BY <1>3

\* What holds of 0 and passes to the next number holds of every number to m.
LEMMA UpTo ==
    ASSUME NEW m \in Nat, NEW F, 0 \in F,
           \A n \in Nat : n < m /\ n \in F => n + 1 \in F
    PROVE  \A n \in 0..m : n \in F
<1> DEFINE bad == {n \in 0..m : n \notin F}
<1> SUFFICES ASSUME bad # {} PROVE FALSE
  OBVIOUS
<1>1. PICK n \in bad : \A k \in bad : n <= k
  <2>1. bad \in SUBSET Nat
    OBVIOUS
  <2> HIDE DEF bad
  <2> QED
    BY <2>1, LeastNumber
<1>2. n # 0 /\ n - 1 \in Nat /\ n - 1 < m /\ n - 1 \in 0..m /\ n \notin F
  BY <1>1
<1>3. n - 1 \in F
  BY <1>1, <1>2
<1>4. (n - 1) + 1 \in F
  BY <1>2, <1>3
<1> QED
  BY <1>2, <1>4

\* What holds of nothing and passes to one more member holds of a finite set.
LEMMA SetGrows ==
    ASSUME NEW S, IsFiniteSet(S), NEW F, {} \in F,
           \A T \in SUBSET S : \A x \in S \ T : T \in F => T \cup {x} \in F
    PROVE  S \in F
<1> DEFINE bad == {n \in Nat : \E T \in SUBSET S : Cardinality(T) = n /\ T \notin F}
<1> SUFFICES ASSUME S \notin F PROVE FALSE
  OBVIOUS
<1>1. bad \in SUBSET Nat /\ Cardinality(S) \in bad
  BY FS_CardinalityType
<1>2. PICK n \in bad : \A k \in bad : n <= k
  <2> HIDE DEF bad
  <2> QED
    BY <1>1, LeastNumber
<1>3. PICK T \in SUBSET S : Cardinality(T) = n /\ T \notin F
  BY <1>2
<1>4. PICK x \in T : TRUE
  BY <1>3
<1>5. IsFiniteSet(T) /\ IsFiniteSet(T \ {x}) /\ Cardinality(T \ {x}) = n - 1
  BY <1>3, <1>4, FS_Subset, FS_RemoveElement
<1>6. T \ {x} \in F
  <2>1. n - 1 \in Nat
    BY <1>5, FS_CardinalityType
  <2>2. n - 1 \notin bad
    BY <1>2, <2>1
  <2> QED
    BY <1>5, <2>1, <2>2
<1>7. (T \ {x}) \cup {x} \in F /\ (T \ {x}) \cup {x} = T
  BY <1>4, <1>6
<1> QED
  BY <1>3, <1>7

LEMMA GreatestNumber ==
    ASSUME NEW S \in SUBSET Nat, IsFiniteSet(S), S # {}
    PROVE  Max(S) \in S /\ \A n \in S : n <= Max(S)
<1> DEFINE F == {T \in SUBSET S : T = {} \/ \E x \in T : \A y \in T : x >= y}
<1>1. S \in F
  <2>1. {} \in F
    OBVIOUS
  <2>2. ASSUME NEW T \in SUBSET S, NEW x \in S \ T, T \in F
        PROVE  T \cup {x} \in F
    <3>1. CASE T = {}
      BY <3>1
    <3>2. CASE T # {}
      <4>1. PICK z \in T : \A y \in T : z >= y
        BY <2>2, <3>2
      <4>2. CASE z >= x
        BY <4>1, <4>2
      <4>3. CASE ~(z >= x)
        <5>1. z \in Nat /\ x \in Nat /\ T \subseteq Nat
          OBVIOUS
        <5>2. \A y \in T \cup {x} : x >= y
          BY <4>1, <4>3, <5>1
        <5> QED
          BY <5>2
      <4> QED
        BY <4>2, <4>3
    <3> QED
      BY <3>1, <3>2
  <2> HIDE DEF F
  <2> QED
    BY <2>1, <2>2, SetGrows
<1>2. \E x \in S : \A y \in S : x >= y
  BY <1>1
<1> QED
  BY <1>2 DEF Max

LEMMA SmallestNumber ==
    ASSUME NEW S \in SUBSET Nat, S # {}
    PROVE  Min(S) \in S /\ \A n \in S : Min(S) <= n
BY LeastNumber DEF Min

\* The larger and the smaller of two numbers.
LEMMA TwoNumbers ==
    ASSUME NEW x \in Int, NEW y \in Int
    PROVE  /\ Max({x, y}) = IF x >= y THEN x ELSE y
           /\ Min({x, y}) = IF x <= y THEN x ELSE y
<1>1. \E m \in {x, y} : \A n \in {x, y} : m >= n
  OBVIOUS
<1>2. \E m \in {x, y} : \A n \in {x, y} : m <= n
  OBVIOUS
<1>3. Max({x, y}) \in {x, y} /\ \A n \in {x, y} : Max({x, y}) >= n
  BY <1>1 DEF Max
<1>4. Min({x, y}) \in {x, y} /\ \A n \in {x, y} : Min({x, y}) <= n
  BY <1>2 DEF Min
<1>5. Max({x, y}) = IF x >= y THEN x ELSE y
  BY <1>3
<1>6. Min({x, y}) = IF x <= y THEN x ELSE y
  BY <1>4
<1> QED
  BY <1>5, <1>6

-----------------------------------------------------------------------------
(* Sums of numbers that are not negative.                                   *)

LEMMA UnitsOfOne ==
  ASSUME NEW k, NEW n \in Nat
  PROVE  IsFiniteSet({k} \X (1 .. n)) /\ Cardinality({k} \X (1 .. n)) = n
<1>1. IsFiniteSet({k}) /\ Cardinality({k}) = 1
  BY FS_Singleton
<1>2. IsFiniteSet(1 .. n) /\ Cardinality(1 .. n) = n
  BY FS_Interval
<1>3. /\ IsFiniteSet({k} \X (1 .. n))
      /\ Cardinality({k} \X (1 .. n)) = Cardinality({k}) * Cardinality(1 .. n)
  BY <1>1, <1>2, FS_Product
<1>4. 1 * n = n
  OBVIOUS
<1> QED
  BY <1>1, <1>2, <1>3, <1>4

LEMMA SumType ==
  ASSUME NEW S, IsFiniteSet(S), NEW f \in [S -> Nat]
  PROVE  IsFiniteSet(Units(f)) /\ SumOf(f) \in Nat
<1> DEFINE part == [k \in S |-> {k} \X (1 .. f[k])]
           parts == {{k} \X (1 .. f[k]) : k \in S}
<1>1. IsFiniteSet(parts)
  <2>1. part \in Surjection(S, parts)
    BY DEF Surjection
  <2> QED
    BY <2>1, FS_Surjection
<1>2. \A p \in parts : IsFiniteSet(p)
  <2>1. \A k \in S : IsFiniteSet({k} \X (1 .. f[k]))
    BY UnitsOfOne
  <2> QED
    BY <2>1
<1>3. IsFiniteSet(UNION parts)
  BY <1>1, <1>2, FS_UNION
<1>4. Units(f) = UNION parts
  BY DEF Units
<1> QED
  BY <1>3, <1>4, FS_CardinalityType DEF SumOf

LEMMA SumOfNone ==
  ASSUME NEW f, DOMAIN f = {}
  PROVE  SumOf(f) = 0
<1>1. Units(f) = {}
  BY DEF Units
<1> QED
  BY <1>1, FS_EmptySet DEF SumOf

\* A set with one key more.
Larger(T, S, k) == k \notin S /\ T = S \cup {k}

\* The sum over a larger domain, by one key.
LEMMA SumGrows ==
  ASSUME NEW S, IsFiniteSet(S), NEW f \in [S -> Nat],
         NEW k, NEW T, Larger(T, S, k), NEW g \in [T -> Nat],
         \A x \in S : g[x] = f[x]
  PROVE  SumOf(g) = SumOf(f) + g[k]
<1>0. k \notin S /\ T = S \cup {k}
  BY DEF Larger
<1> DEFINE new == {k} \X (1 .. g[k])
<1>1. IsFiniteSet(Units(f)) /\ IsFiniteSet(new) /\ Cardinality(new) = g[k]
  BY <1>0, SumType, UnitsOfOne
<1>2. Units(g) = Units(f) \cup new
  BY <1>0 DEF Units
<1>3. Units(f) \cap new = {}
  BY <1>0 DEF Units
<1>4. Cardinality(Units(f)) \in Nat /\ g[k] \in Nat
  BY <1>1, FS_CardinalityType
<1> QED
  BY <1>1, <1>2, <1>3, <1>4, FS_Union, FS_EmptySet DEF SumOf


-----------------------------------------------------------------------------
(* Sums of numbers of either sign.                                          *)

Gains(f) == [k \in DOMAIN f |-> IF f[k] > 0 THEN f[k] ELSE 0]

Losses(f) == [k \in DOMAIN f |-> IF f[k] < 0 THEN -f[k] ELSE 0]

LEMMA TotalIs ==
    ASSUME NEW f
    PROVE  Total(f) = SumOf(Gains(f)) - SumOf(Losses(f))
BY DEF Total, Gains, Losses

LEMMA GainsAndLosses ==
    ASSUME NEW S, NEW f \in [S -> Int]
    PROVE  /\ Gains(f) \in [S -> Nat] /\ Losses(f) \in [S -> Nat]
           /\ \A k \in S : Gains(f)[k] - Losses(f)[k] = f[k]
BY DEF Gains, Losses

LEMMA TotalType ==
    ASSUME NEW S, IsFiniteSet(S), NEW f \in [S -> Int]
    PROVE  Total(f) \in Int
<1>1. SumOf(Gains(f)) \in Nat /\ SumOf(Losses(f)) \in Nat
  BY GainsAndLosses, SumType
<1> QED
  BY <1>1, TotalIs

LEMMA TotalOfNone ==
    ASSUME NEW f, DOMAIN f = {}
    PROVE  Total(f) = 0
<1>1. DOMAIN Gains(f) = {} /\ DOMAIN Losses(f) = {}
  BY DEF Gains, Losses
<1>2. SumOf(Gains(f)) = 0 /\ SumOf(Losses(f)) = 0
  BY <1>1, SumOfNone
<1> QED
  BY <1>2, TotalIs

LEMMA TotalGrows ==
    ASSUME NEW S, IsFiniteSet(S), NEW f \in [S -> Int],
           NEW k, NEW T, Larger(T, S, k), NEW g \in [T -> Int],
           \A x \in S : g[x] = f[x]
    PROVE  Total(g) = Total(f) + g[k]
<1>0. k \notin S /\ T = S \cup {k}
  BY DEF Larger
<1>1. /\ Gains(f) \in [S -> Nat] /\ Losses(f) \in [S -> Nat]
      /\ Gains(g) \in [T -> Nat] /\ Losses(g) \in [T -> Nat]
  BY <1>0, GainsAndLosses
<1>2. \A x \in S : Gains(g)[x] = Gains(f)[x]
  BY <1>0 DEF Gains
<1>7. \A x \in S : Losses(g)[x] = Losses(f)[x]
  BY <1>0 DEF Losses
<1>3. SumOf(Gains(g)) = SumOf(Gains(f)) + Gains(g)[k]
  BY <1>1, <1>2, SumGrows
<1>4. SumOf(Losses(g)) = SumOf(Losses(f)) + Losses(g)[k]
  BY <1>1, <1>7, SumGrows
<1>5. Gains(g)[k] - Losses(g)[k] = g[k]
  BY <1>0, GainsAndLosses
<1>6. /\ SumOf(Gains(f)) \in Nat /\ SumOf(Losses(f)) \in Nat
      /\ Gains(g)[k] \in Nat /\ Losses(g)[k] \in Nat /\ g[k] \in Int
  BY <1>0, <1>1, SumType
<1> QED
  BY <1>3, <1>4, <1>5, <1>6, TotalIs

\* One key less.
LEMMA TotalWithout ==
    ASSUME NEW S, IsFiniteSet(S), NEW f \in [S -> Int], NEW k
    PROVE  /\ Without(f, k) \in [S \ {k} -> Int]
           /\ Total(Without(f, k)) = Total(f) - Get(f, k)
<1>1. Without(f, k) \in [S \ {k} -> Int]
  BY DEF Without
<1>2. CASE k \in S
  <2>1. IsFiniteSet(S \ {k}) /\ (S \ {k}) \cup {k} = S
    BY <1>2, FS_RemoveElement
  <2>2. \A x \in S \ {k} : f[x] = Without(f, k)[x]
    BY DEF Without
  <2>4. Total(f) = Total(Without(f, k)) + f[k]
    <3> DEFINE R == S \ {k}
    <3>1. Larger(S, R, k) /\ IsFiniteSet(R)
      BY <2>1 DEF Larger
    <3>2. Without(f, k) \in [R -> Int] /\ \A x \in R : f[x] = Without(f, k)[x]
      BY <1>1, <2>2
    <3> HIDE DEF R
    <3> QED
      BY <3>1, <3>2, TotalGrows
  <2>5. Total(Without(f, k)) \in Int /\ f[k] \in Int
    BY <1>1, <1>2, <2>1, TotalType
  <2> QED
    BY <1>1, <1>2, <2>4, <2>5 DEF Get
<1>3. CASE k \notin S
  <2>1. Without(f, k) = f
    BY <1>3 DEF Without
  <2> QED
    BY <1>1, <1>3, <2>1, TotalType DEF Get
<1> QED
  BY <1>2, <1>3

\* One key has another value, or is new.
LEMMA TotalWith ==
    ASSUME NEW S, IsFiniteSet(S), NEW f \in [S -> Int], NEW k, NEW v, v \in Int
    PROVE  Total(With(f, k, v)) = Total(f) - Get(f, k) + v
<1> DEFINE R == S \ {k}
           rest_ == Without(f, k)
<1>1. With(f, k, v) \in [S \cup {k} -> Int] /\ With(f, k, v)[k] = v
  BY DEF With
<1>2. R \cup {k} = S \cup {k} /\ k \notin R /\ IsFiniteSet(R)
  BY FS_RemoveElement
<1>3. rest_ \in [R -> Int] /\ Total(rest_) = Total(f) - Get(f, k)
  BY TotalWithout
<1>4. \A x \in R : With(f, k, v)[x] = rest_[x]
  BY DEF With, Without
<1>5. Total(With(f, k, v)) = Total(rest_) + v
  <2> DEFINE more == With(f, k, v)
             T == S \cup {k}
  <2>1. more \in [T -> Int] /\ more[k] = v /\ Larger(T, R, k)
    BY <1>1, <1>2 DEF Larger
  <2>2. \A x \in R : more[x] = rest_[x]
    BY <1>4
  <2> HIDE DEF R, rest_, more, T
  <2>3. Total(more) = Total(rest_) + more[k]
    BY <1>2, <1>3, <2>1, <2>2, TotalGrows
  <2> QED
    BY <2>1, <2>3 DEF more
<1> QED
  BY <1>1, <1>3, <1>5

\* Keys that hold nothing add nothing.
LEMMA TotalPadded ==
    ASSUME NEW S, NEW T, S \subseteq T, NEW f \in [S -> Int],
           NEW g \in [T -> Int], \A x \in T : g[x] = Get(f, x)
    PROVE  Total(g) = Total(f)
<1>1. Units(Gains(g)) = Units(Gains(f))
  BY DEF Units, Gains, Get
<1>2. Units(Losses(g)) = Units(Losses(f))
  BY DEF Units, Losses, Get
<1> QED
  BY <1>1, <1>2, TotalIs DEF SumOf

\* Two maps over the same keys, added.
LEMMA TotalAdds ==
    ASSUME NEW S, IsFiniteSet(S), NEW f \in [S -> Int], NEW g \in [S -> Int]
    PROVE  Total([x \in S |-> f[x] + g[x]]) = Total(f) + Total(g)
<1> DEFINE On(h, T) == [x \in T |-> h[x]]
           Both(T) == [x \in T |-> f[x] + g[x]]
           F == {T \in SUBSET S : Total(Both(T)) = Total(On(f, T)) + Total(On(g, T))}
<1>1. {} \in F
  <2>1. Total(Both({})) = 0 /\ Total(On(f, {})) = 0 /\ Total(On(g, {})) = 0
    BY TotalOfNone
  <2> QED
    BY <2>1
<1>2. ASSUME NEW T \in SUBSET S, NEW k \in S \ T, T \in F
      PROVE  T \cup {k} \in F
  <2>1. IsFiniteSet(T)
    BY FS_Subset
  <2>2. /\ Both(T) \in [T -> Int] /\ On(f, T) \in [T -> Int] /\ On(g, T) \in [T -> Int]
        /\ Both(T \cup {k}) \in [T \cup {k} -> Int]
        /\ On(f, T \cup {k}) \in [T \cup {k} -> Int]
        /\ On(g, T \cup {k}) \in [T \cup {k} -> Int]
    OBVIOUS
  <2>3. /\ \A x \in T : /\ Both(T \cup {k})[x] = Both(T)[x]
                        /\ On(f, T \cup {k})[x] = On(f, T)[x]
                        /\ On(g, T \cup {k})[x] = On(g, T)[x]
        /\ Both(T \cup {k})[k] = f[k] + g[k]
        /\ On(f, T \cup {k})[k] = f[k] /\ On(g, T \cup {k})[k] = g[k]
    OBVIOUS
  <2>4. /\ Total(Both(T)) \in Int /\ Total(On(f, T)) \in Int /\ Total(On(g, T)) \in Int
        /\ f[k] \in Int /\ g[k] \in Int
    BY <2>1, <2>2, TotalType
  <2>5. Total(Both(T)) = Total(On(f, T)) + Total(On(g, T))
    BY <1>2
  <2> DEFINE R == T \cup {k}
  <2>r. Larger(R, T, k)
    BY DEF Larger
  <2> HIDE DEF Both, On
  <2>6. Total(Both(R)) = Total(Both(T)) + (f[k] + g[k])
    <3>1. Both(T) \in [T -> Int] /\ Both(R) \in [R -> Int]
      BY <2>2
    <3>2. \A x \in T : Both(R)[x] = Both(T)[x]
      BY <2>3
    <3> HIDE DEF R
    <3>3. Total(Both(R)) = Total(Both(T)) + Both(R)[k]
      BY <2>1, <2>r, <3>1, <3>2, TotalGrows
    <3> QED
      BY <3>3, <2>3 DEF R
  <2>o. ASSUME NEW h, On(h, T) \in [T -> Int], On(h, R) \in [R -> Int],
               \A x \in T : On(h, R)[x] = On(h, T)[x]
        PROVE  Total(On(h, R)) = Total(On(h, T)) + On(h, R)[k]
    <3> HIDE DEF R
    <3> QED
      BY <2>o, <2>1, <2>r, TotalGrows
  <2>7. Total(On(f, R)) = Total(On(f, T)) + f[k]
    BY <2>2, <2>3, <2>o
  <2>8. Total(On(g, R)) = Total(On(g, T)) + g[k]
    BY <2>2, <2>3, <2>o
  <2> QED
    BY <2>4, <2>5, <2>6, <2>7, <2>8
<1>3. S \in F
  <2> HIDE DEF F
  <2> QED
    BY <1>1, <1>2, SetGrows
<1>4. On(f, S) = f /\ On(g, S) = g
  OBVIOUS
<1> QED
  BY <1>3, <1>4

\* A sum of numbers that are not negative is not negative.
LEMMA TotalOfNaturals ==
    ASSUME NEW S, IsFiniteSet(S), NEW f \in [S -> Nat]
    PROVE  Total(f) \in Nat
<1>1. Units(Losses(f)) = {}
  BY DEF Units, Losses
<1>2. SumOf(Losses(f)) = 0
  BY <1>1, FS_EmptySet DEF SumOf
<1>3. Gains(f) \in [S -> Nat]
  BY DEF Gains
<1>4. SumOf(Gains(f)) \in Nat
  BY <1>3, SumType
<1> QED
  BY <1>2, <1>4, TotalIs

-----------------------------------------------------------------------------
(* Rounding, and what an order adds to an exposure.                         *)

LEMMA MagnitudeType ==
    ASSUME NEW x \in Int
    PROVE  /\ Magnitude(x) \in Nat
           /\ x = 0 <=> Magnitude(x) = 0
           /\ Magnitude(x) = IF x < 0 THEN -x ELSE x
BY DEF Magnitude

LEMMA TimesNatural ==
    ASSUME NEW a \in Nat, NEW x \in Int, NEW y \in Int, x <= y
    PROVE  a * x <= a * y
<1>1. a * (y - x) >= 0
  OBVIOUS
<1>2. a * (y - x) = a * y - a * x
  OBVIOUS
<1> QED
  BY <1>1, <1>2

\* A comparison of multiples compares what is multiplied.
LEMMA Cancel ==
    ASSUME NEW d \in Nat \ {0}, NEW x \in Int, NEW y \in Int, x * d < y * d
    PROVE  x < y
<1> SUFFICES ASSUME y <= x PROVE FALSE
  OBVIOUS
<1>1. d * y <= d * x
  BY TimesNatural
<1>2. d * y = y * d /\ d * x = x * d
  OBVIOUS
<1>3. x * d \in Int /\ y * d \in Int
  OBVIOUS
<1> QED
  BY <1>1, <1>2, <1>3

LEMMA Division ==
    ASSUME NEW n \in Int, NEW d \in Nat \ {0}
    PROVE  /\ n \div d \in Int /\ n % d \in Int
           /\ n = (n \div d) * d + (n % d)
           /\ 0 <= n % d /\ n % d < d
OBVIOUS

LEMMA QuantizeType ==
    ASSUME NEW n \in Int, NEW d \in Int, d # 0
    PROVE  Quantize(n, d) \in Int
<1> DEFINE m == IF d < 0 THEN -n ELSE n
           k == Magnitude(d)
<1>1. m \in Int /\ k \in Nat \ {0}
  BY MagnitudeType
<1>2. m \div k \in Int
  <2> HIDE DEF m, k
  <2> QED
    BY <1>1, Division
<1>3. Quantize(n, d) \in {m \div k, m \div k + 1}
  BY DEF Quantize
<1> QED
  BY <1>2, <1>3

\* A quotient is rounded to between the bounds it has.
LEMMA QuantizeBounds ==
    ASSUME NEW n \in Int, NEW d \in Nat \ {0}, NEW b \in Int
    PROVE  /\ n <= b * d => Quantize(n, d) <= b
           /\ b * d <= n => b <= Quantize(n, d)
<1> DEFINE q == n \div d
           r == n % d
<1>1. /\ q \in Int /\ r \in Int /\ n = q * d + r /\ 0 <= r /\ r < d
      /\ q * d \in Int /\ b * d \in Int /\ (q + 1) * d \in Int
      /\ (q + 1) * d = q * d + d /\ (b + 1) * d = b * d + d
  BY Division
<1>2. Magnitude(d) = d /\ ~(d < 0)
  BY MagnitudeType
<1>3. Quantize(n, d) =
        IF 2 * r > d \/ (2 * r = d /\ q % 2 = 1) THEN q + 1 ELSE q
  BY <1>2 DEF Quantize
<1>4. CASE r = 0
  <2>1. Quantize(n, d) = q
    BY <1>1, <1>3, <1>4
  <2>2. n <= b * d => q < b + 1
    <3>1. n <= b * d => q * d < (b + 1) * d
      BY <1>1, <1>4
    <3> HIDE DEF q, r
    <3> QED
      BY <1>1, <3>1, Cancel
  <2>3. b * d <= n => b < q + 1
    <3>1. b * d <= n => b * d < (q + 1) * d
      BY <1>1, <1>4
    <3> HIDE DEF q, r
    <3> QED
      BY <1>1, <3>1, Cancel
  <2> HIDE DEF q, r
  <2> QED
    BY <1>1, <2>1, <2>2, <2>3
<1>5. CASE r # 0
  <2>1. Quantize(n, d) \in {q, q + 1}
    BY <1>3
  <2>2. n <= b * d => q < b
    <3>1. n <= b * d => q * d < b * d
      BY <1>1, <1>5
    <3> HIDE DEF q, r
    <3> QED
      BY <1>1, <3>1, Cancel
  <2>3. b * d <= n => b < q + 1
    <3>1. b * d <= n => b * d < (q + 1) * d
      BY <1>1, <1>5
    <3> HIDE DEF q, r
    <3> QED
      BY <1>1, <3>1, Cancel
  <2> HIDE DEF q, r
  <2> QED
    BY <1>1, <2>1, <2>2, <2>3
<1> QED
  BY <1>4, <1>5

LEMMA AddsType ==
    ASSUME NEW held \in Int, NEW delta \in Int
    PROVE  /\ adds_to_account(held, delta) \in Nat
           /\ adding_exposure(held, delta) \in Nat
<1> DEFINE x == Magnitude(held)
           y == Magnitude(held + delta)
<1>1. x \in Nat /\ y \in Nat /\ 0 \in Int /\ y - x \in Int
  BY MagnitudeType
<1>2. Max({0, y - x}) = IF 0 >= y - x THEN 0 ELSE y - x
  BY <1>1, TwoNumbers
<1>3. Max({0, y - x}) \in Nat
  <2> HIDE DEF x, y
  <2> QED
    BY <1>1, <1>2
<1>4. adds_to_account(held, delta) = Max({0, y - x})
  BY DEF adds_to_account
<1>5. adding_exposure(held, delta) \in {Max({0, y - x}), y}
  BY DEF adding_exposure
<1> QED
  BY <1>1, <1>3, <1>4, <1>5

\* What an order adds to the account does not grow when the order is cut.
LEMMA AddsLess ==
    ASSUME NEW held \in Int, NEW was \in Int, NEW now \in Int,
           Magnitude(now) <= Magnitude(was), (now > 0) = (was > 0)
    PROVE  adds_to_account(held, now) <= adds_to_account(held, was)
<1> DEFINE x == Magnitude(held)
           y == Magnitude(held + was)
           z == Magnitude(held + now)
<1>1. /\ x = IF held < 0 THEN -held ELSE held
      /\ y = IF held + was < 0 THEN -(held + was) ELSE held + was
      /\ z = IF held + now < 0 THEN -(held + now) ELSE held + now
      /\ (IF now < 0 THEN -now ELSE now) <= (IF was < 0 THEN -was ELSE was)
  BY DEF Magnitude
<1>2. /\ Max({0, y - x}) = IF 0 >= y - x THEN 0 ELSE y - x
      /\ Max({0, z - x}) = IF 0 >= z - x THEN 0 ELSE z - x
  <2>1. 0 \in Int /\ y - x \in Int /\ z - x \in Int
    BY MagnitudeType
  <2> HIDE DEF x, y, z
  <2> QED
    BY <2>1, TwoNumbers
<1>3. /\ adds_to_account(held, now) = Max({0, z - x})
      /\ adds_to_account(held, was) = Max({0, y - x})
  BY DEF adds_to_account
<1>4. x \in Int /\ y \in Int /\ z \in Int
  BY MagnitudeType
<1> HIDE DEF x, y, z
<1> QED
  BY <1>1, <1>2, <1>3, <1>4

\* A reservation that is cut with its order stays within what it was.
LEMMA KeptOfAccount ==
    ASSUME NEW reserved \in Nat, NEW before \in Int, NEW was \in Int, NEW now \in Int,
           was # 0, Magnitude(now) <= Magnitude(was), (now > 0) = (was > 0)
    PROVE  /\ still_added(reserved, before, was, now, adds_to_account) \in Nat
           /\ still_added(reserved, before, was, now, adds_to_account) <= reserved
<1>1. ASSUME NEW n \in Nat, NEW d \in Nat \ {0}, n <= d
      PROVE  Quantize(reserved * n, d) \in Nat /\ Quantize(reserved * n, d) <= reserved
  <2>1. reserved * n <= reserved * d /\ reserved * n >= 0 /\ 0 * d = 0
    BY <1>1, TimesNatural
  <2>2. reserved * n \in Int /\ d # 0
    OBVIOUS
  <2> DEFINE m == reserved * n
  <2> HIDE DEF m
  <2>3. m \in Int /\ m <= reserved * d /\ 0 * d <= m
    BY <2>1, <2>2 DEF m
  <2>4. Quantize(m, d) <= reserved /\ 0 <= Quantize(m, d) /\ Quantize(m, d) \in Int
    BY <2>3, QuantizeBounds, QuantizeType
  <2> QED
    BY <2>4 DEF m
<1>2. /\ adds_to_account(before, now) \in Nat /\ adds_to_account(before, was) \in Nat
      /\ adds_to_account(before, now) <= adds_to_account(before, was)
  BY AddsType, AddsLess
<1>3. Magnitude(now) \in Nat /\ Magnitude(was) \in Nat \ {0}
  BY MagnitudeType
<1>4. CASE adds_to_account(before, was) = 0
  <2>1. still_added(reserved, before, was, now, adds_to_account)
          = Quantize(reserved * Magnitude(now), Magnitude(was))
    BY <1>4 DEF still_added
  <2> QED
    BY <1>1, <1>3, <2>1
<1>5. CASE adds_to_account(before, was) # 0
  <2>1. still_added(reserved, before, was, now, adds_to_account)
          = Quantize(reserved * adds_to_account(before, now), adds_to_account(before, was))
    BY <1>5 DEF still_added
  <2> QED
    BY <1>1, <1>2, <1>5, <2>1
<1> QED
  BY <1>4, <1>5

\* What is kept of a ceiling's reservation is a number.
LEMMA KeptOfCeiling ==
    ASSUME NEW reserved \in Nat, NEW before \in Int, NEW was \in Int, NEW now \in Int,
           was # 0
    PROVE  still_added(reserved, before, was, now, adding_exposure) \in Nat
<1>1. /\ adding_exposure(before, now) \in Nat /\ adding_exposure(before, was) \in Nat
      /\ Magnitude(now) \in Nat /\ Magnitude(was) \in Nat \ {0}
  BY AddsType, MagnitudeType
<1>2. ASSUME NEW n \in Nat, NEW d \in Nat \ {0}
      PROVE  Quantize(reserved * n, d) \in Nat
  <2> DEFINE m == reserved * n
  <2>1. m \in Int /\ d # 0 /\ d \in Int /\ 0 * d <= m
    OBVIOUS
  <2> HIDE DEF m
  <2>2. Quantize(m, d) \in Int /\ 0 <= Quantize(m, d)
    BY <2>1, QuantizeType, QuantizeBounds
  <2> QED
    BY <2>2 DEF m
<1>3. CASE adding_exposure(before, was) = 0
  <2>1. still_added(reserved, before, was, now, adding_exposure)
          = Quantize(reserved * Magnitude(now), Magnitude(was))
    BY <1>3 DEF still_added
  <2> QED
    BY <1>1, <1>2, <2>1
<1>4. CASE adding_exposure(before, was) # 0
  <2>1. still_added(reserved, before, was, now, adding_exposure)
          = Quantize(reserved * adding_exposure(before, now), adding_exposure(before, was))
    BY <1>4 DEF still_added
  <2> QED
    BY <1>1, <1>2, <1>4, <2>1
<1> QED
  BY <1>3, <1>4

-----------------------------------------------------------------------------
(* The parts of a fill.                                                     *)

\* What the strategies that asked for an order asked for.
Shares == UNION {[D -> Int] : D \in (SUBSET Strategies) \ {{}}}

LEMMA SharesAre ==
    ASSUME NEW c \in Shares
    PROVE  /\ DOMAIN c \subseteq Strategies /\ DOMAIN c # {} /\ DOMAIN c \subseteq Nat
           /\ c \in [DOMAIN c -> Int] /\ IsFiniteSet(DOMAIN c)
<1>1. PICK D \in (SUBSET Strategies) \ {{}} : c \in [D -> Int]
  BY DEF Shares
<1>2. DOMAIN c = D
  BY <1>1
<1>3. IsFiniteSet(Strategies) /\ Strategies \subseteq Nat
  BY AllocationAssumption
<1>4. IsFiniteSet(D)
  BY <1>3, FS_Subset
<1> QED
  BY <1>1, <1>2, <1>3, <1>4

\* Each part is a number, and together they are the amount.
LEMMA SplitAddsUp ==
    ASSUME NEW amount \in Int, NEW c \in Shares
    PROVE  /\ split_by_contribution(amount, c) \in [DOMAIN c -> Int]
           /\ Total(split_by_contribution(amount, c)) = amount
<1> DEFINE D    == DOMAIN c
           net  == Total(c)
           last == CHOOSE s \in D : \A r \in D : r <= s
           Part(s) == IF net = 0 THEN Quantize(amount, Cardinality(D))
                      ELSE Quantize(amount * c[s], net)
           R    == D \ {last}
           head == [s \in R |-> Part(s)]
           all  == [s \in D |-> IF s = last THEN amount - Total(head) ELSE head[s]]
<1>1. split_by_contribution(amount, c) = all
  BY DEF split_by_contribution
<1>2. D # {} /\ D \in SUBSET Nat /\ IsFiniteSet(D) /\ c \in [D -> Int]
  BY SharesAre
<1>3. last \in D
  <2>1. Max(D) \in D /\ \A n \in D : n <= Max(D)
    <3> HIDE DEF D
    <3> QED
      BY <1>2, GreatestNumber
  <2> QED
    BY <2>1
<1>4. net \in Int
  <2> HIDE DEF D
  <2> QED
    BY <1>2, TotalType
<1>5. Cardinality(D) \in Int /\ Cardinality(D) # 0
  <2> HIDE DEF D
  <2> QED
    BY <1>2, FS_CardinalityType, FS_EmptySet
<1>6. \A s \in D : Part(s) \in Int
  <2> SUFFICES ASSUME NEW s \in D PROVE Part(s) \in Int
    OBVIOUS
  <2>1. c[s] \in Int /\ amount * c[s] \in Int
    BY <1>2
  <2>2. CASE net = 0
    <3>1. Quantize(amount, Cardinality(D)) \in Int
      <4> HIDE DEF D
      <4> QED
        BY <1>5, QuantizeType
    <3> QED
      BY <2>2, <3>1
  <2>3. CASE net # 0
    <3> DEFINE m == amount * c[s]
    <3>1. m \in Int
      BY <2>1
    <3>2. Quantize(m, net) \in Int
      <4> HIDE DEF m, net
      <4> QED
        BY <1>4, <2>3, <3>1, QuantizeType
    <3> QED
      BY <2>3, <3>2
  <2> QED
    BY <2>2, <2>3
<1>7. head \in [R -> Int]
  <2> HIDE DEF D, Part
  <2> QED
    BY <1>6
<1>8. IsFiniteSet(R) /\ Larger(D, R, last)
  <2>1. IsFiniteSet(R)
    <3> HIDE DEF D, last
    <3> QED
      BY <1>2, FS_RemoveElement
  <2> HIDE DEF last
  <2> QED
    BY <2>1, <1>3 DEF Larger
<1>9. Total(head) \in Int
  <2> HIDE DEF R, head
  <2> QED
    BY <1>7, <1>8, TotalType
<1>10. all \in [D -> Int] /\ all[last] = amount - Total(head)
  <2> HIDE DEF D, last, head
  <2> QED
    BY <1>3, <1>7, <1>9
<1>11. \A s \in R : all[s] = head[s]
  <2> HIDE DEF last, head
  <2> QED
    OBVIOUS
<1>12. Total(all) = Total(head) + all[last]
  <2> HIDE DEF D, R, last, head, all
  <2> QED
    BY <1>7, <1>8, <1>10, <1>11, TotalGrows
<1> HIDE DEF D, R, last, head, all
<1>13. Total(all) = amount
  BY <1>9, <1>10, <1>12
<1> QED
  BY <1>1, <1>10, <1>13 DEF D

-----------------------------------------------------------------------------
(* What a position can have cost.                                           *)

\* StrategiesExplainPosition of one strategy.
Costs(deployed, held) ==
    /\ deployed >= Magnitude(held) * Min(Prices)
    /\ deployed <= Magnitude(held) * Max(Prices)

LEMMA PricesAre ==
    /\ Min(Prices) \in Nat /\ Max(Prices) \in Nat
    /\ \A p \in Prices : p \in Nat /\ Min(Prices) <= p /\ p <= Max(Prices)
<1>1. Prices \in SUBSET Nat /\ IsFiniteSet(Prices) /\ Prices # {}
  BY PipelineAssumption
<1>2. Min(Prices) \in Prices /\ \A p \in Prices : Min(Prices) <= p
  BY <1>1, SmallestNumber
<1>3. Max(Prices) \in Prices /\ \A p \in Prices : p <= Max(Prices)
  BY <1>1, GreatestNumber
<1> QED
  BY <1>1, <1>2, <1>3

\* Part of a cost, in proportion, is the cost of that part.
LEMMA CostOfPart ==
    ASSUME NEW deployed \in Int, NEW lo \in Nat, NEW hi \in Nat,
           NEW x \in Nat \ {0}, NEW y \in Nat,
           x * lo <= deployed, deployed <= x * hi
    PROVE  /\ Quantize(deployed * y, x) \in Int
           /\ y * lo <= Quantize(deployed * y, x)
           /\ Quantize(deployed * y, x) <= y * hi
<1> DEFINE n == deployed * y
           a == y * lo
           b == y * hi
<1>1. n \in Int /\ a \in Int /\ b \in Int
  OBVIOUS
<1>2. a * x <= n
  <2>1. y * (x * lo) <= y * deployed
    <3> DEFINE m == x * lo
    <3>1. m \in Int /\ m <= deployed
      OBVIOUS
    <3> HIDE DEF m
    <3>2. y * m <= y * deployed
      BY <3>1, TimesNatural
    <3> QED
      BY <3>2 DEF m
  <2>2. y * (x * lo) = a * x /\ y * deployed = n
    OBVIOUS
  <2> QED
    BY <2>1, <2>2
<1>3. n <= b * x
  <2>1. y * deployed <= y * (x * hi)
    <3> DEFINE m == x * hi
    <3>1. m \in Int /\ deployed <= m
      OBVIOUS
    <3> HIDE DEF m
    <3>2. y * deployed <= y * m
      BY <3>1, TimesNatural
    <3> QED
      BY <3>2 DEF m
  <2>2. y * (x * hi) = b * x /\ y * deployed = n
    OBVIOUS
  <2> QED
    BY <2>1, <2>2
<1> HIDE DEF n, a, b
<1>4. a <= Quantize(n, x) /\ Quantize(n, x) <= b /\ Quantize(n, x) \in Int
  BY <1>1, <1>2, <1>3, QuantizeBounds, QuantizeType
<1> QED
  BY <1>4 DEF n, a, b

\* The cost a fill leaves, over the position it leaves.
kept_cost(capital, held, quantity) ==
    LET after == held + quantity
    IN  IF held # 0 /\ (after = 0 \/ (held > 0) # (after > 0)) THEN 0
        ELSE IF Magnitude(after) < Magnitude(held)
        THEN Quantize(capital.deployed * Magnitude(after), Magnitude(held))
        ELSE capital.deployed

LEMMA CostAfterFill ==
    ASSUME NEW capital, capital.deployed \in Int, NEW held \in Int, NEW quantity \in Int,
           NEW value \in Prices, Costs(capital.deployed, held)
    PROVE  /\ kept_cost(capital, held, quantity) \in Int
           /\ adding_exposure(held, quantity) * value \in Nat
           /\ Costs(kept_cost(capital, held, quantity)
                      + adding_exposure(held, quantity) * value, held + quantity)
<1> DEFINE after == held + quantity
           x  == Magnitude(held)
           y  == Magnitude(after)
           lo == Min(Prices)
           hi == Max(Prices)
           kept == kept_cost(capital, held, quantity)
           add  == adding_exposure(held, quantity)
           d == capital.deployed
<1>1. lo \in Nat /\ hi \in Nat /\ value \in Nat /\ lo <= value /\ value <= hi
  BY PricesAre
<1>2. after \in Int /\ x \in Nat /\ y \in Nat /\ (held = 0 <=> x = 0) /\ (after = 0 <=> y = 0)
  BY MagnitudeType
<1>3. x * lo <= d /\ d <= x * hi /\ d \in Int
  BY DEF Costs
<1>4. add \in Nat /\ add * value \in Nat
  <2>1. add \in Nat
    BY AddsType
  <2> HIDE DEF add
  <2> QED
    BY <1>1, <2>1
<1>5. Max({0, y - x}) = IF 0 >= y - x THEN 0 ELSE y - x
  <2>1. 0 \in Int /\ y - x \in Int
    BY <1>2
  <2> HIDE DEF x, y
  <2> QED
    BY <2>1, TwoNumbers
<1>6. add = IF held = 0 \/ (after # 0 /\ (held > 0) = (after > 0))
            THEN Max({0, y - x}) ELSE y
  BY DEF adding_exposure
<1>7. kept = IF held # 0 /\ (after = 0 \/ (held > 0) # (after > 0)) THEN 0
             ELSE IF y < x THEN Quantize(d * y, x) ELSE d
  BY DEF kept_cost
<1>8. kept \in Int /\ y * lo <= kept + add * value /\ kept + add * value <= y * hi
  <2> HIDE DEF after, x, y, lo, hi, kept, add, d
  <2>1. ASSUME NEW n \in Nat PROVE n * lo <= n * value /\ n * value <= n * hi
    BY <1>1, TimesNatural
  <2>2. CASE held = 0
    <3>1. x = 0 /\ d = 0 /\ kept = 0 /\ add = y
      BY <1>1, <1>2, <1>3, <1>5, <1>6, <1>7, <2>2
    <3> QED
      BY <1>1, <1>2, <2>1, <3>1
  <2>3. CASE held # 0 /\ ~(after # 0 /\ (held > 0) = (after > 0))
    <3>1. kept = 0 /\ add = y
      BY <1>6, <1>7, <2>3
    <3> QED
      BY <1>1, <1>2, <2>1, <3>1
  <2>4. CASE held # 0 /\ after # 0 /\ (held > 0) = (after > 0) /\ y < x
    <3>1. kept = Quantize(d * y, x) /\ add = 0
      BY <1>2, <1>5, <1>6, <1>7, <2>4
    <3>2. x # 0
      BY <1>2, <2>4
    <3>3. /\ Quantize(d * y, x) \in Int /\ y * lo <= Quantize(d * y, x)
          /\ Quantize(d * y, x) <= y * hi
      BY <1>1, <1>2, <1>3, <3>2, CostOfPart
    <3>4. add * value = 0
      BY <1>1, <3>1
    <3> QED
      BY <3>1, <3>3, <3>4
  <2>5. CASE held # 0 /\ after # 0 /\ (held > 0) = (after > 0) /\ ~(y < x)
    <3>1. kept = d /\ add = y - x
      BY <1>2, <1>5, <1>6, <1>7, <2>5
    <3>2. (y - x) * lo <= (y - x) * value /\ (y - x) * value <= (y - x) * hi
      <4>1. y - x \in Nat
        BY <1>2, <2>5
      <4> QED
        BY <2>1, <4>1
    <3>3. (y - x) * lo = y * lo - x * lo /\ (y - x) * hi = y * hi - x * hi
      BY <1>1, <1>2
    <3>4. x * lo \in Int /\ y * lo \in Int /\ x * hi \in Int /\ y * hi \in Int
          /\ (y - x) * value \in Int
      BY <1>1, <1>2
    <3> QED
      BY <1>3, <3>1, <3>2, <3>3, <3>4
  <2> QED
    BY <2>2, <2>3, <2>4, <2>5
<1> QED
  BY <1>4, <1>8 DEF Costs

-----------------------------------------------------------------------------
(* What a strategy's ceiling holds.                                         *)

\* Capital held for orders.
Held == UNION {[D -> Nat] : D \in SUBSET Ids}

Capital == [deployed : Int, reserved : Held, reserved_total : Int]

LEMMA IdsAre == IsFiniteSet(Ids) /\ Ids \subseteq Nat \ {0}
BY PipelineAssumption, FS_Interval DEF Ids

LEMMA HeldIs ==
    ASSUME NEW m \in Held
    PROVE  /\ m \in [DOMAIN m -> Nat] /\ m \in [DOMAIN m -> Int]
           /\ DOMAIN m \subseteq Ids /\ IsFiniteSet(DOMAIN m)
           /\ Total(m) \in Nat
           /\ \A k : Get(m, k) \in Nat
<1>1. PICK D \in SUBSET Ids : m \in [D -> Nat]
  BY DEF Held
<1>2. DOMAIN m = D
  BY <1>1
<1>3. IsFiniteSet(D)
  BY IdsAre, FS_Subset
<1>4. Total(m) \in Nat
  BY <1>1, <1>3, TotalOfNaturals
<1> QED
  BY <1>1, <1>2, <1>3, <1>4 DEF Get

LEMMA HeldIntro ==
    ASSUME NEW D \in SUBSET Ids, NEW m \in [D -> Nat]
    PROVE  m \in Held /\ DOMAIN m = D
BY DEF Held

LEMMA HeldWith ==
    ASSUME NEW m \in Held, NEW k \in Ids, NEW v \in Nat
    PROVE  /\ With(m, k, v) \in Held /\ DOMAIN With(m, k, v) = DOMAIN m \cup {k}
           /\ Total(With(m, k, v)) = Total(m) - Get(m, k) + v
<1> DEFINE D == DOMAIN m
           T == DOMAIN m \cup {k}
           more == With(m, k, v)
<1>1. m \in [D -> Nat] /\ m \in [D -> Int] /\ IsFiniteSet(D) /\ D \subseteq Ids
  BY HeldIs
<1>2. more \in [T -> Nat] /\ T \in SUBSET Ids
  BY <1>1 DEF With
<1>3. Total(more) = Total(m) - Get(m, k) + v
  <2>1. IsFiniteSet(D) /\ m \in [D -> Int] /\ v \in Int
    BY <1>1
  <2> HIDE DEF D, T
  <2>2. Total(With(m, k, v)) = Total(m) - Get(m, k) + v
    BY <2>1, TotalWith
  <2> QED
    BY <2>2
<1>4. more \in Held /\ DOMAIN more = T
  <2> HIDE DEF T, more
  <2> QED
    BY <1>2, HeldIntro
<1> QED
  BY <1>3, <1>4

LEMMA HeldWithout ==
    ASSUME NEW m \in Held, NEW k
    PROVE  /\ Without(m, k) \in Held /\ DOMAIN Without(m, k) = DOMAIN m \ {k}
           /\ Total(Without(m, k)) = Total(m) - Get(m, k)
<1> DEFINE D == DOMAIN m
           T == DOMAIN m \ {k}
           less == Without(m, k)
<1>1. m \in [D -> Nat] /\ m \in [D -> Int] /\ IsFiniteSet(D) /\ D \subseteq Ids
  BY HeldIs
<1>2. less \in [T -> Nat] /\ T \in SUBSET Ids
  BY <1>1 DEF Without
<1>3. Total(less) = Total(m) - Get(m, k)
  <2> HIDE DEF D
  <2> QED
    BY <1>1, TotalWithout
<1>4. less \in Held /\ DOMAIN less = T
  <2> HIDE DEF T, less
  <2> QED
    BY <1>2, HeldIntro
<1> QED
  BY <1>3, <1>4

\* A strategy's capital is held for orders it asked for, and adds up.
Holds(capital, asked) ==
    /\ capital \in Capital
    /\ capital.reserved_total = Total(capital.reserved)
    /\ DOMAIN capital.reserved \subseteq asked

LEMMA CapitalIs ==
    ASSUME NEW c, NEW d \in Int, NEW m \in Held, NEW asked, DOMAIN m \subseteq asked,
           c = [deployed |-> d, reserved |-> m, reserved_total |-> Total(m)]
    PROVE  Holds(c, asked)
<1>1. Total(m) \in Nat
  BY HeldIs
<1> QED
  BY <1>1 DEF Holds, Capital

LEMMA ReleaseHolds ==
    ASSUME NEW c, NEW asked, Holds(c, asked), NEW i
    PROVE  /\ Holds(release(c, i), asked \ {i})
           /\ release(c, i).deployed = c.deployed
<1> DEFINE m == Without(c.reserved, i)
<1>1. /\ c \in Capital /\ c.reserved_total = Total(c.reserved)
      /\ DOMAIN c.reserved \subseteq asked /\ c.reserved \in Held /\ c.deployed \in Int
  BY DEF Holds, Capital
<1>2. /\ m \in Held /\ DOMAIN m \subseteq asked \ {i}
      /\ Total(m) = c.reserved_total - Get(c.reserved, i)
  BY <1>1, HeldWithout
<1>3. release(c, i) = [deployed |-> c.deployed, reserved |-> m, reserved_total |-> Total(m)]
  <2>1. Get(c.reserved, i) \in Nat /\ Total(c.reserved) \in Nat
    BY <1>1, HeldIs
  <2> DEFINE n == Get(c.reserved, i)
  <2>2. c.reserved_total \in Int /\ n \in Int /\ Total(m) = c.reserved_total - n
    BY <1>1, <1>2, <2>1 DEF Capital
  <2>3. c \in Capital
    BY <1>1
  <2>4. release(c, i) = [c EXCEPT !.reserved = m, !.reserved_total = @ - n]
    BY DEF release
  <2> HIDE DEF m, n
  <2> QED
    BY <2>2, <2>3, <2>4 DEF Capital
<1> HIDE DEF m
<1>4. Holds(release(c, i), asked \ {i})
  BY <1>1, <1>2, <1>3, CapitalIs
<1> QED
  BY <1>3, <1>4

LEMMA ReserveHolds ==
    ASSUME NEW c, NEW asked, Holds(c, asked), NEW i \in Ids, i \in asked, NEW amount \in Int
    PROVE  /\ Holds(reserve(c, i, amount), asked)
           /\ reserve(c, i, amount).deployed = c.deployed
<1>0. CASE amount <= 0
  BY <1>0 DEF reserve
<1>a. CASE ~(amount <= 0)
  <2> DEFINE v == Get(c.reserved, i) + amount
             m == With(c.reserved, i, v)
  <2>1. /\ c \in Capital /\ c.reserved_total = Total(c.reserved)
        /\ DOMAIN c.reserved \subseteq asked /\ c.reserved \in Held /\ c.deployed \in Int
    BY DEF Holds, Capital
  <2>2. Get(c.reserved, i) \in Nat /\ v \in Nat /\ Total(c.reserved) \in Nat
    BY <1>a, <2>1, HeldIs
  <2>3. /\ m \in Held /\ DOMAIN m \subseteq asked
        /\ Total(m) = Total(c.reserved) - Get(c.reserved, i) + v
    <3> HIDE DEF v
    <3>1. /\ With(c.reserved, i, v) \in Held
          /\ DOMAIN With(c.reserved, i, v) = DOMAIN c.reserved \cup {i}
          /\ Total(With(c.reserved, i, v)) = Total(c.reserved) - Get(c.reserved, i) + v
      BY <2>1, <2>2, HeldWith
    <3> QED
      BY <2>1, <3>1
  <2>4. Total(m) = c.reserved_total + amount
    BY <2>1, <2>2, <2>3
  <2>5. reserve(c, i, amount) =
           [deployed |-> c.deployed, reserved |-> m, reserved_total |-> Total(m)]
    BY <1>a, <2>1, <2>4 DEF reserve, Capital
  <2> HIDE DEF m
  <2>6. Holds(reserve(c, i, amount), asked)
    BY <2>1, <2>3, <2>5, CapitalIs
  <2> QED
    BY <2>5, <2>6
<1> QED
  BY <1>0, <1>a

LEMMA ReduceHolds ==
    ASSUME NEW c, NEW asked, Holds(c, asked), NEW i, NEW amount \in Nat
    PROVE  /\ Holds(reduce(c, i, amount), asked)
           /\ reduce(c, i, amount).deployed = c.deployed
<1>0. CASE i \notin DOMAIN c.reserved \/ amount >= Get(c.reserved, i)
  BY <1>0 DEF reduce
<1>a. CASE ~(i \notin DOMAIN c.reserved \/ amount >= Get(c.reserved, i))
  <2> DEFINE m == IF amount > 0 THEN With(c.reserved, i, amount) ELSE Without(c.reserved, i)
  <2>1. /\ c \in Capital /\ c.reserved_total = Total(c.reserved)
        /\ DOMAIN c.reserved \subseteq asked /\ c.reserved \in Held /\ c.deployed \in Int
    BY DEF Holds, Capital
  <2>2. /\ DOMAIN c.reserved \subseteq Ids /\ Get(c.reserved, i) = c.reserved[i]
        /\ c.reserved[i] \in Nat /\ Total(c.reserved) \in Nat
    BY <1>a, <2>1, HeldIs DEF Get
  <2>3. /\ m \in Held /\ DOMAIN m \subseteq asked
        /\ Total(m) = Total(c.reserved) - c.reserved[i] + amount
    <3>1. CASE amount > 0
      <4>1. amount \in Nat
        BY <3>1
      <4>2. /\ With(c.reserved, i, amount) \in Held
            /\ DOMAIN With(c.reserved, i, amount) = DOMAIN c.reserved \cup {i}
            /\ Total(With(c.reserved, i, amount)) = Total(c.reserved) - c.reserved[i] + amount
        BY <1>a, <2>1, <2>2, <4>1, HeldWith
      <4> QED
        BY <1>a, <2>1, <3>1, <4>2
    <3>2. CASE ~(amount > 0)
      <4>1. amount = 0
        BY <3>2
      <4>2. /\ Without(c.reserved, i) \in Held
            /\ DOMAIN Without(c.reserved, i) = DOMAIN c.reserved \ {i}
            /\ Total(Without(c.reserved, i)) = Total(c.reserved) - c.reserved[i]
        BY <2>1, <2>2, HeldWithout
      <4> QED
        BY <2>1, <2>2, <3>2, <4>1, <4>2
    <3> QED
      BY <3>1, <3>2
  <2>4. Total(m) = c.reserved_total - (c.reserved[i] - amount)
    BY <2>1, <2>2, <2>3
  <2>5. reduce(c, i, amount) =
           [deployed |-> c.deployed, reserved |-> m, reserved_total |-> Total(m)]
    BY <1>a, <2>1, <2>4 DEF reduce, Capital
  <2> HIDE DEF m
  <2>6. Holds(reduce(c, i, amount), asked)
    BY <2>1, <2>3, <2>5, CapitalIs
  <2> QED
    BY <2>5, <2>6
<1> QED
  BY <1>0, <1>a

\* A share of a fill deploys what it converts, and what it cost is explained.
LEMMA FillHolds ==
    ASSUME NEW c, NEW asked, Holds(c, asked), NEW i, NEW held \in Int, NEW quantity \in Int,
           NEW value \in Prices, Costs(c.deployed, held)
    PROVE  /\ Holds(capital_fill(c, i, held, quantity, value), asked)
           /\ Costs(capital_fill(c, i, held, quantity, value).deployed, held + quantity)
<1> DEFINE deploys == adding_exposure(held, quantity) * value
           kept == kept_cost(c, held, quantity)
           back == Get(c.reserved, i)
           converted == Min({back, deploys})
           rest_ == back - converted
           m == IF i \notin DOMAIN c.reserved \/ deploys = 0 THEN c.reserved
                ELSE IF back > converted THEN With(c.reserved, i, rest_)
                ELSE Without(c.reserved, i)
<1>1. /\ c \in Capital /\ c.reserved_total = Total(c.reserved)
      /\ DOMAIN c.reserved \subseteq asked /\ c.reserved \in Held /\ c.deployed \in Int
  BY DEF Holds, Capital
<1>2. kept \in Int /\ deploys \in Nat /\ Costs(kept + deploys, held + quantity)
  BY <1>1, CostAfterFill
<1>3. back \in Nat /\ Total(c.reserved) \in Nat /\ DOMAIN c.reserved \subseteq Ids
  BY <1>1, HeldIs
<1>4. converted = IF back <= deploys THEN back ELSE deploys
  <2>1. back \in Int /\ deploys \in Int
    BY <1>2, <1>3
  <2> HIDE DEF back, deploys
  <2> QED
    BY <2>1, TwoNumbers
<1>5. capital_fill(c, i, held, quantity, value) =
        [deployed |-> kept + deploys, reserved |-> m,
         reserved_total |-> c.reserved_total - converted]
  BY DEF capital_fill, kept_cost
<1>6. m \in Held /\ DOMAIN m \subseteq asked /\ Total(m) = c.reserved_total - converted
  <2>1. CASE i \notin DOMAIN c.reserved \/ deploys = 0
    <3>1. m = c.reserved /\ (i \notin DOMAIN c.reserved => back = 0)
      BY <2>1 DEF Get
    <3> HIDE DEF m, back, deploys, converted
    <3>2. converted = 0
      BY <1>2, <1>3, <1>4, <2>1, <3>1
    <3> QED
      BY <1>1, <1>3, <3>1, <3>2
  <2>2. CASE i \in DOMAIN c.reserved /\ deploys # 0 /\ back > converted
    <3>1. m = With(c.reserved, i, rest_)
      BY <2>2
    <3>2. rest_ \in Nat /\ i \in Ids
      <4> HIDE DEF back, deploys, converted
      <4> QED
        BY <1>2, <1>3, <1>4, <2>2
    <3>3. /\ m \in Held /\ DOMAIN m = DOMAIN c.reserved \cup {i}
          /\ Total(m) = Total(c.reserved) - back + rest_
      <4> HIDE DEF rest_, m
      <4> QED
        BY <1>1, <3>1, <3>2, HeldWith
    <3>4. converted \in Int
      <4> HIDE DEF back, deploys, converted
      <4> QED
        BY <1>2, <1>3, <1>4
    <3> HIDE DEF m, back, converted
    <3> QED
      BY <1>1, <1>3, <2>2, <3>3, <3>4
  <2>3. CASE i \in DOMAIN c.reserved /\ deploys # 0 /\ ~(back > converted)
    <3>1. m = Without(c.reserved, i)
      BY <2>3
    <3>2. converted = back
      <4> HIDE DEF back, deploys, converted
      <4> QED
        BY <1>2, <1>3, <1>4, <2>3
    <3>3. /\ m \in Held /\ DOMAIN m = DOMAIN c.reserved \ {i}
          /\ Total(m) = Total(c.reserved) - back
      <4> HIDE DEF m
      <4> QED
        BY <1>1, <3>1, HeldWithout
    <3> HIDE DEF m, back, converted
    <3> QED
      BY <1>1, <1>3, <2>3, <3>2, <3>3
  <2> QED
    BY <2>1, <2>2, <2>3
<1> HIDE DEF deploys, kept, m, converted
<1>7. kept + deploys \in Int
  BY <1>2
<1>8. Holds([deployed |-> kept + deploys, reserved |-> m, reserved_total |-> Total(m)], asked)
  <2> DEFINE d == kept + deploys
  <2>1. d \in Int
    BY <1>7
  <2> HIDE DEF d
  <2>2. Holds([deployed |-> d, reserved |-> m, reserved_total |-> Total(m)], asked)
    BY <1>6, <2>1, CapitalIs
  <2> QED
    BY <2>2 DEF d
<1> QED
  BY <1>2, <1>5, <1>6, <1>8

-----------------------------------------------------------------------------
(* The account: what allocation keeps, for the orders and requests alive.   *)

Account == [notional : Int, reservations : Held,
            contributions : UNION {[D -> Shares] : D \in SUBSET Ids},
            positions : [Strategies -> Int], capital : [Strategies -> Capital]]

\* The orders a strategy asked for.
AskedBy(contributions, s) ==
    {i \in DOMAIN contributions : s \in DOMAIN contributions[i]}

\* The parts of an account describe the orders and requests of live, and each
\* strategy's cost is one its position can have.
Ledgers(a, live) ==
    /\ a \in Account
    /\ DOMAIN a.contributions = live
    /\ DOMAIN a.reservations \subseteq live
    /\ a.notional = Total(a.reservations)
    /\ \A s \in Strategies : /\ Holds(a.capital[s], AskedBy(a.contributions, s))
                             /\ Costs(a.capital[s].deployed, a.positions[s])

LEMMA AccountIs ==
    ASSUME NEW a, NEW live, Ledgers(a, live)
    PROVE  /\ a = [notional |-> a.notional, reservations |-> a.reservations,
                   contributions |-> a.contributions, positions |-> a.positions,
                   capital |-> a.capital]
           /\ a.notional = Total(a.reservations) /\ a.notional \in Nat
           /\ a.reservations \in Held /\ DOMAIN a.reservations \subseteq live
           /\ live \subseteq Ids /\ a.contributions \in [live -> Shares]
           /\ a.positions \in [Strategies -> Int]
           /\ a.capital \in [Strategies -> Capital]
           /\ \A s \in Strategies :
                 /\ Holds(a.capital[s], AskedBy(a.contributions, s))
                 /\ Costs(a.capital[s].deployed, a.positions[s])
<1>1. a \in Account
  BY DEF Ledgers
<1>2. /\ a = [notional |-> a.notional, reservations |-> a.reservations,
              contributions |-> a.contributions, positions |-> a.positions,
              capital |-> a.capital]
      /\ a.reservations \in Held /\ a.positions \in [Strategies -> Int]
      /\ a.capital \in [Strategies -> Capital]
      /\ a.contributions \in UNION {[D -> Shares] : D \in SUBSET Ids}
  BY <1>1 DEF Account
<1>3. live \subseteq Ids /\ a.contributions \in [live -> Shares]
  <2>1. PICK D \in SUBSET Ids : a.contributions \in [D -> Shares]
    BY <1>2
  <2>2. D = live
    BY <2>1 DEF Ledgers
  <2> QED
    BY <2>1, <2>2
<1>4. Total(a.reservations) \in Nat
  BY <1>2, HeldIs
<1>5. /\ a.notional = Total(a.reservations) /\ DOMAIN a.reservations \subseteq live
      /\ \A s \in Strategies :
            /\ Holds(a.capital[s], AskedBy(a.contributions, s))
            /\ Costs(a.capital[s].deployed, a.positions[s])
  BY DEF Ledgers
<1> QED
  BY <1>2, <1>3, <1>4, <1>5

LEMMA AccountIntro ==
    ASSUME NEW a, NEW live \in SUBSET Ids, NEW m \in Held, DOMAIN m \subseteq live,
           NEW c \in [live -> Shares], NEW p \in [Strategies -> Int], NEW k,
           k = [s \in Strategies |-> k[s]],
           \A s \in Strategies : /\ Holds(k[s], AskedBy(c, s))
                                 /\ Costs(k[s].deployed, p[s]),
           a = [notional |-> Total(m), reservations |-> m, contributions |-> c,
                positions |-> p, capital |-> k]
    PROVE  Ledgers(a, live)
<1>1. Total(m) \in Int
  BY HeldIs
<1>2. k \in [Strategies -> Capital]
  BY DEF Holds
<1>3. c \in UNION {[D -> Shares] : D \in SUBSET Ids}
  OBVIOUS
<1>4. a \in Account
  BY <1>1, <1>2, <1>3 DEF Account
<1>5. DOMAIN c = live
  OBVIOUS
<1> QED
  BY <1>4, <1>5 DEF Ledgers

LEMMA ReleasedLedgers ==
    ASSUME NEW a, NEW live, Ledgers(a, live), NEW i
    PROVE  /\ Ledgers(release_reservation(a, i), live)
           /\ release_reservation(a, i).notional <= a.notional
           /\ release_reservation(a, i).positions = a.positions
           /\ release_reservation(a, i).contributions = a.contributions
           /\ release_reservation(a, i).capital = a.capital
           /\ DOMAIN release_reservation(a, i).reservations = DOMAIN a.reservations \ {i}
<1>1. CASE i \notin DOMAIN a.reservations
  <2>1. release_reservation(a, i) = a /\ a.notional \in Nat
    BY <1>1, AccountIs DEF release_reservation
  <2> QED
    BY <1>1, <2>1
<1>2. CASE i \in DOMAIN a.reservations
  <2> DEFINE m == Without(a.reservations, i)
             b == release_reservation(a, i)
  <2>1. /\ a = [notional |-> a.notional, reservations |-> a.reservations,
                contributions |-> a.contributions, positions |-> a.positions,
                capital |-> a.capital]
        /\ a.notional = Total(a.reservations) /\ a.notional \in Nat
        /\ a.reservations \in Held /\ DOMAIN a.reservations \subseteq live
        /\ live \subseteq Ids /\ a.contributions \in [live -> Shares]
        /\ a.positions \in [Strategies -> Int]
        /\ a.capital \in [Strategies -> Capital]
        /\ \A s \in Strategies :
              /\ Holds(a.capital[s], AskedBy(a.contributions, s))
              /\ Costs(a.capital[s].deployed, a.positions[s])
    BY AccountIs
  <2>2. a.reservations[i] \in Nat /\ Get(a.reservations, i) = a.reservations[i]
    BY <1>2, <2>1, HeldIs DEF Get
  <2>3. /\ m \in Held /\ DOMAIN m = DOMAIN a.reservations \ {i}
        /\ Total(m) = Total(a.reservations) - a.reservations[i]
    BY <2>1, <2>2, HeldWithout
  <2>4. b = [notional |-> Total(m), reservations |-> m, contributions |-> a.contributions,
             positions |-> a.positions, capital |-> a.capital]
    <3>1. b = [a EXCEPT !.notional = Total(m), !.reservations = m]
      <4>1. a.notional - a.reservations[i] = Total(m)
        BY <2>1, <2>3
      <4> QED
        BY <1>2, <4>1 DEF release_reservation
    <3> HIDE DEF m, b
    <3> QED
      BY <2>1, <3>1
  <2>5. Ledgers(b, live)
    <3>1. a.capital = [s \in Strategies |-> a.capital[s]]
      BY <2>1
    <3> HIDE DEF m, b
    <3> QED
      BY <2>1, <2>3, <2>4, <3>1, AccountIntro
  <2>6. b.notional <= a.notional
    BY <2>1, <2>2, <2>3, <2>4
  <2> HIDE DEF m, b
  <2>7. /\ b.positions = a.positions /\ b.contributions = a.contributions
        /\ b.capital = a.capital /\ DOMAIN b.reservations = DOMAIN a.reservations \ {i}
    BY <2>3, <2>4
  <2> QED
    BY <2>5, <2>6, <2>7 DEF b
<1> QED
  BY <1>1, <1>2

LEMMA RetiredLedgers ==
    ASSUME NEW a, NEW live, Ledgers(a, live), NEW i, i \notin DOMAIN a.reservations
    PROVE  /\ Ledgers(retire_contributions(a, i), live \ {i})
           /\ retire_contributions(a, i).notional = a.notional
           /\ retire_contributions(a, i).positions = a.positions
           /\ retire_contributions(a, i).contributions = Without(a.contributions, i)
           /\ retire_contributions(a, i).reservations = a.reservations
<1>0. /\ a = [notional |-> a.notional, reservations |-> a.reservations,
              contributions |-> a.contributions, positions |-> a.positions,
              capital |-> a.capital]
      /\ a.notional = Total(a.reservations) /\ a.notional \in Nat
      /\ a.reservations \in Held /\ DOMAIN a.reservations \subseteq live
      /\ live \subseteq Ids /\ a.contributions \in [live -> Shares]
      /\ a.positions \in [Strategies -> Int]
      /\ a.capital \in [Strategies -> Capital]
      /\ \A s \in Strategies :
            /\ Holds(a.capital[s], AskedBy(a.contributions, s))
            /\ Costs(a.capital[s].deployed, a.positions[s])
  BY AccountIs
<1>1. CASE i \notin DOMAIN a.contributions
  <2>1. retire_contributions(a, i) = a
    BY <1>1 DEF retire_contributions
  <2>2. live \ {i} = live
    BY <1>0, <1>1
  <2>3. Without(a.contributions, i) = a.contributions
    BY <1>0, <1>1 DEF Without
  <2> QED
    BY <2>1, <2>2, <2>3
<1>2. CASE i \in DOMAIN a.contributions
  <2> DEFINE c == Without(a.contributions, i)
             k == [s \in Strategies |-> IF s \in DOMAIN a.contributions[i]
                                        THEN release(a.capital[s], i) ELSE a.capital[s]]
             b == retire_contributions(a, i)
             rest_ == live \ {i}
  <2>1. b = [notional |-> Total(a.reservations), reservations |-> a.reservations,
             contributions |-> c, positions |-> a.positions, capital |-> k]
    <3>1. b = [a EXCEPT !.contributions = c, !.capital = k]
      BY <1>2 DEF retire_contributions
    <3> HIDE DEF b, c, k
    <3> QED
      BY <1>0, <3>1
  <2>2. /\ c \in [rest_ -> Shares] /\ rest_ \in SUBSET Ids
        /\ DOMAIN a.reservations \subseteq rest_
        /\ k = [s \in Strategies |-> k[s]]
    BY <1>0 DEF Without
  <2>3. ASSUME NEW s \in Strategies
        PROVE  Holds(k[s], AskedBy(c, s)) /\ Costs(k[s].deployed, a.positions[s])
    <3>1. AskedBy(c, s) = AskedBy(a.contributions, s) \ {i}
      BY <1>0 DEF AskedBy, Without
    <3>2. CASE s \in DOMAIN a.contributions[i]
      <4>1. k[s] = release(a.capital[s], i)
        BY <3>2
      <4> HIDE DEF k, c
      <4> QED
        BY <1>0, <3>1, <4>1, ReleaseHolds
    <3>3. CASE s \notin DOMAIN a.contributions[i]
      <4>1. k[s] = a.capital[s] /\ AskedBy(c, s) = AskedBy(a.contributions, s)
        BY <1>0, <3>1, <3>3 DEF AskedBy
      <4> HIDE DEF k, c
      <4> QED
        BY <1>0, <4>1
    <3> QED
      BY <3>2, <3>3
  <2> HIDE DEF b, c, k, rest_
  <2>4. Ledgers(b, rest_)
    BY <1>0, <2>1, <2>2, <2>3, AccountIntro
  <2>5. /\ b.notional = a.notional /\ b.positions = a.positions
        /\ b.contributions = c /\ b.reservations = a.reservations
    BY <1>0, <2>1
  <2> QED
    BY <2>4, <2>5 DEF b, c, rest_
<1> QED
  BY <1>1, <1>2

\* An order or request that is gone from the account.
LEMMA DroppedLedgers ==
    ASSUME NEW a, NEW live, Ledgers(a, live), NEW i, NEW b,
           b = retire_contributions(release_reservation(a, i), i)
    PROVE  /\ Ledgers(b, live \ {i})
           /\ b.notional <= a.notional
           /\ b.positions = a.positions
           /\ b.contributions = Without(a.contributions, i)
           /\ DOMAIN b.reservations = DOMAIN a.reservations \ {i}
<1> DEFINE r == release_reservation(a, i)
<1>1. /\ Ledgers(r, live) /\ r.notional <= a.notional /\ r.positions = a.positions
      /\ r.contributions = a.contributions
      /\ DOMAIN r.reservations = DOMAIN a.reservations \ {i}
  BY ReleasedLedgers
<1>2. b = retire_contributions(r, i)
  OBVIOUS
<1> HIDE DEF r
<1>3. i \notin DOMAIN r.reservations
  BY <1>1
<1> QED
  BY <1>1, <1>2, <1>3, RetiredLedgers

LEMMA ExecutedLedgers ==
    ASSUME NEW a, NEW live, Ledgers(a, live), NEW i, NEW notional \in Nat, NEW b,
           b = apply_execution(a, i, notional)
    PROVE  /\ Ledgers(b, live)
           /\ b.notional <= a.notional
           /\ b.positions = a.positions
           /\ b.contributions = a.contributions
<1>0. /\ a = [notional |-> a.notional, reservations |-> a.reservations,
              contributions |-> a.contributions, positions |-> a.positions,
              capital |-> a.capital]
      /\ a.notional = Total(a.reservations) /\ a.notional \in Nat
      /\ a.reservations \in Held /\ DOMAIN a.reservations \subseteq live
      /\ live \subseteq Ids /\ a.contributions \in [live -> Shares]
      /\ a.positions \in [Strategies -> Int]
      /\ a.capital \in [Strategies -> Capital]
      /\ \A s \in Strategies :
            /\ Holds(a.capital[s], AskedBy(a.contributions, s))
            /\ Costs(a.capital[s].deployed, a.positions[s])
  BY AccountIs
<1>1. CASE i \notin DOMAIN a.reservations
  <2>1. b = a
    BY <1>1 DEF apply_execution
  <2> QED
    BY <1>0, <2>1
<1>2. CASE i \in DOMAIN a.reservations
  <2> DEFINE reserved == Get(a.reservations, i)
             consumed == Min({reserved, notional})
             left == reserved - consumed
             m == IF reserved = consumed THEN Without(a.reservations, i)
                  ELSE With(a.reservations, i, left)
  <2>1. reserved \in Nat /\ i \in Ids
    BY <1>0, <1>2, HeldIs
  <2>2. consumed \in Nat /\ left \in Nat
    <3>1. reserved \in Int /\ notional \in Int
      BY <2>1
    <3> HIDE DEF reserved
    <3>2. consumed = IF reserved <= notional THEN reserved ELSE notional
      BY <3>1, TwoNumbers
    <3> QED
      BY <2>1, <3>2
  <2>3. m \in Held /\ DOMAIN m \subseteq live /\ Total(m) = Total(a.reservations) - consumed
    <3>1. CASE reserved = consumed
      <4>1. m = Without(a.reservations, i)
        BY <3>1
      <4> HIDE DEF m, consumed
      <4>2. /\ m \in Held /\ DOMAIN m = DOMAIN a.reservations \ {i}
            /\ Total(m) = Total(a.reservations) - reserved
        BY <1>0, <4>1, HeldWithout
      <4> QED
        BY <1>0, <3>1, <4>2
    <3>2. CASE reserved # consumed
      <4>1. m = With(a.reservations, i, left)
        BY <3>2
      <4>2. /\ With(a.reservations, i, left) \in Held
            /\ DOMAIN With(a.reservations, i, left) = DOMAIN a.reservations \cup {i}
            /\ Total(With(a.reservations, i, left)) = Total(a.reservations) - reserved + left
        <5> HIDE DEF m, left
        <5> QED
          BY <1>0, <2>1, <2>2, HeldWith
      <4> HIDE DEF m, reserved, consumed
      <4>3. Total(a.reservations) - reserved + left = Total(a.reservations) - consumed
        BY <1>0, <2>1, <2>2
      <4> HIDE DEF left
      <4> QED
        BY <1>0, <1>2, <4>1, <4>2, <4>3
    <3> QED
      BY <3>1, <3>2
  <2>4. b = [notional |-> Total(m), reservations |-> m, contributions |-> a.contributions,
             positions |-> a.positions, capital |-> a.capital]
    <3>1. b = [a EXCEPT !.notional = @ - consumed, !.reservations = m]
      BY <1>2 DEF apply_execution
    <3> HIDE DEF m, consumed
    <3>2. a.notional - consumed = Total(m)
      BY <1>0, <2>3
    <3>3. b = [a EXCEPT !.notional = Total(m), !.reservations = m]
      BY <3>1, <3>2
    <3> QED
      BY <1>0, <3>3
  <2>5. Ledgers(b, live)
    <3>1. a.capital = [s \in Strategies |-> a.capital[s]]
      BY <1>0
    <3> HIDE DEF m, consumed
    <3> QED
      BY <1>0, <2>3, <2>4, <3>1, AccountIntro
  <2> HIDE DEF m, consumed
  <2>6. b.notional <= a.notional
    BY <1>0, <2>2, <2>3, <2>4
  <2> QED
    BY <2>4, <2>5, <2>6
<1> QED
  BY <1>1, <1>2

LEMMA FilledLedgers ==
    ASSUME NEW a, NEW live, Ledgers(a, live), NEW i \in live, NEW quantity \in Int,
           NEW value \in Prices, NEW b, b = record_fill(a, i, quantity, value)
    PROVE  /\ Ledgers(b, live)
           /\ b.notional = a.notional
           /\ b.reservations = a.reservations
           /\ b.contributions = a.contributions
           /\ Total(b.positions) = Total(a.positions) + quantity
<1>0. /\ a = [notional |-> a.notional, reservations |-> a.reservations,
              contributions |-> a.contributions, positions |-> a.positions,
              capital |-> a.capital]
      /\ a.notional = Total(a.reservations) /\ a.notional \in Nat
      /\ a.reservations \in Held /\ DOMAIN a.reservations \subseteq live
      /\ live \subseteq Ids /\ a.contributions \in [live -> Shares]
      /\ a.positions \in [Strategies -> Int]
      /\ a.capital \in [Strategies -> Capital]
      /\ \A s \in Strategies :
            /\ Holds(a.capital[s], AskedBy(a.contributions, s))
            /\ Costs(a.capital[s].deployed, a.positions[s])
  BY AccountIs
<1> DEFINE c == a.contributions[i]
           share == split_by_contribution(quantity, c)
           pad == [s \in Strategies |-> Get(share, s)]
           old == a.positions
           p == [s \in Strategies |-> old[s] + pad[s]]
           k == [s \in Strategies |->
                    IF s \in DOMAIN share
                    THEN capital_fill(a.capital[s], i, old[s], share[s], value)
                    ELSE a.capital[s]]
<1>1. c \in Shares /\ DOMAIN c \subseteq Strategies
  BY <1>0, SharesAre
<1>2. share \in [DOMAIN c -> Int] /\ Total(share) = quantity
  <2> HIDE DEF c
  <2> QED
    BY <1>1, SplitAddsUp
<1>3. pad \in [Strategies -> Int] /\ p \in [Strategies -> Int]
  <2> HIDE DEF share
  <2> QED
    BY <1>0, <1>1, <1>2 DEF Get
<1>4. Total(pad) = quantity
  <2> DEFINE D == DOMAIN c
  <2>1. D \subseteq Strategies /\ share \in [D -> Int] /\ pad \in [Strategies -> Int]
        /\ \A x \in Strategies : pad[x] = Get(share, x)
    BY <1>1, <1>2, <1>3
  <2> HIDE DEF D, share, pad
  <2>2. Total(pad) = Total(share)
    BY <2>1, TotalPadded
  <2> QED
    BY <1>2, <2>2
<1>5. Total(p) = Total(old) + quantity
  <2>1. IsFiniteSet(Strategies) /\ old \in [Strategies -> Int]
    BY <1>0, AllocationAssumption
  <2> HIDE DEF old, pad
  <2>2. Total(p) = Total(old) + Total(pad)
    BY <1>3, <2>1, TotalAdds
  <2> QED
    BY <1>4, <2>2
<1>6. b = [notional |-> a.notional, reservations |-> a.reservations,
           contributions |-> a.contributions, positions |-> p, capital |-> k]
  <2>1. b = [a EXCEPT !.positions = p, !.capital = k]
    BY <1>0 DEF record_fill
  <2> HIDE DEF p, k
  <2> QED
    BY <1>0, <2>1
<1>7. ASSUME NEW s \in Strategies
      PROVE  Holds(k[s], AskedBy(a.contributions, s)) /\ Costs(k[s].deployed, p[s])
  <2>1. /\ Holds(a.capital[s], AskedBy(a.contributions, s))
        /\ Costs(a.capital[s].deployed, old[s]) /\ old[s] \in Int
    BY <1>0
  <2>2. CASE s \in DOMAIN share
    <3>1. share[s] \in Int /\ p[s] = old[s] + share[s]
          /\ k[s] = capital_fill(a.capital[s], i, old[s], share[s], value)
      <4>1. share[s] \in Int
        <5> HIDE DEF share
        <5> QED
          BY <1>2, <2>2
      <4>2. Get(share, s) = share[s]
        BY <2>2 DEF Get
      <4> HIDE DEF share, old
      <4> QED
        BY <2>2, <4>1, <4>2
    <3> DEFINE n == share[s]
               h == old[s]
    <3> HIDE DEF share, k, p, old, n, h
    <3>2. /\ Holds(capital_fill(a.capital[s], i, h, n, value), AskedBy(a.contributions, s))
          /\ Costs(capital_fill(a.capital[s], i, h, n, value).deployed, h + n)
      <4>1. h \in Int /\ n \in Int /\ Costs(a.capital[s].deployed, h)
        BY <2>1, <3>1 DEF n, h
      <4> QED
        BY <2>1, <4>1, FillHolds
    <3> QED
      BY <3>1, <3>2 DEF n, h
  <2>3. CASE s \notin DOMAIN share
    <3>1. k[s] = a.capital[s]
      BY <2>3
    <3>2. p[s] = old[s]
      <4>1. Get(share, s) = 0
        BY <2>3 DEF Get
      <4> HIDE DEF share, old
      <4> QED
        BY <2>1, <4>1
    <3> QED
      BY <2>1, <3>1, <3>2
  <2> QED
    BY <2>2, <2>3
<1>8. Ledgers(b, live)
  <2>1. k = [s \in Strategies |-> k[s]]
    OBVIOUS
  <2> HIDE DEF p, k
  <2> QED
    BY <1>0, <1>3, <1>6, <1>7, <2>1, AccountIntro
<1> HIDE DEF p, k
<1> QED
  BY <1>5, <1>6, <1>8 DEF old

\* A request is allocated: its commitment and its contributions are entered.
\* The account b is a with a request more.
Grown(b, a, live, id, commitment) ==
    /\ Ledgers(b, live \cup {id})
    /\ b.notional = a.notional + commitment
    /\ b.positions = a.positions

LEMMA ReservedLedgers ==
    ASSUME NEW a, NEW live, Ledgers(a, live), NEW id \in Ids, id \notin live,
           NEW order, order.commitment \in Nat, order.contributions \in Shares,
           NEW p \in Nat, NEW working \in [Strategies -> Int],
           NEW b, b = Reserved(a, order, id, p, working)
    PROVE  Grown(b, a, live, id, order.commitment)
<1>0. /\ a = [notional |-> a.notional, reservations |-> a.reservations,
              contributions |-> a.contributions, positions |-> a.positions,
              capital |-> a.capital]
      /\ a.notional = Total(a.reservations) /\ a.notional \in Nat
      /\ a.reservations \in Held /\ DOMAIN a.reservations \subseteq live
      /\ live \subseteq Ids /\ a.contributions \in [live -> Shares]
      /\ a.positions \in [Strategies -> Int]
      /\ a.capital \in [Strategies -> Capital]
      /\ \A s \in Strategies :
            /\ Holds(a.capital[s], AskedBy(a.contributions, s))
            /\ Costs(a.capital[s].deployed, a.positions[s])
  BY AccountIs
<1> DEFINE more == live \cup {id}
           e == order.commitment
           d == order.contributions
           m == With(a.reservations, id, e)
           c == With(a.contributions, id, d)
           Asks(s) == CeilingCommitment(a, d[s], s, p, working)
           k == [s \in Strategies |-> IF s \in DOMAIN d
                                      THEN reserve(a.capital[s], id, Asks(s))
                                      ELSE a.capital[s]]
<1>1. /\ m \in Held /\ DOMAIN m \subseteq more /\ Total(m) = a.notional + e
  <2>1. Get(a.reservations, id) = 0
    BY <1>0 DEF Get
  <2>2. /\ m \in Held /\ DOMAIN m = DOMAIN a.reservations \cup {id}
        /\ Total(m) = Total(a.reservations) - Get(a.reservations, id) + e
    <3> HIDE DEF e
    <3> QED
      BY <1>0, HeldWith DEF e
  <2> HIDE DEF m, e
  <2> QED
    BY <1>0, <2>1, <2>2
<1>2. c \in [more -> Shares] /\ more \in SUBSET Ids
  BY <1>0 DEF With
<1>3. b = [notional |-> Total(m), reservations |-> m, contributions |-> c,
           positions |-> a.positions, capital |-> k]
  <2>1. b = [a EXCEPT !.notional = @ + e, !.reservations = m, !.contributions = c,
                      !.capital = k]
    BY DEF Reserved
  <2>2. a.notional + e = Total(m)
    BY <1>1
  <2> HIDE DEF m, c, k, e
  <2> QED
    BY <1>0, <2>1, <2>2
<1>4. ASSUME NEW s \in Strategies
      PROVE  Holds(k[s], AskedBy(c, s)) /\ Costs(k[s].deployed, a.positions[s])
  <2>1. /\ Holds(a.capital[s], AskedBy(a.contributions, s))
        /\ Costs(a.capital[s].deployed, a.positions[s])
    BY <1>0
  <2>2. AskedBy(a.contributions, s) \subseteq AskedBy(c, s)
    BY <1>0 DEF AskedBy, With
  <2>3. Holds(a.capital[s], AskedBy(c, s))
    BY <2>1, <2>2 DEF Holds
  <2>4. CASE s \in DOMAIN d
    <3>1. k[s] = reserve(a.capital[s], id, Asks(s))
      BY <2>4
    <3>2. id \in AskedBy(c, s)
      BY <2>4 DEF AskedBy, With
    <3>3. Asks(s) \in Int
      <4> DEFINE h == a.positions[s] + working[s]
                 delta == d[s]
      <4>1. h \in Int /\ delta \in Int
        BY <1>0, <2>4, SharesAre
      <4>2. adding_exposure(h, delta) \in Nat
        <5> HIDE DEF h, delta
        <5> QED
          BY <4>1, AddsType
      <4>3. Asks(s) = adding_exposure(h, delta) * p
        BY DEF CeilingCommitment
      <4> HIDE DEF h, delta, Asks
      <4> QED
        BY <4>2, <4>3
    <3> DEFINE n == Asks(s)
    <3> HIDE DEF k, c, n
    <3>4. /\ Holds(reserve(a.capital[s], id, n), AskedBy(c, s))
          /\ reserve(a.capital[s], id, n).deployed = a.capital[s].deployed
      BY <2>3, <3>2, <3>3, ReserveHolds DEF n
    <3> QED
      BY <2>1, <3>1, <3>4 DEF n
  <2>5. CASE s \notin DOMAIN d
    <3>1. k[s] = a.capital[s]
      BY <2>5
    <3> QED
      BY <2>1, <2>3, <3>1
  <2> QED
    BY <2>4, <2>5
<1>5. Ledgers(b, more)
  <2>1. k = [s \in Strategies |-> k[s]]
    OBVIOUS
  <2> HIDE DEF m, c, k, more
  <2> QED
    BY <1>0, <1>1, <1>2, <1>3, <1>4, <2>1, AccountIntro
<1> HIDE DEF m, c, k
<1> QED
  BY <1>1, <1>3, <1>5 DEF Grown

\* The account of reduce_in_place.
Shrunk(a, strategy, i, cut, kept, own) ==
    LET freed == IF i \in DOMAIN a.reservations
                 THEN [a EXCEPT !.notional = @ - (a.reservations[i] - kept),
                                !.reservations[i] = kept]
                 ELSE a
    IN  [freed EXCEPT
            !.contributions[i] = [r \in {strategy} |-> cut],
            !.capital[strategy] = reduce(@, i, own)]

LEMMA ShrunkLedgers ==
    ASSUME NEW a, NEW live, Ledgers(a, live), NEW i \in live, NEW strategy \in Strategies,
           DOMAIN a.contributions[i] = {strategy},
           NEW cut \in Int, NEW kept \in Nat, kept <= Get(a.reservations, i), NEW own \in Nat,
           NEW b, b = Shrunk(a, strategy, i, cut, kept, own)
    PROVE  /\ Ledgers(b, live)
           /\ b.notional <= a.notional
           /\ b.positions = a.positions
           /\ DOMAIN b.reservations = DOMAIN a.reservations
<1>0. /\ a = [notional |-> a.notional, reservations |-> a.reservations,
              contributions |-> a.contributions, positions |-> a.positions,
              capital |-> a.capital]
      /\ a.notional = Total(a.reservations) /\ a.notional \in Nat
      /\ a.reservations \in Held /\ DOMAIN a.reservations \subseteq live
      /\ live \subseteq Ids /\ a.contributions \in [live -> Shares]
      /\ a.positions \in [Strategies -> Int]
      /\ a.capital \in [Strategies -> Capital]
      /\ \A s \in Strategies :
            /\ Holds(a.capital[s], AskedBy(a.contributions, s))
            /\ Costs(a.capital[s].deployed, a.positions[s])
  BY AccountIs
<1> DEFINE m == IF i \in DOMAIN a.reservations THEN With(a.reservations, i, kept)
                ELSE a.reservations
           part == [r \in {strategy} |-> cut]
           c == [a.contributions EXCEPT ![i] = part]
           k == [a.capital EXCEPT ![strategy] = reduce(@, i, own)]
           was == Get(a.reservations, i)
<1>1. /\ m \in Held /\ DOMAIN m = DOMAIN a.reservations
      /\ Total(m) <= a.notional
      /\ i \in DOMAIN a.reservations => Total(m) = a.notional - (a.reservations[i] - kept)
  <2>1. CASE i \in DOMAIN a.reservations
    <3>1. m = With(a.reservations, i, kept)
      BY <2>1
    <3>2. was \in Nat /\ was = a.reservations[i] /\ i \in Ids
      BY <1>0, <2>1, HeldIs DEF Get
    <3>3. /\ m \in Held /\ DOMAIN m = DOMAIN a.reservations \cup {i}
          /\ Total(m) = Total(a.reservations) - was + kept
      <4> HIDE DEF m
      <4> QED
        BY <1>0, <3>1, <3>2, HeldWith
    <3>4. kept <= was
      OBVIOUS
    <3> HIDE DEF m, was
    <3> QED
      BY <1>0, <2>1, <3>2, <3>3, <3>4
  <2>2. CASE i \notin DOMAIN a.reservations
    BY <1>0, <2>2
  <2> QED
    BY <2>1, <2>2
<1>2. part \in Shares /\ c \in [live -> Shares]
  <2>1. {strategy} \in (SUBSET Strategies) \ {{}} /\ part \in [{strategy} -> Int]
    OBVIOUS
  <2>2. part \in Shares
    <3> HIDE DEF part
    <3> QED
      BY <2>1 DEF Shares
  <2> HIDE DEF part
  <2> QED
    BY <1>0, <2>2
<1>3. b = [notional |-> Total(m), reservations |-> m, contributions |-> c,
           positions |-> a.positions, capital |-> k]
  <2> DEFINE freed == IF i \in DOMAIN a.reservations
                      THEN [a EXCEPT !.notional = @ - (a.reservations[i] - kept),
                                     !.reservations[i] = kept]
                      ELSE a
  <2>1. freed = [notional |-> Total(m), reservations |-> m,
                 contributions |-> a.contributions, positions |-> a.positions,
                 capital |-> a.capital]
    <3>1. CASE i \in DOMAIN a.reservations
      <4>1. m = [a.reservations EXCEPT ![i] = kept]
        BY <1>0, <3>1, HeldIs DEF With
      <4>2. freed = [a EXCEPT !.notional = @ - (a.reservations[i] - kept),
                              !.reservations[i] = kept]
        BY <3>1
      <4>3. a.notional - (a.reservations[i] - kept) = Total(m)
        BY <1>1, <3>1
      <4> HIDE DEF m, freed
      <4> QED
        BY <1>0, <4>1, <4>2, <4>3
    <3>2. CASE i \notin DOMAIN a.reservations
      BY <1>0, <3>2
    <3> QED
      BY <3>1, <3>2
  <2>2. b = [freed EXCEPT !.contributions[i] = part, !.capital[strategy] = reduce(@, i, own)]
    BY DEF Shrunk
  <2> HIDE DEF freed, m, part
  <2> QED
    BY <2>1, <2>2
<1>4. ASSUME NEW s \in Strategies
      PROVE  Holds(k[s], AskedBy(c, s)) /\ Costs(k[s].deployed, a.positions[s])
  <2>1. AskedBy(c, s) = AskedBy(a.contributions, s)
    <3>1. \A j \in live : DOMAIN c[j] = DOMAIN a.contributions[j]
      <4>1. DOMAIN part = {strategy}
        OBVIOUS
      <4> HIDE DEF part
      <4> QED
        BY <1>0, <4>1
    <3>2. DOMAIN c = live
      BY <1>0
    <3> HIDE DEF c
    <3> QED
      BY <1>0, <3>1, <3>2 DEF AskedBy
  <2>2. CASE s = strategy
    <3>1. k[s] = reduce(a.capital[s], i, own)
      BY <1>0, <2>2
    <3> HIDE DEF k, c
    <3>2. /\ Holds(reduce(a.capital[s], i, own), AskedBy(a.contributions, s))
          /\ reduce(a.capital[s], i, own).deployed = a.capital[s].deployed
      BY <1>0, ReduceHolds
    <3> QED
      BY <1>0, <2>1, <3>1, <3>2
  <2>3. CASE s # strategy
    <3>1. k[s] = a.capital[s]
      BY <1>0, <2>3
    <3> HIDE DEF k, c
    <3> QED
      BY <1>0, <2>1, <3>1
  <2> QED
    BY <2>2, <2>3
<1>5. Ledgers(b, live)
  <2>1. k = [s \in Strategies |-> k[s]]
    BY <1>0
  <2> HIDE DEF m, c, k
  <2> QED
    BY <1>0, <1>1, <1>2, <1>3, <1>4, <2>1, AccountIntro
<1> HIDE DEF m, c, k
<1> QED
  BY <1>1, <1>3, <1>5

-----------------------------------------------------------------------------
(* The book.                                                                *)

Order == [status : OrderStatus, terms : AllTerms, quantity : Int, filled : Int]

\* An order is filled part of the way it trades; its status says how far.
WellFormed(o) ==
    /\ o \in Order /\ o.quantity # 0
    /\ \/ 0 <= o.filled /\ o.filled <= o.quantity
       \/ o.quantity <= o.filled /\ o.filled <= 0
    /\ o.status = "FILLED" <=> o.filled = o.quantity
    /\ is_open(o) => o.status = IF o.filled = 0 THEN "ACCEPTED" ELSE "PARTIALLY_FILLED"

OrdersGood(f) ==
    /\ DOMAIN f \subseteq Ids
    /\ f = [i \in DOMAIN f |-> f[i]]
    /\ \A i \in DOMAIN f : WellFormed(f[i])

Open(f) == {i \in DOMAIN f : is_open(f[i])}

\* A sound book: its ledgers describe its open orders and the pending requests,
\* what is outstanding is within the budget, and the strategies explain it.
Good(s, pending) ==
    /\ s = [orders |-> s.orders, position |-> s.position, allocation |-> s.allocation]
    /\ OrdersGood(s.orders)
    /\ pending \subseteq Ids \ DOMAIN s.orders
    /\ Ledgers(s.allocation, Open(s.orders) \cup pending)
    /\ s.allocation.notional <= Budget
    /\ s.position \in Int
    /\ Total(s.allocation.positions) = s.position

LEMMA WorkingIs ==
    ASSUME NEW s
    PROVE  Working(s) = Open(s.orders)
BY DEF Working, Open

LEMMA GoodIntro ==
    ASSUME NEW t, NEW f, OrdersGood(f), NEW p \in Int, NEW a, NEW pending,
           pending \subseteq Ids \ DOMAIN f, Ledgers(a, Open(f) \cup pending),
           a.notional <= Budget, Total(a.positions) = p,
           t = [orders |-> f, position |-> p, allocation |-> a]
    PROVE  Good(t, pending)
BY DEF Good

LEMMA PutOrder ==
    ASSUME NEW f, OrdersGood(f), NEW i \in DOMAIN f, NEW o, WellFormed(o),
           NEW g, g = [f EXCEPT ![i] = o]
    PROVE  /\ OrdersGood(g) /\ DOMAIN g = DOMAIN f
           /\ g[i] = o /\ \A j \in DOMAIN f \ {i} : g[j] = f[j]
           /\ Open(g) = (Open(f) \ {i}) \cup (IF is_open(o) THEN {i} ELSE {})
<1>1. /\ DOMAIN g = DOMAIN f /\ g[i] = o /\ \A j \in DOMAIN f \ {i} : g[j] = f[j]
      /\ g = [j \in DOMAIN g |-> g[j]]
  BY DEF OrdersGood
<1>2. OrdersGood(g)
  BY <1>1 DEF OrdersGood
<1>3. Open(g) = (Open(f) \ {i}) \cup (IF is_open(o) THEN {i} ELSE {})
  <2>1. CASE is_open(o)
    BY <1>1, <2>1 DEF Open
  <2>2. CASE ~is_open(o)
    BY <1>1, <2>2 DEF Open
  <2> QED
    BY <2>1, <2>2
<1> QED
  BY <1>1, <1>2, <1>3

\* What an open order is.
LEMMA OpenOrder ==
    ASSUME NEW o, WellFormed(o), is_open(o)
    PROVE  /\ o \in Order /\ o.quantity \in Int \ {0} /\ o.filled \in Int
           /\ o.status \in {"ACCEPTED", "PARTIALLY_FILLED"}
           /\ o.status = "ACCEPTED" <=> o.filled = 0
           /\ o.filled # o.quantity
           /\ remaining(o) \in Int \ {0} /\ remaining(o) = o.quantity - o.filled
           /\ (o.quantity > 0) = (remaining(o) > 0)
<1>1. /\ o \in Order /\ o.quantity \in Int \ {0} /\ o.filled \in Int
      /\ o.status \in OrderStatus /\ o.status # "FILLED"
      /\ \/ 0 <= o.filled /\ o.filled <= o.quantity
         \/ o.quantity <= o.filled /\ o.filled <= 0
      /\ o.status = "FILLED" <=> o.filled = o.quantity
      /\ o.status = IF o.filled = 0 THEN "ACCEPTED" ELSE "PARTIALLY_FILLED"
  BY DEF WellFormed, Order, is_open, WorkingStatuses, TerminalStatuses
<1>2. remaining(o) = o.quantity - o.filled
  BY DEF remaining
<1> QED
  BY <1>1, <1>2

\* The statuses the table gives an open order.
LEMMA Statuses ==
    ASSUME NEW o, WellFormed(o), is_open(o)
    PROVE  /\ next_order_status(o.status, "cancelled", Magnitude(o.filled)) = "CANCELLED"
           /\ next_order_status(o.status, "expired", Magnitude(o.filled)) = "EXPIRED"
           /\ o.filled = 0 =>
                next_order_status(o.status, "rejected", Magnitude(o.filled)) = "REJECTED"
           /\ next_order_status(o.status, "filled", Magnitude(o.filled)) = "FILLED"
           /\ next_order_status(o.status, "partially_filled", Magnitude(o.filled))
                = "PARTIALLY_FILLED"
<1>1. /\ o.status \in {"ACCEPTED", "PARTIALLY_FILLED"} /\ o.filled \in Int
      /\ o.status = "ACCEPTED" <=> o.filled = 0
  BY OpenOrder
<1>2. o.filled = 0 => ~(Magnitude(o.filled) > 0) /\ o.status = "ACCEPTED"
  BY <1>1, MagnitudeType
<1> DEFINE m == Magnitude(o.filled)
<1> HIDE DEF m
<1>3. next_order_status(o.status, "cancelled", m) = "CANCELLED"
  BY <1>1 DEF next_order_status, HasRow, RowTarget, WorkingStatuses, TerminalStatuses,
              OrderStatus, FillEventKinds
<1>4. next_order_status(o.status, "expired", m) = "EXPIRED"
  BY <1>1 DEF next_order_status, HasRow, RowTarget, WorkingStatuses, TerminalStatuses,
              OrderStatus, FillEventKinds
<1>5. next_order_status(o.status, "filled", m) = "FILLED"
  BY <1>1 DEF next_order_status, HasRow, RowTarget, WorkingStatuses, TerminalStatuses,
              OrderStatus, FillEventKinds
<1>6. next_order_status(o.status, "partially_filled", m) = "PARTIALLY_FILLED"
  BY <1>1 DEF next_order_status, HasRow, RowTarget, WorkingStatuses, TerminalStatuses,
              OrderStatus, FillEventKinds
<1>7. ASSUME o.filled = 0
      PROVE  next_order_status(o.status, "rejected", m) = "REJECTED"
  <2>1. o.status = "ACCEPTED" /\ ~(m > 0)
    BY <1>2, <1>7 DEF m
  <2> QED
    BY <2>1 DEF next_order_status, HasRow, RowTarget, WorkingStatuses, TerminalStatuses,
                OrderStatus, FillEventKinds
<1> QED
  BY <1>3, <1>4, <1>5, <1>6, <1>7 DEF m

\* The end of an open order: nothing is traded and nothing is kept for it.
LEMMA EndGood ==
    ASSUME NEW s, NEW pending, Good(s, pending), NEW i \in Working(s),
           NEW event \in {"cancelled", "expired", "rejected"},
           event = "rejected" => s.orders[i].filled = 0,
           NEW t, t = End(s, i, event)
    PROVE  /\ Good(t, pending)
           /\ DOMAIN t.orders = DOMAIN s.orders
           /\ Working(t) = Working(s) \ {i}
           /\ t.position = s.position
           /\ t.allocation.notional <= s.allocation.notional
           /\ t.allocation.contributions = Without(s.allocation.contributions, i)
           /\ \A j \in DOMAIN s.orders \ {i} : t.orders[j] = s.orders[j]
<1> DEFINE o == s.orders[i]
           ended == IF event = "cancelled" THEN "CANCELLED"
                    ELSE IF event = "expired" THEN "EXPIRED" ELSE "REJECTED"
           n == [o EXCEPT !.status = ended]
           g == [s.orders EXCEPT ![i] = n]
           a == s.allocation
           b == retire_contributions(release_reservation(a, i), i)
<1>1. /\ s = [orders |-> s.orders, position |-> s.position, allocation |-> s.allocation]
      /\ OrdersGood(s.orders) /\ pending \subseteq Ids \ DOMAIN s.orders
      /\ Ledgers(a, Open(s.orders) \cup pending) /\ a.notional <= Budget
      /\ s.position \in Int /\ Total(a.positions) = s.position
  BY DEF Good
<1>2. i \in DOMAIN s.orders /\ is_open(o) /\ WellFormed(o) /\ i \in Open(s.orders)
  BY <1>1 DEF Working, OrdersGood, Open
<1>3. /\ o \in Order /\ o.filled # o.quantity
      /\ next_order_status(o.status, event, Magnitude(o.filled)) = ended
  BY <1>2, OpenOrder, Statuses
<1>4. WellFormed(n) /\ ~is_open(n)
  <2>1. /\ ended \in {"CANCELLED", "EXPIRED", "REJECTED"}
        /\ ended \in OrderStatus
    BY DEF OrderStatus
  <2> HIDE DEF ended
  <2>2. /\ n \in Order /\ n.status = ended /\ n.quantity = o.quantity /\ n.filled = o.filled
    BY <1>3, <2>1 DEF Order
  <2> HIDE DEF n, o
  <2>3. ~is_open(n)
    BY <2>1, <2>2 DEF is_open, WorkingStatuses, TerminalStatuses
  <2> QED
    BY <1>2, <1>3, <2>1, <2>2, <2>3 DEF WellFormed
<1>5. SetStatus(s, i, event) = [s EXCEPT !.orders = g]
  <2>1. SetStatus(s, i, event)
          = [s EXCEPT !.orders[i].status =
                next_order_status(@, event, Magnitude(s.orders[i].filled))]
    BY DEF SetStatus
  <2>2. SetStatus(s, i, event)
          = [s EXCEPT !.orders = [s.orders EXCEPT ![i] = [o EXCEPT !.status =
                next_order_status(@, event, Magnitude(o.filled))]]]
    BY <2>1
  <2> HIDE DEF o, ended
  <2> QED
    BY <1>3, <2>2
<1>6. /\ OrdersGood(g) /\ DOMAIN g = DOMAIN s.orders
      /\ g[i] = n /\ \A j \in DOMAIN s.orders \ {i} : g[j] = s.orders[j]
      /\ Open(g) = Open(s.orders) \ {i}
  <2> HIDE DEF n
  <2>1. /\ OrdersGood(g) /\ DOMAIN g = DOMAIN s.orders
        /\ g[i] = n /\ \A j \in DOMAIN s.orders \ {i} : g[j] = s.orders[j]
        /\ Open(g) = (Open(s.orders) \ {i}) \cup (IF is_open(n) THEN {i} ELSE {})
    BY <1>1, <1>2, <1>4, PutOrder
  <2> HIDE DEF g
  <2> QED
    BY <1>4, <2>1
<1>7. t = [orders |-> g, position |-> s.position, allocation |-> b]
  <2> DEFINE u == SetStatus(s, i, event)
  <2> HIDE DEF n, g
  <2>1. u = [orders |-> g, position |-> s.position, allocation |-> a]
    BY <1>1, <1>5
  <2>2. t = release_if_terminal(u, i)
    BY DEF End
  <2> HIDE DEF u
  <2>3. ~is_open(u.orders[i])
    BY <1>4, <1>6, <2>1
  <2>4. t = [u EXCEPT !.allocation = retire_contributions(release_reservation(@, i), i)]
    BY <2>2, <2>3 DEF release_if_terminal, retire_dropped_request
  <2> QED
    BY <2>1, <2>4
<1>8. /\ Ledgers(b, (Open(s.orders) \cup pending) \ {i})
      /\ b.notional <= a.notional /\ b.positions = a.positions
      /\ b.contributions = Without(a.contributions, i)
  <2> DEFINE live == Open(s.orders) \cup pending
  <2>1. Ledgers(a, live)
    BY <1>1
  <2> HIDE DEF live, a, b
  <2>2. b = retire_contributions(release_reservation(a, i), i)
    BY DEF b
  <2>3. /\ Ledgers(b, live \ {i})
        /\ b.notional <= a.notional /\ b.positions = a.positions
        /\ b.contributions = Without(a.contributions, i)
    BY <2>1, <2>2, DroppedLedgers
  <2> QED
    BY <2>3 DEF live
<1>9. /\ (Open(s.orders) \cup pending) \ {i} = Open(g) \cup pending
      /\ pending \subseteq Ids \ DOMAIN g
  <2> HIDE DEF g
  <2> QED
    BY <1>1, <1>2, <1>6
<1>10. b.notional <= Budget
  <2>1. a.notional \in Nat /\ b.notional \in Nat /\ Budget \in Nat
    <3> HIDE DEF a, b
    <3> QED
      BY <1>1, <1>8, AccountIs, AllocationAssumption
  <2> HIDE DEF a, b
  <2> QED
    BY <1>1, <1>8, <2>1
<1> HIDE DEF g, b, n
<1>11. Good(t, pending)
  <2>1. Ledgers(b, Open(g) \cup pending)
    BY <1>8, <1>9
  <2>2. Total(b.positions) = s.position
    BY <1>1, <1>8
  <2> QED
    BY <1>1, <1>6, <1>7, <1>9, <1>10, <2>1, <2>2, GoodIntro
<1>12. Working(s) = Open(s.orders) /\ Working(t) = Open(g)
  BY <1>7, WorkingIs
<1> QED
  BY <1>6, <1>7, <1>8, <1>11, <1>12

\* A quantity that fills an order part of the way, or all of it.
Fits(o, quantity) ==
    /\ quantity \in Int
    /\ \/ 0 < quantity /\ quantity <= remaining(o)
       \/ remaining(o) <= quantity /\ quantity < 0

\* The same orders, some of them closed.
Closes(t, s, closed) ==
    DOMAIN t.orders = DOMAIN s.orders /\ Working(t) = Working(s) \ closed

\* A fill, reported: every ledger moves with it, and a closed order is gone.
LEMMA ReportGood ==
    ASSUME NEW s, NEW pending, Good(s, pending), NEW i \in Working(s),
           NEW quantity, Fits(s.orders[i], quantity), NEW paid \in Prices,
           NEW t, t = Report(s, i, quantity, paid)
    PROVE  /\ Good(t, pending)
           /\ quantity = remaining(s.orders[i]) => Closes(t, s, {i})
           /\ quantity # remaining(s.orders[i]) => Closes(t, s, {})
<1> SUFFICES /\ Good(t, pending)
             /\ DOMAIN t.orders = DOMAIN s.orders
             /\ quantity = remaining(s.orders[i]) => Working(t) = Working(s) \ {i}
             /\ quantity # remaining(s.orders[i]) => Working(t) = Working(s)
  BY DEF Closes
<1> DEFINE o == s.orders[i]
           full == quantity = remaining(o)
           event == IF full THEN "filled" ELSE "partially_filled"
           now == IF full THEN "FILLED" ELSE "PARTIALLY_FILLED"
           so_far == o.filled + quantity
           n == [o EXCEPT !.status = now, !.filled = so_far]
           g == [s.orders EXCEPT ![i] = n]
           pos == s.position + quantity
           cost == Magnitude(quantity) * paid
           a == s.allocation
           r == record_fill(a, i, quantity, paid)
           b == apply_execution(r, i, cost)
           c == retire_contributions(release_reservation(b, i), i)
           u == [orders |-> g, position |-> pos, allocation |-> b]
           live == Open(s.orders) \cup pending
<1>1. /\ s = [orders |-> s.orders, position |-> s.position, allocation |-> s.allocation]
      /\ OrdersGood(s.orders) /\ pending \subseteq Ids \ DOMAIN s.orders
      /\ Ledgers(a, live) /\ a.notional <= Budget
      /\ s.position \in Int /\ Total(a.positions) = s.position
  BY DEF Good
<1>2. i \in DOMAIN s.orders /\ is_open(o) /\ WellFormed(o) /\ i \in Open(s.orders) /\ i \in live
  BY <1>1 DEF Working, OrdersGood, Open
<1>3. /\ o \in Order /\ o.filled \in Int /\ o.quantity \in Int \ {0}
      /\ remaining(o) = o.quantity - o.filled
      /\ next_order_status(o.status, event, Magnitude(o.filled)) = now
  BY <1>2, OpenOrder, Statuses
<1>4. quantity \in Int /\ so_far \in Int /\ pos \in Int /\ cost \in Nat
  <2>1. quantity \in Int
    BY DEF Fits
  <2>2. Magnitude(quantity) \in Nat /\ paid \in Nat
    BY <2>1, MagnitudeType, PricesAre
  <2>3. cost \in Nat
    <3> DEFINE m == Magnitude(quantity)
    <3> HIDE DEF m
    <3> QED
      BY <2>2 DEF m
  <2> QED
    BY <1>1, <1>3, <2>1, <2>3
<1>5. WellFormed(n) /\ (is_open(n) <=> ~full)
  <2>1. now \in {"FILLED", "PARTIALLY_FILLED"} /\ now \in OrderStatus /\ (now = "FILLED" <=> full)
    BY DEF OrderStatus
  <2>2. /\ \/ 0 <= o.filled /\ o.filled <= o.quantity
           \/ o.quantity <= o.filled /\ o.filled <= 0
        /\ \/ 0 < quantity /\ quantity <= o.quantity - o.filled
           \/ o.quantity - o.filled <= quantity /\ quantity < 0
        /\ full <=> quantity = o.quantity - o.filled
    BY <1>2, <1>3 DEF WellFormed, Fits
  <2> HIDE DEF now, full
  <2>3. /\ n \in Order /\ n.status = now /\ n.quantity = o.quantity /\ n.filled = so_far
    <3> HIDE DEF so_far, o
    <3> QED
      BY <1>3, <1>4, <2>1 DEF Order
  <2>4. /\ \/ 0 <= so_far /\ so_far <= o.quantity
           \/ o.quantity <= so_far /\ so_far <= 0
        /\ full <=> so_far = o.quantity
        /\ so_far # 0
    <3> HIDE DEF o
    <3> QED
      BY <1>3, <1>4, <2>2
  <2> HIDE DEF n, o, so_far
  <2>5. is_open(n) <=> ~full
    BY <2>1, <2>3 DEF is_open, WorkingStatuses, TerminalStatuses, OrderStatus
  <2> QED
    BY <1>3, <2>1, <2>3, <2>4, <2>5 DEF WellFormed
<1>6. /\ OrdersGood(g) /\ DOMAIN g = DOMAIN s.orders /\ g[i] = n
      /\ Open(g) = IF full THEN Open(s.orders) \ {i} ELSE Open(s.orders)
  <2> HIDE DEF n, full
  <2>1. /\ OrdersGood(g) /\ DOMAIN g = DOMAIN s.orders /\ g[i] = n
        /\ Open(g) = (Open(s.orders) \ {i}) \cup (IF is_open(n) THEN {i} ELSE {})
    BY <1>1, <1>2, <1>5, PutOrder
  <2> HIDE DEF g
  <2> QED
    BY <1>2, <1>5, <2>1
<1>7. /\ Ledgers(b, live) /\ b.notional <= a.notional
      /\ Total(b.positions) = pos
  <2> HIDE DEF live, a, cost
  <2>1. /\ Ledgers(r, live) /\ r.notional = a.notional
        /\ Total(r.positions) = Total(a.positions) + quantity
    <3> HIDE DEF r
    <3>1. r = record_fill(a, i, quantity, paid)
      BY DEF r
    <3> QED
      BY <1>1, <1>2, <1>4, <3>1, FilledLedgers
  <2> HIDE DEF r
  <2>2. /\ Ledgers(b, live) /\ b.notional <= r.notional /\ b.positions = r.positions
    <3> HIDE DEF b
    <3>1. b = apply_execution(r, i, cost)
      BY DEF b
    <3> QED
      BY <1>4, <2>1, <3>1, ExecutedLedgers
  <2> HIDE DEF b
  <2> QED
    BY <1>1, <2>1, <2>2
<1>8. t = release_if_terminal(u, i)
  <2>1. t = release_if_terminal(
              [SetStatus(s, i, event) EXCEPT
                      !.orders[i].filled = @ + quantity,
                      !.position = @ + quantity,
                      !.allocation = apply_execution(record_fill(@, i, quantity, paid),
                                                     i, Magnitude(quantity) * paid)], i)
    BY DEF Report
  <2>2. SetStatus(s, i, event)
          = [s EXCEPT !.orders = [s.orders EXCEPT ![i] = [o EXCEPT !.status = now]]]
    <3>1. SetStatus(s, i, event)
            = [s EXCEPT !.orders[i].status =
                  next_order_status(@, event, Magnitude(s.orders[i].filled))]
      BY DEF SetStatus
    <3>2. SetStatus(s, i, event)
            = [s EXCEPT !.orders = [s.orders EXCEPT ![i] = [o EXCEPT !.status =
                  next_order_status(@, event, Magnitude(o.filled))]]]
      BY <3>1
    <3> HIDE DEF o, now, event
    <3> QED
      BY <1>3, <3>2
  <2> DEFINE n1 == [o EXCEPT !.status = now]
             g1 == [s.orders EXCEPT ![i] = n1]
  <2>3. SetStatus(s, i, event) = [orders |-> g1, position |-> s.position, allocation |-> a]
    <3> HIDE DEF n1
    <3> QED
      BY <1>1, <2>2 DEF n1
  <2>4. [SetStatus(s, i, event) EXCEPT
                      !.orders[i].filled = @ + quantity,
                      !.position = @ + quantity,
                      !.allocation = apply_execution(record_fill(@, i, quantity, paid),
                                                     i, Magnitude(quantity) * paid)]
          = [orders |-> [g1 EXCEPT ![i].filled = @ + quantity], position |-> pos,
             allocation |-> b]
    <3> DEFINE y == SetStatus(s, i, event)
               g2 == [g1 EXCEPT ![i].filled = @ + quantity]
    <3>1. y = [orders |-> g1, position |-> s.position, allocation |-> a]
      BY <2>3
    <3>2. /\ y.orders = g1 /\ y.position = s.position /\ y.allocation = a
      <4> HIDE DEF y, g1, a
      <4> QED
        BY <3>1
    <3>3. [y EXCEPT !.orders[i].filled = @ + quantity,
                    !.position = @ + quantity,
                    !.allocation = apply_execution(record_fill(@, i, quantity, paid),
                                                   i, Magnitude(quantity) * paid)]
            = [y EXCEPT !.orders = g2, !.position = pos, !.allocation = b]
      <4> HIDE DEF y, g1
      <4> QED
        BY <3>2
    <3>4. [y EXCEPT !.orders = g2, !.position = pos, !.allocation = b]
            = [orders |-> g2, position |-> pos, allocation |-> b]
      <4> DEFINE old == s.position
      <4> HIDE DEF y, g1, g2, pos, a, b, old
      <4>1. y = [orders |-> g1, position |-> old, allocation |-> a]
        BY <3>1 DEF old
      <4> DEFINE z == [y EXCEPT !.orders = g2, !.position = pos, !.allocation = b]
      <4>2. /\ DOMAIN z = {"orders", "position", "allocation"}
            /\ z = [k \in DOMAIN z |-> z[k]]
            /\ z.orders = g2 /\ z.position = pos /\ z.allocation = b
        BY <4>1
      <4>3. z = [orders |-> g2, position |-> pos, allocation |-> b]
        <5> HIDE DEF z
        <5> QED
          BY <4>2
      <4> QED
        BY <4>3
    <3> QED
      BY <3>3, <3>4
  <2>5. [g1 EXCEPT ![i].filled = @ + quantity] = g
    <3>1. [g1 EXCEPT ![i].filled = @ + quantity]
            = [s.orders EXCEPT ![i] = [n1 EXCEPT !.filled = @ + quantity]]
      <4> HIDE DEF n1
      <4> QED
        BY <1>2
    <3>2. [n1 EXCEPT !.filled = @ + quantity] = n
      <4>1. n1.filled = o.filled
        BY <1>3 DEF Order
      <4>2. [n1 EXCEPT !.filled = @ + quantity] = [n1 EXCEPT !.filled = so_far]
        BY <4>1
      <4> HIDE DEF so_far, now, o
      <4> QED
        BY <1>3, <4>2 DEF Order
    <3> QED
      BY <3>1, <3>2
  <2> HIDE DEF b, g, g1, pos
  <2> QED
    BY <2>1, <2>4, <2>5
<1>9. a.notional \in Nat /\ b.notional \in Nat /\ Budget \in Nat
  <2> HIDE DEF a, b, live
  <2> QED
    BY <1>1, <1>7, AccountIs, AllocationAssumption
<1>10. Working(s) = Open(s.orders)
  BY WorkingIs
<1>11. CASE ~full
  <2> HIDE DEF n, g, b, full, pos
  <2>1. t = u
    BY <1>5, <1>6, <1>8, <1>11 DEF release_if_terminal
  <2>2. /\ Ledgers(b, Open(g) \cup pending) /\ pending \subseteq Ids \ DOMAIN g
        /\ b.notional <= Budget
    BY <1>1, <1>6, <1>7, <1>9, <1>11
  <2>3. Good(t, pending)
    BY <1>4, <1>6, <1>7, <2>1, <2>2, GoodIntro
  <2>4. Working(t) = Open(g)
    BY <2>1, WorkingIs
  <2> QED
    BY <1>6, <1>10, <1>11, <2>1, <2>3, <2>4 DEF full
<1>12. CASE full
  <2> HIDE DEF n, g, b, full, pos
  <2>1. t = [orders |-> g, position |-> pos, allocation |-> c]
    <3>1. ~is_open(u.orders[i])
      BY <1>5, <1>6, <1>12
    <3>2. t = [u EXCEPT !.allocation = retire_contributions(release_reservation(@, i), i)]
      BY <1>8, <3>1 DEF release_if_terminal, retire_dropped_request
    <3> QED
      BY <3>2
  <2>2. /\ Ledgers(c, live \ {i}) /\ c.notional <= b.notional /\ c.positions = b.positions
    <3> HIDE DEF c, live
    <3>1. c = retire_contributions(release_reservation(b, i), i)
      BY DEF c
    <3> QED
      BY <1>7, <3>1, DroppedLedgers
  <2>3. live \ {i} = Open(g) \cup pending /\ pending \subseteq Ids \ DOMAIN g
    BY <1>1, <1>2, <1>6, <1>12
  <2> HIDE DEF c
  <2>4. c.notional <= Budget
    <3>1. c.notional \in Nat
      BY <2>2, AccountIs
    <3> QED
      BY <1>1, <1>7, <1>9, <2>2, <3>1
  <2>5. Good(t, pending)
    <3>1. Ledgers(c, Open(g) \cup pending) /\ Total(c.positions) = pos
      BY <1>7, <2>2, <2>3
    <3> QED
      BY <1>4, <1>6, <2>1, <2>3, <2>4, <3>1, GoodIntro
  <2>6. Working(t) = Open(g)
    BY <2>1, WorkingIs
  <2> QED
    BY <1>6, <1>10, <1>12, <2>1, <2>5, <2>6 DEF full
<1> QED
  BY <1>11, <1>12

LEMMA TurnsAre ==
    ASSUME NEW o, WellFormed(o), is_open(o), NEW turn \in Turns(o)
    PROVE  /\ turn.fill # 0 => Fits(o, turn.fill) /\ turn.paid \in Prices
           /\ turn.end \in {None, "cancelled", "expired", "rejected"}
           /\ turn.fill = remaining(o) => turn.end = None
           /\ turn.end = "rejected" => turn.fill = 0 /\ o.filled = 0
<1> DEFINE left  == remaining(o)
           sign  == IF left > 0 THEN 1 ELSE -1
           most == Magnitude(left) \div Unit
           parts == {sign * n * Unit : n \in 1..most} \ {left}
           OneShot == o.terms \in {"MARKET", "STOP", "IOC"}
           full    == [fill : {left}, paid : Prices, end : {None}]
           none(e) == [fill |-> 0, paid |-> 0, end |-> e]
           some(e) == [fill : parts, paid : Prices, end : {e}]
<1>1. /\ left \in Int \ {0} /\ Magnitude(left) \in Nat
      /\ Magnitude(left) = IF left < 0 THEN -left ELSE left
  <2>1. left \in Int \ {0}
    BY OpenOrder
  <2> HIDE DEF left
  <2> QED
    BY <2>1, MagnitudeType
<1>2. \A q \in parts : Fits(o, q) /\ q # 0 /\ q # left
  <2> SUFFICES ASSUME NEW n \in 1..most, sign * n * Unit # left
               PROVE  Fits(o, sign * n * Unit) /\ sign * n * Unit # 0
    OBVIOUS
  <2>1. Unit \in Nat \ {0}
    BY AllocationAssumption
  <2>2. most \in Int /\ most * Unit <= Magnitude(left)
    <3> DEFINE m == Magnitude(left)
    <3>1. m \in Int
      BY <1>1
    <3> HIDE DEF m
    <3>2. /\ m \div Unit \in Int /\ m % Unit \in Int
          /\ m = (m \div Unit) * Unit + (m % Unit) /\ 0 <= m % Unit
      BY <2>1, <3>1, Division
    <3> DEFINE q == m \div Unit
    <3> HIDE DEF q
    <3>3. q * Unit \in Int
      BY <2>1, <3>2 DEF q
    <3>4. q * Unit <= m
      BY <3>1, <3>2, <3>3 DEF q
    <3> QED
      BY <3>2, <3>4 DEF q, m
  <2> HIDE DEF most
  <2> DEFINE x == n * Unit
  <2>3. x \in Nat /\ 0 < x /\ x <= Magnitude(left)
    <3>1. n \in Int /\ 1 <= n /\ n <= most
      BY <2>2
    <3>2. Unit * 1 <= Unit * n /\ Unit * n <= Unit * most
      BY <2>1, <2>2, <3>1, TimesNatural
    <3>3. Unit * n = x /\ Unit * most = most * Unit /\ Unit * 1 = Unit
          /\ most * Unit \in Int /\ x \in Int
      BY <2>1, <2>2, <3>1
    <3> HIDE DEF x, left
    <3> QED
      BY <1>1, <2>1, <2>2, <3>2, <3>3
  <2>4. sign * n * Unit = IF left > 0 THEN x ELSE -x
    <3>1. n \in Int
      BY <2>2
    <3> HIDE DEF left
    <3> QED
      BY <2>1, <3>1
  <2> HIDE DEF x, left, sign
  <2>5. LET q == IF left > 0 THEN x ELSE -x
        IN  /\ q \in Int /\ q # 0
            /\ (0 < q /\ q <= left) \/ (left <= q /\ q < 0)
    BY <1>1, <2>3
  <2> QED
    BY <2>4, <2>5 DEF Fits, left
<1>3. Fits(o, left)
  <2> HIDE DEF left
  <2>1. 0 < left \/ left < 0
    BY <1>1
  <2> QED
    BY <1>1, <2>1 DEF Fits, left
<1>4. turn \in full \cup {none("expired"), none("cancelled"), none(None), none("rejected")}
                \cup some("cancelled") \cup some(None)
  <2> HIDE DEF left, full, none, some
  <2>1. turn \in full \cup {none("expired")}
        \cup (IF o.terms = "FOK" THEN {none("cancelled")}
              ELSE IF OneShot THEN some("cancelled")
                       \cup {none("cancelled")}
              ELSE some(None))
        \cup (IF o.terms \in {"IOC", "FOK"} THEN {} ELSE {none(None)})
        \cup (IF o.filled = 0 /\ o.terms # "FOK" THEN {none("rejected")} ELSE {})
    BY DEF Turns, full, none, some, left
  <2> QED
    BY <2>1
<1>5. turn = none("rejected") => o.filled = 0
  <2> HIDE DEF left
  <2>1. turn = none("rejected") => turn.fill = 0 /\ turn.end = "rejected"
    OBVIOUS
  <2>2. turn \in full \cup {none("expired")}
        \cup (IF o.terms = "FOK" THEN {none("cancelled")}
              ELSE IF OneShot THEN some("cancelled")
                       \cup {none("cancelled")}
              ELSE some(None))
        \cup (IF o.terms \in {"IOC", "FOK"} THEN {} ELSE {none(None)})
        \cup (IF o.filled = 0 /\ o.terms # "FOK" THEN {none("rejected")} ELSE {})
    BY DEF Turns, left
  <2> HIDE DEF parts
  <2>3. /\ turn \in full => turn.end = None
        /\ turn \in some("cancelled") => turn.end = "cancelled"
        /\ turn \in some(None) => turn.end = None
        /\ turn = none("expired") => turn.end = "expired"
        /\ turn = none("cancelled") => turn.end = "cancelled"
        /\ turn = none(None) => turn.end = None
    OBVIOUS
  <2> HIDE DEF full, some, none
  <2> QED
    BY <2>1, <2>2, <2>3 DEF None
<1>6. CASE turn \in full
  <2>1. turn.fill = left /\ turn.paid \in Prices /\ turn.end = None
    BY <1>6
  <2> QED
    BY <1>3, <2>1 DEF None
<1>7. CASE turn \in {none("expired"), none("cancelled"), none(None), none("rejected")}
  <2>1. turn.fill = 0 /\ turn.end \in {None, "cancelled", "expired", "rejected"}
        /\ (turn.end = "rejected" => turn = none("rejected"))
    BY <1>7 DEF None
  <2> HIDE DEF none
  <2>2. 0 # remaining(o)
    BY <1>1
  <2> QED
    BY <1>5, <2>1, <2>2
<1>8. CASE turn \in some("cancelled") \cup some(None)
  <2>1. turn.fill \in parts /\ turn.paid \in Prices /\ turn.end \in {"cancelled", None}
    <3> HIDE DEF parts
    <3> QED
      BY <1>8
  <2> HIDE DEF parts
  <2> QED
    BY <1>2, <2>1 DEF None
<1> QED
  BY <1>4, <1>6, <1>7, <1>8

\* An order's turn: a fill, then the end of what remains.
\* The book t is s after the order's turn: no other order is touched.
Turned(t, s, i) ==
    /\ DOMAIN t.orders = DOMAIN s.orders
    /\ Working(t) \subseteq Working(s) /\ Working(s) \ {i} \subseteq Working(t)

LEMMA WorkedGood ==
    ASSUME NEW s, NEW pending, Good(s, pending), NEW i \in Working(s),
           NEW turn \in Turns(s.orders[i]), NEW t, t = work_order(s, i, turn)
    PROVE  Good(t, pending) /\ Turned(t, s, i)
<1> DEFINE o == s.orders[i]
           f == IF turn.fill = 0 THEN s ELSE Report(s, i, turn.fill, turn.paid)
<1>1. WellFormed(o) /\ is_open(o)
  BY DEF Good, Working, OrdersGood
<1>2. /\ turn.fill # 0 => Fits(o, turn.fill) /\ turn.paid \in Prices
      /\ turn.end \in {None, "cancelled", "expired", "rejected"}
      /\ turn.fill = remaining(o) => turn.end = None
      /\ turn.end = "rejected" => turn.fill = 0 /\ o.filled = 0
  BY <1>1, TurnsAre
<1>3. /\ Good(f, pending) /\ DOMAIN f.orders = DOMAIN s.orders
      /\ Working(f) \subseteq Working(s) /\ Working(s) \ {i} \subseteq Working(f)
      /\ turn.fill # remaining(o) => i \in Working(f)
      /\ turn.fill = 0 => f = s
  <2>1. CASE turn.fill = 0
    BY <2>1
  <2>2. CASE turn.fill # 0
    <3>1. f = Report(s, i, turn.fill, turn.paid)
      BY <2>2
    <3> HIDE DEF f
    <3>2. /\ Good(f, pending) /\ DOMAIN f.orders = DOMAIN s.orders
          /\ Working(f) = IF turn.fill = remaining(o) THEN Working(s) \ {i} ELSE Working(s)
      <4> DEFINE q == turn.fill
                 p == turn.paid
      <4>1. Fits(s.orders[i], q) /\ p \in Prices /\ f = Report(s, i, q, p)
        BY <1>2, <2>2, <3>1
      <4> HIDE DEF q, p
      <4>2. /\ Good(f, pending)
            /\ q = remaining(s.orders[i]) => Closes(f, s, {i})
            /\ q # remaining(s.orders[i]) => Closes(f, s, {})
        BY <4>1, ReportGood
      <4> QED
        BY <4>2 DEF q, Closes
    <3> QED
      BY <2>2, <3>2
  <2> QED
    BY <2>1, <2>2
<1>4. t = IF turn.end = None THEN f ELSE End(f, i, turn.end)
  BY DEF work_order
<1> HIDE DEF f
<1>5. CASE turn.end = None
  BY <1>3, <1>4, <1>5 DEF Turned
<1>6. CASE turn.end # None
  <2>1. i \in Working(f) /\ turn.end \in {"cancelled", "expired", "rejected"}
    BY <1>2, <1>3, <1>6
  <2>2. turn.end = "rejected" => f.orders[i].filled = 0
    BY <1>2, <1>3
  <2>3. t = End(f, i, turn.end)
    BY <1>4, <1>6
  <2>4. /\ Good(t, pending) /\ DOMAIN t.orders = DOMAIN f.orders
        /\ Working(t) = Working(f) \ {i}
    BY <1>3, <2>1, <2>2, <2>3, EndGood
  <2> QED
    BY <1>3, <2>4 DEF Turned
<1> QED
  BY <1>5, <1>6

\* A request that will never be an order is dropped.
LEMMA RequestDropped ==
    ASSUME NEW s, NEW pending, Good(s, pending), NEW i \in pending,
           NEW t, t = retire_dropped_request(s, i)
    PROVE  Good(t, pending \ {i}) /\ t.orders = s.orders
<1> DEFINE a == s.allocation
           b == retire_contributions(release_reservation(a, i), i)
           live == Open(s.orders) \cup pending
<1>1. /\ s = [orders |-> s.orders, position |-> s.position, allocation |-> s.allocation]
      /\ OrdersGood(s.orders) /\ pending \subseteq Ids \ DOMAIN s.orders
      /\ Ledgers(a, live) /\ a.notional <= Budget
      /\ s.position \in Int /\ Total(a.positions) = s.position
  BY DEF Good
<1>2. t = [orders |-> s.orders, position |-> s.position, allocation |-> b]
  <2>1. t = [s EXCEPT !.allocation = b]
    BY DEF retire_dropped_request
  <2> HIDE DEF b
  <2> QED
    BY <1>1, <2>1
<1>3. /\ Ledgers(b, live \ {i}) /\ b.notional <= a.notional /\ b.positions = a.positions
  <2> HIDE DEF b, live, a
  <2>1. b = retire_contributions(release_reservation(a, i), i)
    BY DEF b
  <2> QED
    BY <1>1, <2>1, DroppedLedgers
<1>4. live \ {i} = Open(s.orders) \cup (pending \ {i})
  BY <1>1 DEF Open
<1>5. b.notional <= Budget
  <2>1. a.notional \in Nat /\ b.notional \in Nat /\ Budget \in Nat
    <3> HIDE DEF a, b, live
    <3> QED
      BY <1>1, <1>3, AccountIs, AllocationAssumption
  <2> HIDE DEF a, b
  <2> QED
    BY <1>1, <1>3, <2>1
<1>6. Good(t, pending \ {i})
  <2> DEFINE P == pending \ {i}
             f == s.orders
  <2>1. /\ P \subseteq Ids \ DOMAIN f /\ Ledgers(b, Open(f) \cup P)
        /\ Total(b.positions) = s.position
    BY <1>1, <1>3, <1>4
  <2>2. OrdersGood(f) /\ t = [orders |-> f, position |-> s.position, allocation |-> b]
    BY <1>1, <1>2
  <2> HIDE DEF P, b, f
  <2>3. Good(t, P)
    BY <1>1, <1>5, <2>1, <2>2, GoodIntro
  <2> QED
    BY <2>3 DEF P
<1> QED
  BY <1>2, <1>6

\* A request becomes an order.
\* The book t is s with one working order more.
Opened(t, s, id) ==
    /\ DOMAIN t.orders = DOMAIN s.orders \cup {id}
    /\ Working(t) = Working(s) \cup {id}

LEMMA SubmittedGood ==
    ASSUME NEW s, NEW pending, Good(s, pending), NEW request, request.id \in pending,
           request.terms \in AllTerms, request.quantity \in Int \ {0},
           NEW t, t = submit_and_accept(s, request)
    PROVE  Good(t, pending \ {request.id}) /\ Opened(t, s, request.id)
<1> DEFINE i == request.id
           o == [status |-> "ACCEPTED", terms |-> request.terms,
                 quantity |-> request.quantity, filled |-> 0]
           f == s.orders
           g == With(f, i, o)
           a == s.allocation
           P == pending \ {i}
<1>1. /\ s = [orders |-> f, position |-> s.position, allocation |-> a]
      /\ OrdersGood(f) /\ pending \subseteq Ids \ DOMAIN f
      /\ Ledgers(a, Open(f) \cup pending) /\ a.notional <= Budget
      /\ s.position \in Int /\ Total(a.positions) = s.position
  BY DEF Good
<1>2. i \in pending /\ i \in Ids /\ i \notin DOMAIN f
  BY <1>1
<1>3. WellFormed(o) /\ is_open(o)
  <2> DEFINE q == request.quantity
             k == request.terms
  <2>1. q \in Int /\ q # 0 /\ k \in AllTerms
    OBVIOUS
  <2> HIDE DEF q, k
  <2>2. /\ o \in Order /\ o.quantity = q /\ o.filled = 0 /\ o.status = "ACCEPTED"
    BY <2>1 DEF Order, OrderStatus, q, k
  <2> HIDE DEF o
  <2>3. is_open(o)
    BY <2>2 DEF is_open, WorkingStatuses, TerminalStatuses, OrderStatus
  <2> QED
    BY <2>1, <2>2, <2>3 DEF WellFormed
<1>4. /\ DOMAIN g = DOMAIN f \cup {i} /\ g[i] = o
      /\ \A j \in DOMAIN f : g[j] = f[j]
      /\ g = [j \in DOMAIN g |-> g[j]]
  <2> HIDE DEF o, i, f
  <2> QED
    BY <1>2 DEF With
<1>5. OrdersGood(g)
  <2> HIDE DEF o, i, f, g
  <2> QED
    BY <1>1, <1>2, <1>3, <1>4 DEF OrdersGood
<1>6. Open(g) = Open(f) \cup {i}
  <2> HIDE DEF o, i, f, g
  <2> QED
    BY <1>2, <1>3, <1>4 DEF Open
<1>7. t = [orders |-> g, position |-> s.position, allocation |-> a]
  <2>1. t = [s EXCEPT !.orders = g]
    BY DEF submit_and_accept
  <2> HIDE DEF g, a, f
  <2> QED
    BY <1>1, <2>1
<1>8. Good(t, P)
  <2>1. P \subseteq Ids \ DOMAIN g /\ Open(g) \cup P = Open(f) \cup pending
    <3> HIDE DEF g, f, i
    <3> QED
      BY <1>1, <1>2, <1>4, <1>6
  <2>2. Ledgers(a, Open(g) \cup P)
    BY <1>1, <2>1
  <2> HIDE DEF g, a, f, P
  <2> QED
    BY <1>1, <1>5, <1>7, <2>1, <2>2, GoodIntro
<1> HIDE DEF g
<1>9. Working(t) = Open(g) /\ Working(s) = Open(f)
  BY <1>7, WorkingIs
<1> QED
  BY <1>4, <1>6, <1>7, <1>8, <1>9 DEF Opened

\* What is committed in the asset and what each strategy works are numbers.
LEMMA CommittedType ==
    ASSUME NEW s, NEW pending, Good(s, pending)
    PROVE  /\ committed_position(s) \in Int
           /\ working_shares(s) \in [Strategies -> Int]
<1> DEFINE W == Working(s)
           c == s.allocation.contributions
           left == [i \in W |-> remaining(s.orders[i])]
           Part(r) == [i \in W |-> Get(split_by_contribution(remaining(s.orders[i]), c[i]), r)]
<1>1. /\ s.position \in Int /\ OrdersGood(s.orders) /\ W = Open(s.orders)
      /\ Ledgers(s.allocation, Open(s.orders) \cup pending)
  BY WorkingIs DEF Good
<1>2. IsFiniteSet(W)
  <2>1. W \in SUBSET Ids
    BY <1>1 DEF Open, OrdersGood
  <2> HIDE DEF W
  <2> QED
    BY <2>1, IdsAre, FS_Subset
<1>3. \A i \in W : remaining(s.orders[i]) \in Int /\ c[i] \in Shares
  <2> SUFFICES ASSUME NEW i \in W PROVE remaining(s.orders[i]) \in Int /\ c[i] \in Shares
    OBVIOUS
  <2>1. WellFormed(s.orders[i]) /\ is_open(s.orders[i]) /\ i \in Open(s.orders)
    BY <1>1 DEF Open, OrdersGood
  <2>2. c \in [Open(s.orders) \cup pending -> Shares]
    BY <1>1, AccountIs
  <2>3. remaining(s.orders[i]) \in Int
    BY <2>1, OpenOrder
  <2> QED
    BY <2>1, <2>2, <2>3
<1>4. committed_position(s) \in Int
  <2>1. left \in [W -> Int]
    BY <1>3
  <2>2. Total(left) \in Int
    <3> HIDE DEF left, W
    <3> QED
      BY <1>2, <2>1, TotalType
  <2>3. committed_position(s) = s.position + Total(left)
    BY DEF committed_position
  <2> HIDE DEF left
  <2> QED
    BY <1>1, <2>2, <2>3
<1>5. \A r \in Strategies : Total(Part(r)) \in Int
  <2> SUFFICES ASSUME NEW r \in Strategies PROVE Total(Part(r)) \in Int
    OBVIOUS
  <2>1. Part(r) \in [W -> Int]
    <3> SUFFICES ASSUME NEW i \in W
                 PROVE  Get(split_by_contribution(remaining(s.orders[i]), c[i]), r) \in Int
      OBVIOUS
    <3> DEFINE n == remaining(s.orders[i])
               d == c[i]
               x == split_by_contribution(n, d)
    <3>1. n \in Int /\ d \in Shares
      BY <1>3
    <3> HIDE DEF n, d
    <3>2. x \in [DOMAIN d -> Int]
      BY <3>1, SplitAddsUp
    <3> HIDE DEF x
    <3>3. Get(x, r) \in Int
      BY <3>2 DEF Get
    <3> QED
      BY <3>3 DEF x, n, d
  <2> HIDE DEF Part, W
  <2> QED
    BY <1>2, <2>1, TotalType
<1>6. working_shares(s) = [r \in Strategies |-> Total(Part(r))]
  BY DEF working_shares
<1> HIDE DEF Part
<1> QED
  BY <1>4, <1>5, <1>6

\* An amend that makes an order smaller and keeps its place.
LEMMA ReducedGood ==
    ASSUME NEW s, Good(s, {}), NEW i \in Working(s), NEW strategy \in Strategies,
           DOMAIN s.allocation.contributions[i] = {strategy},
           NEW left \in Int \ {0}, Magnitude(left) < Magnitude(remaining(s.orders[i])),
           (left > 0) = (remaining(s.orders[i]) > 0),
           NEW t, t = reduce_in_place(s, strategy, i, left)
    PROVE  /\ Good(t, {})
           /\ Closes(t, s, {})
           /\ t.position = s.position
           /\ t.allocation.notional <= s.allocation.notional
           /\ DOMAIN t.allocation.reservations = DOMAIN s.allocation.reservations
<1> DEFINE o == s.orders[i]
           a == s.allocation
           f == s.orders
           was == remaining(o)
           cut == o.filled + left
           before == committed_position(s) - was
           held == a.positions[strategy] + working_shares(s)[strategy] - was
           kept == still_added(Get(a.reservations, i), before, was, left, adds_to_account)
           own == still_added(Get(a.capital[strategy].reserved, i), held, was, left,
                              adding_exposure)
           n == [o EXCEPT !.quantity = cut]
           g == [f EXCEPT ![i] = n]
           b == Shrunk(a, strategy, i, cut, kept, own)
           live == Open(f) \cup {}
<1>1. /\ s = [orders |-> f, position |-> s.position, allocation |-> a]
      /\ OrdersGood(f) /\ Ledgers(a, live) /\ a.notional <= Budget
      /\ s.position \in Int /\ Total(a.positions) = s.position
  BY DEF Good
<1>2. i \in DOMAIN f /\ is_open(o) /\ WellFormed(o) /\ i \in Open(f) /\ i \in live
  BY <1>1 DEF Working, OrdersGood, Open
<1>3. /\ o \in Order /\ o.filled \in Int /\ o.quantity \in Int \ {0}
      /\ was \in Int \ {0} /\ was = o.quantity - o.filled
      /\ o.status \in {"ACCEPTED", "PARTIALLY_FILLED"}
  BY <1>2, OpenOrder
<1>4. cut \in Int /\ before \in Int /\ held \in Int
  <2>1. committed_position(s) \in Int /\ working_shares(s)[strategy] \in Int
    BY CommittedType
  <2>2. a.positions[strategy] \in Int
    BY <1>1, AccountIs
  <2> HIDE DEF was, a, o
  <2> QED
    BY <1>3, <2>1, <2>2
<1>5. /\ Get(a.reservations, i) \in Nat /\ Get(a.capital[strategy].reserved, i) \in Nat
  <2>1. a.reservations \in Held /\ a.capital[strategy] \in Capital
    <3> HIDE DEF live, a
    <3> QED
      BY <1>1, AccountIs
  <2>2. a.capital[strategy].reserved \in Held
    BY <2>1 DEF Capital
  <2> HIDE DEF a
  <2> QED
    BY <2>1, <2>2, HeldIs
<1>6. kept \in Nat /\ kept <= Get(a.reservations, i) /\ own \in Nat
  <2> DEFINE x == Get(a.reservations, i)
             y == Get(a.capital[strategy].reserved, i)
  <2>1. /\ x \in Nat /\ y \in Nat /\ before \in Int /\ held \in Int
        /\ was \in Int /\ was # 0
        /\ left \in Int /\ Magnitude(left) <= Magnitude(was) /\ (left > 0) = (was > 0)
    <3>1. Magnitude(left) < Magnitude(was) /\ Magnitude(left) \in Nat /\ Magnitude(was) \in Nat
      <4>1. was \in Int /\ Magnitude(left) < Magnitude(was)
        BY <1>3
      <4> HIDE DEF was
      <4> QED
        BY <4>1, MagnitudeType
    <3> QED
      BY <1>3, <1>4, <1>5, <3>1
  <2> HIDE DEF x, y, before, held, was
  <2>2. /\ still_added(x, before, was, left, adds_to_account) \in Nat
        /\ still_added(x, before, was, left, adds_to_account) <= x
    BY <2>1, KeptOfAccount
  <2>3. still_added(y, held, was, left, adding_exposure) \in Nat
    BY <2>1, KeptOfCeiling
  <2> QED
    BY <2>2, <2>3 DEF x, y
<1>7. WellFormed(n) /\ is_open(n)
  <2>1. /\ left \in Int /\ left # 0 /\ (left > 0) = (o.quantity - o.filled > 0)
        /\ (IF left < 0 THEN -left ELSE left)
             < IF o.quantity - o.filled < 0 THEN -(o.quantity - o.filled)
               ELSE o.quantity - o.filled
    BY <1>3 DEF Magnitude
  <2>2. \/ 0 <= o.filled /\ o.filled <= o.quantity
        \/ o.quantity <= o.filled /\ o.filled <= 0
    BY <1>2 DEF WellFormed
  <2>3. /\ cut # 0 /\ o.filled # cut
        /\ \/ 0 <= o.filled /\ o.filled <= cut
           \/ cut <= o.filled /\ o.filled <= 0
    <3> HIDE DEF o
    <3> QED
      BY <1>3, <2>1, <2>2
  <2>4. n \in Order /\ n.status = o.status /\ n.quantity = cut /\ n.filled = o.filled
    <3> HIDE DEF o, cut
    <3> QED
      BY <1>3, <1>4 DEF Order
  <2>5. o.status = IF o.filled = 0 THEN "ACCEPTED" ELSE "PARTIALLY_FILLED"
    BY <1>2 DEF WellFormed
  <2> HIDE DEF o, n, cut
  <2>6. is_open(n)
    BY <1>3, <2>4 DEF is_open, WorkingStatuses, TerminalStatuses, OrderStatus
  <2> QED
    BY <1>3, <2>3, <2>4, <2>5, <2>6 DEF WellFormed
<1>8. /\ OrdersGood(g) /\ DOMAIN g = DOMAIN f /\ Open(g) = Open(f)
  <2> HIDE DEF n
  <2>1. /\ OrdersGood(g) /\ DOMAIN g = DOMAIN f
        /\ g[i] = n /\ \A j \in DOMAIN f \ {i} : g[j] = f[j]
        /\ Open(g) = (Open(f) \ {i}) \cup (IF is_open(n) THEN {i} ELSE {})
    BY <1>1, <1>2, <1>7, PutOrder
  <2> HIDE DEF g
  <2> QED
    BY <1>2, <1>7, <2>1
<1>9. /\ Ledgers(b, live) /\ b.notional <= a.notional /\ b.positions = a.positions
      /\ DOMAIN b.reservations = DOMAIN a.reservations
  <2>1. b = Shrunk(a, strategy, i, cut, kept, own) /\ DOMAIN a.contributions[i] = {strategy}
    OBVIOUS
  <2> HIDE DEF b, a, cut, kept, own, live
  <2> QED
    BY <1>1, <1>2, <1>4, <1>6, <2>1, ShrunkLedgers
<1>10. t = [orders |-> g, position |-> s.position, allocation |-> b]
  <2>1. t = [s EXCEPT !.orders[i].quantity = cut, !.allocation = b]
    BY DEF reduce_in_place, Shrunk
  <2>2. t = [s EXCEPT !.orders = [f EXCEPT ![i] = [o EXCEPT !.quantity = cut]],
                      !.allocation = b]
    BY <2>1
  <2> HIDE DEF b, cut
  <2>3. t = [s EXCEPT !.orders = g, !.allocation = b]
    BY <2>2
  <2> HIDE DEF g, a, f
  <2>4. /\ DOMAIN t = {"orders", "position", "allocation"}
        /\ t = [k \in DOMAIN t |-> t[k]]
        /\ t.orders = g /\ t.position = s.position /\ t.allocation = b
    BY <1>1, <2>3
  <2> QED
    BY <2>4
<1>11. b.notional <= Budget
  <2>1. a.notional \in Nat /\ b.notional \in Nat /\ Budget \in Nat
    <3> HIDE DEF a, b, live
    <3> QED
      BY <1>1, <1>9, AccountIs, AllocationAssumption
  <2> HIDE DEF a, b
  <2> QED
    BY <1>1, <1>9, <2>1
<1>12. Good(t, {})
  <2>1. Ledgers(b, Open(g) \cup {}) /\ Total(b.positions) = s.position
    BY <1>1, <1>8, <1>9
  <2> DEFINE P == {}
  <2>2. Ledgers(b, Open(g) \cup P) /\ P \subseteq Ids \ DOMAIN g
    BY <2>1
  <2> HIDE DEF P, g, b
  <2>3. Good(t, P)
    BY <1>1, <1>8, <1>10, <1>11, <2>1, <2>2, GoodIntro
  <2> QED
    BY <2>3 DEF P
<1> HIDE DEF g, b
<1>13. Working(t) = Open(g) /\ Working(s) = Open(f)
  BY <1>10, WorkingIs
<1>14. Closes(t, s, {})
  BY <1>8, <1>10, <1>13 DEF Closes
<1> QED
  BY <1>9, <1>10, <1>12, <1>14

-----------------------------------------------------------------------------
(* A strategy's orders, withdrawn.                                          *)

LEMMA FreshIdIs ==
    ASSUME NEW s, OrdersGood(s.orders)
    PROVE  /\ FreshId(s) \in Nat \ {0}
           /\ \A i \in DOMAIN s.orders : i < FreshId(s)
<1> DEFINE S == DOMAIN s.orders \cup {0}
<1>1. S \in SUBSET Nat /\ IsFiniteSet(S) /\ S # {}
  <2>1. DOMAIN s.orders \in SUBSET Ids
    BY DEF OrdersGood
  <2>2. IsFiniteSet(DOMAIN s.orders) /\ DOMAIN s.orders \subseteq Nat
    BY <2>1, IdsAre, FS_Subset
  <2> QED
    BY <2>2, FS_AddElement
<1>2. Max(S) \in S /\ \A n \in S : n <= Max(S)
  <2> HIDE DEF S
  <2> QED
    BY <1>1, GreatestNumber
<1>3. FreshId(s) = Max(S) + 1
  BY DEF FreshId
<1> QED
  BY <1>1, <1>2, <1>3

\* The withdrawals, identifier by identifier.
Withdraws(after, n, s, strategy) ==
    after = [i \in 0..n |->
                IF i = 0 THEN s
                ELSE IF i \in SoleOrders(after[i - 1], strategy)
                     THEN End(after[i - 1], i, "cancelled")
                     ELSE after[i - 1]]

LEMMA WithdrawsExists ==
    ASSUME NEW m \in Nat, NEW s, NEW strategy
    PROVE  \E after : Withdraws(after, m, s, strategy)
<1> DEFINE F == {n \in Nat : \E after : Withdraws(after, n, s, strategy)}
<1>1. 0 \in F
  <2> DEFINE one == [i \in 0..0 |-> s]
  <2>1. Withdraws(one, 0, s, strategy)
    BY DEF Withdraws
  <2> HIDE DEF one
  <2> QED
    BY <2>1
<1>2. ASSUME NEW n \in Nat, n < m, n \in F PROVE n + 1 \in F
  <2>1. PICK f : Withdraws(f, n, s, strategy)
    BY <1>2
  <2> DEFINE last == IF n + 1 \in SoleOrders(f[n], strategy)
                     THEN End(f[n], n + 1, "cancelled") ELSE f[n]
             g == [i \in 0..(n + 1) |-> IF i = n + 1 THEN last ELSE f[i]]
  <2>2. \A i \in 0..n : f[i] = IF i = 0 THEN s
                               ELSE IF i \in SoleOrders(f[i - 1], strategy)
                                    THEN End(f[i - 1], i, "cancelled") ELSE f[i - 1]
    BY <2>1 DEF Withdraws
  <2>3. \A i \in 0..(n + 1) :
           g[i] = IF i = 0 THEN s
                  ELSE IF i \in SoleOrders(g[i - 1], strategy)
                       THEN End(g[i - 1], i, "cancelled") ELSE g[i - 1]
    <3> SUFFICES ASSUME NEW i \in 0..(n + 1)
                 PROVE  g[i] = IF i = 0 THEN s
                               ELSE IF i \in SoleOrders(g[i - 1], strategy)
                                    THEN End(g[i - 1], i, "cancelled") ELSE g[i - 1]
      OBVIOUS
    <3>1. CASE i = n + 1
      <4>1. g[i] = last /\ g[i - 1] = f[n] /\ i # 0
        <5> HIDE DEF last
        <5> QED
          BY <3>1
      <4> HIDE DEF g
      <4> QED
        BY <3>1, <4>1
    <3>2. CASE i # n + 1
      <4>1. i \in 0..n /\ g[i] = f[i] /\ (i # 0 => g[i - 1] = f[i - 1])
        <5> HIDE DEF last
        <5> QED
          BY <3>2
      <4> HIDE DEF g, last
      <4> QED
        BY <2>2, <4>1
    <3> QED
      BY <3>1, <3>2
  <2>4. g = [i \in 0..(n + 1) |-> g[i]]
    OBVIOUS
  <2> HIDE DEF g, last
  <2>5. Withdraws(g, n + 1, s, strategy)
    BY <2>3, <2>4 DEF Withdraws
  <2> QED
    BY <2>5
<1>3. \A n \in 0..m : n \in F
  <2> HIDE DEF F
  <2> QED
    BY <1>1, <1>2, UpTo
<1> QED
  BY <1>3

LEMMA WithdrawnGood ==
    ASSUME NEW s, Good(s, {}), NEW strategy, NEW t, t = Withdrawn(s, strategy)
    PROVE  Good(t, {})
<1> DEFINE m == FreshId(s) - 1
<1>1. m \in Nat
  <2>1. OrdersGood(s.orders)
    BY DEF Good
  <2> QED
    BY <2>1, FreshIdIs
<1> DEFINE f == CHOOSE after : Withdraws(after, m, s, strategy)
<1>2. t = f[m]
  BY DEF Withdrawn, Withdraws
<1>3. Withdraws(f, m, s, strategy)
  <2> HIDE DEF m
  <2>1. \E after : Withdraws(after, m, s, strategy)
    BY <1>1, WithdrawsExists
  <2> QED
    BY <2>1
<1> HIDE DEF f, m
<1>4. \A i \in 0..m : f[i] = IF i = 0 THEN s
                             ELSE IF i \in SoleOrders(f[i - 1], strategy)
                                  THEN End(f[i - 1], i, "cancelled") ELSE f[i - 1]
  BY <1>3 DEF Withdraws
<1> DEFINE F == {i \in 0..m : Good(f[i], {})}
<1>5. 0 \in F
  BY <1>1, <1>4
<1>6. ASSUME NEW n \in Nat, n < m, n \in F PROVE n + 1 \in F
  <2> DEFINE u == f[n]
             k == n + 1
             v == f[k]
  <2>1. Good(u, {}) /\ k \in 0..m
    BY <1>1, <1>6
  <2>2. v = IF k \in SoleOrders(u, strategy) THEN End(u, k, "cancelled") ELSE u
    <3>1. k # 0 /\ k - 1 = n
      OBVIOUS
    <3> HIDE DEF k
    <3> QED
      BY <1>4, <2>1, <3>1
  <2> HIDE DEF u, v, k
  <2>3. Good(v, {})
    <3>1. CASE k \in SoleOrders(u, strategy)
      <4>1. k \in Working(u)
        BY <3>1 DEF SoleOrders
      <4>2. "cancelled" \in {"cancelled", "expired", "rejected"}
            /\ v = End(u, k, "cancelled")
        BY <2>2, <3>1
      <4> QED
        BY <2>1, <4>1, <4>2, EndGood
    <3>2. CASE k \notin SoleOrders(u, strategy)
      BY <2>1, <2>2, <3>2
    <3> QED
      BY <3>1, <3>2
  <2> QED
    BY <2>1, <2>3 DEF v, k
<1>7. \A n \in 0..m : n \in F
  <2> HIDE DEF F
  <2> QED
    BY <1>1, <1>5, <1>6, UpTo
<1> QED
  BY <1>1, <1>2, <1>7

-----------------------------------------------------------------------------
(* What a batch of intents becomes.                                         *)

\* Intents, however their records are written.
IsIntent(i) == /\ i.kind \in {"DELTA", "TARGET"} /\ i.terms \in AllTerms /\ i.target \in Int

\* An order that may be sent.
Entries == [terms : AllTerms, quantity : Int \ {0}, contributions : Shares, commitment : Nat]

Doing == [held : Int, reducing : Seq(Entries), adding : Seq(Entries)]

LEMMA TruncateType ==
    ASSUME NEW x \in Int
    PROVE  Truncate(x) \in Int
<1> DEFINE q == Magnitude(x) \div Unit
           whole == q * Unit
<1>1. Unit \in Nat \ {0}
  BY AllocationAssumption
<1>2. q \in Int
  <2>1. Magnitude(x) \in Int
    BY MagnitudeType
  <2> DEFINE y == Magnitude(x)
  <2> HIDE DEF y
  <2>2. y \div Unit \in Int
    BY <1>1, <2>1, Division DEF y
  <2> QED
    BY <2>2 DEF y
<1>3. whole \in Int
  <2> HIDE DEF q
  <2> QED
    BY <1>1, <1>2
<1>4. Truncate(x) = IF x < 0 THEN -whole ELSE whole
  BY DEF Truncate
<1> HIDE DEF whole
<1> QED
  BY <1>3, <1>4

LEMMA NettedIs ==
    ASSUME NEW state, state.positions \in [Strategies -> Int],
           NEW D \in SUBSET Strategies, NEW intents, DOMAIN intents = D,
           \A s \in D : IsIntent(intents[s]),
           NEW working \in [Strategies -> Int], NEW p,
           NEW netted, netted = Netted(state, intents, p, working)
    PROVE  /\ DOMAIN netted \subseteq D
           /\ \A s \in DOMAIN netted :
                 /\ netted[s].terms \in AllTerms
                 /\ netted[s].contributions \in Shares
                 /\ netted[s].quantity \in Int
<1> DEFINE delta == [s \in D |-> sized(state, intents[s], s, working)]
           within == {s \in D : delta[s] # 0 /\ Admitted(state, delta[s], s, p, working)}
           Alike(s) == {r \in within : intents[r].terms = intents[s].terms}
           first == {s \in within : s = Min(Alike(s))}
           part(s) == [r \in Alike(s) |-> delta[r]]
<1>1. netted = [s \in first |-> [terms |-> intents[s].terms, contributions |-> part(s),
                                 quantity |-> Total(part(s))]]
  BY DEF Netted
<1>2. \A s \in D : delta[s] \in Int
  <2> SUFFICES ASSUME NEW s \in D PROVE sized(state, intents[s], s, working) \in Int
    OBVIOUS
  <2> DEFINE n == intents[s].target
             h == state.positions[s] + working[s]
             x == n - h
  <2>1. n \in Int /\ h \in Int /\ x \in Int
    BY DEF IsIntent
  <2>2. Truncate(x) \in Int
    <3> HIDE DEF x
    <3> QED
      BY <2>1, TruncateType
  <2>3. sized(state, intents[s], s, working) \in {n, Truncate(x)}
    BY DEF sized
  <2> HIDE DEF x, n
  <2> QED
    BY <2>1, <2>2, <2>3
<1>3. ASSUME NEW s \in first
      PROVE  /\ s \in D /\ part(s) \in Shares /\ Total(part(s)) \in Int
  <2> DEFINE A == Alike(s)
  <2>1. s \in within /\ s \in A /\ A \subseteq D /\ s \in D
    OBVIOUS
  <2>2. A \in (SUBSET Strategies) \ {{}} /\ part(s) \in [A -> Int]
    <3> HIDE DEF delta
    <3> QED
      BY <1>2, <2>1
  <2>3. IsFiniteSet(A)
    <3>1. IsFiniteSet(Strategies) /\ A \in SUBSET Strategies
      BY <2>2, AllocationAssumption
    <3> HIDE DEF A
    <3> QED
      BY <3>1, FS_Subset
  <2> HIDE DEF A, part
  <2>4. Total(part(s)) \in Int
    BY <2>2, <2>3, TotalType
  <2>5. part(s) \in Shares
    BY <2>2 DEF Shares
  <2> QED
    BY <2>1, <2>4, <2>5
<1>4. ASSUME NEW s \in DOMAIN netted
      PROVE  /\ s \in D /\ netted[s].terms \in AllTerms
             /\ netted[s].contributions \in Shares /\ netted[s].quantity \in Int
  <2>1. s \in first
    BY <1>1
  <2> HIDE DEF first, part
  <2>2. netted[s] = [terms |-> intents[s].terms, contributions |-> part(s),
                     quantity |-> Total(part(s))]
    BY <1>1, <2>1
  <2>3. s \in D /\ part(s) \in Shares /\ Total(part(s)) \in Int /\ intents[s].terms \in AllTerms
    BY <1>3, <2>1 DEF IsIntent
  <2> QED
    BY <2>2, <2>3
<1> QED
  BY <1>4

\* One order, judged: at most one entry more.
LEMMA JudgedIs ==
    ASSUME NEW done \in Doing, NEW order, order.terms \in AllTerms,
           order.contributions \in Shares, order.quantity \in Int, NEW p \in Nat,
           NEW after, after = Judged(done, order, p)
    PROVE  /\ after \in Doing
           /\ Len(after.reducing) + Len(after.adding)
                <= Len(done.reducing) + Len(done.adding) + 1
<1>0. /\ done.held \in Int /\ done.reducing \in Seq(Entries) /\ done.adding \in Seq(Entries)
      /\ done = [held |-> done.held, reducing |-> done.reducing, adding |-> done.adding]
      /\ Len(done.reducing) \in Nat /\ Len(done.adding) \in Nat
  BY DEF Doing
<1>1. CASE order.quantity = 0 \/ ~validate_long_only(order.quantity, done.held)
  <2>1. after = done
    BY <1>1 DEF Judged
  <2> QED
    BY <1>0, <2>1
<1>2. CASE ~(order.quantity = 0 \/ ~validate_long_only(order.quantity, done.held))
  <2> DEFINE q == order.quantity
             now == done.held + q
             c == adds_to_account(done.held, q) * p
             sent == [terms |-> order.terms, quantity |-> q,
                      contributions |-> order.contributions, commitment |-> c]
  <2>1. q \in Int /\ q # 0 /\ now \in Int /\ c \in Nat
    <3>1. q \in Int /\ q # 0
      BY <1>2
    <3>2. adds_to_account(done.held, q) \in Nat
      <4> HIDE DEF q
      <4> QED
        BY <1>0, <3>1, AddsType
    <3> DEFINE x == adds_to_account(done.held, q)
    <3> HIDE DEF x
    <3>3. x * p \in Nat
      BY <3>2 DEF x
    <3> QED
      BY <1>0, <3>1, <3>3 DEF x
  <2>2. sent \in Entries
    <3> HIDE DEF q, c
    <3> QED
      BY <2>1 DEF Entries
  <2>3. after = IF Magnitude(now) < Magnitude(done.held)
                THEN [done EXCEPT !.held = now, !.reducing = Append(@, sent)]
                ELSE [done EXCEPT !.held = now, !.adding = Append(@, sent)]
    BY <1>2 DEF Judged
  <2> HIDE DEF sent, now
  <2>4. /\ Append(done.reducing, sent) \in Seq(Entries)
        /\ Append(done.adding, sent) \in Seq(Entries)
        /\ Len(Append(done.reducing, sent)) = Len(done.reducing) + 1
        /\ Len(Append(done.adding, sent)) = Len(done.adding) + 1
    BY <1>0, <2>2
  <2> DEFINE x == Append(done.reducing, sent)
             y == Append(done.adding, sent)
  <2>5. after = IF Magnitude(now) < Magnitude(done.held)
                THEN [done EXCEPT !.held = now, !.reducing = x]
                ELSE [done EXCEPT !.held = now, !.adding = y]
    BY <2>3
  <2> HIDE DEF x, y
  <2>6. CASE Magnitude(now) < Magnitude(done.held)
    <3>1. after = [done EXCEPT !.held = now, !.reducing = x]
      BY <2>5, <2>6
    <3>2. after \in Doing /\ after.reducing = x /\ after.adding = done.adding
      BY <2>1, <2>4, <3>1 DEF Doing, x
    <3> QED
      BY <1>0, <2>4, <3>2 DEF x
  <2>7. CASE ~(Magnitude(now) < Magnitude(done.held))
    <3>1. after = [done EXCEPT !.held = now, !.adding = y]
      BY <2>5, <2>7
    <3>2. after \in Doing /\ after.adding = y /\ after.reducing = done.reducing
      BY <2>1, <2>4, <3>1 DEF Doing, y
    <3> QED
      BY <1>0, <2>4, <3>2 DEF y
  <2> QED
    BY <2>6, <2>7
<1> QED
  BY <1>1, <1>2

\* The orders judged one strategy after the other.
Judges(f, n, netted, held, p) ==
    f = [k \in 0..n |->
            IF k = 0 THEN [held |-> held, reducing |-> <<>>, adding |-> <<>>]
            ELSE IF k - 1 \in DOMAIN netted
                 THEN Judged(f[k - 1], netted[k - 1], p)
                 ELSE f[k - 1]]

LEMMA JudgesExists ==
    ASSUME NEW m \in Nat, NEW netted, NEW held, NEW p
    PROVE  \E f : Judges(f, m, netted, held, p)
<1> DEFINE F == {n \in Nat : \E f : Judges(f, n, netted, held, p)}
           none == [held |-> held, reducing |-> <<>>, adding |-> <<>>]
<1>1. 0 \in F
  <2> DEFINE one == [i \in 0..0 |-> none]
  <2>1. Judges(one, 0, netted, held, p)
    BY DEF Judges
  <2> HIDE DEF one
  <2> QED
    BY <2>1
<1>2. ASSUME NEW n \in Nat, n < m, n \in F PROVE n + 1 \in F
  <2>1. PICK f : Judges(f, n, netted, held, p)
    BY <1>2
  <2> HIDE DEF none
  <2> DEFINE last == IF n \in DOMAIN netted THEN Judged(f[n], netted[n], p) ELSE f[n]
             g == [i \in 0..(n + 1) |-> IF i = n + 1 THEN last ELSE f[i]]
  <2>2. \A i \in 0..n : f[i] = IF i = 0 THEN none
                               ELSE IF i - 1 \in DOMAIN netted
                                    THEN Judged(f[i - 1], netted[i - 1], p) ELSE f[i - 1]
    BY <2>1 DEF Judges, none
  <2>3. \A i \in 0..(n + 1) :
           g[i] = IF i = 0 THEN none
                  ELSE IF i - 1 \in DOMAIN netted
                       THEN Judged(g[i - 1], netted[i - 1], p) ELSE g[i - 1]
    <3> SUFFICES ASSUME NEW i \in 0..(n + 1)
                 PROVE  g[i] = IF i = 0 THEN none
                               ELSE IF i - 1 \in DOMAIN netted
                                    THEN Judged(g[i - 1], netted[i - 1], p) ELSE g[i - 1]
      OBVIOUS
    <3>1. CASE i = n + 1
      <4>1. g[i] = last /\ g[i - 1] = f[n] /\ i # 0 /\ i - 1 = n
        <5> HIDE DEF last
        <5> QED
          BY <3>1
      <4> HIDE DEF g
      <4> QED
        BY <4>1
    <3>2. CASE i # n + 1
      <4>1. i \in 0..n /\ g[i] = f[i] /\ (i # 0 => g[i - 1] = f[i - 1])
        <5> HIDE DEF last
        <5> QED
          BY <3>2
      <4> HIDE DEF g, last
      <4> QED
        BY <2>2, <4>1
    <3> QED
      BY <3>1, <3>2
  <2>4. g = [i \in 0..(n + 1) |-> g[i]]
    OBVIOUS
  <2> HIDE DEF g, last
  <2>5. Judges(g, n + 1, netted, held, p)
    BY <2>3, <2>4 DEF Judges, none
  <2> QED
    BY <2>5
<1>3. \A n \in 0..m : n \in F
  <2> HIDE DEF F
  <2> QED
    BY <1>1, <1>2, UpTo
<1> QED
  BY <1>3

Amount(done) == Len(done.reducing) + Len(done.adding)

\* No entry before the first order is judged, and one if there is one order.
Few(done, netted, n) ==
    \A r \in Nat : DOMAIN netted \subseteq {r} => Amount(done) <= IF r < n THEN 1 ELSE 0

LEMMA AmountIs ==
    ASSUME NEW done \in Doing
    PROVE  Amount(done) \in Nat
<1> DEFINE x == Len(done.reducing)
           y == Len(done.adding)
<1>1. x \in Nat /\ y \in Nat
  BY DEF Doing
<1>2. Amount(done) = x + y
  BY DEF Amount
<1> HIDE DEF x, y
<1> QED
  BY <1>1, <1>2

LEMMA FewAfter ==
    ASSUME NEW done \in Doing, NEW after \in Doing, NEW netted, NEW n \in Nat,
           Few(done, netted, n),
           IF n \in DOMAIN netted THEN Amount(after) <= Amount(done) + 1 ELSE after = done
    PROVE  Few(after, netted, n + 1)
<1> DEFINE x == Amount(done)
           y == Amount(after)
<1>1. x \in Nat /\ y \in Nat
  BY AmountIs
<1>2. ASSUME NEW r \in Nat, DOMAIN netted \subseteq {r}
      PROVE  y <= IF r < n + 1 THEN 1 ELSE 0
  <2>1. x <= IF r < n THEN 1 ELSE 0
    BY <1>2 DEF Few
  <2>2. n \in DOMAIN netted => r = n
    BY <1>2
  <2>3. IF n \in DOMAIN netted THEN y <= x + 1 ELSE y = x
    OBVIOUS
  <2> HIDE DEF x, y
  <2>4. CASE n \in DOMAIN netted
    <3>1. r = n /\ y <= x + 1
      BY <2>2, <2>3, <2>4
    <3> QED
      BY <1>1, <2>1, <3>1
  <2>5. CASE n \notin DOMAIN netted
    <3>1. y = x
      BY <2>3, <2>5
    <3> QED
      BY <1>1, <2>1, <3>1
  <2> QED
    BY <2>4, <2>5
<1> QED
  BY <1>2 DEF Few

\* At most as many entries as orders.
LEMMA JudgedAll ==
    ASSUME NEW m \in Nat, NEW netted,
           \A s \in DOMAIN netted : /\ netted[s].terms \in AllTerms
                                    /\ netted[s].contributions \in Shares
                                    /\ netted[s].quantity \in Int,
           NEW held \in Int, NEW p \in Nat, NEW f, Judges(f, m, netted, held, p)
    PROVE  f[m] \in Doing /\ Few(f[m], netted, m)
<1> DEFINE F == {n \in 0..m : f[n] \in Doing /\ Few(f[n], netted, n)}
           none == [held |-> held, reducing |-> <<>>, adding |-> <<>>]
<1>1. \A i \in 0..m : f[i] = IF i = 0 THEN none
                             ELSE IF i - 1 \in DOMAIN netted
                                  THEN Judged(f[i - 1], netted[i - 1], p) ELSE f[i - 1]
  BY DEF Judges
<1>2. none \in Doing /\ Few(none, netted, 0)
  <2>1. none \in Doing
    BY DEF Doing
  <2>2. Amount(none) = 0
    BY DEF Amount
  <2> HIDE DEF none
  <2> QED
    BY <2>1, <2>2 DEF Few
<1> HIDE DEF none
<1>3. 0 \in F
  <2>1. f[0] = none
    BY <1>1
  <2> QED
    BY <1>2, <2>1
<1>4. ASSUME NEW n \in Nat, n < m, n \in F PROVE n + 1 \in F
  <2> DEFINE done == f[n]
             k == n + 1
             after == f[k]
  <2>1. done \in Doing /\ Few(done, netted, n) /\ k \in 0..m
    BY <1>4
  <2>2. after = IF n \in DOMAIN netted THEN Judged(done, netted[n], p) ELSE done
    <3>1. k # 0 /\ k - 1 = n
      OBVIOUS
    <3> HIDE DEF k
    <3> QED
      BY <1>1, <2>1, <3>1
  <2> HIDE DEF done, after
  <2>3. after \in Doing
        /\ IF n \in DOMAIN netted THEN Amount(after) <= Amount(done) + 1 ELSE after = done
    <3>1. CASE n \in DOMAIN netted
      <4> DEFINE order == netted[n]
      <4>1. /\ order.terms \in AllTerms /\ order.contributions \in Shares
            /\ order.quantity \in Int
        BY <3>1
      <4>2. after = Judged(done, order, p)
        BY <2>2, <3>1
      <4> HIDE DEF order
      <4>3. /\ after \in Doing
            /\ Len(after.reducing) + Len(after.adding)
                 <= Len(done.reducing) + Len(done.adding) + 1
        BY <2>1, <4>1, <4>2, JudgedIs
      <4> QED
        BY <3>1, <4>3 DEF Amount
    <3>2. CASE n \notin DOMAIN netted
      BY <2>1, <2>2, <3>2
    <3> QED
      BY <3>1, <3>2
  <2>4. Few(after, netted, n + 1)
    BY <2>1, <2>3, FewAfter
  <2> QED
    BY <2>1, <2>3, <2>4 DEF after, k
<1>5. \A n \in 0..m : n \in F
  <2> HIDE DEF F
  <2> QED
    BY <1>3, <1>4, UpTo
<1>6. m \in F
  <2>1. m \in 0..m
    OBVIOUS
  <2> HIDE DEF F
  <2> QED
    BY <1>5, <2>1
<1> QED
  BY <1>6

\* What is sent: entries, and no more than one for one strategy.
LEMMA EmittedIs ==
    ASSUME NEW state, state.positions \in [Strategies -> Int],
           NEW D \in SUBSET Strategies, NEW intents, DOMAIN intents = D,
           \A s \in D : IsIntent(intents[s]),
           NEW working \in [Strategies -> Int], NEW p \in Nat, NEW held \in Int,
           NEW orders, orders = Emitted(state, intents, p, held, working)
    PROVE  /\ orders \in Seq(Entries)
           /\ \A r \in Strategies : D = {r} => Len(orders) <= 1
<1> DEFINE netted == Netted(state, intents, p, working)
           top == Max(Strategies) + 1
           f == CHOOSE judged : Judges(judged, top, netted, held, p)
<1>1. top \in Nat
  <2>1. Strategies \in SUBSET Nat /\ IsFiniteSet(Strategies) /\ Strategies # {}
    BY AllocationAssumption
  <2> DEFINE z == Max(Strategies)
  <2>2. z \in Strategies
    BY <2>1, GreatestNumber
  <2>3. z \in Nat
    BY <2>1, <2>2
  <2> HIDE DEF z
  <2> QED
    BY <2>3 DEF z
<1>2. orders = f[top].reducing \o f[top].adding
  BY DEF Emitted, Sent, Judges
<1>3. Judges(f, top, netted, held, p)
  <2> HIDE DEF top, netted
  <2>1. \E g : Judges(g, top, netted, held, p)
    BY <1>1, JudgesExists
  <2> QED
    BY <2>1
<1> HIDE DEF f, top
<1>4. /\ DOMAIN netted \subseteq D
      /\ \A s \in DOMAIN netted :
            /\ netted[s].terms \in AllTerms
            /\ netted[s].contributions \in Shares
            /\ netted[s].quantity \in Int
  BY NettedIs
<1> HIDE DEF netted
<1>6. f[top] \in Doing /\ Few(f[top], netted, top)
  BY <1>1, <1>3, <1>4, JudgedAll
<1>7. f[top].reducing \in Seq(Entries) /\ f[top].adding \in Seq(Entries)
  BY <1>6 DEF Doing
<1> DEFINE x == f[top].reducing
           y == f[top].adding
<1> HIDE DEF x, y
<1>8. orders \in Seq(Entries) /\ Len(orders) = Len(x) + Len(y)
  <2>1. x \in Seq(Entries) /\ y \in Seq(Entries) /\ orders = x \o y
    BY <1>2, <1>7 DEF x, y
  <2> QED
    BY <2>1
<1>9. ASSUME NEW r \in Strategies, D = {r} PROVE Len(orders) <= 1
  <2>1. r \in Nat /\ DOMAIN netted \subseteq {r}
    BY <1>4, <1>9, AllocationAssumption
  <2>2. Amount(f[top]) <= IF r < top THEN 1 ELSE 0
    BY <1>6, <2>1 DEF Few
  <2>3. Len(orders) = Amount(f[top])
    BY <1>8 DEF Amount, x, y
  <2>4. Len(orders) \in Nat
    BY <1>8
  <2> QED
    BY <2>2, <2>3, <2>4
<1> QED
  BY <1>8, <1>9

-----------------------------------------------------------------------------
(* What allocation makes of a batch.                                        *)

Request == [id : Ids, terms : AllTerms, quantity : Int \ {0}]

IdsOf(requests) == {requests[n].id : n \in DOMAIN requests}

\* Requests waiting to be routed.
Queue(requests) ==
    /\ requests \in Seq(Request)
    /\ \A m, n \in DOMAIN requests : requests[m].id = requests[n].id => m = n

Commitments(orders, n) == [i \in 1..n |-> orders[i].commitment]

LEMMA CommitmentsGrow ==
    ASSUME NEW orders \in Seq(Entries), NEW n \in Nat, n < Len(orders)
    PROVE  /\ Total(Commitments(orders, n)) \in Int
           /\ Total(Commitments(orders, n + 1))
                = Total(Commitments(orders, n)) + orders[n + 1].commitment
<1> DEFINE S == 1..n
           k == n + 1
           T == 1..k
           f == Commitments(orders, n)
           g == Commitments(orders, k)
<1>1. ASSUME NEW i \in 1..Len(orders) PROVE orders[i].commitment \in Int
  <2>1. orders[i] \in Entries
    OBVIOUS
  <2> QED
    BY <2>1 DEF Entries
<1>2. k \in T /\ T \subseteq 1..Len(orders) /\ S \subseteq 1..Len(orders)
  OBVIOUS
<1>3. Larger(T, S, k)
  BY DEF Larger
<1>4. IsFiniteSet(S)
  BY FS_Interval
<1> HIDE DEF S, T, k
<1>5. f \in [S -> Int] /\ g \in [T -> Int] /\ (\A x \in S : g[x] = f[x])
      /\ g[k] = orders[k].commitment
  BY <1>1, <1>2, <1>3 DEF Commitments, S, T, Larger
<1> HIDE DEF f, g
<1>6. Total(f) \in Int
  BY <1>4, <1>5, TotalType
<1>7. Total(g) = Total(f) + g[k]
  BY <1>3, <1>4, <1>5, TotalGrows
<1> QED
  BY <1>5, <1>6, <1>7 DEF f, g, k

\* The reservations, order by order.
Puts(f, m, a, orders, id, p, working) ==
    f = [n \in 0..m |->
            IF n = 0 THEN a
            ELSE Reserved(f[n - 1], orders[n], id + n - 1, p, working)]

LEMMA PutsExists ==
    ASSUME NEW m \in Nat, NEW a, NEW orders, NEW id \in Nat, NEW p, NEW working
    PROVE  \E f : Puts(f, m, a, orders, id, p, working)
<1> DEFINE F == {n \in Nat : \E f : Puts(f, n, a, orders, id, p, working)}
<1>1. 0 \in F
  <2> DEFINE one == [i \in 0..0 |-> a]
  <2>1. Puts(one, 0, a, orders, id, p, working)
    BY DEF Puts
  <2> HIDE DEF one
  <2> QED
    BY <2>1
<1>2. ASSUME NEW n \in Nat, n < m, n \in F PROVE n + 1 \in F
  <2>1. PICK f : Puts(f, n, a, orders, id, p, working)
    BY <1>2
  <2> DEFINE last == Reserved(f[n], orders[n + 1], id + n, p, working)
             g == [i \in 0..(n + 1) |-> IF i = n + 1 THEN last ELSE f[i]]
  <2>2. \A i \in 0..n : f[i] = IF i = 0 THEN a
                               ELSE Reserved(f[i - 1], orders[i], id + i - 1, p, working)
    BY <2>1 DEF Puts
  <2>3. \A i \in 0..(n + 1) :
           g[i] = IF i = 0 THEN a
                  ELSE Reserved(g[i - 1], orders[i], id + i - 1, p, working)
    <3> SUFFICES ASSUME NEW i \in 0..(n + 1)
                 PROVE  g[i] = IF i = 0 THEN a
                               ELSE Reserved(g[i - 1], orders[i], id + i - 1, p, working)
      OBVIOUS
    <3>1. CASE i = n + 1
      <4>1. g[i] = last /\ g[i - 1] = f[n] /\ i # 0
        <5> HIDE DEF last
        <5> QED
          BY <3>1
      <4>2. id + i - 1 = id + n
        BY <3>1
      <4> HIDE DEF g
      <4> QED
        BY <3>1, <4>1, <4>2
    <3>2. CASE i # n + 1
      <4>1. i \in 0..n /\ g[i] = f[i] /\ (i # 0 => g[i - 1] = f[i - 1])
        <5> HIDE DEF last
        <5> QED
          BY <3>2
      <4> HIDE DEF g, last
      <4> QED
        BY <2>2, <4>1
    <3> QED
      BY <3>1, <3>2
  <2>4. g = [i \in 0..(n + 1) |-> g[i]]
    OBVIOUS
  <2> HIDE DEF g, last
  <2>5. Puts(g, n + 1, a, orders, id, p, working)
    BY <2>3, <2>4 DEF Puts
  <2> QED
    BY <2>5
<1>3. \A n \in 0..m : n \in F
  <2> HIDE DEF F
  <2> QED
    BY <1>1, <1>2, UpTo
<1> QED
  BY <1>3

\* A number greater than every live one.
Fresh(id, live) == \A j \in live : j < id

\* The identifiers taken by the first n requests.
Taken(id, n) == id..(id + n - 1)

\* The account b is a with the first n orders reserved for.
Reserves(b, a, live, orders, id, n) ==
    /\ Ledgers(b, live \cup Taken(id, n))
    /\ b.notional = a.notional + Total(Commitments(orders, n))
    /\ b.positions = a.positions

\* Each reservation leaves the ledgers right, and adds what its order commits.
LEMMA PutsLedgers ==
    ASSUME NEW a, NEW live, Ledgers(a, live), NEW orders \in Seq(Entries),
           NEW id \in Nat \ {0}, Fresh(id, live),
           id + Len(orders) <= MaxOrders + 1,
           NEW p \in Nat, NEW working \in [Strategies -> Int],
           NEW m, m = Len(orders), NEW f, Puts(f, m, a, orders, id, p, working)
    PROVE  Reserves(f[m], a, live, orders, id, m)
<1> DEFINE Done(b, n) == Reserves(b, a, live, orders, id, n)
           F == {n \in 0..m : Done(f[n], n)}
<1>1. m \in Nat /\ live \subseteq Ids /\ a.notional \in Nat
  BY AccountIs
<1>2. \A i \in 0..m : f[i] = IF i = 0 THEN a
                             ELSE Reserved(f[i - 1], orders[i], id + i - 1, p, working)
  BY DEF Puts
<1>3. 0 \in F
  <2>1. f[0] = a /\ live \cup Taken(id, 0) = live
    BY <1>1, <1>2 DEF Taken
  <2>2. Total(Commitments(orders, 0)) = 0
    <3>1. DOMAIN Commitments(orders, 0) = {}
      BY DEF Commitments
    <3> QED
      BY <3>1, TotalOfNone
  <2> QED
    <3>1. Done(f[0], 0)
      <4>1. a.notional = a.notional + Total(Commitments(orders, 0))
        BY <1>1, <2>2
      <4>2. Ledgers(f[0], live \cup Taken(id, 0)) /\ f[0] = a
        BY <2>1
      <4> QED
        BY <4>1, <4>2 DEF Reserves
    <3> HIDE DEF Done
    <3> QED
      BY <1>1, <3>1
<1>4. ASSUME NEW n \in Nat, n < m, n \in F PROVE n + 1 \in F
  <2> DEFINE k == n + 1
             b == f[n]
             c == f[k]
             j == id + n
             order == orders[k]
             now == live \cup Taken(id, n)
  <2>1. Done(b, n) /\ k \in 1..m
    BY <1>4
  <2>2. order \in Entries
    BY <2>1
  <2>3. c = Reserved(b, order, j, p, working)
    <3>1. k \in 0..m /\ k # 0 /\ k - 1 = n /\ id + k - 1 = j
      BY <2>1
    <3> HIDE DEF k, j
    <3> QED
      BY <1>2, <3>1
  <2>4. j \in Ids /\ j \notin now /\ now \cup {j} = live \cup Taken(id, k)
    <3>1. MaxOrders \in Nat
      BY PipelineAssumption
    <3>2. j \in Ids
      BY <1>4, <3>1 DEF Ids
    <3>3. j \notin live
      BY <1>1 DEF Fresh, Ids
    <3>4. j \notin Taken(id, n)
      BY DEF Taken
    <3>5. Taken(id, n) \cup {j} = Taken(id, k)
      BY DEF Taken
    <3> QED
      BY <3>2, <3>3, <3>4, <3>5
  <2>5. order.commitment \in Nat /\ order.contributions \in Shares
    BY <2>2 DEF Entries
  <2>6. Ledgers(b, now)
    BY <2>1 DEF Reserves
  <2>7. /\ Total(Commitments(orders, n)) \in Int
        /\ Total(Commitments(orders, n + 1))
             = Total(Commitments(orders, n)) + orders[n + 1].commitment
    BY <1>4, CommitmentsGrow
  <2> DEFINE x == Total(Commitments(orders, n))
             y == Total(Commitments(orders, k))
  <2>8. x \in Int /\ y = x + order.commitment /\ b.notional = a.notional + x
        /\ b.positions = a.positions
    BY <2>1, <2>7 DEF Reserves
  <2> HIDE DEF b, c, j, order, now, x, y
  <2>9. /\ Ledgers(c, now \cup {j})
        /\ c.notional = b.notional + order.commitment
        /\ c.positions = b.positions
    <3>1. Grown(c, b, now, j, order.commitment)
      BY <2>3, <2>4, <2>5, <2>6, ReservedLedgers
    <3> QED
      BY <3>1 DEF Grown
  <2>10. Ledgers(c, live \cup Taken(id, k)) /\ c.positions = a.positions
    BY <2>4, <2>8, <2>9
  <2>11. c.notional = a.notional + y
    BY <1>1, <2>5, <2>8, <2>9
  <2>12. Done(c, k) /\ k \in 0..m
    BY <2>1, <2>10, <2>11 DEF y, Reserves
  <2> HIDE DEF Done
  <2> QED
    BY <2>12 DEF c
<1>5. \A n \in 0..m : n \in F
  <2> HIDE DEF F
  <2> QED
    BY <1>1, <1>3, <1>4, UpTo
<1>6. m \in F
  <2>1. m \in 0..m
    BY <1>1
  <2> HIDE DEF F
  <2> QED
    BY <1>5, <2>1
<1> QED
  BY <1>6

\* What allocation returns: requests, and an account that reserves for them.
Makes(made, a, live, id) ==
    /\ Queue(made.requests)
    /\ \A i \in IdsOf(made.requests) : id <= i
    /\ Ledgers(made.state, live \cup IdsOf(made.requests))
    /\ made.state.notional <= Budget
    /\ made.state.positions = a.positions

\* A batch goes into the ledgers whole and within the budget, or not at all.
LEMMA AllocateIs ==
    ASSUME NEW a, NEW live, Ledgers(a, live), a.notional <= Budget,
           NEW id \in Nat \ {0}, Fresh(id, live),
           NEW D \in SUBSET Strategies, NEW intents, DOMAIN intents = D,
           \A s \in D : IsIntent(intents[s]),
           NEW p \in Nat, NEW held \in Int, NEW working \in [Strategies -> Int],
           NEW made, made = allocate(a, intents, p, held, working, id),
           id + Len(made.requests) <= MaxOrders + 1
    PROVE  Makes(made, a, live, id)
<1> DEFINE orders == Emitted(a, intents, p, held, working)
           m == Len(orders)
           f == CHOOSE put : Puts(put, m, a, orders, id, p, working)
           asked == [n \in DOMAIN orders |->
                        [id |-> id + n - 1, terms |-> orders[n].terms,
                         quantity |-> orders[n].quantity]]
<1>1. a.positions \in [Strategies -> Int] /\ a.notional \in Nat
  BY AccountIs
<1>2. orders \in Seq(Entries)
  <2>1. /\ orders \in Seq(Entries)
        /\ \A r \in Strategies : D = {r} => Len(orders) <= 1
    BY <1>1, EmittedIs
  <2> QED
    BY <2>1
<1>3. made = IF ~WithinBudget(a, orders)
             THEN [state |-> a, requests |-> <<>>]
             ELSE [state |-> f[m], requests |-> asked]
  BY DEF allocate, Budgeted, Puts
<1>4. Puts(f, m, a, orders, id, p, working)
  <2> HIDE DEF orders
  <2>1. m \in Nat /\ id \in Nat
    BY <1>2
  <2> HIDE DEF m
  <2>2. \E g : Puts(g, m, a, orders, id, p, working)
    BY <2>1, PutsExists
  <2> QED
    BY <2>2
<1> HIDE DEF orders, f
<1>5. CASE ~WithinBudget(a, orders)
  <2>1. made.state = a /\ made.requests = <<>>
    BY <1>3, <1>5
  <2>2. IdsOf(made.requests) = {} /\ Queue(made.requests)
    BY <2>1 DEF IdsOf, Queue
  <2>3. live \cup IdsOf(made.requests) = live
    BY <2>2
  <2> QED
    BY <2>1, <2>2, <2>3 DEF Makes
<1>6. CASE WithinBudget(a, orders)
  <2>1. made.state = f[m] /\ made.requests = asked
    BY <1>3, <1>6
  <2>2. DOMAIN asked = 1..m /\ m \in Nat /\ DOMAIN orders = 1..m
    BY <1>2
  <2>3. ASSUME NEW n \in 1..m
        PROVE  orders[n].terms \in AllTerms /\ orders[n].quantity \in Int \ {0}
    <3>1. orders[n] \in Entries
      BY <1>2, <2>3
    <3> QED
      BY <3>1 DEF Entries
  <2>4. \A n \in 1..m : asked[n] = [id |-> id + n - 1, terms |-> orders[n].terms,
                                    quantity |-> orders[n].quantity]
    BY <2>2
  <2>5. asked = [n \in 1..m |-> asked[n]]
    BY <2>2
  <2> HIDE DEF asked
  <2>6. Len(made.requests) = m
    BY <2>1, <2>2, <2>5
  <2>7. id + m <= MaxOrders + 1 /\ MaxOrders \in Nat
    BY <2>6, PipelineAssumption
  <2>8. ASSUME NEW n \in 1..m PROVE asked[n] \in Request /\ asked[n].id = id + n - 1
    <3> DEFINE i == id + n - 1
               o == orders[n]
    <3>1. i \in Ids
      BY <2>2, <2>7 DEF Ids
    <3> HIDE DEF i
    <3>2. o.terms \in AllTerms /\ o.quantity \in Int \ {0}
      BY <2>3
    <3>3. asked[n] = [id |-> i, terms |-> o.terms, quantity |-> o.quantity]
      BY <2>4 DEF i
    <3> HIDE DEF o
    <3>4. asked[n] \in Request /\ asked[n].id = i
      BY <3>1, <3>2, <3>3 DEF Request
    <3> QED
      BY <3>4 DEF i
  <2>9. Queue(asked)
    <3>1. asked \in Seq(Request)
      BY <2>2, <2>5, <2>8
    <3>2. \A j, n \in DOMAIN asked : asked[j].id = asked[n].id => j = n
      <4> SUFFICES ASSUME NEW j \in 1..m, NEW n \in 1..m, asked[j].id = asked[n].id
                   PROVE  j = n
        BY <2>2
      <4>1. id + j - 1 = id + n - 1
        BY <2>8
      <4> QED
        BY <2>2, <4>1
    <3> QED
      BY <3>1, <3>2 DEF Queue
  <2>10. IdsOf(asked) = Taken(id, m)
    <3>1. \A n \in 1..m : asked[n].id = id + n - 1 /\ id + n - 1 \in id..(id + m - 1)
      BY <2>2, <2>8
    <3>2. \A i \in id..(id + m - 1) : (i - id) + 1 \in 1..m /\ id + ((i - id) + 1) - 1 = i
      BY <2>2
    <3>3. ASSUME NEW i, i \in IdsOf(asked) PROVE i \in Taken(id, m)
      BY <2>2, <3>1, <3>3 DEF IdsOf, Taken
    <3>4. ASSUME NEW i, i \in Taken(id, m) PROVE i \in IdsOf(asked)
      <4> DEFINE n == (i - id) + 1
      <4>1. i \in id..(id + m - 1)
        BY <3>4 DEF Taken
      <4>2. n \in 1..m /\ id + n - 1 = i
        BY <3>2, <4>1
      <4> HIDE DEF n
      <4>3. asked[n].id = i
        BY <3>1, <4>2
      <4> QED
        BY <2>2, <4>2, <4>3 DEF IdsOf
    <3> QED
      BY <3>3, <3>4
  <2>11. Reserves(f[m], a, live, orders, id, m)
    <3>1. id + Len(orders) <= MaxOrders + 1 /\ m = Len(orders)
      BY <2>7
    <3> HIDE DEF m
    <3> QED
      BY <1>2, <1>4, <3>1, PutsLedgers
  <2>12. f[m].notional <= Budget
    <3>1. Commitments(orders, m) = [i \in DOMAIN orders |-> orders[i].commitment]
      BY <2>2 DEF Commitments
    <3> QED
      BY <1>6, <2>11, <3>1 DEF WithinBudget, Reserves
  <2>13. \A i \in IdsOf(asked) : id <= i
    BY <2>2, <2>10 DEF Taken
  <2> QED
    BY <2>1, <2>9, <2>10, <2>11, <2>12, <2>13 DEF Reserves, Makes
<1> QED
  BY <1>5, <1>6

\* One strategy's batch becomes one request at most.
LEMMA AllocateOne ==
    ASSUME NEW a, NEW live, Ledgers(a, live),
           NEW r \in Strategies, NEW intents, DOMAIN intents = {r}, IsIntent(intents[r]),
           NEW p \in Nat, NEW held \in Int, NEW working \in [Strategies -> Int], NEW id,
           NEW made, made = allocate(a, intents, p, held, working, id)
    PROVE  Len(made.requests) \in Nat /\ Len(made.requests) <= 1
<1> DEFINE orders == Emitted(a, intents, p, held, working)
           D == {r}
<1>1. a.positions \in [Strategies -> Int]
  BY AccountIs
<1>2. D \in SUBSET Strategies /\ DOMAIN intents = D /\ \A s \in D : IsIntent(intents[s])
  OBVIOUS
<1>3. orders \in Seq(Entries) /\ Len(orders) <= 1
  <2> HIDE DEF D
  <2>1. /\ orders \in Seq(Entries)
        /\ \A s \in Strategies : D = {s} => Len(orders) <= 1
    BY <1>1, <1>2, EmittedIs
  <2> QED
    BY <2>1 DEF D
<1>4. \/ made.requests = <<>>
      \/ /\ DOMAIN made.requests = DOMAIN orders
         /\ made.requests = [n \in DOMAIN orders |-> made.requests[n]]
  BY DEF allocate, Budgeted
<1> HIDE DEF orders
<1> QED
  BY <1>3, <1>4

-----------------------------------------------------------------------------
(* A batch in the book, and the queue of its requests.                      *)

\* The book t is s with the requests reserved for.
Allocated(t, s, requests) ==
    /\ Queue(requests)
    /\ Good(t, IdsOf(requests))
    /\ t.orders = s.orders
    /\ \A i \in IdsOf(requests) : i \notin DOMAIN s.orders

LEMMA BookAllocated ==
    ASSUME NEW s, Good(s, {}), NEW D \in SUBSET Strategies, NEW intents,
           DOMAIN intents = D, \A r \in D : IsIntent(intents[r]), NEW p \in Nat,
           NEW made, made = allocate(s.allocation, intents, p, committed_position(s),
                                     working_shares(s), FreshId(s)),
           FreshId(s) + Len(made.requests) <= MaxOrders + 1,
           NEW t, t = [s EXCEPT !.allocation = made.state]
    PROVE  Allocated(t, s, made.requests)
<1> DEFINE id == FreshId(s)
           a == s.allocation
           held == committed_position(s)
           working == working_shares(s)
           new == IdsOf(made.requests)
           live == Open(s.orders) \cup {}
<1>1. /\ s = [orders |-> s.orders, position |-> s.position, allocation |-> s.allocation]
      /\ OrdersGood(s.orders) /\ Ledgers(a, live) /\ a.notional <= Budget
      /\ s.position \in Int /\ Total(a.positions) = s.position
  BY DEF Good
<1>2. id \in Nat \ {0} /\ \A i \in DOMAIN s.orders : i < id
  BY <1>1, FreshIdIs
<1>3. Fresh(id, live)
  BY <1>2 DEF Fresh, Open
<1>4. held \in Int /\ working \in [Strategies -> Int]
  BY CommittedType
<1>5. made = allocate(a, intents, p, held, working, id)
      /\ id + Len(made.requests) <= MaxOrders + 1
  OBVIOUS
<1> HIDE DEF id, a, held, working, live
<1>6. /\ Queue(made.requests)
      /\ \A i \in IdsOf(made.requests) : id <= i
      /\ Ledgers(made.state, live \cup IdsOf(made.requests))
      /\ made.state.notional <= Budget
      /\ made.state.positions = a.positions
  <2>1. Makes(made, a, live, id)
    BY <1>1, <1>2, <1>3, <1>4, <1>5, AllocateIs
  <2> QED
    BY <2>1 DEF Makes
<1>7. new \subseteq Ids
  <2> SUFFICES ASSUME NEW n \in DOMAIN made.requests PROVE made.requests[n].id \in Ids
    BY DEF IdsOf
  <2>1. made.requests[n] \in Request
    BY <1>6 DEF Queue
  <2> QED
    BY <2>1 DEF Request
<1>8. \A i \in new : i \notin DOMAIN s.orders
  <2> SUFFICES ASSUME NEW i \in new, i \in DOMAIN s.orders PROVE FALSE
    OBVIOUS
  <2>1. id <= i /\ i < id
    BY <1>2, <1>6
  <2>2. i \in Nat
    BY <1>7, IdsAre
  <2> QED
    BY <1>2, <2>1, <2>2
<1>9. new \subseteq Ids \ DOMAIN s.orders
  BY <1>7, <1>8
<1>10. Ledgers(made.state, Open(s.orders) \cup new)
  BY <1>6 DEF live
<1>11. t = [orders |-> s.orders, position |-> s.position, allocation |-> made.state]
  BY <1>1
<1>12. Total(made.state.positions) = s.position
  BY <1>1, <1>6
<1> HIDE DEF new
<1>13. Good(t, new)
  BY <1>1, <1>6, <1>9, <1>10, <1>11, <1>12, GoodIntro
<1> QED
  BY <1>6, <1>8, <1>11, <1>13 DEF new, Allocated

LEMMA QueueIs ==
    ASSUME NEW q, Queue(q), q # <<>>
    PROVE  /\ Head(q).id \in IdsOf(q) /\ Head(q).terms \in AllTerms
           /\ Head(q).quantity \in Int \ {0}
           /\ Head(q) = q[1]
           /\ Len(q) = 1 => IdsOf(q) = {Head(q).id}
           /\ Len(q) # 1 => Queue(Tail(q)) /\ Tail(q) # <<>>
                            /\ IdsOf(Tail(q)) = IdsOf(q) \ {Head(q).id}
<1> DEFINE m == Len(q)
<1>1. q \in Seq(Request) /\ m \in Nat /\ m # 0 /\ DOMAIN q = 1..m /\ Head(q) = q[1]
  BY DEF Queue
<1>2. \A i \in 1..m : q[i] \in Request
  BY <1>1
<1>3. q[1] \in Request
  BY <1>1, <1>2
<1>4. Head(q).id \in IdsOf(q) /\ Head(q).terms \in AllTerms
      /\ Head(q).quantity \in Int \ {0}
  BY <1>1, <1>3 DEF IdsOf, Request
<1>5. ASSUME m = 1 PROVE IdsOf(q) = {Head(q).id}
  BY <1>1, <1>5 DEF IdsOf
<1>6. ASSUME m # 1
      PROVE  Queue(Tail(q)) /\ Tail(q) # <<>>
             /\ IdsOf(Tail(q)) = IdsOf(q) \ {Head(q).id}
  <2> DEFINE u == Tail(q)
  <2>1. u \in Seq(Request) /\ Len(u) = m - 1 /\ DOMAIN u = 1..(m - 1)
        /\ \A i \in 1..(m - 1) : u[i] = q[i + 1]
    BY <1>1
  <2>2. u # <<>>
    <3> HIDE DEF m, u
    <3>1. Len(u) # 0
      BY <1>1, <1>6, <2>1
    <3> QED
      BY <3>1
  <2> HIDE DEF u
  <2>3. \A i, j \in 1..m : q[i].id = q[j].id => i = j
    BY <1>1 DEF Queue
  <2>4. \A i, j \in DOMAIN u : u[i].id = u[j].id => i = j
    <3> SUFFICES ASSUME NEW i \in 1..(m - 1), NEW j \in 1..(m - 1), u[i].id = u[j].id
                 PROVE  i = j
      BY <2>1
    <3>1. i + 1 \in 1..m /\ j + 1 \in 1..m /\ q[i + 1].id = q[j + 1].id
      BY <1>1, <2>1
    <3>2. i + 1 = j + 1
      BY <2>3, <3>1
    <3> QED
      BY <1>1, <3>2
  <2>5. ASSUME NEW x, x \in IdsOf(u) PROVE x \in IdsOf(q) \ {q[1].id}
    <3>1. PICK i \in 1..(m - 1) : x = u[i].id
      BY <2>1, <2>5 DEF IdsOf
    <3>2. i + 1 \in 1..m /\ i + 1 # 1 /\ 1 \in 1..m /\ x = q[i + 1].id
      BY <1>1, <2>1, <3>1
    <3>3. x # q[1].id
      BY <2>3, <3>2
    <3> QED
      BY <1>1, <3>2, <3>3 DEF IdsOf
  <2>6. ASSUME NEW x, x \in IdsOf(q) \ {q[1].id} PROVE x \in IdsOf(u)
    <3>1. PICK i \in 1..m : x = q[i].id
      BY <1>1, <2>6 DEF IdsOf
    <3>2. i # 1
      BY <2>6, <3>1
    <3> DEFINE j == i - 1
    <3>3. j \in 1..(m - 1) /\ j + 1 = i
      BY <1>1, <3>2
    <3> HIDE DEF j
    <3>4. u[j].id = x
      BY <2>1, <3>1, <3>3
    <3> QED
      BY <2>1, <3>3, <3>4 DEF IdsOf
  <2>7. IdsOf(u) = IdsOf(q) \ {q[1].id}
    BY <2>5, <2>6
  <2> QED
    BY <1>1, <2>1, <2>2, <2>4, <2>7 DEF Queue, u
<1> QED
  BY <1>1, <1>4, <1>5, <1>6

-----------------------------------------------------------------------------
(* An amend.                                                                *)

\* An order of t stands in for the order i of s.
Replaced(t, s, i) ==
    /\ \E id : id \notin DOMAIN s.orders /\ DOMAIN t.orders = DOMAIN s.orders \cup {id}
    /\ Working(s) \ Working(t) = {i}

\* The book t is s with the order id in place of i.
Stands(t, s, i, id) ==
    /\ i \in Working(s) /\ id \notin DOMAIN s.orders
    /\ DOMAIN t.orders = DOMAIN s.orders \cup {id}
    /\ Working(t) = (Working(s) \ {i}) \cup {id}

LEMMA ReplacedIs ==
    ASSUME NEW u, NEW s, NEW i, NEW id, Stands(u, s, i, id)
    PROVE  /\ Replaced(u, s, i)
           /\ \A t : Turned(t, u, id) => Replaced(t, s, i)
<1>1. i \in Working(s) /\ id \notin Working(s) /\ i # id
  BY DEF Stands, Working
<1>2. DOMAIN u.orders = DOMAIN s.orders \cup {id} /\ id \notin DOMAIN s.orders
      /\ Working(u) = (Working(s) \ {i}) \cup {id}
  BY DEF Stands
<1>3. ASSUME NEW t, Turned(t, u, id) PROVE Replaced(t, s, i)
  <2>1. DOMAIN t.orders = DOMAIN s.orders \cup {id}
    BY <1>2, <1>3 DEF Turned
  <2>2. Working(t) \subseteq Working(u) /\ Working(u) \ {id} \subseteq Working(t)
    BY <1>3 DEF Turned
  <2>3. Working(s) \ Working(t) = {i}
    BY <1>1, <1>2, <2>2
  <2> QED
    BY <1>2, <2>1, <2>3 DEF Replaced
<1>4. Turned(u, u, id)
  BY DEF Turned
<1> QED
  BY <1>3, <1>4

\* Whatever comes of its turn, the replacement stands.
StandsThroughTurn(u, s, i, id) ==
    \A turn \in Turns(u.orders[id]) :
        Good(work_order(u, id, turn), {}) /\ Replaced(work_order(u, id, turn), s, i)

LEMMA ReplacedTurn ==
    ASSUME NEW u, Good(u, {}), NEW s, NEW i, NEW id, Stands(u, s, i, id)
    PROVE  StandsThroughTurn(u, s, i, id)
<1> SUFFICES ASSUME NEW turn \in Turns(u.orders[id])
             PROVE  Good(work_order(u, id, turn), {})
                    /\ Replaced(work_order(u, id, turn), s, i)
  BY DEF StandsThroughTurn
<1> DEFINE t == work_order(u, id, turn)
<1>1. id \in Working(u) /\ t = work_order(u, id, turn)
  BY DEF Stands
<1> HIDE DEF t
<1>2. Good(t, {}) /\ Turned(t, u, id)
  BY <1>1, WorkedGood
<1>3. Replaced(t, s, i)
  BY <1>2, ReplacedIs
<1> QED
  BY <1>2, <1>3 DEF t

LEMMA ReplacedGood ==
    ASSUME NEW s, Good(s, {}), NEW i \in Working(s), NEW strategy \in Strategies,
           NEW trade \in Int, FreshId(s) <= MaxOrders, NEW p \in Nat,
           NEW gone, gone = End(s, i, "cancelled"),
           NEW made, made = allocate(gone.allocation,
                                     forced_target(gone, strategy, trade, s.orders[i].terms),
                                     p, committed_position(gone), working_shares(gone),
                                     FreshId(gone)),
           made.requests # <<>>,
           NEW sent, sent = submit_and_accept([gone EXCEPT !.allocation = made.state],
                                              made.requests[1]),
           NEW id, id = made.requests[1].id
    PROVE  /\ Good(sent, {}) /\ Replaced(sent, s, i) /\ id \in Working(sent)
           /\ StandsThroughTurn(sent, s, i, id)
<1> DEFINE intents == forced_target(gone, strategy, trade, s.orders[i].terms)
           D == {strategy}
           trial == [gone EXCEPT !.allocation = made.state]
           q == made.requests
<1>1. /\ Good(gone, {})
      /\ DOMAIN gone.orders = DOMAIN s.orders
      /\ Working(gone) = Working(s) \ {i}
  <2>1. "cancelled" \in {"cancelled", "expired", "rejected"}
        /\ ("cancelled" = "rejected" => s.orders[i].filled = 0)
    OBVIOUS
  <2>2. /\ Good(gone, {})
        /\ DOMAIN gone.orders = DOMAIN s.orders
        /\ Working(gone) = Working(s) \ {i}
        /\ gone.position = s.position
        /\ gone.allocation.notional <= s.allocation.notional
        /\ gone.allocation.contributions = Without(s.allocation.contributions, i)
        /\ \A j \in DOMAIN s.orders \ {i} : gone.orders[j] = s.orders[j]
    BY <2>1, EndGood
  <2> QED
    BY <2>2
<1>2. i \in DOMAIN s.orders /\ s.orders[i].terms \in AllTerms
  <2>1. i \in DOMAIN s.orders /\ OrdersGood(s.orders)
    BY DEF Good, Working
  <2>2. s.orders[i] \in Order
    BY <2>1 DEF OrdersGood, WellFormed
  <2> QED
    BY <2>1, <2>2 DEF Order
<1>3. committed_position(gone) \in Int /\ working_shares(gone) \in [Strategies -> Int]
  BY <1>1, CommittedType
<1>4. Ledgers(gone.allocation, Open(gone.orders) \cup {})
  BY <1>1 DEF Good
<1>5. DOMAIN intents = D /\ \A r \in D : IsIntent(intents[r])
  <2>1. gone.allocation.positions \in [Strategies -> Int]
    BY <1>4, AccountIs
  <2>2. intents[strategy] = [kind |-> "TARGET", terms |-> s.orders[i].terms,
           target |-> gone.allocation.positions[strategy]
                        + working_shares(gone)[strategy] + trade]
    BY DEF forced_target
  <2>3. DOMAIN intents = D
    BY DEF forced_target
  <2> HIDE DEF intents
  <2> DEFINE x == gone.allocation.positions[strategy] + working_shares(gone)[strategy] + trade
  <2>4. x \in Int
    <3> DEFINE y == gone.allocation.positions[strategy]
               z == working_shares(gone)[strategy]
    <3>1. y \in Int /\ z \in Int
      BY <1>3, <2>1
    <3> HIDE DEF y, z
    <3> QED
      BY <3>1 DEF y, z
  <2>5. intents[strategy] = [kind |-> "TARGET", terms |-> s.orders[i].terms, target |-> x]
    BY <2>2
  <2> HIDE DEF x
  <2>6. IsIntent(intents[strategy])
    BY <1>2, <2>4, <2>5 DEF IsIntent
  <2> QED
    BY <2>3, <2>6
<1> HIDE DEF intents, trial, q
<1>6. Len(q) \in Nat /\ Len(q) <= 1
  <2>1. made = allocate(gone.allocation, intents, p, committed_position(gone),
                        working_shares(gone), FreshId(gone))
    BY DEF intents
  <2>2. DOMAIN intents = {strategy} /\ IsIntent(intents[strategy])
    BY <1>5
  <2>3. Len(made.requests) \in Nat /\ Len(made.requests) <= 1
    BY <1>3, <1>4, <2>1, <2>2, AllocateOne
  <2> QED
    BY <2>3 DEF q
<1>7. FreshId(gone) = FreshId(s) /\ FreshId(gone) \in Nat /\ MaxOrders \in Nat
  <2>1. FreshId(gone) = FreshId(s)
    BY <1>1 DEF FreshId
  <2>2. OrdersGood(gone.orders)
    BY <1>1 DEF Good
  <2>3. FreshId(gone) \in Nat \ {0}
    BY <2>2, FreshIdIs
  <2> QED
    BY <2>1, <2>3, PipelineAssumption
<1>8. FreshId(gone) + Len(q) <= MaxOrders + 1
  <2> DEFINE x == FreshId(gone)
             y == Len(q)
  <2>1. x <= MaxOrders /\ x \in Nat /\ MaxOrders \in Nat /\ y \in Nat /\ y <= 1
    BY <1>6, <1>7
  <2> HIDE DEF x, y
  <2>2. x + y <= MaxOrders + 1
    BY <2>1
  <2> QED
    BY <2>2 DEF x, y
<1>9. /\ Queue(q) /\ Good(trial, IdsOf(q)) /\ trial.orders = gone.orders
      /\ \A j \in IdsOf(q) : j \notin DOMAIN gone.orders
  <2>1. made = allocate(gone.allocation, intents, p, committed_position(gone),
                        working_shares(gone), FreshId(gone))
    BY DEF intents
  <2>2. trial = [gone EXCEPT !.allocation = made.state]
    BY DEF trial
  <2>3. D \in SUBSET Strategies /\ FreshId(gone) + Len(made.requests) <= MaxOrders + 1
    BY <1>8 DEF q
  <2> HIDE DEF D
  <2>4. Allocated(trial, gone, made.requests)
    BY <1>1, <1>5, <2>1, <2>2, <2>3, BookAllocated
  <2> QED
    BY <2>4 DEF q, Allocated
<1>10. q # <<>>
  BY DEF q
<1> DEFINE request == Head(q)
<1>11. /\ Head(q).id \in IdsOf(q) /\ Head(q).terms \in AllTerms
       /\ Head(q).quantity \in Int \ {0}
       /\ Head(q) = q[1]
       /\ Len(q) = 1 => IdsOf(q) = {Head(q).id}
       /\ Len(q) # 1 => Queue(Tail(q)) /\ Tail(q) # <<>>
                        /\ IdsOf(Tail(q)) = IdsOf(q) \ {Head(q).id}
  BY <1>9, <1>10, QueueIs
<1>12. Len(q) = 1
  <2> DEFINE n == Len(q)
  <2>1. n \in Nat /\ n <= 1 /\ n # 0
    BY <1>6, <1>9, <1>10 DEF Queue
  <2> HIDE DEF n
  <2>2. n = 1
    BY <2>1
  <2> QED
    BY <2>2 DEF n
<1>13. /\ request.id = id /\ IdsOf(q) = {id} /\ sent = submit_and_accept(trial, request)
       /\ request.id \in IdsOf(q) /\ request.terms \in AllTerms
       /\ request.quantity \in Int \ {0}
  BY <1>11, <1>12 DEF q, trial
<1> DEFINE new == IdsOf(q)
<1>14. Good(trial, new) /\ request.id \in new
  BY <1>9, <1>13
<1> HIDE DEF request, new
<1>15. Good(sent, new \ {request.id}) /\ Opened(sent, trial, request.id)
  BY <1>13, <1>14, SubmittedGood
<1>16. Working(trial) = Working(gone)
  BY <1>9 DEF Working
<1>17. /\ Good(sent, {}) /\ DOMAIN sent.orders = DOMAIN s.orders \cup {id}
       /\ Working(sent) = (Working(s) \ {i}) \cup {id} /\ id \notin DOMAIN s.orders
  <2>1. new \ {request.id} = {}
    BY <1>13 DEF new
  <2>2. id \notin DOMAIN s.orders
    BY <1>1, <1>9, <1>13
  <2> QED
    BY <1>1, <1>9, <1>13, <1>15, <1>16, <2>1, <2>2 DEF Opened
<1> HIDE DEF D
<1>18. Stands(sent, s, i, id)
  BY <1>2, <1>17 DEF Stands
<1>19. Replaced(sent, s, i) /\ id \in Working(sent)
  <2>1. Replaced(sent, s, i)
    BY <1>18, ReplacedIs
  <2> QED
    BY <1>17, <2>1
<1>20. StandsThroughTurn(sent, s, i, id)
  BY <1>17, <1>18, ReplacedTurn
<1> QED
  BY <1>17, <1>19, <1>20

-----------------------------------------------------------------------------
(* The inductive invariant: the book is good for the requests that wait,    *)
(* what is due works, and the queue is well formed.                         *)

PipelineIInv ==
    /\ Good(st, Pending)
    /\ price \in Prices /\ phase \in Phases /\ rest \in BOOLEAN
    /\ phase = "work" => due \subseteq Working(st) /\ due # {}
    /\ phase = "route" => Queue(todo) /\ todo # <<>>

LEMMA PendingIs ==
    /\ phase = "route" => Pending = IdsOf(todo)
    /\ phase # "route" => Pending = {}
    /\ phase' = "route" => Pending' = IdsOf(todo')
    /\ phase' # "route" => Pending' = {}
  BY DEF Pending, IdsOf

\* The book before the first step.
LEMMA EmptyBookGood ==
    ASSUME NEW s, s = [orders |-> <<>>, position |-> 0, allocation |-> AllocationInit]
    PROVE  Good(s, {})
<1> DEFINE a == AllocationInit
           k == [r \in Strategies |-> NoCapital]
           z == [r \in Strategies |-> 0]
           none == [x \in {} |-> x]
<1>1. none = <<>> /\ none \in [{} -> Nat] /\ none \in [{} -> Shares] /\ DOMAIN none = {}
  OBVIOUS
<1>2. none \in Held /\ Total(none) = 0
  <2>1. {} \in SUBSET Ids
    OBVIOUS
  <2> HIDE DEF none
  <2> QED
    BY <1>1, <2>1, HeldIntro, TotalOfNone
<1>3. z \in [Strategies -> Int] /\ Total(z) = 0
  <2>1. z \in [Strategies -> Int] /\ \A x \in Strategies : z[x] = 0
    OBVIOUS
  <2>2. \A x \in DOMAIN z : z[x] = 0
    OBVIOUS
  <2> HIDE DEF none, z
  <2>3. /\ Units(Gains(z)) = Units(Gains(none))
        /\ Units(Losses(z)) = Units(Losses(none))
    BY <1>1, <2>2 DEF Units, Gains, Losses
  <2>4. Total(z) = Total(none)
    BY <2>3, TotalIs DEF SumOf
  <2> QED
    BY <1>2, <2>1, <2>4
<1>4. ASSUME NEW r \in Strategies
      PROVE  Holds(k[r], AskedBy(none, r)) /\ Costs(k[r].deployed, z[r])
  <2>1. k[r] = [deployed |-> 0, reserved |-> none, reserved_total |-> Total(none)]
    BY <1>1, <1>2 DEF NoCapital
  <2>2. DOMAIN none \subseteq AskedBy(none, r)
    BY <1>1
  <2>3. Holds(k[r], AskedBy(none, r))
    <3>1. 0 \in Int
      OBVIOUS
    <3> HIDE DEF none, k
    <3> QED
      BY <1>2, <2>1, <2>2, <3>1, CapitalIs
  <2>4. Costs(k[r].deployed, z[r])
    <3>1. k[r].deployed = 0 /\ z[r] = 0
      BY DEF NoCapital
    <3>2. Magnitude(0) = 0
      BY MagnitudeType
    <3>3. Min(Prices) \in Nat /\ Max(Prices) \in Nat
      BY PricesAre
    <3> DEFINE lo == Min(Prices)
               hi == Max(Prices)
    <3> HIDE DEF lo, hi, k, z
    <3>4. 0 * lo = 0 /\ 0 * hi = 0
      BY <3>3 DEF lo, hi
    <3> QED
      BY <3>1, <3>2, <3>4 DEF Costs, lo, hi
  <2> QED
    BY <2>3, <2>4
<1>5. a = [notional |-> Total(none), reservations |-> none, contributions |-> none,
           positions |-> z, capital |-> k]
  BY <1>1, <1>2 DEF AllocationInit
<1>6. Ledgers(a, {})
  <2>1. {} \in SUBSET Ids /\ DOMAIN none \subseteq {} /\ k = [r \in Strategies |-> k[r]]
    BY <1>1
  <2> HIDE DEF a, k, z, none
  <2> QED
    BY <1>1, <1>2, <1>3, <1>4, <1>5, <2>1, AccountIntro
<1>7. a.notional <= Budget /\ Total(a.positions) = 0
  <2>1. a.notional = 0 /\ a.positions = z
    BY DEF AllocationInit
  <2>2. Budget \in Nat
    BY AllocationAssumption
  <2> HIDE DEF a, z
  <2> QED
    BY <1>3, <2>1, <2>2
<1>8. OrdersGood(none) /\ Open(none) = {}
  BY <1>1 DEF OrdersGood, Open
<1>9. s = [orders |-> none, position |-> 0, allocation |-> a]
  BY <1>1
<1>10. Ledgers(a, Open(none) \cup {}) /\ {} \subseteq Ids \ DOMAIN none /\ 0 \in Int
  <2>1. Open(none) \cup {} = {}
    BY <1>8
  <2>2. {} \subseteq Ids \ DOMAIN none /\ 0 \in Int
    OBVIOUS
  <2> HIDE DEF a, none
  <2>3. Ledgers(a, Open(none) \cup {})
    BY <1>6, <2>1
  <2> QED
    BY <2>2, <2>3
<1> HIDE DEF none, a, k, z
<1> QED
  BY <1>7, <1>8, <1>9, <1>10, GoodIntro

LEMMA InitHolds == Init => PipelineIInv
<1> SUFFICES ASSUME Init PROVE PipelineIInv
  OBVIOUS
<1>1. st = [orders |-> <<>>, position |-> 0, allocation |-> AllocationInit]
      /\ price \in Prices /\ phase = "idle" /\ rest = FALSE
  BY DEF Init
<1>2. Good(st, {})
  BY <1>1, EmptyBookGood
<1>3. Pending = {}
  BY <1>1, PendingIs
<1> QED
  BY <1>1, <1>2, <1>3 DEF PipelineIInv, Phases

-----------------------------------------------------------------------------
(* The steps.                                                               *)

\* A step that leaves nothing to route.
LEMMA NothingWaits ==
    ASSUME Good(st', {}), price' \in Prices, phase' \in Phases \ {"work", "route"},
           rest' \in BOOLEAN
    PROVE  PipelineIInv'
<1>1. Pending' = {}
  BY PendingIs
<1> QED
  BY <1>1 DEF PipelineIInv

LEMMA MarketEventStep ==
    ASSUME PipelineIInv, NEW p \in Prices, MarketEvent(p)
    PROVE  PipelineIInv'
<1>1. /\ phase = "idle" /\ price' = p /\ due' = Working(st) /\ st' = st
      /\ phase' = (IF due' = {} THEN "instruct" ELSE "work") /\ rest' = ~SameEvent
  BY DEF MarketEvent
<1>2. Pending = {} /\ Pending' = {}
  BY <1>1, PendingIs
<1>3. Good(st', Pending')
  BY <1>1, <1>2 DEF PipelineIInv
<1>4. due' \subseteq Working(st')
  BY <1>1
<1> QED
  BY <1>1, <1>3, <1>4, PipelineAssumption DEF PipelineIInv, Phases

LEMMA DeliverInstantStep ==
    ASSUME PipelineIInv, DeliverInstant
    PROVE  PipelineIInv'
<1>1. phase = "idle" /\ phase' = "instruct" /\ rest' = TRUE /\ st' = st /\ price' = price
  BY DEF DeliverInstant
<1>2. Good(st', {}) /\ price' \in Prices
  BY <1>1, PendingIs DEF PipelineIInv
<1> QED
  BY <1>1, <1>2, NothingWaits DEF Phases

LEMMA WorkNextStep ==
    ASSUME PipelineIInv, WorkNext
    PROVE  PipelineIInv'
<1> DEFINE i == Min(due)
<1>1. /\ phase = "work" /\ due' = due \ {i} /\ price' = price /\ rest' = rest
      /\ phase' = IF due' = {} THEN "instruct" ELSE "work"
  BY DEF WorkNext
<1>2. Good(st, {}) /\ due \subseteq Working(st) /\ due # {}
  BY <1>1, PendingIs DEF PipelineIInv
<1>3. PICK turn \in Turns(st.orders[i]) : st' = work_order(st, i, turn)
  BY DEF WorkNext
<1>4. i \in due /\ i \in Working(st)
  <2>1. Working(st) \subseteq Ids
    BY <1>2 DEF Good, OrdersGood, Working
  <2>2. due \in SUBSET Nat
    BY <1>2, <2>1, IdsAre
  <2>3. i \in due
    BY <1>2, <2>2, SmallestNumber
  <2> QED
    BY <1>2, <2>3
<1> HIDE DEF i
<1>5. Good(st', {}) /\ Turned(st', st, i)
  BY <1>2, <1>3, <1>4, WorkedGood
<1>6. due' \subseteq Working(st')
  BY <1>1, <1>2, <1>5 DEF Turned
<1>7. Pending' = {}
  BY <1>1, PendingIs
<1> QED
  BY <1>1, <1>5, <1>6, <1>7 DEF PipelineIInv, Phases

LEMMA CancelIntentStep ==
    ASSUME PipelineIInv, NEW strategy \in Strategies, CancelIntent(strategy)
    PROVE  PipelineIInv'
<1>1. /\ phase = "instruct" /\ st' = Withdrawn(st, strategy) /\ price' = price
      /\ phase' = phase /\ rest' = rest
  BY DEF CancelIntent
<1>2. Good(st, {})
  BY <1>1, PendingIs DEF PipelineIInv
<1>3. Good(st', {})
  BY <1>1, <1>2, WithdrawnGood
<1> QED
  BY <1>1, <1>3, NothingWaits DEF PipelineIInv, Phases

\* The order an amend is for is the strategy's alone.
LEMMA AmendableIs ==
    ASSUME NEW strategy, NEW i \in Amendable(strategy)
    PROVE  i \in Working(st) /\ DOMAIN st.allocation.contributions[i] = {strategy}
  BY DEF Amendable, SoleOrders

LEMMA AmendedDown ==
    ASSUME Good(st, {}), NEW strategy \in Strategies, NEW left \in Amends,
           AmendDown(strategy, left)
    PROVE  /\ Good(st', {})
           /\ Closes(st', st, {})
           /\ st'.position = st.position
           /\ st'.allocation.notional <= st.allocation.notional
           /\ DOMAIN st'.allocation.reservations = DOMAIN st.allocation.reservations
<1>1. PICK i \in Amendable(strategy) :
        /\ Magnitude(left) < Magnitude(remaining(st.orders[i]))
        /\ (left > 0) = (remaining(st.orders[i]) > 0)
        /\ st' = reduce_in_place(st, strategy, i, left)
  BY DEF AmendDown
<1>2. left \in Int \ {0}
  BY PipelineAssumption
<1>3. i \in Working(st) /\ DOMAIN st.allocation.contributions[i] = {strategy}
  BY AmendableIs
<1> QED
  BY <1>1, <1>2, <1>3, ReducedGood

LEMMA AmendDownStep ==
    ASSUME PipelineIInv, NEW strategy \in Strategies, NEW left \in Amends,
           AmendDown(strategy, left)
    PROVE  PipelineIInv'
<1>1. phase # "route" /\ phase' = "amend" /\ price' = price /\ rest' = rest
  BY DEF AmendDown
<1>2. Good(st, {})
  BY <1>1, PendingIs DEF PipelineIInv
<1>3. Good(st', {})
  BY <1>2, AmendedDown
<1> QED
  BY <1>1, <1>3, NothingWaits DEF PipelineIInv, Phases

\* An amend that is not a cut in place keeps the book or replaces the order.
LEMMA AmendedReplace ==
    ASSUME Good(st, {}), price \in Prices, NEW strategy \in Strategies, NEW trade \in Amends,
           NEW placed \in BOOLEAN, AmendReplace(strategy, trade, placed)
    PROVE  Good(st', {}) /\ (st' = st \/ \E i : Replaced(st', st, i))
<1>1. PICK i \in Amendable(strategy) :
        LET gone == End(st, i, "cancelled")
            made == allocate(gone.allocation,
                             forced_target(gone, strategy, trade, st.orders[i].terms),
                             price, committed_position(gone), working_shares(gone),
                             FreshId(gone))
            trial == [gone EXCEPT !.allocation = made.state]
        IN  IF made.requests = <<>> \/ ~placed
            THEN st' = Kept(st, IF made.requests = <<>> THEN trial
                                ELSE retire_dropped_request(trial, made.requests[1].id))
            ELSE LET sent == submit_and_accept(trial, made.requests[1])
                     id   == made.requests[1].id
                 IN  IF rest THEN st' = sent
                     ELSE \E turn \in Turns(sent.orders[id]) :
                             st' = work_order(sent, id, turn)
  BY DEF AmendReplace
<1> DEFINE gone == End(st, i, "cancelled")
           made == allocate(gone.allocation,
                            forced_target(gone, strategy, trade, st.orders[i].terms),
                            price, committed_position(gone), working_shares(gone),
                            FreshId(gone))
           sent == submit_and_accept([gone EXCEPT !.allocation = made.state],
                                     made.requests[1])
           id == made.requests[1].id
<1>2. FreshId(st) <= MaxOrders
  BY DEF AmendReplace
<1>3. i \in Working(st)
  BY AmendableIs
<1>4. trade \in Int
  BY PipelineAssumption
<1>5. price \in Nat
  BY PricesAre
<1>6. CASE made.requests = <<>> \/ ~placed
  <2>1. st' = st
    BY <1>1, <1>6 DEF Kept
  <2> QED
    BY <2>1
<1>7. CASE ~(made.requests = <<>> \/ ~placed)
  <2>1. made.requests # <<>> /\ placed
    BY <1>7
  <2>2. IF rest THEN st' = sent
        ELSE \E turn \in Turns(sent.orders[id]) : st' = work_order(sent, id, turn)
    BY <1>1, <1>7
  <2>3. /\ Good(sent, {}) /\ Replaced(sent, st, i) /\ id \in Working(sent)
        /\ StandsThroughTurn(sent, st, i, id)
    BY <1>2, <1>3, <1>4, <1>5, <2>1, ReplacedGood
  <2> HIDE DEF sent, id
  <2>4. CASE rest
    BY <2>2, <2>3, <2>4
  <2>5. CASE ~rest
    <3>1. PICK turn \in Turns(sent.orders[id]) : st' = work_order(sent, id, turn)
      BY <2>2, <2>5
    <3> QED
      BY <2>3, <3>1 DEF StandsThroughTurn
  <2> QED
    BY <2>4, <2>5
<1> QED
  BY <1>6, <1>7

LEMMA AmendReplaceStep ==
    ASSUME PipelineIInv, NEW strategy \in Strategies, NEW trade \in Amends,
           NEW placed \in BOOLEAN, AmendReplace(strategy, trade, placed)
    PROVE  PipelineIInv'
<1>1. phase # "route" /\ phase' = "amend" /\ price' = price /\ rest' = rest
  BY DEF AmendReplace
<1>2. Good(st, {}) /\ price \in Prices
  BY <1>1, PendingIs DEF PipelineIInv
<1>3. Good(st', {})
  BY <1>2, AmendedReplace
<1> QED
  BY <1>1, <1>3, NothingWaits DEF PipelineIInv, Phases

LEMMA AllocateStep ==
    ASSUME PipelineIInv, NEW intents \in Batches, Allocate(intents)
    PROVE  PipelineIInv'
<1> DEFINE made == allocate(st.allocation, intents, price, committed_position(st),
                            working_shares(st), FreshId(st))
           t == [st EXCEPT !.allocation = made.state]
<1>1. /\ phase # "route" /\ price' = price
      /\ FreshId(st) + Len(made.requests) <= MaxOrders + 1
      /\ st' = t
      /\ IF made.requests = <<>> THEN Idle
         ELSE todo' = made.requests /\ phase' = "route" /\ rest' = rest
  BY DEF Allocate
<1>2. Good(st, {}) /\ price \in Prices /\ price \in Nat
  BY <1>1, PendingIs, PricesAre DEF PipelineIInv
<1>3. PICK D \in SUBSET Strategies : intents \in [D -> Intents]
  BY DEF Batches
<1>4. DOMAIN intents = D /\ \A r \in D : IsIntent(intents[r])
  BY <1>3, PipelineAssumption DEF IsIntent
<1>5. Allocated(t, st, made.requests)
  <2>1. made = allocate(st.allocation, intents, price, committed_position(st),
                        working_shares(st), FreshId(st))
        /\ t = [st EXCEPT !.allocation = made.state]
    OBVIOUS
  <2>2. FreshId(st) + Len(made.requests) <= MaxOrders + 1
    BY <1>1
  <2> HIDE DEF made, t
  <2> QED
    BY <1>2, <1>4, <2>1, <2>2, BookAllocated
<1> HIDE DEF made, t
<1>6. Queue(made.requests) /\ Good(st', IdsOf(made.requests))
  BY <1>1, <1>5 DEF Allocated
<1>7. CASE made.requests = <<>>
  <2>1. phase' = "idle" /\ rest' = FALSE
    BY <1>1, <1>7 DEF Idle
  <2>2. IdsOf(made.requests) = {}
    BY <1>7 DEF IdsOf
  <2>3. Good(st', {})
    BY <1>6, <2>2
  <2> QED
    BY <1>1, <1>2, <2>1, <2>3, NothingWaits DEF Phases
<1>8. CASE made.requests # <<>>
  <2>1. todo' = made.requests /\ phase' = "route" /\ rest' = rest
    BY <1>1, <1>8
  <2>2. Pending' = IdsOf(made.requests)
    BY <2>1, PendingIs
  <2> QED
    BY <1>1, <1>2, <1>6, <1>8, <2>1, <2>2 DEF PipelineIInv, Phases
<1> QED
  BY <1>7, <1>8

\* The queue without its head.
LEMMA RoutedStep ==
    ASSUME PipelineIInv, phase = "route", Routed,
           Good(st', Pending \ {Head(todo).id}), price' = price
    PROVE  PipelineIInv'
<1>1. Queue(todo) /\ todo # <<>> /\ Pending = IdsOf(todo)
      /\ price \in Prices /\ rest \in BOOLEAN
  BY PendingIs DEF PipelineIInv
<1>2. /\ Head(todo).id \in IdsOf(todo) /\ Head(todo).terms \in AllTerms
      /\ Head(todo).quantity \in Int \ {0}
      /\ Head(todo) = todo[1]
      /\ Len(todo) = 1 => IdsOf(todo) = {Head(todo).id}
      /\ Len(todo) # 1 => Queue(Tail(todo)) /\ Tail(todo) # <<>>
                          /\ IdsOf(Tail(todo)) = IdsOf(todo) \ {Head(todo).id}
  BY <1>1, QueueIs
<1>3. CASE Len(todo) = 1
  <2>1. phase' = "idle" /\ rest' = FALSE
    BY <1>3 DEF Routed, Idle
  <2>2. Pending \ {Head(todo).id} = {}
    BY <1>1, <1>2, <1>3
  <2> QED
    BY <1>1, <2>1, <2>2, NothingWaits DEF Phases
<1>4. CASE Len(todo) # 1
  <2>1. todo' = Tail(todo) /\ phase' = phase /\ rest' = rest
    BY <1>4 DEF Routed
  <2>2. Pending' = Pending \ {Head(todo).id}
    BY <1>1, <1>2, <1>4, <2>1, PendingIs
  <2>3. Good(st', Pending') /\ Queue(todo') /\ todo' # <<>>
    BY <1>2, <1>4, <2>1, <2>2
  <2> QED
    BY <1>1, <2>1, <2>3 DEF PipelineIInv, Phases
<1> QED
  BY <1>3, <1>4

LEMMA HeadWaits ==
    ASSUME PipelineIInv, phase = "route"
    PROVE  /\ Good(st, Pending) /\ Head(todo).id \in Pending
           /\ Head(todo).terms \in AllTerms /\ Head(todo).quantity \in Int \ {0}
<1>1. Queue(todo) /\ todo # <<>> /\ Pending = IdsOf(todo) /\ Good(st, Pending)
  BY PendingIs DEF PipelineIInv
<1>2. /\ Head(todo).id \in IdsOf(todo) /\ Head(todo).terms \in AllTerms
      /\ Head(todo).quantity \in Int \ {0}
      /\ Head(todo) = todo[1]
      /\ Len(todo) = 1 => IdsOf(todo) = {Head(todo).id}
      /\ Len(todo) # 1 => Queue(Tail(todo)) /\ Tail(todo) # <<>>
                          /\ IdsOf(Tail(todo)) = IdsOf(todo) \ {Head(todo).id}
  BY <1>1, QueueIs
<1> QED
  BY <1>1, <1>2

LEMMA RouteDroppedStep ==
    ASSUME PipelineIInv, RouteDropped
    PROVE  PipelineIInv'
<1>1. /\ phase = "route" /\ Routed /\ price' = price
      /\ st' = retire_dropped_request(st, Head(todo).id)
  BY DEF RouteDropped
<1> DEFINE i == Head(todo).id
           waiting == Pending
<1>2. Good(st, waiting) /\ i \in waiting
  BY <1>1, HeadWaits
<1> HIDE DEF i, waiting
<1>3. Good(st', waiting \ {i})
  <2>1. st' = retire_dropped_request(st, i)
    BY <1>1 DEF i
  <2>2. Good(st', waiting \ {i}) /\ st'.orders = st.orders
    BY <1>2, <2>1, RequestDropped
  <2> QED
    BY <2>2
<1> QED
  BY <1>1, <1>3, RoutedStep DEF i, waiting

LEMMA RoutePlacedStep ==
    ASSUME PipelineIInv, RoutePlaced
    PROVE  PipelineIInv'
<1> DEFINE request == Head(todo)
           waiting == Pending
           id == Head(todo).id
           left == waiting \ {id}
           sent == submit_and_accept(st, request)
<1>1. /\ phase = "route" /\ Routed /\ price' = price
      /\ IF rest THEN st' = sent
         ELSE \E turn \in Turns(sent.orders[id]) : st' = work_order(sent, id, turn)
  BY DEF RoutePlaced
<1>2. /\ Good(st, waiting) /\ request.id \in waiting
      /\ request.terms \in AllTerms /\ request.quantity \in Int \ {0}
  BY <1>1, HeadWaits
<1>3. Good(sent, left) /\ id \in Working(sent)
  <2>1. sent = submit_and_accept(st, request) /\ id = request.id
    OBVIOUS
  <2> HIDE DEF request, waiting, sent
  <2>2. Good(sent, waiting \ {request.id}) /\ Opened(sent, st, request.id)
    BY <1>2, <2>1, SubmittedGood
  <2> QED
    BY <2>1, <2>2 DEF Opened
<1> HIDE DEF request, waiting, sent, left, id
<1>4. Good(st', left)
  <2>1. CASE rest
    BY <1>1, <1>3, <2>1
  <2>2. CASE ~rest
    <3>1. PICK turn \in Turns(sent.orders[id]) : st' = work_order(sent, id, turn)
      BY <1>1, <2>2
    <3>2. Good(st', left) /\ Turned(st', sent, id)
      BY <1>3, <3>1, WorkedGood
    <3> QED
      BY <3>2
  <2> QED
    BY <2>1, <2>2
<1> QED
  BY <1>1, <1>4, RoutedStep DEF left, waiting, id

-----------------------------------------------------------------------------
(* What the inductive invariant says.                                       *)

LEMMA OrdersTyped ==
    ASSUME NEW o, WellFormed(o)
    PROVE  /\ o.status \in OrderStatus /\ o.terms \in AllTerms
           /\ o.quantity \in Int /\ o.filled \in Int
           /\ Magnitude(o.filled) <= Magnitude(o.quantity)
           /\ o.status = "FILLED" <=> o.filled = o.quantity
<1> DEFINE q == o.quantity
           f == o.filled
<1>1. /\ o.status \in OrderStatus /\ o.terms \in AllTerms /\ q \in Int /\ f \in Int
      /\ o.status = "FILLED" <=> f = q
      /\ \/ 0 <= f /\ f <= q
         \/ q <= f /\ f <= 0
  BY DEF WellFormed, Order
<1> HIDE DEF q, f
<1>2. Magnitude(f) <= Magnitude(q)
  BY <1>1 DEF Magnitude
<1> QED
  BY <1>1, <1>2 DEF q, f

LEMMA IInvTypes == PipelineIInv => TypeOK
<1> SUFFICES ASSUME PipelineIInv PROVE TypeOK
  OBVIOUS
<1>1. Good(st, Pending) /\ price \in Prices /\ phase \in Phases /\ rest \in BOOLEAN
  BY DEF PipelineIInv
<1>2. /\ OrdersGood(st.orders) /\ st.position \in Int
      /\ Ledgers(st.allocation, Open(st.orders) \cup Pending)
  BY <1>1 DEF Good
<1>3. DOMAIN st.allocation.positions = Strategies /\ DOMAIN st.allocation.capital = Strategies
  BY <1>2 DEF Ledgers, Account
<1>4. DOMAIN st.orders \subseteq Ids /\ \A i \in DOMAIN st.orders : WellFormed(st.orders[i])
  BY <1>2 DEF OrdersGood
<1>5. ASSUME NEW i \in DOMAIN st.orders
      PROVE  LET o == st.orders[i]
             IN  /\ o.status \in OrderStatus /\ o.terms \in AllTerms
                 /\ o.quantity \in Int /\ o.filled \in Int
                 /\ Magnitude(o.filled) <= Magnitude(o.quantity)
                 /\ o.status = "FILLED" <=> o.filled = o.quantity
  <2> DEFINE o == st.orders[i]
  <2>1. WellFormed(o)
    BY <1>4
  <2> HIDE DEF o
  <2>2. /\ o.status \in OrderStatus /\ o.terms \in AllTerms
        /\ o.quantity \in Int /\ o.filled \in Int
        /\ Magnitude(o.filled) <= Magnitude(o.quantity)
        /\ o.status = "FILLED" <=> o.filled = o.quantity
    BY <2>1, OrdersTyped
  <2> QED
    BY <2>2 DEF o
<1> QED
  BY <1>1, <1>2, <1>3, <1>4, <1>5 DEF TypeOK

LEMMA IInvLedgers == PipelineIInv => LedgersDescribeOrders
<1> SUFFICES ASSUME PipelineIInv PROVE LedgersDescribeOrders
  OBVIOUS
<1> DEFINE a == st.allocation
           live == Working(st) \cup Pending
<1>1. Ledgers(a, live) /\ a.notional <= Budget
  BY WorkingIs DEF PipelineIInv, Good
<1>2. DOMAIN a.contributions = live /\ DOMAIN a.reservations \subseteq live
      /\ a.notional = Total(a.reservations)
  BY <1>1 DEF Ledgers
<1>3. ASSUME NEW s \in Strategies
      PROVE  /\ a.capital[s].reserved_total = Total(a.capital[s].reserved)
             /\ \A i \in DOMAIN a.capital[s].reserved :
                   i \in live /\ s \in DOMAIN a.contributions[i]
  <2>1. Holds(a.capital[s], AskedBy(a.contributions, s))
    BY <1>1 DEF Ledgers
  <2>2. /\ a.capital[s].reserved_total = Total(a.capital[s].reserved)
        /\ DOMAIN a.capital[s].reserved \subseteq AskedBy(a.contributions, s)
    BY <2>1 DEF Holds
  <2>3. \A i \in AskedBy(a.contributions, s) :
           i \in live /\ s \in DOMAIN a.contributions[i]
    BY <1>2 DEF AskedBy
  <2> HIDE DEF a, live
  <2> QED
    BY <2>2, <2>3
<1> QED
  BY <1>1, <1>2, <1>3 DEF LedgersDescribeOrders

LEMMA IInvStrategies == PipelineIInv => StrategiesExplainPosition
<1> SUFFICES ASSUME PipelineIInv PROVE StrategiesExplainPosition
  OBVIOUS
<1> DEFINE a == st.allocation
<1>1. Ledgers(a, Open(st.orders) \cup Pending) /\ Total(a.positions) = st.position
  BY DEF PipelineIInv, Good
<1>2. \A s \in Strategies : Costs(a.capital[s].deployed, a.positions[s])
  BY <1>1 DEF Ledgers
<1> QED
  BY <1>1, <1>2 DEF StrategiesExplainPosition, Costs

-----------------------------------------------------------------------------
(* The theorems.                                                            *)

LEMMA StepHolds == PipelineIInv /\ [Next]_vars => PipelineIInv'
<1> SUFFICES ASSUME PipelineIInv, [Next]_vars PROVE PipelineIInv'
  OBVIOUS
<1>1. CASE \E p \in Prices : MarketEvent(p)
  BY <1>1, MarketEventStep
<1>2. CASE DeliverInstant
  BY <1>2, DeliverInstantStep
<1>3. CASE WorkNext
  BY <1>3, WorkNextStep
<1>4. CASE \E s \in Strategies : CancelIntent(s)
  BY <1>4, CancelIntentStep
<1>5. CASE \E s \in Strategies, q \in Amends : AmendDown(s, q)
  BY <1>5, AmendDownStep
<1>6. CASE \E s \in Strategies, q \in Amends, placed \in BOOLEAN :
              AmendReplace(s, q, placed)
  BY <1>6, AmendReplaceStep
<1>7. CASE \E b \in Batches : Allocate(b)
  BY <1>7, AllocateStep
<1>8. CASE RouteDropped
  BY <1>8, RouteDroppedStep
<1>9. CASE RoutePlaced
  BY <1>9, RoutePlacedStep
<1>10. CASE UNCHANGED vars
  <2>1. st' = st /\ price' = price /\ phase' = phase /\ due' = due /\ todo' = todo
        /\ rest' = rest
    BY <1>10 DEF vars
  <2>2. Pending' = Pending
    BY <2>1 DEF Pending
  <2> QED
    BY <2>1, <2>2 DEF PipelineIInv
<1> QED
  BY <1>1, <1>2, <1>3, <1>4, <1>5, <1>6, <1>7, <1>8, <1>9, <1>10 DEF Next

LEMMA Invariance == Spec => []PipelineIInv
  BY InitHolds, StepHolds, PTL DEF Spec

(***************************************************************************)
(* Whatever the prices, the sizes and the number of strategies and orders, *)
(* the ledgers describe exactly the orders and requests that are alive     *)
(* (_release_if_terminal, _retire_dropped_request, _reduce_in_place,       *)
(* _replace_atomically): an order has contributions as long as it lives,   *)
(* capital is held for no other, each total is the sum it is kept for, and *)
(* what is outstanding stays within the budget.                            *)
(***************************************************************************)
THEOREM PipelineTheorem == Spec => []PipelineInv
<1>1. PipelineIInv => PipelineInv
  BY IInvTypes, IInvLedgers DEF PipelineInv
<1> QED
  BY Invariance, <1>1, PTL

(***************************************************************************)
(* However netted orders are split between strategies and rounded, what    *)
(* the strategies hold adds up to the account's position, and what each    *)
(* has deployed is a cost its own position can have at the prices there    *)
(* are (split_by_contribution, record_fill, capital_fill).                 *)
(***************************************************************************)
THEOREM StrategiesTheorem == Spec => []StrategiesExplainPosition
  BY Invariance, IInvStrategies, PTL

LEMMA OneMore ==
    ASSUME NEW t, NEW s, NEW i, Replaced(t, s, i), OrdersGood(s.orders)
    PROVE  /\ Cardinality(DOMAIN t.orders) = Cardinality(DOMAIN s.orders) + 1
           /\ Cardinality(Working(s) \ Working(t)) = 1
<1>1. PICK id : id \notin DOMAIN s.orders /\ DOMAIN t.orders = DOMAIN s.orders \cup {id}
  BY DEF Replaced
<1>2. Working(s) \ Working(t) = {i}
  BY DEF Replaced
<1>3. IsFiniteSet(DOMAIN s.orders)
  BY IdsAre, FS_Subset DEF OrdersGood
<1>4. Cardinality(DOMAIN s.orders \cup {id}) = Cardinality(DOMAIN s.orders) + 1
  BY <1>1, <1>3, FS_AddElement
<1>5. Cardinality({i}) = 1
  BY FS_Singleton
<1> QED
  BY <1>1, <1>2, <1>4, <1>5

\* What an amend does to the book.
Amended ==
    \/ /\ Cardinality(DOMAIN st'.orders) = Cardinality(DOMAIN st.orders) + 1
       /\ Cardinality(Working(st) \ Working(st')) = 1
    \/ /\ DOMAIN st'.orders = DOMAIN st.orders
       /\ Working(st') = Working(st)
       /\ st'.position = st.position
       /\ st'.allocation.notional <= st.allocation.notional
       /\ DOMAIN st'.allocation.reservations = DOMAIN st.allocation.reservations

LEMMA SameBook ==
    ASSUME Good(st, Pending), st' = st
    PROVE  Amended
<1>1. st.allocation.notional \in Nat
  BY AccountIs DEF Good
<1> QED
  BY <1>1 DEF Amended

LEMMA AmendStep ==
    ASSUME PipelineIInv, Next, phase' = "amend"
    PROVE  Amended
<1>1. CASE \E s \in Strategies, q \in Amends : AmendDown(s, q)
  <2>1. PICK s \in Strategies, q \in Amends : AmendDown(s, q)
    BY <1>1
  <2>2. Good(st, {})
    <3>1. phase # "route"
      BY <2>1 DEF AmendDown
    <3> QED
      BY <3>1, PendingIs DEF PipelineIInv
  <2>3. /\ Good(st', {})
        /\ Closes(st', st, {})
        /\ st'.position = st.position
        /\ st'.allocation.notional <= st.allocation.notional
        /\ DOMAIN st'.allocation.reservations = DOMAIN st.allocation.reservations
    BY <2>1, <2>2, AmendedDown
  <2>4. DOMAIN st'.orders = DOMAIN st.orders /\ Working(st') = Working(st)
    BY <2>3 DEF Closes
  <2> QED
    BY <2>3, <2>4 DEF Amended
<1>2. CASE \E s \in Strategies, q \in Amends, placed \in BOOLEAN :
              AmendReplace(s, q, placed)
  <2>1. PICK s \in Strategies, q \in Amends, placed \in BOOLEAN :
           AmendReplace(s, q, placed)
    BY <1>2
  <2>2. Good(st, {}) /\ price \in Prices /\ Good(st, Pending)
    <3>1. phase # "route"
      BY <2>1 DEF AmendReplace
    <3> QED
      BY <3>1, PendingIs DEF PipelineIInv
  <2>3. st' = st \/ \E i : Replaced(st', st, i)
    BY <2>1, <2>2, AmendedReplace
  <2>4. OrdersGood(st.orders)
    BY <2>2 DEF Good
  <2>5. ASSUME NEW i, Replaced(st', st, i) PROVE Amended
    BY <2>4, <2>5, OneMore DEF Amended
  <2> QED
    BY <2>2, <2>3, <2>5, SameBook
<1>3. CASE \E p \in Prices : MarketEvent(p)
  BY <1>3 DEF MarketEvent
<1>4. CASE DeliverInstant
  BY <1>4 DEF DeliverInstant
<1>5. CASE WorkNext
  BY <1>5 DEF WorkNext
<1>6. CASE \E s \in Strategies : CancelIntent(s)
  BY <1>6 DEF CancelIntent
<1>7. CASE \E b \in Batches : Allocate(b)
  <2>1. PICK b \in Batches : Allocate(b)
    BY <1>7
  <2>2. phase' = "idle" \/ phase' = "route"
    BY <2>1 DEF Allocate, Idle
  <2> QED
    BY <2>2
<1>8. CASE RouteDropped \/ RoutePlaced
  <2>1. phase = "route" /\ Routed
    BY <1>8 DEF RouteDropped, RoutePlaced
  <2> QED
    BY <2>1 DEF Routed, Idle
<1> QED
  BY <1>1, <1>2, <1>3, <1>4, <1>5, <1>6, <1>7, <1>8 DEF Next

(***************************************************************************)
(* FUT-031 for every book: an amend replaces one order by another, or it   *)
(* leaves every order's status, the position and what is reserved for whom *)
(* as they were, with no more capital outstanding than before              *)
(* (_amends_requested, _reduce_in_place, _replace_atomically).             *)
(***************************************************************************)
THEOREM AmendTheorem == Spec => AmendAllOrNothing
<1>1. PipelineIInv /\ [Next]_vars => [phase' = "amend" => Amended]_vars
  BY AmendStep
<1>2. [phase' = "amend" => Amended]_vars
        => [phase' = "amend" =>
              \/ /\ Cardinality(DOMAIN st'.orders) = Cardinality(DOMAIN st.orders) + 1
                 /\ Cardinality(Working(st) \ Working(st')) = 1
              \/ /\ DOMAIN st'.orders = DOMAIN st.orders
                 /\ Working(st') = Working(st)
                 /\ st'.position = st.position
                 /\ st'.allocation.notional <= st.allocation.notional
                 /\ DOMAIN st'.allocation.reservations = DOMAIN st.allocation.reservations
           ]_vars
  BY DEF Amended
<1> QED
  BY Invariance, <1>1, <1>2, PTL DEF Spec, AmendAllOrNothing
=============================================================================
