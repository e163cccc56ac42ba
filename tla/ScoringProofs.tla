---------------------------- MODULE ScoringProofs ----------------------------
(***************************************************************************)
(* What holds of the arithmetic of the intelligence service for every      *)
(* input.  A validator has a score of 0 to 100, and one that is at least   *)
(* as good in everything does not score less: both rest on rounding, half  *)
(* to even, being monotone.  A wallet is no less concentrated by subnet    *)
(* than by validator; a low band means a spread over three validators, and *)
(* over days; and the forecast of a line stays on it: these rest on the    *)
(* sums that the model computes being linear, and on Cauchy's inequality.  *)
(***************************************************************************)
EXTENDS Scoring, FiniteSetTheorems, WellFoundedInduction, TLAPS

\* Division with rest.
LEMMA Divided ==
    ASSUME NEW n \in Int, NEW d \in Nat \ {0}
    PROVE  /\ n \div d \in Int /\ n % d \in 0..(d - 1)
           /\ n = d * (n \div d) + (n % d)
BY SMT

\* The quotient is monotone.
LEMMA QuotientMonotone ==
    ASSUME NEW m \in Int, NEW n \in Int, NEW d \in Nat \ {0}, m <= n
    PROVE  m \div d <= n \div d
<1> DEFINE p == m \div d
           q == n \div d
<1>1. /\ p \in Int /\ q \in Int
      /\ m % d \in 0..(d - 1) /\ n % d \in 0..(d - 1)
      /\ m = d * p + (m % d) /\ n = d * q + (n % d)
  BY Divided
<1> HIDE DEF p, q
<1>2. ASSUME q + 1 <= p PROVE FALSE
  <2>1. d * (q + 1) <= d * p
    BY <1>1, <1>2
  <2>2. d * (q + 1) = d * q + d /\ d * q \in Int /\ d * p \in Int
    BY <1>1
  <2> QED BY <1>1, <2>1, <2>2
<1>3. p <= q
  BY <1>1, <1>2
<1> QED BY <1>3 DEF p, q

\* Rounding goes to the quotient or to the number above it.
LEMMA RoundTyped ==
    ASSUME NEW n \in Int, NEW d \in Nat \ {0}
    PROVE  /\ Round(n, d) \in Int
           /\ n \div d <= Round(n, d) /\ Round(n, d) <= n \div d + 1
BY Divided DEF Round

\* Rounding is monotone, ties and all.
LEMMA RoundMonotone ==
    ASSUME NEW m \in Int, NEW n \in Int, NEW d \in Nat \ {0}, m <= n
    PROVE  Round(m, d) <= Round(n, d)
<1> DEFINE p == m \div d
           q == n \div d
           r == m % d
           s == n % d
<1>1. /\ p \in Int /\ q \in Int /\ r \in Nat /\ s \in Nat
      /\ m = d * p + r /\ n = d * q + s /\ p <= q
  BY Divided, QuotientMonotone
<1>2. /\ Round(m, d) = IF 2 * r > d \/ (2 * r = d /\ p % 2 = 1) THEN p + 1 ELSE p
      /\ Round(n, d) = IF 2 * s > d \/ (2 * s = d /\ q % 2 = 1) THEN q + 1 ELSE q
  BY Zenon DEF Round
<1> HIDE DEF p, q, r, s
<1>3. CASE p = q
  <2>1. r <= s
    <3>1. d * p \in Int /\ d * q = d * p
      BY <1>1, <1>3
    <3> QED BY <1>1, <3>1
  <2> QED BY <1>1, <1>2, <1>3, <2>1
<1>4. CASE p < q
  BY <1>1, <1>2, <1>4
<1> QED BY <1>1, <1>3, <1>4

\* What is a whole number is not rounded.
LEMMA RoundWhole ==
    ASSUME NEW a \in Int, NEW d \in Nat \ {0}
    PROVE  Round(a * d, d) = a
<1> DEFINE n == a * d
           q == n \div d
           r == n % d
<1>0. n \in Int /\ n = d * a
  OBVIOUS
<1>1. q \in Int /\ r \in 0..(d - 1) /\ d * a = d * q + r
  <2> HIDE DEF n
  <2> QED BY <1>0, Divided
<1>2. q = a /\ r = 0
  <2> HIDE DEF q, r
  <2>1. d * (a - q) = r
    BY <1>1
  <2>2. a - q < 1
    <3>1. ASSUME a - q >= 1 PROVE FALSE
      <4>1. d * (a - q) >= d
        BY <1>1, <3>1
      <4> QED BY <1>1, <2>1, <4>1
    <3> QED BY <1>1, <3>1
  <2>3. a - q > -1
    <3>1. ASSUME a - q <= -1 PROVE FALSE
      <4>1. d * (a - q) <= -d
        BY <1>1, <3>1
      <4> QED BY <1>1, <2>1, <4>1
    <3> QED BY <1>1, <3>1
  <2>4. a - q = 0
    BY <1>1, <2>2, <2>3
  <2> QED BY <1>1, <2>1, <2>4
<1>3. Round(n, d) = IF 2 * r > d \/ (2 * r = d /\ q % 2 = 1) THEN q + 1 ELSE q
  BY Zenon DEF Round
<1> HIDE DEF n, q, r
<1>4. Round(n, d) = a
  BY <1>2, <1>3
<1> QED BY <1>4 DEF n

----------------------------------------------------------------------------
\* The first three weights come to nine tenths.
LEMMA BlendTyped ==
    \A u, c, a \in Int : Blend(u, c, a) \in Nat /\ Blend(u, c, a) <= 9000
<1> TAKE u, c, a \in Int
<1> DEFINE x == Clamp(u, 0, 100)
           y == Clamp(c, 0, 100)
           z == Clamp(a, 0, 20)
<1>1. x \in 0..100 /\ y \in 0..100 /\ z \in 0..20
  BY DEF Clamp
<1>2. Blend(u, c, a) = 35 * x + 30 * y + 125 * z
  BY Zenon DEF Blend
<1> HIDE DEF x, y, z
<1> QED BY <1>1, <1>2

\* They keep the order of the inputs.
LEMMA BlendMonotone ==
    \A u, c, a, v, e, b \in Int :
        u <= v /\ c <= e /\ a <= b => Blend(u, c, a) <= Blend(v, e, b)
<1> SUFFICES ASSUME NEW u \in Int, NEW c \in Int, NEW a \in Int,
                    NEW v \in Int, NEW e \in Int, NEW b \in Int,
                    u <= v, c <= e, a <= b
             PROVE  Blend(u, c, a) <= Blend(v, e, b)
  OBVIOUS
<1> DEFINE x1 == Clamp(u, 0, 100)
           y1 == Clamp(c, 0, 100)
           z1 == Clamp(a, 0, 20)
           x2 == Clamp(v, 0, 100)
           y2 == Clamp(e, 0, 100)
           z2 == Clamp(b, 0, 20)
<1>1. /\ x1 \in Int /\ x2 \in Int /\ x1 <= x2
      /\ y1 \in Int /\ y2 \in Int /\ y1 <= y2
      /\ z1 \in Int /\ z2 \in Int /\ z1 <= z2
  BY DEF Clamp
<1>2. /\ Blend(u, c, a) = 35 * x1 + 30 * y1 + 125 * z1
      /\ Blend(v, e, b) = 35 * x2 + 30 * y2 + 125 * z2
  BY Zenon DEF Blend
<1> HIDE DEF x1, y1, z1, x2, y2, z2
<1> QED BY <1>1, <1>2

\* A composite score is a number of 0 to 100, whatever the metadata holds.
THEOREM ScoreInRange ==
    ASSUME NEW u \in Int, NEW c \in Int, NEW a \in Int,
           NEW own \in Nat, NEW pool \in Nat \ {0}
    PROVE  CompositeScore(u, c, a, own, pool) \in 0..100
<1>0. Blend(u, c, a) \in Nat /\ Blend(u, c, a) <= 9000
  BY BlendTyped
<1> DEFINE B == Blend(u, c, a)
           D == Clamp(own, 0, pool)
           n == B * pool + 1000 * D
           d == 100 * pool
<1>1. B \in Nat /\ B <= 9000
  BY <1>0
<1>2. D \in 0..pool
  BY DEF Clamp
<1> HIDE DEF B, D
<1>3. B * pool \in Nat /\ B * pool <= 9000 * pool
  BY <1>1
<1>4. /\ n \in Nat /\ n <= 10000 * pool
      /\ d \in Nat \ {0} /\ 100 * d = 10000 * pool /\ 0 * d = 0
  BY <1>2, <1>3
<1> HIDE DEF n, d
<1>5. Round(0 * d, d) <= Round(n, d) /\ Round(n, d) <= Round(100 * d, d)
  BY <1>4, RoundMonotone
<1>6. Round(0 * d, d) = 0 /\ Round(100 * d, d) = 100 /\ Round(n, d) \in Int
  BY <1>4, RoundWhole, RoundTyped
<1>7. Round(n, d) \in 0..100
  BY <1>5, <1>6
<1> QED BY <1>7 DEF CompositeScore, n, d, B, D

\* A validator that is up at least as much, as consistent, with as good a
\* yield and as much stake, against the same median, does not score less.
THEOREM ScoreMonotone ==
    ASSUME NEW u \in Int, NEW c \in Int, NEW a \in Int, NEW own \in Nat,
           NEW v \in Int, NEW e \in Int, NEW b \in Int, NEW more \in Nat,
           NEW pool \in Nat \ {0},
           u <= v, c <= e, a <= b, own <= more
    PROVE  CompositeScore(u, c, a, own, pool) <= CompositeScore(v, e, b, more, pool)
<1>0. /\ Blend(u, c, a) \in Nat
      /\ Blend(v, e, b) \in Nat
      /\ Blend(u, c, a) <= Blend(v, e, b)
  BY BlendTyped, BlendMonotone
<1> DEFINE B == Blend(u, c, a)
           C == Blend(v, e, b)
           D == Clamp(own, 0, pool)
           E == Clamp(more, 0, pool)
           m == B * pool + 1000 * D
           n == C * pool + 1000 * E
           d == 100 * pool
<1>1. B \in Nat /\ C \in Nat /\ B <= C
  BY Zenon, <1>0
<1>2. D \in 0..pool /\ E \in 0..pool /\ D <= E
  BY DEF Clamp
<1> HIDE DEF B, C, D, E
<1>3. B * pool \in Nat /\ C * pool \in Nat /\ B * pool <= C * pool
  BY <1>1
<1>4. m \in Int /\ n \in Int /\ m <= n /\ d \in Nat \ {0}
  BY <1>2, <1>3
<1> HIDE DEF m, n, d
<1>5. Round(m, d) <= Round(n, d)
  BY <1>4, RoundMonotone
<1> QED BY <1>5 DEF CompositeScore, m, n, d, B, C, D, E

----------------------------------------------------------------------------
(***************************************************************************)
(* Sums.  MapThenSumSet adds what it chooses; that every order gives the   *)
(* same is shown by induction, on sets and not on formulas.                *)
(***************************************************************************)
\* A set of numbers that holds 0 and every successor holds all.
LEMMA NumberInduction ==
    ASSUME NEW T, 0 \in T, \A n \in Nat : n \in T => n + 1 \in T
    PROVE  Nat \subseteq T
<1> DEFINE R == OpToRel(<, Nat)
<1>1. IsWellFoundedOn(R, Nat)
  BY NatLessThanWellFounded
<1>2. \A m, n \in Nat : m < n => <<m, n>> \in R
  BY DEF OpToRel
<1> HIDE DEF R
<1>3. SUFFICES ASSUME Nat \ T # {} PROVE FALSE
  OBVIOUS
<1>4. PICK n \in Nat \ T : \A m \in Nat \ T : <<m, n>> \notin R
  BY <1>1, <1>3, WFMin
<1>5. n - 1 \in Nat /\ n - 1 < n /\ n = (n - 1) + 1
  BY <1>4
<1> QED BY <1>2, <1>4, <1>5

\* A set of sets that holds {} and what is larger by one element holds every
\* finite set.
LEMMA SetInduction ==
    ASSUME NEW S, IsFiniteSet(S), NEW P, {} \in P,
           \A s \in SUBSET S : \A x \in S \ s : s \in P => s \cup {x} \in P
    PROVE  S \in P
<1> DEFINE T == {n \in Nat : \A s \in SUBSET S : Cardinality(s) = n => s \in P}
<1>1. \A s \in SUBSET S : IsFiniteSet(s) /\ Cardinality(s) \in Nat
  BY FS_Subset, FS_CardinalityType
<1>2. 0 \in T
  BY <1>1, FS_EmptySet
<1>3. ASSUME NEW n \in Nat, n \in T PROVE n + 1 \in T
  <2> SUFFICES ASSUME NEW s \in SUBSET S, Cardinality(s) = n + 1
               PROVE  s \in P
    OBVIOUS
  <2>0. \A t \in SUBSET S : Cardinality(t) = n => t \in P
    BY <1>3
  <2> HIDE DEF T
  <2>1. s # {}
    <3>1. Cardinality({}) = 0
      BY FS_EmptySet
    <3>2. n + 1 # 0
      OBVIOUS
    <3> QED BY <3>1, <3>2
  <2>2. PICK x \in s : TRUE
    BY <2>1
  <2>3. Cardinality(s \ {x}) = Cardinality(s) - 1
    BY <1>1, FS_RemoveElement
  <2>4. s \ {x} \in SUBSET S /\ Cardinality(s \ {x}) = n
    BY <2>3
  <2>5. s \ {x} \in P
    BY <2>0, <2>4
  <2>6. (s \ {x}) \cup {x} = s /\ x \in S \ (s \ {x})
    OBVIOUS
  <2> QED BY <2>4, <2>5, <2>6
<1> HIDE DEF T
<1>4. Nat \subseteq T
  BY <1>2, <1>3, NumberInduction
<1> QED BY <1>1, <1>4 DEF T

\* g[s] is the sum of f over s.
IsSum(g, f, S) ==
    /\ g \in [SUBSET S -> Int]
    /\ g[{}] = 0
    /\ \A s \in SUBSET S : \A x \in s : g[s] = f[x] + g[s \ {x}]

\* The sum as it is computed: one element after the other is chosen.
Some(s) == CHOOSE x \in s : TRUE

Added(g, f, S) ==
    [s \in SUBSET S |-> IF s = {} THEN 0 ELSE f[Some(s)] + g[s \ {Some(s)}]]

\* What is chosen of a set is in it.
LEMMA SomeOf == ASSUME NEW s, s # {} PROVE Some(s) \in s
BY DEF Some

\* For sets up to a size, for all of them.
LEMMA AddedExists ==
    ASSUME NEW S, IsFiniteSet(S), NEW f, \A k \in S : f[k] \in Int
    PROVE  \E g \in [SUBSET S -> Int] : g = Added(g, f, S)
<1> DEFINE Sized(n) == {s \in SUBSET S : Cardinality(s) <= n}
           Value(g, s) == IF s = {} THEN 0 ELSE f[Some(s)] + g[s \ {Some(s)}]
           T == {n \in Nat : \E g \in [Sized(n) -> Int] :
                               \A s \in Sized(n) : g[s] = Value(g, s)}
<1>1. \A s \in SUBSET S : IsFiniteSet(s) /\ Cardinality(s) \in Nat
  BY FS_Subset, FS_CardinalityType
<1>2. 0 \in T
  <2> DEFINE g == [s \in Sized(0) |-> 0]
  <2>1. \A s \in Sized(0) : s = {}
    BY <1>1, FS_EmptySet
  <2>2. g \in [Sized(0) -> Int] /\ \A s \in Sized(0) : g[s] = Value(g, s)
    BY <2>1
  <2> HIDE DEF g, Value
  <2> QED BY <2>2
<1>3. ASSUME NEW n \in Nat, n \in T PROVE n + 1 \in T
  <2>1. PICK g \in [Sized(n) -> Int] : \A s \in Sized(n) : g[s] = Value(g, s)
    BY <1>3
  <2> DEFINE h == [s \in Sized(n + 1) |-> Value(g, s)]
  <2>2. ASSUME NEW s \in Sized(n + 1), s # {}
        PROVE  /\ Some(s) \in S /\ s \ {Some(s)} \in Sized(n)
               /\ s \ {Some(s)} \in Sized(n + 1)
    <3>1. Some(s) \in s
      BY <2>2, SomeOf
    <3>2. /\ Cardinality(s \ {Some(s)}) = Cardinality(s) - 1
          /\ Cardinality(s) \in Nat /\ Cardinality(s) <= n + 1
      BY <1>1, <2>2, <3>1, FS_RemoveElement
    <3> QED BY <2>2, <3>1, <3>2
  <2>3. h \in [Sized(n + 1) -> Int]
    <3>1. ASSUME NEW s \in Sized(n + 1) PROVE Value(g, s) \in Int
      BY <2>2
    <3> HIDE DEF Value, Sized
    <3> QED BY <3>1
  <2>4. \A s \in Sized(n) : s \in Sized(n + 1) /\ h[s] = g[s]
    <3>1. \A s \in Sized(n) : s \in Sized(n + 1)
      BY <1>1
    <3> HIDE DEF Value, Sized
    <3> QED BY <2>1, <3>1
  <2>5. ASSUME NEW s \in Sized(n + 1) PROVE h[s] = Value(h, s)
    <3>1. h[s] = Value(g, s)
      BY Zenon
    <3>2. s # {} => h[s \ {Some(s)}] = g[s \ {Some(s)}]
      BY <2>2, <2>4
    <3> HIDE DEF h
    <3> QED BY <3>1, <3>2
  <2> HIDE DEF h, Value, Sized
  <2> QED BY <2>3, <2>5
<1>4. Cardinality(S) \in Nat
  BY <1>1
<1>5. Cardinality(S) \in T
  <2> HIDE DEF T
  <2> QED BY <1>2, <1>3, <1>4, NumberInduction
<1>6. Sized(Cardinality(S)) = SUBSET S
  BY FS_Subset
<1>7. PICK g \in [SUBSET S -> Int] : \A s \in SUBSET S : g[s] = Value(g, s)
  <2> HIDE DEF Sized, Value
  <2> QED BY <1>5, <1>6
<1> QED BY <1>7 DEF Added

\* A sum is what any order adds up to, so what MapThenSumSet computes is one.
LEMMA AddedIsSum ==
    ASSUME NEW S, IsFiniteSet(S), NEW f, \A k \in S : f[k] \in Int,
           NEW g \in [SUBSET S -> Int], g = Added(g, f, S)
    PROVE  IsSum(g, f, S)
<1> DEFINE Agrees(s) == \A x \in s : g[s] = f[x] + g[s \ {x}]
           T == {n \in Nat : \A s \in SUBSET S : Cardinality(s) = n => Agrees(s)}
<1>1. \A s \in SUBSET S : IsFiniteSet(s) /\ Cardinality(s) \in Nat
  BY FS_Subset, FS_CardinalityType
<1>2. g[{}] = 0
  BY DEF Added
<1>3. \A s \in SUBSET S : s # {} => /\ Some(s) \in s
                                    /\ g[s] = f[Some(s)] + g[s \ {Some(s)}]
  BY SomeOf DEF Added
<1>4. 0 \in T
  <2>1. \A s \in SUBSET S : Cardinality(s) = 0 => s = {}
    BY <1>1, FS_EmptySet
  <2> QED BY <2>1
<1>5. ASSUME NEW n \in Nat, n \in T PROVE n + 1 \in T
  <2> SUFFICES ASSUME NEW s \in SUBSET S, Cardinality(s) = n + 1, NEW x \in s
               PROVE  g[s] = f[x] + g[s \ {x}]
    OBVIOUS
  <2>1. \A t \in SUBSET S : \A z \in t : Cardinality(t) = n => g[t] = f[z] + g[t \ {z}]
    BY <1>5
  <2> HIDE DEF T, Agrees
  <2>2. PICK y \in s : g[s] = f[y] + g[s \ {y}]
    BY <1>3
  <2>3. CASE x = y
    BY <2>2, <2>3
  <2>4. CASE x # y
    <3>1. ASSUME NEW z \in s
          PROVE  s \ {z} \in SUBSET S /\ Cardinality(s \ {z}) = n
      <4>1. Cardinality(s \ {z}) = Cardinality(s) - 1
        BY <1>1, FS_RemoveElement
      <4> QED BY <4>1
    <3>2. x \in s \ {y} /\ y \in s \ {x}
      BY <2>4
    <3>3. /\ g[s \ {y}] = f[x] + g[(s \ {y}) \ {x}]
          /\ g[s \ {x}] = f[y] + g[(s \ {x}) \ {y}]
      BY <2>1, <3>1, <3>2
    <3>4. (s \ {y}) \ {x} = (s \ {x}) \ {y} /\ (s \ {x}) \ {y} \in SUBSET S
      OBVIOUS
    <3>5. f[x] \in Int /\ f[y] \in Int /\ g[(s \ {x}) \ {y}] \in Int
      BY <3>4
    <3>6. ASSUME NEW a \in Int, NEW b \in Int, NEW c \in Int, NEW d, NEW e, NEW m,
                 d = b + e, e = a + c, m = b + c
          PROVE  d = a + m
      BY <3>6
    <3>7. g[s \ {y}] = f[x] + g[(s \ {x}) \ {y}]
      BY <3>3, <3>4
    <3> QED BY <2>2, <3>3, <3>5, <3>6, <3>7
  <2> QED BY <2>3, <2>4
<1>6. Nat \subseteq T
  <2> HIDE DEF T
  <2> QED BY <1>4, <1>5, NumberInduction
<1>7. \A s \in SUBSET S : \A x \in s : g[s] = f[x] + g[s \ {x}]
  BY <1>1, <1>6
<1> QED BY <1>2, <1>7 DEF IsSum

\* There is one sum.
LEMMA SumUnique ==
    ASSUME NEW S, IsFiniteSet(S), NEW f, NEW g, NEW h,
           IsSum(g, f, S), IsSum(h, f, S)
    PROVE  g = h
<1> DEFINE P == {s \in SUBSET S : g[s] = h[s]}
<1>1. {} \in P
  BY DEF IsSum
<1>2. ASSUME NEW s \in SUBSET S, NEW x \in S \ s, s \in P PROVE s \cup {x} \in P
  <2>1. (s \cup {x}) \ {x} = s /\ x \in s \cup {x} /\ s \cup {x} \in SUBSET S
    OBVIOUS
  <2>2. g[s \cup {x}] = f[x] + g[s] /\ h[s \cup {x}] = f[x] + h[s]
    BY <2>1 DEF IsSum
  <2> QED BY <1>2, <2>1, <2>2
<1>3. ASSUME NEW s \in SUBSET S PROVE g[s] = h[s]
  <2>1. IsFiniteSet(s)
    BY FS_Subset
  <2>2. {} \in P /\ \A t \in SUBSET s : \A x \in s \ t : t \in P => t \cup {x} \in P
    BY <1>1, <1>2
  <2> HIDE DEF P
  <2>3. s \in P
    BY <2>1, <2>2, SetInduction
  <2> QED BY <2>3 DEF P
<1> QED BY <1>3 DEF IsSum

\* Whatever is computed so is a number.
LEMMA AddedTyped ==
    ASSUME NEW S, IsFiniteSet(S), NEW f, \A k \in S : f[k] \in Int,
           NEW g, g = Added(g, f, S)
    PROVE  g \in [SUBSET S -> Int]
<1> DEFINE T == {n \in Nat : \A s \in SUBSET S : Cardinality(s) = n => g[s] \in Int}
<1>1. \A s \in SUBSET S : IsFiniteSet(s) /\ Cardinality(s) \in Nat
  BY FS_Subset, FS_CardinalityType
<1>2. g = [s \in SUBSET S |-> g[s]]
  BY DEF Added
<1>3. \A s \in SUBSET S : g[s] = IF s = {} THEN 0 ELSE f[Some(s)] + g[s \ {Some(s)}]
  BY Zenon DEF Added
<1>4. 0 \in T
  <2>1. \A s \in SUBSET S : Cardinality(s) = 0 => s = {}
    BY <1>1, FS_EmptySet
  <2>2. {} \in SUBSET S /\ g[{}] = 0
    BY <1>3
  <2> QED BY <2>1, <2>2
<1>5. ASSUME NEW n \in Nat, n \in T PROVE n + 1 \in T
  <2> SUFFICES ASSUME NEW s \in SUBSET S, Cardinality(s) = n + 1 PROVE g[s] \in Int
    OBVIOUS
  <2>1. \A t \in SUBSET S : Cardinality(t) = n => g[t] \in Int
    BY <1>5
  <2> HIDE DEF T
  <2>2. s # {}
    <3>1. Cardinality({}) = 0 /\ n + 1 # 0
      BY FS_EmptySet
    <3> QED BY <3>1
  <2>3. Some(s) \in s
    BY <2>2, SomeOf
  <2>4. Cardinality(s \ {Some(s)}) = Cardinality(s) - 1
    BY <1>1, <2>3, FS_RemoveElement
  <2>5. g[s \ {Some(s)}] \in Int
    BY <2>1, <2>4
  <2>6. g[s] = f[Some(s)] + g[s \ {Some(s)}]
    BY <1>3, <2>2, ZenonT(60)
  <2>7. f[Some(s)] \in Int
    BY <2>3
  <2> QED BY <2>5, <2>6, <2>7
<1>6. Nat \subseteq T
  <2> HIDE DEF T
  <2> QED BY <1>4, <1>5, NumberInduction
<1>7. \A s \in SUBSET S : g[s] \in Int
  BY <1>1, <1>6
<1> QED BY <1>2, <1>7

\* The sum of f over S, as it is computed.
SumOver(f, S) == (CHOOSE g : g = Added(g, f, S))[S]

\* The sum that is computed is the sum.
LEMMA SumIs ==
    ASSUME NEW S, IsFiniteSet(S), NEW f, \A k \in S : f[k] \in Int
    PROVE  \E g : IsSum(g, f, S) /\ SumOver(f, S) = g[S]
<1> DEFINE c == CHOOSE g : g = Added(g, f, S)
<1>1. \E g : g = Added(g, f, S)
  BY AddedExists
<1>2. c = Added(c, f, S)
  BY <1>1, Zenon
<1>3. SumOver(f, S) = c[S]
  BY DEF SumOver
<1> HIDE DEF c
<1>4. IsSum(c, f, S)
  BY <1>2, AddedTyped, AddedIsSum
<1> QED BY <1>3, <1>4, Zenon

\* A sum of numbers is a number.
LEMMA SumTyped ==
    ASSUME NEW S, IsFiniteSet(S), NEW f, \A k \in S : f[k] \in Int
    PROVE  SumOver(f, S) \in Int
<1>1. PICK g : IsSum(g, f, S) /\ SumOver(f, S) = g[S]
  BY SumIs
<1> QED BY <1>1 DEF IsSum

\* Nothing sums up to 0.
LEMMA SumEmpty == ASSUME NEW f PROVE SumOver(f, {}) = 0
<1>1. IsFiniteSet({})
  BY FS_EmptySet
<1>2. PICK g : IsSum(g, f, {}) /\ SumOver(f, {}) = g[{}]
  BY <1>1, SumIs
<1> QED BY <1>2 DEF IsSum

\* One element more.
LEMMA SumAdd ==
    ASSUME NEW S, IsFiniteSet(S), NEW f, \A k \in S : f[k] \in Int,
           NEW x \in S
    PROVE  SumOver(f, S) = f[x] + SumOver(f, S \ {x})
<1>1. PICK g : IsSum(g, f, S) /\ SumOver(f, S) = g[S]
  BY SumIs
<1>2. g[S] = f[x] + g[S \ {x}]
  BY <1>1 DEF IsSum
<1> DEFINE R == S \ {x}
           h == [s \in SUBSET R |-> g[s]]
<1>3. IsSum(h, f, R)
  BY <1>1 DEF IsSum
<1>4. IsFiniteSet(R) /\ \A k \in R : f[k] \in Int
  BY FS_Subset
<1>5. h[R] = g[R]
  OBVIOUS
<1> HIDE DEF h, R
<1>6. PICK e : IsSum(e, f, R) /\ SumOver(f, R) = e[R]
  BY <1>4, SumIs
<1>7. e = h
  BY <1>3, <1>4, <1>6, SumUnique
<1> QED BY <1>1, <1>2, <1>5, <1>6, <1>7 DEF R

\* Total, which the model computes, as a sum.
LEMMA TotalIs == ASSUME NEW f PROVE Total(f) = SumOver(f, DOMAIN f)
BY ZenonT(90) DEF Total, MapThenSumSet, MapThenFoldSet, SumOver, Added, Some

\* The same, for the squares.
LEMMA SquareTotalIs ==
    ASSUME NEW f PROVE SquareTotal(f) = SumOver([k \in DOMAIN f |-> f[k] * f[k]], DOMAIN f)
BY ZenonT(90) DEF SquareTotal, MapThenSumSet, MapThenFoldSet, SumOver, Added, Some

\* The total of a subnet sums up its positions.
LEMMA SubnetTotalIs ==
    ASSUME NEW p, NEW n
    PROVE  SubnetTotal(p, n) =
             SumOver(ByValidator(p), {k \in DOMAIN p : p[k].subnet = n})
BY ZenonT(90) DEF SubnetTotal, ByValidator, MapThenSumSet, MapThenFoldSet,
                  SumOver, Added, Some

\* One element more than s, for every function on S.
AddsUp(S, s, x) ==
    \A f : (\A k \in S : f[k] \in Int) =>
              /\ SumOver(f, s) \in Int
              /\ SumOver(f, s \cup {x}) = f[x] + SumOver(f, s)

\* The induction on which the facts about sums rest.
LEMMA SumInduction ==
    ASSUME NEW S, IsFiniteSet(S), NEW P, {} \in P,
           \A s \in SUBSET S : \A x \in S \ s :
               IsFiniteSet(s) /\ AddsUp(S, s, x) /\ s \in P => s \cup {x} \in P
    PROVE  S \in P
<1>1. ASSUME NEW s \in SUBSET S, NEW x \in S \ s, s \in P PROVE s \cup {x} \in P
  <2>1. IsFiniteSet(s) /\ IsFiniteSet(s \cup {x})
    BY FS_Subset
  <2>2. ASSUME NEW f, \A k \in S : f[k] \in Int
        PROVE  SumOver(f, s) \in Int /\ SumOver(f, s \cup {x}) = f[x] + SumOver(f, s)
    <3>1. (s \cup {x}) \ {x} = s /\ x \in s \cup {x}
      OBVIOUS
    <3>2. SumOver(f, s) \in Int
      BY <2>1, <2>2, SumTyped
    <3>3. SumOver(f, s \cup {x}) = f[x] + SumOver(f, (s \cup {x}) \ {x})
      BY <2>1, <2>2, <3>1, SumAdd
    <3> QED BY <3>1, <3>2, <3>3
  <2>3. AddsUp(S, s, x)
    BY <2>2, Zenon DEF AddsUp
  <2> QED BY <1>1, <2>1, <2>3
<1> QED BY <1>1, SetInduction

\* A sum of linear terms is linear.
LEMMA SumLinear ==
    ASSUME NEW S, IsFiniteSet(S), NEW a \in Int, NEW b \in Int,
           NEW f, \A k \in S : f[k] \in Int, NEW e, \A k \in S : e[k] \in Int,
           NEW h, \A k \in S : h[k] = a * f[k] + b * e[k]
    PROVE  SumOver(h, S) = a * SumOver(f, S) + b * SumOver(e, S)
<1> DEFINE P == {s \in SUBSET S : SumOver(h, s) = a * SumOver(f, s) + b * SumOver(e, s)}
<1>1. {} \in P
  <2>1. SumOver(h, {}) = 0 /\ SumOver(f, {}) = 0 /\ SumOver(e, {}) = 0
    BY SumEmpty
  <2> QED BY <2>1
<1>2. \A k \in S : h[k] \in Int
  OBVIOUS
<1>3. ASSUME NEW s \in SUBSET S, NEW x \in S \ s,
             AddsUp(S, s, x),
             s \in P
      PROVE  s \cup {x} \in P
  <2> DEFINE F == SumOver(f, s)
             E == SumOver(e, s)
             H == SumOver(h, s)
  <2>1. /\ F \in Int /\ E \in Int /\ H \in Int
        /\ SumOver(f, s \cup {x}) = f[x] + F
        /\ SumOver(e, s \cup {x}) = e[x] + E
        /\ SumOver(h, s \cup {x}) = h[x] + H
    BY <1>2, <1>3 DEF AddsUp
  <2>2. H = a * F + b * E
    BY <1>3
  <2>3. f[x] \in Int /\ e[x] \in Int /\ h[x] = a * f[x] + b * e[x]
    OBVIOUS
  <2> HIDE DEF F, E, H
  <2>4. h[x] + H = a * (f[x] + F) + b * (e[x] + E)
    BY <2>1, <2>2, <2>3
  <2> QED BY <2>1, <2>4
<1>4. S \in P
  <2> HIDE DEF P
  <2> QED BY <1>1, <1>3, SumInduction
<1> QED BY <1>4

\* What is no larger anywhere does not sum up to more.
LEMMA SumOrder ==
    ASSUME NEW S, IsFiniteSet(S),
           NEW f, \A k \in S : f[k] \in Int, NEW e, \A k \in S : e[k] \in Int,
           \A k \in S : f[k] <= e[k]
    PROVE  SumOver(f, S) <= SumOver(e, S)
<1> DEFINE P == {s \in SUBSET S : SumOver(f, s) <= SumOver(e, s)}
<1>1. {} \in P
  <2>1. SumOver(f, {}) = 0 /\ SumOver(e, {}) = 0
    BY SumEmpty
  <2> QED BY <2>1
<1>2. ASSUME NEW s \in SUBSET S, NEW x \in S \ s,
             AddsUp(S, s, x),
             s \in P
      PROVE  s \cup {x} \in P
  <2>1. /\ SumOver(f, s) \in Int /\ SumOver(f, s \cup {x}) = f[x] + SumOver(f, s)
        /\ SumOver(e, s) \in Int /\ SumOver(e, s \cup {x}) = e[x] + SumOver(e, s)
    BY <1>2 DEF AddsUp
  <2>2. f[x] \in Int /\ e[x] \in Int /\ f[x] <= e[x] /\ SumOver(f, s) <= SumOver(e, s)
    BY <1>2
  <2> QED BY <2>1, <2>2
<1>3. S \in P
  <2> HIDE DEF P
  <2> QED BY <1>1, <1>2, SumInduction
<1> QED BY <1>3

\* A number, once for each.
LEMMA SumConstant ==
    ASSUME NEW S, IsFiniteSet(S), NEW c \in Int, NEW f, \A k \in S : f[k] = c
    PROVE  SumOver(f, S) = c * Cardinality(S)
<1> DEFINE P == {s \in SUBSET S : SumOver(f, s) = c * Cardinality(s)}
<1>1. {} \in P
  <2>1. SumOver(f, {}) = 0 /\ Cardinality({}) = 0
    BY SumEmpty, FS_EmptySet
  <2> QED BY <2>1
<1>2. ASSUME NEW s \in SUBSET S, NEW x \in S \ s, IsFiniteSet(s),
             AddsUp(S, s, x),
             s \in P
      PROVE  s \cup {x} \in P
  <2>1. SumOver(f, s \cup {x}) = c + SumOver(f, s) /\ SumOver(f, s) = c * Cardinality(s)
    BY <1>2 DEF AddsUp
  <2>2. Cardinality(s \cup {x}) = Cardinality(s) + 1 /\ Cardinality(s) \in Nat
    BY <1>2, FS_AddElement, FS_CardinalityType
  <2>3. ASSUME NEW m \in Nat PROVE c + c * m = c * (m + 1)
    OBVIOUS
  <2> QED BY <2>1, <2>2, <2>3
<1>3. S \in P
  <2> HIDE DEF P
  <2> QED BY <1>1, <1>2, SumInduction
<1> QED BY <1>3

\* Nothing negative does not sum up to less than one of its terms.
LEMMA SumPart ==
    ASSUME NEW S, IsFiniteSet(S), NEW f, \A k \in S : f[k] \in Nat
    PROVE  SumOver(f, S) \in Nat /\ \A k \in S : f[k] <= SumOver(f, S)
<1>1. ASSUME NEW s \in SUBSET S PROVE SumOver(f, s) \in Nat
  <2>1. IsFiniteSet(s)
    BY FS_Subset
  <2> DEFINE zero == [k \in s |-> 0]
  <2>2. SumOver(zero, s) = 0 * Cardinality(s)
    BY <2>1, SumConstant
  <2>3. Cardinality(s) \in Nat
    BY <2>1, FS_CardinalityType
  <2>4. /\ \A k \in s : f[k] \in Int /\ zero[k] \in Int /\ zero[k] <= f[k]
    OBVIOUS
  <2> HIDE DEF zero
  <2>5. SumOver(zero, s) <= SumOver(f, s) /\ SumOver(f, s) \in Int
    BY <2>1, <2>4, SumOrder, SumTyped
  <2> QED BY <2>2, <2>3, <2>5
<1>2. ASSUME NEW k \in S PROVE f[k] <= SumOver(f, S)
  <2>1. SumOver(f, S) = f[k] + SumOver(f, S \ {k})
    BY SumAdd
  <2>2. SumOver(f, S \ {k}) \in Nat /\ f[k] \in Nat
    BY <1>1
  <2> QED BY <2>1, <2>2
<1> QED BY <1>1, <1>2

\* The sum of the squared deviations, times the number of terms, is at least
\* each of them: Cauchy's inequality, with what it leaves.
LEMMA Deviations ==
    ASSUME NEW S, IsFiniteSet(S), NEW f, \A k \in S : f[k] \in Int,
           NEW q, \A k \in S : q[k] = f[k] * f[k],
           NEW c, c = Cardinality(S), NEW F, F = SumOver(f, S), NEW k \in S
    PROVE  (c * f[k] - F) * (c * f[k] - F) <= c * (c * SumOver(q, S) - F * F)
<1> DEFINE one == [j \in S |-> 1]
           u == [j \in S |-> (c * c) * q[j] + (-(2 * c * F)) * f[j]]
           v == [j \in S |-> (c * f[j] - F) * (c * f[j] - F)]
           Q == SumOver(q, S)
           U == SumOver(u, S)
           V == SumOver(v, S)
<1>1. c \in Nat /\ F \in Int
  BY FS_CardinalityType, SumTyped
<1>2. \A j \in S : q[j] \in Int
  OBVIOUS
<1>3. Q \in Int
  BY <1>2, SumTyped
<1>4. c * c \in Int /\ -(2 * c * F) \in Int /\ F * F \in Int
  BY <1>1
<1>5. \A j \in S : u[j] \in Int /\ u[j] = (c * c) * q[j] + (-(2 * c * F)) * f[j]
  BY <1>2, <1>4
<1>6. U = (c * c) * Q + (-(2 * c * F)) * F
  <2>1. \A j \in S : u[j] = (c * c) * q[j] + (-(2 * c * F)) * f[j]
    BY <1>5
  <2> HIDE DEF u
  <2> QED BY <1>2, <1>4, <2>1, SumLinear, SMTT(60)
<1>7. SumOver(one, S) = 1 * c /\ \A j \in S : one[j] = 1
  BY SumConstant
<1>8. ASSUME NEW j \in S PROVE v[j] = 1 * u[j] + (F * F) * one[j] /\ v[j] \in Nat
  <2>1. \A x \in Int :
            (c * x - F) * (c * x - F) = (c * c) * (x * x) - 2 * c * F * x + F * F
    BY <1>1, SMTT(60)
  <2>2. u[j] = (c * c) * (f[j] * f[j]) - 2 * c * F * f[j]
    BY <1>1, <1>2, <1>5
  <2>3. v[j] = (c * f[j] - F) * (c * f[j] - F)
    OBVIOUS
  <2>4. \A y \in Int : y * y \in Nat
    OBVIOUS
  <2>5. c * f[j] - F \in Int /\ one[j] = 1
    BY <1>1
  <2> HIDE DEF u, v, one
  <2>6. v[j] \in Nat
    BY <2>3, <2>4, <2>5
  <2>7. v[j] = u[j] + F * F
    BY <2>1, <2>2, <2>3
  <2> QED BY <1>4, <1>5, <2>5, <2>6, <2>7
<1>9. v[k] = (c * f[k] - F) * (c * f[k] - F)
  OBVIOUS
<1> HIDE DEF u, v, one
<1>10. V = 1 * U + (F * F) * SumOver(one, S)
  <2>1. \A j \in S : one[j] \in Int
    BY <1>7
  <2>2. \A j \in S : u[j] \in Int
    BY <1>5
  <2>3. \A j \in S : v[j] = 1 * u[j] + (F * F) * one[j]
    BY <1>8
  <2>4. 1 \in Int /\ F * F \in Int
    BY <1>4
  <2> QED BY <2>1, <2>2, <2>3, <2>4, SumLinear
<1>11. v[k] <= V
  BY <1>8, SumPart
<1> HIDE DEF Q, U, V
<1>12. V = c * (c * Q - F * F)
  <2>1. V = ((c * c) * Q + (-(2 * c * F)) * F) + (F * F) * c
    BY <1>1, <1>3, <1>4, <1>6, <1>7, <1>10
  <2>2. ((c * c) * Q + (-(2 * c * F)) * F) + (F * F) * c = c * (c * Q - F * F)
    BY <1>1, <1>3
  <2> QED BY <2>1, <2>2
<1> QED BY <1>9, <1>11, <1>12 DEF Q

\* The square of a sum is no more than the number of terms times their squares.
LEMMA Cauchy ==
    ASSUME NEW S, IsFiniteSet(S), S # {}, NEW f, \A k \in S : f[k] \in Int,
           NEW q, \A k \in S : q[k] = f[k] * f[k]
    PROVE  SumOver(f, S) * SumOver(f, S) <= Cardinality(S) * SumOver(q, S)
<1> DEFINE c == Cardinality(S)
           F == SumOver(f, S)
           Q == SumOver(q, S)
<1>1. c \in Nat /\ F \in Int /\ Q \in Int
  <2>1. \A k \in S : q[k] \in Int
    OBVIOUS
  <2> QED BY <2>1, FS_CardinalityType, SumTyped
<1>2. c # 0
  BY FS_EmptySet
<1>3. PICK k \in S : TRUE
  OBVIOUS
<1>4. (c * f[k] - F) * (c * f[k] - F) <= c * (c * Q - F * F)
  BY Deviations
<1>5. f[k] \in Int
  OBVIOUS
<1> HIDE DEF c, F, Q
<1>6. c * (c * Q - F * F) >= 0
  <2>1. c * f[k] - F \in Int
    BY <1>1, <1>5
  <2>2. \A y \in Int : y * y \in Int /\ y * y >= 0
    OBVIOUS
  <2>3. c * (c * Q - F * F) \in Int
    BY <1>1
  <2> QED BY <1>4, <2>1, <2>2, <2>3
<1>7. c * Q - F * F >= 0
  <2>1. c * Q - F * F \in Int
    BY <1>1
  <2>2. \A d \in Int : c * d >= 0 => d >= 0
    BY <1>1, <1>2
  <2> QED BY <1>6, <2>1, <2>2
<1>8. F * F <= c * Q
  BY <1>1, <1>7
<1> QED BY <1>8 DEF c, F, Q

\* The largest of finitely many numbers is one of them.
LEMMA MaxOf ==
    ASSUME NEW S, IsFiniteSet(S), S # {}, S \subseteq Int
    PROVE  Max(S) \in S /\ \A x \in S : x <= Max(S)
<1> DEFINE P == {s \in SUBSET S : s = {} \/ \E m \in s : \A x \in s : x <= m}
<1>1. ASSUME NEW s \in SUBSET S, NEW y \in S \ s, s \in P PROVE s \cup {y} \in P
  <2>1. CASE s = {}
    BY <2>1
  <2>2. CASE s # {}
    <3>1. PICK m \in s : \A x \in s : x <= m
      BY <1>1, <2>2
    <3>2. CASE y <= m
      <4>1. m \in s \cup {y} /\ \A x \in s \cup {y} : x <= m
        BY <3>1, <3>2
      <4> QED BY <4>1
    <3>3. CASE ~(y <= m)
      <4>1. y \in s \cup {y} /\ \A x \in s \cup {y} : x <= y
        BY <3>1, <3>3
      <4> QED BY <4>1
    <3> QED BY <3>2, <3>3
  <2> QED BY <2>1, <2>2
<1>2. S \in P
  <2>1. {} \in P
    OBVIOUS
  <2> HIDE DEF P
  <2> QED BY <1>1, <2>1, SetInduction
<1>3. \E m \in S : \A x \in S : m >= x
  BY <1>2
<1>4. Max(S) \in S /\ \A x \in S : Max(S) >= x
  BY <1>3, Zenon DEF Max
<1> QED BY <1>4

\* The image of a finite set is finite.
LEMMA ImageFinite ==
    ASSUME NEW S, IsFiniteSet(S), NEW f PROVE IsFiniteSet({f[k] : k \in S})
<1> DEFINE P == {s \in SUBSET S : IsFiniteSet({f[k] : k \in s})}
<1>1. {} \in P
  <2>1. {f[k] : k \in {}} = {}
    OBVIOUS
  <2> QED BY <2>1, FS_EmptySet
<1>2. ASSUME NEW s \in SUBSET S, NEW x \in S \ s, s \in P PROVE s \cup {x} \in P
  <2>1. {f[k] : k \in s \cup {x}} = {f[k] : k \in s} \cup {f[x]}
    OBVIOUS
  <2>2. IsFiniteSet({f[k] : k \in s})
    BY <1>2
  <2>3. IsFiniteSet({f[k] : k \in s} \cup {f[x]})
    <3> DEFINE T == {f[k] : k \in s}
    <3> HIDE DEF T
    <3>1. IsFiniteSet(T \cup {f[x]})
      BY <2>2, FS_AddElement DEF T
    <3> QED BY <3>1 DEF T
  <2> QED BY <2>1, <2>3
<1>3. S \in P
  <2> HIDE DEF P
  <2> QED BY <1>1, <1>2, SetInduction
<1> QED BY <1>3

\* The concentration is the largest part.
LEMMA Concentrates ==
    ASSUME NEW f, IsFiniteSet(DOMAIN f), DOMAIN f # {}, \A k \in DOMAIN f : f[k] \in Int
    PROVE  /\ \E k \in DOMAIN f : Concentration(f) = f[k]
           /\ \A k \in DOMAIN f : f[k] <= Concentration(f)
<1> DEFINE S == {f[k] : k \in DOMAIN f}
<1>1. IsFiniteSet(S)
  BY ImageFinite
<1>2. S # {} /\ S \subseteq Int
  OBVIOUS
<1>3. Max(S) \in S /\ \A x \in S : x <= Max(S)
  <2> HIDE DEF S
  <2> QED BY <1>1, <1>2, MaxOf
<1> QED BY <1>3, Zenon DEF Concentration

\* The square of a sum is no less than the sum of the squares.
LEMMA SquareOfSum ==
    ASSUME NEW S, IsFiniteSet(S), NEW f, \A k \in S : f[k] \in Nat,
           NEW q, \A k \in S : q[k] = f[k] * f[k]
    PROVE  SumOver(q, S) <= SumOver(f, S) * SumOver(f, S)
<1> DEFINE P == {s \in SUBSET S : SumOver(q, s) <= SumOver(f, s) * SumOver(f, s)}
<1>1. {} \in P
  <2>1. SumOver(q, {}) = 0 /\ SumOver(f, {}) = 0
    BY SumEmpty
  <2> QED BY <2>1
<1>2. ASSUME NEW s \in SUBSET S, NEW x \in S \ s, IsFiniteSet(s),
             AddsUp(S, s, x),
             s \in P
      PROVE  s \cup {x} \in P
  <2> DEFINE F == SumOver(f, s)
             Q == SumOver(q, s)
  <2>1. \A k \in S : q[k] \in Int /\ f[k] \in Int
    OBVIOUS
  <2>2. Q \in Int /\ SumOver(q, s \cup {x}) = f[x] * f[x] + Q
    BY <1>2, <2>1 DEF AddsUp
  <2>3. F \in Int /\ SumOver(f, s \cup {x}) = f[x] + F
    BY <1>2, <2>1 DEF AddsUp
  <2>4. F \in Nat
    BY <1>2, SumPart
  <2>5. Q <= F * F /\ f[x] \in Nat
    BY <1>2
  <2> HIDE DEF F, Q
  <2>6. f[x] * f[x] + Q <= (f[x] + F) * (f[x] + F)
    <3>1. (f[x] + F) * (f[x] + F) = f[x] * f[x] + 2 * (f[x] * F) + F * F
      BY <2>4, <2>5
    <3>2. f[x] * F \in Nat /\ f[x] * f[x] \in Nat /\ F * F \in Nat
      BY <2>4, <2>5
    <3> QED BY <2>2, <2>5, <3>1, <3>2
  <2> QED BY <2>2, <2>3, <2>6
<1>3. S \in P
  <2> HIDE DEF P
  <2> QED BY <1>1, <1>2, SumInduction
<1> QED BY <1>3

\* What is split in two sums up as its parts.
LEMMA SumUnion ==
    ASSUME NEW S, IsFiniteSet(S), NEW T, IsFiniteSet(T), S \cap T = {},
           NEW f, \A k \in S \cup T : f[k] \in Int
    PROVE  SumOver(f, S \cup T) = SumOver(f, S) + SumOver(f, T)
<1> DEFINE P == {s \in SUBSET T : SumOver(f, S \cup s) = SumOver(f, S) + SumOver(f, s)}
<1>1. {} \in P
  <2>1. SumOver(f, {}) = 0 /\ SumOver(f, S) \in Int /\ S \cup {} = S
    BY SumEmpty, SumTyped
  <2> QED BY <2>1
<1>2. ASSUME NEW s \in SUBSET T, NEW x \in T \ s, IsFiniteSet(s),
             AddsUp(T, s, x),
             s \in P
      PROVE  s \cup {x} \in P
  <2>1. SumOver(f, s) \in Int /\ SumOver(f, s \cup {x}) = f[x] + SumOver(f, s)
    BY <1>2 DEF AddsUp
  <2>2. IsFiniteSet(S \cup s) /\ IsFiniteSet((S \cup s) \cup {x})
    BY <1>2, FS_Union, FS_AddElement
  <2>3. ((S \cup s) \cup {x}) \ {x} = S \cup s /\ x \in (S \cup s) \cup {x}
    OBVIOUS
  <2>4. \A k \in (S \cup s) \cup {x} : f[k] \in Int
    OBVIOUS
  <2>5. SumOver(f, (S \cup s) \cup {x}) = f[x] + SumOver(f, S \cup s)
    BY <2>2, <2>3, <2>4, SumAdd
  <2>6. /\ SumOver(f, S \cup s) = SumOver(f, S) + SumOver(f, s)
        /\ SumOver(f, S) \in Int /\ f[x] \in Int
    BY <1>2, SumTyped
  <2>7. SumOver(f, (S \cup s) \cup {x}) = SumOver(f, S) + SumOver(f, s \cup {x})
    BY <2>1, <2>5, <2>6
  <2>8. S \cup (s \cup {x}) = (S \cup s) \cup {x}
    OBVIOUS
  <2> QED BY <2>7, <2>8
<1>3. T \in P
  <2> HIDE DEF P
  <2> QED BY <1>1, <1>2, SumInduction
<1> QED BY <1>3

----------------------------------------------------------------------------
\* A wallet is no less concentrated by subnet than by validator, in share of
\* the largest and in HHI, for any number of positions in any subnets.
THEOREM CoarserBySubnet ==
    ASSUME NEW s, IsFiniteSet(DOMAIN s), DOMAIN s # {},
           \A k \in DOMAIN s : s[k].amount \in Nat
    PROVE  /\ Concentration(BySubnetTotals(s)) >= Concentration(ByValidator(s))
           /\ Hhi(BySubnetTotals(s)) >= Hhi(ByValidator(s))
<1> DEFINE D == DOMAIN s
           N == SubnetsOf(s)
           K(n) == {k \in D : s[k].subnet = n}
           a == ByValidator(s)
           t == BySubnetTotals(s)
           qa == [k \in D |-> a[k] * a[k]]
           qt == [n \in N |-> t[n] * t[n]]
           In(M) == {k \in D : s[k].subnet \in M}
<1>1. /\ DOMAIN a = D /\ DOMAIN t = N
      /\ \A k \in D : a[k] \in Nat /\ s[k].subnet \in N /\ k \in K(s[k].subnet)
      /\ \A n \in N : t[n] = SubnetTotal(s, n)
  BY DEF ByValidator, BySubnetTotals, SubnetsOf
<1>2. N = {s[k].subnet : k \in D}
  BY DEF SubnetsOf
<1>3. IsFiniteSet(N) /\ N # {}
  <2> DEFINE f == [k \in D |-> s[k].subnet]
  <2>1. N = {f[k] : k \in D}
    BY <1>2
  <2> HIDE DEF f, N
  <2> QED BY <2>1, ImageFinite
<1>4. ASSUME NEW M PROVE IsFiniteSet(In(M)) /\ \A k \in In(M) : a[k] \in Nat
  BY <1>1, FS_Subset
<1>5. ASSUME NEW n \in N
      PROVE  /\ IsFiniteSet(K(n)) /\ K(n) \subseteq D /\ \A k \in K(n) : a[k] \in Nat
             /\ t[n] = SumOver(a, K(n)) /\ t[n] \in Nat
  <2>1. IsFiniteSet(K(n)) /\ K(n) \subseteq D /\ \A k \in K(n) : a[k] \in Nat
    BY <1>1, FS_Subset
  <2>2. SubnetTotal(s, n) = SumOver(a, K(n))
    BY SubnetTotalIs
  <2> HIDE DEF K, a, t
  <2> QED BY <1>1, <2>1, <2>2, SumPart
<1> HIDE DEF N, a, t, K, In, qa, qt
<1>6. Concentration(t) >= Concentration(a)
  <2>1. PICK k \in D : Concentration(a) = a[k]
    BY <1>1, Concentrates
  <2>2. PICK n \in N : n = s[k].subnet
    BY <1>1
  <2>3. a[k] <= t[n]
    <3>1. k \in K(n)
      BY <2>2 DEF K
    <3> QED BY <1>5, <3>1, SumPart
  <2>4. /\ t[n] <= Concentration(t) /\ Concentration(t) \in Int
    BY <1>1, <1>3, <1>5, Concentrates
  <2> QED BY <1>1, <1>5, <2>1, <2>3, <2>4
<1>7. \A k \in D : qa[k] = a[k] * a[k] /\ qa[k] \in Int
  BY <1>1 DEF qa
<1>8. \A n \in N : qt[n] = t[n] * t[n] /\ qt[n] \in Int
  BY <1>5 DEF qt
<1>9. SumOver(qa, D) <= SumOver(qt, N)
  <2> DEFINE P == {M \in SUBSET N : SumOver(qa, In(M)) <= SumOver(qt, M)}
  <2>1. {} \in P
    <3>1. In({}) = {} /\ SumOver(qa, {}) = 0 /\ SumOver(qt, {}) = 0
      BY SumEmpty DEF In
    <3> QED BY <3>1
  <2>2. ASSUME NEW M \in SUBSET N, NEW n \in N \ M, IsFiniteSet(M),
               AddsUp(N, M, n),
               M \in P
        PROVE  M \cup {n} \in P
    <3>1. SumOver(qt, M) \in Int /\ SumOver(qt, M \cup {n}) = t[n] * t[n] + SumOver(qt, M)
      BY <1>8, <2>2 DEF AddsUp
    <3>2. SumOver(qa, K(n)) <= t[n] * t[n]
      <4>1. \A k \in K(n) : qa[k] = a[k] * a[k]
        BY <1>5, <1>7
      <4> QED BY <1>5, <4>1, SquareOfSum
    <3>3. In(M \cup {n}) = In(M) \cup K(n) /\ In(M) \cap K(n) = {}
      BY DEF In, K
    <3>4. \A k \in In(M) \cup K(n) : qa[k] \in Int
      BY <1>7 DEF In, K
    <3>5. IsFiniteSet(In(M)) /\ IsFiniteSet(K(n))
      BY <1>4, <1>5
    <3>6. SumOver(qa, In(M)) <= SumOver(qt, M)
      BY <2>2
    <3> HIDE DEF P
    <3>7. SumOver(qa, In(M) \cup K(n)) = SumOver(qa, In(M)) + SumOver(qa, K(n))
      BY <3>3, <3>4, <3>5, SumUnion
    <3>8. SumOver(qa, In(M)) \in Int /\ SumOver(qa, K(n)) \in Int /\ t[n] * t[n] \in Int
      BY <1>5, <3>4, <3>5, SumTyped
    <3>9. SumOver(qa, In(M) \cup K(n)) <= SumOver(qt, M \cup {n})
      <4>1. ASSUME NEW u \in Int, NEW v \in Int, NEW w \in Int, NEW x \in Int,
                   u <= v, w <= x
            PROVE  u + w <= x + v
        BY <4>1
      <4> QED BY <3>1, <3>2, <3>6, <3>7, <3>8, <4>1
    <3>10. In(M \cup {n}) = In(M) \cup K(n)
      BY <3>3
    <3> QED BY <3>9, <3>10 DEF P
  <2>3. N \in P
    <3> HIDE DEF P
    <3> QED BY <1>3, <2>1, <2>2, SumInduction
  <2>4. In(N) = D
    BY <1>1 DEF In
  <2> QED BY <2>3, <2>4
<1>10. Hhi(a) = SumOver(qa, D) /\ Hhi(t) = SumOver(qt, N)
  BY <1>1, SquareTotalIs DEF Hhi, qa, qt
<1>11. SumOver(qa, D) \in Int /\ SumOver(qt, N) \in Int
  BY <1>3, <1>7, <1>8, SumTyped
<1>12. Hhi(t) >= Hhi(a)
  BY <1>9, <1>10, <1>11
<1> QED BY <1>6, <1>12 DEF a, t

\* The statement that TLC checks within the bounds holds within any.
THEOREM CoarserWithinBounds == SubnetsCoarser
<1> SUFFICES ASSUME NEW n \in 1..MaxPositions,
                    NEW s \in [1..n -> [subnet : {0, 1}, amount : Amounts \ {0}]]
             PROVE  /\ Concentration(BySubnetTotals(s)) >= Concentration(ByValidator(s))
                    /\ Hhi(BySubnetTotals(s)) >= Hhi(ByValidator(s))
  BY DEF SubnetsCoarser, Positions
<1>1. DOMAIN s = 1..n /\ 1 \in 1..n
  BY BoundsAssumption
<1>2. IsFiniteSet(1..n)
  BY FS_Interval
<1>3. \A k \in DOMAIN s : s[k].amount \in Nat
  BY BoundsAssumption
<1> QED BY <1>1, <1>2, <1>3, CoarserBySubnet

\* A range of n numbers has n.
LEMMA Counted ==
    ASSUME NEW n \in Nat PROVE IsFiniteSet(1..n) /\ Cardinality(1..n) = n
BY FS_Interval

\* What a sequence consists of.
LEMMA InSequence ==
    ASSUME NEW T, NEW s \in Seq(T)
    PROVE  /\ Len(s) \in Nat /\ DOMAIN s = 1..Len(s)
           /\ \A k \in DOMAIN s : s[k] \in T
OBVIOUS

\* A function on 1..n is a sequence.
LEMMA IsSequence ==
    ASSUME NEW T, NEW n \in Nat, NEW s \in [1..n -> T]
    PROVE  s \in Seq(T) /\ Len(s) = n
OBVIOUS

----------------------------------------------------------------------------
\* One day against the sum r of the others, of which there are m: when it is
\* worth more than they are, the spread is above the bound.
LEMMA OneDay ==
    ASSUME NEW m \in Nat, m >= 2, NEW r \in Nat, NEW u \in Nat \ {0},
           NEW q \in Int, r * r <= m * q
    PROVE  10000 * ((m + 1) * ((r + u) * (r + u) + q) - (2 * r + u) * (2 * r + u))
             > 1225 * ((2 * r + u) * (2 * r + u))
<1> DEFINE rr == r * r
           ru == r * u
           uu == u * u
           X == (m + 1) * ((r + u) * (r + u) + q)
           Y == (2 * r + u) * (2 * r + u)
<1>1. rr \in Nat /\ ru \in Nat /\ uu \in Nat \ {0} /\ rr <= m * q
  OBVIOUS
<1>2. (r + u) * (r + u) = rr + 2 * ru + uu /\ Y = 4 * rr + 4 * ru + uu
  OBVIOUS
<1>3. X \in Int /\ Y \in Int
  OBVIOUS
<1>4. X = (m + 1) * (rr + 2 * ru + uu + q)
  BY <1>2
<1> HIDE DEF rr, ru, uu, X, Y
\* What follows is multiplied by m.
<1>5. m * X >= (m + 1) * ((m + 1) * rr + 2 * (m * ru) + m * uu)
  <2>1. m * X = (m + 1) * (m * rr + 2 * (m * ru) + m * uu + m * q)
    BY <1>1, <1>4
  <2>2. m * rr + 2 * (m * ru) + m * uu + m * q >= (m + 1) * rr + 2 * (m * ru) + m * uu
    <3>1. (m + 1) * rr = m * rr + rr
      BY <1>1
    <3>2. m * rr \in Int /\ m * ru \in Int /\ m * uu \in Int /\ m * q \in Int
      BY <1>1
    <3> QED BY <1>1, <3>1, <3>2
  <2>3. ASSUME NEW a \in Int, NEW b \in Int, a >= b PROVE (m + 1) * a >= (m + 1) * b
    BY <2>3
  <2>4. /\ m * rr + 2 * (m * ru) + m * uu + m * q \in Int
        /\ (m + 1) * rr + 2 * (m * ru) + m * uu \in Int
    BY <1>1
  <2> QED BY <2>1, <2>2, <2>3, <2>4
<1>6. (m + 1) * ((m + 1) * rr + 2 * (m * ru) + m * uu)
        = ((m + 1) * (m + 1)) * rr + 2 * ((m + 1) * (m * ru)) + (m + 1) * (m * uu)
  BY <1>1
<1>7. 10000 * (((m + 1) * (m + 1)) * rr) >= 44900 * (m * rr)
  <2>1. 10000 * ((m + 1) * (m + 1)) >= 44900 * m
    <3>1. (m + 1) * (m + 1) = m * m + 2 * m + 1
      OBVIOUS
    <3>2. CASE m = 2
      BY <3>2
    <3>3. CASE m >= 3
      <4>1. m * m >= 3 * m
        BY <3>3
      <4> QED BY <3>1, <4>1
    <3> QED BY <3>2, <3>3
  <2>2. ASSUME NEW a \in Int, NEW b \in Int, a >= b PROVE a * rr >= b * rr
    BY <1>1, <2>2
  <2>3. (10000 * ((m + 1) * (m + 1))) * rr >= (44900 * m) * rr
    BY <2>1, <2>2
  <2> QED BY <1>1, <2>3
<1>8. (m + 1) * (m * ru) >= 3 * (m * ru) /\ (m + 1) * (m * uu) >= 3 * (m * uu)
  <2>1. m * ru \in Nat /\ m * uu \in Nat
    BY <1>1
  <2>2. ASSUME NEW a \in Nat PROVE (m + 1) * a >= 3 * a
    <3>1. (m + 1) * a = m * a + a /\ m * a >= 2 * a
      OBVIOUS
    <3> QED BY <3>1
  <2> QED BY <2>1, <2>2
<1>9. m * rr \in Nat /\ m * ru \in Nat /\ m * uu \in Nat \ {0}
  BY <1>1
<1>10. m * Y = 4 * (m * rr) + 4 * (m * ru) + m * uu
  BY <1>1, <1>2
<1>11. 10000 * (m * X) > 11225 * (m * Y)
  <2>1. /\ ((m + 1) * (m + 1)) * rr \in Int /\ (m + 1) * (m * ru) \in Int
        /\ (m + 1) * (m * uu) \in Int /\ m * X \in Int /\ m * Y \in Int
    BY <1>1, <1>3
  <2>2. m * X >= ((m + 1) * (m + 1)) * rr + 2 * ((m + 1) * (m * ru)) + (m + 1) * (m * uu)
    BY <1>5, <1>6
  <2> QED BY <1>7, <1>8, <1>9, <1>10, <2>1, <2>2
<1>12. 10000 * X > 11225 * Y
  <2>1. ASSUME NEW a \in Int, NEW b \in Int, m * a > m * b PROVE a > b
    BY <2>1
  <2>2. m * (10000 * X) > m * (11225 * Y)
    BY <1>3, <1>11
  <2> QED BY <1>3, <2>1, <2>2
<1>13. 10000 * (X - Y) > 1225 * Y
  BY <1>3, <1>12
<1> QED BY <1>13 DEF X, Y

\* A low band means three validators at least.
THEOREM LowTakesThree ==
    ASSUME NEW s \in Seq([subnet : Int, amount : Nat \ {0}]), s # <<>>,
           NEW daily, RiskBand(s, daily) = "low"
    PROVE  Len(s) >= 3
<1> DEFINE D == DOMAIN s
           a == ByValidator(s)
           M == Concentration(a)
           A == SumOver(a, D)
           f == [k \in D |-> M]
<1>1. ~Concentrated(s, 40)
  BY DEF RiskBand
<1>2. /\ D = 1..Len(s) /\ Len(s) \in Nat \ {0} /\ D # {}
      /\ DOMAIN a = D /\ \A k \in D : a[k] \in Nat \ {0}
  <2>1. D = 1..Len(s) /\ Len(s) \in Nat \ {0}
    OBVIOUS
  <2>2. ASSUME NEW k \in D PROVE s[k].amount \in Nat \ {0}
    <3>1. s[k] \in [subnet : Int, amount : Nat \ {0}]
      BY InSequence
    <3> QED BY <3>1
  <2>3. a = [k \in D |-> s[k].amount]
    BY DEF ByValidator
  <2>4. DOMAIN a = D /\ \A k \in D : a[k] = s[k].amount
    <3> HIDE DEF D, a
    <3> QED BY <2>3
  <2>5. D # {}
    <3>1. 1 \in 1..Len(s)
      BY <2>1
    <3> QED BY <2>1, <3>1
  <2>6. \A k \in D : a[k] \in Nat \ {0}
    <3> HIDE DEF D, a
    <3> QED BY <2>2, <2>4
  <2> HIDE DEF D, a
  <2> QED BY <2>1, <2>4, <2>5, <2>6
<1>3. IsFiniteSet(D) /\ Cardinality(D) = Len(s)
  <2> HIDE DEF D
  <2> QED BY <1>2, Counted
<1> HIDE DEF D, a
<1>4. (\E k \in D : M = a[k]) /\ \A k \in D : a[k] <= M
  <2>1. IsFiniteSet(DOMAIN a) /\ DOMAIN a # {} /\ \A k \in DOMAIN a : a[k] \in Int
    BY <1>2, <1>3
  <2> QED BY <1>2, <2>1, Concentrates
<1>5. M \in Nat \ {0}
  BY <1>2, <1>4
<1> HIDE DEF M
<1>6. \A k \in D : f[k] = M
  OBVIOUS
<1> HIDE DEF f
<1>7. SumOver(f, D) = M * Len(s)
  <2>1. SumOver(f, D) = M * Cardinality(D)
    <3>1. M \in Int
      BY <1>5
    <3> QED BY <1>3, <1>6, <3>1, SumConstant
  <2> QED BY <1>3, <2>1
<1>8. A <= SumOver(f, D) /\ A \in Int
  <2>1. ASSUME NEW k \in D PROVE a[k] \in Int /\ f[k] \in Int /\ a[k] <= f[k]
    <3>1. a[k] \in Int /\ a[k] <= M
      BY <1>2, <1>4
    <3>2. f[k] = M /\ M \in Int
      BY <1>5, <1>6
    <3> QED BY <3>1, <3>2
  <2> QED BY <1>3, <2>1, SumOrder, SumTyped
<1>9. 100 * M <= 40 * A
  <2>1. Total(a) = A
    BY <1>2, TotalIs
  <2>2. ~(100 * M > 40 * A)
    BY <1>1, <2>1 DEF Concentrated, M, a
  <2> QED BY <1>5, <1>8, <2>2
<1> HIDE DEF A
<1>10. CASE Len(s) <= 2
  <2>1. M * Len(s) <= 2 * M
    BY <1>2, <1>5, <1>10
  <2>2. M * Len(s) \in Int
    BY <1>2, <1>5
  <2> QED BY <1>5, <1>7, <1>8, <1>9, <2>1, <2>2
<1> QED BY <1>2, <1>10

\* A low band means that no day of the history is worth more than all the
\* others together, if it has three that are worth more than their number.
THEOREM LowHasNoPeak ==
    ASSUME NEW s, NEW daily \in Seq(Nat), RiskBand(s, daily) = "low",
           Len(daily) >= 3, Total(daily) > Len(daily), NEW k \in DOMAIN daily
    PROVE  2 * daily[k] <= Total(daily)
<1> DEFINE D == DOMAIN daily
           n == Len(daily)
           q == [j \in D |-> daily[j] * daily[j]]
           S == SumOver(daily, D)
           Q == SumOver(q, D)
           R == D \ {k}
           d == daily[k]
           r == SumOver(daily, R)
           p == SumOver(q, R)
<1>1. ~Volatile(daily, 35)
  BY DEF RiskBand
<1>2. D = 1..n /\ n \in Nat /\ n >= 3 /\ k \in D /\ \A j \in D : daily[j] \in Nat
  BY InSequence
<1>3. IsFiniteSet(D) /\ Cardinality(D) = n
  <2> HIDE DEF D, n
  <2> QED BY <1>2, Counted
<1>4. Total(daily) = S /\ SquareTotal(daily) = Q
  BY TotalIs, SquareTotalIs
<1>5. \A j \in D : q[j] = daily[j] * daily[j] /\ q[j] \in Int /\ daily[j] \in Int
  BY <1>2
<1> HIDE DEF D, n, q
<1>6. IsFiniteSet(R) /\ Cardinality(R) = n - 1 /\ R \subseteq D
  <2>1. IsFiniteSet(R) /\ R \subseteq D
    BY <1>3, FS_Subset
  <2>2. Cardinality(R) = Cardinality(D) - 1
    BY <1>2, <1>3, FS_RemoveElement
  <2> QED BY <1>3, <2>1, <2>2
<1>7. S = d + r /\ Q = d * d + p /\ d \in Nat
  <2>1. k \in D /\ \A j \in D : daily[j] \in Int /\ q[j] \in Int
    BY <1>2, <1>5
  <2>2. S = d + r
    BY <1>3, <2>1, SumAdd
  <2>3. Q = q[k] + p
    BY <1>3, <2>1, SumAdd
  <2> QED BY <1>2, <1>5, <2>2, <2>3
<1>8. r \in Nat
  BY <1>2, <1>6, SumPart
<1>9. p \in Int
  BY <1>5, <1>6, SumTyped
<1>10. r * r <= (n - 1) * p
  <2>1. R # {}
    <3>1. n - 1 # 0
      BY <1>2
    <3> QED BY <1>6, <3>1, FS_EmptySet
  <2>2. \A j \in R : daily[j] \in Int /\ q[j] = daily[j] * daily[j]
    BY <1>5, <1>6
  <2> HIDE DEF R
  <2> QED BY <1>6, <2>1, <2>2, Cauchy
<1>11. ~(10000 * (n * Q - S * S) > 1225 * S * S)
  <2>1. Total(daily) > n
    BY DEF n
  <2> QED BY <1>1, <1>2, <1>4, <2>1 DEF Volatile, n
<1> HIDE DEF S, Q, R, d, r, p
<1>12. ASSUME d > r PROVE FALSE
  <2> DEFINE m == n - 1
             u == d - r
  <2>1. m \in Nat /\ m >= 2 /\ u \in Nat \ {0} /\ n = m + 1 /\ d = r + u
    BY <1>2, <1>7, <1>8, <1>12
  <2>2. r * r <= m * p
    BY <1>10
  <2> HIDE DEF m, u
  <2>3. 10000 * ((m + 1) * ((r + u) * (r + u) + p) - (2 * r + u) * (2 * r + u))
          > 1225 * ((2 * r + u) * (2 * r + u))
    BY <1>8, <1>9, <2>1, <2>2, OneDay
  <2>4. S = 2 * r + u /\ Q = (r + u) * (r + u) + p
    BY <1>7, <1>8, <2>1
  <2>5. 1225 * S * S = 1225 * (S * S)
    BY <1>7, <1>8
  <2>6. 10000 * (n * Q - S * S) > 1225 * S * S
    BY <2>1, <2>3, <2>4, <2>5
  <2> QED BY <1>11, <2>6
<1>13. 2 * d <= S
  BY <1>7, <1>8, <1>12
<1> QED BY <1>4, <1>13 DEF d

\* The statement that TLC checks within the bounds holds within any.
THEOREM LowWithinBounds == LowIsSpread
<1>1. ASSUME NEW s \in Positions, NEW daily \in Histories,
             RiskBand(s, daily) = "low"
      PROVE  /\ Len(s) >= 3
             /\ Len(daily) >= 3 /\ Total(daily) > Len(daily) =>
                    \A k \in DOMAIN daily : 2 * daily[k] <= Total(daily)
  <2>1. PICK m \in 1..MaxPositions :
          s \in [1..m -> [subnet : {0, 1}, amount : Amounts \ {0}]]
    BY <1>1 DEF Positions
  <2>2. s \in Seq([subnet : Int, amount : Nat \ {0}]) /\ s # <<>>
    <3>1. m \in Nat /\ m >= 1
      BY BoundsAssumption
    <3>2. ASSUME NEW r \in [subnet : {0, 1}, amount : Amounts \ {0}]
          PROVE  r \in [subnet : Int, amount : Nat \ {0}]
      <4>1. Amounts \ {0} \subseteq Nat \ {0} /\ {0, 1} \subseteq Int
        BY BoundsAssumption
      <4> QED BY <4>1
    <3>3. s \in [1..m -> [subnet : Int, amount : Nat \ {0}]]
      BY <2>1, <3>2
    <3>4. s \in Seq([subnet : Int, amount : Nat \ {0}]) /\ Len(s) = m
      BY <3>1, <3>3, IsSequence
    <3>5. m # 0 /\ Len(<<>>) = 0
      BY <3>1
    <3> QED BY <3>4, <3>5
  <2>3. PICK n \in 0..MaxPositions : daily \in [1..n -> Amounts]
    BY <1>1 DEF Histories
  <2>4. daily \in Seq(Nat)
    <3>1. n \in Nat /\ Amounts \subseteq Nat
      BY BoundsAssumption
    <3>2. daily \in [1..n -> Nat]
      BY <2>3, <3>1
    <3> QED BY <3>1, <3>2, IsSequence
  <2>5. Len(s) >= 3
    BY <1>1, <2>2, LowTakesThree
  <2>6. ASSUME Len(daily) >= 3, Total(daily) > Len(daily), NEW k \in DOMAIN daily
        PROVE  2 * daily[k] <= Total(daily)
    BY <1>1, <2>4, <2>6, LowHasNoPeak
  <2> QED BY <2>5, <2>6
<1> QED BY <1>1 DEF LowIsSpread

\* The larger of two numbers.
LEMMA MaxOfTwo ==
    ASSUME NEW a \in Int, NEW b \in Int
    PROVE  Max({a, b}) = IF a >= b THEN a ELSE b
<1>1. IsFiniteSet({a}) /\ {a, b} = {a} \cup {b}
  BY FS_Singleton
<1>2. IsFiniteSet({a, b})
  BY <1>1, FS_AddElement
<1>3. Max({a, b}) \in {a, b} /\ \A x \in {a, b} : x <= Max({a, b})
  BY <1>2, MaxOf
<1> QED BY <1>3

----------------------------------------------------------------------------
\* The last days are the line, if it fills the window or nothing is before it.
LEMMA TrailingLine ==
    ASSUME NEW n \in 0..Window, NEW line \in Seq(Int), Len(line) = n,
           NEW earlier \in Seq(Int), n = Window \/ earlier = <<>>
    PROVE  Trailing(earlier \o line) = line
<1> DEFINE d == earlier \o line
           m == Len(earlier)
<1>1. m \in Nat /\ n \in Nat /\ (n = 14 \/ m = 0) /\ n <= 14
  BY DEF Window
<1>2. /\ d \in Seq(Int) /\ Len(d) = m + n
      /\ \A k \in 1..n : d[m + k] = line[k]
  <2>1. d \in Seq(Int) /\ Len(d) = m + n
    <3>1. earlier \o line \in Seq(Int)
      BY SMTT(60)
    <3>2. Len(earlier \o line) = Len(earlier) + Len(line)
      BY SMTT(60)
    <3> QED BY <3>1, <3>2
  <2>2. ASSUME NEW k \in 1..n PROVE d[m + k] = line[k]
    <3>1. m + k \in 1..(m + n) /\ ~(m + k <= m) /\ (m + k) - m = k
      BY <1>1
    <3> QED BY <1>1, <3>1
  <2> HIDE DEF d, m
  <2> QED BY <2>1, <2>2
<1> HIDE DEF d, m
<1>3. Max({1, Len(d) - Window + 1}) = m + 1
  <2>1. Len(d) - Window + 1 = m + n - 13
    BY <1>1, <1>2 DEF Window
  <2>2. m + n - 13 \in Int
    BY <1>1
  <2>3. Max({1, m + n - 13}) = IF 1 >= m + n - 13 THEN 1 ELSE m + n - 13
    BY <2>2, MaxOfTwo
  <2>4. Max({1, m + n - 13}) = m + 1
    BY <1>1, <2>3
  <2> QED BY <2>1, <2>4
<1>4. Trailing(d) = SubSeq(d, m + 1, m + n)
  BY <1>2, <1>3 DEF Trailing
<1>5. SubSeq(d, m + 1, m + n) = [k \in 1..n |-> d[m + k]]
  BY <1>1, <1>2
<1>6. line = [k \in 1..n |-> line[k]]
  OBVIOUS
<1>7. [k \in 1..n |-> d[m + k]] = [k \in 1..n |-> line[k]]
  BY <1>2
<1> QED BY <1>4, <1>5, <1>6, <1>7 DEF d

\* The sums of the forecast: over the n days of the window, from day 0.
Days(n) == SumOver([k \in 1..n |-> k - 1], 1..n)
DaySquares(n) == SumOver([k \in 1..n |-> (k - 1) * (k - 1)], 1..n)
DayRewards(n, y) == SumOver([k \in 1..n |-> (k - 1) * y[k]], 1..n)
Spread(n) == n * DaySquares(n) - Days(n) * Days(n)
Steepness(n, y) == n * DayRewards(n, y) - Days(n) * SumOver(y, 1..n)
Fitted(n, y, x) ==
    Round(SumOver(y, 1..n) * Spread(n) + Steepness(n, y) * (n * x - Days(n)), n * Spread(n))

\* The first n of y lie on a line.
OnLine(y, n, base, slope) == \A k \in 1..n : y[k] = base + slope * k

\* The forecast is 0 without a history, and fitted to two days or more.
LEMMA ForecastBySums ==
    ASSUME NEW daily, NEW n \in Nat, n = Len(Trailing(daily)), DOMAIN Trailing(daily) = 1..n,
           NEW horizon \in Nat, NEW h \in 1..horizon
    PROVE  /\ n = 0 => Forecast(daily, horizon)[h] = 0
           /\ n >= 2 =>
                Forecast(daily, horizon)[h] = Max({0, Fitted(n, Trailing(daily), n + h - 1)})
<1> DEFINE w == Trailing(daily)
           m == Len(w)
           D == DOMAIN w
           sx == MapThenSumSet(LAMBDA k : k - 1, D)
           sxx == MapThenSumSet(LAMBDA k : (k - 1) * (k - 1), D)
           sxy == MapThenSumSet(LAMBDA k : (k - 1) * w[k], D)
           sy == Total(w)
           den == m * sxx - sx * sx
           steep == m * sxy - sx * sy
           At(x) == Round(sy * den + steep * (m * x - sx), m * den)
<1>1. Forecast(daily, horizon) =
        [j \in 1..horizon |->
           CASE m = 0 -> 0
             [] m = 1 -> Max({0, w[1]})
             [] OTHER -> Max({0, At(m + j - 1)})]
  BY Zenon DEF Forecast
<1>2. sx = SumOver([k \in D |-> k - 1], D)
  BY ZenonT(90) DEF MapThenSumSet, MapThenFoldSet, SumOver, Added, Some
<1>3. sxx = SumOver([k \in D |-> (k - 1) * (k - 1)], D)
  BY ZenonT(90) DEF MapThenSumSet, MapThenFoldSet, SumOver, Added, Some
<1>4. sxy = SumOver([k \in D |-> (k - 1) * w[k]], D)
  BY ZenonT(90) DEF MapThenSumSet, MapThenFoldSet, SumOver, Added, Some
<1>5. sy = SumOver(w, D)
  BY TotalIs
<1>6. m = n /\ D = 1..n
  OBVIOUS
<1> HIDE DEF w, m, D, sx, sxx, sxy, sy
<1>7. sx = Days(n) /\ sxx = DaySquares(n) /\ sxy = DayRewards(n, w) /\ sy = SumOver(w, 1..n)
  BY <1>2, <1>3, <1>4, <1>5, <1>6, Zenon DEF Days, DaySquares, DayRewards
<1>8. At(m + h - 1) = Fitted(n, w, n + h - 1)
  BY <1>6, <1>7, Zenon DEF Fitted, Spread, Steepness
<1> HIDE DEF At
<1>9. /\ n = 0 => Forecast(daily, horizon)[h] = 0
      /\ n >= 2 => Forecast(daily, horizon)[h] = Max({0, At(m + h - 1)})
  BY <1>1, <1>6
<1> QED BY <1>8, <1>9, Zenon DEF w

\* Days are not all the same, so the line through them is determined.
LEMMA DaysSpread ==
    ASSUME NEW n \in Nat, n >= 2
    PROVE  Days(n) \in Int /\ DaySquares(n) \in Int /\ Spread(n) \in Nat \ {0}
<1> DEFINE D == 1..n
           x == [k \in D |-> k - 1]
           q == [k \in D |-> (k - 1) * (k - 1)]
           X == SumOver(x, D)
           XX == SumOver(q, D)
           d == n * XX - X * X
<1>1. IsFiniteSet(D) /\ n = Cardinality(D)
  BY Counted
<1>2. \A k \in D : x[k] \in Nat /\ x[k] \in Int /\ q[k] = x[k] * x[k] /\ q[k] \in Int
  OBVIOUS
<1>3. 1 \in D /\ x[1] = 0 /\ 2 \in D /\ x[2] = 1
  OBVIOUS
<1> HIDE DEF D, x, q
<1>4. X \in Nat /\ x[2] <= X
  BY <1>1, <1>2, <1>3, SumPart
<1>5. XX \in Int
  BY <1>1, <1>2, SumTyped
<1>6. (n * x[1] - X) * (n * x[1] - X) <= n * d
  BY <1>1, <1>2, <1>3, Deviations
<1> HIDE DEF X, XX
<1>7. d \in Int /\ n * d \in Int
  BY <1>4, <1>5
<1> HIDE DEF d
<1>8. (n * x[1] - X) * (n * x[1] - X) = X * X /\ X * X >= 1
  BY <1>3, <1>4
<1>9. n * d >= 1
  BY <1>4, <1>6, <1>7, <1>8
<1>10. ASSUME d <= 0 PROVE n * d <= 0
  BY <1>7, <1>10
<1>11. d > 0
  BY <1>7, <1>9, <1>10
<1> QED BY <1>4, <1>5, <1>7, <1>11 DEF Days, DaySquares, Spread, d, X, XX, x, q, D

\* The sums of a line.
LEMMA LineSums ==
    ASSUME NEW n \in Nat, NEW base \in Int, NEW slope \in Int,
           NEW line, OnLine(line, n, base, slope)
    PROVE  /\ SumOver(line, 1..n) = (base + slope) * n + slope * Days(n)
           /\ DayRewards(n, line) = (base + slope) * Days(n) + slope * DaySquares(n)
<1> DEFINE D == 1..n
           x == [k \in D |-> k - 1]
           q == [k \in D |-> (k - 1) * (k - 1)]
           p == [k \in D |-> (k - 1) * line[k]]
           one == [k \in D |-> 1]
           c == base + slope
<1>1. IsFiniteSet(D) /\ Cardinality(D) = n
  BY Counted
<1>2. \A k \in D : x[k] \in Int /\ q[k] \in Int /\ one[k] = 1 /\ one[k] \in Int
  OBVIOUS
<1>3. ASSUME NEW k \in D
      PROVE  line[k] = c * one[k] + slope * x[k] /\ p[k] = c * x[k] + slope * q[k]
  <2>1. k \in Int /\ x[k] = k - 1 /\ q[k] = (k - 1) * (k - 1) /\ one[k] = 1
    OBVIOUS
  <2>2. line[k] = base + slope * k /\ p[k] = (k - 1) * line[k]
    BY DEF OnLine
  <2>3. base + slope * k = c * 1 + slope * (k - 1)
    BY <2>1
  <2>4. (k - 1) * (base + slope * k) = c * (k - 1) + slope * ((k - 1) * (k - 1))
    BY <2>1
  <2> HIDE DEF x, q, p, one, c
  <2> QED BY <2>1, <2>2, <2>3, <2>4, Zenon
<1>4. c \in Int
  OBVIOUS
<1> HIDE DEF D, x, q, p, one, c
<1>5. SumOver(one, D) = 1 * Cardinality(D)
  BY <1>1, <1>2, SumConstant
<1>6. SumOver(line, D) = c * SumOver(one, D) + slope * SumOver(x, D)
  <2>1. \A k \in D : line[k] = c * one[k] + slope * x[k]
    BY <1>3, Zenon
  <2> QED BY <1>1, <1>2, <1>4, <2>1, SumLinear
<1>7. SumOver(p, D) = c * SumOver(x, D) + slope * SumOver(q, D)
  <2>1. \A k \in D : p[k] = c * x[k] + slope * q[k]
    BY <1>3, Zenon
  <2>2. \A k \in D : x[k] \in Int /\ q[k] \in Int
    BY <1>2
  <2> QED BY <1>1, <1>4, <2>1, <2>2, SumLinear
<1>8. SumOver(line, D) = c * n + slope * SumOver(x, D)
  <2>1. 1 * Cardinality(D) = n
    BY <1>1
  <2> QED BY <1>5, <1>6, <2>1, Zenon
<1> QED BY <1>7, <1>8, Zenon DEF c, p, x, q, D, Days, DaySquares, DayRewards

\* Least squares on the sums of a line give the line.
LEMMA LineFits ==
    ASSUME NEW n \in Nat, n >= 2, NEW base \in Int, NEW slope \in Int,
           NEW line, OnLine(line, n, base, slope), NEW t \in Int
    PROVE  Fitted(n, line, t) = base + slope * (t + 1)
<1> DEFINE X == Days(n)
           XX == DaySquares(n)
           XY == DayRewards(n, line)
           Y == SumOver(line, 1..n)
           den == n * XX - X * X
           c == base + slope
           z == n * t - X
           v == base + slope * (t + 1)
<1>1. X \in Int /\ XX \in Int /\ den \in Nat \ {0}
  BY DaysSpread DEF Spread
<1>2. Y = c * n + slope * X /\ XY = c * X + slope * XX
  BY Zenon, LineSums
<1> HIDE DEF X, XX, XY, Y
<1>3. c \in Int /\ z \in Int /\ v \in Int /\ Y \in Int
  BY <1>1, <1>2
<1>4. n * XY - X * Y = slope * den
  <2>1. n * XY - X * Y = (n * (c * X) + n * (slope * XX)) - (X * (c * n) + X * (slope * X))
    <3>1. n * XY = n * (c * X) + n * (slope * XX)
      BY <1>1, <1>2
    <3>2. X * Y = X * (c * n) + X * (slope * X)
      BY <1>1, <1>2
    <3> QED BY <3>1, <3>2, Zenon
  <2>2. n * (c * X) = X * (c * n)
    BY <1>1
  <2>3. n * (slope * XX) - X * (slope * X) = slope * den
    BY <1>1
  <2>4. n * (c * X) \in Int /\ n * (slope * XX) \in Int /\ X * (slope * X) \in Int
    BY <1>1
  <2> HIDE DEF den, c
  <2> QED BY <2>1, <2>2, <2>3, <2>4
<1>5. Y + slope * z = v * n
  <2>1. c * n = base * n + slope * n
    OBVIOUS
  <2>2. slope * z = slope * (n * t) - slope * X
    BY <1>1
  <2>3. v * n = base * n + slope * (n * t) + slope * n
    OBVIOUS
  <2>4. /\ base * n \in Int /\ slope * n \in Int /\ slope * X \in Int
        /\ slope * (n * t) \in Int
    BY <1>1
  <2> HIDE DEF z, v, c
  <2> QED BY <1>2, <2>1, <2>2, <2>3, <2>4
<1> HIDE DEF c, den, z, v
<1>6. Y * den + (slope * den) * z = (Y + slope * z) * den
  BY <1>1, <1>3
<1>7. (v * n) * den = v * (n * den)
  BY <1>1, <1>3
<1>8. Y * den + (n * XY - X * Y) * z = v * (n * den)
  BY <1>4, <1>5, <1>6, <1>7, Zenon
<1>9. n * den \in Nat \ {0}
  <2>1. n * den >= n /\ n * den \in Int
    BY <1>1
  <2> QED BY <2>1
<1>10. Round(v * (n * den), n * den) = v
  BY <1>3, <1>9, RoundWhole
<1> QED BY <1>8, <1>10, Zenon
        DEF Fitted, Spread, Steepness, den, z, v, X, XX, XY, Y

\* The forecast for daily goes on along the line of its last n days, until
\* that reaches 0.
ContinuesLine(daily, base, slope, n, horizon) ==
    \A h \in 1..horizon :
        Forecast(daily, horizon)[h] = IF n = 0 THEN 0 ELSE Max({0, base + slope * (n + h)})

\* So the forecast of a line is on it.
LEMMA LineForecast ==
    ASSUME NEW base \in Int, NEW slope \in Int, NEW n \in 0..Window, n = 0 \/ n >= 2,
           NEW earlier \in Seq(Int), n = Window \/ earlier = <<>>,
           NEW line \in Seq(Int), Len(line) = n, OnLine(line, n, base, slope),
           NEW horizon \in Nat
    PROVE  ContinuesLine(earlier \o line, base, slope, n, horizon)
<1> SUFFICES ASSUME NEW h \in 1..horizon
             PROVE  Forecast(earlier \o line, horizon)[h] =
                      IF n = 0 THEN 0 ELSE Max({0, base + slope * (n + h)})
  BY DEF ContinuesLine
<1> DEFINE daily == earlier \o line
<1>1. n \in Nat /\ h \in Nat
  BY DEF Window
<1>2. DOMAIN line = 1..n
  BY InSequence
<1>3. Trailing(daily) = line
  BY <1>2, TrailingLine
<1> HIDE DEF daily
<1>4. n = Len(Trailing(daily)) /\ DOMAIN Trailing(daily) = 1..n
  BY <1>2, <1>3, Zenon
<1>5. ASSUME n # 0 PROVE Fitted(n, line, n + h - 1) = base + slope * (n + h)
  <2>1. n >= 2
    BY <1>1, <1>5
  <2>2. PICK t \in Int : t = n + h - 1
    BY <1>1
  <2>3. Fitted(n, line, t) = base + slope * (t + 1)
    BY <1>1, <2>1, LineFits
  <2>4. t + 1 = n + h
    BY <1>1, <2>2
  <2> QED BY <2>2, <2>3, <2>4, Zenon
<1>6. CASE n = 0
  <2>1. Forecast(daily, horizon)[h] = 0
    BY <1>1, <1>4, <1>6, ForecastBySums
  <2> QED BY <1>6, <2>1, Zenon DEF daily
<1>7. CASE n # 0
  <2>1. n >= 2
    BY <1>1, <1>7
  <2>2. Forecast(daily, horizon)[h] = Max({0, Fitted(n, Trailing(daily), n + h - 1)})
    BY <1>1, <1>4, <2>1, ForecastBySums
  <2> QED BY <1>3, <1>5, <1>7, <2>2, Zenon DEF daily
<1> QED BY <1>6, <1>7

\* Rewards that lie on a line for the days of the window are forecast to stay
\* on it, whatever came before those days, for any line.
THEOREM LineIsForecast ==
    ASSUME NEW base \in Int, NEW slope \in Int, NEW n \in (0..Window) \ {1},
           NEW earlier \in Seq(Int), n = Window \/ earlier = <<>>,
           NEW horizon \in Nat
    PROVE  ContinuesLine(earlier \o [k \in 1..n |-> base + slope * k], base, slope, n, horizon)
<1>1. n \in 0..Window /\ n \in Nat /\ (n = 0 \/ n >= 2)
  BY DEF Window
<1>2. PICK line : line = [k \in 1..n |-> base + slope * k]
  OBVIOUS
<1>3. OnLine(line, n, base, slope)
  BY <1>2 DEF OnLine
<1>4. line \in Seq(Int) /\ Len(line) = n
  <2>1. line \in [1..n -> Int]
    BY <1>1, <1>2
  <2> QED BY <1>1, <2>1, IsSequence
<1>5. ContinuesLine(earlier \o line, base, slope, n, horizon)
  BY <1>1, <1>3, <1>4, Zenon, LineForecast
<1> QED BY <1>2, <1>5, Zenon

\* The statement that TLC checks within the bounds holds within any.
THEOREM ForecastWithinBounds == ForecastExact
<1>1. ASSUME NEW base \in Amounts, NEW slope \in Percents, NEW n \in 0..Window,
             NEW earlier \in Histories, n = Window \/ earlier = <<>>, n # 1
      PROVE  ContinuesLine(earlier \o [k \in 1..n |-> base + slope * k],
                           base, slope, n, MaxPositions)
  <2>1. base \in Int /\ slope \in Int /\ MaxPositions \in Nat /\ Amounts \subseteq Int
    BY BoundsAssumption
  <2>2. PICK m \in 0..MaxPositions : earlier \in [1..m -> Amounts]
    BY Zenon DEF Histories
  <2>3. earlier \in Seq(Int)
    <3>1. m \in Nat
      BY <2>1
    <3>2. earlier \in [1..m -> Int]
      BY <2>1, <2>2
    <3> QED BY <3>1, <3>2, IsSequence
  <2>4. n \in (0..Window) \ {1}
    BY <1>1
  <2> QED BY <1>1, <2>1, <2>3, <2>4, Zenon, LineIsForecast
<1> SUFFICES ASSUME NEW base \in Amounts, NEW slope \in Percents, NEW n \in 0..Window,
                    NEW earlier \in Histories
             PROVE  (n = Window \/ earlier = <<>>) /\ n # 1
                      /\ (\A k \in 1..n : [j \in 1..n |-> base + slope * j][k] >= 0) =>
                    \A h \in 1..MaxPositions :
                      Forecast(earlier \o [k \in 1..n |-> base + slope * k], MaxPositions)[h]
                        = IF n = 0 THEN 0 ELSE Max({0, base + slope * (n + h)})
  BY Zenon DEF ForecastExact
<1>2. ASSUME n = Window \/ earlier = <<>>, n # 1
      PROVE  ContinuesLine(earlier \o [k \in 1..n |-> base + slope * k],
                           base, slope, n, MaxPositions)
  BY <1>1, <1>2, Zenon
<1> QED BY <1>2, Zenon DEF ContinuesLine
=============================================================================
