--------------------------------- MODULE Sums ---------------------------------
(***************************************************************************)
(* Sums over finite sets, for the proofs about gas totals,                 *)
(* and the induction they rest on.                                         *)
(*                                                                         *)
(* The modules that TLC runs sum with MapThenSumSet, a fold whose elements *)
(* come out in an arbitrary order.  Sum(f, S) is the same recursive        *)
(* function with the summand as a function; for an operator F(x) == f[x],  *)
(* MapThenSumSet(F, S) = Sum(f, S) by unfolding both.  The lemmas prove    *)
(* that the recursion defines a function, and that the order does not      *)
(* matter.  The library's induction theorems take operators; the induction *)
(* here is instead that a non-empty collection of finite sets has a        *)
(* smallest member (Smallest), applied to the sets where a claim fails.    *)
(* UpTo is the same for numbers, with the claim as a set of them; other    *)
(* proofs use it for the elements of a sequence.                           *)
(***************************************************************************)
EXTENDS Integers, FiniteSetTheorems, FiniteSetsExt, TLAPS

\* The choice of the community modules' folds.
Pick(s) == CHOOSE x \in s : TRUE

\* g is the sum of f over every subset of S.
SumFcn(f, g, S) ==
  g = [s \in SUBSET S |-> IF s = {} THEN 0 ELSE f[Pick(s)] + g[s \ {Pick(s)}]]
Sum(f, S) == (CHOOSE g : SumFcn(f, g, S))[S]

\* A non-empty collection of subsets of a finite set has a smallest member.
LEMMA Smallest ==
  ASSUME NEW S, IsFiniteSet(S), NEW B \in SUBSET (SUBSET S), B # {}
  PROVE  \E m \in B : \A t \in B : t \subseteq m => t = m
<1>1. FiniteSubsetsOf(S) = SUBSET S
  BY FS_FiniteSubsetsOfFinite
<1>2. IsWellFoundedOn(StrictSubsetOrdering(S), SUBSET S)
  BY <1>1, FS_StrictSubsetOrderingWellFounded
<1>3. PICK m \in B : \A t \in B : ~ (<<t, m>> \in StrictSubsetOrdering(S))
  BY <1>2, WFMin
<1> QED
  BY <1>3 DEF StrictSubsetOrdering

\* What holds of 0, and of a number with its predecessor, holds up to N.
LEMMA UpTo ==
  ASSUME NEW N \in Nat, NEW S, 0 \in S, \A n \in 1 .. N : n - 1 \in S => n \in S
  PROVE  0 .. N \subseteq S
<1> DEFINE B == {0 .. m : m \in (0 .. N) \ S}
<1> SUFFICES ASSUME NEW k \in 0 .. N, k \notin S PROVE FALSE
  OBVIOUS
<1>1. IsFiniteSet(0 .. N)
  BY FS_Interval
<1>2. B \in SUBSET (SUBSET (0 .. N)) /\ B # {}
  OBVIOUS
<1>3. PICK b \in B : \A t \in B : t \subseteq b => t = b
  <2> DEFINE D == 0 .. N
  <2>1. IsFiniteSet(D) /\ B \in SUBSET (SUBSET D) /\ B # {}
    BY <1>1, <1>2
  <2> HIDE DEF B, D
  <2> QED
    BY <2>1, Smallest
<1>4. PICK m \in (0 .. N) \ S : b = 0 .. m
  BY <1>3
<1>5. m \in 1 .. N /\ m - 1 \in 0 .. N
  BY <1>4
<1>6. m - 1 \notin S
  BY <1>5, <1>4
<1>7. 0 .. m - 1 = 0 .. m
  <2>1. 0 .. m - 1 \in B
    BY <1>5, <1>6
  <2>2. 0 .. m - 1 \subseteq 0 .. m
    BY <1>5
  <2> HIDE DEF B
  <2> QED BY <1>3, <1>4, <2>1, <2>2
<1>8. m \in 0 .. m /\ m \notin 0 .. m - 1
  BY <1>5
<1> QED
  BY <1>7, <1>8

LEMMA PickIn == ASSUME NEW s, s # {} PROVE Pick(s) \in s
BY DEF Pick

\* Two sums agree wherever both are defined.
LEMMA SumUnique ==
  ASSUME NEW S, IsFiniteSet(S), NEW T \in SUBSET S, NEW f, NEW g, NEW h,
         SumFcn(f, g, S), SumFcn(f, h, T)
  PROVE  \A s \in SUBSET T : g[s] = h[s]
<1> DEFINE B == {s \in SUBSET T : g[s] # h[s]}
<1> SUFFICES ASSUME B # {} PROVE FALSE
  OBVIOUS
<1>1. IsFiniteSet(T)
  BY FS_Subset
<1>2. PICK m \in B : \A t \in B : t \subseteq m => t = m
  <2> HIDE DEF B
  <2>1. B \in SUBSET (SUBSET T)
    BY DEF B
  <2> QED BY <1>1, <2>1, Smallest
<1>3. CASE m = {}
  BY <1>3, <1>2 DEF SumFcn
<1>4. CASE m # {}
  <2> DEFINE r == m \ {Pick(m)}
  <2>1. Pick(m) \in m
    BY <1>4, PickIn
  <2>2. g[r] = h[r]
    BY <2>1, <1>2
  <2>3. g[m] = f[Pick(m)] + g[r]
    BY <1>4, <1>2 DEF SumFcn
  <2>4. h[m] = f[Pick(m)] + h[r]
    BY <1>4, <1>2 DEF SumFcn
  <2> QED BY <2>2, <2>3, <2>4
<1> QED BY <1>3, <1>4

\* A sum over all subsets of S is one over all subsets of a smaller set.
LEMMA SumRestrict ==
  ASSUME NEW S, NEW T \in SUBSET S, NEW f, NEW g, SumFcn(f, g, S)
  PROVE  SumFcn(f, [s \in SUBSET T |-> g[s]], T)
<1> DEFINE h == [s \in SUBSET T |-> g[s]]
<1>1. ASSUME NEW s \in SUBSET T
      PROVE h[s] = IF s = {} THEN 0 ELSE f[Pick(s)] + h[s \ {Pick(s)}]
  BY <1>1 DEF SumFcn
<1>2. h = [s \in SUBSET T |-> IF s = {} THEN 0 ELSE f[Pick(s)] + h[s \ {Pick(s)}]]
  <2>1. h = [s \in SUBSET T |-> h[s]] OBVIOUS
  <2> HIDE DEF h
  <2> QED BY <2>1, <1>1
<1> QED BY <1>2 DEF SumFcn

\* The recursion has a solution: below the smallest set without one, every set
\* has one, and they agree.
LEMMA SumExists ==
  ASSUME NEW S, IsFiniteSet(S), NEW f
  PROVE  \E g : SumFcn(f, g, S)
<1> DEFINE B == {s \in SUBSET S : ~ \E g : SumFcn(f, g, s)}
<1> SUFFICES ASSUME B # {} PROVE FALSE
  OBVIOUS
<1>1. PICK m \in B : \A t \in B : t \subseteq m => t = m
  <2> HIDE DEF B
  <2>1. B \in SUBSET (SUBSET S)
    BY DEF B
  <2> QED BY <2>1, Smallest
<1> DEFINE below == {t \in SUBSET m : t # m}
           fcn(t) == CHOOSE g : SumFcn(f, g, t)
<1>2. \A t \in below : SumFcn(f, fcn(t), t)
  BY <1>1
<1> DEFINE val(t) == IF t = {} THEN 0 ELSE f[Pick(t)] + fcn(t \ {Pick(t)})[t \ {Pick(t)}]
           g == [t \in SUBSET m |-> val(t)]
<1>3. ASSUME NEW t \in below PROVE g[t] = fcn(t)[t]
  <2>1. CASE t = {}
    <3>1. ASSUME NEW q, SumFcn(f, q, t) PROVE q[t] = 0
      BY <2>1, <3>1 DEF SumFcn
    <3> QED BY <3>1, <1>2, <2>1
  <2>2. CASE t # {}
    <3> DEFINE r == t \ {Pick(t)}
    <3>1. Pick(t) \in t /\ r \in SUBSET t /\ r \in below
      BY <2>2, PickIn
    <3>2. IsFiniteSet(t)
      BY FS_Subset, t \in SUBSET S
    <3>3. SumFcn(f, fcn(t), t) /\ SumFcn(f, fcn(r), r)
      BY <1>2, <3>1
    <3>4. fcn(t)[r] = fcn(r)[r]
      <4> HIDE DEF fcn, r
      <4> QED BY <3>1, <3>2, <3>3, SumUnique
    <3>5. fcn(t)[t] = f[Pick(t)] + fcn(t)[r]
      <4>1. ASSUME NEW q, SumFcn(f, q, t) PROVE q[t] = f[Pick(t)] + q[r]
        BY <4>1, <2>2 DEF SumFcn
      <4> QED BY <4>1, <3>3
    <3>6. g[t] = f[Pick(t)] + fcn(r)[r]
      BY <2>2
    <3> QED BY <3>4, <3>5, <3>6
  <2> QED BY <2>1, <2>2
<1>4. ASSUME NEW s \in SUBSET m
      PROVE  g[s] = IF s = {} THEN 0 ELSE f[Pick(s)] + g[s \ {Pick(s)}]
  <2>1. CASE s = {}
    BY <2>1
  <2>2. CASE s # {}
    <3> DEFINE r == s \ {Pick(s)}
    <3>1. r \in below
      BY <2>2, PickIn
    <3>2. g[r] = fcn(r)[r]
      BY <1>3, <3>1
    <3>3. g[s] = f[Pick(s)] + fcn(r)[r]
      BY <2>2
    <3> QED BY <2>2, <3>2, <3>3
  <2> QED BY <2>1, <2>2
<1>5. SumFcn(f, g, m)
  <2>1. g = [s \in SUBSET m |-> g[s]] OBVIOUS
  <2> HIDE DEF g
  <2>2. g = [s \in SUBSET m |-> IF s = {} THEN 0 ELSE f[Pick(s)] + g[s \ {Pick(s)}]]
    BY <2>1, <1>4
  <2> QED BY <2>2 DEF SumFcn
<1> QED BY <1>5, <1>1

\* The recursion, for Sum.
LEMMA SumStep ==
  ASSUME NEW S, IsFiniteSet(S), NEW f
  PROVE  Sum(f, S) = IF S = {} THEN 0 ELSE f[Pick(S)] + Sum(f, S \ {Pick(S)})
<1> DEFINE fcn(t) == CHOOSE g : SumFcn(f, g, t)
           r == S \ {Pick(S)}
<1>1. IsFiniteSet(r)
  BY FS_Subset, r \in SUBSET S
<1>2. SumFcn(f, fcn(S), S) /\ SumFcn(f, fcn(r), r)
  <2> HIDE DEF r
  <2> QED BY <1>1, SumExists
<1>3. fcn(S)[r] = fcn(r)[r]
  <2>1. r \in SUBSET S /\ r \in SUBSET r
    OBVIOUS
  <2> HIDE DEF fcn, r
  <2> QED BY <2>1, <1>2, SumUnique
<1>4. fcn(S)[S] = IF S = {} THEN 0 ELSE f[Pick(S)] + fcn(S)[r]
  <2>1. ASSUME NEW q, SumFcn(f, q, S)
        PROVE q[S] = IF S = {} THEN 0 ELSE f[Pick(S)] + q[r]
    BY <2>1 DEF SumFcn
  <2> QED BY <2>1, <1>2
<1> QED BY <1>3, <1>4 DEF Sum

\* Integers add up to an integer.
LEMMA SumIsInt ==
  ASSUME NEW S, IsFiniteSet(S), NEW f, \A x \in S : f[x] \in Int
  PROVE  Sum(f, S) \in Int
<1> DEFINE B == {s \in SUBSET S : Sum(f, s) \notin Int}
<1> SUFFICES ASSUME B # {} PROVE FALSE
  OBVIOUS
<1>1. PICK m \in B : \A t \in B : t \subseteq m => t = m
  <2>1. B \in SUBSET (SUBSET S)
    OBVIOUS
  <2> HIDE DEF B
  <2> QED BY <2>1, Smallest
<1>2. IsFiniteSet(m)
  BY FS_Subset
<1> DEFINE r == m \ {Pick(m)}
<1>3. Sum(f, m) = IF m = {} THEN 0 ELSE f[Pick(m)] + Sum(f, r)
  BY <1>2, SumStep
<1>4. m # {} => Pick(m) \in m
  BY PickIn
<1>5. m # {} => Sum(f, r) \in Int
  BY <1>1, <1>4
<1> QED BY <1>3, <1>4, <1>5

LEMMA SumEmpty == ASSUME NEW f PROVE Sum(f, {}) = 0
BY SumStep, FS_EmptySet

\* Any element may be taken out first, whatever Pick picks.
LEMMA SumAdd ==
  ASSUME NEW S, IsFiniteSet(S), NEW f, \A x \in S : f[x] \in Int,
         NEW x \in S
  PROVE  Sum(f, S) = f[x] + Sum(f, S \ {x})
<1> DEFINE Adds(s) == \A y \in s : Sum(f, s) = f[y] + Sum(f, s \ {y})
           B == {s \in SUBSET S : ~ Adds(s)}
<1> SUFFICES ASSUME B # {} PROVE FALSE
  OBVIOUS
<1>1. PICK m \in B : \A t \in B : t \subseteq m => t = m
  <2>1. B \in SUBSET (SUBSET S)
    OBVIOUS
  <2> HIDE DEF B
  <2> QED BY <2>1, Smallest
<1>2. PICK y \in m : Sum(f, m) # f[y] + Sum(f, m \ {y})
  OBVIOUS
<1>3. \A t \in SUBSET m : Sum(f, t) \in Int
  BY FS_Subset, SumIsInt
<1> DEFINE p == Pick(m)
<1>4. p \in m /\ Sum(f, m) = f[p] + Sum(f, m \ {p})
  <2>1. IsFiniteSet(m)
    BY FS_Subset
  <2> QED BY <2>1, SumStep, PickIn
<1> HIDE DEF p
<1>5. p # y
  BY <1>2, <1>4
<1>6. Sum(f, m \ {p}) = f[y] + Sum(f, (m \ {p}) \ {y})
  <2>1. Adds(m \ {p})
    BY <1>1, <1>4
  <2> QED BY <2>1, <1>5
<1>7. Sum(f, m \ {y}) = f[p] + Sum(f, (m \ {y}) \ {p})
  <2>1. Adds(m \ {y})
    BY <1>1, <1>2
  <2> QED BY <2>1, <1>4, <1>5
<1>8. (m \ {p}) \ {y} = (m \ {y}) \ {p}
  OBVIOUS
<1>9. /\ f[y] \in Int /\ f[p] \in Int
      /\ Sum(f, (m \ {p}) \ {y}) \in Int
  BY <1>3, <1>4
<1>10. Sum(f, m \ {y}) = f[p] + Sum(f, (m \ {p}) \ {y})
  BY <1>7, <1>8
<1> DEFINE all == Sum(f, m)
           less == Sum(f, m \ {y})
           low == Sum(f, m \ {p})
           both == Sum(f, (m \ {p}) \ {y})
<1>11. /\ all = f[p] + low
       /\ low = f[y] + both
       /\ less = f[p] + both
       /\ all # f[y] + less
       /\ f[y] \in Int /\ f[p] \in Int /\ both \in Int
  BY <1>2, <1>4, <1>6, <1>9, <1>10
<1> HIDE DEF all, less, low, both
<1> QED BY <1>11

\* Only the values on the set count.
LEMMA SumSame ==
  ASSUME NEW S, IsFiniteSet(S), NEW f, NEW g, \A x \in S : f[x] = g[x]
  PROVE  Sum(f, S) = Sum(g, S)
<1> DEFINE B == {s \in SUBSET S : Sum(f, s) # Sum(g, s)}
<1> SUFFICES ASSUME B # {} PROVE FALSE
  OBVIOUS
<1>1. PICK m \in B : \A t \in B : t \subseteq m => t = m
  <2>1. B \in SUBSET (SUBSET S)
    OBVIOUS
  <2> HIDE DEF B
  <2> QED BY <2>1, Smallest
<1>2. IsFiniteSet(m)
  BY FS_Subset
<1> DEFINE r == m \ {Pick(m)}
<1>3. /\ Sum(f, m) = IF m = {} THEN 0 ELSE f[Pick(m)] + Sum(f, r)
      /\ Sum(g, m) = IF m = {} THEN 0 ELSE g[Pick(m)] + Sum(g, r)
  BY <1>2, SumStep
<1>4. m # {} => Pick(m) \in m
  BY PickIn
<1>5. m # {} => Sum(f, r) = Sum(g, r)
  BY <1>1, <1>4
<1> QED BY <1>3, <1>4, <1>5

\* One more element.
LEMMA SumInsert ==
  ASSUME NEW S, IsFiniteSet(S), NEW f, \A x \in S : f[x] \in Int,
         NEW y, y \notin S, f[y] \in Int
  PROVE  Sum(f, S \cup {y}) = f[y] + Sum(f, S)
<1>1. IsFiniteSet(S \cup {y})
  BY FS_AddElement
<1>2. (S \cup {y}) \ {y} = S
  OBVIOUS
<1>3. \A x \in S \cup {y} : f[x] \in Int
  OBVIOUS
<1>4. y \in S \cup {y}
  OBVIOUS
<1>5. Sum(f, S \cup {y}) = f[y] + Sum(f, (S \cup {y}) \ {y})
  BY <1>1, <1>3, <1>4, SumAdd
<1> QED BY <1>2, <1>5

\* Equal values: the sum is a product.
LEMMA SumOfEqual ==
  ASSUME NEW S, IsFiniteSet(S), NEW f, NEW c \in Nat, \A x \in S : f[x] = c
  PROVE  Sum(f, S) = c * Cardinality(S)
<1> DEFINE B == {s \in SUBSET S : Sum(f, s) # c * Cardinality(s)}
<1> SUFFICES ASSUME B # {} PROVE FALSE
  OBVIOUS
<1>1. PICK m \in B : \A t \in B : t \subseteq m => t = m
  <2>1. B \in SUBSET (SUBSET S)
    OBVIOUS
  <2> HIDE DEF B
  <2> QED BY <2>1, Smallest
<1>2. IsFiniteSet(m) /\ Cardinality(m) \in Nat
  BY FS_Subset, FS_CardinalityType
<1>3. CASE m = {}
  BY <1>1, <1>3, SumEmpty, FS_EmptySet
<1>4. CASE m # {}
  <2> DEFINE r == m \ {Pick(m)}
  <2>1. Pick(m) \in m /\ Sum(f, m) = f[Pick(m)] + Sum(f, r)
    BY <1>2, <1>4, SumStep, PickIn
  <2>2. Sum(f, r) = c * Cardinality(r)
    BY <1>1, <2>1
  <2>3. Cardinality(r) = Cardinality(m) - 1
    BY <1>2, <2>1, FS_RemoveElement
  <2>4. f[Pick(m)] = c
    BY <2>1
  <2> DEFINE n == Cardinality(m)
  <2>5. n \in Nat /\ Sum(f, m) = c + c * (n - 1)
    BY <1>2, <2>1, <2>2, <2>3, <2>4
  <2>6. \A k \in Nat : c + c * (k - 1) = c * k
    OBVIOUS
  <2>7. Sum(f, m) = c * n
    BY <2>5, <2>6
  <2> QED BY <1>1, <2>7
<1> QED BY <1>3, <1>4

\* Sums add, and a common factor can be taken out.
LEMMA SumLinear ==
  ASSUME NEW S, IsFiniteSet(S), NEW a \in Int, NEW b \in Int, NEW f, NEW g, NEW h,
         \A x \in S : f[x] \in Int /\ g[x] \in Int /\ h[x] = a * f[x] + b * g[x]
  PROVE  Sum(h, S) = a * Sum(f, S) + b * Sum(g, S)
<1> DEFINE B == {s \in SUBSET S : Sum(h, s) # a * Sum(f, s) + b * Sum(g, s)}
<1> SUFFICES ASSUME B # {} PROVE FALSE
  OBVIOUS
<1>1. PICK m \in B : \A t \in B : t \subseteq m => t = m
  <2>1. B \in SUBSET (SUBSET S)
    OBVIOUS
  <2> HIDE DEF B
  <2> QED BY <2>1, Smallest
<1>2. IsFiniteSet(m)
  BY FS_Subset
<1>3. CASE m = {}
  <2>1. Sum(h, m) = 0 /\ Sum(f, m) = 0 /\ Sum(g, m) = 0
    BY <1>3, SumEmpty
  <2> QED BY <1>1, <2>1
<1>4. CASE m # {}
  <2> DEFINE r == m \ {Pick(m)}
             p == f[Pick(m)]
             q == g[Pick(m)]
             u == Sum(f, r)
             v == Sum(g, r)
  <2>1. /\ Pick(m) \in m /\ Sum(h, m) = h[Pick(m)] + Sum(h, r)
        /\ Sum(f, m) = p + u /\ Sum(g, m) = q + v
    BY <1>2, <1>4, SumStep, PickIn
  <2>2. Sum(h, r) = a * u + b * v
    BY <1>1, <2>1
  <2>3. IsFiniteSet(r)
    BY <1>2, FS_Subset
  <2>4. p \in Int /\ q \in Int /\ h[Pick(m)] = a * p + b * q
    BY <2>1
  <2>5. u \in Int /\ v \in Int
    <3> DEFINE rest == r
    <3>1. \A x \in rest : f[x] \in Int /\ g[x] \in Int
      OBVIOUS
    <3> HIDE DEF rest
    <3> QED
      BY <2>3, <3>1, SumIsInt DEF rest
  <2> HIDE DEF p, q, u, v, r
  <2>6. a * (p + u) = a * p + a * u /\ b * (q + v) = b * q + b * v
        /\ a * p \in Int /\ a * u \in Int /\ b * q \in Int /\ b * v \in Int
    BY <2>4, <2>5
  <2>7. Sum(h, m) = a * Sum(f, m) + b * Sum(g, m)
    BY <2>1, <2>2, <2>4, <2>6
  <2> QED BY <1>1, <2>7
<1> QED BY <1>3, <1>4

\* Smaller summands have a smaller sum.
LEMMA SumBelow ==
  ASSUME NEW S, IsFiniteSet(S), NEW f, NEW g,
         \A x \in S : f[x] \in Int /\ g[x] \in Int /\ f[x] <= g[x]
  PROVE  Sum(f, S) <= Sum(g, S)
<1> DEFINE B == {s \in SUBSET S : ~ (Sum(f, s) <= Sum(g, s))}
<1> SUFFICES ASSUME B # {} PROVE FALSE
  OBVIOUS
<1>1. PICK m \in B : \A t \in B : t \subseteq m => t = m
  <2>1. B \in SUBSET (SUBSET S)
    OBVIOUS
  <2> HIDE DEF B
  <2> QED BY <2>1, Smallest
<1>2. IsFiniteSet(m)
  BY FS_Subset
<1>3. CASE m = {}
  <2>1. Sum(f, m) = 0 /\ Sum(g, m) = 0
    BY <1>3, SumEmpty
  <2> QED BY <1>1, <2>1
<1>4. CASE m # {}
  <2> DEFINE r == m \ {Pick(m)}
  <2>1. /\ Pick(m) \in m /\ Sum(f, m) = f[Pick(m)] + Sum(f, r)
        /\ Sum(g, m) = g[Pick(m)] + Sum(g, r)
    BY <1>2, <1>4, SumStep, PickIn
  <2>2. Sum(f, r) <= Sum(g, r)
    BY <1>1, <2>1
  <2>3. IsFiniteSet(r)
    BY <1>2, FS_Subset
  <2>4. Sum(f, r) \in Int /\ Sum(g, r) \in Int
    <3> DEFINE rest == r
    <3>1. \A x \in rest : f[x] \in Int /\ g[x] \in Int
      OBVIOUS
    <3> HIDE DEF rest
    <3> QED
      BY <2>3, <3>1, SumIsInt DEF rest
  <2>5. f[Pick(m)] \in Int /\ g[Pick(m)] \in Int /\ f[Pick(m)] <= g[Pick(m)]
    BY <2>1
  <2> HIDE DEF r
  <2>6. Sum(f, m) <= Sum(g, m)
    BY <2>1, <2>2, <2>4, <2>5
  <2> QED BY <1>1, <2>6
<1> QED BY <1>3, <1>4

===============================================================================
