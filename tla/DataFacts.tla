----------------------------- MODULE DataFacts -----------------------------
(***************************************************************************)
(* Facts about the data the models compute with, for the proof modules:    *)
(* quotients and remainders, induction on naturals and on the subsets of a *)
(* finite set, sums over finite sets (SumFunctionOnSet), Bisect, and the   *)
(* row geometry of module Window.                                          *)
(*                                                                         *)
(* Induction is stated over a set of naturals and rests on the library's   *)
(* minimal element of a well-founded set, so no lemma takes an operator.   *)
(***************************************************************************)
EXTENDS Bisection, Window, Integers, Sequences, FiniteSets, Functions, FiniteSetsExt, FiniteSetTheorems, WellFoundedInduction, TLAPS

-----------------------------------------------------------------------------
(* Quotients and remainders *)

\* Multiplying by a natural number keeps an order.
LEMMA TimesMonotone ==
    ASSUME NEW x \in Int, NEW y \in Int, NEW d \in Nat, x <= y
    PROVE  x * d <= y * d
<1>1. (y - x) * d >= 0
  BY SMT
<1>2. y * d = x * d + (y - x) * d
  BY SMT
<1> QED
  BY <1>1, <1>2, SMT

\* A number is its quotient times the divisor plus its remainder.
LEMMA DivMod ==
    ASSUME NEW a \in Int, NEW d \in Nat \ {0}
    PROVE  /\ a \div d \in Int /\ a % d \in 0 .. d - 1
           /\ a = (a \div d) * d + (a % d)
  BY SMT

\* It is the only way to write it so.
LEMMA RemainderIsUnique ==
    ASSUME NEW a \in Int, NEW d \in Nat \ {0}, NEW q \in Int, NEW r \in 0 .. d - 1, a = q * d + r
    PROVE  a % d = r
<1> DEFINE p == a \div d
           s == a % d
<1>1. p \in Int /\ s \in 0 .. d - 1 /\ a = p * d + s
  BY DivMod
<1> HIDE DEF p, s
<1>2. CASE p = q
  <2>1. q * d \in Int
    OBVIOUS
  <2>2. s = r
    BY <1>1, <1>2, <2>1
  <2>3. QED
    BY <2>2 DEF s
<1>3. CASE p < q
  <2>1. (p + 1) * d <= q * d
    BY <1>1, <1>3, TimesMonotone
  <2>2. (p + 1) * d = p * d + d
    BY <1>1
  <2>3. p * d \in Int /\ q * d \in Int
    BY <1>1
  <2>4. FALSE
    BY <1>1, <2>1, <2>2, <2>3
  <2>5. QED
    BY <2>4
<1>4. CASE q < p
  <2>1. (q + 1) * d <= p * d
    BY <1>1, <1>4, TimesMonotone
  <2>2. (q + 1) * d = q * d + d
    BY <1>1
  <2>3. p * d \in Int /\ q * d \in Int
    BY <1>1
  <2>4. FALSE
    BY <1>1, <2>1, <2>2, <2>3
  <2>5. QED
    BY <2>4
<1>5. QED
  BY <1>1, <1>2, <1>3, <1>4 DEF s

\* The sum and the difference of two multiples is a multiple.
LEMMA MultiplesAdd ==
    ASSUME NEW a \in Int, NEW b \in Int, NEW d \in Nat \ {0}, a % d = 0, b % d = 0
    PROVE  (a + b) % d = 0 /\ (a - b) % d = 0
<1> DEFINE p == a \div d
           q == b \div d
<1>1. p \in Int /\ q \in Int /\ a = p * d /\ b = q * d
  BY DivMod
<1> HIDE DEF p, q
<1>2. a + b = (p + q) * d + 0 /\ a - b = (p - q) * d + 0
  BY <1>1
<1>3. 0 \in 0 .. d - 1 /\ p + q \in Int /\ p - q \in Int
  BY <1>1
<1>4. (a + b) % d = 0
  BY <1>2, <1>3, RemainderIsUnique, a + b \in Int, Zenon
<1>5. (a - b) % d = 0
  BY <1>2, <1>3, RemainderIsUnique, a - b \in Int, Zenon
<1>6. QED
  BY <1>4, <1>5

\* The quotient is the largest number of times the divisor fits.
LEMMA QuotientIsFloor ==
    ASSUME NEW a \in Int, NEW d \in Nat \ {0}, NEW k \in Int
    PROVE  k * d <= a <=> k <= a \div d
<1> DEFINE q == a \div d
<1>1. q \in Int /\ q * d <= a /\ a < q * d + d
  BY SMT
<1>2. CASE k <= q
  <2>1. k * d <= q * d
    BY <1>1, <1>2, TimesMonotone
  <2>2. QED
    BY <1>1, <1>2, <2>1
<1>3. CASE q < k
  <2>1. (q + 1) * d <= k * d
    BY <1>1, <1>3, TimesMonotone
  <2>2. (q + 1) * d = q * d + d
    BY <1>1
  <2>3. QED
    BY <1>1, <1>3, <2>1, <2>2
<1>4. QED
  BY <1>1, <1>2, <1>3

\* The multiples of d at or below two numbers are in their order.
LEMMA RoundDownMonotone ==
    ASSUME NEW a \in Int, NEW b \in Int, a <= b, NEW d \in Nat \ {0}
    PROVE  a - (a % d) <= b - (b % d)
<1> DEFINE p == a \div d
           q == b \div d
<1>1. p \in Int /\ a % d \in 0 .. d - 1 /\ a = p * d + (a % d)
  BY DivMod
<1>2. q \in Int /\ b % d \in 0 .. d - 1 /\ b = q * d + (b % d)
  BY DivMod
<1>3. p * d \in Int /\ q * d \in Int
  BY <1>1, <1>2
<1>4. p * d <= b
  BY <1>1, <1>3
<1>5. p <= q
  BY <1>1, <1>4, QuotientIsFloor
<1> HIDE DEF p, q
<1>6. p * d <= q * d
  BY <1>1, <1>2, <1>5, TimesMonotone
<1>7. QED
  BY <1>1, <1>2, <1>3, <1>6

\* A larger number divides as often or more.
LEMMA QuotientMonotone ==
    ASSUME NEW a \in Int, NEW b \in Int, a <= b, NEW d \in Nat \ {0}
    PROVE  a \div d <= b \div d
<1>1. a \div d \in Int /\ (a \div d) * d <= a
  BY DivMod
<1>2. (a \div d) * d \in Int
  BY <1>1
<1>3. QED
  BY <1>1, <1>2, QuotientIsFloor

-----------------------------------------------------------------------------
(* Induction *)

\* A set that holds 0 and the successor of each natural number it holds, holds
\* all of them.
LEMMA NatSetInduction ==
    ASSUME NEW P, 0 \in P, \A n \in Nat : n \in P => n + 1 \in P
    PROVE  Nat \subseteq P
<1> DEFINE Missing == {n \in Nat : n \notin P}
<1>1. SUFFICES ASSUME Missing # {} PROVE FALSE
  OBVIOUS
<1>2. Missing \subseteq Nat
  OBVIOUS
<1> HIDE DEF Missing
<1>3. PICK x \in Missing : \A y \in Missing : ~(<<y, x>> \in OpToRel(<, Nat))
  BY <1>1, <1>2, NatLessThanWellFounded, WFMin, Zenon
<1>4. x \in Nat /\ x # 0 /\ x - 1 \in Nat
  BY <1>2 DEF Missing
<1>5. x - 1 \in Missing
  BY <1>4, (x - 1) + 1 = x DEF Missing
<1>6. <<x - 1, x>> \in OpToRel(<, Nat)
  BY <1>4 DEF OpToRel
<1>7. QED
  BY <1>3, <1>5, <1>6

\* A set of naturals has a least element.
LEMMA MinOfNats ==
    ASSUME NEW S \in SUBSET Nat, S # {}
    PROVE  Min(S) \in S /\ \A y \in S : Min(S) <= y
<1>1. PICK x \in S : \A y \in S : ~(<<y, x>> \in OpToRel(<, Nat))
  BY NatLessThanWellFounded, WFMin, Zenon
<1>2. \A y \in S : x <= y
  <2>1. TAKE y \in S
  <2>2. <<y, x>> \in OpToRel(<, Nat) <=> y < x
    BY DEF OpToRel
  <2>3. x \in Nat /\ y \in Nat /\ ~(y < x)
    BY <1>1, <2>2
  <2>4. QED
    BY <2>3
<1>3. QED
  BY <1>2 DEF Min

\* A bounded set of naturals has a greatest one.
LEMMA MaxOfNats ==
    ASSUME NEW S \in SUBSET Nat, S # {}, NEW b \in Nat, \A x \in S : x <= b
    PROVE  Max(S) \in S /\ \A x \in S : x <= Max(S)
<1>1. PICK above : above = {y \in Nat : \A x \in S : x <= y}
  OBVIOUS
<1>2. above \in SUBSET Nat /\ above # {}
  BY <1>1
<1>3. PICK top : top = Min(above)
  OBVIOUS
<1>4. top \in above /\ \A y \in above : top <= y
  BY <1>2, <1>3, MinOfNats
<1>5. top \in Nat /\ \A x \in S : x <= top
  BY <1>1, <1>4
<1>6. top \in S
  <2>1. SUFFICES ASSUME top \notin S PROVE FALSE
    OBVIOUS
  <2>2. \A x \in S : x < top /\ x \in Nat
    BY <1>5, <2>1
  <2>3. PICK x \in S : TRUE
    OBVIOUS
  <2>4. top - 1 \in Nat
    BY <1>5, <2>2, <2>3
  <2>5. top - 1 \in above
    BY <1>1, <1>5, <2>2, <2>4
  <2>6. QED
    BY <1>4, <1>5, <2>5
<1>7. \E x \in S : \A y \in S : x >= y
  BY <1>5, <1>6
<1>8. Max(S) \in S /\ \A y \in S : Max(S) >= y
  BY <1>7 DEF Max
<1>9. QED
  BY <1>8

\* A set of subsets of a finite set that holds the empty one, and every other one
\* when it holds it with any element taken out, holds all of them.
LEMMA SubsetInduction ==
    ASSUME NEW S, IsFiniteSet(S), NEW P, {} \in P,
           \A T \in SUBSET S : T # {} /\ (\A x \in T : T \ {x} \in P) => T \in P
    PROVE  SUBSET S \subseteq P
<1> DEFINE UpTo == {n \in Nat : \A T \in SUBSET S : Cardinality(T) = n => T \in P}
<1>1. \A T \in SUBSET S : IsFiniteSet(T) /\ Cardinality(T) \in Nat
  BY FS_Subset, FS_CardinalityType
<1>2. 0 \in UpTo
  BY <1>1, FS_EmptySet
<1>3. ASSUME NEW n \in Nat, n \in UpTo PROVE n + 1 \in UpTo
  <2>1. ASSUME NEW T \in SUBSET S, Cardinality(T) = n + 1 PROVE T \in P
    <3>1. T # {}
      <4>1. n + 1 # 0
        OBVIOUS
      <4>2. QED
        BY <2>1, <4>1, FS_EmptySet, Zenon
    <3>2. ASSUME NEW x \in T PROVE T \ {x} \in P
      <4>1. Cardinality(T \ {x}) = Cardinality(T) - 1
        BY <1>1, FS_RemoveElement
      <4>2. T \ {x} \in SUBSET S /\ Cardinality(T \ {x}) = n
        BY <2>1, <4>1
      <4>3. QED
        BY <1>3, <4>2
    <3>3. QED
      BY <3>1, <3>2
  <2>2. QED
    BY <2>1
<1>4. Nat \subseteq UpTo
  <2> HIDE DEF UpTo
  <2>1. QED
    BY <1>2, <1>3, NatSetInduction
<1>5. QED
  BY <1>1, <1>4

-----------------------------------------------------------------------------
(* Sums over finite sets *)

\* One step of the recursion that SumFunctionOnSet is defined by.
SumStep(f, g, s) == IF s = {} THEN 0 ELSE LET x == CHOOSE x \in s : TRUE IN f[x] + g[s \ {x}]

\* The function on the subsets of S that sums f over each.
SumIter(f, S) == CHOOSE iter : iter = [s \in SUBSET S |-> SumStep(f, iter, s)]

\* The library's fold, with its operators filled in.
LEMMA SumIsIter == \A f, S : SumFunctionOnSet(f, S) = SumIter(f, S)[S]
  BY DEF SumFunctionOnSet, FoldFunctionOnSet, MapThenFoldSet, SumIter, SumStep

\* The recursion has a solution: one that holds up to each cardinality.
LEMMA SumIterStep ==
    ASSUME NEW f, NEW S, IsFiniteSet(S)
    PROVE  \A s \in SUBSET S : SumIter(f, S)[s] = SumStep(f, SumIter(f, S), s)
<1> DEFINE UpTo(g, n) == /\ g = [s \in SUBSET S |-> g[s]]
                         /\ \A s \in SUBSET S : Cardinality(s) <= n => g[s] = SumStep(f, g, s)
           Reached == {n \in Nat : \E g : UpTo(g, n)}
<1>1. \A s \in SUBSET S : IsFiniteSet(s) /\ Cardinality(s) \in Nat /\ Cardinality(s) <= Cardinality(S)
  BY FS_Subset, FS_CardinalityType
<1>2. Cardinality(S) \in Nat
  BY <1>1
<1>3. 0 \in Reached
  <2>1. UpTo([s \in SUBSET S |-> 0], 0)
    <3>1. ASSUME NEW s \in SUBSET S, Cardinality(s) <= 0 PROVE s = {}
      BY <1>1, <3>1, FS_EmptySet
    <3>2. QED
      BY <3>1 DEF SumStep
  <2>2. QED
    BY <2>1
<1>4. ASSUME NEW n \in Nat, n \in Reached PROVE n + 1 \in Reached
  <2>1. PICK g : UpTo(g, n)
    BY <1>4
  <2> DEFINE h == [s \in SUBSET S |-> IF Cardinality(s) <= n THEN g[s] ELSE SumStep(f, g, s)]
  <2>2. ASSUME NEW s \in SUBSET S, Cardinality(s) <= n + 1 PROVE h[s] = SumStep(f, h, s)
    <3>1. h[s] = SumStep(f, g, s)
      BY <2>1
    <3>2. CASE s = {}
      BY <3>1, <3>2 DEF SumStep
    <3>3. CASE s # {}
      <4> DEFINE x == CHOOSE x \in s : TRUE
      <4>1. x \in s
        BY <3>3
      <4> HIDE DEF x
      <4>2. s \ {x} \in SUBSET S /\ Cardinality(s \ {x}) <= n
        <5>1. Cardinality(s \ {x}) = Cardinality(s) - 1
          BY <1>1, <4>1, FS_RemoveElement
        <5>2. QED
          BY <1>1, <2>2, <5>1
      <4>3. h[s \ {x}] = g[s \ {x}]
        BY <4>2
      <4>4. QED
        BY <3>1, <3>3, <4>3 DEF SumStep, x
    <3>4. QED
      BY <3>2, <3>3
  <2>3. UpTo(h, n + 1)
    BY <2>2
  <2>4. n + 1 \in Nat
    OBVIOUS
  <2> HIDE DEF h, UpTo
  <2>5. QED
    BY <2>3, <2>4, Zenon
<1>5. Cardinality(S) \in Reached
  <2> HIDE DEF Reached
  <2>1. QED
    BY <1>2, <1>3, <1>4, NatSetInduction
<1>6. PICK g : UpTo(g, Cardinality(S))
  BY <1>5
<1>7. g = [s \in SUBSET S |-> SumStep(f, g, s)]
  BY <1>1, <1>6
<1>8. PICK k : k = SumIter(f, S)
  OBVIOUS
<1>9. k = [s \in SUBSET S |-> SumStep(f, k, s)]
  BY <1>7, <1>8 DEF SumIter
<1>10. QED
  BY <1>8, <1>9

\* What the iterations over two sets compute for a common subset is the same.
LEMMA SumIterAgree ==
    ASSUME NEW f, NEW S, IsFiniteSet(S), NEW T \in SUBSET S
    PROVE  SumIter(f, S)[T] = SumIter(f, T)[T]
<1> DEFINE g == SumIter(f, S)
           h == SumIter(f, T)
           Same == {n \in Nat : \A s \in SUBSET T : Cardinality(s) = n => g[s] = h[s]}
<1>1. IsFiniteSet(T) /\ \A s \in SUBSET T : IsFiniteSet(s) /\ Cardinality(s) \in Nat
  BY FS_Subset, FS_CardinalityType
<1>2. \A s \in SUBSET T : g[s] = SumStep(f, g, s) /\ h[s] = SumStep(f, h, s)
  <2>1. \A s \in SUBSET S : g[s] = SumStep(f, g, s)
    BY SumIterStep
  <2>2. \A s \in SUBSET T : h[s] = SumStep(f, h, s)
    BY <1>1, SumIterStep
  <2>3. QED
    BY <2>1, <2>2
<1> HIDE DEF g, h
<1>3. 0 \in Same
  <2>1. ASSUME NEW s \in SUBSET T, Cardinality(s) = 0 PROVE g[s] = h[s]
    <3>1. s = {}
      BY <1>1, <2>1, FS_EmptySet
    <3>2. QED
      BY <1>2, <3>1 DEF SumStep
  <2>2. QED
    BY <2>1
<1>4. ASSUME NEW n \in Nat, n \in Same PROVE n + 1 \in Same
  <2>1. ASSUME NEW s \in SUBSET T, Cardinality(s) = n + 1 PROVE g[s] = h[s]
    <3> DEFINE x == CHOOSE x \in s : TRUE
    <3>1. s # {}
      BY <2>1, FS_EmptySet
    <3>2. x \in s
      BY <3>1
    <3> HIDE DEF x
    <3>3. s \ {x} \in SUBSET T /\ Cardinality(s \ {x}) = n
      <4>1. Cardinality(s \ {x}) = Cardinality(s) - 1
        BY <1>1, <3>2, FS_RemoveElement
      <4>2. QED
        BY <1>1, <2>1, <4>1
    <3>4. g[s \ {x}] = h[s \ {x}]
      BY <1>4, <3>3
    <3>5. QED
      BY <1>2, <3>1, <3>4 DEF SumStep, x
  <2>2. QED
    BY <2>1
<1>5. Cardinality(T) \in Same
  <2> HIDE DEF Same
  <2>1. QED
    BY <1>1, <1>3, <1>4, NatSetInduction
<1>6. QED
  BY <1>5 DEF g, h

\* Nothing sums to 0.
LEMMA SumOfNone ==
    ASSUME NEW f PROVE SumFunctionOnSet(f, {}) = 0
<1>1. SumIter(f, {})[{}] = SumStep(f, SumIter(f, {}), {})
  BY SumIterStep, FS_EmptySet
<1>2. QED
  BY <1>1, SumIsIter DEF SumStep

\* The sum with the element the fold chooses taken out.
LEMMA SumOfChosen ==
    ASSUME NEW f, NEW S, IsFiniteSet(S), S # {}
    PROVE  LET x == CHOOSE x \in S : TRUE
           IN  SumFunctionOnSet(f, S) = f[x] + SumFunctionOnSet(f, S \ {x})
<1> DEFINE x == CHOOSE x \in S : TRUE
<1>1. SumIter(f, S)[S] = SumStep(f, SumIter(f, S), S)
  BY SumIterStep
<1>2. SumIter(f, S)[S \ {x}] = SumIter(f, S \ {x})[S \ {x}]
  BY SumIterAgree
<1>3. QED
  BY <1>1, <1>2, SumIsIter DEF SumStep

\* The sum of naturals is a natural.
LEMMA SumIsNat ==
    ASSUME NEW f, NEW S, IsFiniteSet(S), \A x \in S : f[x] \in Nat
    PROVE  SumFunctionOnSet(f, S) \in Nat
<1> DEFINE P == {T \in SUBSET S : SumFunctionOnSet(f, T) \in Nat}
<1>1. {} \in P
  BY SumOfNone
<1>2. ASSUME NEW T \in SUBSET S, T # {}, \A x \in T : T \ {x} \in P PROVE T \in P
  <2>1. PICK x \in T : SumFunctionOnSet(f, T) = f[x] + SumFunctionOnSet(f, T \ {x})
    <3>1. IsFiniteSet(T)
      BY FS_Subset
    <3>2. PICK x : x = CHOOSE e \in T : TRUE
      OBVIOUS
    <3>3. x \in T
      BY <1>2, <3>2
    <3>4. QED
      BY <1>2, <3>1, <3>2, <3>3, SumOfChosen
  <2>2. SumFunctionOnSet(f, T \ {x}) \in Nat /\ f[x] \in Nat
    BY <1>2
  <2>3. QED
    BY <2>1, <2>2
<1>3. SUBSET S \subseteq P
  <2> HIDE DEF P
  <2>1. QED
    BY <1>1, <1>2, SubsetInduction
<1>4. QED
  BY <1>3

\* Any element may be taken out of a sum.
LEMMA SumOfRest ==
    ASSUME NEW f, NEW S, IsFiniteSet(S), \A x \in S : f[x] \in Nat, NEW y \in S
    PROVE  SumFunctionOnSet(f, S) = f[y] + SumFunctionOnSet(f, S \ {y})
<1> DEFINE P == {T \in SUBSET S : \A z \in T : SumFunctionOnSet(f, T) = f[z] + SumFunctionOnSet(f, T \ {z})}
<1>1. {} \in P
  OBVIOUS
<1>2. ASSUME NEW T \in SUBSET S, T # {}, \A x \in T : T \ {x} \in P PROVE T \in P
  <2>1. PICK x \in T : SumFunctionOnSet(f, T) = f[x] + SumFunctionOnSet(f, T \ {x})
    <3>1. IsFiniteSet(T)
      BY FS_Subset
    <3>2. PICK x : x = CHOOSE e \in T : TRUE
      OBVIOUS
    <3>3. x \in T
      BY <1>2, <3>2
    <3>4. QED
      BY <1>2, <3>1, <3>2, <3>3, SumOfChosen
  <2>2. ASSUME NEW z \in T, z # x
        PROVE  SumFunctionOnSet(f, T) = f[z] + SumFunctionOnSet(f, T \ {z})
    <3>1. SumFunctionOnSet(f, T \ {x}) = f[z] + SumFunctionOnSet(f, (T \ {x}) \ {z})
      BY <1>2, <2>2
    <3>2. SumFunctionOnSet(f, T \ {z}) = f[x] + SumFunctionOnSet(f, (T \ {z}) \ {x})
      BY <1>2, <2>2
    <3>3. (T \ {x}) \ {z} = (T \ {z}) \ {x}
      OBVIOUS
    <3>4. SumFunctionOnSet(f, (T \ {z}) \ {x}) \in Nat
      <4>1. (T \ {z}) \ {x} \in SUBSET S
        OBVIOUS
      <4>2. IsFiniteSet((T \ {z}) \ {x})
        BY <4>1, FS_Subset
      <4>3. QED
        BY <4>1, <4>2, SumIsNat
    <3>5. f[x] \in Nat /\ f[z] \in Nat
      OBVIOUS
    <3>6. QED
      BY <2>1, <3>1, <3>2, <3>3, <3>4, <3>5
  <2>3. QED
    BY <2>1, <2>2
<1>3. SUBSET S \subseteq P
  <2> HIDE DEF P
  <2>1. QED
    BY <1>1, <1>2, SubsetInduction
<1>4. QED
  BY <1>3

\* A sum of no smaller summands is no smaller.
LEMMA SumIsMonotone ==
    ASSUME NEW f, NEW g, NEW S, IsFiniteSet(S),
           \A x \in S : f[x] \in Nat /\ g[x] \in Nat /\ f[x] <= g[x]
    PROVE  SumFunctionOnSet(f, S) <= SumFunctionOnSet(g, S)
<1> DEFINE P == {T \in SUBSET S : SumFunctionOnSet(f, T) <= SumFunctionOnSet(g, T)}
<1>1. {} \in P
  BY SumOfNone
<1>2. ASSUME NEW T \in SUBSET S, T # {}, \A x \in T : T \ {x} \in P PROVE T \in P
  <2>1. PICK x \in T : TRUE
    BY <1>2
  <2>2. IsFiniteSet(T) /\ IsFiniteSet(T \ {x})
    BY FS_Subset
  <2>3. SumFunctionOnSet(f, T) = f[x] + SumFunctionOnSet(f, T \ {x})
    BY <2>2, SumOfRest
  <2>4. SumFunctionOnSet(g, T) = g[x] + SumFunctionOnSet(g, T \ {x})
    BY <2>2, SumOfRest
  <2>5. SumFunctionOnSet(f, T \ {x}) \in Nat /\ SumFunctionOnSet(g, T \ {x}) \in Nat
    BY <2>2, SumIsNat
  <2>6. SumFunctionOnSet(f, T \ {x}) <= SumFunctionOnSet(g, T \ {x}) /\ f[x] <= g[x] /\ f[x] \in Nat /\ g[x] \in Nat
    BY <1>2
  <2>7. QED
    BY <2>3, <2>4, <2>5, <2>6
<1>3. SUBSET S \subseteq P
  <2> HIDE DEF P
  <2>1. QED
    BY <1>1, <1>2, SubsetInduction
<1>4. QED
  BY <1>3

\* A sum over fewer elements is no larger.
LEMMA SumOfSubset ==
    ASSUME NEW f, NEW S, IsFiniteSet(S), \A x \in S : f[x] \in Nat, NEW R \in SUBSET S
    PROVE  SumFunctionOnSet(f, R) <= SumFunctionOnSet(f, S)
<1> DEFINE P == {T \in SUBSET S : R \subseteq T => SumFunctionOnSet(f, R) <= SumFunctionOnSet(f, T)}
<1>1. {} \in P
  BY SumOfNone
<1>2. ASSUME NEW T \in SUBSET S, T # {}, \A x \in T : T \ {x} \in P PROVE T \in P
  <2>1. ASSUME R \subseteq T, NEW x \in T \ R
        PROVE  SumFunctionOnSet(f, R) <= SumFunctionOnSet(f, T)
    <3>1. IsFiniteSet(T) /\ IsFiniteSet(T \ {x}) /\ IsFiniteSet(R)
      BY FS_Subset
    <3>2. SumFunctionOnSet(f, T) = f[x] + SumFunctionOnSet(f, T \ {x})
      BY <3>1, SumOfRest
    <3>3. SumFunctionOnSet(f, T \ {x}) \in Nat /\ SumFunctionOnSet(f, R) \in Nat /\ f[x] \in Nat
      BY <3>1, SumIsNat
    <3>4. SumFunctionOnSet(f, R) <= SumFunctionOnSet(f, T \ {x})
      BY <1>2, <2>1
    <3>5. QED
      BY <3>2, <3>3, <3>4
  <2>2. ASSUME R = T
        PROVE  SumFunctionOnSet(f, R) <= SumFunctionOnSet(f, T)
    <3>1. SumFunctionOnSet(f, T) \in Nat
      BY FS_Subset, SumIsNat
    <3>2. QED
      BY <2>2, <3>1
  <2>3. QED
    BY <2>1, <2>2
<1>3. SUBSET S \subseteq P
  <2> HIDE DEF P
  <2>1. QED
    BY <1>1, <1>2, SubsetInduction
<1>4. QED
  BY <1>3

\* Intervals that do not overlap and whose lengths sum up to lo .. hi - 1 leave no
\* number of it out.
LEMMA SumCovers ==
    ASSUME NEW f, NEW at, NEW S, IsFiniteSet(S), \A x \in S : f[x] \in Nat /\ at[x] \in Nat,
           \A x, y \in S : x # y => at[x] + f[x] <= at[y] \/ at[y] + f[y] <= at[x],
           NEW lo \in Nat, NEW hi \in Nat, \A x \in S : lo <= at[x] /\ at[x] + f[x] <= hi,
           SumFunctionOnSet(f, S) = hi - lo, NEW e \in lo .. hi - 1
    PROVE  \E x \in S : at[x] <= e /\ e < at[x] + f[x]
<1> DEFINE B(x) == at[x] .. at[x] + f[x] - 1
           U(T) == UNION {B(x) : x \in T}
           P == {T \in SUBSET S : /\ IsFiniteSet(U(T))
                                  /\ Cardinality(U(T)) = SumFunctionOnSet(f, T)}
<1>1. {} \in P
  <2>1. U({}) = {}
    OBVIOUS
  <2>2. QED
    BY <2>1, SumOfNone, FS_EmptySet
<1>2. ASSUME NEW T \in SUBSET S, T # {}, \A x \in T : T \ {x} \in P PROVE T \in P
  <2>1. PICK x \in T : TRUE
    BY <1>2
  <2>2. IsFiniteSet(T)
    BY FS_Subset
  <2>3. SumFunctionOnSet(f, T) = f[x] + SumFunctionOnSet(f, T \ {x})
    BY <2>2, SumOfRest
  <2>4. IsFiniteSet(U(T \ {x})) /\ Cardinality(U(T \ {x})) = SumFunctionOnSet(f, T \ {x})
    BY <1>2
  <2>5. IsFiniteSet(B(x)) /\ Cardinality(B(x)) = f[x]
    <3>1. PICK a \in Nat, n \in Nat : a = at[x] /\ n = f[x]
      OBVIOUS
    <3>2. IsFiniteSet(a .. a + n - 1) /\ Cardinality(a .. a + n - 1) = IF a > a + n - 1 THEN 0 ELSE (a + n - 1) - a + 1
      BY FS_Interval
    <3>3. (IF a > a + n - 1 THEN 0 ELSE (a + n - 1) - a + 1) = n
      OBVIOUS
    <3>4. QED
      BY <3>1, <3>2, <3>3
  <2>6. U(T \ {x}) \cap B(x) = {}
    <3>1. ASSUME NEW y \in T \ {x}, NEW e1 \in B(y), e1 \in B(x) PROVE FALSE
      <4>1. at[x] + f[x] <= at[y] \/ at[y] + f[y] <= at[x]
        OBVIOUS
      <4>2. at[x] \in Nat /\ f[x] \in Nat /\ at[y] \in Nat /\ f[y] \in Nat
        OBVIOUS
      <4>3. QED
        BY <3>1, <4>1, <4>2
    <3> HIDE DEF B
    <3>2. QED
      BY <3>1
  <2>7. U(T) = U(T \ {x}) \cup B(x)
    <3> HIDE DEF B
    <3>1. QED
      OBVIOUS
  <2>8. PICK V, W : V = U(T \ {x}) /\ W = B(x)
    OBVIOUS
  <2>9. IsFiniteSet(V \cup W) /\ Cardinality(V \cup W) = Cardinality(V) + Cardinality(W) - Cardinality(V \cap W)
    BY <2>4, <2>5, <2>8, FS_Union
  <2>10. Cardinality(V \cap W) = 0
    BY <2>6, <2>8, FS_EmptySet
  <2>11. Cardinality(V) \in Nat /\ Cardinality(W) \in Nat
    BY <2>4, <2>5, <2>8, FS_CardinalityType
  <2>12. Cardinality(U(T)) = SumFunctionOnSet(f, T) /\ IsFiniteSet(U(T))
    <3> HIDE DEF U, B
    <3>1. QED
      BY <2>3, <2>4, <2>5, <2>7, <2>8, <2>9, <2>10, <2>11
  <2>13. QED
    <3> HIDE DEF U, B
    <3>1. QED
      BY <2>12
<1>3. SUBSET S \subseteq P
  <2> HIDE DEF P
  <2>1. QED
    BY <1>1, <1>2, SubsetInduction
<1>4. Cardinality(U(S)) = hi - lo
  <2> HIDE DEF U
  <2>1. QED
    BY <1>3
<1>5. U(S) \subseteq lo .. hi - 1
  <2>1. ASSUME NEW x \in S, NEW b \in B(x) PROVE b \in lo .. hi - 1
    <3>1. at[x] \in Nat /\ f[x] \in Nat /\ lo <= at[x] /\ at[x] + f[x] <= hi
      OBVIOUS
    <3>2. QED
      BY <3>1
  <2> HIDE DEF B
  <2>2. QED
    BY <2>1
<1>6. SUFFICES ASSUME e \notin U(S) PROVE FALSE
  <2>1. ASSUME NEW x \in S, e \in B(x) PROVE at[x] <= e /\ e < at[x] + f[x]
    BY <2>1
  <2> HIDE DEF B
  <2>2. QED
    BY <2>1
<1>7. IsFiniteSet(lo .. hi - 1) /\ Cardinality(lo .. hi - 1) = hi - lo
  <2>1. lo <= hi - 1 /\ (hi - 1) - lo + 1 = hi - lo
    OBVIOUS
  <2>2. QED
    BY <2>1, FS_Interval
<1>8. PICK V : V = (lo .. hi - 1) \ {e}
  OBVIOUS
<1>9. IsFiniteSet(V) /\ Cardinality(V) = Cardinality(lo .. hi - 1) - 1
  BY <1>7, <1>8, FS_RemoveElement
<1>10. Cardinality(U(S)) <= Cardinality(V)
  <2>1. U(S) \subseteq V
    BY <1>5, <1>6, <1>8
  <2>2. QED
    BY <1>9, <2>1, FS_Subset
<1>11. QED
  <2> HIDE DEF U
  <2>1. QED
    BY <1>4, <1>7, <1>9, <1>10

\* One more summand at the end.
LEMMA SumOfPrefix ==
    ASSUME NEW f, NEW n \in Nat, \A x \in 1 .. n + 1 : f[x] \in Nat
    PROVE  SumFunctionOnSet(f, 1 .. n + 1) = SumFunctionOnSet(f, 1 .. n) + f[n + 1]
<1>1. IsFiniteSet(1 .. n + 1) /\ IsFiniteSet(1 .. n)
  BY FS_Interval
<1>2. (1 .. n + 1) \ {n + 1} = 1 .. n /\ n + 1 \in 1 .. n + 1
  OBVIOUS
<1>3. SumFunctionOnSet(f, 1 .. n + 1) = f[n + 1] + SumFunctionOnSet(f, 1 .. n)
  BY <1>1, <1>2, SumOfRest
<1>4. SumFunctionOnSet(f, 1 .. n) \in Nat /\ f[n + 1] \in Nat
  BY <1>1, <1>2, SumIsNat
<1>5. QED
  BY <1>3, <1>4

-----------------------------------------------------------------------------
(* Sequences *)

LEMMA SeqElements ==
    ASSUME NEW T, NEW s \in Seq(T)
    PROVE  DOMAIN s = 1 .. Len(s) /\ Len(s) \in Nat /\ \A i \in DOMAIN s : s[i] \in T
  OBVIOUS

-----------------------------------------------------------------------------
(* Bisection *)

\* The pairs of bounds the loop goes through, and how much is left to search.
Bounds(top) == (1 .. top + 1) \X (0 .. top)
Left(r) == r[2] + 1 - r[1]

\* One pass of the loop that goes on with g.
BisectStep(fits, g, r) ==
    LET candidate == r[1] + (r[2] - r[1]) \div 2
    IN  IF r[1] > r[2] THEN r[1] - 1
        ELSE IF fits[candidate] THEN g[<<candidate + 1, r[2]>>]
        ELSE g[<<r[1], candidate - 1>>]

\* The loop as a function of the bounds it goes on from.
BisectFrom(fits, top) == CHOOSE g : g = [r \in Bounds(top) |-> BisectStep(fits, g, r)]

LEMMA BisectIsFrom == \A fits, top : Bisect(fits, top) = BisectFrom(fits, top)[<<1, top>>]
  BY DEF Bisect, BisectFrom, Bounds, BisectStep

\* A pass halves what is left.
LEMMA BisectNarrows ==
    ASSUME NEW top \in Nat, NEW r \in Bounds(top), r[1] <= r[2]
    PROVE  LET candidate == r[1] + (r[2] - r[1]) \div 2
           IN  /\ candidate \in r[1] .. r[2] /\ candidate \in 1 .. top
               /\ <<candidate + 1, r[2]>> \in Bounds(top) /\ <<r[1], candidate - 1>> \in Bounds(top)
               /\ Left(<<candidate + 1, r[2]>>) < Left(r)
               /\ Left(<<r[1], candidate - 1>>) < Left(r)
<1> DEFINE half == (r[2] - r[1]) \div 2
           candidate == r[1] + half
<1>1. r[1] \in 1 .. top + 1 /\ r[2] \in 0 .. top
  BY DEF Bounds
<1>2. half \in Nat /\ half <= r[2] - r[1]
  BY <1>1, SMT
<1> HIDE DEF half
<1>3. candidate \in r[1] .. r[2] /\ candidate \in 1 .. top
  BY <1>1, <1>2
<1>4. <<candidate + 1, r[2]>> \in Bounds(top) /\ <<r[1], candidate - 1>> \in Bounds(top)
  BY <1>1, <1>3 DEF Bounds
<1>5. Left(<<candidate + 1, r[2]>>) < Left(r) /\ Left(<<r[1], candidate - 1>>) < Left(r)
  BY <1>1, <1>3 DEF Left
<1>6. QED
  BY <1>3, <1>4, <1>5 DEF half

\* The recursion has a solution: one that holds up to each length.
LEMMA BisectFromStep ==
    ASSUME NEW fits, NEW top \in Nat
    PROVE  \A r \in Bounds(top) : BisectFrom(fits, top)[r] = BisectStep(fits, BisectFrom(fits, top), r)
<1> DEFINE UpTo(g, n) == /\ g = [r \in Bounds(top) |-> g[r]]
                         /\ \A r \in Bounds(top) : Left(r) <= n => g[r] = BisectStep(fits, g, r)
           Reached == {n \in Nat : \E g : UpTo(g, n)}
<1>1. \A r \in Bounds(top) : r[1] \in Int /\ r[2] \in Int /\ Left(r) \in Int /\ Left(r) <= top
  BY DEF Bounds, Left
<1>2. 0 \in Reached
  <2>1. UpTo([r \in Bounds(top) |-> r[1] - 1], 0)
    BY <1>1 DEF BisectStep, Left
  <2>2. QED
    BY <2>1
<1>3. ASSUME NEW n \in Nat, n \in Reached PROVE n + 1 \in Reached
  <2>1. PICK g : UpTo(g, n)
    BY <1>3
  <2> DEFINE h == [r \in Bounds(top) |-> IF Left(r) <= n THEN g[r] ELSE BisectStep(fits, g, r)]
  <2>2. ASSUME NEW r \in Bounds(top), Left(r) <= n + 1 PROVE h[r] = BisectStep(fits, h, r)
    <3>1. h[r] = BisectStep(fits, g, r)
      BY <2>1
    <3>2. CASE r[1] > r[2]
      BY <3>1, <3>2 DEF BisectStep
    <3>3. CASE r[1] <= r[2]
      <4> DEFINE candidate == r[1] + (r[2] - r[1]) \div 2
                 above == <<candidate + 1, r[2]>>
                 below == <<r[1], candidate - 1>>
      <4>1. /\ above \in Bounds(top) /\ below \in Bounds(top)
            /\ Left(above) < Left(r) /\ Left(below) < Left(r)
        BY <3>3, BisectNarrows
      <4> HIDE DEF above, below
      <4>2. Left(above) <= n /\ Left(below) <= n
        BY <1>1, <2>2, <4>1
      <4>3. h[above] = g[above] /\ h[below] = g[below]
        BY <4>1, <4>2
      <4> HIDE DEF h
      <4>4. BisectStep(fits, g, r) = IF fits[candidate] THEN g[above] ELSE g[below]
        BY <1>1, <3>3 DEF BisectStep, above, below
      <4>5. BisectStep(fits, h, r) = IF fits[candidate] THEN h[above] ELSE h[below]
        BY <1>1, <3>3 DEF BisectStep, above, below
      <4>6. QED
        BY <3>1, <4>3, <4>4, <4>5
    <3>4. QED
      BY <1>1, <3>2, <3>3
  <2>3. UpTo(h, n + 1)
    BY <2>2
  <2>4. n + 1 \in Nat
    OBVIOUS
  <2> HIDE DEF h, UpTo
  <2>5. QED
    BY <2>3, <2>4, Zenon
<1>4. top \in Reached
  <2> HIDE DEF Reached
  <2>1. QED
    BY <1>2, <1>3, NatSetInduction
<1>5. PICK g : UpTo(g, top)
  BY <1>4
<1>6. g = [r \in Bounds(top) |-> BisectStep(fits, g, r)]
  BY <1>1, <1>5
<1>7. PICK k : k = BisectFrom(fits, top)
  OBVIOUS
<1>8. k = [r \in Bounds(top) |-> BisectStep(fits, k, r)]
  BY <1>6, <1>7 DEF BisectFrom
<1>9. QED
  BY <1>7, <1>8

\* What the bisection of stripe_band_rows returns, for every predicate that a
\* size satisfies when a larger one does: a size that fits, or 0, with none
\* above it that fits.
THEOREM BisectFindsLargest ==
    ASSUME NEW fits, NEW top \in Nat,
           \A n \in 1 .. top : fits[n] \in BOOLEAN,
           \A m \in 1 .. top, n \in 1 .. top : m <= n /\ fits[n] => fits[m]
    PROVE  /\ Bisect(fits, top) \in 0 .. top
           /\ Bisect(fits, top) > 0 => fits[Bisect(fits, top)]
           /\ \A n \in Bisect(fits, top) + 1 .. top : ~fits[n]
<1> DEFINE g == BisectFrom(fits, top)
           Between(r) == /\ r[1] > 1 => fits[r[1] - 1]
                         /\ \A n \in r[2] + 1 .. top : ~fits[n]
                         /\ Left(r) >= 0
           Largest(q) == /\ q \in 0 .. top
                         /\ q > 0 => fits[q]
                         /\ \A n \in q + 1 .. top : ~fits[n]
           Right == {n \in Nat : \A r \in Bounds(top) : Left(r) <= n /\ Between(r) => Largest(g[r])}
<1>1. \A r \in Bounds(top) : g[r] = BisectStep(fits, g, r)
  BY BisectFromStep
<1> HIDE DEF g
<1>2. \A r \in Bounds(top) : r[1] \in 1 .. top + 1 /\ r[2] \in 0 .. top /\ Left(r) \in Int /\ Left(r) <= top
  BY DEF Bounds, Left
<1>3. ASSUME NEW r \in Bounds(top), r[1] > r[2], Between(r) PROVE Largest(g[r])
  <2>1. r[1] = r[2] + 1
    BY <1>2, <1>3 DEF Left
  <2>2. BisectStep(fits, g, r) = r[1] - 1
    BY <1>3 DEF BisectStep
  <2>3. g[r] = r[2]
    BY <1>1, <1>2, <2>1, <2>2
  <2>4. QED
    BY <1>2, <1>3, <2>1, <2>3
<1>4. 0 \in Right
  <2>1. ASSUME NEW r \in Bounds(top), Left(r) <= 0, Between(r) PROVE Largest(g[r])
    <3>1. r[1] > r[2]
      BY <1>2, <2>1 DEF Left
    <3>2. QED
      BY <1>3, <2>1, <3>1
  <2>2. QED
    BY <2>1
<1>5. ASSUME NEW n \in Nat, n \in Right PROVE n + 1 \in Right
  <2>1. ASSUME NEW r \in Bounds(top), Left(r) <= n + 1, Between(r), r[1] <= r[2] PROVE Largest(g[r])
    <3> DEFINE candidate == r[1] + (r[2] - r[1]) \div 2
               above == <<candidate + 1, r[2]>>
               below == <<r[1], candidate - 1>>
    <3>1. /\ candidate \in r[1] .. r[2] /\ candidate \in 1 .. top
          /\ above \in Bounds(top) /\ below \in Bounds(top)
          /\ Left(above) < Left(r) /\ Left(below) < Left(r)
      BY <2>1, BisectNarrows
    <3>2. Left(above) <= n /\ Left(below) <= n /\ Left(above) >= 0 /\ Left(below) >= 0
      BY <1>2, <2>1, <3>1 DEF Left
    <3>3. CASE fits[candidate]
      <4>1. BisectStep(fits, g, r) = g[above]
        BY <1>2, <2>1, <3>3 DEF BisectStep, candidate, above, below
      <4>2. Between(above)
        BY <1>2, <2>1, <3>1, <3>2, <3>3
      <4>3. Largest(g[above])
        BY <1>5, <3>1, <3>2, <4>2
      <4>4. QED
        BY <1>1, <4>1, <4>3
    <3>4. CASE ~fits[candidate]
      <4>1. BisectStep(fits, g, r) = g[below]
        BY <1>2, <2>1, <3>4 DEF BisectStep, candidate, above, below
      <4>2. \A m \in candidate .. top : ~fits[m]
        BY <3>1, <3>4
      <4>3. Between(below)
        BY <1>2, <2>1, <3>1, <3>2, <4>2
      <4>4. Largest(g[below])
        BY <1>5, <3>1, <3>2, <4>3
      <4>5. QED
        BY <1>1, <4>1, <4>4
    <3>5. QED
      BY <3>3, <3>4
  <2>2. QED
    BY <1>2, <1>3, <2>1
<1>6. top \in Right
  <2> HIDE DEF Right
  <2>1. QED
    BY <1>4, <1>5, NatSetInduction
<1>7. <<1, top>> \in Bounds(top) /\ Left(<<1, top>>) <= top /\ Between(<<1, top>>)
  BY DEF Bounds, Left
<1>8. Largest(g[<<1, top>>])
  BY <1>6, <1>7
<1>9. PICK q : q = g[<<1, top>>] /\ Largest(q)
  BY <1>8
<1>10. q = Bisect(fits, top)
  BY <1>9, BisectIsFrom DEF g
<1>11. QED
  BY <1>9, <1>10

-----------------------------------------------------------------------------
(* Row geometry (module Window): for every window, tensor and band, the    *)
(* taps a kernel visits are the taps inside the tensor, a band holds every *)
(* row its output rows read and a kernel that knows only the band finds    *)
(* the same rows, and no band needs more rows than the working set counts. *)

(* tap_range computes the interval from one division at each end; a kernel *)
(* that trusts it visits every tap inside the tensor and none outside, so  *)
(* its inner loop needs no bounds test.                                    *)
THEOREM TapRangeIsExact ==
    ASSUME NEW base \in Int, NEW extent \in Nat, NEW taps \in Nat, NEW dilation \in Nat \ {0}
    PROVE  LET range == TapRange(base, extent, taps, dilation)
           IN  range.first .. range.last - 1 = TapsInside(base, extent, taps, dilation)
<1> DEFINE first == TapRange(base, extent, taps, dilation).first
           last  == TapRange(base, extent, taps, dilation).last
           span  == extent - 1 - base
<1>1. first \in Int /\ last \in Int
  BY SMT DEF TapRange, Smaller, Larger
<1>2. ASSUME NEW k \in Int
      PROVE  k \in first .. last - 1 <=> k \in TapsInside(base, extent, taps, dilation)
  <2>1. k * dilation \in Int
    BY SMT
  <2>2. k >= (-base + dilation - 1) \div dilation <=> base + k * dilation >= 0
    <3>1. (k + 1) * dilation <= -base + dilation - 1
            <=> k + 1 <= (-base + dilation - 1) \div dilation
      BY QuotientIsFloor, -base + dilation - 1 \in Int, k + 1 \in Int
    <3>2. (k + 1) * dilation = k * dilation + dilation
      BY SMT
    <3> QED
      BY <2>1, <3>1, <3>2, SMT
  <2>3. k <= span \div dilation <=> base + k * dilation < extent
    <3>1. k * dilation <= span <=> k <= span \div dilation
      BY QuotientIsFloor, span \in Int
    <3> QED
      BY <2>1, <3>1, SMT
  <2>4. k >= 0 => k * dilation >= 0
    BY TimesMonotone, 0 * dilation = 0, SMT
  <2>5. k \in TapsInside(base, extent, taps, dilation)
          <=> 0 <= k /\ k < taps /\ 0 <= base + k * dilation /\ base + k * dilation < extent
    BY SMT DEF TapsInside
  <2> QED
    BY <2>1, <2>2, <2>3, <2>4, <2>5, SMT DEF TapRange, Smaller, Larger
<1>3. TapsInside(base, extent, taps, dilation) \subseteq Int /\ first .. last - 1 \subseteq Int
  BY <1>1, SMT DEF TapsInside
<1>4. first .. last - 1 = TapsInside(base, extent, taps, dilation)
  <2> HIDE DEF first, last
  <2> QED
    BY <1>2, <1>3, Zenon
<1> QED
  BY <1>4, Zenon

-----------------------------------------------------------------------------
LEMMA WindowTypes ==
    ASSUME NEW w \in WindowRecords
    PROVE  /\ w.taps \in Nat \ {0} /\ w.stride \in Nat \ {0}
           /\ w.pad \in Nat /\ w.dilation \in Nat \ {0}
BY DEF WindowRecords

(* A band [first, end) is handed the rows WindowRows says, and a kernel    *)
(* that sees only those rows and the padding left to it bounds its taps by *)
(* the band.  For every output row of the band and every tap, the tap is   *)
(* inside the band exactly when it is inside the whole tensor, and it is   *)
(* then the same row: the halo is wide enough, and no row is taken for     *)
(* padding or padding for a row.                                           *)
THEOREM BandHoldsEveryTap ==
    ASSUME NEW w \in WindowRecords, NEW extent \in Nat, NEW first \in Nat, NEW end \in Nat,
           NEW r \in first .. end - 1, NEW k \in 0 .. w.taps - 1
    PROVE  LET in    == WindowRows(w, extent, first, end)
               row   == r * w.stride - w.pad + k * w.dilation
               local == (r - first) * w.stride - in.pad_top + k * w.dilation
           IN  /\ (0 <= local /\ local < in.end - in.first) <=> (0 <= row /\ row < extent)
               /\ row = in.first + local
<1> DEFINE from  == first * w.stride - w.pad
           to    == (end - 1) * w.stride - w.pad + Reach(w)
           in    == WindowRows(w, extent, first, end)
           row   == r * w.stride - w.pad + k * w.dilation
           local == (r - first) * w.stride - in.pad_top + k * w.dilation
<1>1. /\ w.taps \in Nat \ {0} /\ w.stride \in Nat \ {0}
      /\ w.pad \in Nat /\ w.dilation \in Nat \ {0}
  BY WindowTypes
<1>2. /\ first * w.stride \in Int /\ r * w.stride \in Int /\ (end - 1) * w.stride \in Int
      /\ k * w.dilation \in Int /\ (w.taps - 1) * w.dilation \in Int
  BY <1>1, SMT
<1>3. from \in Int /\ to \in Int /\ row \in Int
  BY <1>1, <1>2, SMT DEF Reach
<1>4. from <= row
  <2>1. first * w.stride <= r * w.stride
    BY <1>1, TimesMonotone
  <2>2. 0 * w.dilation <= k * w.dilation
    BY <1>1, TimesMonotone
  <2>3. 0 * w.dilation = 0
    BY <1>1, SMT
  <2> QED
    BY <1>1, <1>2, <2>1, <2>2, <2>3, SMT
<1>5. row < to
  <2>1. r * w.stride <= (end - 1) * w.stride
    BY <1>1, TimesMonotone
  <2>2. k * w.dilation <= (w.taps - 1) * w.dilation
    BY <1>1, TimesMonotone
  <2> QED
    BY <1>1, <1>2, <2>1, <2>2, SMT DEF Reach
<1>6. /\ in.first = Larger(from, 0) /\ in.end = Smaller(to, extent)
      /\ in.pad_top = Larger(-from, 0)
  BY Zenon DEF WindowRows
<1>7. row = in.first + local
  <2>1. in.first - in.pad_top = from /\ in.first \in Int /\ in.pad_top \in Int
    BY <1>3, <1>6, SMT DEF Larger
  <2>2. (r - first) * w.stride = r * w.stride - first * w.stride
    BY <1>1, SMT
  <2>3. local = row - from - in.pad_top
    BY <1>1, <1>2, <2>1, <2>2, SMT
  <2> QED
    BY <1>3, <2>1, <2>3, SMT
<1>8. in.first \in Int /\ in.end \in Int /\ local \in Int
  BY <1>1, <1>2, <1>3, <1>6, SMT DEF Larger, Smaller
<1>9. (0 <= local /\ local < in.end - in.first) <=> (0 <= row /\ row < extent)
  <2> HIDE DEF from, to, in, row, local
  <2> QED
    BY <1>3, <1>4, <1>5, <1>6, <1>7, <1>8, SMT DEF Larger, Smaller
<1> QED
  BY <1>7, <1>9, Zenon

-----------------------------------------------------------------------------
(* The working set counts (rows - 1) * stride + eff_kh input rows for a    *)
(* band of `rows` output rows.  No band of so many rows, the last and      *)
(* shorter one included, is handed more: what was counted suffices.        *)
THEOREM BandFitsInputExtent ==
    ASSUME NEW w \in WindowRecords, NEW extent \in Nat, NEW rows \in Nat,
           NEW first \in Nat, NEW end \in Nat, first < end, end - first <= rows
    PROVE  LET in == WindowRows(w, extent, first, end)
           IN  in.end - in.first <= (rows - 1) * w.stride + Reach(w)
<1> DEFINE from  == first * w.stride - w.pad
           to    == (end - 1) * w.stride - w.pad + Reach(w)
           in    == WindowRows(w, extent, first, end)
<1>1. /\ w.taps \in Nat \ {0} /\ w.stride \in Nat \ {0}
      /\ w.pad \in Nat /\ w.dilation \in Nat \ {0}
  BY WindowTypes
<1>2. /\ first * w.stride \in Int /\ (end - 1) * w.stride \in Int
      /\ (w.taps - 1) * w.dilation \in Int
  BY <1>1, SMT
<1>3. from \in Int /\ to \in Int /\ Reach(w) \in Int
  BY <1>1, <1>2, SMT DEF Reach
<1>4. (end - 1 - first) * w.stride <= (rows - 1) * w.stride
  BY <1>1, TimesMonotone
<1>5. (end - 1 - first) * w.stride = (end - 1) * w.stride - first * w.stride
  BY <1>1, SMT
<1>6. (rows - 1) * w.stride \in Int
  BY <1>1, SMT
<1>7. to - from <= (rows - 1) * w.stride + Reach(w)
  BY <1>1, <1>2, <1>3, <1>4, <1>5, <1>6, SMT
<1>8. in.first = Larger(from, 0) /\ in.end = Smaller(to, extent)
  BY Zenon DEF WindowRows
<1>9. in.end - in.first <= to - from
  <2> HIDE DEF from, to, in
  <2> QED
    BY <1>3, <1>8, SMT DEF Larger, Smaller
<1>10. in.end - in.first \in Int /\ to - from \in Int
  <2> HIDE DEF from, to, in
  <2> QED
    BY <1>3, <1>8, SMT DEF Larger, Smaller
<1>11. in.end - in.first <= (rows - 1) * w.stride + Reach(w)
  <2> HIDE DEF from, to, in
  <2> QED
    BY <1>3, <1>6, <1>7, <1>9, <1>10, SMT
<1> QED
  BY <1>11, Zenon

-----------------------------------------------------------------------------
(* The same for a resize, whose kernel refuses a band too small for it:    *)
(* between the samples of a band's first and last row there are no more    *)
(* input rows than the working set counts, and at least one.               *)
THEOREM BandFitsResizeExtent ==
    ASSUME NEW input \in Nat \ {0}, NEW output \in Nat \ {0}, NEW rows \in Nat,
           NEW first \in Nat, NEW end \in Nat, first < end, end - first <= rows
    PROVE  LET in == ResizeRows(input, output, first, end)
           IN  in.end - in.first \in 1 .. ResizeMaxRows(input, output, rows)
<1> DEFINE low  == (first * input) \div output
           high == ((end - 1) * input) \div output
           step == ((rows - 1) * input + output - 1) \div output
           in   == ResizeRows(input, output, first, end)
<1>1. /\ first * input \in Nat /\ (end - 1) * input \in Nat
      /\ (rows - 1) * input \in Nat /\ (end - 1 - first) * input \in Nat
  BY SMT
<1>2. low \in Nat /\ high \in Nat /\ step \in Nat
  BY <1>1, SMT
<1>3. /\ first * input < (low + 1) * output
      /\ high * output <= (end - 1) * input
      /\ low * output <= first * input
  <2>1. ~((low + 1) * output <= first * input)
    BY <1>1, <1>2, QuotientIsFloor, low + 1 \in Int, ~(low + 1 <= low), first * input \in Int
  <2>2. high * output <= (end - 1) * input /\ low * output <= first * input
    BY <1>1, <1>2, QuotientIsFloor, high \in Int, low \in Int, high <= high, low <= low,
       first * input \in Int, (end - 1) * input \in Int
  <2>3. (low + 1) * output \in Int
    BY <1>2, SMT
  <2> HIDE DEF low
  <2> QED
    BY <1>1, <2>1, <2>2, <2>3, SMT
<1>4. (rows - 1) * input <= step * output
  <2>1. ~((step + 1) * output <= (rows - 1) * input + output - 1)
    BY <1>1, <1>2, QuotientIsFloor, step + 1 \in Int, ~(step + 1 <= step),
       (rows - 1) * input + output - 1 \in Int
  <2>2. (step + 1) * output = step * output + output /\ step * output \in Int
    BY <1>2, SMT
  <2> HIDE DEF step
  <2> QED
    BY <1>1, <2>1, <2>2, SMT
<1>5. low <= high
  <2>1. first * input <= (end - 1) * input
    BY TimesMonotone
  <2>2. low * output <= (end - 1) * input
    BY <1>1, <1>2, <1>3, <2>1, low * output \in Int, SMT
  <2> QED
    BY <1>1, <1>2, <2>2, QuotientIsFloor, low \in Int, (end - 1) * input \in Int
<1>6. high <= low + step
  <2>1. (end - 1 - first) * input <= (rows - 1) * input
    BY TimesMonotone
  <2>2. (end - 1 - first) * input = (end - 1) * input - first * input
    BY SMT
  <2>3. (low + 1 + step) * output = (low + 1) * output + step * output
    BY <1>2, SMT
  <2>4. (low + 1) * output \in Int /\ step * output \in Int /\ high * output \in Int
    BY <1>2, SMT
  <2>5. ~((low + 1 + step) * output <= high * output)
    <3> HIDE DEF low, high, step
    <3> QED
      BY <1>1, <1>3, <1>4, <2>1, <2>2, <2>3, <2>4, SMT
  <2>6. ~(low + 1 + step <= high)
    BY <1>2, <2>5, TimesMonotone, low + 1 + step \in Int, high \in Int, output \in Nat
  <2> HIDE DEF low, high, step
  <2> QED
    BY <1>2, <2>6, SMT
<1>7. /\ in.first = Smaller(low, input - 1)
      /\ in.end = Smaller(high, input - 1) + 1
  BY Zenon DEF ResizeRows, NearestRow
<1>8. ASSUME rows > 1
      PROVE  in.end - in.first \in 1 .. ResizeMaxRows(input, output, rows)
  <2>1. ResizeMaxRows(input, output, rows) = Smaller(input, 2 + step)
    BY <1>8, Zenon DEF ResizeMaxRows
  <2> HIDE DEF low, high, step, in
  <2> QED
    BY <1>2, <1>5, <1>6, <1>7, <2>1, SMT DEF Smaller
<1>9. ASSUME ~(rows > 1)
      PROVE  in.end - in.first \in 1 .. ResizeMaxRows(input, output, rows)
  <2>1. end - 1 = first
    BY <1>9, SMT
  <2>2. low = high
    BY <2>1, Zenon
  <2>3. ResizeMaxRows(input, output, rows) = Smaller(input, 1)
    BY <1>9, Zenon DEF ResizeMaxRows
  <2> HIDE DEF low, high, step, in
  <2> QED
    BY <1>2, <1>7, <2>2, <2>3, SMT DEF Smaller
<1> QED
  BY <1>8, <1>9, Zenon

=============================================================================
