-------------------------- MODULE StockMathProofs ---------------------------
(***************************************************************************)
(* The laws of SumOver that the proofs about stock rest on, for every      *)
(* finite set and every function to the naturals on it; and, from them,    *)
(* that every attribution of a discount closes over it, under the ceiling  *)
(* of each line and inside the eligible set.                               *)
(***************************************************************************)
EXTENDS DiscountAllocation, FiniteSetTheorems, WellFoundedInduction, TLAPS

\* The units of one term.
TermUnits(x, w) == {<<x, i>> : i \in 1..w[x]}

\* A term of quantity n has n units: the accumulation in calculateMaterialNeed
\* and the replay in reverseStockDebit add it once.
LEMMA TermSize ==
  ASSUME NEW x, NEW w, w[x] \in Nat
  PROVE  IsFiniteSet(TermUnits(x, w)) /\ Cardinality(TermUnits(x, w)) = w[x]
<1> DEFINE f == [i \in 1..w[x] |-> <<x, i>>]
<1>1. f \in [1..w[x] -> TermUnits(x, w)]
  BY DEF TermUnits
<1>2. f \in Injection(1..w[x], TermUnits(x, w))
  BY <1>1 DEF Injection, IsInjective
<1>3. f \in Surjection(1..w[x], TermUnits(x, w))
  BY <1>1 DEF Surjection, TermUnits
<1>4. ExistsBijection(1..w[x], TermUnits(x, w))
  BY <1>2, <1>3 DEF ExistsBijection, Bijection
<1>5. IsFiniteSet(1..w[x]) /\ Cardinality(1..w[x]) = w[x]
  BY FS_Interval
<1> QED
  BY <1>4, <1>5, FS_Bijection

\* The units of finitely many terms are finitely many.
LEMMA UnitsFinite ==
  ASSUME NEW S, IsFiniteSet(S), NEW w, \A x \in S : w[x] \in Nat
  PROVE  IsFiniteSet(Units(S, w))
<1> DEFINE T == {TermUnits(x, w) : x \in S}
           f == [x \in S |-> TermUnits(x, w)]
<1>1. f \in Surjection(S, T)
  BY DEF Surjection
<1>2. IsFiniteSet(T)
  BY <1>1, FS_Surjection
<1>3. \A t \in T : IsFiniteSet(t)
  BY TermSize
<1>4. IsFiniteSet(UNION T)
  BY <1>2, <1>3, FS_UNION
<1> QED
  BY <1>4 DEF Units, TermUnits

\* A sum of naturals is a natural.
LEMMA SumIsNat ==
  ASSUME NEW S, IsFiniteSet(S), NEW w, \A x \in S : w[x] \in Nat
  PROVE  SumOver(S, w) \in Nat
BY UnitsFinite, FS_CardinalityType DEF SumOver

\* A sum splits into one of its terms and the rest.
LEMMA SumSplit ==
  ASSUME NEW S, IsFiniteSet(S), NEW w, \A x \in S : w[x] \in Nat, NEW s \in S
  PROVE  SumOver(S, w) = SumOver(S \ {s}, w) + w[s]
<1> DEFINE R == S \ {s}
<1>1. IsFiniteSet(R)
  BY FS_RemoveElement
<1>2. IsFiniteSet(Units(R, w))
  BY <1>1, UnitsFinite
<1>3. IsFiniteSet(TermUnits(s, w)) /\ Cardinality(TermUnits(s, w)) = w[s]
  BY TermSize
<1>4. Units(S, w) = Units(R, w) \cup TermUnits(s, w)
  BY DEF Units, TermUnits
<1>5. Units(R, w) \cap TermUnits(s, w) = {}
  BY DEF Units, TermUnits
<1>6. Cardinality(Units(R, w) \cup TermUnits(s, w))
      = Cardinality(Units(R, w)) + Cardinality(TermUnits(s, w)) - Cardinality({})
  BY ONLY <1>2, <1>3, <1>5, FS_Union
<1>7. Cardinality(Units(R, w)) \in Nat
  BY <1>2, FS_CardinalityType
<1> QED
  BY <1>3, <1>4, <1>6, <1>7, FS_EmptySet DEF SumOver

\* A sum depends only on its terms.
LEMMA SumSameTerms ==
  ASSUME NEW S, NEW v, NEW w, \A x \in S : v[x] = w[x]
  PROVE  SumOver(S, v) = SumOver(S, w)
<1>1. Units(S, v) = Units(S, w)
  BY DEF Units
<1> QED
  BY <1>1 DEF SumOver

\* Replacing one term moves the sum by the difference: what a debit or a
\* reversal of one sale does to the total outstanding.
LEMMA SumReplaceTerm ==
  ASSUME NEW S, IsFiniteSet(S), NEW s \in S,
         NEW v, \A x \in S : v[x] \in Nat,
         NEW w, \A x \in S : w[x] \in Nat,
         \A x \in S \ {s} : v[x] = w[x]
  PROVE  SumOver(S, w) = SumOver(S, v) - v[s] + w[s]
<1>1. SumOver(S, v) = SumOver(S \ {s}, v) + v[s]
  BY SumSplit
<1>2. SumOver(S, w) = SumOver(S \ {s}, w) + w[s]
  BY SumSplit
<1>3. SumOver(S \ {s}, v) = SumOver(S \ {s}, w)
  BY SumSameTerms
<1>4. IsFiniteSet(S \ {s})
  BY FS_RemoveElement
<1>5. SumOver(S \ {s}, v) \in Nat
  BY <1>4, SumIsNat
<1> QED
  BY <1>1, <1>2, <1>3, <1>5

\* A sum of zeros is zero: no sale holds anything before its first debit.
LEMMA SumOfZeros ==
  ASSUME NEW S, NEW w, \A x \in S : w[x] = 0
  PROVE  SumOver(S, w) = 0
<1>1. Units(S, w) = {}
  BY DEF Units
<1> QED
  BY <1>1, FS_EmptySet DEF SumOver

-----------------------------------------------------------------------------
(* Induction, on the sizes of sets and on what a loop has gone through.    *)

\* Of naturals that fail, one fails first.
LEMMA LeastNatural ==
  ASSUME NEW S \in SUBSET Nat, S # {}
  PROVE  \E n \in S : \A m \in S : n <= m
<1> DEFINE less == OpToRel(<, Nat)
<1>1. \E n \in S : \A m \in S : ~ (<<m, n>> \in less)
  <2>1. IsWellFoundedOn(less, Nat)
    BY NatLessThanWellFounded
  <2> HIDE DEF less
  <2> QED
    BY <2>1, WFMin
<1>2. PICK n \in S : \A m \in S : ~ (<<m, n>> \in less)
  BY <1>1
<1>3. \A m \in S : ~ (m < n)
  BY <1>2 DEF OpToRel
<1> QED
  BY <1>3

\* Counting up to n: what holds at first, and of a row once of the one before.
LEMMA CountingUp ==
  ASSUME NEW n \in Nat, NEW held, 0 \in held, \A i \in 1..n : i - 1 \in held => i \in held
  PROVE  \A i \in 0..n : i \in held
<1> DEFINE stuck == {i \in 0..n : i \notin held}
<1>1. stuck \in SUBSET Nat
  OBVIOUS
<1>2. ASSUME stuck # {} PROVE FALSE
  <2>1. \E k \in stuck : \A j \in stuck : k <= j
    <3> HIDE DEF stuck
    <3> QED
      BY <1>1, <1>2, LeastNatural
  <2>2. PICK k \in stuck : \A j \in stuck : k <= j
    BY <2>1
  <2>3. k \in 1..n /\ k - 1 \in 0..n /\ k - 1 \notin stuck
    BY <2>2
  <2> QED
    BY <2>2, <2>3
<1> QED
  BY <1>2

\* Growing a finite set: what holds of a set once it does of all that have one
\* element less, holds of every finite set.
LEMMA GrowingASet ==
  ASSUME NEW S, IsFiniteSet(S), NEW held,
         \A T \in SUBSET S : (\A x \in T : T \ {x} \in held) => T \in held
  PROVE  S \in held
<1> DEFINE stuck == {T \in SUBSET S : T \notin held}
           sizes == {Cardinality(T) : T \in stuck}
<1>1. \A T \in SUBSET S : IsFiniteSet(T) /\ Cardinality(T) \in Nat
  BY FS_Subset, FS_CardinalityType
<1>2. sizes \in SUBSET Nat
  BY <1>1
<1>3. ASSUME stuck # {} PROVE FALSE
  <2>1. sizes # {}
    BY <1>3
  <2>2. \E n \in sizes : \A m \in sizes : n <= m
    <3> HIDE DEF sizes
    <3> QED
      BY <1>2, <2>1, LeastNatural
  <2>3. PICK T \in stuck : \A R \in stuck : Cardinality(T) <= Cardinality(R)
    BY <2>2
  <2>4. ASSUME NEW x \in T PROVE T \ {x} \in held
    <3>1. T \ {x} \in SUBSET S /\ Cardinality(T \ {x}) = Cardinality(T) - 1
      BY <1>1, <2>3, FS_RemoveElement
    <3>2. T \ {x} \notin stuck
      BY <1>1, <2>3, <3>1
    <3> QED
      BY <3>1, <3>2
  <2> QED
    BY <2>3, <2>4
<1> QED
  BY <1>3

-----------------------------------------------------------------------------
(* Sums of sums.                                                           *)

LEMMA SumWithoutZeros ==
  ASSUME NEW T, NEW S \in SUBSET T, NEW w, \A x \in T \ S : w[x] = 0
  PROVE  SumOver(S, w) = SumOver(T, w)
<1>1. Units(S, w) = Units(T, w)
  BY DEF Units
<1> QED
  BY <1>1 DEF SumOver

\* The values of a function, added up in any order, are its sum.
LEMMA SumOfFunction ==
  ASSUME NEW w, IsFiniteSet(DOMAIN w), \A x \in DOMAIN w : w[x] \in Nat
  PROVE  SumFunction(w) = SumOver(DOMAIN w, w)
<1> DEFINE S == DOMAIN w
           Any(T) == CHOOSE x \in T : TRUE
           Loop(f) == [T \in SUBSET S |-> IF T = {} THEN 0 ELSE w[Any(T)] + f[T \ {Any(T)}]]
           g == [T \in SUBSET S |-> SumOver(T, w)]
<1>1. \A T \in SUBSET S : T # {} => Any(T) \in T
  OBVIOUS
<1>2. SumOver({}, w) = 0
  BY SumOfZeros
<1>3. ASSUME NEW T \in SUBSET S, NEW x \in T
      PROVE  SumOver(T, w) = w[x] + SumOver(T \ {x}, w)
  <2>1. IsFiniteSet(T) /\ IsFiniteSet(T \ {x}) /\ \A y \in T : w[y] \in Nat
    BY FS_Subset
  <2>2. SumOver(T, w) = SumOver(T \ {x}, w) + w[x] /\ SumOver(T \ {x}, w) \in Nat
    BY <2>1, SumSplit, SumIsNat
  <2> QED
    BY <2>1, <2>2
<1>4. g = Loop(g)
  <2>1. ASSUME NEW T \in SUBSET S PROVE g[T] = Loop(g)[T]
    <3>1. CASE T = {}
      BY <1>2, <3>1
    <3>2. CASE T # {}
      <4>1. Any(T) \in T /\ T \ {Any(T)} \in SUBSET S
        BY <1>1, <3>2
      <4>2. g[T] = SumOver(T, w) /\ g[T \ {Any(T)}] = SumOver(T \ {Any(T)}, w)
        BY <4>1
      <4>3. Loop(g)[T] = w[Any(T)] + g[T \ {Any(T)}]
        BY <3>2
      <4> HIDE DEF g, Any, Loop
      <4> QED
        BY <1>3, <4>1, <4>2, <4>3
    <3> QED
      BY <3>1, <3>2
  <2>2. g = [T \in SUBSET S |-> g[T]] /\ Loop(g) = [T \in SUBSET S |-> Loop(g)[T]]
    OBVIOUS
  <2> HIDE DEF g, Loop
  <2> QED
    BY <2>1, <2>2
<1> HIDE DEF g
<1> DEFINE iter == CHOOSE iter : iter = Loop(iter)
<1>5. iter = Loop(iter)
  BY <1>4
<1>6. SumFunction(w) = iter[S]
  BY DEF SumFunction, SumFunctionOnSet, FoldFunctionOnSet, MapThenFoldSet
<1> HIDE DEF iter
<1> DEFINE held == {T \in SUBSET S : iter[T] = SumOver(T, w)}
<1>7. ASSUME NEW T \in SUBSET S, \A x \in T : T \ {x} \in held PROVE T \in held
  <2>1. iter[T] = Loop(iter)[T]
    BY <1>5
  <2>2. CASE T = {}
    BY <1>2, <2>1, <2>2
  <2>3. CASE T # {}
    <3>1. Any(T) \in T /\ iter[T] = w[Any(T)] + iter[T \ {Any(T)}]
      BY <1>1, <2>1, <2>3
    <3>2. iter[T \ {Any(T)}] = SumOver(T \ {Any(T)}, w)
      BY <1>7, <3>1
    <3> HIDE DEF Any
    <3> QED
      BY <1>3, <3>1, <3>2
  <2> QED
    BY <2>2, <2>3
<1>8. S \in held
  <2> HIDE DEF held
  <2> QED
    BY <1>7, GrowingASet
<1> QED
  BY <1>6, <1>8

LEMMA SumOfBoth ==
  ASSUME NEW S, IsFiniteSet(S), NEW T, IsFiniteSet(T), S \cap T = {},
         NEW w, \A x \in S \cup T : w[x] \in Nat
  PROVE  SumOver(S \cup T, w) = SumOver(S, w) + SumOver(T, w)
<1>1. IsFiniteSet(Units(S, w)) /\ IsFiniteSet(Units(T, w))
  BY UnitsFinite
<1>2. Units(S \cup T, w) = Units(S, w) \cup Units(T, w) /\ Units(S, w) \cap Units(T, w) = {}
  BY DEF Units
<1>3. Cardinality(Units(S, w) \cup Units(T, w))
        = Cardinality(Units(S, w)) + Cardinality(Units(T, w)) - Cardinality(Units(S, w) \cap Units(T, w))
  BY <1>1, FS_Union
<1>4. Cardinality(Units(S, w)) \in Nat /\ Cardinality(Units(T, w)) \in Nat /\ Cardinality({}) = 0
  BY <1>1, FS_CardinalityType, FS_EmptySet
<1>5. Cardinality(Units(S, w) \cap Units(T, w)) = 0
  BY <1>2, <1>4
<1>6. Cardinality(Units(S \cup T, w)) = Cardinality(Units(S, w)) + Cardinality(Units(T, w))
  <2>1. Cardinality(Units(S \cup T, w)) = Cardinality(Units(S, w) \cup Units(T, w))
    BY <1>2
  <2> QED
    BY <1>3, <1>4, <1>5, <2>1
<1> QED
  BY <1>6 DEF SumOver

\* The elements of S that carry a label.
Labelled(S, label, x) == {s \in S : label[s] = x}

\* What is added up by label, label by label, is what is added up at once.
LEMMA SumByLabel ==
  ASSUME NEW S, IsFiniteSet(S), NEW w, \A s \in S : w[s] \in Nat,
         NEW X, IsFiniteSet(X), NEW label, \A s \in S : label[s] \in X,
         NEW v, \A x \in X : v[x] = SumOver(Labelled(S, label, x), w)
  PROVE  SumOver(X, v) = SumOver(S, w) /\ \A x \in X : v[x] \in Nat
<1> DEFINE Under(T) == {s \in S : label[s] \in T}
           held == {T \in SUBSET X : SumOver(T, v) = SumOver(Under(T), w)}
<1>1. \A T \in SUBSET X : IsFiniteSet(T) /\ IsFiniteSet(Under(T))
  BY FS_Subset
<1>2. ASSUME NEW x \in X PROVE v[x] \in Nat /\ IsFiniteSet(Labelled(S, label, x))
  <2>1. IsFiniteSet(Labelled(S, label, x))
    BY FS_Subset DEF Labelled
  <2> QED
    BY <2>1, SumIsNat DEF Labelled
<1>3. ASSUME NEW T \in SUBSET X, \A x \in T : T \ {x} \in held PROVE T \in held
  <2>1. CASE T = {}
    <3>1. Under(T) = {}
      BY <2>1
    <3>2. SumOver(T, v) = 0 /\ SumOver({}, w) = 0
      BY <2>1, SumOfZeros
    <3> QED
      BY <3>1, <3>2
  <2>2. CASE T # {}
    <3>1. PICK x \in T : TRUE
      BY <2>2
    <3> DEFINE one == Labelled(S, label, x)
               rest == Under(T \ {x})
    <3>2. SumOver(T, v) = SumOver(T \ {x}, v) + v[x]
      BY <1>1, <1>2, <3>1, SumSplit
    <3>3. SumOver(T \ {x}, v) = SumOver(rest, w)
      BY <1>3, <3>1
    <3>4. Under(T) = rest \cup one /\ rest \cap one = {}
      BY <3>1 DEF Labelled
    <3>5. IsFiniteSet(rest) /\ IsFiniteSet(one) /\ \A s \in rest \cup one : w[s] \in Nat
      BY <1>1, <1>2, <3>1 DEF Labelled
    <3>6. v[x] = SumOver(one, w)
      BY <3>1
    <3> HIDE DEF one, rest, Under
    <3>7. SumOver(rest \cup one, w) = SumOver(rest, w) + SumOver(one, w)
      BY <3>4, <3>5, SumOfBoth
    <3> QED
      BY <3>2, <3>3, <3>4, <3>6, <3>7
  <2> QED
    BY <2>1, <2>2
<1>4. X \in held
  <2> HIDE DEF held
  <2> QED
    BY <1>3, GrowingASet
<1>5. Under(X) = S
  OBVIOUS
<1> QED
  BY <1>2, <1>4, <1>5

LEMMA SumOfOnes ==
  ASSUME NEW S, IsFiniteSet(S), NEW w, \A x \in S : w[x] = 1
  PROVE  SumOver(S, w) = Cardinality(S)
<1> DEFINE held == {T \in SUBSET S : SumOver(T, w) = Cardinality(T)}
<1>1. ASSUME NEW T \in SUBSET S, \A x \in T : T \ {x} \in held PROVE T \in held
  <2>1. IsFiniteSet(T) /\ Cardinality(T) \in Nat
    BY FS_Subset, FS_CardinalityType
  <2>2. CASE T = {}
    BY <2>2, SumOfZeros, FS_EmptySet
  <2>3. CASE T # {}
    <3>1. PICK x \in T : TRUE
      BY <2>3
    <3>2. SumOver(T, w) = SumOver(T \ {x}, w) + w[x]
      BY <2>1, <3>1, SumSplit
    <3>3. Cardinality(T \ {x}) = Cardinality(T) - 1
      BY <2>1, <3>1, FS_RemoveElement
    <3> QED
      BY <1>1, <2>1, <3>1, <3>2, <3>3
  <2> QED
    BY <2>2, <2>3
<1>2. S \in held
  <2> HIDE DEF held
  <2> QED
    BY <1>1, GrowingASet
<1> QED
  BY <1>2

\* What is counted by label is counted once.
LEMMA CountByLabel ==
  ASSUME NEW S, IsFiniteSet(S), NEW X, IsFiniteSet(X), NEW label, \A s \in S : label[s] \in X,
         NEW v, \A x \in X : v[x] = Cardinality(Labelled(S, label, x))
  PROVE  SumOver(X, v) = Cardinality(S) /\ \A x \in X : v[x] \in Nat
<1> DEFINE ones == [s \in S |-> 1]
<1>1. \A s \in S : ones[s] = 1 /\ ones[s] \in Nat
  OBVIOUS
<1> HIDE DEF ones
<1>2. ASSUME NEW x \in X PROVE v[x] = SumOver(Labelled(S, label, x), ones)
  <2>1. IsFiniteSet(Labelled(S, label, x))
    BY FS_Subset DEF Labelled
  <2>2. \A s \in Labelled(S, label, x) : ones[s] = 1
    BY <1>1 DEF Labelled
  <2> QED
    BY <2>1, <2>2, SumOfOnes
<1>3. SumOver(X, v) = SumOver(S, ones) /\ \A x \in X : v[x] \in Nat
  <2>1. \A s \in S : ones[s] \in Nat
    BY <1>1
  <2>2. \A x \in X : v[x] = SumOver(Labelled(S, label, x), ones)
    BY <1>2
  <2> QED
    BY <2>1, <2>2, SumByLabel
<1> QED
  BY <1>1, <1>3, SumOfOnes

-----------------------------------------------------------------------------
(* Shares of a discount.                                                   *)

\* Division by a positive number, by what it leaves.
LEMMA Quotient ==
  ASSUME NEW a \in Nat, NEW b \in Nat \ {0}
  PROVE  /\ a \div b \in Nat
         /\ b * (a \div b) <= a
         /\ a < b * (a \div b) + b
OBVIOUS

LEMMA ProductGrows ==
  ASSUME NEW a \in Nat, NEW b \in Nat, NEW c \in Nat, a <= b
  PROVE  c * a <= c * b
OBVIOUS

\* A share is a natural number, within half a cent of the exact one, and no
\* more than the value it is a share of.
LEMMA ShareIsFair ==
  ASSUME NEW value \in Nat, NEW discount \in Nat, NEW total \in Nat \ {0}, discount <= total
  PROVE  LET q == Share(value, discount, total)
         IN /\ q \in Nat
            /\ q <= value
            /\ 2 * (value * discount - q * total) <= total
            /\ 2 * (q * total - value * discount) <= total
<1> DEFINE q == Share(value, discount, total)
           exact == value * discount
           held == q * total
<1>1. exact \in Nat /\ 2 * total \in Nat \ {0} /\ 2 * exact + total \in Nat
  OBVIOUS
<1>2. q = (2 * exact + total) \div (2 * total)
  <2>1. 2 * value * discount = 2 * exact
    OBVIOUS
  <2> QED
    BY <2>1 DEF Share
<1>3. q \in Nat /\ (2 * total) * q <= 2 * exact + total
        /\ 2 * exact + total < (2 * total) * q + 2 * total
  <2> HIDE DEF exact, q
  <2> QED
    BY <1>1, <1>2, Quotient
<1>4. held \in Nat /\ (2 * total) * q = 2 * held
  <2> HIDE DEF q
  <2> QED
    BY <1>3
<1>5. 2 * (exact - held) <= total /\ 2 * (held - exact) <= total
  <2> HIDE DEF exact, held, q
  <2> QED
    BY <1>1, <1>3, <1>4
<1>6. q <= value
  <2> SUFFICES ASSUME value + 1 <= q PROVE FALSE
    BY <1>3
  <2>1. exact <= value * total
    BY ProductGrows
  <2>2. total * (value + 1) <= total * q
    <3> HIDE DEF q
    <3> QED
      BY <1>3, ProductGrows
  <2>3. total * (value + 1) = value * total + total
    OBVIOUS
  <2>4. total * q = held
    <3> HIDE DEF q
    <3> QED
      BY <1>3
  <2> DEFINE worth == value * total
  <2>5. worth \in Nat
    OBVIOUS
  <2>6. worth + total <= held
    BY <2>2, <2>3, <2>4
  <2> QED
    <3> HIDE DEF exact, held, q, worth
    <3> QED
      BY <1>1, <1>4, <1>5, <2>1, <2>5, <2>6 DEF worth
<1> QED
  BY <1>3, <1>5, <1>6

-----------------------------------------------------------------------------
(* The attribution.                                                        *)

\* The lines of a purchase whose values and discount an allocation is given.
Given(ls, g, theirs, d, m, manual) ==
  /\ ls \subseteq Lines /\ g \in Amounts /\ d \in Nat /\ m \in Modes /\ manual \in Amounts

LEMMA SubsetFinite ==
  ASSUME NEW S \in SUBSET Lines
  PROVE  IsFiniteSet(S)
BY LinesAssumption, FS_Subset

LEMMA EligibleAreLines ==
  ASSUME NEW ls, NEW theirs, NEW m
  PROVE  EligibleLines(ls, theirs, m) \subseteq ls
BY DEF EligibleLines

\* What allocateProportionally returns: natural amounts that add up to the
\* discount, under each line's value and nothing outside the eligible set.
LEMMA ProportionalCloses ==
  ASSUME NEW eligible \in SUBSET Lines, NEW g \in Amounts, NEW d \in Nat, d # 0,
         NEW a \in ProportionalAllocations(eligible, g, d)
  PROVE  /\ a \in Amounts
         /\ SumOver(Lines, a) = d
         /\ \A l \in Lines : a[l] <= g[l]
         /\ \A l \in Lines \ eligible : a[l] = 0
         /\ \E r \in eligible : \A l \in eligible \ {r} :
              a[l] = Share(g[l], d, SumOver(eligible, g))
<1> DEFINE total == SumOver(eligible, g)
           shares == Shares(eligible, g, d)
           residue == d - SumOver(Lines, shares)
<1>1. /\ eligible # {} /\ ~ d > total
      /\ residue = 0 => a = shares
      /\ residue # 0 => \E r \in ResidueLines(eligible, g, shares, residue) :
                          a = [shares EXCEPT ![r] = @ + residue]
  BY DEF ProportionalAllocations
<1>2. \A l \in Lines : g[l] \in Nat
  BY DEF Amounts
<1>3. total \in Nat
  <2>1. IsFiniteSet(eligible) /\ \A l \in eligible : g[l] \in Nat
    BY <1>2, SubsetFinite
  <2> QED
    BY <2>1, SumIsNat
<1>4. shares = [l \in Lines |-> IF l \in eligible THEN Share(g[l], d, total) ELSE 0]
  BY DEF Shares
<1>5. residue = d - SumOver(Lines, shares)
  OBVIOUS
<1> SUFFICES /\ a \in Amounts
             /\ SumOver(Lines, a) = d
             /\ \A l \in Lines : a[l] <= g[l]
             /\ \A l \in Lines \ eligible : a[l] = 0
             /\ \E r \in eligible : \A l \in eligible \ {r} : a[l] = Share(g[l], d, total)
  OBVIOUS
<1> HIDE DEF total, shares, residue
<1>6. total \in Nat \ {0} /\ d <= total
  BY <1>1, <1>3
<1>7. ASSUME NEW l \in Lines
      PROVE  Share(g[l], d, total) \in Nat /\ Share(g[l], d, total) <= g[l]
  BY <1>2, <1>6, ShareIsFair
<1>8. \A l \in Lines : shares[l] \in Nat /\ shares[l] <= g[l]
  BY <1>2, <1>4, <1>7
<1>9. shares \in Amounts
  BY <1>4, <1>7 DEF Amounts
<1>10. SumOver(Lines, shares) \in Nat
  BY <1>8, LinesAssumption, SumIsNat
<1>11. CASE residue = 0
  <2>1. a = shares /\ SumOver(Lines, shares) = d
    BY <1>1, <1>5, <1>10, <1>11
  <2>2. \A l \in Lines \ eligible : a[l] = 0
    BY <1>4, <2>1
  <2>3. \A l \in eligible : a[l] = Share(g[l], d, total)
    BY <1>4, <2>1
  <2>4. \E r \in eligible : \A l \in eligible \ {r} : a[l] = Share(g[l], d, total)
    BY <1>1, <2>3
  <2> QED
    BY <1>8, <1>9, <2>1, <2>2, <2>4
<1>12. CASE residue # 0
  <2>1. PICK r \in ResidueLines(eligible, g, shares, residue) :
          a = [shares EXCEPT ![r] = @ + residue]
    BY <1>1, <1>12
  <2>2. r \in eligible /\ r \in Lines /\ shares[r] + residue \in 0..g[r]
    BY <2>1 DEF ResidueLines, Absorbs
  <2>3. /\ a[r] = shares[r] + residue
        /\ \A l \in Lines \ {r} : a[l] = shares[l]
    BY <1>9, <2>1, <2>2 DEF Amounts
  <2>4. a[r] \in Nat /\ a[r] <= g[r]
    BY <1>2, <2>2, <2>3
  <2>5. \A l \in Lines : a[l] \in Nat /\ a[l] <= g[l]
    BY <1>8, <2>3, <2>4
  <2>6. a \in Amounts
    BY <1>9, <2>1, <2>4 DEF Amounts
  <2>7. SumOver(Lines, a) = SumOver(Lines, shares) - shares[r] + a[r]
    BY <1>8, <2>2, <2>3, <2>5, LinesAssumption, SumReplaceTerm
  <2>8. SumOver(Lines, a) = d
    <3>1. shares[r] \in Nat /\ a[r] \in Nat
      BY <1>8, <2>2, <2>4
    <3> QED
      BY <1>5, <1>10, <2>3, <2>7, <3>1
  <2>9. \A l \in Lines \ eligible : a[l] = 0
    BY <1>4, <2>2, <2>3
  <2>10. \A l \in eligible \ {r} : a[l] = Share(g[l], d, total)
    BY <1>4, <2>3
  <2> QED
    BY <2>2, <2>5, <2>6, <2>8, <2>9, <2>10
<1> QED
  BY <1>11, <1>12

\* The three invariants of allocateDiscount, whichever mode is chosen.
LEMMA AllocationCloses ==
  ASSUME NEW ls, NEW g, NEW theirs, NEW d, NEW m, NEW manual,
         Given(ls, g, theirs, d, m, manual),
         NEW a \in Allocations(ls, g, theirs, d, m, manual)
  PROVE  /\ a \in Amounts
         /\ SumOver(Lines, a) = d
         /\ \A l \in Lines : a[l] <= g[l]
         /\ \A l \in Lines \ EligibleLines(ls, theirs, m) : a[l] = 0
<1>1. CASE d = 0
  <2>1. a = NoAmounts
    BY <1>1 DEF Allocations
  <2>2. \A l \in Lines : a[l] = 0
    BY <2>1 DEF NoAmounts
  <2>3. a \in Amounts /\ SumOver(Lines, a) = 0
    BY <2>1, <2>2, SumOfZeros DEF NoAmounts, Amounts
  <2> QED
    BY <1>1, <2>2, <2>3 DEF Given, Amounts
<1>2. CASE d # 0 /\ m = "MANUAL"
  <2> DEFINE typed == [l \in Lines |-> IF l \in ls THEN manual[l] ELSE 0]
  <2>1. a = typed /\ SumOver(Lines, a) = d /\ \A l \in ls : a[l] <= g[l]
    BY <1>2 DEF Allocations, ManualAllocations
  <2>2. a \in Amounts
    BY <2>1 DEF Given, Amounts
  <2>3. EligibleLines(ls, theirs, m) = ls
    BY <1>2 DEF EligibleLines
  <2>4. \A l \in Lines \ ls : a[l] = 0
    BY <2>1
  <2> QED
    BY <2>1, <2>2, <2>3, <2>4 DEF Given, Amounts
<1>3. CASE d # 0 /\ m # "MANUAL"
  <2>1. a \in ProportionalAllocations(EligibleLines(ls, theirs, m), g, d)
    BY <1>3 DEF Allocations
  <2>2. EligibleLines(ls, theirs, m) \in SUBSET Lines
    <3>1. ls \in SUBSET Lines
      BY DEF Given
    <3> QED
      BY <3>1, EligibleAreLines
  <2>3. g \in Amounts /\ d \in Nat /\ d # 0
    BY <1>3 DEF Given
  <2> DEFINE eligible == EligibleLines(ls, theirs, m)
  <2> HIDE DEF eligible
  <2>4. /\ a \in Amounts
        /\ SumOver(Lines, a) = d
        /\ \A l \in Lines : a[l] <= g[l]
        /\ \A l \in Lines \ eligible : a[l] = 0
    <3>1. eligible \in SUBSET Lines /\ a \in ProportionalAllocations(eligible, g, d)
      BY <2>1, <2>2 DEF eligible
    <3> QED
      BY <2>3, <3>1, ProportionalCloses
  <2> QED
    BY <2>4 DEF eligible
<1> QED
  BY <1>1, <1>2, <1>3

LEMMA SumOfNothing ==
  ASSUME NEW w \in Amounts, SumOver(Lines, w) = 0, NEW l \in Lines
  PROVE  w[l] = 0
<1>1. \A x \in Lines : w[x] \in Nat
  BY DEF Amounts
<1>2. IsFiniteSet(Lines) /\ IsFiniteSet(Lines \ {l})
  BY LinesAssumption, FS_RemoveElement
<1>3. SumOver(Lines, w) = SumOver(Lines \ {l}, w) + w[l]
  BY <1>1, <1>2, SumSplit
<1>4. SumOver(Lines \ {l}, w) \in Nat
  BY <1>1, <1>2, SumIsNat
<1> QED
  BY <1>1, <1>3, <1>4

\* Outside MANUAL what the user typed plays no part.
LEMMA TypedIsIgnored ==
  ASSUME NEW ls, NEW g, NEW theirs, NEW d, NEW m, m # "MANUAL", NEW manual, NEW other
  PROVE  Allocations(ls, g, theirs, d, m, manual) = Allocations(ls, g, theirs, d, m, other)
BY DEF Allocations

=============================================================================
