------------------------------ MODULE FiniteFacts ------------------------------
(***************************************************************************)
(* Facts about finite sets: least numbers and induction on subsets, what    *)
(* sorting by a strict total order gives, and sums.                         *)
(***************************************************************************)
EXTENDS Integers, FiniteSets, FiniteSetTheorems, WellFoundedInduction, TLAPS

\* Before, a set of pairs, orders S strictly and totally.
StrictOrder(Before, S) ==
    /\ \A x \in S : <<x, x>> \notin Before
    /\ \A x, y, z \in S : <<x, y>> \in Before /\ <<y, z>> \in Before => <<x, z>> \in Before
    /\ \A x, y \in S : x = y \/ <<x, y>> \in Before \/ <<y, x>> \in Before

\* The positions of s ascend.
Ascending(s, n, Before) ==
    \A j, k \in 1..n : j < k => <<s[j], s[k]>> \in Before

-----------------------------------------------------------------------------
\* A set of numbers that is not empty has a least one.
LEMMA Least ==
  ASSUME NEW S \in SUBSET Nat, S # {}
  PROVE  \E least \in S : \A n \in S : ~(n < least)
<1> DEFINE Below == {pair \in Nat \X Nat : pair[1] < pair[2]}
<1>1. IsWellFoundedOn(Below, Nat)
  BY NatLessThanWellFounded DEF OpToRel
<1>2. \A m, n \in Nat : m < n => <<m, n>> \in Below
  OBVIOUS
<1> HIDE DEF Below
<1>3. \E least \in S : \A n \in S : ~(<<n, least>> \in Below)
  BY <1>1, WFMin
<1> QED
  BY <1>2, <1>3

\* A finite set can be sorted: each element's place is the number of those before it.
LEMMA Sorting ==
  ASSUME NEW S, IsFiniteSet(S), NEW Before, StrictOrder(Before, S)
  PROVE  \E s \in [1..Cardinality(S) -> S] : Ascending(s, Cardinality(S), Before)
<1> DEFINE n == Cardinality(S)
           upTo(x) == {y \in S : y = x \/ <<y, x>> \in Before}
           rank == [x \in S |-> Cardinality(upTo(x))]
<1>1. n \in Nat
  BY FS_CardinalityType
<1>2. ASSUME NEW x \in S
      PROVE  IsFiniteSet(upTo(x)) /\ rank[x] \in 1..n
  <2>1. IsFiniteSet(upTo(x)) /\ Cardinality(upTo(x)) <= n
    BY FS_Subset
  <2>2. Cardinality(upTo(x)) # 0
    BY <2>1, FS_EmptySet
  <2> QED
    BY <1>1, <2>1, <2>2, FS_CardinalityType
<1>3. ASSUME NEW x \in S, NEW y \in S, <<x, y>> \in Before
      PROVE  rank[x] < rank[y]
  <2>1. upTo(x) \subseteq upTo(y) /\ y \in upTo(y) /\ y \notin upTo(x)
    BY <1>3 DEF StrictOrder
  <2>2. Cardinality(upTo(x)) <= Cardinality(upTo(y)) /\ Cardinality(upTo(x)) # Cardinality(upTo(y))
    BY <1>2, <2>1, FS_Subset
  <2>3. rank[x] = Cardinality(upTo(x)) /\ rank[y] = Cardinality(upTo(y))
    OBVIOUS
  <2> HIDE DEF upTo, rank
  <2> QED
    BY <1>1, <1>2, <2>2, <2>3
<1> HIDE DEF rank
<1>4. rank \in [S -> 1..n]
  BY <1>2 DEF rank
<1>5. \A x, y \in S : rank[x] = rank[y] => x = y
  <2> SUFFICES ASSUME NEW x \in S, NEW y \in S, rank[x] = rank[y] PROVE x = y
    OBVIOUS
  <2>1. rank[x] \in Nat /\ rank[y] \in Nat
    BY <1>1, <1>4
  <2>2. <<x, y>> \notin Before /\ <<y, x>> \notin Before
    BY <1>3, <2>1
  <2> QED
    BY <2>2 DEF StrictOrder
<1>6. rank \in Injection(S, 1..n)
  BY <1>4, <1>5 DEF Injection, IsInjective
<1>7. IsFiniteSet(1..n) /\ Cardinality(1..n) = n
  BY <1>1, FS_Interval
<1>8. \A k \in 1..n : \E x \in S : rank[x] = k
  BY <1>6, <1>7, FS_Injection DEF Surjection
<1> DEFINE s == [k \in 1..n |-> CHOOSE x \in S : rank[x] = k]
<1>9. ASSUME NEW k \in 1..n PROVE s[k] \in S /\ rank[s[k]] = k
  BY <1>8
<1>10. s \in [1..n -> S]
  BY <1>9
<1> HIDE DEF s
<1>11. ASSUME NEW j \in 1..n, NEW k \in 1..n, j < k PROVE <<s[j], s[k]>> \in Before
  <2>1. s[j] # s[k]
    BY <1>9, <1>11
  <2>2. <<s[k], s[j]>> \notin Before
    BY <1>1, <1>3, <1>9, <1>11
  <2> QED
    BY <1>9, <2>1, <2>2 DEF StrictOrder
<1> QED
  BY <1>10, <1>11 DEF Ascending

\* A sorted enumeration has every element, at one place.
LEMMA SortedIsComplete ==
  ASSUME NEW S, IsFiniteSet(S), NEW Before, StrictOrder(Before, S),
         NEW s \in [1..Cardinality(S) -> S], Ascending(s, Cardinality(S), Before)
  PROVE  /\ Cardinality(S) \in Nat
         /\ \A x \in S : \E k \in 1..Cardinality(S) : s[k] = x
         /\ \A j, k \in 1..Cardinality(S) : j < k <=> <<s[j], s[k]>> \in Before
         /\ \A j, k \in 1..Cardinality(S) : s[j] = s[k] => j = k
<1> DEFINE n == Cardinality(S)
<1>1. n \in Nat
  BY FS_CardinalityType
<1>2. \A j, k \in 1..n : j < k => <<s[j], s[k]>> \in Before
  BY DEF Ascending
<1>3. \A j \in 1..n : s[j] \in S
  OBVIOUS
<1> HIDE DEF n
<1>4. ASSUME NEW j \in 1..n, NEW k \in 1..n, s[j] = s[k] PROVE j = k
  <2>1. <<s[j], s[k]>> \notin Before /\ <<s[k], s[j]>> \notin Before
    BY <1>3, <1>4 DEF StrictOrder
  <2>2. ~(j < k) /\ ~(k < j)
    BY <1>2, <2>1
  <2> QED
    BY <1>1, <2>2
<1>5. ASSUME NEW j \in 1..n, NEW k \in 1..n, <<s[j], s[k]>> \in Before PROVE j < k
  <2>1. CASE j = k
    BY <1>3, <1>5, <2>1 DEF StrictOrder
  <2>2. CASE k < j
    BY <1>2, <1>3, <1>5, <2>2 DEF StrictOrder
  <2> QED
    BY <1>1, <2>1, <2>2
<1>6. IsFiniteSet(1..n) /\ Cardinality(1..n) = n
  BY <1>1, FS_Interval
<1>7. s \in Injection(1..n, S)
  BY <1>4 DEF Injection, IsInjective, n
<1>8. s \in Surjection(1..n, S)
  BY <1>6, <1>7, FS_Injection DEF n
<1> QED
  BY <1>1, <1>2, <1>4, <1>5, <1>8 DEF n, Surjection

-----------------------------------------------------------------------------
(***************************************************************************)
(* Sums: what SumFunctionOnSet() of the community modules, which folds a    *)
(* function over a finite set in an arbitrary order, has as its value.      *)
(***************************************************************************)

\* What holds of a set whose proper subsets it holds of holds of every finite set.
LEMMA SubsetInduction ==
  ASSUME NEW U, IsFiniteSet(U), NEW Good,
         \A S \in SUBSET U : (\A R \in SUBSET S : R # S => R \in Good) => S \in Good
  PROVE  \A S \in SUBSET U : S \in Good
<1> DEFINE without == {n \in Nat : \E S \in SUBSET U : S \notin Good /\ Cardinality(S) = n}
<1>1. ASSUME NEW S \in SUBSET U
      PROVE  /\ IsFiniteSet(S) /\ Cardinality(S) \in Nat
             /\ \A R \in SUBSET S : R # S => Cardinality(R) \in Nat /\ Cardinality(R) < Cardinality(S)
  <2>1. IsFiniteSet(S) /\ Cardinality(S) \in Nat
    BY FS_Subset, FS_CardinalityType
  <2>2. ASSUME NEW R \in SUBSET S, R # S
        PROVE  Cardinality(R) \in Nat /\ Cardinality(R) < Cardinality(S)
    <3>1. IsFiniteSet(R) /\ Cardinality(R) <= Cardinality(S) /\ Cardinality(R) # Cardinality(S)
      BY <2>1, <2>2, FS_Subset
    <3>2. Cardinality(R) \in Nat
      BY <3>1, FS_CardinalityType
    <3> QED
      BY <2>1, <3>1, <3>2
  <2> QED
    BY <2>1, <2>2
<1>2. SUFFICES ASSUME NEW S0 \in SUBSET U, S0 \notin Good PROVE FALSE
  OBVIOUS
<1>3. without # {}
  <2>1. Cardinality(S0) \in without
    BY <1>1, <1>2
  <2> QED
    BY <2>1
<1>4. PICK n \in without : \A m \in without : ~(m < n)
  BY <1>3, Least
<1>5. PICK S \in SUBSET U : S \notin Good /\ Cardinality(S) = n
  BY <1>4
<1>6. PICK R \in SUBSET S : R # S /\ R \notin Good
  BY <1>5
<1>7. R \in SUBSET U /\ Cardinality(R) \in Nat /\ Cardinality(R) < n
  BY <1>1, <1>5, <1>6
<1> QED
  BY <1>4, <1>6, <1>7

\* The element that a fold takes first.
Chosen(s) == CHOOSE x \in s : TRUE

\* The partial sums of f over the subsets of S.
Follows(g, f, S) ==
    g = [s \in SUBSET S |-> IF s = {} THEN 0 ELSE f[Chosen(s)] + g[s \ {Chosen(s)}]]

LEMMA SumIsFold ==
  ASSUME NEW f, NEW S
  PROVE  SumFunctionOnSet(f, S) = (CHOOSE g : Follows(g, f, S))[S]
BY DEF SumFunctionOnSet, FoldFunctionOnSet, MapThenFoldSet, Follows, Chosen

LEMMA ChosenElement ==
  ASSUME NEW s, s # {}
  PROVE  Chosen(s) \in s /\ s \ {Chosen(s)} # s
BY DEF Chosen

\* A function of partial sums, taken apart.
LEMMA FollowsAt ==
  ASSUME NEW f, NEW S, NEW g, Follows(g, f, S)
  PROVE  \A s \in SUBSET S : g[s] = IF s = {} THEN 0 ELSE f[Chosen(s)] + g[s \ {Chosen(s)}]
BY Zenon DEF Follows

\* Partial sums are the same in every set they are taken in.
LEMMA PartialSums ==
  ASSUME NEW f, NEW S, IsFiniteSet(S), NEW A, S \subseteq A, NEW B, S \subseteq B,
         NEW g, Follows(g, f, A), NEW h, Follows(h, f, B)
  PROVE  g[S] = h[S]
<1>0. /\ \A s \in SUBSET A : g[s] = IF s = {} THEN 0 ELSE f[Chosen(s)] + g[s \ {Chosen(s)}]
      /\ \A s \in SUBSET B : h[s] = IF s = {} THEN 0 ELSE f[Chosen(s)] + h[s \ {Chosen(s)}]
  <2>1. \A s \in SUBSET A : g[s] = IF s = {} THEN 0 ELSE f[Chosen(s)] + g[s \ {Chosen(s)}]
    BY Zenon DEF Follows
  <2>2. \A s \in SUBSET B : h[s] = IF s = {} THEN 0 ELSE f[Chosen(s)] + h[s \ {Chosen(s)}]
    BY Zenon DEF Follows
  <2> QED
    BY <2>1, <2>2
<1> DEFINE Good == {s \in SUBSET S : g[s] = h[s]}
<1>1. ASSUME NEW s \in SUBSET S, \A r \in SUBSET s : r # s => r \in Good
      PROVE  s \in Good
  <2>1. /\ g[s] = IF s = {} THEN 0 ELSE f[Chosen(s)] + g[s \ {Chosen(s)}]
        /\ h[s] = IF s = {} THEN 0 ELSE f[Chosen(s)] + h[s \ {Chosen(s)}]
    <3>1. s \in SUBSET A /\ s \in SUBSET B
      OBVIOUS
    <3> QED
      BY <1>0, <3>1
  <2>2. CASE s = {}
    BY <2>1, <2>2
  <2>3. CASE s # {}
    <3>1. s \ {Chosen(s)} \in Good
      BY <1>1, <2>3, ChosenElement
    <3> QED
      BY <2>1, <2>3, <3>1
  <2> QED
    BY <2>2, <2>3
<1> HIDE DEF Good
<1>2. S \in Good
  BY <1>1, SubsetInduction
<1> QED
  BY <1>2 DEF Good

\* Partial sums exist, for every finite set.
LEMMA PartialSumsExist ==
  ASSUME NEW f, NEW S, IsFiniteSet(S)
  PROVE  \E g : Follows(g, f, S)
<1> DEFINE Good == {s \in SUBSET S : \E g : Follows(g, f, s)}
           T(s) == SumFunctionOnSet(f, s)
<1>1. ASSUME NEW s \in SUBSET S, s \in Good
      PROVE  \E g : Follows(g, f, s) /\ T(s) = g[s]
  BY <1>1, SumIsFold
<1>2. ASSUME NEW s \in SUBSET S, \A r \in SUBSET s : r # s => r \in Good
      PROVE  s \in Good
  <2> DEFINE g == [r \in SUBSET s |-> IF r = {} THEN 0 ELSE f[Chosen(r)] + T(r \ {Chosen(r)})]
  <2>1. ASSUME NEW r \in SUBSET s, r # s
        PROVE  g[r] = T(r)
    <3>1. PICK h : Follows(h, f, r) /\ T(r) = h[r]
      BY <1>1, <1>2, <2>1
    <3>2. h[r] = IF r = {} THEN 0 ELSE f[Chosen(r)] + h[r \ {Chosen(r)}]
      BY <3>1, FollowsAt
    <3>3. CASE r = {}
      BY <3>1, <3>2, <3>3
    <3>4. CASE r # {}
      <4> DEFINE q == r \ {Chosen(r)}
      <4>1. q \in SUBSET r /\ q \in SUBSET s /\ q # s /\ q \in SUBSET S /\ IsFiniteSet(q)
        BY <2>1, <3>4, ChosenElement, FS_Subset
      <4>2. PICK k : Follows(k, f, q) /\ T(q) = k[q]
        BY <1>1, <1>2, <4>1
      <4> HIDE DEF q
      <4>3. k[q] = h[q]
        BY <3>1, <4>1, <4>2, PartialSums
      <4>4. g[r] = f[Chosen(r)] + T(q)
        BY <3>4 DEF q
      <4>5. h[r] = f[Chosen(r)] + h[q]
        BY <3>2, <3>4 DEF q
      <4> QED
        BY <3>1, <4>2, <4>3, <4>4, <4>5
    <3> QED
      BY <3>3, <3>4
  <2>2. \A r \in SUBSET s : r # {} => r \ {Chosen(r)} \in SUBSET s /\ r \ {Chosen(r)} # s
    BY ChosenElement
  <2>3. \A r \in SUBSET s :
          g[r] = IF r = {} THEN 0 ELSE f[Chosen(r)] + g[r \ {Chosen(r)}]
    <3> SUFFICES ASSUME NEW r \in SUBSET s
                 PROVE  g[r] = IF r = {} THEN 0 ELSE f[Chosen(r)] + g[r \ {Chosen(r)}]
      OBVIOUS
    <3>1. r # {} => g[r \ {Chosen(r)}] = T(r \ {Chosen(r)})
      BY <2>1, <2>2
    <3>2. g[r] = IF r = {} THEN 0 ELSE f[Chosen(r)] + T(r \ {Chosen(r)})
      OBVIOUS
    <3> HIDE DEF g, T
    <3> QED
      BY <3>1, <3>2
  <2>4. g = [r \in SUBSET s |-> g[r]]
    OBVIOUS
  <2> HIDE DEF g
  <2>5. Follows(g, f, s)
    BY <2>3, <2>4 DEF Follows
  <2> QED
    BY <2>5
<1> HIDE DEF Good
<1>3. S \in Good
  BY <1>2, SubsetInduction
<1> QED
  BY <1>3 DEF Good

\* The sum of a set is that of the element taken first and of the others.
LEMMA SumUnfolds ==
  ASSUME NEW f, NEW S, IsFiniteSet(S)
  PROVE  SumFunctionOnSet(f, S)
           = IF S = {} THEN 0 ELSE f[Chosen(S)] + SumFunctionOnSet(f, S \ {Chosen(S)})
<1> DEFINE T(s) == SumFunctionOnSet(f, s)
           R == S \ {Chosen(S)}
<1>1. PICK g : Follows(g, f, S) /\ T(S) = g[S]
  BY PartialSumsExist, SumIsFold
<1>2. IsFiniteSet(R) /\ R \in SUBSET S
  BY FS_Subset
<1>3. PICK h : Follows(h, f, R) /\ T(R) = h[R]
  BY <1>2, PartialSumsExist, SumIsFold
<1>4. g[S] = IF S = {} THEN 0 ELSE f[Chosen(S)] + g[R]
  BY <1>1, FollowsAt
<1> HIDE DEF R, T
<1>5. g[R] = h[R]
  BY <1>1, <1>2, <1>3, PartialSums
<1> QED
  BY <1>1, <1>3, <1>4, <1>5 DEF R, T

\* A function whose values on S are integers.
Integral(f, S) == \A x \in S : f[x] \in Int

LEMMA SumEmpty == ASSUME NEW f PROVE SumFunctionOnSet(f, {}) = 0
BY SumUnfolds, FS_EmptySet

\* Sums are integers, and any element can be taken first.
LEMMA SumOfRest ==
  ASSUME NEW f, NEW S, IsFiniteSet(S), Integral(f, S)
  PROVE  /\ SumFunctionOnSet(f, S) \in Int
         /\ \A x \in S : SumFunctionOnSet(f, S) = f[x] + SumFunctionOnSet(f, S \ {x})
<1> DEFINE T(s) == SumFunctionOnSet(f, s)
           Good == {s \in SUBSET S : T(s) \in Int /\ \A x \in s : T(s) = f[x] + T(s \ {x})}
<1>1. T({}) = 0
  BY SumEmpty
<1>2. ASSUME NEW s \in SUBSET S, s # {}
      PROVE  Chosen(s) \in s /\ f[Chosen(s)] \in Int /\ T(s) = f[Chosen(s)] + T(s \ {Chosen(s)})
  <2>1. IsFiniteSet(s)
    BY FS_Subset
  <2>2. Chosen(s) \in s /\ f[Chosen(s)] \in Int
    BY <1>2, ChosenElement DEF Integral
  <2> QED
    BY <1>2, <2>1, <2>2, SumUnfolds
<1> HIDE DEF T
<1>3. ASSUME NEW s \in SUBSET S, \A r \in SUBSET s : r # s => r \in Good
      PROVE  s \in Good
  <2>1. CASE s = {}
    BY <1>1, <2>1
  <2>2. CASE s # {}
    <3> DEFINE c == Chosen(s)
    <3>1. c \in s /\ f[c] \in Int /\ T(s) = f[c] + T(s \ {c}) /\ s \ {c} \in Good
      <4>1. c \in s /\ f[c] \in Int /\ T(s) = f[c] + T(s \ {c}) /\ s \ {c} # s
        BY <1>2, <2>2
      <4> HIDE DEF c, Good
      <4>2. s \ {c} \in Good
        BY <1>3, <4>1
      <4> QED
        BY <4>1, <4>2
    <3> HIDE DEF c
    <3>2. T(s) \in Int
      BY <3>1
    <3>3. ASSUME NEW x \in s PROVE T(s) = f[x] + T(s \ {x})
      <4>1. CASE x = c
        BY <3>1, <4>1
      <4>2. CASE x # c
        <5> DEFINE both == s \ {c, x}
        <5>1. /\ (s \ {c}) \ {x} = both /\ (s \ {x}) \ {c} = both
              /\ x \in s \ {c} /\ c \in s \ {x} /\ s \ {x} # s /\ both # s
          BY <3>1, <4>2
        <5>2. s \ {x} \in Good /\ both \in Good
          <6> HIDE DEF Good
          <6> QED
            BY <1>3, <5>1
        <5>3. T(s \ {c}) = f[x] + T(both) /\ T(s \ {x}) = f[c] + T(both) /\ T(both) \in Int
          BY <3>1, <5>1, <5>2
        <5>4. f[x] \in Int
          BY DEF Integral
        <5> QED
          BY <3>1, <5>3, <5>4
      <4> QED
        BY <4>1, <4>2
    <3> QED
      BY <3>2, <3>3
  <2> QED
    BY <2>1, <2>2
<1> HIDE DEF Good
<1>4. S \in Good
  BY <1>3, SubsetInduction
<1> QED
  BY <1>4 DEF Good, T

\* The sum of two sets that have no element in common.
LEMMA SumOfUnion ==
  ASSUME NEW f, NEW A, IsFiniteSet(A), NEW B, IsFiniteSet(B), A \cap B = {}, Integral(f, A \cup B)
  PROVE  SumFunctionOnSet(f, A \cup B) = SumFunctionOnSet(f, A) + SumFunctionOnSet(f, B)
<1> DEFINE T(s) == SumFunctionOnSet(f, s)
           Good == {s \in SUBSET B : T(A \cup s) = T(A) + T(s)}
<1>1. ASSUME NEW s \in SUBSET B
      PROVE  T(s) \in Int /\ \A x \in s : T(s) = f[x] + T(s \ {x})
  <2>1. IsFiniteSet(s) /\ Integral(f, s)
    BY FS_Subset DEF Integral
  <2> QED
    BY <2>1, SumOfRest
<1>2. ASSUME NEW s \in SUBSET B
      PROVE  T(A \cup s) \in Int /\ \A x \in A \cup s : T(A \cup s) = f[x] + T((A \cup s) \ {x})
  <2>1. IsFiniteSet(s)
    BY FS_Subset
  <2>2. IsFiniteSet(A \cup s) /\ Integral(f, A \cup s)
    BY <2>1, FS_Union DEF Integral
  <2> QED
    BY <2>2, SumOfRest
<1>3. T({}) = 0
  BY SumEmpty
<1> HIDE DEF T
<1>4. T(A) \in Int
  <2>1. A \cup {} = A
    OBVIOUS
  <2> QED
    BY <1>2, <2>1
<1>5. ASSUME NEW s \in SUBSET B, \A r \in SUBSET s : r # s => r \in Good
      PROVE  s \in Good
  <2>1. CASE s = {}
    <3>1. A \cup s = A
      BY <2>1
    <3> QED
      BY <1>3, <1>4, <2>1, <3>1
  <2>2. CASE s # {}
    <3>1. PICK x : x \in s
      BY <2>2
    <3> DEFINE r == s \ {x}
    <3>2. r \in SUBSET s /\ r # s /\ x \notin A /\ (A \cup s) \ {x} = A \cup r
      BY <3>1
    <3>3. r \in Good /\ r \in SUBSET B
      <4> HIDE DEF Good
      <4> QED
        BY <1>5, <3>2
    <3>4. T(s) = f[x] + T(r) /\ T(A \cup s) = f[x] + T(A \cup r)
      BY <1>1, <1>2, <3>1, <3>2
    <3>5. T(A \cup r) = T(A) + T(r) /\ T(r) \in Int /\ f[x] \in Int
      BY <1>1, <3>1, <3>3 DEF Integral
    <3> HIDE DEF r
    <3>6. T(A \cup s) = T(A) + T(s)
      BY <1>4, <3>4, <3>5
    <3> QED
      BY <3>6
  <2> QED
    BY <2>1, <2>2
<1> HIDE DEF Good
<1>6. B \in Good
  BY <1>5, SubsetInduction
<1> QED
  BY <1>6 DEF Good, T

\* Sums of a difference, and of equal values.
LEMMA SumOfDifference ==
  ASSUME NEW f, NEW g, NEW h, NEW S, IsFiniteSet(S), Integral(f, S), Integral(g, S),
         \A x \in S : h[x] = f[x] - g[x]
  PROVE  SumFunctionOnSet(h, S) = SumFunctionOnSet(f, S) - SumFunctionOnSet(g, S)
<1> DEFINE T(k, s) == SumFunctionOnSet(k, s)
           Good == {s \in SUBSET S : T(h, s) = T(f, s) - T(g, s)}
<1>1. Integral(h, S)
  BY DEF Integral
<1>2. ASSUME NEW k, Integral(k, S), NEW s \in SUBSET S
      PROVE  T(k, s) \in Int /\ \A x \in s : k[x] \in Int /\ T(k, s) = k[x] + T(k, s \ {x})
  <2>1. IsFiniteSet(s) /\ Integral(k, s)
    BY <1>2, FS_Subset DEF Integral
  <2> QED
    BY <2>1, SumOfRest DEF Integral
<1>3. T(f, {}) = 0 /\ T(g, {}) = 0 /\ T(h, {}) = 0
  BY SumEmpty
<1> HIDE DEF T
<1>4. ASSUME NEW s \in SUBSET S, \A r \in SUBSET s : r # s => r \in Good
      PROVE  s \in Good
  <2>1. CASE s = {}
    BY <1>3, <2>1
  <2>2. CASE s # {}
    <3>1. PICK x : x \in s
      BY <2>2
    <3> DEFINE r == s \ {x}
    <3>2. r \in Good /\ r \in SUBSET S
      <4>1. r \in SUBSET s /\ r # s
        BY <3>1
      <4> HIDE DEF Good
      <4> QED
        BY <1>4, <4>1
    <3>3. ASSUME NEW k, Integral(k, S)
          PROVE  T(k, s) = k[x] + T(k, r) /\ T(k, r) \in Int /\ k[x] \in Int
      <4>1. \A y \in s : k[y] \in Int /\ T(k, s) = k[y] + T(k, s \ {y})
        BY <1>2, <3>3
      <4>2. T(k, r) \in Int
        BY <1>2, <3>2, <3>3
      <4> QED
        BY <3>1, <4>1, <4>2
    <3>4. T(h, r) = T(f, r) - T(g, r) /\ h[x] = f[x] - g[x]
      BY <3>1, <3>2
    <3> HIDE DEF r
    <3>5. /\ T(f, s) = f[x] + T(f, r) /\ T(f, r) \in Int /\ f[x] \in Int
          /\ T(g, s) = g[x] + T(g, r) /\ T(g, r) \in Int /\ g[x] \in Int
          /\ T(h, s) = h[x] + T(h, r)
      BY <1>1, <3>3
    <3>6. T(h, s) = T(f, s) - T(g, s)
      BY <3>4, <3>5
    <3> QED
      BY <3>6
  <2> QED
    BY <2>1, <2>2
<1> HIDE DEF Good
<1>5. S \in Good
  BY <1>4, SubsetInduction
<1> QED
  BY <1>5 DEF Good, T

\* What adds nothing: a sum of zeros.
LEMMA SumOfZeros ==
  ASSUME NEW f, NEW S, IsFiniteSet(S), \A x \in S : f[x] = 0
  PROVE  SumFunctionOnSet(f, S) = 0
<1>1. Integral(f, S) /\ \A x \in S : f[x] = f[x] - f[x]
  BY DEF Integral
<1>2. SumFunctionOnSet(f, S) = SumFunctionOnSet(f, S) - SumFunctionOnSet(f, S)
  BY <1>1, SumOfDifference
<1> QED
  BY <1>1, <1>2, SumOfRest

LEMMA SumOfEquals ==
  ASSUME NEW f, NEW g, NEW S, IsFiniteSet(S), Integral(f, S), \A x \in S : f[x] = g[x]
  PROVE  SumFunctionOnSet(f, S) = SumFunctionOnSet(g, S)
<1> DEFINE zero == [x \in S |-> 0]
<1>1. Integral(zero, S) /\ \A x \in S : g[x] = f[x] - zero[x]
  BY DEF Integral
<1>2. SumFunctionOnSet(zero, S) = 0
  BY SumOfZeros
<1> HIDE DEF zero
<1>3. SumFunctionOnSet(g, S) = SumFunctionOnSet(f, S) - SumFunctionOnSet(zero, S)
  BY <1>1, SumOfDifference
<1>4. SumFunctionOnSet(f, S) \in Int
  BY SumOfRest
<1> QED
  BY <1>2, <1>3, <1>4

\* Elements that add nothing can be left out.
LEMMA SumOfNonzero ==
  ASSUME NEW f, NEW S, IsFiniteSet(S), Integral(f, S), NEW R \in SUBSET S,
         \A x \in S \ R : f[x] = 0
  PROVE  SumFunctionOnSet(f, S) = SumFunctionOnSet(f, R)
<1> DEFINE rest == S \ R
<1>1. IsFiniteSet(R) /\ IsFiniteSet(rest) /\ R \cap rest = {} /\ R \cup rest = S
  BY FS_Subset
<1>2. SumFunctionOnSet(f, rest) = 0
  BY <1>1, SumOfZeros
<1>3. SumFunctionOnSet(f, R) \in Int
  BY <1>1, SumOfRest DEF Integral
<1> HIDE DEF rest
<1>4. SumFunctionOnSet(f, S) = SumFunctionOnSet(f, R) + SumFunctionOnSet(f, rest)
  BY <1>1, SumOfUnion
<1> QED
  BY <1>2, <1>3, <1>4

\* The number of elements is the sum of ones.
LEMMA SumOfOnes ==
  ASSUME NEW f, NEW S, IsFiniteSet(S), \A x \in S : f[x] = 1
  PROVE  SumFunctionOnSet(f, S) = Cardinality(S)
<1> DEFINE T(s) == SumFunctionOnSet(f, s)
           Good == {s \in SUBSET S : T(s) = Cardinality(s)}
<1>1. ASSUME NEW s \in SUBSET S
      PROVE  IsFiniteSet(s) /\ \A x \in s : T(s) = f[x] + T(s \ {x})
  <2>1. IsFiniteSet(s) /\ Integral(f, s)
    BY FS_Subset DEF Integral
  <2> QED
    BY <2>1, SumOfRest
<1>2. T({}) = 0
  BY SumEmpty
<1> HIDE DEF T
<1>3. ASSUME NEW s \in SUBSET S, \A r \in SUBSET s : r # s => r \in Good
      PROVE  s \in Good
  <2>1. CASE s = {}
    BY <1>2, <2>1, FS_EmptySet
  <2>2. CASE s # {}
    <3>1. PICK x : x \in s
      BY <2>2
    <3> DEFINE r == s \ {x}
    <3>2. r \in Good
      <4>1. r \in SUBSET s /\ r # s
        BY <3>1
      <4> HIDE DEF Good
      <4> QED
        BY <1>3, <4>1
    <3>3. T(s) = f[x] + T(r) /\ f[x] = 1
      BY <1>1, <3>1
    <3>4. Cardinality(r) = Cardinality(s) - 1 /\ Cardinality(s) \in Nat
      BY <1>1, <3>1, FS_RemoveElement, FS_CardinalityType
    <3>5. T(r) = Cardinality(r)
      BY <3>2
    <3> HIDE DEF r
    <3>6. T(s) = Cardinality(s)
      BY <3>3, <3>4, <3>5
    <3> QED
      BY <3>6
  <2> QED
    BY <2>1, <2>2
<1> HIDE DEF Good
<1>4. S \in Good
  BY <1>3, SubsetInduction
<1> QED
  BY <1>4 DEF Good, T

\* The elements of S in the class k.
Class(S, class, k) == {x \in S : class[x] = k}

\* A sum taken class by class.
LEMMA SumByClasses ==
  ASSUME NEW f, NEW S, IsFiniteSet(S), Integral(f, S), NEW K, IsFiniteSet(K),
         NEW class, \A x \in S : class[x] \in K,
         NEW v, \A k \in K : v[k] = SumFunctionOnSet(f, Class(S, class, k))
  PROVE  SumFunctionOnSet(v, K) = SumFunctionOnSet(f, S)
<1> DEFINE T(s) == SumFunctionOnSet(f, s)
           U(r) == SumFunctionOnSet(v, r)
           of(r) == {x \in S : class[x] \in r}
           Good == {r \in SUBSET K : U(r) = T(of(r))}
<1>1. ASSUME NEW s \in SUBSET S PROVE IsFiniteSet(s) /\ Integral(f, s) /\ T(s) \in Int
  <2>1. IsFiniteSet(s) /\ Integral(f, s)
    BY FS_Subset DEF Integral
  <2> QED
    BY <2>1, SumOfRest
<1>2. Integral(v, K)
  <2>1. \A k \in K : Class(S, class, k) \in SUBSET S
    BY DEF Class
  <2> QED
    BY <1>1, <2>1 DEF Integral
<1>3. ASSUME NEW r \in SUBSET K PROVE \A k \in r : U(r) = v[k] + U(r \ {k})
  <2>1. IsFiniteSet(r) /\ Integral(v, r)
    BY <1>2, FS_Subset DEF Integral
  <2> QED
    BY <2>1, SumOfRest
<1>4. U({}) = 0 /\ T({}) = 0
  BY SumEmpty
<1>5. ASSUME NEW s \in SUBSET S, NEW t \in SUBSET S, s \cap t = {}
      PROVE  T(s \cup t) = T(s) + T(t)
  <2>1. IsFiniteSet(s) /\ IsFiniteSet(t) /\ Integral(f, s \cup t)
    BY <1>1 DEF Integral
  <2> QED
    BY <1>5, <2>1, SumOfUnion
<1>6. \A k \in K : v[k] = T({x \in S : class[x] = k})
  BY DEF Class
<1> HIDE DEF T, U
<1>7. ASSUME NEW r \in SUBSET K, \A q \in SUBSET r : q # r => q \in Good
      PROVE  r \in Good
  <2>1. CASE r = {}
    <3>1. of(r) = {}
      BY <2>1
    <3> QED
      BY <1>4, <2>1, <3>1
  <2>2. CASE r # {}
    <3>1. PICK k : k \in r
      BY <2>2
    <3> DEFINE q == r \ {k}
               s == of(q)
               t == {x \in S : class[x] = k}
    <3>2. q \in SUBSET r /\ q # r
      BY <3>1
    <3>3. q \in Good
      <4> HIDE DEF Good, q
      <4> QED
        BY <1>7, <3>2
    <3>4. U(r) = v[k] + U(q) /\ v[k] = T(t)
      BY <1>3, <1>6, <3>1
    <3>5. s \cap t = {} /\ s \cup t = of(r) /\ s \in SUBSET S /\ t \in SUBSET S
      BY <3>1
    <3>6. U(q) = T(s)
      BY <3>3
    <3> HIDE DEF q, s, t, of
    <3>7. T(of(r)) = T(s) + T(t) /\ T(s) \in Int /\ T(t) \in Int
      BY <1>1, <1>5, <3>5
    <3>8. U(r) = T(of(r))
      BY <3>4, <3>6, <3>7
    <3> QED
      BY <3>8
  <2> QED
    BY <2>1, <2>2
<1>8. of(K) = S
  OBVIOUS
<1> HIDE DEF Good
<1>9. K \in Good
  BY <1>7, SubsetInduction
<1> QED
  BY <1>8, <1>9 DEF Good, T, U
=============================================================================
