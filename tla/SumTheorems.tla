----------------------------- MODULE SumTheorems -----------------------------
(***************************************************************************)
(* Facts that proofs of several components need.  Of MapThenSumSet: the    *)
(* sum of integers over a finite set is an integer, no matter in which     *)
(* order the elements are chosen, and it changes by what one element       *)
(* changes.  Of folds over sequences: they have a value, and it is found   *)
(* step by step.  Of Max and Min: sets of numbers that have one.           *)
(*                                                                         *)
(* The library's induction theorems take an operator, which the provers    *)
(* cannot instantiate.  Inductions here are over a set of numbers instead: *)
(* NatInduced says that a set which has 0 and the successor of each of its *)
(* members has every number, and follows from the well-foundedness of <.   *)
(***************************************************************************)
EXTENDS Integers, FiniteSets, FiniteSetsExt, FiniteSetTheorems, WellFoundedInduction, TLAPS

\* Induction over the numbers, for a set in the place of a predicate.
LEMMA NatInduced ==
  ASSUME NEW S, 0 \in S, \A n \in Nat : n \in S => n + 1 \in S
  PROVE  \A n \in Nat : n \in S
<1> DEFINE T == {n \in Nat : n \notin S}
           Less == OpToRel(<, Nat)
<1>1. SUFFICES ASSUME T # {} PROVE FALSE
  OBVIOUS
<1>2. PICK x \in T : \A y \in T : ~ (<<y, x>> \in Less)
  <2>1. T \subseteq Nat
    OBVIOUS
  <2>2. IsWellFoundedOn(Less, Nat)
    BY NatLessThanWellFounded
  <2>. HIDE DEF T, Less
  <2>. QED BY <1>1, <2>1, <2>2, WFMin
<1>3. x \in Nat /\ x # 0 /\ x - 1 \in Nat
  OBVIOUS
<1>4. x - 1 \in T
  BY <1>3
<1>5. <<x - 1, x>> \in Less
  BY <1>3 DEF OpToRel
<1>. QED BY <1>2, <1>4, <1>5
-----------------------------------------------------------------------------
(* The recursion behind a sum, and that it has a solution.                 *)

SumOver(w, S) == MapThenSumSet(LAMBDA x : w[x], S)

Chosen(s) == CHOOSE x \in s : TRUE
Without(s, x) == s \ {x}

\* h[s] is the sum over s, for each subset of S.
Sums(w, S, h) ==
  h = [s \in SUBSET S |-> IF s = {} THEN 0 ELSE w[Chosen(s)] + h[Without(s, Chosen(s))]]

LEMMA SumOverIs ==
  ASSUME NEW w, NEW S
  PROVE  SumOver(w, S) = (CHOOSE h : Sums(w, S, h))[S]
BY Zenon DEF SumOver, MapThenSumSet, MapThenFoldSet, Sums, Chosen, Without

LEMMA Subsets ==
  ASSUME NEW S, IsFiniteSet(S), NEW s \in SUBSET S
  PROVE  /\ Cardinality(s) \in Nat
         /\ Cardinality(s) <= Cardinality(S)
         /\ s = {} <=> Cardinality(s) = 0
         /\ s # {} => Chosen(s) \in s
         /\ \A x \in s : /\ Without(s, x) \in SUBSET S
                         /\ Cardinality(Without(s, x)) = Cardinality(s) - 1
                         /\ \A y \in s : y # x => y \in Without(s, x)
<1>1. IsFiniteSet(s) /\ Cardinality(s) <= Cardinality(S)
  BY FS_Subset
<1>2. s # {} => Chosen(s) \in s
  BY DEF Chosen
<1>3. ASSUME NEW x \in s
      PROVE  /\ Without(s, x) \in SUBSET S
             /\ Cardinality(Without(s, x)) = Cardinality(s) - 1
             /\ \A y \in s : y # x => y \in Without(s, x)
  BY <1>1, FS_RemoveElement DEF Without
<1>. QED BY <1>1, <1>2, <1>3, FS_CardinalityType, FS_EmptySet

LEMMA WithoutOne ==
  ASSUME NEW S, IsFiniteSet(S), NEW s \in SUBSET S, NEW x \in s
  PROVE  /\ Without(s, x) \in SUBSET S
         /\ Cardinality(Without(s, x)) = Cardinality(s) - 1
BY Subsets

LEMMA WithoutCommutes ==
  ASSUME NEW s, NEW x, NEW y PROVE Without(Without(s, x), y) = Without(Without(s, y), x)
BY DEF Without

\* Each subset is summed from smaller ones, so the sums up to a size give the next.
LEMMA SumsExist ==
  ASSUME NEW S, IsFiniteSet(S), NEW w, \A x \in S : w[x] \in Int
  PROVE  \E h : Sums(w, S, h)
<1> DEFINE Body(h, s) == IF s = {} THEN 0 ELSE w[Chosen(s)] + h[Without(s, Chosen(s))]
           Part(n, h) == \A s \in SUBSET S : Cardinality(s) <= n => h[s] = Body(h, s)
           Good == {n \in Nat : \E h : Part(n, h)}
<1>1. 0 \in Good
  <2>1. ASSUME NEW s \in SUBSET S, Cardinality(s) <= 0 PROVE s = {}
    <3>1. Cardinality(s) \in Nat /\ (s = {} <=> Cardinality(s) = 0)
      BY Subsets
    <3>. QED BY <2>1, <3>1
  <2>2. Part(0, [s \in SUBSET S |-> 0])
    BY <2>1
  <2>. QED BY <2>2
<1>2. ASSUME NEW n \in Nat, n \in Good PROVE n + 1 \in Good
  <2>1. PICK h : Part(n, h)
    BY <1>2
  <2> DEFINE g == [s \in SUBSET S |-> Body(h, s)]
  <2>2. ASSUME NEW s \in SUBSET S, Cardinality(s) <= n PROVE g[s] = h[s]
    BY <2>1, <2>2
  <2>3. ASSUME NEW s \in SUBSET S, Cardinality(s) <= n + 1, s # {}
        PROVE  g[s] = w[Chosen(s)] + g[Without(s, Chosen(s))]
    <3>1. /\ Chosen(s) \in s
          /\ Without(s, Chosen(s)) \in SUBSET S
          /\ Cardinality(Without(s, Chosen(s))) = Cardinality(s) - 1
          /\ Cardinality(s) \in Nat
      BY <2>3, Subsets
    <3>2. Cardinality(Without(s, Chosen(s))) <= n
      BY <3>1, <2>3
    <3>3. g[Without(s, Chosen(s))] = h[Without(s, Chosen(s))]
      BY <3>1, <3>2, <2>2
    <3>4. g[s] = w[Chosen(s)] + h[Without(s, Chosen(s))]
      BY <2>3
    <3>. QED BY <3>3, <3>4
  <2>4. ASSUME NEW s \in SUBSET S, s = {} PROVE g[s] = 0
    BY <2>4
  <2>5. Part(n + 1, g)
    <3>. HIDE DEF g
    <3>. QED BY <2>3, <2>4
  <2>. HIDE DEF g
  <2>. QED BY <2>5
<1>3. Cardinality(S) \in Good
  <2>1. Cardinality(S) \in Nat
    BY FS_CardinalityType
  <2>. HIDE DEF Good
  <2>. QED BY <1>1, <1>2, <2>1, NatInduced
<1>4. PICK h : Part(Cardinality(S), h)
  BY <1>3
<1>5. ASSUME NEW s \in SUBSET S PROVE h[s] = Body(h, s)
  BY <1>4, Subsets
<1> DEFINE g == [s \in SUBSET S |-> h[s]]
<1>6. ASSUME NEW s \in SUBSET S PROVE g[s] = Body(g, s)
  <2>1. s # {} => Without(s, Chosen(s)) \in SUBSET S
    BY Subsets
  <2>. QED BY <1>5, <2>1
<1>7. g = [s \in SUBSET S |-> Body(g, s)]
  <2>1. g = [s \in SUBSET S |-> g[s]]
    OBVIOUS
  <2>. HIDE DEF g
  <2>. QED BY <2>1, <1>6
<1>8. Sums(w, S, g)
  BY <1>7 DEF Sums
<1>. QED BY <1>8

LEMMA SumOverSums ==
  ASSUME NEW S, IsFiniteSet(S), NEW w, \A x \in S : w[x] \in Int
  PROVE  \E h : Sums(w, S, h) /\ SumOver(w, S) = h[S]
BY SumsExist, SumOverIs

LEMMA SumsStep ==
  ASSUME NEW S, NEW w, NEW h, Sums(w, S, h), NEW s \in SUBSET S
  PROVE  /\ s = {} => h[s] = 0
         /\ s # {} => h[s] = w[Chosen(s)] + h[Without(s, Chosen(s))]
BY DEF Sums

\* Any element may be taken out first.
LEMMA SumsRemove ==
  ASSUME NEW S, IsFiniteSet(S), NEW w, \A x \in S : w[x] \in Int,
         NEW h, Sums(w, S, h), NEW s \in SUBSET S
  PROVE  /\ h[s] \in Int
         /\ \A x \in s : h[s] = w[x] + h[Without(s, x)]
<1> DEFINE P(t) == h[t] \in Int /\ \A x \in t : h[t] = w[x] + h[Without(t, x)]
           Good == {n \in Nat : \A t \in SUBSET S : Cardinality(t) <= n => P(t)}
<1>1. 0 \in Good
  <2>1. ASSUME NEW t \in SUBSET S, Cardinality(t) <= 0 PROVE P(t)
    <3>1. Cardinality(t) \in Nat /\ (t = {} <=> Cardinality(t) = 0)
      BY Subsets
    <3>2. t = {}
      BY <2>1, <3>1
    <3>3. h[t] = 0
      BY <3>2, SumsStep
    <3>. QED BY <3>2, <3>3
  <2>. QED BY <2>1
<1>2. ASSUME NEW n \in Nat, n \in Good PROVE n + 1 \in Good
  <2>1. ASSUME NEW u \in SUBSET S, Cardinality(u) <= n PROVE P(u)
    BY <2>1, <1>2
  <2>2. ASSUME NEW t \in SUBSET S, Cardinality(t) <= n + 1, t # {} PROVE P(t)
    <3> DEFINE c == Chosen(t)
    <3>1. ASSUME NEW x \in t
          PROVE  Without(t, x) \in SUBSET S /\ Cardinality(Without(t, x)) <= n
      <4>1. /\ Without(t, x) \in SUBSET S
            /\ Cardinality(Without(t, x)) = Cardinality(t) - 1
            /\ Cardinality(t) \in Nat
        <5>1. Without(t, x) \in SUBSET S
          BY WithoutOne
        <5>2. Cardinality(Without(t, x)) = Cardinality(t) - 1
          BY WithoutOne
        <5>3. Cardinality(t) \in Nat
          BY Subsets
        <5>. QED BY <5>1, <5>2, <5>3
      <4>. QED BY <4>1, <2>2
    <3>2. c \in t /\ w[c] \in Int
      BY <2>2, Subsets
    <3>3. h[t] = w[c] + h[Without(t, c)]
      BY <2>2, SumsStep
    <3>4. h[Without(t, c)] \in Int
      BY <3>1, <3>2, <2>1
    <3>5. ASSUME NEW x \in t, x # c PROVE h[t] = w[x] + h[Without(t, x)]
      <4> DEFINE u == Without(Without(t, c), x)
      <4>1. x \in Without(t, c) /\ c \in Without(t, x) /\ w[x] \in Int
        BY <3>2, <3>5, Subsets
      <4>2. h[Without(t, c)] = w[x] + h[u]
        BY <3>1, <3>2, <4>1, <2>1
      <4>3. h[Without(t, x)] = w[c] + h[Without(Without(t, x), c)]
        BY <3>1, <4>1, <2>1
      <4>4. Without(Without(t, x), c) = u
        BY WithoutCommutes
      <4>5. h[u] \in Int
        <5>1. Without(t, c) \in SUBSET S /\ Cardinality(Without(t, c)) <= n
          BY <3>1, <3>2
        <5>2. /\ u \in SUBSET S
              /\ Cardinality(u) = Cardinality(Without(t, c)) - 1
              /\ Cardinality(Without(t, c)) \in Nat
          BY <5>1, <4>1, Subsets
        <5>3. Cardinality(u) <= n
          BY <5>1, <5>2
        <5>. QED BY <5>2, <5>3, <2>1
      <4>6. /\ h[Without(t, x)] = w[c] + h[u]
        BY <4>3, <4>4
      <4>. HIDE DEF u, c
      <4>. QED BY <3>2, <3>3, <4>1, <4>2, <4>5, <4>6
    <3>. HIDE DEF c
    <3>. QED BY <3>2, <3>3, <3>4, <3>5
  <2>3. ASSUME NEW t \in SUBSET S, t = {} PROVE P(t)
    BY <2>3, SumsStep
  <2>. HIDE DEF P
  <2>. QED BY <2>2, <2>3
<1>3. Cardinality(s) \in Nat /\ Cardinality(s) \in Good
  <2>1. Cardinality(s) \in Nat
    BY Subsets
  <2>. HIDE DEF Good
  <2>. QED BY <1>1, <1>2, <2>1, NatInduced
<1>4. P(s)
  <2>. HIDE DEF P
  <2>. QED BY <1>3
<1>. QED BY <1>4

\* Two recursions agree on a set if the summands do.
LEMMA SumsAgree ==
  ASSUME NEW S, IsFiniteSet(S), NEW w, \A x \in S : w[x] \in Int, NEW h, Sums(w, S, h),
         NEW T, IsFiniteSet(T), NEW v, \A x \in T : v[x] \in Int, NEW g, Sums(v, T, g)
  PROVE  \A s \in SUBSET S :
           s \in SUBSET T /\ (\A x \in s : w[x] = v[x]) => h[s] = g[s]
<1> DEFINE P(s) == s \in SUBSET T /\ (\A x \in s : w[x] = v[x]) => h[s] = g[s]
           Good == {n \in Nat : \A s \in SUBSET S : Cardinality(s) <= n => P(s)}
<1>1. ASSUME NEW s \in SUBSET S, s = {} PROVE P(s)
  BY <1>1, SumsStep
<1>2. 0 \in Good
  <2>1. ASSUME NEW s \in SUBSET S, Cardinality(s) <= 0 PROVE s = {}
    <3>1. Cardinality(s) \in Nat /\ (s = {} <=> Cardinality(s) = 0)
      BY Subsets
    <3>. QED BY <2>1, <3>1
  <2>. HIDE DEF P
  <2>. QED BY <2>1, <1>1
<1>3. ASSUME NEW n \in Nat, n \in Good PROVE n + 1 \in Good
  <2>1. ASSUME NEW s \in SUBSET S, Cardinality(s) <= n + 1, s # {},
               s \in SUBSET T, \A x \in s : w[x] = v[x]
        PROVE  h[s] = g[s]
    <3> DEFINE c == Chosen(s)
               u == Without(s, c)
    <3>1. c \in s
      BY <2>1, Subsets
    <3>2. h[s] = w[c] + h[u] /\ g[s] = v[c] + g[u]
      BY <2>1, SumsStep
    <3>3. u \in SUBSET S /\ u \in SUBSET T /\ \A x \in u : w[x] = v[x]
      BY <2>1 DEF Without
    <3>4. Cardinality(u) <= n
      <4>1. Cardinality(u) = Cardinality(s) - 1
        BY <3>1, WithoutOne
      <4>2. Cardinality(s) \in Nat
        BY Subsets
      <4>. QED BY <4>1, <4>2, <2>1
    <3>. HIDE DEF u
    <3>5. h[u] = g[u]
      BY <1>3, <3>3, <3>4
    <3>. QED BY <3>1, <3>2, <3>5, <2>1
  <2>2. ASSUME NEW s \in SUBSET S, Cardinality(s) <= n + 1 PROVE P(s)
    BY <2>1, <2>2, <1>1
  <2>. HIDE DEF P
  <2>. QED BY <2>2
<1>4. ASSUME NEW s \in SUBSET S PROVE P(s)
  <2>1. Cardinality(s) \in Nat
    BY Subsets
  <2>2. Cardinality(s) \in Good
    <3>. HIDE DEF Good
    <3>. QED BY <1>2, <1>3, <2>1, NatInduced
  <2>. HIDE DEF P
  <2>. QED BY <2>1, <2>2
<1>. QED BY <1>4
-----------------------------------------------------------------------------
(* What the proofs about money use.                                        *)

\* The sum of integers is an integer, and that of none is zero.
LEMMA SumType ==
  ASSUME NEW S, IsFiniteSet(S), NEW w, \A x \in S : w[x] \in Int
  PROVE  SumOver(w, S) \in Int
<1>1. PICK h : Sums(w, S, h) /\ SumOver(w, S) = h[S]
  BY SumOverSums
<1>2. S \in SUBSET S
  OBVIOUS
<1>. QED BY <1>1, <1>2, SumsRemove

LEMMA SumEmpty == ASSUME NEW w PROVE SumOver(w, {}) = 0
<1>1. IsFiniteSet({}) /\ \A x \in {} : w[x] \in Int
  BY FS_EmptySet
<1>2. PICK h : Sums(w, {}, h) /\ SumOver(w, {}) = h[{}]
  BY <1>1, SumOverSums
<1>. QED BY <1>2, SumsStep

\* Equal summands have equal sums.
LEMMA SumSame ==
  ASSUME NEW S, IsFiniteSet(S), NEW w, NEW v,
         \A x \in S : w[x] \in Int /\ v[x] = w[x]
  PROVE  SumOver(v, S) = SumOver(w, S)
<1>1. PICK h : Sums(w, S, h) /\ SumOver(w, S) = h[S]
  BY SumOverSums
<1>2. PICK g : Sums(v, S, g) /\ SumOver(v, S) = g[S]
  BY SumOverSums
<1>. QED BY <1>1, <1>2, SumsAgree

\* One summand is added.
LEMMA SumAdd ==
  ASSUME NEW S, IsFiniteSet(S), NEW x, x \notin S, NEW w, \A y \in S \cup {x} : w[y] \in Int
  PROVE  SumOver(w, S \cup {x}) = SumOver(w, S) + w[x]
<1> DEFINE T == S \cup {x}
<1>1. IsFiniteSet(T) /\ x \in T /\ w[x] \in Int /\ S \in SUBSET T /\ Without(T, x) = S
  BY FS_AddElement DEF Without
<1>2. PICK h : Sums(w, T, h) /\ SumOver(w, T) = h[T]
  BY <1>1, SumOverSums
<1>3. PICK g : Sums(w, S, g) /\ SumOver(w, S) = g[S]
  BY SumOverSums
<1>4. h[T] = w[x] + h[S] /\ h[S] \in Int
  <2>1. T \in SUBSET T /\ S \in SUBSET T /\ \A y \in T : w[y] \in Int
    OBVIOUS
  <2>. HIDE DEF T
  <2>2. h[T] = w[x] + h[S]
    BY <1>1, <1>2, <2>1, SumsRemove
  <2>3. h[S] \in Int
    BY <1>1, <1>2, <2>1, SumsRemove
  <2>. QED BY <2>2, <2>3
<1>5. g[S] = h[S]
  <2>1. S \in SUBSET S
    OBVIOUS
  <2>. QED BY <1>1, <1>2, <1>3, <2>1, SumsAgree
<1>. QED BY <1>1, <1>2, <1>3, <1>4, <1>5

\* One summand is changed.
LEMMA SumChange ==
  ASSUME NEW S, IsFiniteSet(S), NEW x \in S, NEW w, NEW v, v[x] \in Int,
         \A y \in S : w[y] \in Int /\ (y # x => v[y] = w[y])
  PROVE  SumOver(v, S) = SumOver(w, S) + (v[x] - w[x])
<1> DEFINE T == S \ {x}
<1>1. IsFiniteSet(T) /\ x \notin T /\ S = T \cup {x} /\ w[x] \in Int
  BY FS_RemoveElement
<1>2. \A y \in S : v[y] \in Int
  OBVIOUS
<1>3. \A y \in T : w[y] \in Int /\ v[y] = w[y]
  OBVIOUS
<1>. HIDE DEF T
<1>4. SumOver(w, S) = SumOver(w, T) + w[x]
  BY <1>1, <1>3, SumAdd
<1>5. SumOver(v, S) = SumOver(v, T) + v[x]
  BY <1>1, <1>2, SumAdd
<1>6. SumOver(v, T) = SumOver(w, T) /\ SumOver(w, T) \in Int
  BY <1>1, <1>3, SumSame, SumType
<1>. QED BY <1>1, <1>4, <1>5, <1>6

\* Nothing adds up to nothing.
LEMMA SumOfZeros ==
  ASSUME NEW S, IsFiniteSet(S), NEW w, \A x \in S : w[x] = 0
  PROVE  SumOver(w, S) = 0
<1> DEFINE P(s) == SumOver(w, s) = 0
           Good == {n \in Nat : \A s \in SUBSET S : Cardinality(s) <= n => P(s)}
<1>1. 0 \in Good
  <2>1. ASSUME NEW s \in SUBSET S, Cardinality(s) <= 0 PROVE P(s)
    <3>1. Cardinality(s) \in Nat /\ (s = {} <=> Cardinality(s) = 0)
      BY Subsets
    <3>2. s = {}
      BY <2>1, <3>1
    <3>. QED BY <3>2, SumEmpty
  <2>. QED BY <2>1
<1>2. ASSUME NEW n \in Nat, n \in Good PROVE n + 1 \in Good
  <2>1. ASSUME NEW s \in SUBSET S, Cardinality(s) <= n + 1, s # {} PROVE P(s)
    <3>1. PICK x \in s : TRUE
      BY <2>1
    <3> DEFINE t == Without(s, x)
    <3>2. t \in SUBSET S /\ Cardinality(t) = Cardinality(s) - 1
      BY WithoutOne
    <3>3. Cardinality(s) \in Nat
      BY Subsets
    <3>4. Cardinality(t) <= n
      BY <2>1, <3>2, <3>3
    <3>5. SumOver(w, t) = 0
      BY <1>2, <3>2, <3>4
    <3>6. x \notin t /\ s = t \cup {x} /\ \A y \in t \cup {x} : w[y] \in Int
      BY DEF Without
    <3>7. IsFiniteSet(t) /\ w[x] = 0
      BY <3>2, FS_Subset
    <3>. HIDE DEF t
    <3>8. SumOver(w, t \cup {x}) = SumOver(w, t) + w[x]
      BY <3>6, <3>7, SumAdd
    <3>. QED BY <3>5, <3>6, <3>7, <3>8
  <2>2. ASSUME NEW s \in SUBSET S, s = {} PROVE P(s)
    BY <2>2, SumEmpty
  <2>. HIDE DEF P
  <2>. QED BY <2>1, <2>2
<1>3. Cardinality(S) \in Nat /\ Cardinality(S) \in Good
  <2>1. Cardinality(S) \in Nat
    BY FS_CardinalityType
  <2>. HIDE DEF Good
  <2>. QED BY <1>1, <1>2, <2>1, NatInduced
<1>. QED BY <1>3

\* A part that has all the summands that are not zero.
LEMMA SumOfPart ==
  ASSUME NEW S, IsFiniteSet(S), NEW T \in SUBSET S, NEW w,
         \A x \in S : w[x] \in Int /\ (x \notin T => w[x] = 0)
  PROVE  SumOver(w, T) = SumOver(w, S)
<1> DEFINE Good == {n \in Nat : \A R \in SUBSET (S \ T) :
                      Cardinality(R) <= n => SumOver(w, T \cup R) = SumOver(w, T)}
<1>1. IsFiniteSet(S \ T) /\ \A R \in SUBSET (S \ T) : IsFiniteSet(T \cup R)
  <2>1. \A R \in SUBSET (S \ T) : T \cup R \in SUBSET S
    OBVIOUS
  <2>. QED BY <2>1, FS_Subset
<1>2. 0 \in Good
  <2>1. ASSUME NEW R \in SUBSET (S \ T), Cardinality(R) <= 0 PROVE R = {}
    BY <1>1, <2>1, Subsets
  <2>2. T \cup {} = T
    OBVIOUS
  <2>. QED BY <2>1, <2>2
<1>3. ASSUME NEW n \in Nat, n \in Good PROVE n + 1 \in Good
  <2>. SUFFICES ASSUME NEW R \in SUBSET (S \ T), Cardinality(R) <= n + 1
                PROVE  SumOver(w, T \cup R) = SumOver(w, T)
    OBVIOUS
  <2>1. CASE R = {}
    <3>1. T \cup R = T
      BY <2>1
    <3>. QED BY <3>1
  <2>2. CASE R # {}
    <3>1. PICK x \in R : TRUE
      BY <2>2
    <3> DEFINE Q == Without(R, x)
               U == T \cup Q
    <3>2. Q \in SUBSET (S \ T) /\ Cardinality(Q) <= n
      <4>1. Q \in SUBSET (S \ T) /\ Cardinality(Q) = Cardinality(R) - 1 /\ Cardinality(R) \in Nat
        BY <1>1, Subsets
      <4>. QED BY <4>1
    <3>3. SumOver(w, U) = SumOver(w, T)
      BY <1>3, <3>2
    <3>4. IsFiniteSet(U) /\ x \notin U /\ T \cup R = U \cup {x} /\ w[x] = 0
          /\ \A y \in U \cup {x} : w[y] \in Int
      BY <1>1, <3>2 DEF Without
    <3>. HIDE DEF U
    <3>5. SumOver(w, U \cup {x}) = SumOver(w, U) + w[x] /\ SumOver(w, U) \in Int
      BY <3>4, SumAdd, SumType
    <3>6. SumOver(w, T \cup R) = SumOver(w, U \cup {x})
      BY <3>4, Zenon
    <3>. QED BY <3>3, <3>4, <3>5, <3>6
  <2>. QED BY <2>1, <2>2
<1>4. Cardinality(S \ T) \in Nat /\ Cardinality(S \ T) \in Good
  <2>1. Cardinality(S \ T) \in Nat
    BY <1>1, FS_CardinalityType
  <2>. HIDE DEF Good
  <2>. QED BY <1>2, <1>3, <2>1, NatInduced
<1>5. S \ T \in SUBSET (S \ T) /\ T \cup (S \ T) = S /\ Cardinality(S \ T) <= Cardinality(S \ T)
  BY <1>4
<1>. QED BY <1>4, <1>5

\* The sum of natural numbers is one.
LEMMA SumNotNegative ==
  ASSUME NEW S, IsFiniteSet(S), NEW w, \A x \in S : w[x] \in Nat
  PROVE  SumOver(w, S) \in Nat
<1> DEFINE P(s) == SumOver(w, s) \in Nat
           Good == {n \in Nat : \A s \in SUBSET S : Cardinality(s) <= n => P(s)}
<1>1. 0 \in Good
  <2>1. ASSUME NEW s \in SUBSET S, Cardinality(s) <= 0 PROVE P(s)
    <3>1. s = {}
      BY <2>1, Subsets
    <3>. QED BY <3>1, SumEmpty
  <2>. QED BY <2>1
<1>2. ASSUME NEW n \in Nat, n \in Good PROVE n + 1 \in Good
  <2>1. ASSUME NEW s \in SUBSET S, Cardinality(s) <= n + 1, s # {} PROVE P(s)
    <3>1. PICK x \in s : TRUE
      BY <2>1
    <3> DEFINE t == Without(s, x)
    <3>2. t \in SUBSET S /\ Cardinality(t) = Cardinality(s) - 1
      BY WithoutOne
    <3>3. Cardinality(s) \in Nat
      BY Subsets
    <3>4. Cardinality(t) <= n
      BY <2>1, <3>2, <3>3
    <3>5. SumOver(w, t) \in Nat
      BY <1>2, <3>2, <3>4
    <3>6. x \notin t /\ s = t \cup {x} /\ \A y \in t \cup {x} : w[y] \in Int
      BY DEF Without
    <3>7. IsFiniteSet(t) /\ w[x] \in Nat
      BY <3>2, FS_Subset
    <3>. HIDE DEF t
    <3>8. SumOver(w, t \cup {x}) = SumOver(w, t) + w[x]
      BY <3>6, <3>7, SumAdd
    <3>. QED BY <3>5, <3>6, <3>7, <3>8
  <2>2. ASSUME NEW s \in SUBSET S, s = {} PROVE P(s)
    BY <2>2, SumEmpty
  <2>. HIDE DEF P
  <2>. QED BY <2>1, <2>2
<1>3. Cardinality(S) \in Nat /\ Cardinality(S) \in Good
  <2>1. Cardinality(S) \in Nat
    BY FS_CardinalityType
  <2>. HIDE DEF Good
  <2>. QED BY <1>1, <1>2, <2>1, NatInduced
<1>. QED BY <1>3
-----------------------------------------------------------------------------
(* The least and the largest of numbers.                                   *)

\* A part of an interval is finite.
LEMMA PartOfInterval ==
  ASSUME NEW N \in Nat, NEW S \in SUBSET (1 .. N)
  PROVE  /\ \A v \in S : v \in Nat /\ 1 <= v /\ v <= N
         /\ IsFiniteSet(S) /\ Cardinality(S) \in Nat
<1>1. IsFiniteSet(1 .. N) /\ S \subseteq 1 .. N
  BY FS_Interval
<1>2. IsFiniteSet(S) /\ Cardinality(S) \in Nat
  BY <1>1, FS_Subset, FS_CardinalityType
<1>3. \A v \in 1 .. N : v \in Nat /\ 1 <= v /\ v <= N
  OBVIOUS
<1>. QED BY <1>1, <1>2, <1>3

\* A part of an interval has a maximum.
LEMMA MaxIs ==
  ASSUME NEW N \in Nat, NEW S \in SUBSET (1 .. N), S # {}
  PROVE  Max(S) \in S /\ \A y \in S : y <= Max(S)
<1> DEFINE Below == {u \in Nat : \E y \in S : y > u}
<1>1. 0 \in Below
  <2>1. PICK y \in S : TRUE
    OBVIOUS
  <2>. QED BY <2>1
<1>2. N \notin Below
  OBVIOUS
<1>3. PICK u \in Nat : u \in Below /\ u + 1 \notin Below
  <2>. HIDE DEF Below
  <2>. QED BY <1>1, <1>2, NatInduced
<1>4. u + 1 \in S /\ \A y \in S : u + 1 >= y
  BY <1>3
<1>. QED BY <1>4 DEF Max

\* And a minimum.
LEMMA MinIs ==
  ASSUME NEW N \in Nat, NEW S \in SUBSET (1 .. N), S # {}
  PROVE  Min(S) \in S /\ \A y \in S : Min(S) <= y
<1> DEFINE Above == {u \in Nat : \A y \in S : y > u}
<1>1. 0 \in Above
  OBVIOUS
<1>2. N \notin Above
  <2>1. PICK y \in S : TRUE
    OBVIOUS
  <2>. QED BY <2>1
<1>3. PICK u \in Nat : u \in Above /\ u + 1 \notin Above
  <2>. HIDE DEF Above
  <2>. QED BY <1>1, <1>2, NatInduced
<1>4. u + 1 \in S /\ \A y \in S : u + 1 <= y
  BY <1>3
<1>. QED BY <1>4 DEF Min

\* A number of a set that no other exceeds is its maximum.
LEMMA MaxEquals ==
  ASSUME NEW S, S \subseteq Int, NEW x \in S, \A y \in S : y <= x PROVE Max(S) = x
<1>1. \E z \in S : \A y \in S : z >= y
  OBVIOUS
<1>2. Max(S) \in S /\ \A y \in S : Max(S) >= y
  BY <1>1 DEF Max
<1>3. Max(S) \in Int /\ x \in Int /\ Max(S) >= x /\ Max(S) <= x
  BY <1>2
<1>. QED BY <1>3

\* Finitely many numbers have a largest one.
LEMMA MaxOfValues ==
  ASSUME NEW n \in Nat, NEW f, \A i \in 1 .. n : f[i] \in Int
  PROVE  /\ Max({0} \cup {f[i] : i \in 1 .. n}) \in {0} \cup {f[i] : i \in 1 .. n}
         /\ \A k \in 1 .. n : f[k] <= Max({0} \cup {f[i] : i \in 1 .. n})
<1> DEFINE Upto(k) == {0} \cup {f[i] : i \in 1 .. k}
           Good == {k \in Nat : k <= n => \E z \in Upto(k) : \A y \in Upto(k) : z >= y}
<1>1. 0 \in Good
  OBVIOUS
<1>2. ASSUME NEW k \in Nat, k \in Good PROVE k + 1 \in Good
  <2>. SUFFICES ASSUME k + 1 <= n PROVE \E z \in Upto(k + 1) : \A y \in Upto(k + 1) : z >= y
    OBVIOUS
  <2>1. PICK z \in Upto(k) : \A y \in Upto(k) : z >= y
    BY <1>2
  <2>2. Upto(k + 1) = Upto(k) \cup {f[k + 1]} /\ f[k + 1] \in Int
    <3>1. 1 .. k + 1 = (1 .. k) \cup {k + 1}
      OBVIOUS
    <3>. QED BY <3>1
  <2>3. Upto(k) \subseteq Int
    OBVIOUS
  <2>. HIDE DEF Upto
  <2>4. CASE z >= f[k + 1]
    BY <2>1, <2>2, <2>4
  <2>5. CASE ~(z >= f[k + 1])
    <3>1. \A y \in Upto(k + 1) : f[k + 1] >= y
      BY <2>1, <2>2, <2>3, <2>5
    <3>. QED BY <2>2, <3>1
  <2>. QED BY <2>4, <2>5
<1>3. n \in Good
  <2>. HIDE DEF Good
  <2>. QED BY <1>1, <1>2, NatInduced
<1>4. \E z \in Upto(n) : \A y \in Upto(n) : z >= y
  BY <1>3
<1>. HIDE DEF Upto
<1>5. Max(Upto(n)) \in Upto(n) /\ \A y \in Upto(n) : Max(Upto(n)) >= y
  BY <1>4 DEF Max
<1>6. Upto(n) \subseteq Int
  BY DEF Upto
<1>7. ASSUME NEW k \in 1 .. n PROVE f[k] <= Max(Upto(n))
  <2>1. f[k] \in Upto(n)
    BY DEF Upto
  <2>. QED BY <1>5, <1>6, <2>1
<1>. QED BY <1>5, <1>7 DEF Upto
-----------------------------------------------------------------------------
(* Folds over a sequence, which is the set 1 .. n taken from its maximum   *)
(* down.  What is done with the k-th element is a function G[k].           *)

Folds(G, base, S, h) ==
  h = [s \in SUBSET S |-> IF s = {} THEN base ELSE G[Max(s)][h[s \ {Max(s)}]]]

\* The maximum of an interval, and of a set that has the end of one.
LEMMA MaxOfInterval ==
  ASSUME NEW n \in Nat
  PROVE  /\ n # 0 => Max(1 .. n) = n /\ (1 .. n) \ {n} = 1 .. n - 1
         /\ \A s \in SUBSET (1 .. n) : n \in s => Max(s) = n
<1>1. ASSUME NEW s \in SUBSET (1 .. n), n \in s PROVE Max(s) = n
  <2>1. \A x \in s : x \in Int /\ (x >= n => x = n)
    OBVIOUS
  <2>2. \A y \in s : n >= y
    OBVIOUS
  <2>3. \E x \in s : \A y \in s : x >= y
    BY <1>1, <2>2
  <2>4. Max(s) \in s /\ \A y \in s : Max(s) >= y
    BY <2>3 DEF Max
  <2>. QED BY <1>1, <2>1, <2>4
<1>. QED BY <1>1

StepsIn(G, A, n) == G \in [1 .. n -> [A -> A]]
HasFold(G, base, A, n) == \E h \in [SUBSET (1 .. n) -> A] : Folds(G, base, 1 .. n, h)

\* A fold has a value for each part of its interval.
LEMMA FoldExists ==
  ASSUME NEW n \in Nat, NEW A, NEW base \in A, NEW G, StepsIn(G, A, n)
  PROVE  HasFold(G, base, A, n)
<1> DEFINE Good == {k \in Nat : k <= n => HasFold(G, base, A, k)}
<1>1. 0 \in Good
  <2> DEFINE h == [s \in SUBSET (1 .. 0) |-> base]
  <2>1. \A s \in SUBSET (1 .. 0) : s = {}
    OBVIOUS
  <2>2. h \in [SUBSET (1 .. 0) -> A] /\ Folds(G, base, 1 .. 0, h)
    BY <2>1 DEF Folds
  <2>3. HasFold(G, base, A, 0)
    BY <2>2 DEF HasFold
  <2>. QED BY <2>3
<1>2. ASSUME NEW k \in Nat, k \in Good PROVE k + 1 \in Good
  <2>. SUFFICES ASSUME k + 1 <= n PROVE HasFold(G, base, A, k + 1)
    OBVIOUS
  <2>1. PICK h \in [SUBSET (1 .. k) -> A] : Folds(G, base, 1 .. k, h)
    <3>1. HasFold(G, base, A, k)
      BY <1>2
    <3>. QED BY <3>1 DEF HasFold
  <2> DEFINE g == [s \in SUBSET (1 .. k + 1) |->
                     IF k + 1 \in s THEN G[k + 1][h[s \ {k + 1}]] ELSE h[s]]
  <2>2. ASSUME NEW s \in SUBSET (1 .. k + 1), k + 1 \in s
        PROVE  Max(s) = k + 1 /\ s \ {k + 1} \in SUBSET (1 .. k)
    BY <2>2, MaxOfInterval
  <2>3. ASSUME NEW s \in SUBSET (1 .. k + 1), k + 1 \notin s PROVE s \in SUBSET (1 .. k)
    BY <2>3
  <2>4. G[k + 1] \in [A -> A]
    BY DEF StepsIn
  <2>5. g \in [SUBSET (1 .. k + 1) -> A]
    <3>1. ASSUME NEW s \in SUBSET (1 .. k + 1)
          PROVE  (IF k + 1 \in s THEN G[k + 1][h[s \ {k + 1}]] ELSE h[s]) \in A
      BY <2>1, <2>2, <2>3, <2>4
    <3>. QED BY <3>1
  <2>6. ASSUME NEW s \in SUBSET (1 .. k + 1)
        PROVE  g[s] = IF s = {} THEN base ELSE G[Max(s)][g[s \ {Max(s)}]]
    <3>1. CASE k + 1 \in s
      <4>1. g[s \ {k + 1}] = h[s \ {k + 1}]
        BY <2>2, <3>1
      <4>2. g[s] = G[k + 1][h[s \ {k + 1}]]
        BY <3>1
      <4>. HIDE DEF g
      <4>. QED BY <2>2, <3>1, <4>1, <4>2
    <3>2. CASE k + 1 \notin s
      <4>1. s \in SUBSET (1 .. k) /\ g[s] = h[s]
        BY <2>3, <3>2
      <4>2. h[s] = IF s = {} THEN base ELSE G[Max(s)][h[s \ {Max(s)}]]
        BY <2>1, <4>1 DEF Folds
      <4>3. \A u \in SUBSET (1 .. k) : g[u] = h[u]
        OBVIOUS
      <4>. HIDE DEF g
      <4>. QED BY <4>1, <4>2, <4>3
    <3>. QED BY <3>1, <3>2
  <2>7. Folds(G, base, 1 .. k + 1, g)
    <3>1. g = [s \in SUBSET (1 .. k + 1) |-> g[s]]
      OBVIOUS
    <3>. HIDE DEF g
    <3>. QED BY <2>6, <3>1 DEF Folds
  <2>. HIDE DEF g
  <2>. QED BY <2>5, <2>7 DEF HasFold
<1>3. n \in Good
  <2>. HIDE DEF Good
  <2>. QED BY <1>1, <1>2, NatInduced
<1>. QED BY <1>3

\* What a fold passes through, the values for the first 0, 1, 2, ... elements, is determined
\* by the first of them and the steps, if these stay in A.
Runs(G, A, n, r) ==
  r[0] \in A /\ \A k \in 1 .. n : r[k - 1] \in A => r[k] = G[k][r[k - 1]]

LEMMA RunsAgree ==
  ASSUME NEW n \in Nat, NEW A, NEW G, StepsIn(G, A, n),
         NEW r, Runs(G, A, n, r), NEW p, Runs(G, A, n, p), r[0] = p[0]
  PROVE  \A k \in 0 .. n : r[k] \in A /\ r[k] = p[k]
<1> DEFINE Good == {k \in Nat : k <= n => r[k] \in A /\ r[k] = p[k]}
<1>1. 0 \in Good
  BY DEF Runs
<1>2. ASSUME NEW k \in Nat, k \in Good PROVE k + 1 \in Good
  <2>. SUFFICES ASSUME k + 1 <= n PROVE r[k + 1] \in A /\ r[k + 1] = p[k + 1]
    OBVIOUS
  <2>1. k + 1 \in 1 .. n /\ (k + 1) - 1 = k /\ r[k] \in A /\ r[k] = p[k]
    BY <1>2
  <2>2. r[k + 1] = G[k + 1][r[k]] /\ p[k + 1] = G[k + 1][r[k]]
    BY <2>1 DEF Runs
  <2>. QED BY <2>1, <2>2 DEF StepsIn
<1>3. \A k \in Nat : k \in Good
  <2>. HIDE DEF Good
  <2>. QED BY <1>1, <1>2, NatInduced
<1>. QED BY <1>3
=============================================================================
