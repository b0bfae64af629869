--------------------------- MODULE InductionLemmas ---------------------------
(***************************************************************************)
(* Induction without operators: over sets of naturals and over the subsets *)
(* of a finite set, from the well-founded orders of the library.  With it, *)
(* what the community modules' sums and the walks of the models compute    *)
(* can be proved for inputs of any size.                                   *)
(***************************************************************************)
EXTENDS Integers, FiniteSets, FiniteSetsExt, Functions, SequencesExt, FiniteSetTheorems,
        NaturalsInduction, SequenceTheorems, WellFoundedInduction, TLAPS

\* Every nonempty set of naturals has a least element.
LEMMA LeastNatural ==
    ASSUME NEW T \in SUBSET Nat, T # {}
    PROVE  \E x \in T : \A y \in T : x <= y
<1>1. PICK x \in T : \A y \in T : ~ (<<y, x>> \in OpToRel(<, Nat))
  <2>1. IsWellFoundedOn(OpToRel(<, Nat), Nat)
    BY NatLessThanWellFounded
  <2> QED BY <2>1, WFMin
<1>2. ASSUME NEW y \in T PROVE x <= y
  <2>1. x \in Nat /\ y \in Nat
    OBVIOUS
  <2>2. ~ (y < x)
    <3>1. SUFFICES ASSUME y < x PROVE <<y, x>> \in OpToRel(<, Nat)
      BY <1>1, Zenon
    <3>2. <<y, x>> \in {p \in Nat \X Nat : p[1] < p[2]}
      BY <2>1, <3>1
    <3> QED BY <3>2 DEF OpToRel
  <2> QED BY <2>1, <2>2
<1> QED BY <1>2

\* A set that holds 0 and the successor of each natural it holds has them all.
LEMMA SetInduction ==
    ASSUME NEW T, 0 \in T, \A n \in Nat : n \in T => n + 1 \in T
    PROVE  Nat \subseteq T
<1> SUFFICES ASSUME NEW n \in Nat, n \notin T PROVE FALSE
  OBVIOUS
<1> DEFINE Missing == {k \in Nat : k \notin T}
<1>1. PICK m \in Missing : \A k \in Missing : m <= k
  <2>1. Missing \in SUBSET Nat /\ Missing # {}
    OBVIOUS
  <2> HIDE DEF Missing
  <2> QED BY <2>1, LeastNatural
<1>2. m # 0
  OBVIOUS
<1>3. m - 1 \in Nat /\ m - 1 \in T
  BY <1>1, <1>2
<1> QED BY <1>3

\* The subsets of a finite set are well founded.
LEMMA SubsetOrderWellFounded ==
    ASSUME NEW S, IsFiniteSet(S)
    PROVE  IsWellFoundedOn(StrictSubsetOrdering(S), SUBSET S)
BY FS_StrictSubsetOrderingWellFounded, FS_FiniteSubsetsOfFinite

\* A set of subsets of a finite set that holds each of them whose own strict
\* subsets it holds has them all.
LEMMA SubsetInduction ==
    ASSUME NEW S, IsFiniteSet(S), NEW P,
           \A T \in SUBSET S : (\A U \in SUBSET T : U # T => U \in P) => T \in P
    PROVE  SUBSET S \subseteq P
<1> SUFFICES ASSUME NEW T0 \in SUBSET S, T0 \notin P PROVE FALSE
  OBVIOUS
<1> DEFINE Missing == {T \in SUBSET S : T \notin P}
<1>1. IsWellFoundedOn(StrictSubsetOrdering(S), SUBSET S)
  BY SubsetOrderWellFounded
<1>2. Missing \subseteq SUBSET S /\ Missing # {}
  OBVIOUS
<1>3. PICK T \in Missing : \A U \in Missing : ~ (<<U, T>> \in StrictSubsetOrdering(S))
  <2> HIDE DEF Missing
  <2> QED BY <1>1, <1>2, WFMin
<1>4. ASSUME NEW U \in SUBSET T, U # T PROVE U \in P
  <2>1. <<U, T>> \in StrictSubsetOrdering(S)
    BY <1>4 DEF StrictSubsetOrdering
  <2> QED BY <1>3, <2>1
<1> QED BY <1>4
-----------------------------------------------------------------------------
(* What SumFunctionOnSet computes.                                         *)

Chosen(T) == CHOOSE x \in T : TRUE
SumStep(f, g, T) == IF T = {} THEN 0 ELSE f[Chosen(T)] + g[T \ {Chosen(T)}]
SumIter(f, S) == CHOOSE g : g = [T \in SUBSET S |-> SumStep(f, g, T)]

\* The community modules' sum is the value of the recursion at the whole set.
LEMMA SumIsIter == ASSUME NEW f, NEW S PROVE SumFunctionOnSet(f, S) = SumIter(f, S)[S]
BY DEF SumFunctionOnSet, FoldFunctionOnSet, MapThenFoldSet, SumIter, SumStep, Chosen

\* The recursion is well defined: it satisfies its equation on every subset.
LEMMA SumIterEquation ==
    ASSUME NEW f, NEW S, IsFiniteSet(S), NEW T \in SUBSET S
    PROVE  SumIter(f, S)[T] = SumStep(f, SumIter(f, S), T)
<1> DEFINE Def(g, U) == SumStep(f, g, U)
<1>1. IsWellFoundedOn(StrictSubsetOrdering(S), SUBSET S)
  BY SubsetOrderWellFounded
<1>2. WFDefOn(StrictSubsetOrdering(S), SUBSET S, Def)
  <2> SUFFICES ASSUME NEW g, NEW h, NEW U \in SUBSET S,
                      \A V \in SetLessThan(U, StrictSubsetOrdering(S), SUBSET S) : g[V] = h[V]
               PROVE  SumStep(f, g, U) = SumStep(f, h, U)
    BY DEF WFDefOn
  <2>1. CASE U = {}
    BY <2>1 DEF SumStep
  <2>2. CASE U # {}
    <3>1. Chosen(U) \in U
      BY <2>2 DEF Chosen
    <3>2. U \ {Chosen(U)} \in SetLessThan(U, StrictSubsetOrdering(S), SUBSET S)
      BY <3>1 DEF SetLessThan, StrictSubsetOrdering
    <3> QED BY <2>2, <3>2 DEF SumStep
  <2> QED BY <2>1, <2>2
<1>3. OpDefinesFcn(SumIter(f, S), SUBSET S, Def)
  BY DEF OpDefinesFcn, SumIter
<1>4. WFInductiveDefines(SumIter(f, S), SUBSET S, Def)
  BY <1>1, <1>2, <1>3, WFInductiveDef
<1> DEFINE iter == SumIter(f, S)
<1>5. iter = [U \in SUBSET S |-> SumStep(f, iter, U)]
  BY <1>4 DEF WFInductiveDefines
<1> HIDE DEF iter
<1>6. iter[T] = SumStep(f, iter, T)
  BY <1>5
<1> QED BY <1>6 DEF iter

\* The recursion does not depend on the set it started from.
LEMMA SumIterOfSubset ==
    ASSUME NEW f, NEW S, IsFiniteSet(S), NEW T \in SUBSET S
    PROVE  SumIter(f, S)[T] = SumFunctionOnSet(f, T)
<1>1. IsFiniteSet(T)
  BY FS_Subset
<1> DEFINE P == {U \in SUBSET T : SumIter(f, S)[U] = SumIter(f, T)[U]}
<1>2. ASSUME NEW U \in SUBSET T, \A V \in SUBSET U : V # U => V \in P
      PROVE  U \in P
  <2>1. SumIter(f, S)[U] = SumStep(f, SumIter(f, S), U)
    BY SumIterEquation
  <2>2. SumIter(f, T)[U] = SumStep(f, SumIter(f, T), U)
    BY <1>1, SumIterEquation
  <2>3. CASE U = {}
    BY <2>1, <2>2, <2>3 DEF SumStep
  <2>4. CASE U # {}
    <3>1. Chosen(U) \in U
      BY <2>4 DEF Chosen
    <3>2. U \ {Chosen(U)} \in P
      BY <1>2, <3>1
    <3> QED BY <2>1, <2>2, <2>4, <3>2 DEF SumStep
  <2> QED BY <2>3, <2>4
<1> HIDE DEF P
<1>3. SUBSET T \subseteq P
  BY <1>1, <1>2, SubsetInduction
<1> QED BY <1>3, SumIsIter DEF P

\* The sum's own recursion, one element at a time.
LEMMA SumEquation ==
    ASSUME NEW f, NEW S, IsFiniteSet(S), S # {}
    PROVE  SumFunctionOnSet(f, S) = f[Chosen(S)] + SumFunctionOnSet(f, S \ {Chosen(S)})
<1>1. SumIter(f, S)[S] = SumStep(f, SumIter(f, S), S)
  BY SumIterEquation
<1>2. SumIter(f, S)[S \ {Chosen(S)}] = SumFunctionOnSet(f, S \ {Chosen(S)})
  BY SumIterOfSubset
<1> QED BY <1>1, <1>2, SumIsIter DEF SumStep

\* The empty sum.
LEMMA SumEmpty == ASSUME NEW f PROVE SumFunctionOnSet(f, {}) = 0
<1>1. IsFiniteSet({})
  BY FS_EmptySet
<1>2. SumIter(f, {})[{}] = SumStep(f, SumIter(f, {}), {})
  BY <1>1, SumIterEquation
<1> QED BY <1>2, SumIsIter DEF SumStep

\* The element the recursion takes is in the set.
LEMMA ChosenIn == ASSUME NEW S, S # {} PROVE Chosen(S) \in S
BY DEF Chosen

\* A sum of naturals is one.
LEMMA SumNat ==
    ASSUME NEW f, NEW S, IsFiniteSet(S), \A x \in S : f[x] \in Nat
    PROVE  SumFunctionOnSet(f, S) \in Nat
<1> DEFINE P == {T \in SUBSET S : SumFunctionOnSet(f, T) \in Nat}
<1>1. ASSUME NEW T \in SUBSET S, \A U \in SUBSET T : U # T => U \in P
      PROVE  T \in P
  <2>1. IsFiniteSet(T)
    BY FS_Subset
  <2>2. CASE T = {}
    BY <2>2, SumEmpty
  <2>3. CASE T # {}
    <3>1. Chosen(T) \in T
      BY <2>3, ChosenIn
    <3>2. T \ {Chosen(T)} \in P
      BY <1>1, <3>1
    <3>3. SumFunctionOnSet(f, T) = f[Chosen(T)] + SumFunctionOnSet(f, T \ {Chosen(T)})
      BY <2>1, <2>3, SumEquation
    <3> QED BY <3>1, <3>2, <3>3
  <2> QED BY <2>2, <2>3
<1> HIDE DEF P
<1>2. SUBSET S \subseteq P
  BY <1>1, SubsetInduction
<1> QED BY <1>2 DEF P

\* Adding an element adds its value.
LEMMA SumAdd ==
    ASSUME NEW f, NEW S, IsFiniteSet(S), NEW x, x \notin S,
           \A y \in S \cup {x} : f[y] \in Nat
    PROVE  SumFunctionOnSet(f, S \cup {x}) = SumFunctionOnSet(f, S) + f[x]
<1> DEFINE All == S \cup {x}
<1> DEFINE Sum(T) == SumFunctionOnSet(f, T)
<1> DEFINE P == {T \in SUBSET All : \A y \in T : Sum(T) = Sum(T \ {y}) + f[y]}
<1>0. IsFiniteSet(All)
  BY FS_AddElement
<1>1. ASSUME NEW T \in SUBSET All, \A U \in SUBSET T : U # T => U \in P
      PROVE  T \in P
  <2> SUFFICES ASSUME NEW y \in T PROVE Sum(T) = Sum(T \ {y}) + f[y]
    OBVIOUS
  <2> DEFINE c == Chosen(T)
  <2>1. c \in T
    BY ChosenIn
  <2>2. \A U \in SUBSET All : IsFiniteSet(U) /\ Sum(U) \in Nat
    BY <1>0, FS_Subset, SumNat
  <2>3. Sum(T) = f[c] + Sum(T \ {c})
    BY <2>2, SumEquation
  <2>4. CASE y = c
    BY <2>1, <2>2, <2>3, <2>4
  <2>5. CASE y # c
    <3> DEFINE A == T \ {c}
    <3> DEFINE B == T \ {y}
    <3> DEFINE C == (T \ {y}) \ {c}
    <3>1. A \in P /\ B \in P
      BY <1>1, <2>1
    <3>2. Sum(A) = Sum(A \ {y}) + f[y]
      BY <2>5, <3>1
    <3>3. Sum(B) = Sum(B \ {c}) + f[c]
      BY <2>1, <2>5, <3>1
    <3>4. A \ {y} = C /\ B \ {c} = C
      OBVIOUS
    <3>5. f[y] \in Nat /\ f[c] \in Nat /\ Sum(C) \in Nat /\ C \in SUBSET All
      BY <2>1, <2>2
    <3> HIDE DEF A, B, C, Sum, c
    <3>6. Sum(T) = f[c] + (Sum(C) + f[y])
      BY <2>3, <3>2, <3>4 DEF A
    <3>7. Sum(B) = Sum(C) + f[c]
      BY <3>3, <3>4
    <3>8. Sum(T) = Sum(B) + f[y]
      BY <3>5, <3>6, <3>7
    <3> QED BY <3>8 DEF B
  <2> QED BY <2>4, <2>5
<1> HIDE DEF P
<1>2. All \in P
  <2> HIDE DEF All
  <2>1. SUBSET All \subseteq P
    BY <1>0, <1>1, SubsetInduction
  <2> QED BY <2>1
<1>3. Sum(All) = Sum(All \ {x}) + f[x]
  BY <1>2 DEF P
<1>4. All \ {x} = S
  OBVIOUS
<1> QED BY <1>3, <1>4

\* Only the values on the set matter.
LEMMA SumSame ==
    ASSUME NEW f, NEW g, NEW S, IsFiniteSet(S), \A x \in S : f[x] = g[x]
    PROVE  SumFunctionOnSet(f, S) = SumFunctionOnSet(g, S)
<1> DEFINE P == {T \in SUBSET S : SumFunctionOnSet(f, T) = SumFunctionOnSet(g, T)}
<1>1. ASSUME NEW T \in SUBSET S, \A U \in SUBSET T : U # T => U \in P
      PROVE  T \in P
  <2>1. IsFiniteSet(T)
    BY FS_Subset
  <2>2. CASE T = {}
    BY <2>2, SumEmpty
  <2>3. CASE T # {}
    <3>1. Chosen(T) \in T
      BY <2>3, ChosenIn
    <3>2. T \ {Chosen(T)} \in P
      BY <1>1, <3>1
    <3>3. SumFunctionOnSet(f, T) = f[Chosen(T)] + SumFunctionOnSet(f, T \ {Chosen(T)})
      BY <2>1, <2>3, SumEquation
    <3>4. SumFunctionOnSet(g, T) = g[Chosen(T)] + SumFunctionOnSet(g, T \ {Chosen(T)})
      BY <2>1, <2>3, SumEquation
    <3> QED BY <3>1, <3>2, <3>3, <3>4
  <2> QED BY <2>2, <2>3
<1> HIDE DEF P
<1>2. SUBSET S \subseteq P
  BY <1>1, SubsetInduction
<1> QED BY <1>2 DEF P

\* A sum over disjoint sets is the sum of theirs.
LEMMA SumUnion ==
    ASSUME NEW f, NEW S, NEW R, IsFiniteSet(S), IsFiniteSet(R), S \cap R = {},
           \A x \in S \cup R : f[x] \in Nat
    PROVE  SumFunctionOnSet(f, S \cup R) = SumFunctionOnSet(f, S) + SumFunctionOnSet(f, R)
<1> DEFINE Sum(T) == SumFunctionOnSet(f, T)
<1> DEFINE P == {T \in SUBSET R : Sum(S \cup T) = Sum(S) + Sum(T)}
<1>1. ASSUME NEW T \in SUBSET R, \A U \in SUBSET T : U # T => U \in P
      PROVE  T \in P
  <2>1. IsFiniteSet(T)
    BY FS_Subset
  <2>2. Sum(S) \in Nat /\ Sum(T) \in Nat
    BY <2>1, SumNat
  <2>3. CASE T = {}
    <3>1. Sum(T) = 0 /\ S \cup T = S
      BY <2>3, SumEmpty
    <3>2. Sum(S \cup T) = Sum(S)
      BY <3>1, Zenon
    <3> HIDE DEF Sum
    <3> QED BY <2>2, <3>1, <3>2
  <2>4. CASE T # {}
    <3> PICK x \in T : TRUE
      BY <2>4
    <3> DEFINE U == T \ {x}
    <3>1. Sum(S \cup U) = Sum(S) + Sum(U)
      BY <1>1
    <3>2. IsFiniteSet(U) /\ IsFiniteSet(S \cup U)
      BY <2>1, FS_RemoveElement, FS_Union
    <3>3. U \cup {x} = T /\ (S \cup U) \cup {x} = S \cup T
      OBVIOUS
    <3>4. Sum(U \cup {x}) = Sum(U) + f[x]
      BY <3>2, SumAdd
    <3>5. Sum((S \cup U) \cup {x}) = Sum(S \cup U) + f[x]
      BY <3>2, SumAdd
    <3>6. Sum(U) \in Nat /\ f[x] \in Nat
      BY <3>2, SumNat
    <3> HIDE DEF Sum, U
    <3>7. Sum(T) = Sum(U) + f[x]
      BY <3>3, <3>4, Zenon
    <3>8. Sum(S \cup T) = (Sum(S) + Sum(U)) + f[x]
      BY <3>1, <3>3, <3>5, Zenon
    <3>9. Sum(S \cup T) = Sum(S) + Sum(T)
      BY <2>2, <3>6, <3>7, <3>8
    <3> QED BY <3>9
  <2> QED BY <2>3, <2>4
<1> HIDE DEF P
<1>2. SUBSET R \subseteq P
  BY <1>1, SubsetInduction
<1> QED BY <1>2 DEF P

\* More elements, no smaller a sum.
LEMMA SumSubset ==
    ASSUME NEW f, NEW S, IsFiniteSet(S), \A x \in S : f[x] \in Nat, NEW T \in SUBSET S
    PROVE  SumFunctionOnSet(f, T) <= SumFunctionOnSet(f, S)
<1>1. IsFiniteSet(T) /\ IsFiniteSet(S \ T)
  BY FS_Subset, FS_Difference
<1>2. T \cup (S \ T) = S
  OBVIOUS
<1>3. SumFunctionOnSet(f, S) = SumFunctionOnSet(f, T) + SumFunctionOnSet(f, S \ T)
  <2>1. SumFunctionOnSet(f, T \cup (S \ T)) = SumFunctionOnSet(f, T) + SumFunctionOnSet(f, S \ T)
    BY <1>1, SumUnion
  <2> QED BY <1>2, <2>1, Zenon
<1>4. SumFunctionOnSet(f, T) \in Nat /\ SumFunctionOnSet(f, S \ T) \in Nat
  BY <1>1, SumNat
<1> QED BY <1>3, <1>4

-----------------------------------------------------------------------------
(* Sequences, and what FoldLeft computes.                                  *)

\* There are finitely many positions.
LEMMA FinitePositions == ASSUME NEW n \in Nat PROVE IsFiniteSet(1..n)
<1>1. 1 \in Int /\ n \in Int
  OBVIOUS
<1> QED BY <1>1, FS_Interval

\* The greatest of some numbers is one of them, and none is above it.
LEMMA MaxOfNumbers ==
    ASSUME NEW n \in Nat, NEW T \in SUBSET (0..n), T # {}
    PROVE  Max(T) \in T /\ \A k \in T : k <= Max(T)
<1>2. \E k \in T : \A j \in T : k >= j
  <2> DEFINE Gap == {n - k : k \in T}
  <2>1. Gap \in SUBSET Nat /\ Gap # {}
    <3>1. ASSUME NEW k \in T PROVE n - k \in Nat
      <4>1. k \in 0..n
        OBVIOUS
      <4> QED BY <4>1
    <3> QED BY <3>1
  <2> HIDE DEF Gap
  <2>2. PICK g \in Gap : \A h \in Gap : g <= h
    BY <2>1, LeastNatural
  <2>3. PICK k \in T : g = n - k
    BY <2>2 DEF Gap
  <2>4. ASSUME NEW j \in T PROVE k >= j
    <3>1. n - j \in Gap
      BY DEF Gap
    <3> QED BY <2>2, <2>3, <3>1
  <2> QED BY <2>4
<1> QED BY <1>2 DEF Max

\* The greater and the smaller of two numbers.
LEMMA MaxOfTwo == ASSUME NEW a \in Int, NEW b \in Int PROVE Max({a, b}) = IF a < b THEN b ELSE a
<1>1. \E x \in {a, b} : \A y \in {a, b} : x >= y
  OBVIOUS
<1>2. Max({a, b}) \in {a, b} /\ \A y \in {a, b} : Max({a, b}) >= y
  BY <1>1 DEF Max
<1> QED BY <1>2

\* One element more.
LEMMA SubSeqNext ==
    ASSUME NEW S, NEW s \in Seq(S), NEW m \in Nat, m # 0, NEW n \in Nat, m <= n + 1, n + 1 <= Len(s)
    PROVE  /\ SubSeq(s, m, n) \in Seq(S) /\ s[n + 1] \in S
           /\ SubSeq(s, m, n + 1) = Append(SubSeq(s, m, n), s[n + 1])
<1> DEFINE e == s[n + 1]
<1> DEFINE a == SubSeq(s, m, n)
<1>1. Len(s) \in Nat /\ n + 1 \in 1..Len(s) /\ m \in 1..Len(s) /\ n + 1 \in m..Len(s) /\ (n + 1) - 1 = n
  BY LenProperties
<1>2. e \in S
  BY <1>1, ElementOfSeq
<1>3. a \in Seq(S)
  <2>1. \A i \in m..n : s[i] \in S
    <3> SUFFICES ASSUME NEW i \in m..n PROVE s[i] \in S
      OBVIOUS
    <3>1. i \in 1..Len(s)
      BY <1>1
    <3> QED BY <3>1, ElementOfSeq
  <2>2. m \in Int /\ n \in Int
    OBVIOUS
  <2> QED BY <2>1, <2>2, SubSeqProperties
<1>4. SubSeq(s, m, n + 1) = a \o <<e>>
  BY <1>1, SubSeqRecursiveSecond
<1> HIDE DEF a, e
<1>5. Append(a, e) = a \o <<e>>
  BY <1>2, <1>3, AppendIsConcat
<1> QED BY <1>2, <1>3, <1>4, <1>5 DEF a, e

\* The first elements.
LEMMA FirstOf ==
    ASSUME NEW S, NEW s \in Seq(S), NEW n \in Nat, n <= Len(s)
    PROVE  /\ SubSeq(s, 1, n) \in Seq(S) /\ Len(SubSeq(s, 1, n)) = n
           /\ \A i \in 1..n : SubSeq(s, 1, n)[i] = s[i]
<1>1. 1 \in Int /\ n \in Int /\ Len(s) \in Nat
  BY LenProperties
<1>2. \A i \in 1..n : s[i] \in S
  <2> SUFFICES ASSUME NEW i \in 1..n PROVE s[i] \in S
    OBVIOUS
  <2>1. i \in 1..Len(s)
    BY <1>1
  <2> QED BY <2>1, ElementOfSeq
<1>3. /\ SubSeq(s, 1, n) \in Seq(S)
      /\ Len(SubSeq(s, 1, n)) = IF 1 <= n THEN n - 1 + 1 ELSE 0
      /\ \A i \in 1..(n - 1 + 1) : SubSeq(s, 1, n)[i] = s[1 + i - 1]
  BY <1>1, <1>2, SubSeqProperties
<1>4. n - 1 + 1 = n /\ \A i \in 1..n : 1 + i - 1 = i
  OBVIOUS
<1>5. Len(SubSeq(s, 1, n)) = n
  <2>1. (IF 1 <= n THEN n - 1 + 1 ELSE 0) = n
    OBVIOUS
  <2> QED BY <1>3, <2>1
<1>6. \A i \in 1..n : SubSeq(s, 1, n)[i] = s[i]
  <2> DEFINE a == SubSeq(s, 1, n)
  <2>1. \A i \in 1..(n - 1 + 1) : a[i] = s[1 + i - 1]
    BY <1>3
  <2> HIDE DEF a
  <2>2. ASSUME NEW i \in 1..n PROVE a[i] = s[i]
    <3>1. i \in 1..(n - 1 + 1) /\ 1 + i - 1 = i
      OBVIOUS
    <3>2. a[i] = s[1 + i - 1]
      BY <2>1, <3>1
    <3> QED BY <3>1, <3>2
  <2> QED BY <2>2 DEF a
<1> QED BY <1>3, <1>5, <1>6

\* The first elements of sequences that have them in common.
LEMMA FirstSame ==
    ASSUME NEW S, NEW s \in Seq(S), NEW t \in Seq(S), NEW n \in Nat, n <= Len(s), n <= Len(t),
           \A i \in 1..n : s[i] = t[i]
    PROVE  SubSeq(s, 1, n) = SubSeq(t, 1, n)
<1> DEFINE a == SubSeq(s, 1, n)
<1> DEFINE b == SubSeq(t, 1, n)
<1>1. a \in Seq(S) /\ Len(a) = n /\ \A i \in 1..n : a[i] = s[i]
  BY FirstOf
<1>2. b \in Seq(S) /\ Len(b) = n /\ \A i \in 1..n : b[i] = t[i]
  BY FirstOf
<1> HIDE DEF a, b
<1>3. \A i \in 1..Len(a) : a[i] = b[i]
  BY <1>1, <1>2
<1>4. a = b
  BY <1>1, <1>2, <1>3, SeqEqual
<1> QED BY <1>4 DEF a, b

\* The first elements of a sequence with one more, and of its own first ones.
LEMMA FirstOfMore ==
    ASSUME NEW S, NEW s \in Seq(S), NEW n \in Nat, n <= Len(s)
    PROVE  /\ \A e \in S : SubSeq(Append(s, e), 1, n) = SubSeq(s, 1, n)
           /\ \A k \in 0..n : SubSeq(SubSeq(s, 1, n), 1, k) = SubSeq(s, 1, k)
<1>1. Len(s) \in Nat
  BY LenProperties
<1>2. ASSUME NEW e \in S PROVE SubSeq(Append(s, e), 1, n) = SubSeq(s, 1, n)
  <2> DEFINE t == Append(s, e)
  <2>1. t \in Seq(S) /\ Len(t) = Len(s) + 1 /\ \A i \in 1..Len(s) : t[i] = s[i]
    BY AppendProperties
  <2> HIDE DEF t
  <2>2. n <= Len(t) /\ \A i \in 1..n : i \in 1..Len(s)
    BY <1>1, <2>1
  <2>3. SubSeq(t, 1, n) = SubSeq(s, 1, n)
    BY <2>1, <2>2, FirstSame
  <2> QED BY <2>3 DEF t
<1>3. ASSUME NEW k \in 0..n PROVE SubSeq(SubSeq(s, 1, n), 1, k) = SubSeq(s, 1, k)
  <2> DEFINE t == SubSeq(s, 1, n)
  <2>1. t \in Seq(S) /\ Len(t) = n /\ \A i \in 1..n : t[i] = s[i]
    BY FirstOf
  <2> HIDE DEF t
  <2>2. k \in Nat /\ k <= Len(s) /\ k <= Len(t) /\ \A i \in 1..k : i \in 1..n
    BY <1>1, <2>1
  <2>3. SubSeq(t, 1, k) = SubSeq(s, 1, k)
    BY <2>1, <2>2, FirstSame
  <2> QED BY <2>3 DEF t
<1> QED BY <1>2, <1>3

\* One element more.
LEMMA ToSetAppend ==
    ASSUME NEW X, NEW s \in Seq(X), NEW e \in X
    PROVE  ToSet(Append(s, e)) = ToSet(s) \cup {e}
<1> DEFINE t == Append(s, e)
<1> DEFINE n == Len(s)
<1>1. /\ n \in Nat /\ t \in Seq(X) /\ Len(t) = n + 1
      /\ \A k \in 1..n : t[k] = s[k]
      /\ t[n + 1] = e
  BY AppendProperties
<1> HIDE DEF t
<1>2. ToSet(s) = {s[k] : k \in 1..n} /\ ToSet(t) = {t[k] : k \in 1..(n + 1)}
  BY <1>1, LenProperties DEF ToSet
<1> HIDE DEF n
<1>3. \A x \in ToSet(t) : x \in ToSet(s) \cup {e}
  <2> SUFFICES ASSUME NEW k \in 1..(n + 1) PROVE t[k] \in ToSet(s) \cup {e}
    BY <1>2
  <2>1. k \in 1..n \/ k = n + 1
    BY <1>1
  <2> QED BY <1>1, <1>2, <2>1
<1>4. \A x \in ToSet(s) : x \in ToSet(t)
  <2> SUFFICES ASSUME NEW k \in 1..n PROVE s[k] \in ToSet(t)
    BY <1>2
  <2>1. k \in 1..(n + 1)
    BY <1>1
  <2> QED BY <1>1, <1>2, <2>1
<1>5. e \in ToSet(t)
  <2>1. n + 1 \in 1..(n + 1)
    BY <1>1
  <2> QED BY <1>1, <1>2, <2>1
<1> QED BY <1>3, <1>4, <1>5 DEF t

\* `r` is the fold of `s`; and so it is the last value of a function that
\* takes one element after the other.  (Both name the fold's operator, so that
\* the lemma can be cited for any.)
FoldIs(r, op(_, _), base, s) == r = FoldLeft(op, base, s)
FoldSteps(r, op(_, _), base, s) ==
    \E g : g[0] = base /\ (\A k \in 1..Len(s) : g[k] = op(g[k - 1], s[k])) /\ r = g[Len(s)]

\* A fold over a sequence takes its elements in order.
LEMMA FoldLeftSteps ==
    ASSUME NEW op(_, _), NEW r, NEW base, NEW S, NEW s \in Seq(S), FoldIs(r, op, base, s)
    PROVE  FoldSteps(r, op, base, s)
<1> DEFINE n == Len(s)
<1> DEFINE D == 1..n
<1> DEFINE Def(g, T) == IF T = {} THEN base ELSE op(g[T \ {Max(T)}], s[Max(T)])
<1> DEFINE iter == CHOOSE g : g = [T \in SUBSET D |-> Def(g, T)]
<1>1. n \in Nat /\ DOMAIN s = D
  BY LenProperties
<1>2. r = iter[D]
  BY <1>1 DEF FoldIs, FoldLeft, MapThenFoldSet
<1> HIDE DEF n
<1>3. IsFiniteSet(D)
  BY <1>1, FinitePositions
<1>4. IsWellFoundedOn(StrictSubsetOrdering(D), SUBSET D)
  BY <1>3, SubsetOrderWellFounded
<1>5. WFDefOn(StrictSubsetOrdering(D), SUBSET D, Def)
  <2> SUFFICES ASSUME NEW g, NEW h, NEW T \in SUBSET D,
                      \A U \in SetLessThan(T, StrictSubsetOrdering(D), SUBSET D) : g[U] = h[U]
               PROVE  Def(g, T) = Def(h, T)
    BY DEF WFDefOn
  <2>1. CASE T # {}
    <3>1. Max(T) \in T
      <4>1. T \in SUBSET (0..n)
        BY <1>1
      <4> QED BY <1>1, <2>1, <4>1, MaxOfNumbers
    <3>2. T \ {Max(T)} \in SetLessThan(T, StrictSubsetOrdering(D), SUBSET D)
      BY <3>1 DEF SetLessThan, StrictSubsetOrdering
    <3> QED BY <2>1, <3>2
  <2> QED BY <2>1
<1>6. OpDefinesFcn(iter, SUBSET D, Def)
  BY DEF OpDefinesFcn
<1> HIDE DEF iter
<1>7. WFInductiveDefines(iter, SUBSET D, Def)
  BY <1>4, <1>5, <1>6, WFInductiveDef
<1>8. iter = [T \in SUBSET D |-> Def(iter, T)]
  BY <1>7 DEF WFInductiveDefines
<1> DEFINE g == [k \in 0..n |-> iter[1..k]]
<1>9. g[0] = base
  <2>1. 1..0 = {} /\ 0 \in 0..n
    BY <1>1
  <2>2. iter[{}] = base
    BY <1>8
  <2> QED BY <2>1, <2>2
<1>10. ASSUME NEW k \in 1..n PROVE g[k] = op(g[k - 1], s[k])
  <2> DEFINE T == 1..k
  <2>1. T \in SUBSET D /\ T # {} /\ k \in T /\ k \in 0..n /\ k - 1 \in 0..n
    BY <1>1
  <2>2. Max(T) = k
    <3>1. Max(T) \in T /\ \A j \in T : j <= Max(T)
      <4>1. T \in SUBSET (0..n)
        BY <1>1
      <4> HIDE DEF T
      <4> QED BY <1>1, <2>1, <4>1, MaxOfNumbers
    <3> QED BY <2>1, <3>1
  <2>3. T \ {k} = 1..(k - 1)
    BY <1>1
  <2>4. iter[T] = Def(iter, T)
    BY <1>8, <2>1
  <2>5. iter[1..k] = op(iter[1..(k - 1)], s[k])
    BY <2>1, <2>2, <2>3, <2>4
  <2> QED BY <2>1, <2>5
<1>11. r = g[n]
  BY <1>1, <1>2
<1> HIDE DEF g
<1> QED BY <1>9, <1>10, <1>11 DEF FoldSteps, n

\* `q` is a fold's next value after `r`.
FoldAdds(q, op(_, _), r, e) == q = op(r, e)

\* A fold over one more element.
LEMMA FoldLeftAppend ==
    ASSUME NEW op(_, _), NEW q, NEW r, NEW base, NEW S, NEW s \in Seq(S), NEW e \in S,
           FoldIs(r, op, base, s), FoldIs(q, op, base, Append(s, e))
    PROVE  FoldAdds(q, op, r, e)
<1> DEFINE t == Append(s, e)
<1> DEFINE n == Len(s)
<1>1. /\ t \in Seq(S) /\ Len(t) = n + 1 /\ n \in Nat
      /\ \A k \in 1..n : t[k] = s[k]
      /\ t[n + 1] = e
  BY AppendProperties
<1>2. FoldSteps(r, op, base, s)
  BY FoldLeftSteps
<1>3. FoldSteps(q, op, base, t)
  BY <1>1, FoldLeftSteps
<1> HIDE DEF t
<1>4. PICK g : g[0] = base /\ (\A k \in 1..n : g[k] = op(g[k - 1], s[k])) /\ r = g[n]
  BY <1>2 DEF FoldSteps
<1>5. PICK h : h[0] = base /\ (\A k \in 1..(n + 1) : h[k] = op(h[k - 1], t[k])) /\ q = h[n + 1]
  BY <1>1, <1>3 DEF FoldSteps
<1> HIDE DEF n
<1> DEFINE T == {k \in Nat : k <= n => g[k] = h[k]}
<1>6. 0 \in T
  BY <1>4, <1>5
<1>7. ASSUME NEW k \in Nat, k \in T PROVE k + 1 \in T
  <2> SUFFICES ASSUME k + 1 <= n PROVE g[k + 1] = h[k + 1]
    OBVIOUS
  <2>1. k + 1 \in 1..n /\ k + 1 \in 1..(n + 1) /\ (k + 1) - 1 = k /\ k <= n
    <3>1. n \in Nat
      BY <1>1
    <3> HIDE DEF T
    <3> QED BY <3>1
  <2>2. g[k] = h[k]
    BY <1>7, <2>1
  <2>3. g[k + 1] = op(g[k], s[k + 1])
    BY <1>4, <2>1
  <2>4. h[k + 1] = op(h[k], t[k + 1])
    BY <1>5, <2>1
  <2> QED BY <1>1, <2>1, <2>2, <2>3, <2>4
<1> HIDE DEF T
<1>8. Nat \subseteq T
  BY <1>6, <1>7, SetInduction
<1>9. g[n] = h[n]
  BY <1>1, <1>8 DEF T
<1>10. n + 1 \in 1..(n + 1) /\ (n + 1) - 1 = n
  BY <1>1
<1>11. h[n + 1] = op(h[n], t[n + 1])
  BY <1>5, <1>10
<1> QED BY <1>1, <1>4, <1>5, <1>9, <1>11 DEF FoldAdds
=============================================================================
