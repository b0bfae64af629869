--------------------- MODULE PoolFollowerClaimsProofs ----------------------
(***************************************************************************)
(* Proofs about Mempool, Follower and Claims, for any number of senders,   *)
(* transactions, blocks, losses, rollbacks and crashes: the invariants     *)
(* that DemoProofs' theorems about them rest on.                           *)
(*                                                                         *)
(* The pool's candidates are put in order by counting: how many arrived    *)
(* before, and how many of the same sender have a lower nonce.             *)
(*                                                                         *)
(* The follower's tells three times of it apart: it saw all that L1 did    *)
(* since it started (InStep), L1 lost blocks that its database tells       *)
(* (LeftBehind), and it came back to L1's chain (WentOn).                  *)
(***************************************************************************)
EXTENDS Mempool, Follower, Claims, InductionLemmas, NaturalsInduction, SequenceTheorems

-----------------------------------------------------------------------------
(* The pool: transactions that do not get in each other's way              *)

\* Two transactions that may both be pending.
Compatible(t, u) == ~SameNonce(t, u) /\ (t.frames /\ u.frames => t.claim # u.claim)

\* No two of the transactions are at odds, and none is behind the state.
Apart(p) == \A i, j \in 1..Len(p) : i # j => Compatible(p[i], p[j])
Ahead(p, st) == \A i \in 1..Len(p) : p[i].nonce >= st.nonce[p[i].sender]

\* What may be pending with one may be pending with the other.
LEMMA CompatibleBothWays == ASSUME NEW t, NEW u, Compatible(t, u) PROVE Compatible(u, t)
BY DEF Compatible, SameNonce

\* One more transaction that is at odds with none.
LEMMA ApartAppend ==
    ASSUME NEW X, NEW p \in Seq(X), NEW t \in X, Apart(p),
           \A i \in 1..Len(p) : Compatible(p[i], t)
    PROVE  Append(p, t) \in Seq(X) /\ Apart(Append(p, t))
<1> DEFINE q == Append(p, t)
<1>1. /\ q \in Seq(X) /\ Len(q) = Len(p) + 1 /\ Len(p) \in Nat
      /\ \A i \in 1..Len(p) : q[i] = p[i]
      /\ q[Len(p) + 1] = t
  BY AppendProperties
<1> HIDE DEF q
<1>2. ASSUME NEW i \in 1..Len(q), NEW j \in 1..Len(q), i # j PROVE Compatible(q[i], q[j])
  <2>1. CASE i \in 1..Len(p) /\ j \in 1..Len(p)
    BY <1>1, <1>2, <2>1 DEF Apart
  <2>2. CASE i \in 1..Len(p) /\ j = Len(p) + 1
    BY <1>1, <2>2
  <2>3. CASE i = Len(p) + 1 /\ j \in 1..Len(p)
    BY <1>1, <2>3, CompatibleBothWays
  <2> QED BY <1>1, <1>2, <2>1, <2>2, <2>3
<1> QED BY <1>1, <1>2 DEF Apart, q

\* The transactions kept are of the pool and in `keep`, and as far apart.
LEMMA KeptIsApart ==
    ASSUME NEW X, NEW p \in Seq(X), NEW keep, Apart(p)
    PROVE  /\ Kept(p, keep) \in Seq(X)
           /\ Apart(Kept(p, keep))
           /\ \A i \in 1..Len(Kept(p, keep)) : Kept(p, keep)[i] \in keep
<1> DEFINE op(s, t) == IF t \in keep THEN Append(s, t) ELSE s
<1> DEFINE r == Kept(p, keep)
<1>1. FoldIs(r, op, <<>>, p)
  BY DEF FoldIs, Kept
<1>2. FoldSteps(r, op, <<>>, p)
  BY <1>1, FoldLeftSteps
<1> HIDE DEF r
<1>3. PICK g : /\ g[0] = <<>>
               /\ \A k \in 1..Len(p) : g[k] = IF p[k] \in keep THEN Append(g[k - 1], p[k]) ELSE g[k - 1]
               /\ r = g[Len(p)]
  BY <1>2 DEF FoldSteps
<1> DEFINE From(s, k) == \A i \in 1..Len(s) : s[i] \in keep /\ \E m \in 1..k : s[i] = p[m]
<1> DEFINE Good(k) == k <= Len(p) => g[k] \in Seq(X) /\ Apart(g[k]) /\ From(g[k], k)
<1> DEFINE T == {k \in Nat : Good(k)}
<1>4. Good(0)
  <2>1. <<>> \in Seq(X) /\ Len(<<>>) = 0
    BY EmptySeq
  <2> QED BY <1>3, <2>1 DEF Apart
<1>5. ASSUME NEW k \in Nat, Good(k) PROVE Good(k + 1)
  <2> SUFFICES ASSUME k + 1 <= Len(p)
               PROVE  g[k + 1] \in Seq(X) /\ Apart(g[k + 1]) /\ From(g[k + 1], k + 1)
    OBVIOUS
  <2> DEFINE s == g[k]
  <2> DEFINE t == p[k + 1]
  <2>1. Len(p) \in Nat /\ k + 1 \in 1..Len(p) /\ (k + 1) - 1 = k
    OBVIOUS
  <2>2. g[k + 1] = IF t \in keep THEN Append(s, t) ELSE s
    BY <1>3, <2>1
  <2>3. s \in Seq(X) /\ Apart(s) /\ From(s, k) /\ t \in X
    BY <1>5, <2>1, ElementOfSeq
  <2> HIDE DEF s
  <2>4. From(s, k + 1)
    BY <2>1, <2>3
  <2>5. CASE t \in keep
    <3>1. ASSUME NEW i \in 1..Len(s) PROVE Compatible(s[i], t)
      <4>1. PICK m \in 1..k : s[i] = p[m]
        BY <2>3
      <4>2. m \in 1..Len(p) /\ m # k + 1
        BY <2>1
      <4> QED BY <2>1, <4>1, <4>2 DEF Apart
    <3>2. Append(s, t) \in Seq(X) /\ Apart(Append(s, t))
      BY <2>3, <3>1, ApartAppend
    <3>3. /\ Len(Append(s, t)) = Len(s) + 1 /\ Len(s) \in Nat
          /\ \A i \in 1..Len(s) : Append(s, t)[i] = s[i]
          /\ Append(s, t)[Len(s) + 1] = t
      BY <2>3, AppendProperties
    <3>4. From(Append(s, t), k + 1)
      <4> SUFFICES ASSUME NEW i \in 1..Len(Append(s, t))
                   PROVE  Append(s, t)[i] \in keep /\ \E m \in 1..(k + 1) : Append(s, t)[i] = p[m]
        OBVIOUS
      <4>1. CASE i = Len(s) + 1
        <5>1. k + 1 \in 1..(k + 1)
          OBVIOUS
        <5> QED BY <2>5, <3>3, <4>1, <5>1
      <4>2. CASE i \in 1..Len(s)
        BY <2>4, <3>3, <4>2
      <4> QED BY <3>3, <4>1, <4>2
    <3> QED BY <2>2, <2>5, <3>2, <3>4
  <2>6. CASE t \notin keep
    BY <2>2, <2>3, <2>4, <2>6
  <2> QED BY <2>5, <2>6
<1> HIDE DEF Good
<1>6. 0 \in T /\ \A k \in Nat : k \in T => k + 1 \in T
  BY <1>4, <1>5
<1> HIDE DEF T
<1>7. Nat \subseteq T
  BY <1>6, SetInduction
<1>8. Len(p) \in Nat
  OBVIOUS
<1>9. Good(Len(p))
  BY <1>7, <1>8 DEF T
<1> QED BY <1>3, <1>8, <1>9 DEF Good, r

\* A transaction that the pool takes is at odds with none that stay, and not
\* behind the state.
LEMMA SendKeepsApart ==
    ASSUME NEW X, NEW p \in Seq(X), NEW st, NEW t \in X, Apart(p), Ahead(p, st)
    PROVE  Send(p, st, t) \in Seq(X) /\ Apart(Send(p, st, t)) /\ Ahead(Send(p, st, t), st)
<1>1. CASE ~Accepts(p, st, t)
  BY <1>1 DEF Send
<1>2. CASE Accepts(p, st, t)
  <2> DEFINE keep == {u \in ToSet(p) : ~SameNonce(u, t)}
  <2> DEFINE q == Kept(p, keep)
  <2>1. q \in Seq(X) /\ Apart(q) /\ \A i \in 1..Len(q) : q[i] \in keep
    BY KeptIsApart
  <2>2. Send(p, st, t) = Append(q, t)
    BY <1>2 DEF Send
  <2>3. \A u \in keep : ~SameNonce(u, t) /\ u \in ToSet(p)
    OBVIOUS
  <2>4. DOMAIN p = 1..Len(p)
    BY LenProperties
  <2> HIDE DEF keep, q
  <2>5. ASSUME NEW i \in 1..Len(q) PROVE Compatible(q[i], t) /\ q[i].nonce >= st.nonce[q[i].sender]
    <3>1. q[i] \in ToSet(p) /\ ~SameNonce(q[i], t)
      BY <2>1, <2>3
    <3>2. t.frames => \A u \in ToSet(p) : u.frames /\ u.claim = t.claim => SameNonce(u, t)
      BY <1>2 DEF Accepts, OnlyClaim
    <3>3. PICK m \in 1..Len(p) : q[i] = p[m]
      BY <2>4, <3>1 DEF ToSet
    <3> QED BY <3>1, <3>2, <3>3 DEF Compatible, Ahead
  <2>6. Append(q, t) \in Seq(X) /\ Apart(Append(q, t))
    BY <2>1, <2>5, ApartAppend
  <2>7. /\ Len(Append(q, t)) = Len(q) + 1 /\ Len(q) \in Nat
        /\ \A i \in 1..Len(q) : Append(q, t)[i] = q[i]
        /\ Append(q, t)[Len(q) + 1] = t
    BY <2>1, AppendProperties
  <2>8. t.nonce >= st.nonce[t.sender]
    BY <1>2 DEF Accepts
  <2>9. Ahead(Append(q, t), st)
    <3> SUFFICES ASSUME NEW i \in 1..Len(Append(q, t))
                 PROVE  Append(q, t)[i].nonce >= st.nonce[Append(q, t)[i].sender]
      BY DEF Ahead
    <3>1. CASE i = Len(q) + 1
      BY <2>7, <2>8, <3>1
    <3>2. CASE i \in 1..Len(q)
      BY <2>5, <2>7, <3>2
    <3> QED BY <2>7, <3>1, <3>2
  <2> QED BY <2>2, <2>6, <2>9
<1> QED BY <1>1, <1>2

\* So is a pool that a node builds from transactions it is offered.
LEMMA RepooledApart ==
    ASSUME NEW X, NEW txs \in Seq(X), NEW st
    PROVE  /\ Repooled(st, txs) \in Seq(X)
           /\ Apart(Repooled(st, txs)) /\ Ahead(Repooled(st, txs), st)
<1> DEFINE op(p, t) == Send(p, st, t)
<1> DEFINE r == Repooled(st, txs)
<1>1. FoldIs(r, op, <<>>, txs)
  BY DEF FoldIs, Repooled
<1>2. FoldSteps(r, op, <<>>, txs)
  BY <1>1, FoldLeftSteps
<1> HIDE DEF r
<1>3. PICK g : /\ g[0] = <<>>
               /\ \A k \in 1..Len(txs) : g[k] = Send(g[k - 1], st, txs[k])
               /\ r = g[Len(txs)]
  BY <1>2 DEF FoldSteps
<1> DEFINE Good(k) == k <= Len(txs) => g[k] \in Seq(X) /\ Apart(g[k]) /\ Ahead(g[k], st)
<1> DEFINE T == {k \in Nat : Good(k)}
<1>4. Good(0)
  <2>1. <<>> \in Seq(X) /\ Len(<<>>) = 0
    BY EmptySeq
  <2> QED BY <1>3, <2>1 DEF Apart, Ahead
<1>5. ASSUME NEW k \in Nat, Good(k) PROVE Good(k + 1)
  <2> SUFFICES ASSUME k + 1 <= Len(txs)
               PROVE  g[k + 1] \in Seq(X) /\ Apart(g[k + 1]) /\ Ahead(g[k + 1], st)
    OBVIOUS
  <2>1. Len(txs) \in Nat /\ k + 1 \in 1..Len(txs) /\ (k + 1) - 1 = k
    OBVIOUS
  <2>2. g[k + 1] = Send(g[k], st, txs[k + 1])
    BY <1>3, <2>1
  <2>3. g[k] \in Seq(X) /\ Apart(g[k]) /\ Ahead(g[k], st) /\ txs[k + 1] \in X
    BY <1>5, <2>1, ElementOfSeq
  <2> QED BY <2>2, <2>3, SendKeepsApart
<1> HIDE DEF Good
<1>6. 0 \in T /\ \A k \in Nat : k \in T => k + 1 \in T
  BY <1>4, <1>5
<1> HIDE DEF T
<1>7. Nat \subseteq T
  BY <1>6, SetInduction
<1>8. Len(txs) \in Nat
  OBVIOUS
<1>9. Good(Len(txs))
  BY <1>7, <1>8 DEF T
<1> QED BY <1>3, <1>8, <1>9 DEF Good, r

\* The function behind FlattenSeq, and one that the library's theorem about
\* recursive functions on intervals applies to.
FlatWalk(ss) == CHOOSE g : g = [i \in 1..Len(ss) |-> IF i = 1 THEN ss[i] ELSE g[i - 1] \o ss[i]]
FlatFrom(c, ss) == CHOOSE g : g = [i \in 1..Len(ss) |-> IF i = 1 THEN c ELSE g[i - 1] \o ss[i]]

\* What is in sequences one after the other, by their number.
FlatSteps(r, ss) ==
    \E g : g[0] = <<>> /\ (\A k \in 1..Len(ss) : g[k] = g[k - 1] \o ss[k]) /\ r = g[Len(ss)]

\* Sequences one after the other.
LEMMA FlatIs ==
    ASSUME NEW X, NEW ss \in Seq(Seq(X))
    PROVE  FlatSteps(FlattenSeq(ss), ss)
<1>1. Len(ss) \in Nat /\ \A i \in 1..Len(ss) : ss[i] \in Seq(X)
  BY ElementOfSeq
<1> DEFINE n == Len(ss)
<1>2. CASE n = 0
  <2>1. ss = <<>>
    BY <1>2, EmptySeq
  <2>2. FlattenSeq(ss) = ss
    BY <1>2 DEF FlattenSeq
  <2> DEFINE g == [k \in {0} |-> <<>>]
  <2>3. g[0] = <<>> /\ \A k \in 1..n : g[k] = g[k - 1] \o ss[k]
    BY <1>2
  <2>4. FlattenSeq(ss) = g[Len(ss)]
    BY <1>2, <2>1, <2>2
  <2> HIDE DEF g
  <2> QED BY <2>3, <2>4 DEF FlatSteps
<1>3. CASE n # 0
  <2> DEFINE c == ss[1]
  <2> DEFINE Def(v, i) == v \o ss[i]
  <2> DEFINE f == FlatFrom(c, ss)
  <2> DEFINE g == FlatWalk(ss)
  <2>1. FiniteNatInductiveDefHypothesis(f, c, Def, 1, n)
    BY DEF FiniteNatInductiveDefHypothesis, FlatFrom
  <2>2. FiniteNatInductiveDefConclusion(f, c, Def, 1, n)
    BY <1>1, <2>1, FiniteNatInductiveDef
  <2> HIDE DEF f
  <2>3. f = [i \in 1..n |-> IF i = 1 THEN c ELSE f[i - 1] \o ss[i]]
    BY <2>2 DEF FiniteNatInductiveDefConclusion
  <2>4. f = [i \in 1..n |-> IF i = 1 THEN ss[i] ELSE f[i - 1] \o ss[i]]
    BY <2>3
  <2>5. g = [i \in 1..n |-> IF i = 1 THEN ss[i] ELSE g[i - 1] \o ss[i]]
    BY <2>4 DEF FlatWalk
  <2>6. FlattenSeq(ss) = g[n]
    BY <1>3 DEF FlattenSeq, FlatWalk
  <2> HIDE DEF g
  <2> DEFINE h == [k \in 0..n |-> IF k = 0 THEN <<>> ELSE g[k]]
  <2>7. h[0] = <<>> /\ h[n] = g[n]
    BY <1>1, <1>3
  <2>8. ASSUME NEW k \in 1..n PROVE h[k] = h[k - 1] \o ss[k]
    <3>1. CASE k = 1
      <4>1. h[1] = ss[1] /\ h[0] = <<>>
        BY <1>1, <2>5, <3>1
      <4>2. <<>> \o ss[1] = ss[1]
        BY <1>1, <3>1, ConcatEmptySeq
      <4> HIDE DEF h
      <4>3. k - 1 = 0 /\ h[1] = h[0] \o ss[1]
        BY <3>1, <4>1, <4>2
      <4> QED BY <3>1, <4>3
    <3>2. CASE k # 1
      <4>1. k - 1 \in 0..n /\ k - 1 # 0 /\ k \in 0..n /\ k # 0
        BY <1>1, <3>2
      <4>2. h[k] = g[k] /\ h[k - 1] = g[k - 1]
        BY <4>1
      <4>3. g[k] = g[k - 1] \o ss[k]
        BY <2>5, <3>2
      <4> QED BY <4>2, <4>3
    <3> QED BY <3>1, <3>2
  <2> HIDE DEF h
  <2> QED BY <2>6, <2>7, <2>8 DEF FlatSteps
<1> QED BY <1>2, <1>3

\* Sequences one after the other are a sequence.
LEMMA FlatIsSeq ==
    ASSUME NEW X, NEW ss \in Seq(Seq(X))
    PROVE  FlattenSeq(ss) \in Seq(X)
<1> DEFINE n == Len(ss)
<1>1. n \in Nat /\ \A i \in 1..n : ss[i] \in Seq(X)
  BY ElementOfSeq
<1>2. PICK g : g[0] = <<>> /\ (\A k \in 1..n : g[k] = g[k - 1] \o ss[k]) /\ FlattenSeq(ss) = g[n]
  BY FlatIs DEF FlatSteps
<1> HIDE DEF n
<1> DEFINE T == {k \in Nat : k <= n => g[k] \in Seq(X)}
<1>3. 0 \in T
  BY <1>2, EmptySeq
<1>4. ASSUME NEW k \in Nat, k \in T PROVE k + 1 \in T
  <2> SUFFICES ASSUME k + 1 <= n PROVE g[k + 1] \in Seq(X)
    OBVIOUS
  <2>1. k + 1 \in 1..n /\ (k + 1) - 1 = k /\ k <= n
    BY <1>1
  <2>2. g[k] \in Seq(X) /\ ss[k + 1] \in Seq(X)
    BY <1>1, <1>4, <2>1
  <2>3. g[k + 1] = g[k] \o ss[k + 1]
    BY <1>2, <2>1
  <2> QED BY <2>2, <2>3, ConcatProperties
<1> HIDE DEF T
<1>5. Nat \subseteq T
  BY <1>3, <1>4, SetInduction
<1> QED BY <1>1, <1>2, <1>5 DEF T

-----------------------------------------------------------------------------
(* The pool: the order of a block's candidates                             *)

\* The rank of each element of a finite set, by the number it has: there is
\* one of each rank, and who has the greater number has the greater rank.
Ranked(S, v, rank) ==
    /\ \A x \in S : rank[x] \in 1..Cardinality(S)
    /\ \A x, y \in S : v[x] < v[y] => rank[x] < rank[y]
    /\ \A m \in 1..Cardinality(S) : \E x \in S : rank[x] = m
NumberedApart(S, v) == v \in [S -> Nat] /\ \A x, y \in S : v[x] = v[y] => x = y
RankOf(S, v) == [x \in S |-> Cardinality({y \in S : v[y] <= v[x]})]

\* Counting the elements up to one gives its rank.
LEMMA RanksAre ==
    ASSUME NEW S, IsFiniteSet(S), NEW v, NumberedApart(S, v)
    PROVE  Ranked(S, v, RankOf(S, v))
<1> DEFINE upTo(x) == {y \in S : v[y] <= v[x]}
<1> DEFINE rank == RankOf(S, v)
<1> DEFINE n == Cardinality(S)
<1>1. n \in Nat /\ v \in [S -> Nat] /\ \A x, y \in S : v[x] = v[y] => x = y
  BY FS_CardinalityType DEF NumberedApart
<1>2. \A x \in S : rank[x] = Cardinality(upTo(x))
  BY DEF RankOf
<1>3. \A x \in S : v[x] \in Nat
  BY <1>1
<1>4. ASSUME NEW x \in S
      PROVE  IsFiniteSet(upTo(x)) /\ Cardinality(upTo(x)) \in 1..n
  <2>1. upTo(x) \in SUBSET S /\ x \in upTo(x)
    BY <1>3
  <2>2. IsFiniteSet(upTo(x)) /\ Cardinality(upTo(x)) <= n
    BY <2>1, FS_Subset
  <2>3. Cardinality(upTo(x)) \in Nat /\ Cardinality(upTo(x)) # 0
    BY <2>1, <2>2, FS_CardinalityType, FS_EmptySet
  <2> QED BY <1>1, <2>2, <2>3
<1>5. ASSUME NEW x \in S, NEW y \in S, v[x] < v[y]
      PROVE  Cardinality(upTo(x)) < Cardinality(upTo(y))
  <2>1. upTo(x) \in SUBSET upTo(y) /\ y \in upTo(y) /\ y \notin upTo(x)
    BY <1>3, <1>5
  <2>2. Cardinality(upTo(x)) <= Cardinality(upTo(y)) /\ Cardinality(upTo(y)) # Cardinality(upTo(x))
    BY <1>4, <2>1, FS_Subset
  <2>3. Cardinality(upTo(x)) \in Nat /\ Cardinality(upTo(y)) \in Nat
    BY <1>1, <1>4
  <2> QED BY <2>2, <2>3
<1> HIDE DEF upTo, n
<1>6. \A x \in S : rank[x] \in 1..n
  BY <1>2, <1>4
<1>7. \A x, y \in S : v[x] < v[y] => rank[x] < rank[y]
  BY <1>2, <1>5
<1>8. \A x, y \in S : rank[x] = rank[y] => x = y
  <2> SUFFICES ASSUME NEW x \in S, NEW y \in S, rank[x] = rank[y], x # y PROVE FALSE
    OBVIOUS
  <2>1. v[x] < v[y] \/ v[y] < v[x]
    BY <1>1, <1>3
  <2>2. rank[x] \in 1..n /\ rank[y] \in 1..n
    BY <1>6
  <2>3. ~(rank[x] < rank[y]) /\ ~(rank[y] < rank[x])
    BY <1>1, <2>2
  <2> QED BY <1>7, <2>1, <2>3
<1>9. rank \in Injection(S, 1..n)
  <2>1. rank \in [S -> 1..n]
    BY <1>6 DEF RankOf
  <2> QED BY <1>8, <2>1 DEF Injection, IsInjective
<1>10. IsFiniteSet(1..n) /\ Cardinality(1..n) = n
  <2>1. 1 \in Int /\ n \in Int
    BY <1>1
  <2>2. IsFiniteSet(1..n) /\ Cardinality(1..n) = IF 1 > n THEN 0 ELSE n - 1 + 1
    BY <2>1, FS_Interval
  <2>3. (IF 1 > n THEN 0 ELSE n - 1 + 1) = n
    BY <1>1
  <2> QED BY <2>2, <2>3
<1>11. rank \in Surjection(S, 1..n)
  <2>1. n = Cardinality(S)
    BY DEF n
  <2> QED BY <1>9, <1>10, <2>1, FS_Injection
<1>12. \A m \in 1..n : \E x \in S : rank[x] = m
  BY <1>11 DEF Surjection
<1> QED BY <1>6, <1>7, <1>12 DEF Ranked, n

\* The places and the transactions of one sender: as many, and each ranked.
PlacesOf(s) == {i \in 1..Len(pool) : pool[i].sender = s}
SentBy(s) == {u \in ToSet(pool) : u.sender = s}
PlaceOf(s) == [i \in PlacesOf(s) |-> i]
NonceOf(s) == [u \in SentBy(s) |-> u.nonce]

\* What the pool's transactions are, one per place.
LEMMA PoolPlaces ==
    ASSUME pool \in Seq(PoolTxs), Apart(pool)
    PROVE  /\ Len(pool) \in Nat
           /\ \A i \in 1..Len(pool) : pool[i] \in PoolTxs /\ pool[i] \in ToSet(pool) /\ pool[i].nonce \in Nat
           /\ \A t \in ToSet(pool) : t \in PoolTxs /\ t.nonce \in Nat /\ \E i \in 1..Len(pool) : pool[i] = t
           /\ \A i, j \in 1..Len(pool) : i # j => ~SameNonce(pool[i], pool[j])
<1>1. Len(pool) \in Nat /\ DOMAIN pool = 1..Len(pool)
  BY LenProperties
<1>2. \A i \in 1..Len(pool) : pool[i] \in PoolTxs
  BY ElementOfSeq
<1>3. \A t : t \in ToSet(pool) <=> \E i \in 1..Len(pool) : pool[i] = t
  BY <1>1 DEF ToSet
<1>4. \A t \in PoolTxs : t.nonce \in Nat
  BY DEF PoolTxs, Txs
<1>5. \A i, j \in 1..Len(pool) : i # j => ~SameNonce(pool[i], pool[j])
  BY DEF Apart, Compatible
<1> QED BY <1>1, <1>2, <1>3, <1>4, <1>5

\* They have as many places as there are of them.
LEMMA AsManyPlaces ==
    ASSUME pool \in Seq(PoolTxs), Apart(pool), NEW s
    PROVE  /\ IsFiniteSet(PlacesOf(s)) /\ IsFiniteSet(SentBy(s))
           /\ Cardinality(PlacesOf(s)) = Cardinality(SentBy(s))
           /\ NumberedApart(PlacesOf(s), PlaceOf(s)) /\ NumberedApart(SentBy(s), NonceOf(s))
<1> DEFINE P == PlacesOf(s)
<1> DEFINE T == SentBy(s)
<1> DEFINE f == [i \in P |-> pool[i]]
<1>1. IsFiniteSet(P)
  <2>1. P \in SUBSET (1..Len(pool)) /\ IsFiniteSet(1..Len(pool))
    BY PoolPlaces, FinitePositions DEF PlacesOf
  <2> QED BY <2>1, FS_Subset
<1>2. f \in [P -> T]
  BY PoolPlaces DEF PlacesOf, SentBy
<1>3. \A i, j \in P : f[i] = f[j] => i = j
  BY PoolPlaces DEF PlacesOf, SameNonce
<1>4. \A t \in T : \E i \in P : f[i] = t
  BY PoolPlaces DEF PlacesOf, SentBy
<1>5. f \in Injection(P, T) /\ f \in Surjection(P, T)
  BY <1>2, <1>3, <1>4 DEF Injection, Surjection, IsInjective
<1> HIDE DEF f
<1>6. IsFiniteSet(T) /\ Cardinality(T) = Cardinality(P)
  BY <1>1, <1>5, FS_Surjection
<1>7. NumberedApart(P, PlaceOf(s))
  BY PoolPlaces DEF NumberedApart, PlaceOf, PlacesOf
<1>8. NumberedApart(T, NonceOf(s))
  <2>1. NonceOf(s) \in [T -> Nat]
    BY PoolPlaces DEF NonceOf, SentBy
  <2>2. ASSUME NEW t \in T, NEW u \in T, t.nonce = u.nonce PROVE t = u
    <3>1. SameNonce(t, u)
      BY <2>2 DEF SentBy, SameNonce
    <3> QED BY <3>1, PoolPlaces DEF SentBy
  <2> QED BY <2>1, <2>2 DEF NumberedApart, NonceOf
<1> QED BY <1>1, <1>6, <1>7, <1>8

\* The counts of the source are the ranks.
LEMMA CountsAreRanks ==
    ASSUME pool \in Seq(PoolTxs), Apart(pool), NEW s
    PROVE  /\ \A i \in PlacesOf(s) : Earlier(i) = RankOf(PlacesOf(s), PlaceOf(s))[i]
           /\ \A t \in SentBy(s) : Below(t) = RankOf(SentBy(s), NonceOf(s))[t]
<1>1. ASSUME NEW i \in PlacesOf(s) PROVE Earlier(i) = RankOf(PlacesOf(s), PlaceOf(s))[i]
  <2>1. {j \in 1..i : pool[j].sender = pool[i].sender} = {j \in PlacesOf(s) : PlaceOf(s)[j] <= PlaceOf(s)[i]}
    BY PoolPlaces DEF PlacesOf, PlaceOf
  <2> QED BY <2>1 DEF Earlier, RankOf
<1>2. ASSUME NEW t \in SentBy(s) PROVE Below(t) = RankOf(SentBy(s), NonceOf(s))[t]
  <2>1. {u \in ToSet(pool) : u.sender = t.sender /\ u.nonce <= t.nonce} = {u \in SentBy(s) : NonceOf(s)[u] <= NonceOf(s)[t]}
    BY DEF SentBy, NonceOf
  <2> QED BY <2>1 DEF Below, RankOf
<1> QED BY <1>1, <1>2

\* The candidates are the pool, each sender's in nonce order.
InOrder(c) ==
    /\ \A i \in 1..Len(pool) : c[i] \in ToSet(pool) /\ c[i].sender = pool[i].sender
    /\ \A t \in ToSet(pool) : \E i \in 1..Len(pool) : c[i] = t
    /\ \A i, j \in 1..Len(pool) : i < j /\ c[i].sender = c[j].sender => c[i].nonce < c[j].nonce

\* They are while the pool has no more transactions than a block tries; and
\* all of them are of the pool, however many there are.
LEMMA CandidatesInOrder ==
    ASSUME pool \in Seq(PoolTxs), Apart(pool)
    PROVE  InOrder([i \in 1..Len(pool) |-> InPlaceOf(i)])
<1> DEFINE N == Len(pool)
<1>1. ASSUME NEW s
      PROVE  /\ \A i \in PlacesOf(s) : InPlaceOf(i) \in SentBy(s)
             /\ \A t \in SentBy(s) : \E i \in PlacesOf(s) : InPlaceOf(i) = t
             /\ \A i, j \in PlacesOf(s) : i < j => InPlaceOf(i).nonce < InPlaceOf(j).nonce
  <2> DEFINE P == PlacesOf(s)
  <2> DEFINE T == SentBy(s)
  <2> DEFINE n == Cardinality(P)
  <2>1. Ranked(P, PlaceOf(s), RankOf(P, PlaceOf(s))) /\ Ranked(T, NonceOf(s), RankOf(T, NonceOf(s)))
    BY AsManyPlaces, RanksAre
  <2>2. n \in Nat /\ n = Cardinality(T)
    BY AsManyPlaces, FS_CardinalityType
  <2>3. /\ \A i \in P : Earlier(i) = RankOf(P, PlaceOf(s))[i]
        /\ \A t \in T : Below(t) = RankOf(T, NonceOf(s))[t]
    BY CountsAreRanks
  <2>4. /\ \A i \in P : Earlier(i) \in 1..n
        /\ \A i, j \in P : i < j => Earlier(i) < Earlier(j)
        /\ \A m \in 1..n : \E i \in P : Earlier(i) = m
    BY <2>1, <2>3 DEF Ranked, PlaceOf
  <2>5. /\ \A t \in T : Below(t) \in 1..n
        /\ \A t, u \in T : t.nonce < u.nonce => Below(t) < Below(u)
        /\ \A m \in 1..n : \E t \in T : Below(t) = m
    BY <2>1, <2>2, <2>3 DEF Ranked, NonceOf
  <2>6. \A i \in P : i \in 1..N /\ i \in Nat /\ pool[i].sender = s
    BY PoolPlaces DEF PlacesOf
  <2>7. \A t : t \in T <=> t \in ToSet(pool) /\ t.sender = s
    BY DEF SentBy
  <2>8. \A t, u \in T : t.nonce \in Nat /\ u.nonce \in Nat /\ (t.nonce = u.nonce => t = u)
    BY AsManyPlaces, PoolPlaces, <2>7 DEF NumberedApart, NonceOf
  <2> HIDE DEF P, T, n
  <2>9. \A t, u \in T : Below(t) = Below(u) => t = u
    <3> SUFFICES ASSUME NEW t \in T, NEW u \in T, Below(t) = Below(u) PROVE t = u
      OBVIOUS
    <3>1. Below(t) \in Nat /\ Below(u) \in Nat
      BY <2>2, <2>5
    <3>2. ~(Below(t) < Below(u)) /\ ~(Below(u) < Below(t))
      BY <3>1
    <3>3. ~(t.nonce < u.nonce) /\ ~(u.nonce < t.nonce)
      BY <2>5, <3>2
    <3> QED BY <2>8, <3>3
  <2>10. ASSUME NEW i \in P PROVE InPlaceOf(i) \in T /\ Below(InPlaceOf(i)) = Earlier(i)
    <3>1. \E t \in ToSet(pool) : t.sender = pool[i].sender /\ Below(t) = Earlier(i)
      BY <2>4, <2>5, <2>6, <2>7
    <3>2. InPlaceOf(i) \in ToSet(pool) /\ InPlaceOf(i).sender = pool[i].sender /\ Below(InPlaceOf(i)) = Earlier(i)
      BY <3>1 DEF InPlaceOf
    <3> QED BY <2>6, <2>7, <3>2
  <2>11. ASSUME NEW t \in T PROVE \E i \in P : InPlaceOf(i) = t
    <3>1. PICK i \in P : Earlier(i) = Below(t)
      BY <2>4, <2>5
    <3> QED BY <2>9, <2>10, <3>1
  <2>12. ASSUME NEW i \in P, NEW j \in P, i < j PROVE InPlaceOf(i).nonce < InPlaceOf(j).nonce
    <3> DEFINE t == InPlaceOf(i)
    <3> DEFINE u == InPlaceOf(j)
    <3>1. t \in T /\ u \in T /\ Below(t) = Earlier(i) /\ Below(u) = Earlier(j) /\ Earlier(i) < Earlier(j)
      BY <2>4, <2>10, <2>12
    <3> HIDE DEF t, u
    <3>2. Below(t) \in Nat /\ Below(u) \in Nat /\ Below(t) < Below(u)
      BY <2>2, <2>5, <3>1
    <3>3. ~(u.nonce < t.nonce) /\ t # u
      BY <2>5, <3>1, <3>2
    <3>4. t.nonce < u.nonce
      BY <2>8, <3>1, <3>3
    <3> QED BY <3>4 DEF t, u
  <2> QED BY <2>10, <2>11, <2>12 DEF P, T
<1>2. \A i \in 1..N : i \in PlacesOf(pool[i].sender)
  BY DEF PlacesOf
<1>3. \A i \in 1..N : InPlaceOf(i) \in ToSet(pool) /\ InPlaceOf(i).sender = pool[i].sender
  BY <1>1, <1>2 DEF SentBy
<1>4. \A t \in ToSet(pool) : \E i \in 1..N : InPlaceOf(i) = t
  <2> SUFFICES ASSUME NEW t \in ToSet(pool) PROVE \E i \in 1..N : InPlaceOf(i) = t
    OBVIOUS
  <2>1. t \in SentBy(t.sender) /\ PlacesOf(t.sender) \subseteq 1..N
    BY DEF SentBy, PlacesOf
  <2> QED BY <1>1, <2>1
<1>5. ASSUME NEW i \in 1..N, NEW j \in 1..N, i < j, InPlaceOf(i).sender = InPlaceOf(j).sender
      PROVE  InPlaceOf(i).nonce < InPlaceOf(j).nonce
  <2>1. i \in PlacesOf(pool[j].sender) /\ j \in PlacesOf(pool[j].sender)
    BY <1>2, <1>3, <1>5
  <2> QED BY <1>1, <1>5, <2>1
<1> QED BY <1>3, <1>4, <1>5 DEF InOrder

-----------------------------------------------------------------------------
(* The pool: what a block includes                                         *)

Bodies == [txs : Seq(PoolTxs), after : States, rejected : SUBSET [tx : PoolTxs, why : {"gas", "nonce", "funds"}]]

\* A claim only adds to balances.
LEMMA WithClaimIs ==
    ASSUME NEW st \in States, NEW m
    PROVE  /\ WithClaim(st, m) \in States /\ WithClaim(st, m).nonce = st.nonce
           /\ \A s \in Senders : WithClaim(st, m).balance[s] >= st.balance[s]
<1>1. /\ st.nonce \in [Senders -> Nat] /\ st.balance \in [Senders -> Nat] /\ st.claimed \subseteq L1Messages
      /\ st = [nonce |-> st.nonce, balance |-> st.balance, claimed |-> st.claimed]
  BY DEF States
<1>2. CASE m \notin L1Messages \ st.claimed
  BY <1>1, <1>2 DEF WithClaim
<1>3. CASE m \in L1Messages \ st.claimed
  <2> DEFINE r == Recipient[m]
  <2> DEFINE bal == [st.balance EXCEPT ![r] = @ + 1]
  <2>1. r \in Senders
    BY <1>3, PoolAssumption
  <2>2. bal \in [Senders -> Nat] /\ \A s \in Senders : bal[s] >= st.balance[s]
    BY <1>1, <2>1
  <2>3. WithClaim(st, m) = [nonce |-> st.nonce, balance |-> bal, claimed |-> st.claimed \cup {m}]
    BY <1>1, <1>3 DEF WithClaim
  <2>4. st.claimed \cup {m} \subseteq L1Messages
    BY <1>1, <1>3
  <2> HIDE DEF bal
  <2> QED BY <1>1, <2>2, <2>3, <2>4 DEF States
<1> QED BY <1>2, <1>3

\* Who has funds can pay, and what a transaction costs is one of them.
LEMMA PaidIs ==
    ASSUME NEW st \in States, NEW t \in PoolTxs
    PROVE  /\ st.balance[t.sender] > 0 => CanPay(st, t)
           /\ CanPay(st, t) =>
                /\ Paid(st, t) \in States /\ Paid(st, t).nonce = [st.nonce EXCEPT ![t.sender] = @ + 1]
                /\ \A s \in Senders : s # t.sender => Paid(st, t).balance[s] >= st.balance[s]
                /\ Paid(st, t).balance[t.sender] >= st.balance[t.sender] - 1
<1> DEFINE q == t.sender
<1> DEFINE w == WithClaim(st, t.claim)
<1>1. q \in Senders
  BY DEF PoolTxs, Txs
<1>2. w \in States /\ w.nonce = st.nonce /\ \A s \in Senders : w.balance[s] >= st.balance[s]
  BY WithClaimIs
<1>3. CanPay(st, t) <=> (IF t.frames THEN w.balance[q] ELSE st.balance[q]) > 0
  BY DEF CanPay
<1>4. Paid(st, t) = [w EXCEPT !.balance[q] = @ - 1, !.nonce[q] = @ + 1]
  BY DEF Paid
<1> HIDE DEF w, q
<1>5. /\ w.nonce \in [Senders -> Nat] /\ w.balance \in [Senders -> Nat] /\ w.claimed \subseteq L1Messages
      /\ w = [nonce |-> w.nonce, balance |-> w.balance, claimed |-> w.claimed]
      /\ st.balance \in [Senders -> Nat]
  BY <1>2 DEF States
<1>6. st.balance[q] > 0 => CanPay(st, t)
  <2>1. st.balance[q] \in Nat /\ w.balance[q] \in Nat /\ w.balance[q] >= st.balance[q]
    BY <1>1, <1>2, <1>5
  <2> QED BY <1>3, <2>1
<1>7. ASSUME CanPay(st, t)
      PROVE  /\ Paid(st, t) \in States /\ Paid(st, t).nonce = [st.nonce EXCEPT ![q] = @ + 1]
             /\ \A s \in Senders : s # q => Paid(st, t).balance[s] >= st.balance[s]
             /\ Paid(st, t).balance[q] >= st.balance[q] - 1
  <2> DEFINE bal == [w.balance EXCEPT ![q] = @ - 1]
  <2> DEFINE non == [w.nonce EXCEPT ![q] = @ + 1]
  <2>1. st.balance[q] \in Nat /\ w.balance[q] \in Nat /\ w.balance[q] >= st.balance[q]
    BY <1>1, <1>2, <1>5
  <2>2. w.balance[q] > 0
    BY <1>3, <1>7, <2>1
  <2>3. bal \in [Senders -> Nat] /\ bal[q] = w.balance[q] - 1 /\ \A s \in Senders : s # q => bal[s] = w.balance[s]
    BY <1>1, <1>5, <2>1, <2>2
  <2>4. non \in [Senders -> Nat] /\ non = [st.nonce EXCEPT ![q] = @ + 1]
    BY <1>1, <1>2, <1>5
  <2>5. Paid(st, t) = [nonce |-> non, balance |-> bal, claimed |-> w.claimed]
    BY <1>4, <1>5
  <2> HIDE DEF bal, non
  <2>6. bal[q] >= st.balance[q] - 1
    BY <2>1, <2>3
  <2> QED BY <1>2, <1>5, <2>3, <2>4, <2>5, <2>6 DEF States
<1> QED BY <1>6, <1>7 DEF q

\* One transaction more of a block.
TryDoes(b, t, d) ==
    /\ d \in Bodies
    /\ \/ d.txs = b.txs /\ d.after = b.after
       \/ /\ d.txs = Append(b.txs, t) /\ t.nonce = b.after.nonce[t.sender] /\ Len(b.txs) # BlockGas
          /\ d.after.nonce = [b.after.nonce EXCEPT ![t.sender] = @ + 1]
          /\ \A s \in Senders : s # t.sender => d.after.balance[s] >= b.after.balance[s]
          /\ d.after.balance[t.sender] >= b.after.balance[t.sender] - 1
    /\ Len(b.txs) # BlockGas /\ t.nonce = b.after.nonce[t.sender] /\ b.after.balance[t.sender] > 0 =>
         d.txs = Append(b.txs, t)

\* It is rejected, or included and paid.
LEMMA TryIs ==
    ASSUME NEW b \in Bodies, NEW t \in PoolTxs
    PROVE  TryDoes(b, t, Try(b, t))
<1> DEFINE d == Try(b, t)
<1> DEFINE goes == Len(b.txs) # BlockGas /\ t.nonce = b.after.nonce[t.sender] /\ CanPay(b.after, t)
<1>1. /\ b.txs \in Seq(PoolTxs) /\ b.after \in States
      /\ b.rejected \subseteq [tx : PoolTxs, why : {"gas", "nonce", "funds"}]
      /\ b = [txs |-> b.txs, after |-> b.after, rejected |-> b.rejected]
  BY DEF Bodies
<1>2. CASE ~goes
  <2>1. PICK why \in {"gas", "nonce", "funds"} : d = [b EXCEPT !.rejected = @ \cup {[tx |-> t, why |-> why]}]
    BY <1>2 DEF Try
  <2> DEFINE more == b.rejected \cup {[tx |-> t, why |-> why]}
  <2>2. more \subseteq [tx : PoolTxs, why : {"gas", "nonce", "funds"}]
    BY <1>1
  <2>3. d = [txs |-> b.txs, after |-> b.after, rejected |-> more]
    BY <1>1, <2>1
  <2> HIDE DEF d, more
  <2>4. d \in Bodies /\ d.txs = b.txs /\ d.after = b.after
    BY <1>1, <2>2, <2>3 DEF Bodies
  <2>5. b.after.balance[t.sender] > 0 => CanPay(b.after, t)
    BY <1>1, PaidIs
  <2>6. TryDoes(b, t, d)
    BY <1>2, <2>4, <2>5 DEF TryDoes
  <2> QED BY <2>6 DEF d
<1>3. CASE goes
  <2>1. d = [b EXCEPT !.txs = Append(@, t), !.after = Paid(@, t)]
    BY <1>3 DEF Try
  <2> DEFINE txs == Append(b.txs, t)
  <2> DEFINE after == Paid(b.after, t)
  <2>2. txs \in Seq(PoolTxs)
    BY <1>1, AppendProperties
  <2>3. /\ after \in States /\ after.nonce = [b.after.nonce EXCEPT ![t.sender] = @ + 1]
        /\ \A s \in Senders : s # t.sender => after.balance[s] >= b.after.balance[s]
        /\ after.balance[t.sender] >= b.after.balance[t.sender] - 1
    BY <1>1, <1>3, PaidIs
  <2>4. d = [txs |-> txs, after |-> after, rejected |-> b.rejected]
    BY <1>1, <2>1
  <2> HIDE DEF d, after
  <2>5. d \in Bodies /\ d.txs = txs /\ d.after = after
    BY <1>1, <2>2, <2>3, <2>4 DEF Bodies
  <2>6. TryDoes(b, t, d)
    BY <1>3, <2>3, <2>5 DEF TryDoes
  <2> QED BY <2>6 DEF d
<1> QED BY <1>2, <1>3

\* A block, transaction by transaction.
ExecuteSteps(st, txs, g) ==
    /\ g[0].txs = <<>> /\ g[0].after = st
    /\ \A k \in 0..Len(txs) : g[k] \in Bodies
    /\ \A k \in 1..Len(txs) : g[k] = Try(g[k - 1], txs[k])
    /\ Execute(st, txs) = g[Len(txs)]

\* It is executed so.
LEMMA ExecuteIs ==
    ASSUME NEW st \in States, NEW txs \in Seq(PoolTxs)
    PROVE  \E g : ExecuteSteps(st, txs, g)
<1> DEFINE r == Execute(st, txs)
<1> DEFINE start == [txs |-> <<>>, after |-> st, rejected |-> {}]
<1>1. FoldIs(r, Try, start, txs)
  BY DEF FoldIs, Execute
<1>2. FoldSteps(r, Try, start, txs)
  BY <1>1, FoldLeftSteps
<1> HIDE DEF r
<1>3. PICK g : /\ g[0] = start
               /\ \A k \in 1..Len(txs) : g[k] = Try(g[k - 1], txs[k])
               /\ r = g[Len(txs)]
  BY <1>2 DEF FoldSteps
<1> DEFINE T == {k \in Nat : k <= Len(txs) => g[k] \in Bodies}
<1>4. 0 \in T
  <2>1. <<>> \in Seq(PoolTxs) /\ {} \in SUBSET [tx : PoolTxs, why : {"gas", "nonce", "funds"}]
    BY EmptySeq
  <2>2. start \in Bodies
    BY <2>1 DEF Bodies
  <2> QED BY <1>3, <2>2
<1>5. ASSUME NEW k \in Nat, k \in T PROVE k + 1 \in T
  <2> SUFFICES ASSUME k + 1 <= Len(txs) PROVE g[k + 1] \in Bodies
    OBVIOUS
  <2>1. Len(txs) \in Nat /\ k + 1 \in 1..Len(txs) /\ (k + 1) - 1 = k
    OBVIOUS
  <2>2. g[k] \in Bodies /\ txs[k + 1] \in PoolTxs /\ g[k + 1] = Try(g[k], txs[k + 1])
    BY <1>3, <1>5, <2>1, ElementOfSeq
  <2> QED BY <2>2, TryIs DEF TryDoes
<1> HIDE DEF T
<1>6. Nat \subseteq T
  BY <1>4, <1>5, SetInduction
<1>7. \A k \in 0..Len(txs) : g[k] \in Bodies
  BY <1>6 DEF T
<1>8. g[0].txs = <<>> /\ g[0].after = st
  BY <1>3
<1>9. ExecuteSteps(st, txs, g)
  BY <1>3, <1>7, <1>8 DEF ExecuteSteps, r
<1> QED BY <1>9

\* A transaction that is in a block stays in it, and a full block full.
LEMMA BlockKeeps ==
    ASSUME NEW st, NEW txs \in Seq(PoolTxs), NEW g, ExecuteSteps(st, txs, g),
           NEW t, NEW k \in 0..Len(txs), t \in ToSet(g[k].txs) \/ Len(g[k].txs) = BlockGas
    PROVE  t \in ToSet(Execute(st, txs).txs) \/ Len(Execute(st, txs).txs) = BlockGas
<1> DEFINE n == Len(txs)
<1> DEFINE In(j) == t \in ToSet(g[j].txs) \/ Len(g[j].txs) = BlockGas
<1> DEFINE T == {j \in Nat : k + j <= n => In(k + j)}
<1>1. n \in Nat /\ k \in Nat /\ k <= n
  BY LenProperties
<1>2. 0 \in T
  BY <1>1
<1>3. ASSUME NEW j \in Nat, j \in T PROVE j + 1 \in T
  <2> SUFFICES ASSUME k + (j + 1) <= n PROVE In(k + (j + 1))
    OBVIOUS
  <2> DEFINE i == k + (j + 1)
  <2>1. i \in 1..n /\ i - 1 = k + j /\ k + j <= n /\ k + j \in 0..n
    BY <1>1
  <2>2. In(k + j)
    BY <1>3, <2>1
  <2> HIDE DEF i
  <2>3. g[i - 1] \in Bodies /\ g[i] = Try(g[i - 1], txs[i]) /\ txs[i] \in PoolTxs
    BY <2>1, ElementOfSeq DEF ExecuteSteps
  <2>4. TryDoes(g[i - 1], txs[i], g[i])
    BY <2>3, TryIs
  <2>5. In(i - 1)
    BY <2>1, <2>2
  <2>6. g[i - 1].txs \in Seq(PoolTxs)
    BY <2>3 DEF Bodies
  <2>7. ToSet(Append(g[i - 1].txs, txs[i])) = ToSet(g[i - 1].txs) \cup {txs[i]}
    BY <2>3, <2>6, ToSetAppend
  <2>8. In(i)
    BY <2>4, <2>5, <2>7 DEF TryDoes
  <2> QED BY <2>8 DEF i
<1> HIDE DEF T
<1>4. Nat \subseteq T
  BY <1>2, <1>3, SetInduction
<1>5. n - k \in Nat /\ k + (n - k) = n
  BY <1>1
<1>6. k + (n - k) <= n => In(k + (n - k))
  BY <1>4, <1>5 DEF T
<1>7. In(n)
  BY <1>1, <1>5, <1>6
<1> QED BY <1>7 DEF ExecuteSteps

\* The block takes the transactions of a sender one after the other, up to
\* one that is ready.
Upcoming(c, b, t, k) ==
    LET N == b.after.nonce[t.sender]
    IN /\ N <= t.nonce /\ b.after.balance[t.sender] > t.nonce - N
       /\ \A i \in 1..k : c[i].sender = t.sender => c[i].nonce < N
       /\ \A i \in (k + 1)..Len(c) : c[i].sender = t.sender => c[i].nonce >= N
       /\ \A m \in N..t.nonce : \E i \in 1..Len(c) : c[i].sender = t.sender /\ c[i].nonce = m

\* The next one of its sender is the one with the sender's nonce.
LEMMA TakesTheNext ==
    ASSUME pool \in Seq(PoolTxs), Apart(pool), NEW c \in Seq(PoolTxs), Len(c) = Len(pool), InOrder(c),
           NEW t \in PoolTxs, NEW b \in Bodies, NEW d, NEW k \in 1..Len(c), TryDoes(b, c[k], d),
           Len(b.txs) # BlockGas, Upcoming(c, b, t, k - 1)
    PROVE  \/ Upcoming(c, d, t, k)
           \/ d.txs = Append(b.txs, c[k]) /\ c[k].sender = t.sender /\ c[k].nonce = t.nonce
<1> DEFINE s == t.sender
<1> DEFINE N == b.after.nonce[s]
<1> DEFINE B == b.after.balance[s]
<1> DEFINE L == Len(c)
<1> DEFINE u == c[k]
<1>1. /\ s \in Senders /\ t.nonce \in Nat /\ \A i \in 1..L : c[i] \in PoolTxs /\ c[i].sender \in Senders /\ c[i].nonce \in Nat
  BY ElementOfSeq DEF PoolTxs, Txs
<1>2. /\ b.after.nonce \in [Senders -> Nat] /\ b.after.balance \in [Senders -> Nat]
      /\ d.after.nonce \in [Senders -> Nat] /\ d.after.balance \in [Senders -> Nat]
  BY DEF TryDoes, Bodies, States
<1>3. N \in Nat /\ B \in Nat /\ L \in Nat
  BY <1>1, <1>2
<1>4. /\ N <= t.nonce /\ B > t.nonce - N
      /\ \A i \in 1..(k - 1) : c[i].sender = s => c[i].nonce < N
      /\ \A i \in ((k - 1) + 1)..L : c[i].sender = s => c[i].nonce >= N
      /\ \A m \in N..t.nonce : \E i \in 1..L : c[i].sender = s /\ c[i].nonce = m
  BY DEF Upcoming
<1>5. \A i, j \in 1..L : i < j /\ c[i].sender = c[j].sender => c[i].nonce < c[j].nonce
  BY DEF InOrder
<1>6. /\ \/ d.txs = b.txs /\ d.after = b.after
         \/ /\ d.txs = Append(b.txs, u)
            /\ d.after.nonce = [b.after.nonce EXCEPT ![u.sender] = @ + 1]
            /\ \A q \in Senders : q # u.sender => d.after.balance[q] >= b.after.balance[q]
            /\ d.after.balance[u.sender] >= b.after.balance[u.sender] - 1
      /\ u.nonce = b.after.nonce[u.sender] /\ b.after.balance[u.sender] > 0 => d.txs = Append(b.txs, u)
  BY DEF TryDoes
<1> HIDE DEF L, u
<1>7. k \in 1..L /\ (k - 1) + 1 = k /\ k \in k..L /\ u = c[k]
  BY <1>3 DEF L, u
<1>8. CASE u.sender # s
  <2>1. d.after.nonce[s] = N /\ d.after.balance[s] >= B
    <3>1. CASE d.after = b.after
      BY <1>3, <3>1
    <3>2. CASE d.after # b.after
      BY <1>1, <1>2, <1>6, <1>7, <1>8, <3>2
    <3> QED BY <3>1, <3>2
  <2>2. d.after.balance[s] \in Nat
    BY <1>1, <1>2
  <2> HIDE DEF N, B
  <2>3. d.after.balance[s] > t.nonce - N
    BY <1>1, <1>3, <1>4, <2>1, <2>2
  <2>4. \A i \in 1..k : c[i].sender = s => c[i].nonce < N
    <3>1. \A i \in 1..k : i \in 1..(k - 1) \/ i = k
      BY <1>7
    <3> QED BY <1>4, <1>7, <1>8, <3>1
  <2>5. \A i \in (k + 1)..L : c[i].sender = s => c[i].nonce >= N
    <3>1. \A i \in (k + 1)..L : i \in ((k - 1) + 1)..L
      BY <1>3, <1>7
    <3> QED BY <1>4, <3>1
  <2>6. Upcoming(c, d, t, k)
    BY <1>4, <2>1, <2>3, <2>4, <2>5 DEF Upcoming, L
  <2> QED BY <2>6
<1>9. CASE u.sender = s
  <2>1. u.nonce = N
    <3> HIDE DEF N
    <3>0. N \in N..t.nonce
      BY <1>1, <1>3, <1>4
    <3>1. PICK i \in 1..L : c[i].sender = s /\ c[i].nonce = N
      BY <1>4, <3>0
    <3>2. ~(i \in 1..(k - 1))
      BY <1>3, <1>4, <3>1
    <3>3. k <= i
      BY <1>7, <3>2
    <3>4. u.nonce >= N /\ u.nonce \in Nat
      BY <1>1, <1>4, <1>7, <1>9
    <3>5. k < i => u.nonce < N
      BY <1>5, <1>7, <1>9, <3>1
    <3>6. ~(k < i)
      BY <1>3, <3>4, <3>5
    <3>7. k = i
      BY <1>7, <3>3, <3>6
    <3> QED BY <1>7, <3>1, <3>7
  <2>2. B > 0
    BY <1>1, <1>3, <1>4
  <2>3. d.txs = Append(b.txs, u)
    BY <1>6, <1>9, <2>1, <2>2
  <2>4. d.txs # b.txs
    <3>1. b.txs \in Seq(PoolTxs) /\ u \in PoolTxs
      BY <1>1, <1>7 DEF Bodies
    <3>2. Len(Append(b.txs, u)) = Len(b.txs) + 1 /\ Len(b.txs) \in Nat
      BY <3>1, AppendProperties
    <3>3. Len(Append(b.txs, u)) # Len(b.txs)
      BY <3>2
    <3> QED BY <2>3, <3>3
  <2>5. d.after.nonce[s] = N + 1 /\ d.after.balance[s] >= B - 1
    BY <1>1, <1>2, <1>6, <1>9, <2>4
  <2>6. d.after.balance[s] \in Nat
    BY <1>1, <1>2
  <2> HIDE DEF N, B
  <2>7. CASE N = t.nonce
    BY <1>7, <1>9, <2>1, <2>3, <2>7
  <2>8. CASE N # t.nonce
    <3> DEFINE D == d.after.balance[s]
    <3>0. D \in Nat /\ D >= B - 1 /\ t.nonce \in Nat /\ N <= t.nonce /\ B > t.nonce - N
      BY <1>1, <1>4, <2>5, <2>6
    <3> HIDE DEF D
    <3>1. N + 1 <= t.nonce /\ D > t.nonce - (N + 1)
      BY <1>3, <2>8, <3>0
    <3>2. \A i \in 1..k : c[i].sender = s => c[i].nonce < N + 1
      <4>1. \A i \in 1..k : i \in 1..(k - 1) \/ i = k
        BY <1>7
      <4>2. \A i \in 1..k : i \in 1..L
        BY <1>3, <1>7
      <4> QED BY <1>1, <1>3, <1>4, <1>7, <2>1, <4>1, <4>2
    <3>3. \A i \in (k + 1)..L : c[i].sender = s => c[i].nonce >= N + 1
      <4> SUFFICES ASSUME NEW i \in (k + 1)..L, c[i].sender = s PROVE c[i].nonce >= N + 1
        OBVIOUS
      <4>1. i \in 1..L /\ k < i
        BY <1>3, <1>7
      <4>2. u.nonce < c[i].nonce /\ c[i].nonce \in Nat
        BY <1>1, <1>5, <1>7, <1>9, <4>1
      <4> QED BY <1>3, <2>1, <4>2
    <3>4. \A m \in (N + 1)..t.nonce : \E i \in 1..L : c[i].sender = s /\ c[i].nonce = m
      <4>1. \A m \in (N + 1)..t.nonce : m \in N..t.nonce
        BY <1>1, <1>3
      <4> QED BY <1>4, <4>1
    <3>5. Upcoming(c, d, t, k)
      BY <2>5, <3>1, <3>2, <3>3, <3>4 DEF Upcoming, L, D
    <3> QED BY <3>5
  <2> QED BY <2>7, <2>8
<1> QED BY <1>8, <1>9

\* What is ready goes in.
LEMMA ReadyGoesIn ==
    ASSUME pool \in Seq(PoolTxs), Apart(pool), Ahead(pool, HeadState), HeadState \in States,
           NEW c \in Seq(PoolTxs), Len(c) = Len(pool), InOrder(c), NEW t \in ToSet(pool), Ready(t)
    PROVE  t \in ToSet(Execute(HeadState, c).txs) \/ Len(Execute(HeadState, c).txs) = BlockGas
<1> DEFINE s == t.sender
<1> DEFINE st == HeadState
<1> DEFINE L == Len(c)
<1>1. PICK g : ExecuteSteps(st, c, g)
  BY ExecuteIs
<1>2. L \in Nat /\ t \in PoolTxs /\ t.nonce \in Nat /\ s \in Senders
  BY PoolPlaces DEF PoolTxs, Txs
<1>3. PICK k \in 1..L : c[k] = t
  BY DEF InOrder
<1>4. \A j \in 1..L : /\ c[j] \in ToSet(pool) /\ c[j] \in PoolTxs
                      /\ c[j].nonce \in Nat /\ c[j].nonce >= st.nonce[c[j].sender]
  <2> SUFFICES ASSUME NEW j \in 1..L PROVE /\ c[j] \in ToSet(pool) /\ c[j] \in PoolTxs
                                            /\ c[j].nonce \in Nat /\ c[j].nonce >= st.nonce[c[j].sender]
    OBVIOUS
  <2>1. c[j] \in ToSet(pool)
    BY DEF InOrder
  <2>2. PICK i \in 1..Len(pool) : pool[i] = c[j]
    BY <2>1, PoolPlaces
  <2> QED BY <2>1, <2>2, PoolPlaces DEF Ahead
<1>5. Upcoming(c, g[0], t, 0)
  <2>1. g[0].after = st
    BY <1>1 DEF ExecuteSteps
  <2> DEFINE N == st.nonce[s]
  <2>2. N \in Nat /\ st.balance[s] > t.nonce - N
    BY <1>2 DEF Ready, States
  <2>3. N <= t.nonce
    BY <1>2, <1>3, <1>4, <2>2
  <2>4. \A m \in N..t.nonce : \E i \in 1..L : c[i].sender = s /\ c[i].nonce = m
    <3> SUFFICES ASSUME NEW m \in N..t.nonce PROVE \E i \in 1..L : c[i].sender = s /\ c[i].nonce = m
      OBVIOUS
    <3>1. PICK u \in ToSet(pool) : u.sender = s /\ u.nonce = m
      BY DEF Ready
    <3>2. PICK i \in 1..L : c[i] = u
      BY <3>1 DEF InOrder
    <3> QED BY <3>1, <3>2
  <2>5. \A i \in (0 + 1)..L : c[i].sender = s => c[i].nonce >= N
    BY <1>4
  <2>6. \A i \in 1..0 : FALSE
    OBVIOUS
  <2> HIDE DEF N
  <2>7. g[0].after.nonce[s] = N /\ g[0].after.balance[s] > t.nonce - N
    BY <2>1, <2>2 DEF N
  <2> QED BY <2>3, <2>4, <2>5, <2>6, <2>7 DEF Upcoming
<1> DEFINE Settled(j) == t \in ToSet(g[j].txs) \/ Len(g[j].txs) = BlockGas
<1> DEFINE T == {j \in Nat : j <= L => Upcoming(c, g[j], t, j) \/ \E i \in 0..L : Settled(i)}
<1>6. 0 \in T
  BY <1>5
<1>7. ASSUME NEW j \in Nat, j \in T PROVE j + 1 \in T
  <2> SUFFICES ASSUME j + 1 <= L PROVE Upcoming(c, g[j + 1], t, j + 1) \/ \E i \in 0..L : Settled(i)
    OBVIOUS
  <2> DEFINE n == j + 1
  <2>1. n \in 1..L /\ n - 1 = j /\ j \in 0..L /\ n \in 0..L /\ j <= L
    BY <1>2
  <2>2. Upcoming(c, g[j], t, j) \/ \E i \in 0..L : Settled(i)
    BY <1>7, <2>1
  <2> HIDE DEF n
  <2>3. CASE Upcoming(c, g[j], t, j) /\ ~Settled(j)
    <3>1. g[j] \in Bodies /\ g[n] = Try(g[j], c[n]) /\ c[n] \in PoolTxs
      BY <1>1, <1>4, <2>1 DEF ExecuteSteps
    <3>2. TryDoes(g[j], c[n], g[n])
      BY <3>1, TryIs
    <3>3. Upcoming(c, g[j], t, n - 1) /\ Len(g[j].txs) # BlockGas
      BY <2>1, <2>3
    <3>4. \/ Upcoming(c, g[n], t, n)
          \/ g[n].txs = Append(g[j].txs, c[n]) /\ c[n].sender = s /\ c[n].nonce = t.nonce
      <4> DEFINE b == g[j]
      <4> DEFINE d == g[n]
      <4>1. b \in Bodies /\ TryDoes(b, c[n], d) /\ Len(b.txs) # BlockGas /\ Upcoming(c, b, t, n - 1)
        BY <3>1, <3>2, <3>3
      <4> HIDE DEF b, d, Settled
      <4>2. n \in 1..Len(c) /\ t \in PoolTxs
        BY <1>2, <2>1
      <4>3. \/ Upcoming(c, d, t, n)
            \/ d.txs = Append(b.txs, c[n]) /\ c[n].sender = s /\ c[n].nonce = t.nonce
        BY <4>1, <4>2, TakesTheNext
      <4> QED BY <4>3 DEF b, d
    <3>5. CASE g[n].txs = Append(g[j].txs, c[n]) /\ c[n].sender = s /\ c[n].nonce = t.nonce
      <4>1. c[n] = t
        <5>1. PICK i \in 1..Len(pool) : pool[i] = c[n]
          BY <1>4, <2>1, PoolPlaces
        <5>2. PICK h \in 1..Len(pool) : pool[h] = t
          BY PoolPlaces
        <5>3. SameNonce(pool[i], pool[h])
          BY <3>5, <5>1, <5>2 DEF SameNonce
        <5> QED BY <5>1, <5>2, <5>3, PoolPlaces
      <4>2. g[j].txs \in Seq(PoolTxs)
        BY <3>1 DEF Bodies
      <4>3. ToSet(g[n].txs) = ToSet(g[j].txs) \cup {t}
        BY <1>2, <3>5, <4>1, <4>2, ToSetAppend
      <4>4. Settled(n)
        BY <4>3
      <4> QED BY <2>1, <4>4
    <3> QED BY <3>4, <3>5 DEF n
  <2> QED BY <2>1, <2>2, <2>3
<1> HIDE DEF T
<1>8. Nat \subseteq T
  BY <1>6, <1>7, SetInduction
<1>9. Upcoming(c, g[L], t, L) \/ \E i \in 0..L : Settled(i)
  <2>1. L \in T
    BY <1>2, <1>8
  <2> QED BY <1>2, <2>1 DEF T
<1>10. \E i \in 0..L : Settled(i)
  <2> SUFFICES ASSUME Upcoming(c, g[L], t, L) PROVE FALSE
    BY <1>9
  <2>1. g[L].after.nonce[s] <= t.nonce /\ (\A i \in 1..L : c[i].sender = s => c[i].nonce < g[L].after.nonce[s])
    BY DEF Upcoming
  <2>2. t.nonce < g[L].after.nonce[s]
    BY <1>3, <2>1
  <2>3. g[L] \in Bodies
    BY <1>1, <1>2 DEF ExecuteSteps
  <2>4. g[L].after.nonce[s] \in Nat
    BY <1>2, <2>3 DEF Bodies, States
  <2> QED BY <1>2, <2>1, <2>2, <2>4
<1>11. PICK i \in 0..L : Settled(i)
  BY <1>10
<1> QED BY <1>1, <1>11, BlockKeeps

-----------------------------------------------------------------------------
(* The inductive invariant of the pool                                     *)

PoolBlocks == [txs : Seq(PoolTxs), after : States]
PoolShape ==
    /\ pool \in Seq(PoolTxs) /\ repool \in Seq(PoolTxs)
    /\ chain \in Seq(PoolBlocks)
    /\ posted \in 0..Len(chain)
    /\ up \in BOOLEAN

PoolInv ==
    /\ PoolShape
    /\ Apart(pool)
    /\ up => Ahead(pool, HeadState)

\* The state of the head is one.
LEMMA HeadIsState ==
    ASSUME NEW blocks \in Seq(PoolBlocks), NEW st, st = IF blocks = <<>> THEN Genesis ELSE Last(blocks).after
    PROVE  st \in States
<1>1. Genesis \in States
  BY PoolAssumption DEF Genesis, States
<1>2. CASE blocks # <<>>
  <2>1. Len(blocks) \in Nat /\ Len(blocks) # 0
    BY <1>2, LenProperties, EmptySeq
  <2>2. blocks[Len(blocks)] \in PoolBlocks
    BY <2>1, ElementOfSeq
  <2>3. Last(blocks) = blocks[Len(blocks)]
    BY DEF Last
  <2>4. Last(blocks).after \in States
    BY <2>2, <2>3 DEF PoolBlocks
  <2> QED BY <1>2, <2>4
<1> QED BY <1>1, <1>2

\* The transactions of the blocks after the first `n`.
LEMMA TxsAfterIsSeq ==
    ASSUME PoolShape, NEW n \in 0..Len(chain)
    PROVE  TxsAfter(n) \in Seq(PoolTxs) /\ SubSeq(chain, 1, n) \in Seq(PoolBlocks) /\ Len(SubSeq(chain, 1, n)) = n
<1> DEFINE m == Len(chain) - n
<1> DEFINE ss == [i \in 1..m |-> chain[n + i].txs]
<1>1. Len(chain) \in Nat /\ n \in Nat /\ m \in Nat
  BY DEF PoolShape
<1>2. \A i \in 1..Len(chain) : chain[i] \in PoolBlocks
  BY ElementOfSeq DEF PoolShape
<1>3. ASSUME NEW i \in 1..m PROVE chain[n + i].txs \in Seq(PoolTxs)
  <2>1. n + i \in 1..Len(chain)
    BY <1>1
  <2> QED BY <1>2, <2>1 DEF PoolBlocks
<1>4. ss \in Seq(Seq(PoolTxs))
  BY <1>1, <1>3
<1>5. TxsAfter(n) \in Seq(PoolTxs)
  BY <1>4, FlatIsSeq DEF TxsAfter
<1>6. \A i \in 1..n : chain[i] \in PoolBlocks
  BY <1>1, <1>2
<1>7. SubSeq(chain, 1, n) \in Seq(PoolBlocks) /\ Len(SubSeq(chain, 1, n)) = n
  BY <1>1, <1>6, SubSeqProperties
<1> QED BY <1>5, <1>7

\* What a block leaves of the pool.
LEMMA LeftIsApart ==
    ASSUME PoolShape, Apart(pool), NEW gone, NEW st
    PROVE  Left(gone, st) \in Seq(PoolTxs) /\ Apart(Left(gone, st)) /\ Ahead(Left(gone, st), st)
<1> DEFINE keep == {t \in ToSet(pool) \ gone : t.nonce >= st.nonce[t.sender]}
<1>1. /\ Kept(pool, keep) \in Seq(PoolTxs) /\ Apart(Kept(pool, keep))
      /\ \A i \in 1..Len(Kept(pool, keep)) : Kept(pool, keep)[i] \in keep
  BY KeptIsApart DEF PoolShape
<1>2. \A t \in keep : t.nonce >= st.nonce[t.sender]
  OBVIOUS
<1>3. Left(gone, st) = Kept(pool, keep)
  BY DEF Left
<1> HIDE DEF keep
<1> QED BY <1>1, <1>2, <1>3 DEF Ahead

\* A block with transactions and a state, one more on the chain.
LEMMA OneMoreBlock ==
    ASSUME PoolShape, NEW txs \in Seq(PoolTxs), NEW st \in States,
           chain' = Append(chain, [txs |-> txs, after |-> st])
    PROVE  /\ chain' \in Seq(PoolBlocks)
           /\ Len(chain') = Len(chain) + 1 /\ Len(chain) \in Nat
           /\ Last(chain').txs = txs /\ HeadState' = st
<1> DEFINE b == [txs |-> txs, after |-> st]
<1>1. b \in PoolBlocks /\ b.after = st /\ b.txs = txs
  BY DEF PoolBlocks
<1>2. chain \in Seq(PoolBlocks) /\ chain' = Append(chain, b)
  BY DEF PoolShape
<1> HIDE DEF b
<1>3. /\ Append(chain, b) \in Seq(PoolBlocks) /\ Append(chain, b) # <<>>
      /\ Len(Append(chain, b)) = Len(chain) + 1
      /\ Append(chain, b)[Len(chain) + 1] = b
  BY <1>1, <1>2, AppendProperties
<1>4. Last(chain') = b
  BY <1>2, <1>3 DEF Last
<1>5. HeadState' = st
  BY <1>1, <1>2, <1>3, <1>4 DEF HeadState
<1> QED BY <1>1, <1>2, <1>3, <1>4, <1>5

\* An empty pool.
LEMMA EmptyPool == Apart(<<>>) /\ \A st : Ahead(<<>>, st)
BY DEF Apart, Ahead

\* The initial state.
LEMMA PoolInitInv == ASSUME PoolInit PROVE PoolInv
<1>1. PoolShape
  <2>1. <<>> \in Seq(PoolTxs) /\ <<>> \in Seq(PoolBlocks) /\ Len(<<>>) = 0
    BY EmptySeq
  <2> QED BY <2>1 DEF PoolInit, PoolShape
<1> QED BY <1>1, EmptyPool DEF PoolInit, PoolInv

\* eth_sendRawTransaction.
LEMMA SendRawTransactionStep ==
    ASSUME PoolInv, SendRawTransaction
    PROVE  PoolInv'
<1>1. PICK t \in Traffic : pool' = Send(pool, HeadState, t)
  BY DEF SendRawTransaction
<1>2. PoolShape /\ t \in PoolTxs
  BY PoolAssumption DEF PoolInv
<1>3. Apart(pool) /\ Ahead(pool, HeadState) /\ pool \in Seq(PoolTxs)
  BY <1>2 DEF PoolInv, SendRawTransaction, PoolShape
<1>4. pool' \in Seq(PoolTxs) /\ Apart(pool') /\ Ahead(pool', HeadState)
  BY <1>1, <1>2, <1>3, SendKeepsApart
<1>5. UNCHANGED <<chain, posted, repool, up>> /\ HeadState' = HeadState
  BY DEF SendRawTransaction, HeadState
<1>6. PoolShape'
  BY <1>2, <1>4, <1>5 DEF PoolShape
<1>7. Ahead(pool, HeadState)'
  BY <1>4, <1>5 DEF Ahead
<1> QED BY <1>4, <1>6, <1>7 DEF PoolInv, Apart

\* A block on the head, whatever it leaves out of the pool for good.
LEMMA BlockStep ==
    ASSUME PoolInv, NEW txs \in Seq(PoolTxs), NEW gone,
           chain' = Append(chain, [txs |-> Execute(HeadState, txs).txs, after |-> Execute(HeadState, txs).after]),
           pool' = Left(gone, Execute(HeadState, txs).after),
           repool' = <<>>, posted' \in {posted, posted + 1}, up' = up
    PROVE  PoolInv' /\ Last(chain').txs = Execute(HeadState, txs).txs
<1> DEFINE st == Execute(HeadState, txs).after
<1> DEFINE body == Execute(HeadState, txs).txs
<1>1. PoolShape
  BY DEF PoolInv
<1>2. HeadState \in States
  BY <1>1, HeadIsState DEF PoolShape, HeadState
<1>3. st \in States /\ body \in Seq(PoolTxs)
  <2>1. PICK g : ExecuteSteps(HeadState, txs, g)
    BY <1>2, ExecuteIs
  <2>2. Len(txs) \in 0..Len(txs)
    BY LenProperties
  <2>3. Execute(HeadState, txs) \in Bodies
    BY <2>1, <2>2 DEF ExecuteSteps
  <2> QED BY <2>3 DEF Bodies
<1> HIDE DEF st, body
<1>4. chain' = Append(chain, [txs |-> body, after |-> st]) /\ pool' = Left(gone, st)
  BY DEF st, body
<1>5. /\ chain' \in Seq(PoolBlocks)
      /\ Len(chain') = Len(chain) + 1 /\ Len(chain) \in Nat
      /\ Last(chain').txs = body /\ HeadState' = st
  BY <1>1, <1>3, <1>4, OneMoreBlock
<1>6. Left(gone, st) \in Seq(PoolTxs) /\ Apart(Left(gone, st)) /\ Ahead(Left(gone, st), st)
  BY <1>1, LeftIsApart DEF PoolInv
<1>7. PoolShape'
  <2>1. posted' \in 0..Len(chain')
    <3>1. posted \in 0..Len(chain)
      BY <1>1 DEF PoolShape
    <3> QED BY <1>5, <3>1
  <2>2. repool' \in Seq(PoolTxs)
    BY EmptySeq
  <2> QED BY <1>1, <1>4, <1>5, <1>6, <2>1, <2>2 DEF PoolShape
<1>8. Apart(pool)' /\ Ahead(pool, HeadState)'
  BY <1>4, <1>5, <1>6 DEF Apart, Ahead
<1> QED BY <1>5, <1>7, <1>8 DEF PoolInv, body

\* The candidates are transactions; all of the pool, in order, while it has
\* no more than a block tries.
LEMMA CandidatesAre ==
    ASSUME PoolShape, Apart(pool)
    PROVE  /\ Candidates \in Seq(PoolTxs)
           /\ Len(pool) <= MAX_BLOCK_TXS => Len(Candidates) = Len(pool) /\ InOrder(Candidates)
<1> DEFINE n == IF Len(pool) < MAX_BLOCK_TXS THEN Len(pool) ELSE MAX_BLOCK_TXS
<1> DEFINE all == [i \in 1..Len(pool) |-> InPlaceOf(i)]
<1>1. pool \in Seq(PoolTxs)
  BY DEF PoolShape
<1>2. Len(pool) \in Nat /\ n \in Nat /\ n <= Len(pool) /\ (Len(pool) <= MAX_BLOCK_TXS => n = Len(pool))
  BY <1>1, PoolAssumption, LenProperties
<1>3. InOrder(all)
  BY <1>1, CandidatesInOrder
<1>4. \A i \in 1..Len(pool) : InPlaceOf(i) \in PoolTxs
  BY <1>1, <1>3, PoolPlaces DEF InOrder
<1>5. Candidates = [i \in 1..n |-> InPlaceOf(i)]
  BY DEF Candidates
<1> HIDE DEF n
<1>6. \A i \in 1..n : InPlaceOf(i) \in PoolTxs
  BY <1>2, <1>4
<1>7. [i \in 1..n |-> InPlaceOf(i)] \in Seq(PoolTxs) /\ Len([i \in 1..n |-> InPlaceOf(i)]) = n
  BY <1>2, <1>6
<1>8. Candidates \in Seq(PoolTxs) /\ Len(Candidates) = n
  BY <1>5, <1>7
<1>9. n = Len(pool) => Candidates = all
  BY <1>5
<1> QED BY <1>2, <1>3, <1>8, <1>9

\* nr_preconfirm.
LEMMA PreconfirmBlockStep ==
    ASSUME PoolInv, PreconfirmBlock
    PROVE  PoolInv' /\ Last(chain').txs = Execute(HeadState, Candidates).txs
<1> DEFINE b == Execute(HeadState, Candidates)
<1>1. PICK gone : pool' = Left(gone, b.after)
  BY DEF PreconfirmBlock
<1>2. /\ chain' = Append(chain, [txs |-> b.txs, after |-> b.after])
      /\ repool' = <<>> /\ posted' = posted /\ up' = up
  BY DEF PreconfirmBlock
<1>3. Candidates \in Seq(PoolTxs)
  BY CandidatesAre DEF PoolInv
<1> QED BY <1>1, <1>2, <1>3, BlockStep

\* catch_up.
LEMMA DeriveBlockStep ==
    ASSUME PoolInv, DeriveBlock
    PROVE  PoolInv'
<1>1. PICK t \in Traffic :
        /\ pool' = Left({}, Execute(HeadState, <<t>>).after)
        /\ chain' = Append(chain, [txs |-> Execute(HeadState, <<t>>).txs, after |-> Execute(HeadState, <<t>>).after])
  BY DEF DeriveBlock
<1>2. <<t>> \in Seq(PoolTxs)
  BY PoolAssumption
<1> QED BY <1>1, <1>2, BlockStep DEF DeriveBlock

\* mark_posted.
LEMMA MarkPostedStep ==
    ASSUME PoolInv, MarkPosted
    PROVE  PoolInv'
<1>1. PoolShape'
  <2>1. posted + 1 \in 0..Len(chain)
    BY DEF PoolInv, PoolShape, MarkPosted
  <2> QED BY <2>1, EmptySeq DEF PoolInv, PoolShape, MarkPosted
<1> QED BY <1>1 DEF MarkPosted, PoolInv, Apart, Ahead, HeadState

\* drop_preconfirmed.
LEMMA DropPreconfirmedStep ==
    ASSUME PoolShape, DropPreconfirmed
    PROVE  PoolInv'
<1>1. posted \in 0..Len(chain) /\ posted \in Nat
  BY DEF PoolShape
<1>2. /\ TxsAfter(posted) \in Seq(PoolTxs) /\ SubSeq(chain, 1, posted) \in Seq(PoolBlocks)
      /\ Len(SubSeq(chain, 1, posted)) = posted
  BY <1>1, TxsAfterIsSeq
<1>3. PoolShape'
  <2>1. /\ pool' = <<>> /\ repool' = TxsAfter(posted) /\ chain' = SubSeq(chain, 1, posted)
        /\ posted' = posted /\ up' = FALSE
    BY DEF DropPreconfirmed
  <2>2. posted' \in 0..Len(chain')
    BY <1>1, <1>2, <2>1
  <2>3. <<>> \in Seq(PoolTxs)
    BY EmptySeq
  <2> QED BY <1>2, <2>1, <2>2, <2>3 DEF PoolShape
<1> QED BY <1>3, EmptyPool DEF DropPreconfirmed, PoolInv, Apart

\* The process stops.
LEMMA CrashStep ==
    ASSUME PoolShape, Crash
    PROVE  PoolInv'
<1>1. PoolShape'
  BY EmptySeq DEF PoolShape, Crash
<1> QED BY <1>1, EmptyPool DEF Crash, PoolInv, Apart

\* Node.__init__.
LEMMA StartStep ==
    ASSUME PoolShape, Start
    PROVE  PoolInv'
<1>1. repool' \in Seq(PoolTxs) /\ chain' \in Seq(PoolBlocks) /\ posted' \in 0..Len(chain')
  <2>1. CASE UNCHANGED <<chain, posted, repool>>
    BY <2>1 DEF PoolShape
  <2>2. ASSUME NEW n \in 0..(posted - 1), Unpost(n)
        PROVE  repool' \in Seq(PoolTxs) /\ chain' \in Seq(PoolBlocks) /\ posted' \in 0..Len(chain')
    <3>1. n \in 0..Len(chain) /\ n \in Nat
      BY DEF PoolShape
    <3>2. TxsAfter(n) \in Seq(PoolTxs) /\ SubSeq(chain, 1, n) \in Seq(PoolBlocks) /\ Len(SubSeq(chain, 1, n)) = n
      BY <3>1, TxsAfterIsSeq
    <3>3. repool \o TxsAfter(n) \in Seq(PoolTxs)
      BY <3>2, ConcatProperties DEF PoolShape
    <3> QED BY <2>2, <3>1, <3>2, <3>3 DEF Unpost
  <2> QED BY <2>1, <2>2 DEF Start
<1>2. pool' = Repooled(HeadState', repool') /\ up' = TRUE
  BY DEF Start
<1>3. /\ Repooled(HeadState', repool') \in Seq(PoolTxs)
      /\ Apart(Repooled(HeadState', repool'))
      /\ Ahead(Repooled(HeadState', repool'), HeadState')
  BY <1>1, RepooledApart
<1>4. PoolShape'
  BY <1>1, <1>2, <1>3 DEF PoolShape
<1>5. Apart(pool)' /\ Ahead(pool, HeadState)'
  BY <1>2, <1>3 DEF Apart, Ahead
<1> QED BY <1>4, <1>5 DEF PoolInv

\* Every step of the pool.
LEMMA PoolStep == ASSUME PoolInv, PoolNext PROVE PoolInv'
<1>1. PoolShape
  BY DEF PoolInv
<1> QED BY <1>1, SendRawTransactionStep, PreconfirmBlockStep, DeriveBlockStep, MarkPostedStep,
           DropPreconfirmedStep, CrashStep, StartStep DEF PoolNext

\* A step that leaves the variables of the pool alone.
LEMMA PoolStutter == ASSUME PoolInv, UNCHANGED poolVars PROVE PoolInv'
<1>1. PoolShape'
  BY DEF PoolInv, PoolShape, poolVars
<1>2. Apart(pool)' /\ (up => Ahead(pool, HeadState))'
  BY DEF PoolInv, Apart, Ahead, HeadState, poolVars
<1> QED BY <1>1, <1>2 DEF PoolInv

\* Only a block that the node builds makes the chain longer without L1.
LEMMA BlocksTakeTheReady ==
    ASSUME PoolInv, PoolNext, Len(chain') > Len(chain), posted' = posted, Len(pool) <= MAX_BLOCK_TXS,
           NEW t \in ToSet(pool), Ready(t)
    PROVE  t \in ToSet(Last(chain').txs) \/ Len(Last(chain').txs) = BlockGas
<1>1. PoolShape /\ Len(chain) \in Nat /\ posted \in Nat /\ posted <= Len(chain)
  BY LenProperties DEF PoolInv, PoolShape
<1>2. PreconfirmBlock
  <2>1. ~(chain' = chain)
    BY <1>1
  <2>2. ~DropPreconfirmed
    <3> SUFFICES ASSUME DropPreconfirmed PROVE FALSE
      OBVIOUS
    <3>1. Len(chain') = posted
      BY <1>1, TxsAfterIsSeq DEF DropPreconfirmed
    <3> QED BY <1>1, <3>1
  <2>3. ~Start
    <3> SUFFICES ASSUME Start PROVE FALSE
      OBVIOUS
    <3>1. PICK n \in 0..(posted - 1) : Unpost(n)
      BY <2>1 DEF Start
    <3>2. n \in 0..Len(chain)
      BY <1>1
    <3>3. Len(chain') = n
      BY <1>1, <3>1, <3>2, TxsAfterIsSeq DEF Unpost
    <3> QED BY <1>1, <3>2, <3>3
  <2>4. ~DeriveBlock
    BY <1>1 DEF DeriveBlock
  <2> QED BY <2>1, <2>2, <2>3, <2>4 DEF PoolNext, SendRawTransaction, MarkPosted, Crash
<1>3. Last(chain').txs = Execute(HeadState, Candidates).txs
  BY <1>2, PreconfirmBlockStep
<1>4. pool \in Seq(PoolTxs) /\ Apart(pool) /\ Ahead(pool, HeadState)
  BY <1>2 DEF PoolInv, PoolShape, PreconfirmBlock
<1>5. Candidates \in Seq(PoolTxs) /\ Len(Candidates) = Len(pool) /\ InOrder(Candidates)
  BY <1>1, <1>4, CandidatesAre
<1>6. HeadState \in States
  BY <1>1, HeadIsState DEF PoolShape, HeadState
<1> QED BY <1>3, <1>4, <1>5, <1>6, ReadyGoesIn

-----------------------------------------------------------------------------
(* The follower: its inductive invariant                                   *)

BlockTxs == {"none", "claim", "send"}
Chains == Seq(BlockTxs)
L1Tx == {Advance(c) : c \in Chains} \cup {Deposit(x) : x \in Deposits} \cup {WithdrawalClaim}
L2Sent == {L2Tx("claim"), L2Tx("send")}

\* L1's transactions: each is there once, and the posts are one chain, block
\* by block, in which nothing but "none" comes twice.
Once(c) == \A i, j \in 1..Len(c) : c[i] = c[j] => i = j \/ c[i] = "none"
OneChain(txs) ==
    /\ \A i \in PostsAt(txs) : txs[i].what # <<>> /\ Once(txs[i].what)
    /\ \A i \in PostsAt(txs) : \A n \in 1..Len(txs[i].what) :
         \E j \in PostsAt(txs) : j <= i /\ txs[j].what = SubSeq(txs[i].what, 1, n)
    /\ \A i, j \in PostsAt(txs) : i < j => Len(txs[i].what) < Len(txs[j].what)
PostedIn(txs, c) == c = <<>> \/ \E i \in PostsAt(txs) : txs[i].what = c
L1Is(txs) ==
    /\ txs \in Seq(L1Tx) /\ \A i, j \in 1..Len(txs) : txs[i] = txs[j] => i = j
    /\ OneChain(txs)

\* The tables; the L2 side of a message is that of its L2 transaction's row.
SideSet == [table : {"deposits", "withdrawals"}, idx : Nat, chain : {"l1", "l2"}, tx : L1Tx \cup L2Sent, block : Nat]
L1Places == 0..MaxL1
Dbs == [l1Txs : SUBSET [tx : L1Tx, block : 1..MaxL1], l2Txs : SUBSET [tx : L2Sent, block : Nat],
        blocks : SUBSET [block : Chains \ {<<>>}, l1Tx : L1Tx, l1Block : L1Places], sides : SUBSET SideSet,
        snapshots : SUBSET [chain : Chains \ {<<>>}, l1Block : L1Places],
        accounts : [Accounts -> [block : Nat, state : Chains]], messagesFrom : 0..(MaxL1 + 1)]
L2SideOf(r) == Side(IF r.tx = L2Tx("claim") THEN "deposits" ELSE "withdrawals", 0, "l2", r.tx, r.block)
Tables(d) ==
    /\ d \in Dbs
    /\ \A r, q \in d.l1Txs : r.tx = q.tx => r = q
    /\ \A r, q \in d.l2Txs : r.tx = q.tx => r = q
    /\ \A s \in d.sides : s.chain = "l2" => \E r \in d.l2Txs : s = L2SideOf(r)
    /\ \A r \in d.l2Txs : L2SideOf(r) \in d.sides
    /\ \A a \in Accounts : Len(d.accounts[a].state) <= d.accounts[a].block
    /\ \E n \in Nat : \A s \in d.snapshots : Len(s.chain) <= n

\* The L1 tables tell what the first n L1 blocks have, where they have it.
Row(txs, i) == [tx |-> txs[i], block |-> i]
RowsAre(d, txs, n) ==
    /\ \A r \in d.l1Txs : r.block <= n => txs[r.block] = r.tx
    /\ \A r \in d.l1Txs : r.block > n => \A i \in 1..n : txs[i] # r.tx
    /\ \A s \in d.sides : s.chain = "l1" =>
         /\ s.block <= n => s.block # 0 /\ s \in L1Sides(txs, s.block)
         /\ \E r \in d.l1Txs : r.tx = s.tx /\ (r.block <= n <=> s.block <= n)
    /\ \A r \in d.l1Txs : r.block <= n => L1Sides(txs, r.block) \subseteq d.sides
    /\ \A i \in 1..n : i < d.messagesFrom /\ txs[i].kind # "advance" => Row(txs, i) \in d.l1Txs
PostRows(d, h) == \A r \in d.l1Txs : r.tx.kind = "advance" => Len(r.tx.what) <= h

\* The L2 tables tell the chain c, and what they tell beyond is about higher
\* blocks.
TellsOf(d, c) ==
    /\ \A b \in d.blocks : Len(b.block) <= Len(c) => b.block = SubSeq(c, 1, Len(b.block)) /\ b.l1Tx = Advance(b.block)
    /\ \A j \in 1..Len(c) : \E b \in d.blocks : Len(b.block) = j
    /\ \A r \in d.l2Txs : r.block <= Len(c) => r.block # 0 /\ c[r.block] # "none" /\ r.tx = L2Tx(c[r.block])
    /\ \A j \in 1..Len(c) : c[j] # "none" => [tx |-> L2Tx(c[j]), block |-> j] \in d.l2Txs

\* The snapshots up to block h are of blocks up to m that the database has,
\* and the next one up to h would be older than two of them.
Two(snaps, j) == \E r, q \in snaps : j < Len(r.chain) /\ Len(r.chain) < Len(q.chain)
SnapshotAt(snaps, j) == (\E s \in snaps : Len(s.chain) = j) \/ Two(snaps, j)
SnapsAre(d, m, h) ==
    /\ \A s \in d.snapshots : Len(s.chain) <= h =>
         Len(s.chain) <= m /\ \E b \in d.blocks : b.block = s.chain /\ b.l1Block = s.l1Block
    /\ \A j \in 1..h : j % SNAPSHOT_INTERVAL = 0 => SnapshotAt(d.snapshots, j)
    /\ \A s \in d.snapshots : Len(s.chain) % SNAPSHOT_INTERVAL = 0

\* The follower saw all that L1 did since it started.  The database tells the
\* chain `top`; the follower is at block m of it, or was when it stopped.
Known(i) == i \in PostsAt(rollupTxs) /\ IsKnown(i)
HasRow(d, i) == Row(rollupTxs, i) \in d.l1Txs
ToTell(i) ==
    \/ HasRow(db, i)
    \/ step = "poll" /\ i >= fromBlock /\ db.messagesFrom <= Len(rollupTxs)
    \/ step = "logs" /\ i \in logs
SeesAll(d, h) ==
    /\ RowsAre(d, rollupTxs, Len(rollupTxs)) /\ PostRows(d, h)
    /\ \A r \in d.l1Txs : r.block <= Len(rollupTxs)
    /\ d.messagesFrom <= Len(rollupTxs) + 1
InStep(top, m) ==
    /\ m <= Len(top) /\ PostedIn(rollupTxs, top)
    /\ TellsOf(db, top) /\ \A b \in db.blocks : OnPlace(b) /\ Len(b.block) <= Len(top)
    /\ \A r \in db.l2Txs : r.block <= Len(top)
    /\ \A a \in Accounts : \E k \in m..Len(top) : db.accounts[a].state = AccountState(SubSeq(top, 1, k), a)
    /\ SnapsAre(db, m, Len(top))
    /\ SeesAll(db, Len(top)) /\ SeesAll(committed, Len(top))
    /\ logs \subseteq PostsAt(rollupTxs)
    /\ step # "down" => rebuilt = SubSeq(top, 1, m) /\ \A i \in DOMAIN rollupTxs : Known(i) => ToTell(i)

\* L1 lost blocks after its first n.  The database tells the chain c, and the
\* follower has added no block above h, its last before.
LeftBehind(c, h, n) ==
    /\ Len(c) <= h /\ TellsOf(db, c)
    /\ \A b \in db.blocks : Len(b.block) <= h /\ (Len(b.block) <= Len(c) => b.l1Block <= n + FinalityLag)
    /\ \A a \in Accounts : db.accounts[a].block <= Len(c) => db.accounts[a].state = AccountState(c, a)
    /\ SnapsAre(db, Len(c), h)
    /\ \A d \in {db, committed} : RowsAre(d, rollupTxs, n) /\ PostRows(d, h)
    /\ step # "down" => Len(c) <= Len(rebuilt) /\ Len(rebuilt) <= h /\ SubSeq(rebuilt, 1, Len(c)) = c

\* Or it has, and L1 has the last of them.
WentOn ==
    /\ StillOnL1
    /\ step # "down" => \A b \in db.blocks : Len(b.block) <= Len(rebuilt)

\* What is not committed is rows of L1 transactions, and their sides.
SameBlocks ==
    /\ db.blocks = committed.blocks /\ db.l2Txs = committed.l2Txs /\ db.snapshots = committed.snapshots
    /\ db.accounts = committed.accounts /\ db.messagesFrom = committed.messagesFrom

FollowerShape ==
    /\ L1Is(rollupTxs) /\ Len(rollupTxs) <= MaxL1
    /\ Tables(db) /\ Tables(committed) /\ SameBlocks
    /\ step \in {"down", "poll", "logs"} /\ (step # "logs" => logs = {} /\ db = committed)
    /\ rebuilt \in Chains /\ fromBlock \in L1Places /\ logs \subseteq 1..MaxL1
    /\ watched \in BOOLEAN /\ usual \in BOOLEAN
FollowerKnows ==
    usual => IF watched THEN \E top \in Chains, m \in Nat : InStep(top, m)
             ELSE WentOn \/ \E c \in Chains, h \in Nat, n \in 0..Len(rollupTxs) : LeftBehind(c, h, n)
FollowerInv == FollowerShape /\ FollowerKnows

-----------------------------------------------------------------------------
(* The follower: L1's transactions and what they tell                      *)

\* The kinds of L1 transactions, which are not L2 transactions.
LEMMA TxKinds ==
    ASSUME NEW t \in L1Tx
    PROVE  /\ t.kind \in {"advance", "deposit", "withdrawal claim"} /\ t \notin L2Sent
           /\ t.kind = "advance" => t.what \in Chains /\ t = Advance(t.what)
           /\ t.kind = "deposit" => \E x \in Deposits : t = Deposit(x)
           /\ t.kind = "withdrawal claim" => t = WithdrawalClaim
<1>1. t.kind # "l2" => t \notin L2Sent
  BY DEF L2Sent, L2Tx
<1>2. CASE \E c \in Chains : t = Advance(c)
  BY <1>1, <1>2 DEF Advance
<1>3. CASE \E x \in Deposits : t = Deposit(x)
  BY <1>1, <1>3 DEF Deposit
<1>4. CASE t = WithdrawalClaim
  BY <1>1, <1>4 DEF WithdrawalClaim
<1> QED BY <1>2, <1>3, <1>4 DEF L1Tx

\* L1 is a sequence of transactions, and its posts are some of them.
LEMMA L1Basics ==
    ASSUME NEW txs, L1Is(txs)
    PROVE  /\ txs \in Seq(L1Tx) /\ Len(txs) \in Nat /\ DOMAIN txs = 1..Len(txs)
           /\ \A i \in 1..Len(txs) : txs[i] \in L1Tx
           /\ PostsAt(txs) = {i \in 1..Len(txs) : txs[i].kind = "advance"}
           /\ \A i \in PostsAt(txs) :
                /\ i \in 1..Len(txs) /\ i \in Nat
                /\ txs[i].what \in Chains /\ txs[i].what # <<>> /\ Len(txs[i].what) \in Nat \ {0}
                /\ txs[i] = Advance(txs[i].what)
<1>1. txs \in Seq(L1Tx) /\ OneChain(txs)
  BY DEF L1Is
<1>2. Len(txs) \in Nat /\ DOMAIN txs = 1..Len(txs)
  BY <1>1, LenProperties
<1>3. ASSUME NEW i \in 1..Len(txs) PROVE txs[i] \in L1Tx
  BY <1>1, ElementOfSeq
<1>4. PostsAt(txs) = {i \in 1..Len(txs) : txs[i].kind = "advance"}
  BY <1>2 DEF PostsAt
<1>5. ASSUME NEW i \in PostsAt(txs)
      PROVE  /\ i \in 1..Len(txs) /\ i \in Nat
             /\ txs[i].what \in Chains /\ txs[i].what # <<>> /\ Len(txs[i].what) \in Nat \ {0}
             /\ txs[i] = Advance(txs[i].what)
  <2>1. i \in 1..Len(txs) /\ i \in Nat /\ txs[i].kind = "advance" /\ txs[i] \in L1Tx
    BY <1>2, <1>3, <1>4
  <2>2. txs[i].what \in Chains /\ txs[i] = Advance(txs[i].what)
    BY <2>1, TxKinds
  <2>3. txs[i].what # <<>>
    BY <1>1 DEF OneChain
  <2> DEFINE w == txs[i].what
  <2>4. Len(w) \in Nat \ {0}
    <3> HIDE DEF w
    <3> QED BY <2>2, <2>3, EmptySeq DEF w, Chains
  <2> QED BY <2>1, <2>2, <2>3, <2>4
<1> QED BY <1>1, <1>2, <1>3, <1>4, <1>5

\* The rollup's chain is that of its last post; every post has the first
\* blocks of it, and there is one for each number of blocks.
LEMMA HeadOfL1 ==
    ASSUME NEW txs, L1Is(txs), NEW H, H = HeadIn(txs)
    PROVE  /\ H \in Chains /\ Len(H) \in Nat /\ Once(H)
           /\ PostsAt(txs) = {} => H = <<>>
           /\ PostsAt(txs) # {} => \E i \in PostsAt(txs) : txs[i].what = H
           /\ \A i \in PostsAt(txs) : Len(txs[i].what) <= Len(H) /\ txs[i].what = SubSeq(H, 1, Len(txs[i].what))
           /\ \A k \in 1..Len(H) : \E i \in PostsAt(txs) : txs[i].what = SubSeq(H, 1, k)
<1>1. CASE PostsAt(txs) = {}
  <2>1. H = <<>>
    BY <1>1 DEF HeadIn
  <2>2. H \in Chains /\ Len(H) = 0
    BY <2>1, EmptySeq DEF Chains
  <2> QED BY <1>1, <2>1, <2>2 DEF Once
<1>2. CASE PostsAt(txs) # {}
  <2> DEFINE m == Max(PostsAt(txs))
  <2>1. m \in PostsAt(txs) /\ \A j \in PostsAt(txs) : j <= m
    <3>1. PostsAt(txs) \in SUBSET (0..Len(txs)) /\ Len(txs) \in Nat
      BY L1Basics
    <3> QED BY <1>2, <3>1, MaxOfNumbers
  <2>2. H = txs[m].what
    BY <1>2 DEF HeadIn
  <2> HIDE DEF m
  <2>3. H \in Chains /\ Len(H) \in Nat \ {0}
    BY <2>1, <2>2, L1Basics
  <2>4. Once(H)
    BY <2>1, <2>2 DEF L1Is, OneChain
  <2>5. ASSUME NEW k \in 1..Len(H) PROVE \E i \in PostsAt(txs) : txs[i].what = SubSeq(H, 1, k)
    BY <2>1, <2>2 DEF L1Is, OneChain
  <2>6. ASSUME NEW i \in PostsAt(txs)
        PROVE  Len(txs[i].what) <= Len(H) /\ txs[i].what = SubSeq(H, 1, Len(txs[i].what))
    <3>1. i = m \/ i < m
      <4>1. i \in Nat /\ m \in Nat /\ i <= m
        BY <2>1, L1Basics
      <4> QED BY <4>1
    <3>2. Len(txs[i].what) \in Nat \ {0}
      BY L1Basics
    <3>3. Len(txs[i].what) <= Len(H)
      <4>1. CASE i = m
        BY <2>2, <2>3, <4>1
      <4>2. CASE i < m
        <5>1. Len(txs[i].what) < Len(txs[m].what)
          BY <2>1, <4>2 DEF L1Is, OneChain
        <5> QED BY <2>2, <2>3, <3>2, <5>1
      <4> QED BY <3>1, <4>1, <4>2
    <3>4. Len(txs[i].what) \in 1..Len(H)
      BY <2>3, <3>2, <3>3
    <3>5. PICK j \in PostsAt(txs) : txs[j].what = SubSeq(H, 1, Len(txs[i].what))
      BY <2>5, <3>4
    <3>6. Len(txs[j].what) = Len(txs[i].what)
      <4> DEFINE k == Len(txs[i].what)
      <4>1. k \in Nat /\ k <= Len(H) /\ H \in Seq(BlockTxs)
        BY <2>3, <3>2, <3>3 DEF Chains
      <4> HIDE DEF k
      <4>2. Len(SubSeq(H, 1, k)) = k
        BY <4>1, FirstOf
      <4> QED BY <3>5, <4>2 DEF k
    <3>7. j = i
      <4>1. ~(i < j) /\ ~(j < i)
        <5>1. /\ i < j => Len(txs[i].what) < Len(txs[j].what)
              /\ j < i => Len(txs[j].what) < Len(txs[i].what)
          BY DEF L1Is, OneChain
        <5> QED BY <3>2, <3>6, <5>1
      <4>2. i \in Nat /\ j \in Nat
        BY L1Basics
      <4> QED BY <4>1, <4>2
    <3> QED BY <3>3, <3>5, <3>7
  <2> QED BY <1>2, <2>1, <2>2, <2>3, <2>4, <2>5, <2>6
<1> QED BY <1>1, <1>2

\* A chain that a post has, or no block, is the first blocks of the rollup's,
\* and of each longer one.
LEMMA PostedIs ==
    ASSUME NEW txs, L1Is(txs), NEW c, PostedIn(txs, c)
    PROVE  /\ c \in Chains /\ Len(c) \in Nat /\ Once(c)
           /\ Len(c) <= Len(HeadIn(txs)) /\ c = SubSeq(HeadIn(txs), 1, Len(c))
           /\ \A k \in 0..Len(c) : PostedIn(txs, SubSeq(c, 1, k))
           /\ \A i \in PostsAt(txs) : Len(txs[i].what) <= Len(c) => txs[i].what = SubSeq(c, 1, Len(txs[i].what))
<1> DEFINE H == HeadIn(txs)
<1>1. /\ H \in Chains /\ Len(H) \in Nat /\ Once(H)
      /\ \A i \in PostsAt(txs) : Len(txs[i].what) <= Len(H) /\ txs[i].what = SubSeq(H, 1, Len(txs[i].what))
      /\ \A k \in 1..Len(H) : \E i \in PostsAt(txs) : txs[i].what = SubSeq(H, 1, k)
  BY HeadOfL1
<1> HIDE DEF H
<1>2. c \in Chains /\ Len(c) \in Nat /\ Once(c) /\ Len(c) <= Len(H) /\ c = SubSeq(H, 1, Len(c))
  <2>1. CASE c = <<>>
    <3>1. c \in Chains /\ Len(c) = 0
      BY <2>1, EmptySeq DEF Chains
    <3>2. SubSeq(H, 1, 0) = <<>>
      BY SubSeqEmpty
    <3> QED BY <1>1, <2>1, <3>1, <3>2 DEF Once
  <2>2. CASE c # <<>>
    <3>1. PICK i \in PostsAt(txs) : txs[i].what = c
      BY <2>2 DEF PostedIn
    <3>2. c \in Chains /\ Len(c) \in Nat
      BY <3>1, L1Basics
    <3> QED BY <1>1, <3>1, <3>2 DEF L1Is, OneChain
  <2> QED BY <2>1, <2>2
<1>3. ASSUME NEW k \in 0..Len(c) PROVE SubSeq(c, 1, k) = SubSeq(H, 1, k)
  <2>1. H \in Seq(BlockTxs) /\ Len(c) \in Nat /\ Len(c) <= Len(H) /\ c = SubSeq(H, 1, Len(c))
    BY <1>1, <1>2 DEF Chains
  <2>2. SubSeq(SubSeq(H, 1, Len(c)), 1, k) = SubSeq(H, 1, k)
    <3> DEFINE n == Len(c)
    <3>1. n \in Nat /\ k \in 0..n /\ n <= Len(H) /\ H \in Seq(BlockTxs)
      BY <2>1
    <3> HIDE DEF n
    <3>2. SubSeq(SubSeq(H, 1, n), 1, k) = SubSeq(H, 1, k)
      BY <3>1, FirstOfMore
    <3> QED BY <3>2 DEF n
  <2> QED BY <2>1, <2>2
<1>4. ASSUME NEW k \in 0..Len(c) PROVE PostedIn(txs, SubSeq(c, 1, k))
  <2>1. CASE k = 0
    <3>1. SubSeq(c, 1, 0) = <<>>
      BY SubSeqEmpty
    <3> QED BY <2>1, <3>1 DEF PostedIn
  <2>2. CASE k # 0
    <3>1. k \in 1..Len(H)
      BY <1>1, <1>2, <2>2
    <3> QED BY <1>1, <1>3, <3>1 DEF PostedIn
  <2> QED BY <2>1, <2>2
<1>5. ASSUME NEW i \in PostsAt(txs), Len(txs[i].what) <= Len(c)
      PROVE  txs[i].what = SubSeq(c, 1, Len(txs[i].what))
  <2>1. Len(txs[i].what) \in 0..Len(c)
    <3>1. Len(txs[i].what) \in Nat
      BY L1Basics
    <3> QED BY <1>2, <1>5, <3>1
  <2> QED BY <1>1, <1>3, <2>1
<1> QED BY <1>2, <1>4, <1>5 DEF H

\* L1 with one transaction more: one it does not have, on the rollup's chain
\* if it is a post.
LEMMA L1Grows ==
    ASSUME NEW txs, L1Is(txs), NEW t \in L1Tx, t \notin ToSet(txs),
           NEW H, H = HeadIn(txs),
           t.kind = "advance" =>
             \E e \in BlockTxs : t = Advance(Append(H, e)) /\ (e = "none" \/ e \notin ToSet(H))
    PROVE  L1Is(Append(txs, t))
<1> DEFINE u == Append(txs, t)
<1> DEFINE n == Len(txs)
<1>1. /\ txs \in Seq(L1Tx) /\ n \in Nat /\ DOMAIN txs = 1..n
      /\ PostsAt(txs) = {i \in 1..n : txs[i].kind = "advance"}
      /\ \A i, j \in 1..n : txs[i] = txs[j] => i = j
      /\ OneChain(txs)
  BY L1Basics DEF L1Is
<1>2. u \in Seq(L1Tx) /\ Len(u) = n + 1 /\ (\A i \in 1..n : u[i] = txs[i]) /\ u[n + 1] = t
  BY <1>1, AppendProperties
<1>3. DOMAIN u = 1..(n + 1)
  BY <1>2, LenProperties
<1> HIDE DEF u, n
<1>4. ASSUME NEW i \in 1..(n + 1), NEW j \in 1..(n + 1), u[i] = u[j] PROVE i = j
  <2>1. \A k \in 1..n : txs[k] # t
    BY <1>1 DEF ToSet
  <2>2. (i \in 1..n \/ i = n + 1) /\ (j \in 1..n \/ j = n + 1)
    BY <1>1
  <2> QED BY <1>1, <1>2, <1>4, <2>1, <2>2
<1>5. PostsAt(u) = PostsAt(txs) \cup {i \in {n + 1} : t.kind = "advance"}
  <2>1. \A i \in 1..(n + 1) : i \in 1..n \/ i = n + 1
    BY <1>1
  <2>2. \A i \in 1..n : i \in 1..(n + 1)
    BY <1>1
  <2>3. n + 1 \in 1..(n + 1)
    BY <1>1
  <2> QED BY <1>1, <1>2, <1>3, <2>1, <2>2, <2>3 DEF PostsAt
<1>6. \A i \in PostsAt(txs) : i \in 1..n /\ u[i] = txs[i] /\ i < n + 1 /\ i \in Nat
  BY <1>1, <1>2
<1>7. OneChain(u)
  <2>1. CASE t.kind # "advance"
    <3>1. PostsAt(u) = PostsAt(txs)
      BY <1>5, <2>1
    <3>2. \A i \in PostsAt(u) : u[i].what # <<>> /\ Once(u[i].what)
      BY <1>1, <1>6, <3>1 DEF OneChain
    <3>3. ASSUME NEW i \in PostsAt(u), NEW k \in 1..Len(u[i].what)
          PROVE  \E j \in PostsAt(u) : j <= i /\ u[j].what = SubSeq(u[i].what, 1, k)
      <4>1. PICK j \in PostsAt(txs) : j <= i /\ txs[j].what = SubSeq(txs[i].what, 1, k)
        BY <1>1, <1>6, <3>1, <3>3 DEF OneChain
      <4> QED BY <1>6, <3>1, <4>1
    <3>4. \A i, j \in PostsAt(u) : i < j => Len(u[i].what) < Len(u[j].what)
      BY <1>1, <1>6, <3>1 DEF OneChain
    <3> QED BY <3>2, <3>3, <3>4 DEF OneChain
  <2>2. CASE t.kind = "advance"
    <3>1. PICK e \in BlockTxs : t = Advance(Append(H, e)) /\ (e = "none" \/ e \notin ToSet(H))
      BY <2>2
    <3> DEFINE c == Append(H, e)
    <3> DEFINE h == Len(H)
    <3>2. /\ H \in Seq(BlockTxs) /\ h \in Nat /\ Once(H) /\ DOMAIN H = 1..h
          /\ \A i \in PostsAt(txs) : Len(txs[i].what) <= h /\ txs[i].what = SubSeq(H, 1, Len(txs[i].what))
          /\ \A k \in 1..h : \E i \in PostsAt(txs) : txs[i].what = SubSeq(H, 1, k)
      BY HeadOfL1, LenProperties DEF Chains
    <3>3. /\ c \in Seq(BlockTxs) /\ c # <<>> /\ Len(c) = h + 1
          /\ (\A i \in 1..h : c[i] = H[i]) /\ c[h + 1] = e
      BY <3>2, AppendProperties
    <3>4. t.what = c
      BY <3>1 DEF Advance
    <3>5. \A k \in 1..h : SubSeq(c, 1, k) = SubSeq(H, 1, k)
      <4> SUFFICES ASSUME NEW k \in 1..h PROVE SubSeq(c, 1, k) = SubSeq(H, 1, k)
        OBVIOUS
      <4>1. k \in Nat /\ k <= h
        BY <3>2
      <4> QED BY <3>2, <4>1, FirstOfMore
    <3>6. SubSeq(c, 1, h + 1) = c
      BY <3>3, SubSeqFull
    <3> HIDE DEF c, h
    <3>7. Once(c)
      <4> SUFFICES ASSUME NEW i \in 1..(h + 1), NEW j \in 1..(h + 1), c[i] = c[j], c[i] # "none" PROVE i = j
        BY <3>3 DEF Once
      <4>1. (i \in 1..h \/ i = h + 1) /\ (j \in 1..h \/ j = h + 1)
        BY <3>2
      <4>2. \A k \in 1..h : H[k] \in ToSet(H)
        BY <3>2 DEF ToSet
      <4>3. \A k, l \in 1..h : H[k] = H[l] => k = l \/ H[k] = "none"
        BY <3>2 DEF Once, h
      <4> QED BY <3>1, <3>3, <4>1, <4>2, <4>3
    <3>8. PostsAt(u) = PostsAt(txs) \cup {n + 1}
      BY <1>5, <2>2
    <3>9. \A i \in PostsAt(u) : u[i].what # <<>> /\ Once(u[i].what)
      BY <1>1, <1>2, <1>6, <3>3, <3>4, <3>7, <3>8 DEF OneChain
    <3>10. ASSUME NEW i \in PostsAt(u), NEW k \in 1..Len(u[i].what)
           PROVE  \E j \in PostsAt(u) : j <= i /\ u[j].what = SubSeq(u[i].what, 1, k)
      <4>1. CASE i \in PostsAt(txs)
        <5>1. PICK j \in PostsAt(txs) : j <= i /\ txs[j].what = SubSeq(txs[i].what, 1, k)
          BY <1>1, <1>6, <3>10, <4>1 DEF OneChain
        <5> QED BY <1>6, <3>8, <4>1, <5>1
      <4>2. CASE i = n + 1
        <5>1. k \in 1..(h + 1) /\ u[i].what = c
          BY <1>2, <3>3, <3>4, <3>10, <4>2
        <5>2. CASE k = h + 1
          <6>1. i <= i
            BY <1>1, <4>2
          <6> QED BY <3>6, <5>1, <5>2, <6>1
        <5>3. CASE k # h + 1
          <6>1. k \in 1..h
            BY <3>2, <5>1, <5>3
          <6>2. PICK j \in PostsAt(txs) : txs[j].what = SubSeq(H, 1, k)
            BY <3>2, <6>1
          <6>3. j <= i
            BY <1>1, <1>6, <4>2
          <6> QED BY <1>6, <3>5, <3>8, <5>1, <6>1, <6>2, <6>3
        <5> QED BY <5>2, <5>3
      <4> QED BY <3>8, <4>1, <4>2
    <3>11. ASSUME NEW i \in PostsAt(u), NEW j \in PostsAt(u), i < j
           PROVE  Len(u[i].what) < Len(u[j].what)
      <4>1. i \in PostsAt(txs)
        BY <1>1, <1>6, <3>8, <3>11
      <4>2. CASE j \in PostsAt(txs)
        BY <1>1, <1>6, <3>11, <4>1, <4>2 DEF OneChain
      <4>3. CASE j = n + 1
        <5>1. Len(txs[i].what) <= h /\ Len(txs[i].what) \in Nat
          BY <3>2, <4>1, L1Basics
        <5>2. u[i] = txs[i] /\ u[j].what = c /\ Len(c) = h + 1
          BY <1>2, <1>6, <3>3, <3>4, <4>1, <4>3
        <5> QED BY <3>2, <5>1, <5>2
      <4> QED BY <3>8, <4>2, <4>3
    <3> QED BY <3>9, <3>10, <3>11 DEF OneChain
  <2> QED BY <2>1, <2>2
<1>8. L1Is(u)
  <2>1. \A i, j \in 1..Len(u) : u[i] = u[j] => i = j
    BY <1>2, <1>4
  <2> QED BY <1>2, <1>7, <2>1 DEF L1Is
<1> QED BY <1>8 DEF u

\* L1 without its last transactions.
LEMMA L1First ==
    ASSUME NEW txs, L1Is(txs), NEW n \in Nat, n <= Len(txs), NEW v, v = SubSeq(txs, 1, n)
    PROVE  /\ L1Is(v) /\ Len(v) = n /\ \A i \in 1..n : v[i] = txs[i]
           /\ PostsAt(v) = {i \in PostsAt(txs) : i <= n}
<1>1. /\ txs \in Seq(L1Tx) /\ Len(txs) \in Nat
      /\ PostsAt(txs) = {i \in 1..Len(txs) : txs[i].kind = "advance"}
      /\ \A i, j \in 1..Len(txs) : txs[i] = txs[j] => i = j
      /\ OneChain(txs)
  BY L1Basics DEF L1Is
<1>2. v \in Seq(L1Tx) /\ Len(v) = n /\ \A i \in 1..n : v[i] = txs[i]
  BY <1>1, FirstOf
<1>3. DOMAIN v = 1..n
  BY <1>2, LenProperties
<1>4. \A i \in 1..n : i \in 1..Len(txs) /\ i <= n
  BY <1>1
<1>5. PostsAt(v) = {i \in PostsAt(txs) : i <= n}
  <2>1. \A i \in PostsAt(txs) : i <= n => i \in 1..n
    BY <1>1
  <2> QED BY <1>1, <1>2, <1>3, <1>4, <2>1 DEF PostsAt
<1>6. OneChain(v)
  <2>1. \A i \in PostsAt(v) : i \in PostsAt(txs) /\ v[i] = txs[i] /\ i \in Nat /\ i <= n
    <3>1. \A i \in PostsAt(v) : i \in 1..n
      BY <1>3 DEF PostsAt
    <3> QED BY <1>2, <1>5, <3>1
  <2>2. ASSUME NEW i \in PostsAt(v), NEW k \in 1..Len(v[i].what)
        PROVE  \E j \in PostsAt(v) : j <= i /\ v[j].what = SubSeq(v[i].what, 1, k)
    <3>1. PICK j \in PostsAt(txs) : j <= i /\ txs[j].what = SubSeq(txs[i].what, 1, k)
      BY <1>1, <2>1, <2>2 DEF OneChain
    <3>2. j \in PostsAt(v)
      <4>1. j \in Nat /\ i \in Nat /\ i <= n /\ j <= i
        BY <1>1, <2>1, <3>1
      <4> QED BY <1>5, <4>1
    <3> QED BY <2>1, <3>1, <3>2
  <2>3. \A i \in PostsAt(v) : v[i].what # <<>> /\ Once(v[i].what)
    BY <1>1, <2>1 DEF OneChain
  <2>4. \A i, j \in PostsAt(v) : i < j => Len(v[i].what) < Len(v[j].what)
    BY <1>1, <2>1 DEF OneChain
  <2> QED BY <2>2, <2>3, <2>4 DEF OneChain
<1>7. \A i, j \in 1..Len(v) : v[i] = v[j] => i = j
  BY <1>1, <1>2, <1>4
<1> QED BY <1>2, <1>5, <1>6, <1>7 DEF L1Is

\* The rollup counts the deposits, so no two have the same index.
LEMMA DepositsCount ==
    ASSUME NEW txs, NEW i \in Nat, NEW j \in Nat, i # 0, i < j, txs[i].kind = "deposit"
    PROVE  /\ Cardinality(DepositsIn(txs, i - 1)) \in Nat
           /\ Cardinality(DepositsIn(txs, i - 1)) # Cardinality(DepositsIn(txs, j - 1))
<1> DEFINE S == DepositsIn(txs, i - 1)
<1> DEFINE T == DepositsIn(txs, j - 1)
<1>1. IsFiniteSet(T)
  <2>1. IsFiniteSet(1..(j - 1)) /\ T \subseteq 1..(j - 1)
    <3>1. j - 1 \in Nat
      OBVIOUS
    <3> QED BY <3>1, FinitePositions DEF DepositsIn
  <2> QED BY <2>1, FS_Subset
<1>2. S \subseteq T /\ i \in T /\ i \notin S
  <2>1. i \in 1..(j - 1) /\ i \notin 1..(i - 1) /\ \A k \in 1..(i - 1) : k \in 1..(j - 1)
    OBVIOUS
  <2> QED BY <2>1 DEF DepositsIn
<1> HIDE DEF S, T
<1>3. IsFiniteSet(S) /\ Cardinality(S) \in Nat /\ Cardinality(S) # Cardinality(T)
  BY <1>1, <1>2, FS_Subset, FS_CardinalityType
<1> QED BY <1>3 DEF S, T

\* What an L1 transaction tells of messages is about that transaction.
LEMMA L1SidesAre ==
    ASSUME NEW txs, L1Is(txs), NEW i \in 1..Len(txs), NEW s \in L1Sides(txs, i)
    PROVE  /\ s \in SideSet /\ s.chain = "l1" /\ s.tx = txs[i] /\ s.block = i
           /\ s.table = "deposits" => txs[i].kind = "deposit" /\ s.idx = Cardinality(DepositsIn(txs, i - 1))
           /\ s.table = "withdrawals" => txs[i] = WithdrawalClaim
<1>1. txs[i] \in L1Tx /\ i \in Nat /\ i # 0
  BY L1Basics
<1> DEFINE k == Cardinality(DepositsIn(txs, i - 1))
<1>2. k \in Nat
  <2>1. i - 1 \in Nat
    BY <1>1
  <2>2. IsFiniteSet(1..(i - 1)) /\ DepositsIn(txs, i - 1) \subseteq 1..(i - 1)
    BY <2>1, FinitePositions DEF DepositsIn
  <2> QED BY <2>2, FS_Subset, FS_CardinalityType
<1>3. txs[i].kind = "withdrawal claim" => txs[i] = WithdrawalClaim
  BY <1>1, TxKinds
<1>4. CASE s = Side("deposits", k, "l1", txs[i], i) /\ txs[i].kind = "deposit"
  <2> HIDE DEF k
  <2>1. s \in SideSet
    BY <1>1, <1>2, <1>4 DEF Side, SideSet
  <2>2. s.chain = "l1" /\ s.tx = txs[i] /\ s.block = i /\ s.table = "deposits" /\ s.idx = k
    BY <1>4 DEF Side
  <2> QED BY <1>4, <2>1, <2>2 DEF k
<1>5. CASE s = Side("withdrawals", 0, "l1", txs[i], i) /\ txs[i].kind = "withdrawal claim"
  <2>1. s \in SideSet
    BY <1>1, <1>5 DEF Side, SideSet
  <2>2. s.chain = "l1" /\ s.tx = txs[i] /\ s.block = i /\ s.table = "withdrawals"
    BY <1>5 DEF Side
  <2> QED BY <1>3, <1>5, <2>1, <2>2
<1> QED BY <1>4, <1>5 DEF L1Sides

\* No two L1 transactions tell of the same message.
LEMMA L1SidesApart ==
    ASSUME NEW txs, L1Is(txs), NEW i \in 1..Len(txs), NEW j \in 1..Len(txs),
           NEW s \in L1Sides(txs, i), NEW r \in L1Sides(txs, j), SameSide(r, s)
    PROVE  i = j
<1>1. s.table = r.table /\ s.idx = r.idx /\ s.table \in {"deposits", "withdrawals"}
  <2>1. s \in SideSet
    BY L1SidesAre
  <2> QED BY <2>1 DEF SameSide, SideSet
<1>2. r.table = "deposits" => txs[j].kind = "deposit" /\ r.idx = Cardinality(DepositsIn(txs, j - 1))
  BY L1SidesAre
<1>3. r.table = "withdrawals" => txs[j] = WithdrawalClaim
  BY L1SidesAre
<1>4. s.table = "deposits" => txs[i].kind = "deposit" /\ s.idx = Cardinality(DepositsIn(txs, i - 1))
  BY L1SidesAre
<1>5. s.table = "withdrawals" => txs[i] = WithdrawalClaim
  BY L1SidesAre
<1>6. CASE s.table = "deposits"
  <2>1. /\ txs[i].kind = "deposit" /\ s.idx = Cardinality(DepositsIn(txs, i - 1))
        /\ txs[j].kind = "deposit" /\ r.idx = Cardinality(DepositsIn(txs, j - 1))
    BY <1>1, <1>2, <1>4, <1>6
  <2>2. i \in Nat /\ j \in Nat /\ i # 0 /\ j # 0
    BY L1Basics
  <2>3. ~(i < j) /\ ~(j < i)
    BY <1>1, <2>1, <2>2, DepositsCount
  <2> QED BY <2>2, <2>3
<1>7. CASE s.table = "withdrawals"
  <2>1. txs[i] = txs[j]
    BY <1>1, <1>3, <1>5, <1>7
  <2> QED BY <2>1 DEF L1Is
<1> QED BY <1>1, <1>6, <1>7

\* What the first L1 blocks tell rests on them alone.
LEMMA L1SidesSame ==
    ASSUME NEW txs, NEW ys, NEW n \in Nat, \A k \in 1..n : txs[k] = ys[k], NEW i \in 1..n
    PROVE  L1Sides(txs, i) = L1Sides(ys, i)
<1>1. DepositsIn(txs, i - 1) = DepositsIn(ys, i - 1)
  <2>1. \A k \in 1..(i - 1) : k \in 1..n
    OBVIOUS
  <2> QED BY <2>1 DEF DepositsIn
<1> QED BY <1>1 DEF L1Sides

-----------------------------------------------------------------------------
(* The follower: its tables                                                *)

\* What an L1 transaction leaves alone.
SameL2(e, d) ==
    /\ e.blocks = d.blocks /\ e.l2Txs = d.l2Txs /\ e.snapshots = d.snapshots /\ e.accounts = d.accounts
    /\ e.messagesFrom = d.messagesFrom

\* The fields of the database after an L1 transaction.
LEMMA AddL1TxIs ==
    ASSUME L1Is(rollupTxs), Len(rollupTxs) <= MaxL1, NEW d \in Dbs, NEW i \in 1..Len(rollupTxs), NEW e, e = AddL1Tx(d, i)
    PROVE  /\ e \in Dbs /\ SameL2(e, d)
           /\ e.l1Txs = {r \in d.l1Txs : r.tx # rollupTxs[i]} \cup {Row(rollupTxs, i)}
           /\ e.sides = {r \in d.sides : \A s \in L1Sides(rollupTxs, i) : ~SameSide(r, s)} \cup L1Sides(rollupTxs, i)
<1> DEFINE x == {r \in d.l1Txs : r.tx # rollupTxs[i]} \cup {Row(rollupTxs, i)}
<1> DEFINE y == {r \in d.sides : \A s \in L1Sides(rollupTxs, i) : ~SameSide(r, s)} \cup L1Sides(rollupTxs, i)
<1>1. rollupTxs[i] \in L1Tx /\ i \in 1..MaxL1
  <2>1. MaxL1 \in Nat /\ Len(rollupTxs) \in Nat
    BY FollowerAssumption, L1Basics
  <2> QED BY <2>1, L1Basics
<1>2. x \in SUBSET [tx : L1Tx, block : 1..MaxL1]
  <2>1. d.l1Txs \in SUBSET [tx : L1Tx, block : 1..MaxL1]
    BY DEF Dbs
  <2>2. Row(rollupTxs, i) \in [tx : L1Tx, block : 1..MaxL1]
    BY <1>1 DEF Row
  <2> QED BY <2>1, <2>2
<1>3. y \in SUBSET SideSet
  <2>1. d.sides \in SUBSET SideSet
    BY DEF Dbs
  <2>2. L1Sides(rollupTxs, i) \subseteq SideSet
    BY L1SidesAre
  <2> QED BY <2>1, <2>2
<1>4. e = [d EXCEPT !.l1Txs = x, !.sides = y]
  BY DEF AddL1Tx, Merge, Row
<1> HIDE DEF x, y
<1>5. e \in Dbs /\ SameL2(e, d) /\ e.l1Txs = x /\ e.sides = y
  BY <1>2, <1>3, <1>4 DEF Dbs, SameL2
<1> QED BY <1>5 DEF x, y

\* The tables are still sound.
LEMMA AddL1TxTables ==
    ASSUME L1Is(rollupTxs), Len(rollupTxs) <= MaxL1, NEW d, Tables(d), NEW i \in 1..Len(rollupTxs), NEW e, e = AddL1Tx(d, i)
    PROVE  Tables(e)
<1>1. d \in Dbs
  BY DEF Tables
<1>2. /\ e \in Dbs /\ SameL2(e, d)
      /\ e.l1Txs = {r \in d.l1Txs : r.tx # rollupTxs[i]} \cup {Row(rollupTxs, i)}
      /\ e.sides = {r \in d.sides : \A s \in L1Sides(rollupTxs, i) : ~SameSide(r, s)} \cup L1Sides(rollupTxs, i)
  BY <1>1, AddL1TxIs
<1>3. \A s \in L1Sides(rollupTxs, i) : s.chain = "l1"
  BY L1SidesAre
<1>4. \A r \in d.l2Txs : L2SideOf(r).chain = "l2"
  BY DEF L2SideOf, Side
<1>5. \A r, q \in e.l1Txs : r.tx = q.tx => r = q
  <2>1. Row(rollupTxs, i).tx = rollupTxs[i]
    BY DEF Row
  <2> QED BY <1>2, <2>1 DEF Tables
<1>6. \A s \in e.sides : s.chain = "l2" => \E r \in e.l2Txs : s = L2SideOf(r)
  BY <1>2, <1>3 DEF Tables, SameL2
<1>7. \A r \in e.l2Txs : L2SideOf(r) \in e.sides
  <2> SUFFICES ASSUME NEW r \in d.l2Txs PROVE L2SideOf(r) \in e.sides
    BY <1>2 DEF SameL2
  <2> DEFINE t == L2SideOf(r)
  <2>1. t \in d.sides /\ t.chain = "l2"
    BY <1>4 DEF Tables
  <2> HIDE DEF t
  <2>2. t \in e.sides
    BY <1>2, <1>3, <2>1 DEF SameSide
  <2> QED BY <2>2 DEF t
<1>8. /\ \A r, q \in e.l2Txs : r.tx = q.tx => r = q
      /\ \A a \in Accounts : Len(e.accounts[a].state) <= e.accounts[a].block
      /\ \E n \in Nat : \A s \in e.snapshots : Len(s.chain) <= n
  BY <1>2 DEF Tables, SameL2
<1> QED BY <1>2, <1>5, <1>6, <1>7, <1>8 DEF Tables

\* The rows are those of L1's first blocks still, and none is gone that L1
\* has.
LEMMA AddL1TxRows ==
    ASSUME L1Is(rollupTxs), Len(rollupTxs) <= MaxL1, NEW d \in Dbs, NEW n \in 0..Len(rollupTxs), RowsAre(d, rollupTxs, n),
           NEW i \in 1..Len(rollupTxs), NEW e, e = AddL1Tx(d, i)
    PROVE  RowsAre(e, rollupTxs, n)
<1> DEFINE t == rollupTxs[i]
<1>1. /\ e \in Dbs /\ e.messagesFrom = d.messagesFrom
      /\ e.l1Txs = {r \in d.l1Txs : r.tx # t} \cup {Row(rollupTxs, i)}
      /\ e.sides = {r \in d.sides : \A s \in L1Sides(rollupTxs, i) : ~SameSide(r, s)} \cup L1Sides(rollupTxs, i)
  BY AddL1TxIs DEF SameL2
<1>2. n \in Nat /\ i \in Nat /\ i # 0 /\ (i <= n => i \in 1..n) /\ \A j \in 1..n : j \in 1..Len(rollupTxs)
  BY L1Basics
<1>3. \A j, k \in 1..Len(rollupTxs) : rollupTxs[j] = rollupTxs[k] => j = k
  BY DEF L1Is
<1>4. Row(rollupTxs, i).tx = t /\ Row(rollupTxs, i).block = i
  BY DEF Row
<1>5. \A r \in d.l1Txs : r.block \in Nat /\ r.block # 0 /\ (r.block <= n => r.block \in 1..n)
  <2>1. \A r \in d.l1Txs : r.block \in 1..MaxL1
    BY DEF Dbs
  <2>2. MaxL1 \in Nat
    BY FollowerAssumption
  <2> QED BY <1>2, <2>1, <2>2
<1>6. \A r \in e.l1Txs : r.block <= n => rollupTxs[r.block] = r.tx
  BY <1>1, <1>4 DEF RowsAre
<1>7. \A r \in e.l1Txs : r.block > n => \A j \in 1..n : rollupTxs[j] # r.tx
  <2>1. i > n => \A j \in 1..n : rollupTxs[j] # t
    <3> SUFFICES ASSUME i > n, NEW j \in 1..n, rollupTxs[j] = t PROVE FALSE
      OBVIOUS
    <3>1. j = i
      BY <1>2, <1>3
    <3> QED BY <1>2, <3>1
  <2> QED BY <1>1, <1>4, <2>1 DEF RowsAre
<1>8. ASSUME NEW s \in e.sides, s.chain = "l1"
      PROVE  /\ s.block <= n => s.block # 0 /\ s \in L1Sides(rollupTxs, s.block)
             /\ \E r \in e.l1Txs : r.tx = s.tx /\ (r.block <= n <=> s.block <= n)
  <2>1. CASE s \in L1Sides(rollupTxs, i)
    <3>1. s.block = i /\ s.tx = t
      BY <2>1, L1SidesAre
    <3> QED BY <1>1, <1>2, <1>4, <2>1, <3>1
  <2>2. CASE s \in d.sides
    <3>1. s.block <= n => s.block # 0 /\ s \in L1Sides(rollupTxs, s.block)
      BY <1>8, <2>2 DEF RowsAre
    <3>2. PICK r \in d.l1Txs : r.tx = s.tx /\ (r.block <= n <=> s.block <= n)
      BY <1>8, <2>2 DEF RowsAre
    <3>3. CASE r.tx # t
      BY <1>1, <3>1, <3>2, <3>3
    <3>4. CASE r.tx = t
      <4>1. r.block <= n => r.block = i
        <5> SUFFICES ASSUME r.block <= n PROVE r.block = i
          OBVIOUS
        <5>1. rollupTxs[r.block] = t /\ r.block \in 1..Len(rollupTxs)
          BY <1>2, <1>5, <3>4 DEF RowsAre
        <5> QED BY <1>3, <5>1
      <4>2. r.block > n => i > n
        <5> SUFFICES ASSUME r.block > n, i <= n PROVE FALSE
          BY <1>2
        <5>1. i \in 1..n /\ rollupTxs[i] # r.tx
          BY <1>2 DEF RowsAre
        <5> QED BY <3>4, <5>1
      <4>3. i <= n <=> s.block <= n
        <5>1. r.block <= n \/ r.block > n
          BY <1>2, <1>5
        <5>2. i > n => ~(i <= n)
          BY <1>2
        <5> QED BY <3>2, <4>1, <4>2, <5>1, <5>2
      <4> QED BY <1>1, <1>4, <3>1, <3>2, <3>4, <4>3
    <3> QED BY <3>3, <3>4
  <2> QED BY <1>1, <2>1, <2>2
<1>9. ASSUME NEW r \in e.l1Txs, r.block <= n PROVE L1Sides(rollupTxs, r.block) \subseteq e.sides
  <2>1. CASE r = Row(rollupTxs, i)
    BY <1>1, <1>4, <2>1
  <2>2. CASE r \in d.l1Txs /\ r.tx # t
    <3>1. rollupTxs[r.block] = r.tx /\ r.block \in 1..Len(rollupTxs) /\ L1Sides(rollupTxs, r.block) \subseteq d.sides
      BY <1>2, <1>5, <1>9, <2>2 DEF RowsAre
    <3>2. r.block # i
      BY <2>2, <3>1
    <3> SUFFICES ASSUME NEW s \in L1Sides(rollupTxs, r.block) PROVE s \in e.sides
      OBVIOUS
    <3>3. \A q \in L1Sides(rollupTxs, i) : ~SameSide(s, q)
      BY <3>1, <3>2, L1SidesApart
    <3> QED BY <1>1, <3>1, <3>3
  <2> QED BY <1>1, <2>1, <2>2
<1>10. ASSUME NEW j \in 1..n, j < e.messagesFrom, rollupTxs[j].kind # "advance" PROVE Row(rollupTxs, j) \in e.l1Txs
  <2>1. Row(rollupTxs, j) \in d.l1Txs /\ Row(rollupTxs, j).tx = rollupTxs[j]
    BY <1>1, <1>10 DEF RowsAre, Row
  <2>2. CASE j = i
    BY <1>1, <2>2
  <2>3. CASE j # i
    <3>1. rollupTxs[j] # t
      BY <1>2, <1>3, <2>3
    <3> QED BY <1>1, <2>1, <3>1
  <2> QED BY <2>2, <2>3
<1> QED BY <1>6, <1>7, <1>8, <1>9, <1>10 DEF RowsAre

\* The rows of L1's transactions stay, and the new one is there.
LEMMA AddL1TxTells ==
    ASSUME L1Is(rollupTxs), Len(rollupTxs) <= MaxL1, NEW d \in Dbs, NEW i \in 1..Len(rollupTxs), NEW e, e = AddL1Tx(d, i)
    PROVE  /\ HasRow(e, i) /\ \A j \in 1..Len(rollupTxs) : HasRow(d, j) => HasRow(e, j)
           /\ \A r \in e.l1Txs : r \in d.l1Txs \/ (r.tx = rollupTxs[i] /\ r.block = i)
<1>1. e.l1Txs = {r \in d.l1Txs : r.tx # rollupTxs[i]} \cup {Row(rollupTxs, i)}
  BY AddL1TxIs
<1>2. \A j : Row(rollupTxs, j).tx = rollupTxs[j] /\ Row(rollupTxs, j).block = j
  BY DEF Row
<1>3. \A j \in 1..Len(rollupTxs) : HasRow(d, j) => HasRow(e, j)
  <2> SUFFICES ASSUME NEW j \in 1..Len(rollupTxs), HasRow(d, j) PROVE HasRow(e, j)
    OBVIOUS
  <2>1. rollupTxs[j] = rollupTxs[i] => j = i
    BY DEF L1Is
  <2> QED BY <1>1, <1>2, <2>1 DEF HasRow
<1> QED BY <1>1, <1>2, <1>3 DEF HasRow

\* What the rows tell of L1's first blocks rests on these alone.
LEMMA RowsSame ==
    ASSUME NEW d \in Dbs, NEW txs, NEW ys, NEW n \in Nat, \A k \in 1..n : txs[k] = ys[k], RowsAre(d, txs, n)
    PROVE  RowsAre(d, ys, n)
<1>1. \A k \in 1..n : L1Sides(txs, k) = L1Sides(ys, k)
  BY L1SidesSame
<1>2. \A r \in d.l1Txs : r.block <= n => r.block \in 1..n
  <2>1. \A r \in d.l1Txs : r.block \in 1..MaxL1
    BY DEF Dbs
  <2>2. MaxL1 \in Nat
    BY FollowerAssumption
  <2> QED BY <2>1, <2>2
<1>3. \A s \in d.sides : s.block \in Nat /\ (s.block <= n => s.block = 0 \/ s.block \in 1..n)
  <2>1. \A s \in d.sides : s.block \in Nat
    BY DEF Dbs, SideSet
  <2> QED BY <2>1
<1>4. \A k \in 1..n : Row(txs, k) = Row(ys, k)
  BY DEF Row
<1> QED BY <1>1, <1>2, <1>3, <1>4 DEF RowsAre

\* A block's transaction, and the accounts it touches.
Blk == Chains \ {<<>>}
TellBlock(d, block, i) == UpdateAccounts(AddL2Block(d, block, i), block)

\* A block is a number of transactions, each of the three.
LEMMA BlkIs ==
    ASSUME NEW block \in Blk
    PROVE  /\ block \in Seq(BlockTxs) /\ Len(block) \in Nat \ {0} /\ block[Len(block)] \in BlockTxs
           /\ Last(block) = block[Len(block)]
<1>1. block \in Seq(BlockTxs) /\ Len(block) \in Nat \ {0}
  BY EmptySeq DEF Blk, Chains
<1>2. Len(block) \in 1..Len(block)
  BY <1>1
<1> QED BY <1>1, <1>2, ElementOfSeq DEF Last

\* What a block tells of messages.
LEMMA L2SidesAre ==
    ASSUME NEW block \in Blk, NEW t, t = Last(block)
    PROVE  /\ t = "none" => L2Sides(block) = {}
           /\ t # "none" => /\ L2Tx(t) \in L2Sent
                            /\ L2Sides(block) = {L2SideOf([tx |-> L2Tx(t), block |-> Len(block)])}
           /\ L2Sides(block) \subseteq SideSet /\ \A s \in L2Sides(block) : s.chain = "l2"
<1>1. t \in BlockTxs /\ Len(block) \in Nat
  BY BlkIs
<1>2. L2Tx("claim") \in L2Sent /\ L2Tx("send") \in L2Sent /\ L2Tx("claim") # L2Tx("send")
  BY DEF L2Sent, L2Tx
<1> DEFINE x == Side("deposits", 0, "l2", L2Tx("claim"), Len(block))
<1> DEFINE y == Side("withdrawals", 0, "l2", L2Tx("send"), Len(block))
<1>3. x \in SideSet /\ y \in SideSet /\ x.chain = "l2" /\ y.chain = "l2"
  <2> DEFINE n == Len(block)
  <2>1. n \in Nat
    BY <1>1
  <2> HIDE DEF n
  <2> QED BY <1>2, <2>1 DEF Side, SideSet
<1>4. L2SideOf([tx |-> L2Tx("claim"), block |-> Len(block)]) = x
  BY DEF L2SideOf
<1>5. L2SideOf([tx |-> L2Tx("send"), block |-> Len(block)]) = y
  BY <1>2 DEF L2SideOf
<1>6. t = "none" \/ t = "claim" \/ t = "send"
  BY <1>1 DEF BlockTxs
<1>7. L2Sides(block) = IF t = "claim" THEN {x} ELSE IF t = "send" THEN {y} ELSE {}
  BY DEF L2Sides
<1> HIDE DEF x, y
<1> QED BY <1>2, <1>3, <1>4, <1>5, <1>6, <1>7

\* The fields of the database after an L2 block.
BlockTold(e, d, block, i) ==
    /\ e \in Dbs /\ e.l1Txs = d.l1Txs /\ e.snapshots = d.snapshots /\ e.messagesFrom = d.messagesFrom
    /\ e.blocks = {b \in d.blocks : Len(b.block) # Len(block)}
                    \cup {[block |-> block, l1Tx |-> rollupTxs[i], l1Block |-> i]}
    /\ Last(block) = "none" => e.l2Txs = d.l2Txs
    /\ Last(block) # "none" => e.l2Txs = {r \in d.l2Txs : r.tx # L2Tx(Last(block))}
                                        \cup {[tx |-> L2Tx(Last(block)), block |-> Len(block)]}
    /\ e.sides = {r \in d.sides : \A s \in L2Sides(block) : ~SameSide(r, s)} \cup L2Sides(block)
    /\ e.accounts = [a \in Accounts |->
         IF a \in Touched(block) THEN [block |-> Len(block), state |-> block] ELSE d.accounts[a]]

\* They are.
LEMMA TellBlockIs ==
    ASSUME L1Is(rollupTxs), Len(rollupTxs) <= MaxL1, NEW d \in Dbs, NEW block \in Blk, NEW i \in 1..Len(rollupTxs)
    PROVE  BlockTold(TellBlock(d, block, i), d, block, i)
<1> DEFINE e == TellBlock(d, block, i)
<1> DEFINE t == Last(block)
<1> DEFINE blocks == {b \in d.blocks : Len(b.block) # Len(block)} \cup {[block |-> block, l1Tx |-> rollupTxs[i], l1Block |-> i]}
<1> DEFINE rows == IF t = "none" THEN d.l2Txs
                   ELSE {r \in d.l2Txs : r.tx # L2Tx(t)} \cup {[tx |-> L2Tx(t), block |-> Len(block)]}
<1> DEFINE sides == {r \in d.sides : \A s \in L2Sides(block) : ~SameSide(r, s)} \cup L2Sides(block)
<1> DEFINE accounts == [a \in Accounts |->
             IF a \in Touched(block) THEN [block |-> Len(block), state |-> block] ELSE d.accounts[a]]
<1>1. rollupTxs[i] \in L1Tx /\ i \in L1Places /\ Len(block) \in Nat /\ block \in Chains \ {<<>>} /\ block \in Chains
  <2>1. MaxL1 \in Nat /\ Len(rollupTxs) \in Nat
    BY FollowerAssumption, L1Basics
  <2> QED BY <2>1, L1Basics, BlkIs DEF L1Places, Blk
<1>2. blocks \in SUBSET [block : Chains \ {<<>>}, l1Tx : L1Tx, l1Block : L1Places]
  <2>1. d.blocks \in SUBSET [block : Chains \ {<<>>}, l1Tx : L1Tx, l1Block : L1Places]
    BY DEF Dbs
  <2>2. [block |-> block, l1Tx |-> rollupTxs[i], l1Block |-> i] \in [block : Chains \ {<<>>}, l1Tx : L1Tx, l1Block : L1Places]
    BY <1>1
  <2> QED BY <2>1, <2>2
<1>3. rows \in SUBSET [tx : L2Sent, block : Nat]
  <2>1. d.l2Txs \in SUBSET [tx : L2Sent, block : Nat]
    BY DEF Dbs
  <2>2. t # "none" => L2Tx(t) \in L2Sent
    BY L2SidesAre
  <2> DEFINE q == L2Tx(t)
  <2>3. t # "none" => [tx |-> q, block |-> Len(block)] \in [tx : L2Sent, block : Nat]
    <3> HIDE DEF q
    <3> QED BY <1>1, <2>2 DEF q
  <2> QED BY <2>1, <2>3
<1>4. sides \in SUBSET SideSet
  <2>1. d.sides \in SUBSET SideSet
    BY DEF Dbs
  <2> QED BY <2>1, L2SidesAre
<1>5. accounts \in [Accounts -> [block : Nat, state : Chains]]
  <2>1. d.accounts \in [Accounts -> [block : Nat, state : Chains]]
    BY DEF Dbs
  <2> QED BY <1>1, <2>1
<1>6. e = [d EXCEPT !.blocks = blocks, !.l2Txs = rows, !.sides = sides, !.accounts = accounts]
  BY DEF TellBlock, UpdateAccounts, AddL2Block, Merge, Dbs
<1> HIDE DEF blocks, rows, sides, accounts, e
<1>7. /\ e \in Dbs /\ e.blocks = blocks /\ e.l2Txs = rows /\ e.sides = sides /\ e.accounts = accounts
      /\ e.l1Txs = d.l1Txs /\ e.snapshots = d.snapshots /\ e.messagesFrom = d.messagesFrom
  BY <1>2, <1>3, <1>4, <1>5, <1>6 DEF Dbs
<1>8. BlockTold(e, d, block, i)
  BY <1>7 DEF BlockTold, blocks, rows, sides, accounts
<1> QED BY <1>8 DEF e

\* The tables are still sound: a row of an L2 transaction, and the side it
\* tells of, replace those before.
LEMMA TellBlockTables ==
    ASSUME L1Is(rollupTxs), Len(rollupTxs) <= MaxL1, NEW d, Tables(d), NEW block \in Blk, NEW i \in 1..Len(rollupTxs),
           NEW e, e = TellBlock(d, block, i)
    PROVE  Tables(e)
<1> DEFINE t == Last(block)
<1> DEFINE q == [tx |-> L2Tx(t), block |-> Len(block)]
<1>1. d \in Dbs
  BY DEF Tables
<1>2. /\ e \in Dbs /\ e.l1Txs = d.l1Txs /\ e.snapshots = d.snapshots
      /\ t = "none" => e.l2Txs = d.l2Txs
      /\ t # "none" => e.l2Txs = {r \in d.l2Txs : r.tx # L2Tx(t)} \cup {q}
      /\ e.sides = {r \in d.sides : \A s \in L2Sides(block) : ~SameSide(r, s)} \cup L2Sides(block)
      /\ e.accounts = [a \in Accounts |->
                IF a \in Touched(block) THEN [block |-> Len(block), state |-> block] ELSE d.accounts[a]]
  <2>1. BlockTold(e, d, block, i)
    BY <1>1, TellBlockIs
  <2> QED BY <2>1 DEF BlockTold
<1>3. /\ t = "none" => L2Sides(block) = {}
      /\ t # "none" => L2Tx(t) \in L2Sent /\ L2Sides(block) = {L2SideOf(q)}
  BY L2SidesAre
<1>4. q.tx = L2Tx(t)
  OBVIOUS
<1> HIDE DEF q, t
<1>5. \A r, p \in e.l2Txs : r.tx = p.tx => r = p
  <2>1. \A r, p \in d.l2Txs : r.tx = p.tx => r = p
    BY DEF Tables
  <2> QED BY <1>2, <1>4, <2>1
<1>6. ASSUME NEW r, NEW p, r.tx \in L2Sent, p.tx \in L2Sent
      PROVE  SameSide(L2SideOf(r), L2SideOf(p)) <=> r.tx = p.tx
  <2>1. "deposits" # "withdrawals"
    OBVIOUS
  <2>2. r.tx = L2Tx("claim") \/ r.tx = L2Tx("send")
    BY <1>6 DEF L2Sent
  <2>3. p.tx = L2Tx("claim") \/ p.tx = L2Tx("send")
    BY <1>6 DEF L2Sent
  <2>4. L2Tx("claim") # L2Tx("send")
    BY DEF L2Tx
  <2> QED BY <2>1, <2>2, <2>3, <2>4 DEF L2SideOf, SameSide, Side
<1>7. \A r \in d.l2Txs : r.tx \in L2Sent
  BY <1>1 DEF Dbs
<1>8. ASSUME NEW s \in e.sides, s.chain = "l2" PROVE \E r \in e.l2Txs : s = L2SideOf(r)
  <2>1. CASE s \in L2Sides(block)
    BY <1>2, <1>3, <2>1
  <2>2. CASE s \in d.sides /\ \A p \in L2Sides(block) : ~SameSide(s, p)
    <3>1. PICK r \in d.l2Txs : s = L2SideOf(r)
      BY <1>8, <2>2 DEF Tables
    <3>2. t # "none" => r.tx # L2Tx(t)
      BY <1>3, <1>4, <1>6, <1>7, <2>2, <3>1
    <3> QED BY <1>2, <3>1, <3>2
  <2> QED BY <1>2, <2>1, <2>2
<1>9. ASSUME NEW r \in e.l2Txs PROVE L2SideOf(r) \in e.sides
  <2>1. CASE t # "none" /\ r = q
    BY <1>2, <1>3, <2>1
  <2>2. CASE r \in d.l2Txs /\ (t # "none" => r.tx # L2Tx(t))
    <3>1. L2SideOf(r) \in d.sides
      BY <2>2 DEF Tables
    <3>2. \A p \in L2Sides(block) : ~SameSide(L2SideOf(r), p)
      BY <1>3, <1>4, <1>6, <1>7, <2>2
    <3> QED BY <1>2, <3>1, <3>2
  <2> QED BY <1>2, <2>1, <2>2
<1>10. \A a \in Accounts : Len(e.accounts[a].state) <= e.accounts[a].block
  <2>1. Len(block) \in Nat
    BY BlkIs
  <2>2. \A a \in Accounts : Len(d.accounts[a].state) <= d.accounts[a].block
    BY DEF Tables
  <2> QED BY <1>2, <2>1, <2>2
<1>11. /\ \A r, p \in e.l1Txs : r.tx = p.tx => r = p
       /\ \E n \in Nat : \A s \in e.snapshots : Len(s.chain) <= n
  BY <1>2 DEF Tables
<1> QED BY <1>2, <1>5, <1>8, <1>9, <1>10, <1>11 DEF Tables

\* The L1 tables are as before.
LEMMA TellBlockRows ==
    ASSUME L1Is(rollupTxs), Len(rollupTxs) <= MaxL1, NEW d \in Dbs, NEW block \in Blk, NEW i \in 1..Len(rollupTxs),
           NEW e, e = TellBlock(d, block, i), NEW n \in 0..Len(rollupTxs), RowsAre(d, rollupTxs, n)
    PROVE  RowsAre(e, rollupTxs, n)
<1>1. /\ e.l1Txs = d.l1Txs /\ e.messagesFrom = d.messagesFrom
      /\ e.sides = {r \in d.sides : \A s \in L2Sides(block) : ~SameSide(r, s)} \cup L2Sides(block)
  <2>1. BlockTold(e, d, block, i)
    BY TellBlockIs
  <2> QED BY <2>1 DEF BlockTold
<1>2. \A s \in L2Sides(block) : s.chain = "l2"
  BY L2SidesAre
<1>3. \A s \in e.sides : s.chain = "l1" => s \in d.sides
  BY <1>1, <1>2
<1>4. \A s \in d.sides : s.chain = "l1" => s \in e.sides
  BY <1>1, <1>2 DEF SameSide
<1>5. ASSUME NEW r \in d.l1Txs, r.block <= n PROVE L1Sides(rollupTxs, r.block) \subseteq e.sides
  <2>1. L1Sides(rollupTxs, r.block) \subseteq d.sides
    BY <1>5 DEF RowsAre
  <2>2. r.block \in 1..Len(rollupTxs)
    <3>1. r.block \in 1..MaxL1 /\ MaxL1 \in Nat /\ Len(rollupTxs) \in Nat
      BY FollowerAssumption, L1Basics DEF Dbs
    <3> QED BY <1>5, <3>1
  <2>3. \A s \in L1Sides(rollupTxs, r.block) : s.chain = "l1"
    BY <2>2, L1SidesAre
  <2> QED BY <1>4, <2>1, <2>3
<1>6. \A s \in e.sides : s.chain = "l1" =>
         /\ s.block <= n => s.block # 0 /\ s \in L1Sides(rollupTxs, s.block)
         /\ \E r \in e.l1Txs : r.tx = s.tx /\ (r.block <= n <=> s.block <= n)
  BY <1>1, <1>3 DEF RowsAre
<1> QED BY <1>1, <1>5, <1>6 DEF RowsAre

\* Every snapshot but those that are older than two others stays, so the last
\* two do.
LEMMA LatestTwo ==
    ASSUME NEW all, NEW N \in Nat, \A s \in all : Len(s.chain) \in 0..N,
           NEW left, left = {s \in all : ~Two(all, Len(s.chain))}, NEW j \in Nat, SnapshotAt(all, j)
    PROVE  SnapshotAt(left, j)
<1>1. CASE ~Two(all, j)
  <2>1. PICK s \in all : Len(s.chain) = j
    BY <1>1 DEF SnapshotAt
  <2>2. s \in left
    BY <1>1, <2>1
  <2> QED BY <2>1, <2>2 DEF SnapshotAt
<1>2. CASE Two(all, j)
  <2> DEFINE T == {Len(s.chain) : s \in all}
  <2>1. PICK r0 \in all, q0 \in all : j < Len(r0.chain) /\ Len(r0.chain) < Len(q0.chain)
    BY <1>2 DEF Two
  <2>2. T \in SUBSET (0..N) /\ Len(r0.chain) \in T /\ Len(q0.chain) \in T
    OBVIOUS
  <2>3. \A k \in T : \E s \in all : Len(s.chain) = k
    OBVIOUS
  <2>4. \A s \in all : Len(s.chain) \in T
    OBVIOUS
  <2> HIDE DEF T
  <2> DEFINE m == Max(T)
  <2>5. m \in T /\ \A k \in T : k <= m
    <3>1. T # {}
      BY <2>2
    <3> QED BY <2>2, <3>1, MaxOfNumbers
  <2> HIDE DEF m
  <2> DEFINE U == T \ {m}
  <2>6. Len(r0.chain) \in U /\ U \in SUBSET (0..N)
    <3>1. Len(r0.chain) # m
      <4>1. Len(q0.chain) <= m /\ Len(r0.chain) \in 0..N /\ Len(q0.chain) \in 0..N /\ m \in 0..N
        BY <2>2, <2>5
      <4> QED BY <2>1, <4>1
    <3> QED BY <2>2, <3>1
  <2> HIDE DEF U
  <2> DEFINE l == Max(U)
  <2>7. l \in U /\ \A k \in U : k <= l
    <3>1. U # {}
      BY <2>6
    <3> QED BY <2>6, <3>1, MaxOfNumbers
  <2> HIDE DEF l
  <2>8. l < m /\ j < l
    <3>1. l \in T /\ l # m /\ l \in 0..N /\ m \in 0..N
      BY <2>2, <2>5, <2>7 DEF U
    <3>2. l <= m
      BY <2>5, <3>1
    <3>3. Len(r0.chain) <= l /\ Len(r0.chain) \in 0..N
      BY <2>6, <2>7
    <3> QED BY <2>1, <3>1, <3>2, <3>3
  <2>9. PICK q \in all : Len(q.chain) = m
    BY <2>3, <2>5
  <2>10. PICK r \in all : Len(r.chain) = l
    BY <2>3, <2>7 DEF U
  <2>11. ~Two(all, l)
    <3> SUFFICES ASSUME NEW x \in all, NEW y \in all, l < Len(x.chain), Len(x.chain) < Len(y.chain) PROVE FALSE
      BY DEF Two
    <3>1. l \in 0..N /\ m \in 0..N /\ Len(x.chain) \in 0..N /\ Len(y.chain) \in 0..N
      BY <2>2, <2>5, <2>7 DEF U
    <3>2. Len(x.chain) \notin U
      BY <2>7, <3>1
    <3>3. Len(x.chain) = m /\ Len(y.chain) <= m
      BY <2>4, <2>5, <3>2 DEF U
    <3> QED BY <3>1, <3>3
  <2>12. ~Two(all, m)
    <3> SUFFICES ASSUME NEW x \in all, NEW y \in all, m < Len(x.chain) PROVE FALSE
      BY DEF Two
    <3>1. Len(x.chain) <= m /\ m \in 0..N /\ Len(x.chain) \in 0..N
      BY <2>2, <2>4, <2>5
    <3> QED BY <3>1
  <2>13. r \in left /\ q \in left
    BY <2>9, <2>10, <2>11, <2>12
  <2> QED BY <2>8, <2>9, <2>10, <2>13 DEF SnapshotAt, Two
<1> QED BY <1>1, <1>2

\* A snapshot more: the block's number is covered, and so is what was; if
\* two snapshots are newer, it does not stay.
LEMMA SaveSnapshotIs ==
    ASSUME NEW d \in Dbs, NEW N0 \in Nat, \A s \in d.snapshots : Len(s.chain) <= N0,
           NEW block \in Blk, NEW i \in L1Places, NEW e, e = SaveSnapshot(d, block, i),
           NEW added, added = [chain |-> block, l1Block |-> i]
    PROVE  /\ e \in Dbs
           /\ e.l1Txs = d.l1Txs /\ e.l2Txs = d.l2Txs /\ e.blocks = d.blocks /\ e.sides = d.sides
           /\ e.accounts = d.accounts /\ e.messagesFrom = d.messagesFrom
           /\ \A s \in e.snapshots : (s \in d.snapshots /\ Len(s.chain) # Len(block)) \/ s = added
           /\ \E n \in Nat : \A s \in e.snapshots : Len(s.chain) <= n
           /\ SnapshotAt(e.snapshots, Len(block))
           /\ \A j \in Nat : SnapshotAt(d.snapshots, j) => SnapshotAt(e.snapshots, j)
           /\ Two(d.snapshots, Len(block)) => added \notin e.snapshots
<1> DEFINE h == Len(block)
<1> DEFINE all == {s \in d.snapshots : Len(s.chain) # h} \cup {added}
<1> DEFINE left == {s \in all : ~Two(all, Len(s.chain))}
<1> DEFINE N == IF N0 < h THEN h ELSE N0
<1>1. h \in Nat \ {0} /\ N \in Nat
  BY BlkIs
<1>2. d.snapshots \in SUBSET [chain : Chains \ {<<>>}, l1Block : L1Places]
  BY DEF Dbs
<1>3. added \in [chain : Chains \ {<<>>}, l1Block : L1Places]
  BY DEF Blk
<1>4. all \in SUBSET [chain : Chains \ {<<>>}, l1Block : L1Places]
  BY <1>2, <1>3
<1>5. \A s \in d.snapshots : Len(s.chain) \in 0..N0
  <2> SUFFICES ASSUME NEW s \in d.snapshots PROVE Len(s.chain) \in 0..N0
    OBVIOUS
  <2> DEFINE c == s.chain
  <2>1. c \in Blk
    BY <1>2 DEF Blk
  <2> HIDE DEF c
  <2>2. Len(c) \in Nat
    BY <2>1, BlkIs
  <2>3. Len(c) <= N0
    BY DEF c
  <2> QED BY <2>2, <2>3 DEF c
<1>6. added.chain = block
  OBVIOUS
<1>7. \A s \in all : Len(s.chain) \in 0..N
  <2> HIDE DEF h
  <2>1. Len(added.chain) = h
    BY <1>6 DEF h
  <2>2. \A s \in all : (s \in d.snapshots) \/ s = added
    OBVIOUS
  <2> HIDE DEF all
  <2> QED BY <1>1, <1>5, <2>1, <2>2
<1>8. left = {s \in all : \A r \in {q \in all : Len(q.chain) > Len(s.chain)} : {q \in all : Len(q.chain) > Len(r.chain)} = {}}
  <2>1. \A x, y \in 0..N : x > y <=> y < x
    OBVIOUS
  <2> HIDE DEF all, N
  <2> QED BY <1>7, <2>1 DEF Two
<1>9. e = [d EXCEPT !.snapshots = left]
  <2> DEFINE kept ==
        {s \in all : \A r \in {q \in all : Len(q.chain) > Len(s.chain)} : {q \in all : Len(q.chain) > Len(r.chain)} = {}}
  <2>1. e = [d EXCEPT !.snapshots = kept]
    BY DEF SaveSnapshot
  <2>2. left = kept
    BY <1>8
  <2> HIDE DEF kept, left
  <2> QED BY <2>1, <2>2
<1>10. left \in SUBSET [chain : Chains \ {<<>>}, l1Block : L1Places]
  BY <1>4
<1>11. SnapshotAt(all, h)
  BY <1>6 DEF SnapshotAt
<1>12. ASSUME NEW j \in Nat, SnapshotAt(d.snapshots, j) PROVE SnapshotAt(all, j)
  <2>1. CASE \E s \in d.snapshots : Len(s.chain) = j
    <3>1. PICK s \in d.snapshots : Len(s.chain) = j
      BY <2>1
    <3> QED BY <1>6, <3>1 DEF SnapshotAt
  <2>2. CASE Two(d.snapshots, j)
    <3>1. \A s \in d.snapshots : \E r \in all : Len(r.chain) = Len(s.chain)
      BY <1>6
    <3> HIDE DEF all
    <3>2. Two(all, j)
      BY <2>2, <3>1 DEF Two
    <3> QED BY <3>2 DEF SnapshotAt
  <2> QED BY <1>12, <2>1, <2>2 DEF SnapshotAt
<1>13. Two(d.snapshots, h) => Two(all, h)
  <2> SUFFICES ASSUME NEW r \in d.snapshots, NEW q \in d.snapshots, h < Len(r.chain), Len(r.chain) < Len(q.chain)
               PROVE  Two(all, h)
    BY DEF Two
  <2>1. Len(r.chain) # h /\ Len(q.chain) # h
    BY <1>1, <1>5
  <2> QED BY <2>1 DEF Two
<1>14. \A s \in all : (s \in d.snapshots /\ Len(s.chain) # h) \/ s = added
  OBVIOUS
<1>15. added \in left => ~Two(all, h)
  BY <1>6
<1>16. \A s \in left : s \in all
  OBVIOUS
<1>17. \A j \in Nat : SnapshotAt(all, j) => SnapshotAt(left, j)
  <2> SUFFICES ASSUME NEW j \in Nat, SnapshotAt(all, j) PROVE SnapshotAt(left, j)
    OBVIOUS
  <2> HIDE DEF all, N
  <2> QED BY <1>1, <1>7, LatestTwo
<1> HIDE DEF left
<1>18. /\ e \in Dbs /\ e.snapshots = left
       /\ e.l1Txs = d.l1Txs /\ e.l2Txs = d.l2Txs /\ e.blocks = d.blocks /\ e.sides = d.sides
       /\ e.accounts = d.accounts /\ e.messagesFrom = d.messagesFrom
  BY <1>9, <1>10 DEF Dbs
<1> HIDE DEF all, N
<1>19. \E n \in Nat : \A s \in e.snapshots : Len(s.chain) <= n
  <2>1. \A s \in e.snapshots : Len(s.chain) \in 0..N
    BY <1>7, <1>16, <1>18
  <2>2. \A s \in e.snapshots : Len(s.chain) <= N
    BY <1>1, <2>1
  <2> QED BY <1>1, <2>2
<1>20. SnapshotAt(e.snapshots, h)
  BY <1>1, <1>11, <1>17, <1>18
<1> QED BY <1>12, <1>13, <1>14, <1>15, <1>16, <1>17, <1>18, <1>19, <1>20

\* Whether the i-th block of a chain touches an account.
TouchedAt(c, a, i) == a = "feeRecipient" \/ a = c[i]

\* It is so as the account's page has it.
LEMMA TouchedIs ==
    ASSUME NEW c \in Chains, NEW a \in Accounts, NEW i \in 1..Len(c)
    PROVE  a \in Touched(SubSeq(c, 1, i)) <=> TouchedAt(c, a, i)
<1>1. c \in Seq(BlockTxs) /\ i \in Nat /\ i <= Len(c)
  BY LenProperties DEF Chains
<1>2. SubSeq(c, 1, i) \in Seq(BlockTxs) /\ Len(SubSeq(c, 1, i)) = i /\ SubSeq(c, 1, i)[i] = c[i]
  <2>1. i \in 1..i
    BY <1>1
  <2> QED BY <1>1, <2>1, FirstOf
<1>3. Last(SubSeq(c, 1, i)) = c[i]
  BY <1>2 DEF Last
<1> QED BY <1>3 DEF Touched, TouchedAt

\* An account is as the last block left it that touched it.
LEMMA AccountIs ==
    ASSUME NEW c \in Chains, NEW a \in Accounts
    PROVE  \E t \in 0..Len(c) : /\ AccountState(c, a) = SubSeq(c, 1, t)
                                /\ t # 0 => TouchedAt(c, a, t)
                                /\ \A i \in 1..Len(c) : TouchedAt(c, a, i) => i <= t
<1> DEFINE T == {0} \cup {i \in DOMAIN c : a \in Touched(SubSeq(c, 1, i))}
<1>1. Len(c) \in Nat /\ DOMAIN c = 1..Len(c)
  BY LenProperties DEF Chains
<1>2. T = {0} \cup {i \in 1..Len(c) : TouchedAt(c, a, i)}
  BY <1>1, TouchedIs
<1>3. AccountState(c, a) = SubSeq(c, 1, Max(T))
  BY DEF AccountState
<1> HIDE DEF T
<1>4. T \in SUBSET (0..Len(c)) /\ T # {}
  BY <1>1, <1>2
<1>5. Max(T) \in T /\ \A k \in T : k <= Max(T)
  BY <1>1, <1>4, MaxOfNumbers
<1> DEFINE t == Max(T)
<1> HIDE DEF t
<1>6. t \in T /\ \A k \in T : k <= t
  BY <1>5 DEF t
<1>7. t \in 0..Len(c) /\ (t # 0 => TouchedAt(c, a, t)) /\ \A i \in 1..Len(c) : TouchedAt(c, a, i) => i <= t
  BY <1>2, <1>4, <1>6
<1>8. AccountState(c, a) = SubSeq(c, 1, t)
  BY <1>3 DEF t
<1> QED BY <1>7, <1>8

\* The blocks after the last that touched it do not change an account.
LEMMA AccountOfFirst ==
    ASSUME NEW c \in Chains, NEW a \in Accounts, NEW m \in 0..Len(c),
           Len(AccountState(c, a)) <= m
    PROVE  AccountState(SubSeq(c, 1, m), a) = AccountState(c, a)
<1> DEFINE y == SubSeq(c, 1, m)
<1>1. c \in Seq(BlockTxs) /\ Len(c) \in Nat /\ m \in Nat /\ m <= Len(c)
  BY LenProperties DEF Chains
<1>2. y \in Seq(BlockTxs) /\ Len(y) = m /\ \A i \in 1..m : y[i] = c[i]
  BY <1>1, FirstOf
<1>3. \A k \in 0..m : SubSeq(y, 1, k) = SubSeq(c, 1, k)
  BY <1>1, FirstOfMore
<1> HIDE DEF y
<1>4. PICK t \in 0..Len(c) : /\ AccountState(c, a) = SubSeq(c, 1, t)
                             /\ t # 0 => TouchedAt(c, a, t)
                             /\ \A i \in 1..Len(c) : TouchedAt(c, a, i) => i <= t
  BY AccountIs
<1>5. PICK u \in 0..Len(y) : /\ AccountState(y, a) = SubSeq(y, 1, u)
                             /\ u # 0 => TouchedAt(y, a, u)
                             /\ \A i \in 1..Len(y) : TouchedAt(y, a, i) => i <= u
  BY <1>2, AccountIs DEF Chains
<1>6. \A i \in 1..m : TouchedAt(y, a, i) <=> TouchedAt(c, a, i)
  BY <1>2 DEF TouchedAt
<1>7. t \in Nat /\ t <= m
  <2>1. t \in Nat /\ t <= Len(c)
    BY <1>1
  <2>2. Len(SubSeq(c, 1, t)) = t
    BY <1>1, <2>1, FirstOf
  <2>3. Len(AccountState(c, a)) = t
    BY <1>4, <2>2
  <2> QED BY <2>1, <2>3
<1>8. t = u
  <2>1. t <= u
    <3>1. CASE t = 0
      BY <1>2, <3>1
    <3>2. CASE t # 0
      <4>1. t \in 1..m
        BY <1>7, <3>2
      <4> QED BY <1>2, <1>4, <1>5, <1>6, <3>2, <4>1
    <3> QED BY <3>1, <3>2
  <2>2. u <= t
    <3>1. CASE u = 0
      BY <1>7, <3>1
    <3>2. CASE u # 0
      <4>1. u \in 1..m /\ u \in 1..Len(c)
        BY <1>1, <1>2, <3>2
      <4> QED BY <1>4, <1>5, <1>6, <3>2, <4>1
    <3> QED BY <3>1, <3>2
  <2>3. u \in Nat
    BY <1>2
  <2> QED BY <1>7, <2>1, <2>2, <2>3
<1>9. SubSeq(y, 1, t) = SubSeq(c, 1, t)
  <2>1. t \in 0..m
    BY <1>1, <1>7
  <2> QED BY <1>3, <2>1
<1> QED BY <1>4, <1>5, <1>8, <1>9 DEF y

\* A block changes the accounts it touches, and no others.
LEMMA AccountAfter ==
    ASSUME NEW c \in Blk, NEW a \in Accounts
    PROVE  /\ a \in Touched(c) => AccountState(c, a) = c
           /\ a \notin Touched(c) => AccountState(c, a) = AccountState(SubSeq(c, 1, Len(c) - 1), a)
<1>1. c \in Chains /\ c \in Seq(BlockTxs) /\ Len(c) \in Nat \ {0}
  BY BlkIs DEF Blk
<1>2. SubSeq(c, 1, Len(c)) = c /\ Len(c) \in 1..Len(c)
  BY <1>1, SubSeqFull
<1>3. a \in Touched(c) <=> TouchedAt(c, a, Len(c))
  BY <1>1, <1>2, TouchedIs
<1>4. PICK t \in 0..Len(c) : /\ AccountState(c, a) = SubSeq(c, 1, t)
                             /\ t # 0 => TouchedAt(c, a, t)
                             /\ \A i \in 1..Len(c) : TouchedAt(c, a, i) => i <= t
  BY <1>1, AccountIs
<1>5. CASE a \in Touched(c)
  <2>1. t = Len(c)
    <3>1. Len(c) <= t
      BY <1>2, <1>3, <1>4, <1>5
    <3>2. Len(c) \in Nat /\ t \in Nat /\ t <= Len(c)
      BY <1>1
    <3> QED BY <3>1, <3>2
  <2> QED BY <1>2, <1>4, <1>5, <2>1
<1>6. CASE a \notin Touched(c)
  <2>1. t # Len(c)
    BY <1>1, <1>3, <1>4, <1>6
  <2>2. t \in Nat /\ t <= Len(c) - 1 /\ t <= Len(c) /\ Len(c) - 1 \in 0..Len(c)
    BY <1>1, <2>1
  <2>3. Len(SubSeq(c, 1, t)) = t
    BY <1>1, <2>2, FirstOf
  <2>4. Len(AccountState(c, a)) <= Len(c) - 1
    BY <1>4, <2>2, <2>3
  <2>5. AccountState(SubSeq(c, 1, Len(c) - 1), a) = AccountState(c, a)
    <3> DEFINE m == Len(c) - 1
    <3>1. m \in 0..Len(c) /\ Len(AccountState(c, a)) <= m
      BY <2>2, <2>4
    <3> HIDE DEF m
    <3>2. AccountState(SubSeq(c, 1, m), a) = AccountState(c, a)
      BY <1>1, <3>1, AccountOfFirst
    <3> QED BY <3>2 DEF m
  <2> QED BY <1>6, <2>5
<1> QED BY <1>5, <1>6

\* An account's state is of a chain's first blocks.
LEMMA AccountIsChain ==
    ASSUME NEW c \in Chains, NEW a \in Accounts
    PROVE  AccountState(c, a) \in Chains /\ Len(AccountState(c, a)) \in Nat /\ Len(AccountState(c, a)) <= Len(c)
<1>1. PICK t \in 0..Len(c) : AccountState(c, a) = SubSeq(c, 1, t)
  BY AccountIs
<1>2. c \in Seq(BlockTxs) /\ t \in Nat /\ t <= Len(c)
  BY LenProperties DEF Chains
<1>3. SubSeq(c, 1, t) \in Seq(BlockTxs) /\ Len(SubSeq(c, 1, t)) = t
  BY <1>2, FirstOf
<1> QED BY <1>1, <1>2, <1>3 DEF Chains

\* The database after a block that is not on it yet.
NewDb(d, block, i) ==
    LET indexed == IndexBlock(d, block, i)
    IN IF Len(block) % SNAPSHOT_INTERVAL = 0 THEN SaveSnapshot(indexed, block, i) ELSE indexed
NewBlockTold(e, d, block, i) ==
    /\ Tables(e) /\ \A n \in 0..Len(rollupTxs) : RowsAre(d, rollupTxs, n) => RowsAre(e, rollupTxs, n)
    /\ HasRow(e, i) /\ \A j \in 1..Len(rollupTxs) : HasRow(d, j) => HasRow(e, j)
    /\ \A r \in e.l1Txs : r \in d.l1Txs \/ (r.tx = rollupTxs[i] /\ r.block = i)
    /\ e.blocks = {b \in d.blocks : Len(b.block) # Len(block)}
                    \cup {[block |-> block, l1Tx |-> rollupTxs[i], l1Block |-> i]}
    /\ Last(block) = "none" => e.l2Txs = d.l2Txs
    /\ Last(block) # "none" => e.l2Txs = {r \in d.l2Txs : r.tx # L2Tx(Last(block))}
                                        \cup {[tx |-> L2Tx(Last(block)), block |-> Len(block)]}
    /\ e.accounts = [a \in Accounts |->
         IF a \in Touched(block) THEN [block |-> Len(block), state |-> block] ELSE d.accounts[a]]
    /\ e.messagesFrom = d.messagesFrom
SnapshotTold(e, d, block, i) ==
    LET added == [chain |-> block, l1Block |-> i]
    IN /\ \A s \in e.snapshots : s \in d.snapshots \/ s = added
       /\ Len(block) % SNAPSHOT_INTERVAL = 0 =>
            /\ SnapshotAt(e.snapshots, Len(block))
            /\ \A s \in e.snapshots : Len(s.chain) = Len(block) => s = added
            /\ Two(d.snapshots, Len(block)) => added \notin e.snapshots
       /\ Len(block) % SNAPSHOT_INTERVAL # 0 => e.snapshots = d.snapshots
       /\ \A j \in Nat : SnapshotAt(d.snapshots, j) => SnapshotAt(e.snapshots, j)

\* What it tells is of the block and its L1 transaction.
LEMMA NewDbIs ==
    ASSUME L1Is(rollupTxs), Len(rollupTxs) <= MaxL1, NEW d, Tables(d), NEW block \in Blk, NEW i \in 1..Len(rollupTxs)
    PROVE  NewBlockTold(NewDb(d, block, i), d, block, i) /\ SnapshotTold(NewDb(d, block, i), d, block, i)
<1> DEFINE b == TellBlock(d, block, i)
<1> DEFINE x == AddL1Tx(b, i)
<1> DEFINE z == SaveSnapshot(x, block, i)
<1> DEFINE e == NewDb(d, block, i)
<1> DEFINE saves == Len(block) % SNAPSHOT_INTERVAL = 0
<1>1. e = IF saves THEN z ELSE x
  BY DEF NewDb, IndexBlock, TellBlock
<1>2. d \in Dbs
  BY DEF Tables
<1>3. BlockTold(b, d, block, i)
  BY <1>2, TellBlockIs
<1>4. Tables(b)
  BY TellBlockTables
<1>5. \A n \in 0..Len(rollupTxs) : RowsAre(d, rollupTxs, n) => RowsAre(b, rollupTxs, n)
  BY <1>2, TellBlockRows
<1> HIDE DEF b
<1>6. b \in Dbs
  BY <1>4 DEF Tables
<1>7. Tables(x) /\ x \in Dbs
  <2>1. Tables(x)
    BY <1>4, AddL1TxTables
  <2> QED BY <2>1 DEF Tables
<1>8. \A n \in 0..Len(rollupTxs) : RowsAre(b, rollupTxs, n) => RowsAre(x, rollupTxs, n)
  BY <1>6, AddL1TxRows
<1>9. SameL2(x, b)
  BY <1>6, AddL1TxIs
<1>10. /\ HasRow(x, i) /\ \A j \in 1..Len(rollupTxs) : HasRow(b, j) => HasRow(x, j)
       /\ \A r \in x.l1Txs : r \in b.l1Txs \/ (r.tx = rollupTxs[i] /\ r.block = i)
  BY <1>6, AddL1TxTells
<1> HIDE DEF x
<1>11. NewBlockTold(x, d, block, i)
  <2>1. \A j : HasRow(d, j) => HasRow(b, j)
    BY <1>3 DEF BlockTold, HasRow
  <2>2. \A n \in 0..Len(rollupTxs) : RowsAre(d, rollupTxs, n) => RowsAre(x, rollupTxs, n)
    BY <1>5, <1>8
  <2>3. \A j \in 1..Len(rollupTxs) : HasRow(d, j) => HasRow(x, j)
    BY <1>10, <2>1
  <2>4. \A r \in x.l1Txs : r \in d.l1Txs \/ (r.tx = rollupTxs[i] /\ r.block = i)
    BY <1>3, <1>10 DEF BlockTold
  <2>5. x.blocks = b.blocks /\ x.l2Txs = b.l2Txs /\ x.accounts = b.accounts /\ x.messagesFrom = b.messagesFrom
    BY <1>9 DEF SameL2
  <2> QED BY <1>3, <1>7, <1>10, <2>2, <2>3, <2>4, <2>5 DEF NewBlockTold, BlockTold
<1>12. x.snapshots = d.snapshots
  BY <1>3, <1>9 DEF BlockTold, SameL2
<1>13. CASE ~saves
  <2>1. e = x
    BY <1>1, <1>13
  <2>2. SnapshotTold(x, d, block, i)
    BY <1>12, <1>13 DEF SnapshotTold
  <2> HIDE DEF e
  <2>3. NewBlockTold(e, d, block, i) /\ SnapshotTold(e, d, block, i)
    BY <1>11, <2>1, <2>2
  <2> QED BY <2>3 DEF e
<1>14. CASE saves
  <2> DEFINE added == [chain |-> block, l1Block |-> i]
  <2>1. e = z
    BY <1>1, <1>14
  <2>2. PICK N0 \in Nat : \A s \in x.snapshots : Len(s.chain) <= N0
    BY <1>7 DEF Tables
  <2>3. i \in L1Places
    <3>1. MaxL1 \in Nat /\ Len(rollupTxs) \in Nat
      BY FollowerAssumption, L1Basics
    <3> QED BY <3>1 DEF L1Places
  <2>4. /\ z \in Dbs
        /\ z.l1Txs = x.l1Txs /\ z.l2Txs = x.l2Txs /\ z.blocks = x.blocks /\ z.sides = x.sides
        /\ z.accounts = x.accounts /\ z.messagesFrom = x.messagesFrom
        /\ \A s \in z.snapshots : (s \in x.snapshots /\ Len(s.chain) # Len(block)) \/ s = added
        /\ \E n \in Nat : \A s \in z.snapshots : Len(s.chain) <= n
        /\ SnapshotAt(z.snapshots, Len(block))
        /\ \A j \in Nat : SnapshotAt(x.snapshots, j) => SnapshotAt(z.snapshots, j)
        /\ Two(x.snapshots, Len(block)) => added \notin z.snapshots
    BY <1>7, <2>2, <2>3, SaveSnapshotIs
  <2> HIDE DEF z
  <2>5. Tables(z)
    BY <1>7, <2>4 DEF Tables
  <2>6. \A n \in 0..Len(rollupTxs) : RowsAre(d, rollupTxs, n) => RowsAre(z, rollupTxs, n)
    <3> SUFFICES ASSUME NEW n \in 0..Len(rollupTxs), RowsAre(d, rollupTxs, n) PROVE RowsAre(z, rollupTxs, n)
      OBVIOUS
    <3>1. RowsAre(x, rollupTxs, n)
      BY <1>11 DEF NewBlockTold
    <3> QED BY <2>4, <3>1 DEF RowsAre
  <2>7. \A j : HasRow(z, j) <=> HasRow(x, j)
    BY <2>4 DEF HasRow
  <2>8. NewBlockTold(z, d, block, i)
    BY <1>11, <2>4, <2>5, <2>6, <2>7 DEF NewBlockTold
  <2>9. SnapshotTold(z, d, block, i)
    BY <1>12, <1>14, <2>4 DEF SnapshotTold
  <2> HIDE DEF e
  <2>10. NewBlockTold(e, d, block, i) /\ SnapshotTold(e, d, block, i)
    BY <2>1, <2>8, <2>9
  <2> QED BY <2>10 DEF e
<1> QED BY <1>13, <1>14

\* The database after the L1 transactions of a kind up to the upTo-th.
Kinds == {"deposit", "withdrawal claim"}
AllTold(e, d, kind, from, upTo) ==
    /\ Tables(e) /\ SameL2(e, d)
    /\ \A n \in 0..Len(rollupTxs) : RowsAre(d, rollupTxs, n) => RowsAre(e, rollupTxs, n)
    /\ \A j \in 1..Len(rollupTxs) : HasRow(d, j) => HasRow(e, j)
    /\ \A r \in e.l1Txs : r \in d.l1Txs \/ (r.block \in 1..Len(rollupTxs) /\ r.tx.kind = kind)
    /\ \A j \in 1..upTo : from <= j /\ rollupTxs[j].kind = kind => HasRow(e, j)

\* Each of them has its row then.
LEMMA AddUpToIs ==
    ASSUME L1Is(rollupTxs), Len(rollupTxs) <= MaxL1, NEW d, Tables(d), NEW kind \in Kinds, NEW from \in Nat,
           NEW upTo \in 0..Len(rollupTxs)
    PROVE  AllTold(AddUpTo(upTo, kind, from, d), d, kind, from, upTo)
<1> DEFINE r == AddUpTo(upTo, kind, from, d)
<1> DEFINE s == [i \in 1..upTo |-> i]
<1> DEFINE Op(e, i) == AddIf(kind, from, e, i)
<1>1. Len(rollupTxs) \in Nat /\ upTo \in Nat /\ upTo <= Len(rollupTxs)
  BY L1Basics
<1>2. s \in Seq(Nat) /\ Len(s) = upTo /\ \A i \in 1..upTo : s[i] = i
  BY <1>1
<1>3. FoldIs(r, Op, d, s)
  BY DEF FoldIs, AddUpTo
<1> HIDE DEF s
<1>4. FoldSteps(r, Op, d, s)
  BY <1>2, <1>3, FoldLeftSteps
<1> HIDE DEF r
<1>5. PICK g : /\ g[0] = d
               /\ \A k \in 1..Len(s) : g[k] = AddIf(kind, from, g[k - 1], s[k])
               /\ r = g[Len(s)]
  BY <1>4 DEF FoldSteps
<1> DEFINE Body(e, k) ==
      /\ Tables(e) /\ SameL2(e, d)
      /\ \A n \in 0..Len(rollupTxs) : RowsAre(d, rollupTxs, n) => RowsAre(e, rollupTxs, n)
      /\ \A j \in 1..Len(rollupTxs) : HasRow(d, j) => HasRow(e, j)
      /\ \A q \in e.l1Txs : q \in d.l1Txs \/ (q.block \in 1..Len(rollupTxs) /\ q.tx.kind = kind)
      /\ \A j \in 1..Len(rollupTxs) : j <= k /\ from <= j /\ rollupTxs[j].kind = kind => HasRow(e, j)
<1> DEFINE Good(k) == k <= upTo => Body(g[k], k)
<1> DEFINE T == {k \in Nat : Good(k)}
<1>6. Good(0)
  BY <1>5 DEF SameL2
<1>7. ASSUME NEW k \in Nat, Good(k) PROVE Good(k + 1)
  <2> SUFFICES ASSUME k + 1 <= upTo PROVE Body(g[k + 1], k + 1)
    OBVIOUS
  <2> DEFINE b == g[k]
  <2> DEFINE i == k + 1
  <2> DEFINE e == AddL1Tx(b, i)
  <2>1. i \in 1..Len(rollupTxs) /\ i \in 1..Len(s) /\ i - 1 = k /\ k <= upTo /\ s[i] = i
    BY <1>1, <1>2
  <2>2. g[i] = IF i >= from /\ rollupTxs[i].kind = kind THEN e ELSE b
    <3>1. g[i] = AddIf(kind, from, g[i - 1], s[i])
      BY <1>5, <2>1
    <3>2. g[i] = AddIf(kind, from, b, i)
      BY <2>1, <3>1
    <3> QED BY <3>2 DEF AddIf
  <2>3. Body(b, k)
    BY <1>7, <2>1
  <2>4. \A j \in 1..Len(rollupTxs) : j <= i => j <= k \/ j = i
    OBVIOUS
  <2> HIDE DEF b, i
  <2>5. CASE i >= from /\ rollupTxs[i].kind = kind
    <3>1. g[i] = e
      BY <2>2, <2>5
    <3>2. b \in Dbs
      BY <2>3 DEF Tables
    <3>3. Tables(e)
      BY <2>1, <2>3, AddL1TxTables
    <3>4. SameL2(e, b)
      BY <2>1, <3>2, AddL1TxIs
    <3>5. \A n \in 0..Len(rollupTxs) : RowsAre(b, rollupTxs, n) => RowsAre(e, rollupTxs, n)
      BY <2>1, <3>2, AddL1TxRows
    <3>6. /\ HasRow(e, i) /\ \A j \in 1..Len(rollupTxs) : HasRow(b, j) => HasRow(e, j)
          /\ \A q \in e.l1Txs : q \in b.l1Txs \/ (q.tx = rollupTxs[i] /\ q.block = i)
      BY <2>1, <3>2, AddL1TxTells
    <3> HIDE DEF e
    <3>7. SameL2(e, d)
      BY <2>3, <3>4 DEF SameL2
    <3>8. \A n \in 0..Len(rollupTxs) : RowsAre(d, rollupTxs, n) => RowsAre(e, rollupTxs, n)
      BY <2>3, <3>5
    <3>9. \A j \in 1..Len(rollupTxs) : HasRow(d, j) => HasRow(e, j)
      BY <2>3, <3>6
    <3>10. \A q \in e.l1Txs : q \in d.l1Txs \/ (q.block \in 1..Len(rollupTxs) /\ q.tx.kind = kind)
      BY <2>1, <2>3, <2>5, <3>6
    <3>11. \A j \in 1..Len(rollupTxs) : j <= i /\ from <= j /\ rollupTxs[j].kind = kind => HasRow(e, j)
      BY <2>3, <2>4, <3>6
    <3>12. Body(e, i)
      BY <3>3, <3>7, <3>8, <3>9, <3>10, <3>11
    <3> HIDE DEF Body
    <3>13. Body(g[i], i)
      BY <3>1, <3>12
    <3> QED BY <3>13 DEF i
  <2>6. CASE ~(i >= from /\ rollupTxs[i].kind = kind)
    <3>1. g[i] = b
      BY <2>2, <2>6
    <3>2. ~(from <= i /\ rollupTxs[i].kind = kind)
      <4>1. i \in Nat
        BY <2>1
      <4> QED BY <2>6, <4>1
    <3>3. Body(b, i)
      BY <2>3, <2>4, <3>2
    <3> HIDE DEF Body
    <3>4. Body(g[i], i)
      BY <3>1, <3>3
    <3> QED BY <3>4 DEF i
  <2> QED BY <2>5, <2>6
<1> HIDE DEF Good
<1>8. Nat \subseteq T
  <2>1. 0 \in T
    BY <1>6
  <2>2. ASSUME NEW k \in Nat, k \in T PROVE k + 1 \in T
    <3>1. Good(k) /\ k + 1 \in Nat
      BY <2>2
    <3>2. Good(k + 1)
      BY <1>7, <3>1
    <3> QED BY <3>1, <3>2
  <2> HIDE DEF T
  <2>3. \A k \in Nat : k \in T => k + 1 \in T
    BY <2>2
  <2> QED BY <2>1, <2>3, SetInduction
<1>9. Good(upTo)
  BY <1>1, <1>8
<1>10. Body(r, upTo)
  <2>1. upTo <= upTo
    BY <1>1
  <2>2. Body(g[upTo], upTo)
    BY <1>9, <2>1 DEF Good
  <2> HIDE DEF Body
  <2> QED BY <1>2, <1>5, <2>2
<1>11. \A j \in 1..upTo : j \in 1..Len(rollupTxs) /\ j <= upTo
  BY <1>1
<1>12. AllTold(r, d, kind, from, upTo)
  BY <1>10, <1>11 DEF AllTold
<1> QED BY <1>12 DEF r

\* The database after the messages of all L1 blocks.
Indexed(d) ==
    [AddUpTo(Len(rollupTxs), "withdrawal claim", d.messagesFrom,
             AddUpTo(Len(rollupTxs), "deposit", d.messagesFrom, d)) EXCEPT !.messagesFrom = Len(rollupTxs) + 1]
MessagesTold(e, d) ==
    /\ Tables(e)
    /\ e.blocks = d.blocks /\ e.l2Txs = d.l2Txs /\ e.snapshots = d.snapshots /\ e.accounts = d.accounts
    /\ e.messagesFrom = Len(rollupTxs) + 1
    /\ \A n \in 0..Len(rollupTxs) : RowsAre(d, rollupTxs, n) => RowsAre(e, rollupTxs, n)
    /\ \A j \in 1..Len(rollupTxs) : HasRow(d, j) => HasRow(e, j)
    /\ \A r \in e.l1Txs : r \in d.l1Txs \/ (r.block \in 1..Len(rollupTxs) /\ r.tx.kind # "advance")

\* All deposits and claims have their rows then.
LEMMA IndexMessagesIs ==
    ASSUME L1Is(rollupTxs), Len(rollupTxs) <= MaxL1, NEW d, Tables(d)
    PROVE  MessagesTold(Indexed(d), d)
<1> DEFINE from == d.messagesFrom
<1> DEFINE x == AddUpTo(Len(rollupTxs), "deposit", from, d)
<1> DEFINE y == AddUpTo(Len(rollupTxs), "withdrawal claim", from, x)
<1> DEFINE e == Indexed(d)
<1> DEFINE N == Len(rollupTxs)
<1>1. N \in Nat /\ MaxL1 \in Nat /\ N <= MaxL1
  BY L1Basics, FollowerAssumption
<1>2. d \in Dbs /\ from \in 0..(MaxL1 + 1)
  BY DEF Tables, Dbs
<1>3. from \in Nat /\ Len(rollupTxs) \in 0..Len(rollupTxs)
  BY <1>1, <1>2
<1>4. "deposit" \in Kinds /\ "withdrawal claim" \in Kinds
  BY DEF Kinds
<1>5. e = [y EXCEPT !.messagesFrom = N + 1]
  BY DEF Indexed
<1> HIDE DEF from
<1>6. AllTold(x, d, "deposit", from, Len(rollupTxs))
  BY <1>3, <1>4, AddUpToIs
<1> HIDE DEF x
<1>7. Tables(x)
  BY <1>6 DEF AllTold
<1>8. AllTold(y, x, "withdrawal claim", from, Len(rollupTxs))
  BY <1>3, <1>4, <1>7, AddUpToIs
<1> HIDE DEF y, e
<1>9. Tables(y) /\ y \in Dbs
  <2>1. Tables(y)
    BY <1>8 DEF AllTold
  <2> QED BY <2>1 DEF Tables
<1>10. /\ e.l1Txs = y.l1Txs /\ e.l2Txs = y.l2Txs /\ e.blocks = y.blocks /\ e.sides = y.sides
       /\ e.snapshots = y.snapshots /\ e.accounts = y.accounts /\ e.messagesFrom = N + 1 /\ e \in Dbs
  <2>1. N + 1 \in 0..(MaxL1 + 1)
    BY <1>1
  <2> HIDE DEF N
  <2> QED BY <1>5, <1>9, <2>1 DEF Dbs
<1>11. Tables(e)
  BY <1>9, <1>10 DEF Tables
<1>12. e.blocks = d.blocks /\ e.l2Txs = d.l2Txs /\ e.snapshots = d.snapshots /\ e.accounts = d.accounts
  BY <1>6, <1>8, <1>10 DEF AllTold, SameL2
<1>13. y.messagesFrom = from
  BY <1>6, <1>8 DEF AllTold, SameL2, from
<1>14. \A j \in 1..N : (HasRow(d, j) => HasRow(x, j)) /\ (HasRow(x, j) => HasRow(y, j))
  BY <1>6, <1>8 DEF AllTold
<1>15. \A j \in 1..N : HasRow(y, j) <=> HasRow(e, j)
  BY <1>10 DEF HasRow
<1>16. \A j \in 1..N : from <= j /\ rollupTxs[j].kind # "advance" => HasRow(e, j)
  <2> SUFFICES ASSUME NEW j \in 1..N, from <= j, rollupTxs[j].kind # "advance" PROVE HasRow(e, j)
    OBVIOUS
  <2>1. rollupTxs[j] \in L1Tx
    BY L1Basics
  <2>2. rollupTxs[j].kind \in {"advance", "deposit", "withdrawal claim"}
    BY <2>1, TxKinds
  <2>3. rollupTxs[j].kind = "deposit" => HasRow(x, j)
    BY <1>6 DEF AllTold
  <2>4. rollupTxs[j].kind = "withdrawal claim" => HasRow(y, j)
    BY <1>8 DEF AllTold
  <2> QED BY <1>14, <1>15, <2>2, <2>3, <2>4
<1>17. ASSUME NEW n \in 0..N, RowsAre(d, rollupTxs, n) PROVE RowsAre(e, rollupTxs, n)
  <2>1. RowsAre(x, rollupTxs, n)
    BY <1>6, <1>17 DEF AllTold
  <2>2. RowsAre(y, rollupTxs, n)
    BY <1>8, <2>1 DEF AllTold
  <2>3. \A i \in 1..n : i \in 1..N /\ i \in Nat
    BY <1>1
  <2>4. ASSUME NEW i \in 1..n, rollupTxs[i].kind # "advance" PROVE Row(rollupTxs, i) \in e.l1Txs
    <3>1. CASE i < from
      <4>1. Row(rollupTxs, i) \in y.l1Txs
        BY <1>13, <2>2, <2>4, <3>1 DEF RowsAre
      <4> QED BY <1>10, <4>1
    <3>2. CASE ~(i < from)
      <4>1. from <= i
        BY <1>3, <2>3, <3>2
      <4>2. HasRow(e, i)
        BY <1>16, <2>3, <2>4, <4>1
      <4> QED BY <4>2 DEF HasRow
    <3> QED BY <3>1, <3>2
  <2> HIDE DEF N
  <2> QED BY <1>10, <2>2, <2>4 DEF RowsAre
<1>18. ASSUME NEW r \in e.l1Txs PROVE r \in d.l1Txs \/ (r.block \in 1..N /\ r.tx.kind # "advance")
  <2>1. r \in x.l1Txs \/ (r.block \in 1..N /\ r.tx.kind = "withdrawal claim")
    BY <1>8, <1>10 DEF AllTold
  <2>2. r \in x.l1Txs => r \in d.l1Txs \/ (r.block \in 1..N /\ r.tx.kind = "deposit")
    BY <1>6 DEF AllTold
  <2> QED BY <2>1, <2>2
<1>19. MessagesTold(e, d)
  BY <1>10, <1>11, <1>12, <1>14, <1>15, <1>17, <1>18 DEF MessagesTold
<1> QED BY <1>19 DEF e

\* An indexing that fails half-way has told the messages up to some block.
PartOf(e, d) ==
    \E n \in 0..Len(rollupTxs) :
        e \in {AddUpTo(n, "deposit", d.messagesFrom, d),
              AddUpTo(n, "withdrawal claim", d.messagesFrom,
                      AddUpTo(Len(rollupTxs), "deposit", d.messagesFrom, d))}
PartTold(e, d) ==
    /\ Tables(e) /\ SameL2(e, d)
    /\ \A n \in 0..Len(rollupTxs) : RowsAre(d, rollupTxs, n) => RowsAre(e, rollupTxs, n)
    /\ \A j \in 1..Len(rollupTxs) : HasRow(d, j) => HasRow(e, j)
    /\ \A r \in e.l1Txs : r \in d.l1Txs \/ (r.block \in 1..Len(rollupTxs) /\ r.tx.kind # "advance")
LEMMA PartOfMessagesIs ==
    ASSUME L1Is(rollupTxs), Len(rollupTxs) <= MaxL1, NEW d, Tables(d), NEW e, PartOf(e, d)
    PROVE  PartTold(e, d)
<1> DEFINE x(n) == AddUpTo(n, "deposit", d.messagesFrom, d)
<1>1. Len(rollupTxs) \in Nat /\ MaxL1 \in Nat
  BY L1Basics, FollowerAssumption
<1>2. d.messagesFrom \in Nat /\ Len(rollupTxs) \in 0..Len(rollupTxs)
  <2>1. d.messagesFrom \in 0..(MaxL1 + 1)
    BY DEF Tables, Dbs
  <2> QED BY <1>1, <2>1
<1>3. "deposit" \in Kinds /\ "withdrawal claim" \in Kinds
  BY DEF Kinds
<1>4. \A n \in 0..Len(rollupTxs) : AllTold(x(n), d, "deposit", d.messagesFrom, n)
  BY <1>2, <1>3, AddUpToIs
<1> DEFINE y == x(Len(rollupTxs))
<1>5. AllTold(y, d, "deposit", d.messagesFrom, Len(rollupTxs))
  BY <1>2, <1>4
<1>6. PICK n \in 0..Len(rollupTxs) :
        e = x(n) \/ e = AddUpTo(n, "withdrawal claim", d.messagesFrom, y)
  BY DEF PartOf
<1>7. CASE e = x(n)
  <2>1. AllTold(e, d, "deposit", d.messagesFrom, n)
    BY <1>4, <1>7
  <2> QED BY <2>1 DEF AllTold, PartTold
<1> HIDE DEF y
<1>8. CASE e = AddUpTo(n, "withdrawal claim", d.messagesFrom, y)
  <2>1. Tables(y)
    BY <1>5 DEF AllTold
  <2>2. AllTold(e, y, "withdrawal claim", d.messagesFrom, n)
    BY <1>2, <1>3, <1>8, <2>1, AddUpToIs
  <2>3. SameL2(e, d) /\ Tables(e)
    BY <1>5, <2>2 DEF AllTold, SameL2
  <2> QED BY <1>5, <2>2, <2>3 DEF AllTold, PartTold
<1> QED BY <1>6, <1>7, <1>8

-----------------------------------------------------------------------------
(* The follower: stop and start                                            *)

\* The database after a rewind.
Rewound(e, kept, from) ==
    /\ e \in Dbs
    /\ e.l1Txs = {r \in db.l1Txs : r.block < from}
    /\ e.l2Txs = {r \in db.l2Txs : r.block <= Len(kept)}
    /\ e.blocks = {b \in db.blocks : Len(b.block) <= Len(kept)}
    /\ \A s : s \in e.sides <=>
         /\ s \in db.sides
         /\ \A r \in db.l1Txs : r.block >= from => r.tx # s.tx
         /\ \A r \in db.l2Txs : r.block > Len(kept) => r.tx # s.tx
    /\ e.snapshots = db.snapshots
    /\ e.accounts = [a \in Accounts |->
         IF db.accounts[a].block > Len(kept) THEN [block |-> Len(kept), state |-> AccountState(kept, a)] ELSE db.accounts[a]]
    /\ e.messagesFrom = IF db.messagesFrom < from THEN db.messagesFrom ELSE from

\* It has the rows that came before, and the sides of their transactions.
LEMMA RewindIs ==
    ASSUME Tables(db), NEW kept \in Chains, NEW from \in L1Places
    PROVE  Rewound(Rewind(kept, from), kept, from)
<1> DEFINE n == Len(kept)
<1> DEFINE kept1 == {r \in db.l1Txs : r.block < from}
<1> DEFINE kept2 == {r \in db.l2Txs : r.block <= n}
<1> DEFINE keptB == {b \in db.blocks : Len(b.block) <= n}
<1> DEFINE gone == {r.tx : r \in {q \in db.l1Txs : q.block >= from} \cup {q \in db.l2Txs : q.block > n}}
<1> DEFINE keptS == {s \in db.sides : s.tx \notin gone}
<1> DEFINE acc == [a \in Accounts |->
         IF db.accounts[a].block > n THEN [block |-> n, state |-> AccountState(kept, a)] ELSE db.accounts[a]]
<1> DEFINE mf == IF db.messagesFrom < from THEN db.messagesFrom ELSE from
<1> DEFINE e == Rewind(kept, from)
<1>1. db \in Dbs
  BY DEF Tables
<1>2. n \in Nat
  BY LenProperties DEF Chains
<1>3. /\ e = [db EXCEPT !.l1Txs = kept1, !.l2Txs = kept2, !.blocks = keptB, !.sides = keptS,
                        !.accounts = acc, !.messagesFrom = mf]
  <2>1. e = [db EXCEPT !.l1Txs = kept1, !.l2Txs = kept2, !.blocks = keptB, !.sides = keptS,
                        !.accounts = [a \in Accounts |->
            IF db.accounts[a].block > n THEN [block |-> n, state |-> AccountState(kept, a)] ELSE db.accounts[a]],
                        !.messagesFrom = mf]
    BY <1>1 DEF Rewind, Dbs
  <2> QED BY <2>1
<1>4. acc \in [Accounts -> [block : Nat, state : Chains]]
  <2>1. ASSUME NEW a \in Accounts PROVE db.accounts[a] \in [block : Nat, state : Chains]
    BY <1>1 DEF Dbs
  <2>2. ASSUME NEW a \in Accounts PROVE [block |-> n, state |-> AccountState(kept, a)] \in [block : Nat, state : Chains]
    <3>1. AccountState(kept, a) \in Chains
      BY AccountIsChain
    <3> QED BY <1>2, <3>1
  <2> QED BY <2>1, <2>2
<1>5. mf \in 0..(MaxL1 + 1)
  <2>1. MaxL1 \in Nat /\ db.messagesFrom \in 0..(MaxL1 + 1)
    BY <1>1, FollowerAssumption DEF Dbs
  <2> QED BY <2>1 DEF L1Places
<1>6. /\ kept1 \in SUBSET [tx : L1Tx, block : 1..MaxL1] /\ kept2 \in SUBSET [tx : L2Sent, block : Nat]
      /\ keptB \in SUBSET [block : Chains \ {<<>>}, l1Tx : L1Tx, l1Block : L1Places] /\ keptS \in SUBSET SideSet
  BY <1>1 DEF Dbs
<1>7. \A s : s \in keptS <=>
         /\ s \in db.sides
         /\ \A r \in db.l1Txs : r.block >= from => r.tx # s.tx
         /\ \A r \in db.l2Txs : r.block > n => r.tx # s.tx
  OBVIOUS
<1> HIDE DEF acc, mf, keptS, e, gone
<1>8. /\ e \in Dbs /\ e.l1Txs = kept1 /\ e.l2Txs = kept2 /\ e.blocks = keptB /\ e.sides = keptS
      /\ e.snapshots = db.snapshots /\ e.accounts = acc /\ e.messagesFrom = mf
  <2> HIDE DEF kept1, kept2, keptB
  <2> QED BY <1>1, <1>3, <1>4, <1>5, <1>6 DEF Dbs
<1>9. Rewound(e, kept, from)
  BY <1>7, <1>8 DEF Rewound, acc, mf
<1> QED BY <1>9 DEF e

\* It is a database.
LEMMA RewindTables ==
    ASSUME Tables(db), NEW kept \in Chains, NEW from \in L1Places, NEW e, Rewound(e, kept, from)
    PROVE  Tables(e)
<1> DEFINE n == Len(kept)
<1>1. db \in Dbs /\ e \in Dbs /\ n \in Nat
  BY LenProperties DEF Tables, Rewound, Chains
<1>2. \A s : s \in e.sides <=>
         /\ s \in db.sides
         /\ \A r \in db.l1Txs : r.block >= from => r.tx # s.tx
         /\ \A r \in db.l2Txs : r.block > n => r.tx # s.tx
  BY DEF Rewound
<1>3. \A r : r \in e.l2Txs <=> r \in db.l2Txs /\ r.block <= n
  BY DEF Rewound
<1>4. \A r, q \in e.l1Txs : r.tx = q.tx => r = q
  BY DEF Rewound, Tables
<1>5. \A r, q \in db.l2Txs : r.tx = q.tx => r = q
  BY DEF Tables
<1>6. ASSUME NEW s \in e.sides, s.chain = "l2" PROVE \E r \in e.l2Txs : s = L2SideOf(r)
  <2>1. PICK r \in db.l2Txs : s = L2SideOf(r)
    BY <1>2, <1>6 DEF Tables
  <2>2. s.tx = r.tx
    BY <2>1 DEF L2SideOf, Side
  <2>3. r.block \in Nat
    BY <1>1 DEF Dbs
  <2>4. r.block <= n
    BY <1>1, <1>2, <2>2, <2>3
  <2> QED BY <1>3, <2>1, <2>4
<1>7. ASSUME NEW r \in e.l2Txs PROVE L2SideOf(r) \in e.sides
  <2> DEFINE s == L2SideOf(r)
  <2>1. r \in db.l2Txs /\ r.block <= n
    BY <1>3
  <2>2. s \in db.sides
    BY <2>1 DEF Tables
  <2>3. s.tx = r.tx
    BY DEF L2SideOf, Side
  <2>4. r.tx \in L2Sent
    BY <1>1, <2>1 DEF Dbs
  <2>5. ASSUME NEW q \in db.l1Txs PROVE q.tx # r.tx
    <3>1. q.tx \in L1Tx
      BY <1>1 DEF Dbs
    <3> QED BY <2>4, <3>1, TxKinds
  <2>6. ASSUME NEW q \in db.l2Txs, q.block > n PROVE q.tx # r.tx
    <3>1. q.block \in Nat
      BY <1>1 DEF Dbs
    <3>2. q # r
      BY <1>1, <2>1, <2>6, <3>1
    <3> QED BY <1>5, <2>1, <3>2
  <2> HIDE DEF s
  <2>7. s \in e.sides
    BY <1>2, <2>2, <2>3, <2>5, <2>6
  <2> QED BY <2>7 DEF s
<1>8. ASSUME NEW a \in Accounts PROVE Len(e.accounts[a].state) <= e.accounts[a].block
  <2>1. e.accounts[a] = IF db.accounts[a].block > n THEN [block |-> n, state |-> AccountState(kept, a)] ELSE db.accounts[a]
    BY DEF Rewound
  <2>2. Len(AccountState(kept, a)) <= n
    BY AccountIsChain
  <2>3. Len(db.accounts[a].state) <= db.accounts[a].block
    BY DEF Tables
  <2> HIDE DEF n
  <2> QED BY <2>1, <2>2, <2>3
<1>9. \E k \in Nat : \A s \in e.snapshots : Len(s.chain) <= k
  BY DEF Tables, Rewound
<1>10. \A r, q \in e.l2Txs : r.tx = q.tx => r = q
  BY <1>3, <1>5
<1> QED BY <1>1, <1>4, <1>6, <1>7, <1>8, <1>9, <1>10 DEF Tables

\* Its rows are right when those before are.
LEMMA RewindRows ==
    ASSUME L1Is(rollupTxs), Len(rollupTxs) <= MaxL1, Tables(db), NEW kept \in Chains, NEW from \in L1Places,
           NEW e, Rewound(e, kept, from),
           NEW n \in 0..Len(rollupTxs), from <= n, RowsAre(db, rollupTxs, n), NEW N, N = Len(rollupTxs)
    PROVE  RowsAre(e, rollupTxs, N) /\ \A r \in e.l1Txs : r.block < from /\ r.block <= n
<1>1. db \in Dbs /\ e \in Dbs /\ N \in Nat /\ n \in Nat /\ n <= N /\ from \in Nat /\ MaxL1 \in Nat
  <2>1. Len(rollupTxs) \in Nat /\ MaxL1 \in Nat
    BY L1Basics, FollowerAssumption
  <2> QED BY <2>1 DEF Tables, Rewound, L1Places
<1>2. \A s : s \in e.sides <=>
         /\ s \in db.sides
         /\ \A r \in db.l1Txs : r.block >= from => r.tx # s.tx
         /\ \A r \in db.l2Txs : r.block > Len(kept) => r.tx # s.tx
  BY DEF Rewound
<1>3. \A r : r \in e.l1Txs <=> r \in db.l1Txs /\ r.block < from
  BY DEF Rewound
<1>4. \A r \in db.l1Txs : r.block \in Nat /\ r.block # 0 /\ r.tx \in L1Tx
  BY <1>1 DEF Dbs
<1>5. \A r \in e.l1Txs : r.block < from /\ r.block <= n /\ r.block <= N /\ r \in db.l1Txs
  BY <1>1, <1>3, <1>4
<1>6. \A s \in db.sides : s.block \in Nat
  BY <1>1 DEF Dbs, SideSet
<1>7. ASSUME NEW r \in e.l1Txs PROVE rollupTxs[r.block] = r.tx
  BY <1>5 DEF RowsAre
<1>8. ASSUME NEW s \in e.sides, s.chain = "l1"
      PROVE  /\ s.block # 0 /\ s \in L1Sides(rollupTxs, s.block) /\ s.block <= N
             /\ \E r \in e.l1Txs : r.tx = s.tx
  <2>1. s \in db.sides
    BY <1>2
  <2>2. PICK r \in db.l1Txs : r.tx = s.tx /\ (r.block <= n <=> s.block <= n)
    BY <1>8, <2>1 DEF RowsAre
  <2>3. r.block < from
    BY <1>1, <1>2, <1>4, <2>2
  <2>4. r \in e.l1Txs
    BY <1>3, <2>3
  <2>5. s.block <= n
    BY <1>5, <2>2, <2>4
  <2>6. s.block # 0 /\ s \in L1Sides(rollupTxs, s.block)
    BY <1>8, <2>1, <2>5 DEF RowsAre
  <2>7. s.block <= N
    BY <1>1, <1>6, <2>1, <2>5
  <2> QED BY <2>2, <2>4, <2>6, <2>7
<1>9. ASSUME NEW r \in e.l1Txs PROVE L1Sides(rollupTxs, r.block) \subseteq e.sides
  <2> SUFFICES ASSUME NEW s \in L1Sides(rollupTxs, r.block) PROVE s \in e.sides
    OBVIOUS
  <2>1. r \in db.l1Txs /\ r.block <= n /\ r.block < from
    BY <1>5
  <2>2. s \in db.sides
    BY <2>1 DEF RowsAre
  <2>3. r.block \in 1..Len(rollupTxs)
    BY <1>1, <1>4, <1>5
  <2>4. s.tx = r.tx
    BY <1>7, <2>3, L1SidesAre
  <2>5. ASSUME NEW q \in db.l1Txs, q.block >= from PROVE q.tx # s.tx
    <3>1. q # r
      BY <1>1, <1>4, <2>1, <2>5
    <3> QED BY <2>1, <2>4, <3>1 DEF Tables
  <2>6. ASSUME NEW q \in db.l2Txs PROVE q.tx # s.tx
    <3>1. q.tx \in L2Sent
      BY <1>1 DEF Dbs
    <3>2. r.tx \in L1Tx
      BY <1>4, <2>1
    <3> QED BY <2>4, <3>1, <3>2, TxKinds
  <2> QED BY <1>2, <2>2, <2>5, <2>6
<1>10. ASSUME NEW i \in 1..N, i < e.messagesFrom, rollupTxs[i].kind # "advance" PROVE Row(rollupTxs, i) \in e.l1Txs
  <2>1. e.messagesFrom = IF db.messagesFrom < from THEN db.messagesFrom ELSE from
    BY DEF Rewound
  <2>2. db.messagesFrom \in Nat
    BY <1>1 DEF Dbs
  <2>3. i < from /\ i < db.messagesFrom
    BY <1>1, <1>10, <2>1, <2>2
  <2>4. i \in 1..n
    BY <1>1, <2>3
  <2>5. Row(rollupTxs, i) \in db.l1Txs
    BY <1>10, <2>3, <2>4 DEF RowsAre
  <2> QED BY <1>3, <2>3, <2>5 DEF Row
<1>11. \A r \in e.l1Txs : ~(r.block > N)
  BY <1>1, <1>4, <1>5
<1> QED BY <1>5, <1>7, <1>8, <1>9, <1>10, <1>11 DEF RowsAre

\* Tables that tell a chain tell its first blocks.
LEMMA TellsFirst ==
    ASSUME NEW d \in Dbs, NEW c \in Chains, TellsOf(d, c), NEW k \in Nat, k <= Len(c), NEW v, v = SubSeq(c, 1, k)
    PROVE  TellsOf(d, v) /\ v \in Chains /\ Len(v) = k
<1>1. Len(c) \in Nat
  BY LenProperties DEF Chains
<1>2. v \in Chains /\ Len(v) = k /\ \A i \in 1..k : v[i] = c[i]
  BY FirstOf DEF Chains
<1>3. \A j \in 0..k : SubSeq(v, 1, j) = SubSeq(c, 1, j)
  BY FirstOfMore DEF Chains
<1>4. \A b \in d.blocks : Len(b.block) \in Nat
  <2> SUFFICES ASSUME NEW b \in d.blocks PROVE Len(b.block) \in Nat
    OBVIOUS
  <2>1. b.block \in Seq(BlockTxs)
    BY DEF Dbs, Chains
  <2> QED BY <2>1, LenProperties
<1>5. \A r \in d.l2Txs : r.block \in Nat
  BY DEF Dbs
<1>6. ASSUME NEW b \in d.blocks, Len(b.block) <= k
      PROVE  b.block = SubSeq(v, 1, Len(b.block)) /\ b.l1Tx = Advance(b.block)
  <2> DEFINE j == Len(b.block)
  <2>1. j \in 0..k /\ j <= Len(c)
    BY <1>1, <1>4, <1>6
  <2>2. b.block = SubSeq(c, 1, j) /\ b.l1Tx = Advance(b.block)
    BY <2>1 DEF TellsOf
  <2> HIDE DEF j
  <2>3. b.block = SubSeq(v, 1, j)
    BY <1>3, <2>1, <2>2
  <2> QED BY <2>2, <2>3 DEF j
<1>7. \A j \in 1..k : j \in 1..Len(c)
  BY <1>1
<1>8. ASSUME NEW j \in 1..k PROVE \E b \in d.blocks : Len(b.block) = j
  BY <1>7 DEF TellsOf
<1>9. ASSUME NEW r \in d.l2Txs, r.block <= k
      PROVE  r.block # 0 /\ v[r.block] # "none" /\ r.tx = L2Tx(v[r.block])
  <2>1. r.block <= Len(c)
    BY <1>1, <1>5, <1>9
  <2>2. r.block # 0 /\ c[r.block] # "none" /\ r.tx = L2Tx(c[r.block])
    BY <2>1 DEF TellsOf
  <2>3. r.block \in 1..k
    BY <1>5, <1>9, <2>2
  <2> QED BY <1>2, <2>2, <2>3
<1>10. ASSUME NEW j \in 1..k, v[j] # "none" PROVE [tx |-> L2Tx(v[j]), block |-> j] \in d.l2Txs
  BY <1>2, <1>7, <1>10 DEF TellsOf
<1> QED BY <1>2, <1>6, <1>8, <1>9, <1>10 DEF TellsOf

\* A rewound database tells what it told of the chain it is rewound to.
LEMMA RewindTells ==
    ASSUME Tables(db), NEW kept \in Chains, NEW from, NEW e, Rewound(e, kept, from), TellsOf(db, kept)
    PROVE  TellsOf(e, kept)
<1>1. /\ e.l2Txs = {r \in db.l2Txs : r.block <= Len(kept)}
      /\ e.blocks = {b \in db.blocks : Len(b.block) <= Len(kept)}
  BY DEF Rewound
<1>2. Len(kept) \in Nat
  BY LenProperties DEF Chains
<1>3. ASSUME NEW j \in 1..Len(kept) PROVE \E b \in e.blocks : Len(b.block) = j
  <2>1. PICK b \in db.blocks : Len(b.block) = j
    BY DEF TellsOf
  <2>2. j <= Len(kept)
    BY <1>2
  <2> QED BY <1>1, <2>1, <2>2
<1>4. ASSUME NEW j \in 1..Len(kept), kept[j] # "none" PROVE [tx |-> L2Tx(kept[j]), block |-> j] \in e.l2Txs
  <2>1. [tx |-> L2Tx(kept[j]), block |-> j] \in db.l2Txs
    BY <1>4 DEF TellsOf
  <2>2. j <= Len(kept)
    BY <1>2
  <2> QED BY <1>1, <2>1, <2>2
<1>5. \A b \in e.blocks : Len(b.block) <= Len(kept) => b.block = SubSeq(kept, 1, Len(b.block)) /\ b.l1Tx = Advance(b.block)
  BY <1>1 DEF TellsOf
<1>6. \A r \in e.l2Txs : r.block <= Len(kept) => r.block # 0 /\ kept[r.block] # "none" /\ r.tx = L2Tx(kept[r.block])
  BY <1>1 DEF TellsOf
<1> QED BY <1>3, <1>4, <1>5, <1>6 DEF TellsOf

\* The snapshot it starts from is the latest that is not above a block.
LatestUpTo(s, m) ==
    \/ s = [chain |-> <<>>, l1Block |-> 0] /\ \A r \in db.snapshots : ~(Len(r.chain) <= m)
    \/ s \in db.snapshots /\ Len(s.chain) <= m /\ \A r \in db.snapshots : Len(r.chain) <= m => Len(r.chain) <= Len(s.chain)

\* `loadSnapshot` answers it, or the empty chain.
LEMMA SnapshotIs ==
    ASSUME Tables(db), NEW m \in Nat
    PROVE  LatestUpTo(Snapshot(m), m)
<1> DEFINE fit == {s \in db.snapshots : Len(s.chain) <= m}
<1> DEFINE s == Snapshot(m)
<1>1. CASE fit = {}
  <2>1. s = [chain |-> <<>>, l1Block |-> 0]
    BY <1>1 DEF Snapshot
  <2> HIDE DEF s
  <2>2. \A r \in db.snapshots : ~(Len(r.chain) <= m)
    BY <1>1
  <2>3. LatestUpTo(s, m)
    BY <2>1, <2>2 DEF LatestUpTo
  <2> QED BY <2>3 DEF s
<1>2. CASE fit # {}
  <2>1. s = CHOOSE q \in fit : \A r \in fit : Len(r.chain) <= Len(q.chain)
    BY <1>2 DEF Snapshot
  <2> HIDE DEF s
  <2> DEFINE Lens == {Len(r.chain) : r \in fit}
  <2>2. \A r \in fit : Len(r.chain) \in 0..m
    <3> SUFFICES ASSUME NEW r \in fit PROVE Len(r.chain) \in 0..m
      OBVIOUS
    <3>1. r.chain \in Seq(BlockTxs)
      BY DEF Tables, Dbs, Chains
    <3>2. Len(r.chain) \in Nat
      BY <3>1, LenProperties
    <3> QED BY <3>2
  <2>3. Lens \in SUBSET (0..m) /\ Lens # {}
    BY <1>2, <2>2
  <2> HIDE DEF Lens
  <2>4. Max(Lens) \in Lens /\ \A k \in Lens : k <= Max(Lens)
    BY <2>3, MaxOfNumbers
  <2>5. PICK q \in fit : Len(q.chain) = Max(Lens)
    BY <2>4 DEF Lens
  <2>6. \A r \in fit : Len(r.chain) <= Len(q.chain)
    BY <2>4, <2>5 DEF Lens
  <2>7. s \in fit /\ \A r \in fit : Len(r.chain) <= Len(s.chain)
    BY <2>1, <2>6
  <2>8. LatestUpTo(s, m)
    BY <2>7 DEF LatestUpTo
  <2> QED BY <2>8 DEF s
<1> QED BY <1>1, <1>2

\* What a start from a snapshot does.
StartsFrom(s, before) ==
    /\ LatestUpTo(s, Len(HeadIn(rollupTxs))) /\ s.chain \in Chains /\ s.l1Block \in L1Places
    /\ before \in L1Places /\ before = IF s.l1Block < L1_REINDEX_BLOCKS THEN 0 ELSE s.l1Block - L1_REINDEX_BLOCKS
    /\ step = "down" /\ rebuilt' = s.chain /\ committed' = db' /\ step' = "poll" /\ watched' = TRUE
    /\ rollupTxs' = rollupTxs /\ logs' = logs
    /\ usual' = (usual /\ ~Moved(s) /\ ~Behind(s) /\ ~Unnoticed)
    /\ StillOnL1 => fromBlock' = s.l1Block /\ db' = db
    /\ ~StillOnL1 => fromBlock' = before /\ Rewound(db', s.chain, before) /\ Tables(db')

\* `Start` does.
LEMMA StartIs ==
    ASSUME FollowerShape, StartFollower
    PROVE  \E s, before : StartsFrom(s, before)
<1> DEFINE s == Snapshot(Len(HeadIn(rollupTxs)))
<1> DEFINE before == Max({0, s.l1Block - L1_REINDEX_BLOCKS})
<1>1. L1Is(rollupTxs) /\ Tables(db)
  BY DEF FollowerShape
<1>2. Len(HeadIn(rollupTxs)) \in Nat
  BY <1>1, HeadOfL1
<1>3. LatestUpTo(s, Len(HeadIn(rollupTxs)))
  BY <1>1, <1>2, SnapshotIs
<1>4. /\ rebuilt' = s.chain /\ committed' = db' /\ step' = "poll" /\ watched' = TRUE /\ step = "down"
      /\ rollupTxs' = rollupTxs /\ logs' = logs
      /\ usual' = (usual /\ ~Moved(s) /\ ~Behind(s) /\ ~Unnoticed)
      /\ StillOnL1 => fromBlock' = s.l1Block /\ db' = db
      /\ ~StillOnL1 => fromBlock' = before /\ db' = Rewind(s.chain, before)
  BY DEF StartFollower
<1> HIDE DEF s
<1>5. s.chain \in Chains /\ s.l1Block \in L1Places /\ MaxL1 \in Nat /\ L1_REINDEX_BLOCKS \in Nat
  <2>1. MaxL1 \in Nat /\ L1_REINDEX_BLOCKS \in Nat
    BY FollowerAssumption
  <2>2. 0 \in L1Places
    BY <2>1 DEF L1Places
  <2>3. <<>> \in Chains
    BY EmptySeq DEF Chains
  <2>4. s \in db.snapshots => s.chain \in Chains /\ s.l1Block \in L1Places
    BY <1>1 DEF Tables, Dbs
  <2> QED BY <1>3, <2>1, <2>2, <2>3, <2>4 DEF LatestUpTo
<1>6. before = IF s.l1Block < L1_REINDEX_BLOCKS THEN 0 ELSE s.l1Block - L1_REINDEX_BLOCKS
  <2> DEFINE g == s.l1Block - L1_REINDEX_BLOCKS
  <2>1. g \in Int /\ 0 \in Int /\ s.l1Block \in Nat
    BY <1>5 DEF L1Places
  <2> HIDE DEF g
  <2>2. Max({0, g}) = IF 0 < g THEN g ELSE 0
    BY <2>1, MaxOfTwo
  <2>3. 0 < g <=> ~(s.l1Block < L1_REINDEX_BLOCKS) /\ g # 0
    BY <1>5, <2>1 DEF g
  <2> QED BY <2>2, <2>3 DEF g
<1> HIDE DEF before
<1>7. before \in L1Places
  <2>1. s.l1Block \in 0..MaxL1
    BY <1>5 DEF L1Places
  <2> QED BY <1>5, <1>6, <2>1 DEF L1Places
<1>8. Rewound(Rewind(s.chain, before), s.chain, before)
  BY <1>1, <1>5, <1>7, RewindIs
<1>9. ~StillOnL1 => Rewound(db', s.chain, before) /\ Tables(db')
  <2> SUFFICES ASSUME ~StillOnL1 PROVE Rewound(db', s.chain, before) /\ Tables(db')
    OBVIOUS
  <2> DEFINE e == Rewind(s.chain, before)
  <2>1. db' = e
    BY <1>4
  <2> HIDE DEF e
  <2>2. Rewound(e, s.chain, before)
    BY <1>8 DEF e
  <2>3. Tables(e)
    BY <1>1, <1>5, <1>7, <2>2, RewindTables
  <2> QED BY <2>1, <2>2, <2>3
<1>10. StartsFrom(s, before)
  BY <1>3, <1>4, <1>5, <1>6, <1>7, <1>9 DEF StartsFrom
<1> QED BY <1>10

\* A start that is not behind finds the rows of the posts of its chain.
LEMMA RowsOfKnown ==
    ASSUME L1Is(rollupTxs), Tables(db), NEW n \in 0..Len(rollupTxs), RowsAre(db, rollupTxs, n),
           NEW s, s.chain \in Chains, ~Behind(s), PostedIn(rollupTxs, s.chain),
           NEW i \in PostsAt(rollupTxs), Len(rollupTxs[i].what) <= Len(s.chain), i <= n
    PROVE  HasRow(db, i)
<1> DEFINE x == rollupTxs[i].what
<1> DEFINE c == s.chain
<1>1. /\ i \in 1..Len(rollupTxs) /\ x \in Chains /\ Len(x) \in Nat \ {0} /\ rollupTxs[i] = Advance(x)
      /\ Len(rollupTxs) \in Nat
  BY L1Basics
<1>2. x = SubSeq(c, 1, Len(x))
  BY PostedIs
<1>3. Len(c) \in Nat /\ DOMAIN c = 1..Len(c)
  <2>1. c \in Seq(BlockTxs)
    BY DEF Chains
  <2> HIDE DEF c
  <2> QED BY <2>1, LenProperties
<1>4. Len(x) \in DOMAIN c
  BY <1>1, <1>3
<1>5. PICK r \in db.l1Txs : r.tx = Advance(SubSeq(c, 1, Len(x)))
  BY <1>4 DEF Behind
<1>6. r.tx = rollupTxs[i]
  BY <1>1, <1>2, <1>5
<1> HIDE DEF x, c
<1>7. r \in [tx : L1Tx, block : 1..MaxL1]
  BY <1>5 DEF Tables, Dbs
<1>8. r.block \in Nat /\ r.block # 0 /\ r = [tx |-> r.tx, block |-> r.block]
  BY <1>7, FollowerAssumption
<1>9. i \in 1..n /\ n \in Nat /\ n <= Len(rollupTxs)
  BY <1>1
<1>10. ~(r.block > n)
  BY <1>6, <1>9 DEF RowsAre
<1>11. r.block \in 1..Len(rollupTxs) /\ r.block <= n
  BY <1>8, <1>9, <1>10, <1>1
<1>12. rollupTxs[r.block] = rollupTxs[i]
  BY <1>6, <1>11 DEF RowsAre
<1>13. r.block = i
  BY <1>1, <1>11, <1>12 DEF L1Is
<1>14. r = Row(rollupTxs, i)
  BY <1>6, <1>8, <1>13 DEF Row
<1> QED BY <1>14 DEF HasRow

\* A follower that starts where it stopped goes on from the snapshot.
LEMMA StartsInStep ==
    ASSUME FollowerShape, NEW s, NEW before, StartsFrom(s, before), usual',
           NEW top \in Chains, NEW m \in Nat, InStep(top, m)
    PROVE  InStep(top, Len(s.chain))'
<1> DEFINE k == Len(s.chain)
<1> DEFINE N == Len(rollupTxs)
<1> DEFINE H == HeadIn(rollupTxs)
<1>1. L1Is(rollupTxs) /\ Tables(db) /\ db \in Dbs
  BY DEF FollowerShape, Tables
<1>2. /\ m <= Len(top) /\ PostedIn(rollupTxs, top) /\ TellsOf(db, top)
      /\ \A b \in db.blocks : OnPlace(b) /\ Len(b.block) <= Len(top)
      /\ \A r \in db.l2Txs : r.block <= Len(top)
      /\ \A a \in Accounts : \E j \in m..Len(top) : db.accounts[a].state = AccountState(SubSeq(top, 1, j), a)
      /\ SnapsAre(db, m, Len(top))
      /\ SeesAll(db, Len(top)) /\ logs \subseteq PostsAt(rollupTxs)
  BY DEF InStep
<1>3. StillOnL1
  BY <1>2 DEF StillOnL1
<1>4. ~Behind(s) /\ db' = db /\ committed' = db /\ s.chain \in Chains /\ LatestUpTo(s, Len(H))
  BY <1>3 DEF StartsFrom
<1>5. /\ Len(top) \in Nat /\ Len(H) \in Nat /\ Len(top) <= Len(H) /\ N \in Nat
      /\ \A j \in 0..Len(top) : PostedIn(rollupTxs, SubSeq(top, 1, j))
  BY <1>1, <1>2, PostedIs, HeadOfL1, L1Basics
<1>6. k \in Nat /\ DOMAIN s.chain = 1..k /\ (k = 0 => s.chain = <<>>)
  <2> DEFINE c == s.chain
  <2>1. c \in Seq(BlockTxs)
    BY <1>4 DEF Chains
  <2> HIDE DEF c
  <2>2. Len(c) \in Nat /\ DOMAIN c = 1..Len(c) /\ (Len(c) = 0 => c = <<>>)
    BY <2>1, LenProperties, EmptySeq
  <2> QED BY <2>2 DEF c
<1>7. k <= Len(top)
  <2>1. CASE k = 0
    BY <1>5, <2>1
  <2>2. CASE k # 0
    <3>1. k \in DOMAIN s.chain
      BY <1>6, <2>2
    <3>2. PICK r \in db.l1Txs : r.tx = Advance(SubSeq(s.chain, 1, k))
      BY <1>4, <3>1 DEF Behind
    <3>3. SubSeq(s.chain, 1, k) = s.chain
      BY <1>4, SubSeqFull DEF Chains
    <3>4. r.tx.kind = "advance" /\ r.tx.what = s.chain
      BY <3>2, <3>3 DEF Advance
    <3> QED BY <1>2, <3>4 DEF SeesAll, PostRows
  <2> QED BY <2>1, <2>2
<1>8. s.chain = SubSeq(top, 1, k) /\ k <= m
  <2>1. CASE s = [chain |-> <<>>, l1Block |-> 0]
    <3>1. s.chain = <<>>
      BY <2>1
    <3>2. k = 0
      BY <3>1, EmptySeq
    <3>3. SubSeq(top, 1, 0) = <<>>
      BY SubSeqEmpty DEF Chains
    <3> QED BY <3>1, <3>2, <3>3
  <2>2. CASE s \in db.snapshots
    <3>1. k <= m /\ \E b \in db.blocks : b.block = s.chain
      BY <1>2, <1>7, <2>2 DEF SnapsAre
    <3>2. PICK b \in db.blocks : b.block = s.chain
      BY <3>1
    <3>3. b.block = SubSeq(top, 1, Len(b.block))
      BY <1>2, <1>7, <3>2 DEF TellsOf
    <3> QED BY <3>1, <3>2, <3>3
  <2> QED BY <1>4, <2>1, <2>2 DEF LatestUpTo
<1>9. PostedIn(rollupTxs, s.chain)
  <2>1. k \in 0..Len(top)
    BY <1>6, <1>7
  <2> QED BY <1>5, <1>8, <2>1
<1>10. SnapsAre(db, k, Len(top))
  <2>1. ASSUME NEW r \in db.snapshots, Len(r.chain) <= Len(top) PROVE Len(r.chain) <= k
    <3>1. r.chain \in Seq(BlockTxs)
      BY <1>1 DEF Dbs, Chains
    <3>2. Len(r.chain) \in Nat
      BY <3>1, LenProperties
    <3>3. Len(r.chain) <= Len(H)
      BY <1>5, <2>1, <3>2
    <3> QED BY <1>4, <3>3 DEF LatestUpTo
  <2> QED BY <1>2, <2>1 DEF SnapsAre
<1>11. ASSUME NEW a \in Accounts
       PROVE  \E j \in k..Len(top) : db.accounts[a].state = AccountState(SubSeq(top, 1, j), a)
  <2>1. PICK j \in m..Len(top) : db.accounts[a].state = AccountState(SubSeq(top, 1, j), a)
    BY <1>2
  <2>2. j \in k..Len(top)
    BY <1>5, <1>6, <1>8
  <2> QED BY <2>1, <2>2
<1>12. /\ RowsAre(db, rollupTxs, N) /\ db.messagesFrom <= N + 1
  BY <1>2 DEF SeesAll
<1>13. ASSUME NEW i \in PostsAt(rollupTxs), Len(rollupTxs[i].what) <= k PROVE HasRow(db, i)
  <2>1. N \in 0..N /\ i <= N
    BY <1>1, <1>5, L1Basics
  <2> QED BY <1>1, <1>4, <1>9, <1>12, <1>13, <2>1, RowsOfKnown
<1>14. /\ rollupTxs' = rollupTxs /\ logs' = logs /\ rebuilt' = s.chain /\ step' = "poll"
  BY DEF StartsFrom
<1>15. ASSUME NEW i \in DOMAIN rollupTxs', Known(i)' PROVE ToTell(i)'
  <2>1. i \in PostsAt(rollupTxs) /\ Len(rollupTxs[i].what) <= k
    BY <1>14, <1>15 DEF Known, IsKnown
  <2>2. HasRow(db, i)
    BY <1>13, <2>1
  <2>3. HasRow(db, i)'
    BY <1>4, <1>14, <2>2 DEF HasRow
  <2> QED BY <2>3 DEF ToTell
<1> HIDE DEF k, N, H
<1>16. InStep(top, k)'
  <2>1. (\A b \in db.blocks : OnPlace(b) /\ Len(b.block) <= Len(top))'
    BY <1>2, <1>4, <1>14 DEF OnPlace
  <2>2. SeesAll(db, Len(top))' /\ SeesAll(committed, Len(top))'
    BY <1>2, <1>4, <1>14 DEF SeesAll
  <2>3. k <= Len(top) /\ PostedIn(rollupTxs, top)' /\ TellsOf(db, top)' /\ (\A r \in db.l2Txs : r.block <= Len(top))'
    BY <1>2, <1>4, <1>7, <1>14
  <2>4. (\A a \in Accounts : \E j \in k..Len(top) : db.accounts[a].state = AccountState(SubSeq(top, 1, j), a))'
    BY <1>4, <1>11
  <2>5. SnapsAre(db, k, Len(top))' /\ (logs \subseteq PostsAt(rollupTxs))'
    BY <1>2, <1>4, <1>10, <1>14
  <2>6. (rebuilt = SubSeq(top, 1, k))'
    BY <1>8, <1>14
  <2> QED BY <1>15, <2>1, <2>2, <2>3, <2>4, <2>5, <2>6 DEF InStep
<1> QED BY <1>16 DEF k

\* A follower that starts after L1 lost blocks is as far as the snapshot.
LEMMA RewindsInStep ==
    ASSUME FollowerShape, NEW s, NEW before, StartsFrom(s, before), usual', ~StillOnL1,
           NEW c \in Chains, NEW h \in Nat, NEW n \in 0..Len(rollupTxs), LeftBehind(c, h, n)
    PROVE  InStep(s.chain, Len(s.chain))'
<1> DEFINE k == Len(s.chain)
<1> DEFINE N == Len(rollupTxs)
<1> DEFINE H == HeadIn(rollupTxs)
<1> DEFINE v == s.chain
<1> DEFINE e == db'
<1>1. L1Is(rollupTxs) /\ Tables(db) /\ db \in Dbs /\ N <= MaxL1 /\ (step # "logs" => logs = {})
  BY DEF FollowerShape, Tables
<1>2. /\ Len(c) <= h /\ TellsOf(db, c)
      /\ \A b \in db.blocks : Len(b.block) <= h /\ (Len(b.block) <= Len(c) => b.l1Block <= n + FinalityLag)
      /\ \A a \in Accounts : db.accounts[a].block <= Len(c) => db.accounts[a].state = AccountState(c, a)
      /\ SnapsAre(db, Len(c), h) /\ RowsAre(db, rollupTxs, n) /\ PostRows(db, h)
  BY DEF LeftBehind
<1>3. /\ ~Moved(s) /\ ~Behind(s) /\ Rewound(e, v, before) /\ Tables(e) /\ committed' = e
      /\ v \in Chains /\ LatestUpTo(s, Len(H)) /\ before \in L1Places /\ s.l1Block \in L1Places
      /\ before = IF s.l1Block < L1_REINDEX_BLOCKS THEN 0 ELSE s.l1Block - L1_REINDEX_BLOCKS
      /\ fromBlock' = before /\ step = "down"
      /\ rollupTxs' = rollupTxs /\ logs' = logs /\ rebuilt' = v /\ step' = "poll"
  BY DEF StartsFrom
<1> HIDE DEF e
<1>4. /\ N \in Nat /\ n \in Nat /\ n <= N /\ before \in Nat /\ s.l1Block \in Nat /\ FinalityLag \in Nat
      /\ L1_REINDEX_BLOCKS \in Nat /\ L1_REINDEX_BLOCKS >= FinalityLag
  <2>1. N \in Nat
    BY <1>1, L1Basics
  <2> QED BY <1>3, <2>1, FollowerAssumption DEF L1Places
<1>5. k \in Nat /\ DOMAIN v = 1..k /\ (k = 0 <=> v = <<>>) /\ Len(c) \in Nat
  <2>1. v \in Seq(BlockTxs) /\ c \in Seq(BlockTxs)
    BY <1>3 DEF Chains
  <2> HIDE DEF v
  <2>2. Len(v) \in Nat /\ DOMAIN v = 1..Len(v) /\ (Len(v) = 0 <=> v = <<>>)
    BY <2>1, LenProperties, EmptySeq
  <2>3. Len(c) \in Nat
    BY <2>1, LenProperties
  <2> QED BY <2>2, <2>3 DEF v
<1>6. k <= h
  <2>1. CASE k = 0
    BY <2>1
  <2>2. CASE k # 0
    <3>1. k \in DOMAIN v
      BY <1>5, <2>2
    <3>2. PICK r \in db.l1Txs : r.tx = Advance(SubSeq(v, 1, k))
      BY <1>3, <3>1 DEF Behind
    <3>3. SubSeq(v, 1, k) = v
      BY <1>3, SubSeqFull DEF Chains
    <3>4. r.tx.kind = "advance" /\ r.tx.what = v
      BY <3>2, <3>3 DEF Advance
    <3> QED BY <1>2, <3>4 DEF PostRows
  <2> QED BY <2>1, <2>2
<1>7. /\ k <= Len(c) /\ v = SubSeq(c, 1, k)
      /\ (v = <<>> /\ s.l1Block = 0)
         \/ \E b \in db.blocks : b.block = v /\ b.l1Block = s.l1Block /\ b.l1Tx = Advance(v)
  <2>1. CASE s = [chain |-> <<>>, l1Block |-> 0]
    <3>1. v = <<>> /\ s.l1Block = 0
      BY <2>1
    <3>2. k = 0
      BY <1>5, <3>1
    <3>3. SubSeq(c, 1, 0) = <<>>
      BY SubSeqEmpty DEF Chains
    <3> QED BY <1>5, <3>1, <3>2, <3>3
  <2>2. CASE s \in db.snapshots
    <3>1. k <= Len(c) /\ \E b \in db.blocks : b.block = v /\ b.l1Block = s.l1Block
      BY <1>2, <1>6, <2>2 DEF SnapsAre
    <3>2. PICK b \in db.blocks : b.block = v /\ b.l1Block = s.l1Block
      BY <3>1
    <3>3. b.block = SubSeq(c, 1, Len(b.block)) /\ b.l1Tx = Advance(b.block)
      BY <1>2, <3>1, <3>2 DEF TellsOf
    <3>4. b.block = SubSeq(c, 1, k) /\ b.l1Tx = Advance(v)
      BY <3>2, <3>3
    <3> QED BY <3>1, <3>2, <3>4
  <2> QED BY <1>3, <2>1, <2>2 DEF LatestUpTo
<1>8. TellsOf(db, v)
  BY <1>1, <1>2, <1>5, <1>7, TellsFirst
<1>9. TellsOf(e, v)
  BY <1>1, <1>3, <1>8, RewindTells
<1>10. ASSUME NEW b \in db.blocks, Len(b.block) <= k PROVE OnPlace(b)
  BY <1>3, <1>10 DEF Moved
<1>11. v # <<>> => s.l1Block \in 1..N /\ rollupTxs[s.l1Block] = Advance(v) /\ s.l1Block <= n + FinalityLag
  <2> SUFFICES ASSUME v # <<>> PROVE s.l1Block \in 1..N /\ rollupTxs[s.l1Block] = Advance(v) /\ s.l1Block <= n + FinalityLag
    OBVIOUS
  <2>1. PICK b \in db.blocks : b.block = v /\ b.l1Block = s.l1Block /\ b.l1Tx = Advance(v)
    BY <1>7
  <2>2. Len(b.block) <= k
    BY <1>5, <2>1
  <2>3. OnPlace(b)
    BY <1>10, <2>2
  <2>4. s.l1Block \in DOMAIN rollupTxs /\ rollupTxs[s.l1Block] = Advance(v)
    BY <2>1, <2>3 DEF OnPlace
  <2>5. Len(b.block) <= Len(c)
    BY <1>7, <2>1
  <2>6. s.l1Block <= n + FinalityLag
    BY <1>2, <2>1, <2>5
  <2> QED BY <1>1, <2>4, <2>6, L1Basics
<1>12. before <= n /\ before <= s.l1Block /\ (v = <<>> => before = 0)
  <2>1. v = <<>> => s.l1Block = 0
    <3>1. ASSUME NEW b \in db.blocks PROVE b.block # <<>>
      BY <1>1 DEF Dbs
    <3> QED BY <1>7, <3>1
  <2>2. s.l1Block = 0 \/ s.l1Block <= n + FinalityLag
    BY <1>11, <2>1
  <2> HIDE DEF v, N
  <2>3. before <= n
    BY <1>3, <1>4, <2>2
  <2>4. before <= s.l1Block
    BY <1>3, <1>4
  <2>5. s.l1Block = 0 => before = 0
    BY <1>3, <1>4
  <2> QED BY <2>1, <2>3, <2>4, <2>5
<1>13. PostedIn(rollupTxs, v)
  <2>1. CASE v = <<>>
    BY <2>1 DEF PostedIn
  <2>2. CASE v # <<>>
    <3> DEFINE i == s.l1Block
    <3>1. i \in 1..N /\ rollupTxs[i] = Advance(v)
      BY <1>11, <2>2
    <3>2. rollupTxs[i].kind = "advance" /\ rollupTxs[i].what = v
      BY <3>1 DEF Advance
    <3>3. i \in PostsAt(rollupTxs)
      BY <1>1, <3>1, <3>2, L1Basics
    <3> QED BY <3>2, <3>3 DEF PostedIn
  <2> QED BY <2>1, <2>2
<1>14. RowsAre(e, rollupTxs, N) /\ \A r \in e.l1Txs : r.block < before /\ r.block <= n
  BY <1>1, <1>2, <1>3, <1>12, RewindRows
<1>15. \A r \in e.l1Txs : r.block \in Nat /\ r.block # 0 /\ r.block <= N
  <2>1. \A r \in e.l1Txs : r.block \in 1..MaxL1
    BY <1>3 DEF Tables, Dbs
  <2>2. \A r \in e.l1Txs : r.block \in Nat /\ r.block # 0
    BY <2>1, FollowerAssumption
  <2> HIDE DEF N
  <2> QED BY <1>4, <1>14, <2>2
<1>16. PostRows(e, k)
  <2> SUFFICES ASSUME NEW r \in e.l1Txs, r.tx.kind = "advance" PROVE Len(r.tx.what) <= k
    BY DEF PostRows
  <2> DEFINE i == r.block
  <2> DEFINE j == s.l1Block
  <2>1. i < before /\ i \in Nat /\ i # 0 /\ i <= N
    BY <1>14, <1>15
  <2>2. v # <<>>
    BY <1>12, <2>1
  <2>3. j \in 1..N /\ rollupTxs[j] = Advance(v)
    BY <1>11, <2>2
  <2>4. i \in 1..N /\ i < j
    BY <1>4, <1>12, <2>1
  <2>5. rollupTxs[i] = r.tx
    BY <1>14, <2>1 DEF RowsAre
  <2>6. rollupTxs[j].kind = "advance" /\ rollupTxs[j].what = v
    BY <2>3 DEF Advance
  <2>7. i \in PostsAt(rollupTxs) /\ j \in PostsAt(rollupTxs)
    BY <1>1, <2>3, <2>4, <2>5, <2>6, L1Basics
  <2>8. Len(rollupTxs[i].what) < Len(rollupTxs[j].what)
    BY <1>1, <2>4, <2>7 DEF L1Is, OneChain
  <2>9. Len(rollupTxs[i].what) \in Nat
    BY <1>1, <2>7, L1Basics
  <2> QED BY <1>5, <2>5, <2>6, <2>8, <2>9
<1>17. /\ e.l1Txs = {r \in db.l1Txs : r.block < before}
       /\ e.l2Txs = {r \in db.l2Txs : r.block <= k}
       /\ e.blocks = {b \in db.blocks : Len(b.block) <= k}
       /\ e.snapshots = db.snapshots
       /\ e.accounts = [a \in Accounts |->
            IF db.accounts[a].block > k THEN [block |-> k, state |-> AccountState(v, a)] ELSE db.accounts[a]]
       /\ e.messagesFrom = IF db.messagesFrom < before THEN db.messagesFrom ELSE before
  BY <1>3 DEF Rewound
<1>18. e.messagesFrom <= before
  <2>1. db.messagesFrom \in Nat
    BY <1>1, FollowerAssumption DEF Dbs
  <2> QED BY <1>4, <1>17, <2>1
<1>19. SeesAll(e, k)
  <2>1. e.messagesFrom <= N + 1
    <3>1. e.messagesFrom \in Nat
      BY <1>3, FollowerAssumption DEF Tables, Dbs
    <3> HIDE DEF N
    <3> QED BY <1>4, <1>12, <1>18, <3>1
  <2> QED BY <1>14, <1>15, <1>16, <2>1 DEF SeesAll
<1>20. SnapsAre(e, k, k)
  <2>1. ASSUME NEW r \in e.snapshots, Len(r.chain) <= k
        PROVE  \E b \in e.blocks : b.block = r.chain /\ b.l1Block = r.l1Block
    <3>1. r \in db.snapshots
      BY <1>17
    <3>2. Len(r.chain) <= h
      <4>1. r.chain \in Seq(BlockTxs)
        BY <1>1, <3>1 DEF Dbs, Chains
      <4>2. Len(r.chain) \in Nat
        BY <4>1, LenProperties
      <4> QED BY <1>5, <1>6, <2>1, <4>2
    <3>3. PICK b \in db.blocks : b.block = r.chain /\ b.l1Block = r.l1Block
      BY <1>2, <3>1, <3>2 DEF SnapsAre
    <3>4. b \in e.blocks
      BY <1>17, <2>1, <3>3
    <3> QED BY <3>3, <3>4
  <2>2. \A j \in 1..k : j \in 1..h
    BY <1>5, <1>6
  <2>3. \A j \in 1..k : j % SNAPSHOT_INTERVAL = 0 => SnapshotAt(e.snapshots, j)
    BY <1>2, <1>17, <2>2 DEF SnapsAre
  <2>4. \A r \in e.snapshots : Len(r.chain) % SNAPSHOT_INTERVAL = 0
    BY <1>2, <1>17 DEF SnapsAre
  <2> QED BY <2>1, <2>3, <2>4 DEF SnapsAre
<1>21. ASSUME NEW a \in Accounts PROVE e.accounts[a].state = AccountState(v, a)
  <2> DEFINE x == db.accounts[a]
  <2>1. CASE x.block > k
    BY <1>17, <2>1
  <2>2. CASE ~(x.block > k)
    <3>1. x.block \in Nat /\ x.state \in Chains /\ Len(x.state) <= x.block
      BY <1>1 DEF Tables, Dbs
    <3>2. x.block <= k /\ x.block <= Len(c)
      BY <1>5, <1>7, <2>2, <3>1
    <3>3. x.state = AccountState(c, a)
      BY <1>2, <3>2
    <3>4. Len(AccountState(c, a)) <= k
      <4>1. Len(AccountState(c, a)) \in Nat
        BY AccountIsChain
      <4> QED BY <1>5, <3>1, <3>2, <3>3, <4>1
    <3>5. k \in 0..Len(c)
      BY <1>5, <1>7
    <3>6. AccountState(v, a) = AccountState(c, a)
      BY <1>7, <3>4, <3>5, AccountOfFirst
    <3>7. e.accounts[a] = x
      BY <1>17, <2>2
    <3> QED BY <3>3, <3>6, <3>7
  <2> QED BY <2>1, <2>2
<1>22. ASSUME NEW i \in DOMAIN rollupTxs', Known(i)' PROVE ToTell(i)'
  <2>1. i \in PostsAt(rollupTxs) /\ Len(rollupTxs[i].what) <= k
    BY <1>3, <1>22 DEF Known, IsKnown
  <2>2. i \in Nat
    BY <1>1, <2>1, L1Basics
  <2>3. CASE i < before
    <3>1. i <= n
      BY <1>4, <1>12, <2>2, <2>3
    <3>2. HasRow(db, i)
      BY <1>1, <1>2, <1>3, <1>13, <2>1, <3>1, RowsOfKnown
    <3>3. HasRow(e, i)
      BY <1>17, <2>3, <3>2 DEF HasRow, Row
    <3>4. HasRow(db, i)'
      BY <1>3, <3>3 DEF HasRow, e
    <3> QED BY <3>4 DEF ToTell
  <2>4. CASE ~(i < before)
    <3>1. i >= before
      BY <1>4, <2>2, <2>4
    <3>2. e.messagesFrom <= N
      <4>1. e.messagesFrom \in Nat
        BY <1>3, FollowerAssumption DEF Tables, Dbs
      <4> HIDE DEF N
      <4> QED BY <1>4, <1>12, <1>18, <4>1
    <3>3. (step = "poll" /\ i >= fromBlock /\ db.messagesFrom <= Len(rollupTxs))'
      BY <1>3, <3>1, <3>2 DEF e
    <3> QED BY <3>3 DEF ToTell
  <2> QED BY <2>3, <2>4
<1>23. InStep(v, k)'
  <2>1. (\A b \in db.blocks : OnPlace(b) /\ Len(b.block) <= k)'
    <3>1. \A b \in e.blocks : OnPlace(b) /\ Len(b.block) <= k
      BY <1>10, <1>17
    <3> QED BY <1>3, <3>1 DEF OnPlace, e
  <2>2. SeesAll(db, k)' /\ SeesAll(committed, k)'
    <3>1. /\ RowsAre(e, rollupTxs, N) /\ PostRows(e, k) /\ \A r \in e.l1Txs : r.block <= N
          /\ e.messagesFrom <= N + 1
      BY <1>19 DEF SeesAll
    <3>2. db' = e /\ committed' = e /\ Len(rollupTxs') = N /\ rollupTxs' = rollupTxs
      BY <1>3 DEF e
    <3> HIDE DEF N
    <3> QED BY <3>1, <3>2 DEF SeesAll
  <2>3. k <= k /\ PostedIn(rollupTxs, v)' /\ TellsOf(db, v)' /\ (\A r \in db.l2Txs : r.block <= k)'
    BY <1>3, <1>5, <1>9, <1>13, <1>17 DEF e
  <2>4. (\A a \in Accounts : \E j \in k..k : db.accounts[a].state = AccountState(SubSeq(v, 1, j), a))'
    <3>1. SubSeq(v, 1, k) = v
      BY <1>3, SubSeqFull DEF Chains
    <3>2. k \in k..k
      BY <1>5
    <3> QED BY <1>21, <3>1, <3>2 DEF e
  <2>5. SnapsAre(db, k, k)' /\ (logs \subseteq PostsAt(rollupTxs))'
    BY <1>1, <1>3, <1>20 DEF e
  <2>6. (rebuilt = SubSeq(v, 1, k))'
    BY <1>3, SubSeqFull DEF Chains
  <2> QED BY <1>22, <2>1, <2>2, <2>3, <2>4, <2>5, <2>6 DEF InStep
<1> QED BY <1>23

-----------------------------------------------------------------------------
(* The follower: L1 goes on, and loses blocks                              *)

\* L1 with one more transaction.
LEMMA MineIs ==
    ASSUME FollowerShape, Mine, NEW N, N = Len(rollupTxs)
    PROVE  /\ L1Is(rollupTxs)' /\ N \in Nat /\ Len(rollupTxs') = N + 1 /\ N + 1 <= MaxL1
           /\ \A i \in 1..N : rollupTxs'[i] = rollupTxs[i]
<1> DEFINE H == HeadIn(rollupTxs)
<1> DEFINE ready == IF DepositsIn(rollupTxs, Len(rollupTxs)) = {} THEN {"none", "send"} ELSE {"none", "send", "claim"}
<1>1. L1Is(rollupTxs)
  BY DEF FollowerShape
<1>2. PICK t : /\ t \in {Advance(Append(H, e)) : e \in ready}
                        \cup {Deposit(d) : d \in Deposits}
                        \cup {e \in {WithdrawalClaim} : "send" \in ToSet(H)}
               /\ t \notin ToSet(rollupTxs)
               /\ t.kind = "advance" => Last(t.what) = "none" \/ Last(t.what) \notin ToSet(H)
               /\ rollupTxs' = Append(rollupTxs, t)
  BY DEF Mine
<1>3. ready \subseteq BlockTxs
  BY DEF BlockTxs
<1>4. H \in Chains /\ H \in Seq(BlockTxs)
  BY <1>1, HeadOfL1 DEF Chains
<1>5. N \in Nat /\ rollupTxs \in Seq(L1Tx) /\ Len(rollupTxs) < MaxL1 /\ MaxL1 \in Nat
  BY <1>1, L1Basics, FollowerAssumption DEF Mine
<1> HIDE DEF H, ready
<1>6. \A e \in BlockTxs : Append(H, e) \in Chains /\ Last(Append(H, e)) = e
  <2> SUFFICES ASSUME NEW e \in BlockTxs PROVE Append(H, e) \in Chains /\ Last(Append(H, e)) = e
    OBVIOUS
  <2> DEFINE g == Append(H, e)
  <2>1. g \in Seq(BlockTxs) /\ Len(g) = Len(H) + 1 /\ g[Len(H) + 1] = e
    BY <1>4, AppendProperties, LenProperties
  <2> HIDE DEF g
  <2>2. Last(g) = e
    BY <2>1 DEF Last
  <2> QED BY <2>1, <2>2 DEF Chains, g
<1>7. t \in L1Tx /\ (t.kind = "advance" => \E e \in BlockTxs : t = Advance(Append(H, e)) /\ (e = "none" \/ e \notin ToSet(H)))
  <2>1. CASE \E e \in ready : t = Advance(Append(H, e))
    <3>1. PICK e \in ready : t = Advance(Append(H, e))
      BY <2>1
    <3>2. e \in BlockTxs
      BY <1>3
    <3> DEFINE g == Append(H, e)
    <3>3. g \in Chains /\ Last(g) = e
      BY <1>6, <3>2
    <3> HIDE DEF g
    <3>4. t = Advance(g)
      BY <3>1 DEF g
    <3>5. t.what = g /\ t.kind = "advance"
      BY <3>4 DEF Advance
    <3>6. e = "none" \/ e \notin ToSet(H)
      BY <1>2, <3>3, <3>5
    <3>7. t \in L1Tx
      BY <3>3, <3>4 DEF L1Tx
    <3> QED BY <3>1, <3>2, <3>6, <3>7
  <2>2. CASE \E d \in Deposits : t = Deposit(d)
    BY <2>2 DEF L1Tx, Deposit
  <2>3. CASE t = WithdrawalClaim
    BY <2>3 DEF L1Tx, WithdrawalClaim
  <2> QED BY <1>2, <2>1, <2>2, <2>3
<1>8. L1Is(Append(rollupTxs, t))
  BY <1>1, <1>2, <1>7, L1Grows DEF H
<1>9. Len(Append(rollupTxs, t)) = N + 1 /\ \A i \in 1..N : Append(rollupTxs, t)[i] = rollupTxs[i]
  BY <1>5, <1>7, AppendProperties
<1> QED BY <1>2, <1>5, <1>8, <1>9

\* The posts of L1 as it was are posts of L1 with one more transaction, which
\* is of a later block if it is one.
LEMMA OnePostMore ==
    ASSUME NEW txs, L1Is(txs), NEW ys, L1Is(ys), NEW N, N = Len(txs), Len(ys) = N + 1, \A i \in 1..N : ys[i] = txs[i]
    PROVE  /\ PostsAt(txs) \subseteq PostsAt(ys)
           /\ \A i \in PostsAt(ys) : i \in PostsAt(txs) \/ i = N + 1
           /\ \A i \in PostsAt(txs) : ys[i] = txs[i]
           /\ \A c : PostedIn(txs, c) => PostedIn(ys, c)
           /\ \A c : PostedIn(txs, c) => \A i \in PostsAt(ys) : i = N + 1 => Len(c) < Len(ys[i].what)
<1>1. /\ N \in Nat /\ PostsAt(txs) = {i \in 1..N : txs[i].kind = "advance"}
      /\ PostsAt(ys) = {i \in 1..(N + 1) : ys[i].kind = "advance"}
      /\ \A i \in PostsAt(ys) : Len(ys[i].what) \in Nat \ {0}
  BY L1Basics
<1>2. \A i \in 1..N : i \in 1..(N + 1) /\ i < N + 1
  BY <1>1
<1>3. \A i \in 1..(N + 1) : i \in 1..N \/ i = N + 1
  BY <1>1
<1>4. PostsAt(txs) \subseteq PostsAt(ys) /\ \A i \in PostsAt(txs) : ys[i] = txs[i] /\ i < N + 1
  BY <1>1, <1>2
<1>5. \A i \in PostsAt(ys) : i \in PostsAt(txs) \/ i = N + 1
  BY <1>1, <1>3
<1>6. \A c : PostedIn(txs, c) => PostedIn(ys, c)
  BY <1>4 DEF PostedIn
<1>7. ASSUME NEW c, PostedIn(txs, c), NEW i \in PostsAt(ys), i = N + 1 PROVE Len(c) < Len(ys[i].what)
  <2>1. CASE c = <<>>
    <3>1. Len(c) = 0
      BY <2>1, EmptySeq
    <3> QED BY <1>1, <3>1
  <2>2. CASE c # <<>>
    <3>1. PICK j \in PostsAt(txs) : txs[j].what = c
      BY <1>7, <2>2 DEF PostedIn
    <3>2. j \in PostsAt(ys) /\ ys[j].what = c /\ j < i
      BY <1>4, <1>7, <3>1
    <3> QED BY <3>2 DEF L1Is, OneChain
  <2> QED BY <2>1, <2>2
<1> QED BY <1>4, <1>5, <1>6, <1>7

\* Rows that are right for all of L1 are right for one more transaction.
LEMMA RowsMore ==
    ASSUME NEW d \in Dbs, NEW txs, NEW ys, NEW N \in Nat, \A k \in 1..N : txs[k] = ys[k], RowsAre(d, txs, N),
           \A r \in d.l1Txs : r.block <= N, d.messagesFrom <= N + 1
    PROVE  RowsAre(d, ys, N + 1)
<1>1. RowsAre(d, ys, N)
  BY RowsSame
<1>2. \A r \in d.l1Txs : r.block \in Nat /\ r.block <= N /\ r.block <= N + 1 /\ ~(r.block > N + 1)
  <2>1. \A r \in d.l1Txs : r.block \in 1..MaxL1
    BY DEF Dbs
  <2> QED BY <2>1, FollowerAssumption
<1>3. ASSUME NEW s \in d.sides, s.chain = "l1"
      PROVE  /\ s.block # 0 /\ s \in L1Sides(ys, s.block) /\ s.block <= N + 1
             /\ \E r \in d.l1Txs : r.tx = s.tx
  <2>1. PICK r \in d.l1Txs : r.tx = s.tx /\ (r.block <= N <=> s.block <= N)
    BY <1>1, <1>3 DEF RowsAre
  <2>2. s.block <= N
    BY <1>2, <2>1
  <2>3. s.block \in Nat
    BY DEF Dbs, SideSet
  <2>4. s.block <= N + 1
    BY <2>2, <2>3
  <2>5. s.block # 0 /\ s \in L1Sides(ys, s.block)
    BY <1>1, <1>3, <2>2 DEF RowsAre
  <2> QED BY <2>1, <2>4, <2>5
<1>4. ASSUME NEW i \in 1..(N + 1), i < d.messagesFrom, ys[i].kind # "advance" PROVE Row(ys, i) \in d.l1Txs
  <2>1. d.messagesFrom \in Nat
    BY FollowerAssumption DEF Dbs
  <2>2. i \in 1..N
    BY <1>4, <2>1
  <2> QED BY <1>1, <1>4, <2>2 DEF RowsAre
<1>5. \A r \in d.l1Txs : ys[r.block] = r.tx /\ L1Sides(ys, r.block) \subseteq d.sides
  BY <1>1, <1>2 DEF RowsAre
<1> QED BY <1>2, <1>3, <1>4, <1>5 DEF RowsAre

\* They are right for the first ones of it.
LEMMA RowsFewer ==
    ASSUME NEW d \in Dbs, NEW txs, L1Is(txs), NEW N, N = Len(txs), RowsAre(d, txs, N),
           \A r \in d.l1Txs : r.block <= N, NEW n \in 0..N
    PROVE  RowsAre(d, txs, n)
<1>1. N \in Nat /\ n \in Nat /\ n <= N /\ \A i, j \in 1..N : txs[i] = txs[j] => i = j
  BY L1Basics DEF L1Is
<1>2. \A r \in d.l1Txs : r.block \in 1..N /\ r.block \in Nat /\ txs[r.block] = r.tx
  <2>1. \A r \in d.l1Txs : r.block \in 1..MaxL1
    BY DEF Dbs
  <2>2. \A r \in d.l1Txs : r.block \in 1..N /\ r.block \in Nat
    BY <1>1, <2>1, FollowerAssumption
  <2> QED BY <2>2 DEF RowsAre
<1>3. \A i \in 1..n : i \in 1..N /\ i <= n
  BY <1>1
<1>4. ASSUME NEW r \in d.l1Txs, r.block > n, NEW i \in 1..n PROVE txs[i] # r.tx
  <2>1. r.block # i /\ i \in 1..N
    BY <1>1, <1>2, <1>3, <1>4
  <2> QED BY <1>1, <1>2, <2>1
<1>5. ASSUME NEW s \in d.sides, s.chain = "l1"
      PROVE  /\ s.block # 0 /\ s \in L1Sides(txs, s.block)
             /\ \E r \in d.l1Txs : r.tx = s.tx /\ r.block = s.block
  <2>1. PICK r \in d.l1Txs : r.tx = s.tx /\ (r.block <= N <=> s.block <= N)
    BY <1>5 DEF RowsAre
  <2>2. s.block <= N
    BY <2>1
  <2>3. s.block \in Nat
    BY DEF Dbs, SideSet
  <2>4. s.block # 0 /\ s \in L1Sides(txs, s.block)
    BY <1>5, <2>2 DEF RowsAre
  <2>5. s.block \in 1..N
    BY <1>1, <2>2, <2>3, <2>4
  <2>6. s.tx = txs[s.block]
    BY <2>4, <2>5, L1SidesAre
  <2>7. r.block = s.block
    BY <1>1, <1>2, <2>1, <2>5, <2>6
  <2> QED BY <2>1, <2>4, <2>7
<1>6. \A r \in d.l1Txs : L1Sides(txs, r.block) \subseteq d.sides
  BY <1>2 DEF RowsAre
<1>7. ASSUME NEW i \in 1..n, i < d.messagesFrom, txs[i].kind # "advance" PROVE Row(txs, i) \in d.l1Txs
  BY <1>3, <1>7 DEF RowsAre
<1> QED BY <1>2, <1>4, <1>5, <1>6, <1>7 DEF RowsAre

\* What holds of L1 and the database holds of one more transaction.
LEMMA SeesMore ==
    ASSUME NEW d \in Dbs, NEW h, SeesAll(d, h), L1Is(rollupTxs), FollowerShape, Mine
    PROVE  /\ RowsAre(d, rollupTxs', Len(rollupTxs')) /\ PostRows(d, h)
           /\ \A r \in d.l1Txs : r.block <= Len(rollupTxs')
           /\ d.messagesFrom <= Len(rollupTxs') + 1
<1> DEFINE N == Len(rollupTxs)
<1>1. N \in Nat /\ Len(rollupTxs') = N + 1 /\ \A i \in 1..N : rollupTxs[i] = rollupTxs'[i]
  BY MineIs
<1>2. RowsAre(d, rollupTxs, N) /\ PostRows(d, h) /\ (\A r \in d.l1Txs : r.block <= N) /\ d.messagesFrom <= N + 1
  BY DEF SeesAll
<1> DEFINE ys == rollupTxs'
<1> HIDE DEF N, ys
<1>3. RowsAre(d, ys, N + 1)
  BY <1>1, <1>2, RowsMore DEF ys
<1>4. \A r \in d.l1Txs : r.block \in Nat
  BY FollowerAssumption DEF Dbs
<1>5. d.messagesFrom \in Nat
  BY FollowerAssumption DEF Dbs
<1>6. (\A r \in d.l1Txs : r.block <= N + 1) /\ d.messagesFrom <= (N + 1) + 1
  BY <1>1, <1>2, <1>4, <1>5
<1>7. Len(ys) = N + 1
  BY <1>1 DEF ys
<1> QED BY <1>2, <1>3, <1>6, <1>7 DEF ys

\* The follower is in step with L1 that goes on.
LEMMA MineInStep ==
    ASSUME FollowerShape, Mine, NEW top \in Chains, NEW m \in Nat, InStep(top, m)
    PROVE  InStep(top, m)'
<1> DEFINE N == Len(rollupTxs)
<1>1. L1Is(rollupTxs) /\ db \in Dbs /\ committed \in Dbs
  BY DEF FollowerShape, Tables
<1>2. L1Is(rollupTxs)' /\ N \in Nat /\ Len(rollupTxs') = N + 1 /\ \A i \in 1..N : rollupTxs'[i] = rollupTxs[i]
  BY MineIs
<1>3. UNCHANGED <<db, committed, step, rebuilt, fromBlock, logs>>
  BY DEF Mine
<1>4. /\ m <= Len(top) /\ PostedIn(rollupTxs, top) /\ TellsOf(db, top)
      /\ \A b \in db.blocks : OnPlace(b) /\ Len(b.block) <= Len(top)
      /\ \A r \in db.l2Txs : r.block <= Len(top)
      /\ \A a \in Accounts : \E j \in m..Len(top) : db.accounts[a].state = AccountState(SubSeq(top, 1, j), a)
      /\ SnapsAre(db, m, Len(top))
      /\ SeesAll(db, Len(top)) /\ SeesAll(committed, Len(top)) /\ logs \subseteq PostsAt(rollupTxs)
      /\ step # "down" => rebuilt = SubSeq(top, 1, m) /\ \A i \in DOMAIN rollupTxs : Known(i) => ToTell(i)
  BY DEF InStep
<1> DEFINE ys == rollupTxs'
<1>5. /\ PostsAt(rollupTxs) \subseteq PostsAt(ys)
      /\ \A i \in PostsAt(ys) : i \in PostsAt(rollupTxs) \/ i = N + 1
      /\ \A i \in PostsAt(rollupTxs) : ys[i] = rollupTxs[i]
      /\ \A c : PostedIn(rollupTxs, c) => PostedIn(ys, c)
      /\ \A c : PostedIn(rollupTxs, c) => \A i \in PostsAt(ys) : i = N + 1 => Len(c) < Len(ys[i].what)
  BY <1>1, <1>2, OnePostMore
<1>6. (\A b \in db.blocks : OnPlace(b) /\ Len(b.block) <= Len(top))'
  <2> SUFFICES ASSUME NEW b \in db.blocks PROVE OnPlace(b)'
    BY <1>3, <1>4
  <2>1. b.l1Block \in 1..N /\ rollupTxs[b.l1Block] = b.l1Tx
    BY <1>1, <1>4, L1Basics DEF OnPlace
  <2>2. DOMAIN rollupTxs' = 1..(N + 1)
    BY <1>2, L1Basics
  <2>3. b.l1Block \in DOMAIN rollupTxs' /\ rollupTxs'[b.l1Block] = b.l1Tx
    BY <1>2, <2>1, <2>2
  <2> QED BY <2>3 DEF OnPlace
<1>7. SeesAll(db, Len(top))'
  BY <1>1, <1>3, <1>4, SeesMore DEF SeesAll
<1>8. SeesAll(committed, Len(top))'
  BY <1>1, <1>3, <1>4, SeesMore DEF SeesAll
<1>9. ASSUME step' # "down", NEW i \in DOMAIN rollupTxs', Known(i)' PROVE ToTell(i)'
  <2>1. i \in PostsAt(ys) /\ Len(ys[i].what) <= Len(rebuilt)
    BY <1>3, <1>9 DEF Known, IsKnown
  <2>2. rebuilt = SubSeq(top, 1, m)
    BY <1>3, <1>4, <1>9
  <2>3. Len(rebuilt) = m /\ Len(top) \in Nat
    <3>1. top \in Seq(BlockTxs)
      BY DEF Chains
    <3>2. Len(top) \in Nat /\ m <= Len(top)
      BY <1>4, <3>1, LenProperties
    <3>3. Len(SubSeq(top, 1, m)) = m
      BY <3>1, <3>2, FirstOf
    <3> QED BY <2>2, <3>2, <3>3
  <2>4. i # N + 1
    <3> SUFFICES ASSUME i = N + 1 PROVE FALSE
      OBVIOUS
    <3>1. Len(top) < Len(ys[i].what)
      BY <1>4, <1>5, <2>1
    <3>2. Len(ys[i].what) \in Nat
      BY <1>2, <2>1, L1Basics
    <3> QED BY <1>4, <2>1, <2>3, <3>1, <3>2
  <2>5. i \in PostsAt(rollupTxs) /\ ys[i] = rollupTxs[i]
    BY <1>5, <2>1, <2>4
  <2>6. i \in DOMAIN rollupTxs
    BY <2>5 DEF PostsAt
  <2>7. Known(i)
    BY <2>1, <2>5 DEF Known, IsKnown
  <2>8. ToTell(i)
    BY <1>3, <1>4, <1>9, <2>6, <2>7
  <2>9. Row(ys, i) = Row(rollupTxs, i)
    BY <2>5 DEF Row
  <2>10. db.messagesFrom \in Nat
    BY <1>1, FollowerAssumption DEF Dbs
  <2>11. db.messagesFrom <= N => db.messagesFrom <= N + 1
    BY <1>2, <2>10
  <2>12. db.messagesFrom <= Len(rollupTxs) => db.messagesFrom <= Len(rollupTxs')
    BY <1>2, <2>11
  <2> QED BY <1>3, <2>8, <2>9, <2>12 DEF ToTell, HasRow
<1> HIDE DEF ys
<1>10. PostedIn(rollupTxs', top) /\ logs \subseteq PostsAt(rollupTxs')
  BY <1>4, <1>5 DEF ys
<1> QED BY <1>3, <1>4, <1>6, <1>7, <1>8, <1>9, <1>10 DEF InStep

\* A follower that L1 left behind stays so when L1 goes on.
LEMMA MineLeft ==
    ASSUME FollowerShape, Mine, NEW c \in Chains, NEW h \in Nat, NEW n \in 0..Len(rollupTxs), LeftBehind(c, h, n)
    PROVE  LeftBehind(c, h, n)' /\ n \in 0..Len(rollupTxs')
<1> DEFINE N == Len(rollupTxs)
<1>1. db \in Dbs /\ committed \in Dbs
  BY DEF FollowerShape, Tables
<1>2. N \in Nat /\ Len(rollupTxs') = N + 1 /\ \A i \in 1..N : rollupTxs'[i] = rollupTxs[i]
  BY MineIs
<1>3. UNCHANGED <<db, committed, step, rebuilt>>
  BY DEF Mine
<1>4. n \in Nat /\ (\A i \in 1..n : rollupTxs[i] = rollupTxs'[i]) /\ n \in 0..(N + 1)
  BY <1>2
<1>5. ASSUME NEW d \in Dbs, RowsAre(d, rollupTxs, n) PROVE RowsAre(d, rollupTxs', n)
  BY <1>4, <1>5, RowsSame
<1>6. \A d \in {db, committed} : RowsAre(d, rollupTxs, n) /\ PostRows(d, h)
  BY DEF LeftBehind
<1>7. (\A d \in {db, committed} : RowsAre(d, rollupTxs, n) /\ PostRows(d, h))'
  BY <1>1, <1>3, <1>5, <1>6
<1>8. LeftBehind(c, h, n)'
  BY <1>3, <1>7 DEF LeftBehind
<1> QED BY <1>2, <1>4, <1>8

\* L1 still has the last block when it goes on.
LEMMA MineWentOn ==
    ASSUME FollowerShape, Mine, WentOn
    PROVE  WentOn'
<1> DEFINE N == Len(rollupTxs)
<1>1. L1Is(rollupTxs) /\ L1Is(rollupTxs)' /\ N \in Nat /\ Len(rollupTxs') = N + 1 /\ \A i \in 1..N : rollupTxs'[i] = rollupTxs[i]
  BY MineIs DEF FollowerShape
<1>2. UNCHANGED <<db, step, rebuilt>>
  BY DEF Mine
<1>3. ASSUME NEW b, OnPlace(b) PROVE OnPlace(b)'
  <2>1. b.l1Block \in 1..N /\ rollupTxs[b.l1Block] = b.l1Tx
    BY <1>1, <1>3, L1Basics DEF OnPlace
  <2>2. DOMAIN rollupTxs' = 1..(N + 1)
    BY <1>1, L1Basics
  <2>3. b.l1Block \in DOMAIN rollupTxs' /\ rollupTxs'[b.l1Block] = b.l1Tx
    BY <1>1, <2>1, <2>2
  <2> QED BY <2>3 DEF OnPlace
<1>4. StillOnL1'
  BY <1>2, <1>3 DEF WentOn, StillOnL1
<1> QED BY <1>2, <1>4 DEF WentOn

\* L1 after it lost blocks.
LEMMA LoseIs ==
    ASSUME FollowerShape, LoseBlocks
    PROVE  \E n \in 0..Len(rollupTxs) :
             /\ L1Is(rollupTxs)' /\ Len(rollupTxs') = n /\ Len(rollupTxs) <= n + FinalityLag
             /\ \A i \in 1..n : rollupTxs'[i] = rollupTxs[i]
             /\ n \in Nat /\ n < Len(rollupTxs) /\ Len(rollupTxs) \in Nat
<1>1. L1Is(rollupTxs) /\ Len(rollupTxs) \in Nat /\ FinalityLag \in Nat
  BY L1Basics, FollowerAssumption DEF FollowerShape
<1>2. PICK n \in 0..(Len(rollupTxs) - 1) :
        n >= Len(rollupTxs) - FinalityLag /\ rollupTxs' = SubSeq(rollupTxs, 1, n)
  BY DEF LoseBlocks
<1>3. n \in Nat /\ n < Len(rollupTxs) /\ n <= Len(rollupTxs) /\ Len(rollupTxs) <= n + FinalityLag /\ n \in 0..Len(rollupTxs)
  BY <1>1, <1>2
<1>4. L1Is(SubSeq(rollupTxs, 1, n)) /\ Len(SubSeq(rollupTxs, 1, n)) = n
      /\ \A i \in 1..n : SubSeq(rollupTxs, 1, n)[i] = rollupTxs[i]
  BY <1>1, <1>3, L1First
<1> QED BY <1>1, <1>2, <1>3, <1>4

\* It leaves the follower behind.
LEMMA LoseLeft ==
    ASSUME FollowerShape, LoseBlocks, NEW top \in Chains, NEW m \in Nat, InStep(top, m)
    PROVE  \E c \in Chains, h \in Nat, n \in 0..Len(rollupTxs') : LeftBehind(c, h, n)'
<1> DEFINE N == Len(rollupTxs)
<1> DEFINE h == Len(top)
<1> DEFINE c == SubSeq(top, 1, m)
<1>1. L1Is(rollupTxs) /\ Tables(db) /\ db \in Dbs /\ committed \in Dbs
  BY DEF FollowerShape, Tables
<1>2. PICK n \in 0..N :
             /\ L1Is(rollupTxs)' /\ Len(rollupTxs') = n /\ N <= n + FinalityLag
             /\ \A i \in 1..n : rollupTxs'[i] = rollupTxs[i]
             /\ n \in Nat /\ n < N /\ N \in Nat
  BY LoseIs
<1>3. UNCHANGED <<db, committed, step, rebuilt>>
  BY DEF LoseBlocks
<1>4. /\ m <= h /\ TellsOf(db, top)
      /\ \A b \in db.blocks : OnPlace(b) /\ Len(b.block) <= h
      /\ \A a \in Accounts : \E j \in m..h : db.accounts[a].state = AccountState(SubSeq(top, 1, j), a)
      /\ SnapsAre(db, m, h)
      /\ SeesAll(db, h) /\ SeesAll(committed, h)
      /\ step # "down" => rebuilt = c
  BY DEF InStep
<1>5. h \in Nat /\ TellsOf(db, c) /\ c \in Chains /\ Len(c) = m
  <2>1. h \in Nat
    BY LenProperties DEF Chains
  <2> QED BY <1>1, <1>4, <2>1, TellsFirst
<1>6. ASSUME NEW b \in db.blocks PROVE b.l1Block <= n + FinalityLag
  <2>1. b.l1Block \in 1..N
    BY <1>1, <1>4, L1Basics DEF OnPlace
  <2> HIDE DEF N
  <2> QED BY <1>2, <2>1, FollowerAssumption
<1>7. ASSUME NEW a \in Accounts, db.accounts[a].block <= m PROVE db.accounts[a].state = AccountState(c, a)
  <2> DEFINE x == db.accounts[a]
  <2>1. PICK j \in m..h : x.state = AccountState(SubSeq(top, 1, j), a)
    BY <1>4
  <2> DEFINE w == SubSeq(top, 1, j)
  <2>2. j \in Nat /\ j <= h /\ m \in 0..j
    BY <1>5
  <2>3. w \in Chains /\ Len(w) = j
    BY <2>2, FirstOf DEF Chains
  <2>4. SubSeq(w, 1, m) = c
    BY <2>2, FirstOfMore DEF Chains
  <2>5. x.block \in Nat /\ Len(x.state) <= x.block
    BY <1>1 DEF Tables, Dbs
  <2> HIDE DEF w, c, h
  <2>6. x.state = AccountState(w, a)
    BY <2>1 DEF w
  <2>7. Len(AccountState(w, a)) \in Nat
    BY <2>3, AccountIsChain
  <2>8. Len(AccountState(w, a)) <= m
    BY <1>7, <2>5, <2>6, <2>7
  <2>9. AccountState(SubSeq(w, 1, m), a) = AccountState(w, a)
    BY <2>2, <2>3, <2>8, AccountOfFirst
  <2> QED BY <2>4, <2>6, <2>9
<1>8. ASSUME NEW d \in Dbs, SeesAll(d, h) PROVE RowsAre(d, rollupTxs', n) /\ PostRows(d, h)
  <2>1. RowsAre(d, rollupTxs, N) /\ PostRows(d, h) /\ \A r \in d.l1Txs : r.block <= N
    BY <1>8 DEF SeesAll
  <2>2. RowsAre(d, rollupTxs, n)
    BY <1>1, <2>1, RowsFewer
  <2> DEFINE ys == rollupTxs'
  <2>3. \A i \in 1..n : rollupTxs[i] = ys[i]
    BY <1>2
  <2> HIDE DEF ys
  <2>4. RowsAre(d, ys, n)
    BY <1>2, <2>2, <2>3, RowsSame
  <2> QED BY <2>1, <2>4 DEF ys
<1>9. SubSeq(c, 1, m) = c
  <2> HIDE DEF c
  <2> QED BY <1>5, SubSeqFull DEF Chains
<1> HIDE DEF c, h, N
<1>10. /\ RowsAre(db, rollupTxs', n) /\ PostRows(db, h) /\ RowsAre(committed, rollupTxs', n) /\ PostRows(committed, h)
  BY <1>1, <1>4, <1>8
<1>11. \A b \in db.blocks : Len(b.block) <= h /\ (Len(b.block) <= Len(c) => b.l1Block <= n + FinalityLag)
  BY <1>4, <1>6
<1>12. SnapsAre(db, Len(c), h)
  BY <1>4, <1>5
<1>13. \A a \in Accounts : db.accounts[a].block <= Len(c) => db.accounts[a].state = AccountState(c, a)
  BY <1>5, <1>7
<1>14. step # "down" => Len(c) <= Len(rebuilt) /\ Len(rebuilt) <= h /\ SubSeq(rebuilt, 1, Len(c)) = c
  <2>1. m <= m
    OBVIOUS
  <2> QED BY <1>4, <1>5, <1>9, <2>1
<1>15. LeftBehind(c, h, n)'
  BY <1>3, <1>4, <1>5, <1>10, <1>11, <1>12, <1>13, <1>14 DEF LeftBehind
<1>16. n \in 0..Len(rollupTxs')
  BY <1>2
<1> QED BY <1>5, <1>15, <1>16

-----------------------------------------------------------------------------
(* The follower: what L1 tells it                                          *)

\* The follower stops, with what it committed.
LEMMA StopKeeps ==
    ASSUME FollowerInv, Stop, UNCHANGED <<rollupTxs, committed, watched, usual>>
    PROVE  FollowerInv'
<1>1. /\ L1Is(rollupTxs) /\ Len(rollupTxs) <= MaxL1 /\ Tables(committed)
      /\ db.blocks = committed.blocks /\ db.l2Txs = committed.l2Txs /\ db.snapshots = committed.snapshots
      /\ db.accounts = committed.accounts /\ db.messagesFrom = committed.messagesFrom
      /\ watched \in BOOLEAN /\ usual \in BOOLEAN
  BY DEF FollowerInv, FollowerShape, SameBlocks
<1>2. step' = "down" /\ logs' = {} /\ rebuilt' = <<>> /\ fromBlock' = 0 /\ db' = committed
  BY DEF Stop
<1>3. FollowerShape'
  <2>1. <<>> \in Chains
    BY EmptySeq DEF Chains
  <2>2. 0 \in L1Places
    BY FollowerAssumption DEF L1Places
  <2> QED BY <1>1, <1>2, <2>1, <2>2 DEF FollowerShape, SameBlocks
<1>4. ASSUME usual', NEW top \in Chains, NEW m \in Nat, InStep(top, m) PROVE InStep(top, m)'
  <2>1. /\ m <= Len(top) /\ PostedIn(rollupTxs, top) /\ TellsOf(db, top)
        /\ \A b \in db.blocks : OnPlace(b) /\ Len(b.block) <= Len(top)
        /\ \A r \in db.l2Txs : r.block <= Len(top)
        /\ \A a \in Accounts : \E k \in m..Len(top) : db.accounts[a].state = AccountState(SubSeq(top, 1, k), a)
        /\ SnapsAre(db, m, Len(top)) /\ SeesAll(committed, Len(top))
    BY <1>4 DEF InStep
  <2>2. TellsOf(committed, top) /\ SnapsAre(committed, m, Len(top))
    BY <1>1, <2>1 DEF TellsOf, SnapsAre
  <2>3. SeesAll(committed, Len(top))' /\ SeesAll(db, Len(top))'
    BY <1>2, <2>1 DEF SeesAll
  <2>4. (\A b \in db.blocks : OnPlace(b) /\ Len(b.block) <= Len(top))'
    BY <1>1, <1>2, <2>1 DEF OnPlace
  <2>5. (\A a \in Accounts : \E k \in m..Len(top) : db.accounts[a].state = AccountState(SubSeq(top, 1, k), a))'
    BY <1>1, <1>2, <2>1
  <2>6. (logs \subseteq PostsAt(rollupTxs))'
    BY <1>2
  <2> QED BY <1>1, <1>2, <2>1, <2>2, <2>3, <2>4, <2>5, <2>6 DEF InStep
<1>5. ASSUME NEW c \in Chains, NEW h \in Nat, NEW n \in 0..Len(rollupTxs), LeftBehind(c, h, n) PROVE LeftBehind(c, h, n)'
  <2>1. /\ Len(c) <= h /\ TellsOf(db, c)
        /\ \A b \in db.blocks : Len(b.block) <= h /\ (Len(b.block) <= Len(c) => b.l1Block <= n + FinalityLag)
        /\ \A a \in Accounts : db.accounts[a].block <= Len(c) => db.accounts[a].state = AccountState(c, a)
        /\ SnapsAre(db, Len(c), h)
        /\ RowsAre(committed, rollupTxs, n) /\ PostRows(committed, h)
    BY <1>5 DEF LeftBehind
  <2>2. TellsOf(committed, c) /\ SnapsAre(committed, Len(c), h)
    BY <1>1, <2>1 DEF TellsOf, SnapsAre
  <2> QED BY <1>1, <1>2, <2>1, <2>2 DEF LeftBehind
<1>6. WentOn => WentOn'
  BY <1>1, <1>2 DEF WentOn, StillOnL1, OnPlace
<1>7. FollowerKnows'
  BY <1>4, <1>5, <1>6 DEF FollowerInv, FollowerKnows
<1> QED BY <1>3, <1>7 DEF FollowerInv

\* A step that only tells of transactions of L1, which it has.
MoreRows(e, d) ==
    /\ e.blocks = d.blocks /\ e.l2Txs = d.l2Txs /\ e.snapshots = d.snapshots /\ e.accounts = d.accounts
    /\ \A n \in 0..Len(rollupTxs) : RowsAre(d, rollupTxs, n) => RowsAre(e, rollupTxs, n)
    /\ \A j \in 1..Len(rollupTxs) : HasRow(d, j) => HasRow(e, j)
    /\ e.messagesFrom = d.messagesFrom \/ e.messagesFrom = Len(rollupTxs) + 1
    /\ \A r \in e.l1Txs :
         r \in d.l1Txs \/ (r.block \in 1..Len(rollupTxs) /\ (r.tx.kind = "advance" => Len(r.tx.what) <= Len(rebuilt)))
SeesL1 ==
    /\ RowsAre(db, rollupTxs, Len(rollupTxs)) /\ \A r \in db.l1Txs : r.block <= Len(rollupTxs)
    /\ logs \subseteq PostsAt(rollupTxs)
TellsRows ==
    /\ MoreRows(db', db) /\ (committed' = db' \/ committed' = committed)
    /\ rollupTxs' = rollupTxs /\ rebuilt' = rebuilt /\ usual' = usual /\ watched' = watched
    /\ step # "down" /\ step' # "down"
    /\ SeesL1 => /\ logs' \subseteq PostsAt(rollupTxs)
                 /\ \A i \in PostsAt(rollupTxs) : IsKnown(i) /\ ToTell(i) => ToTell(i)'

\* It keeps what the follower knows.
LEMMA TellsRowsKnows ==
    ASSUME FollowerInv, TellsRows
    PROVE  FollowerKnows'
<1> DEFINE N == Len(rollupTxs)
<1> DEFINE e == db'
<1>1. L1Is(rollupTxs) /\ db \in Dbs
  BY DEF FollowerInv, FollowerShape, Tables
<1>2. N \in Nat
  BY <1>1, L1Basics
<1>3. /\ e.blocks = db.blocks /\ e.l2Txs = db.l2Txs /\ e.snapshots = db.snapshots /\ e.accounts = db.accounts
      /\ \A n \in 0..N : RowsAre(db, rollupTxs, n) => RowsAre(e, rollupTxs, n)
      /\ e.messagesFrom = db.messagesFrom \/ e.messagesFrom = N + 1
      /\ \A r \in e.l1Txs :
           r \in db.l1Txs \/ (r.block \in 1..N /\ (r.tx.kind = "advance" => Len(r.tx.what) <= Len(rebuilt)))
  BY DEF TellsRows, MoreRows
<1>4. /\ committed' = e \/ committed' = committed
      /\ rollupTxs' = rollupTxs /\ rebuilt' = rebuilt /\ usual' = usual /\ watched' = watched
      /\ step # "down" /\ step' # "down" /\ db' = e
      /\ SeesL1 => /\ logs' \subseteq PostsAt(rollupTxs)
                   /\ \A i \in PostsAt(rollupTxs) : IsKnown(i) /\ ToTell(i) => ToTell(i)'
  BY DEF TellsRows
<1> HIDE DEF e
<1>5. ASSUME NEW h \in Nat, PostRows(db, h), Len(rebuilt) <= h PROVE PostRows(e, h)
  <2> SUFFICES ASSUME NEW r \in e.l1Txs, r.tx.kind = "advance" PROVE Len(r.tx.what) <= h
    BY DEF PostRows
  <2>1. CASE r \in db.l1Txs
    BY <1>5, <2>1 DEF PostRows
  <2>2. CASE r.block \in 1..N /\ Len(r.tx.what) <= Len(rebuilt)
    <3>1. rebuilt \in Seq(BlockTxs)
      BY DEF FollowerInv, FollowerShape, Chains
    <3>2. Len(rebuilt) \in Nat
      BY <3>1, LenProperties
    <3> QED BY <1>5, <2>2, <3>2
  <2> QED BY <1>3, <2>1, <2>2
<1>6. ASSUME NEW h, SeesAll(db, h), h \in Nat, Len(rebuilt) <= h PROVE SeesAll(e, h)
  <2>1. RowsAre(db, rollupTxs, N) /\ PostRows(db, h) /\ (\A r \in db.l1Txs : r.block <= N) /\ db.messagesFrom <= N + 1
    BY <1>6 DEF SeesAll
  <2>2. N \in 0..N /\ N + 1 <= N + 1
    BY <1>2
  <2>3. RowsAre(e, rollupTxs, N)
    BY <1>3, <2>1, <2>2
  <2>4. PostRows(e, h)
    BY <1>5, <1>6, <2>1
  <2>5. \A r \in e.l1Txs : r.block <= N
    <3>1. \A k \in 1..N : k <= N
      BY <1>2
    <3> HIDE DEF N
    <3> QED BY <1>3, <2>1, <3>1
  <2>6. e.messagesFrom <= N + 1
    BY <1>3, <2>1, <2>2
  <2> QED BY <2>3, <2>4, <2>5, <2>6 DEF SeesAll
<1>7. ASSUME NEW top \in Chains, NEW m \in Nat, InStep(top, m) PROVE InStep(top, m)'
  <2>1. /\ m <= Len(top) /\ PostedIn(rollupTxs, top) /\ TellsOf(db, top)
        /\ \A b \in db.blocks : OnPlace(b) /\ Len(b.block) <= Len(top)
        /\ \A r \in db.l2Txs : r.block <= Len(top)
        /\ \A a \in Accounts : \E k \in m..Len(top) : db.accounts[a].state = AccountState(SubSeq(top, 1, k), a)
        /\ SnapsAre(db, m, Len(top)) /\ SeesAll(db, Len(top)) /\ SeesAll(committed, Len(top))
        /\ logs \subseteq PostsAt(rollupTxs)
        /\ rebuilt = SubSeq(top, 1, m) /\ \A i \in DOMAIN rollupTxs : Known(i) => ToTell(i)
    BY <1>4, <1>7 DEF InStep
  <2>2. Len(top) \in Nat /\ Len(rebuilt) = m
    <3>1. top \in Seq(BlockTxs)
      BY DEF Chains
    <3>2. Len(top) \in Nat /\ m <= Len(top)
      BY <2>1, <3>1, LenProperties
    <3>3. Len(SubSeq(top, 1, m)) = m
      BY <3>1, <3>2, FirstOf
    <3> QED BY <2>1, <3>2, <3>3
  <2>3. SeesAll(e, Len(top))
    BY <1>6, <2>1, <2>2
  <2>4. SeesAll(db, Len(top))' /\ SeesAll(committed, Len(top))'
    BY <1>4, <2>1, <2>3 DEF SeesAll
  <2>5. TellsOf(e, top) /\ SnapsAre(e, m, Len(top))
    BY <1>3, <2>1 DEF TellsOf, SnapsAre
  <2>6. (\A b \in db.blocks : OnPlace(b) /\ Len(b.block) <= Len(top))'
    BY <1>3, <1>4, <2>1 DEF OnPlace
  <2>7. (\A a \in Accounts : \E k \in m..Len(top) : db.accounts[a].state = AccountState(SubSeq(top, 1, k), a))'
    BY <1>3, <1>4, <2>1
  <2>8. SeesL1
    BY <2>1 DEF SeesL1, SeesAll
  <2>9. ASSUME NEW i \in DOMAIN rollupTxs', Known(i)' PROVE ToTell(i)'
    <3>1. i \in PostsAt(rollupTxs) /\ IsKnown(i) /\ i \in DOMAIN rollupTxs
      BY <1>4, <2>9 DEF Known, IsKnown
    <3>2. ToTell(i)
      BY <2>1, <3>1 DEF Known
    <3> QED BY <1>4, <2>8, <3>1, <3>2
  <2>10. logs' \subseteq PostsAt(rollupTxs)
    BY <1>4, <2>8
  <2> QED BY <1>3, <1>4, <2>1, <2>4, <2>5, <2>6, <2>7, <2>9, <2>10 DEF InStep
<1>8. ASSUME NEW c \in Chains, NEW h \in Nat, NEW n \in 0..Len(rollupTxs), LeftBehind(c, h, n) PROVE LeftBehind(c, h, n)'
  <2>1. /\ Len(c) <= h /\ TellsOf(db, c)
        /\ \A b \in db.blocks : Len(b.block) <= h /\ (Len(b.block) <= Len(c) => b.l1Block <= n + FinalityLag)
        /\ \A a \in Accounts : db.accounts[a].block <= Len(c) => db.accounts[a].state = AccountState(c, a)
        /\ SnapsAre(db, Len(c), h)
        /\ RowsAre(db, rollupTxs, n) /\ PostRows(db, h) /\ RowsAre(committed, rollupTxs, n) /\ PostRows(committed, h)
        /\ Len(c) <= Len(rebuilt) /\ Len(rebuilt) <= h /\ SubSeq(rebuilt, 1, Len(c)) = c
    BY <1>4, <1>8 DEF LeftBehind
  <2>2. TellsOf(e, c) /\ SnapsAre(e, Len(c), h)
    BY <1>3, <2>1 DEF TellsOf, SnapsAre
  <2>3. RowsAre(e, rollupTxs, n) /\ PostRows(e, h)
    BY <1>3, <1>5, <2>1
  <2> QED BY <1>3, <1>4, <2>1, <2>2, <2>3 DEF LeftBehind
<1>9. WentOn => WentOn'
  BY <1>3, <1>4 DEF WentOn, StillOnL1, OnPlace
<1> QED BY <1>4, <1>7, <1>8, <1>9 DEF FollowerInv, FollowerKnows

\* It polls.
LEMMA PollKeeps ==
    ASSUME FollowerInv, Poll
    PROVE  FollowerInv'
<1>1. CASE Len(HeadIn(rollupTxs)) < Len(rebuilt)
  <2>1. Stop /\ UNCHANGED <<rollupTxs, committed, watched, usual>>
    BY <1>1 DEF Poll
  <2> QED BY <2>1, StopKeeps
<1>2. CASE ~(Len(HeadIn(rollupTxs)) < Len(rebuilt))
  <2>1. /\ step = "poll" /\ logs' = {i \in PostsAt(rollupTxs) : i >= fromBlock} /\ step' = "logs"
        /\ rebuilt' = rebuilt /\ fromBlock' = fromBlock /\ db' = db /\ committed' = committed
        /\ rollupTxs' = rollupTxs /\ watched' = watched /\ usual' = usual
    BY <1>2 DEF Poll
  <2>2. L1Is(rollupTxs) /\ Len(rollupTxs) <= MaxL1 /\ MaxL1 \in Nat
    BY FollowerAssumption DEF FollowerInv, FollowerShape
  <2>3. \A i \in PostsAt(rollupTxs) : i \in 1..MaxL1
    <3>1. \A i \in PostsAt(rollupTxs) : i \in 1..Len(rollupTxs)
      BY <2>2, L1Basics
    <3>2. Len(rollupTxs) \in Nat
      BY <2>2, L1Basics
    <3> QED BY <2>2, <3>1, <3>2
  <2>4. FollowerShape'
    BY <2>1, <2>3 DEF FollowerInv, FollowerShape, SameBlocks
  <2>5. MoreRows(db', db)
    BY <2>1 DEF MoreRows
  <2>6. ASSUME NEW i \in PostsAt(rollupTxs), ToTell(i) PROVE ToTell(i)'
    <3>1. CASE HasRow(db, i)
      BY <2>1, <3>1 DEF ToTell, HasRow
    <3>2. CASE i >= fromBlock
      BY <2>1, <3>2 DEF ToTell
    <3> QED BY <2>1, <2>6, <3>1, <3>2 DEF ToTell
  <2>7. TellsRows
    BY <2>1, <2>5, <2>6 DEF TellsRows
  <2> QED BY <2>4, <2>7, TellsRowsKnows DEF FollowerInv
<1> QED BY <1>1, <1>2

\* A row of a transaction of L1 that is right is the transaction's.
LEMMA RowOfTx ==
    ASSUME L1Is(rollupTxs), NEW d \in Dbs, RowsAre(d, rollupTxs, Len(rollupTxs)),
           NEW r \in d.l1Txs, r.block <= Len(rollupTxs), NEW i \in 1..Len(rollupTxs), r.tx = rollupTxs[i]
    PROVE  HasRow(d, i)
<1>1. Len(rollupTxs) \in Nat
  BY L1Basics
<1>2. r \in [tx : L1Tx, block : 1..MaxL1]
  BY DEF Dbs
<1>3. r = [tx |-> r.tx, block |-> r.block] /\ r.block \in Nat /\ r.block # 0
  BY <1>2, FollowerAssumption
<1>4. r.block \in 1..Len(rollupTxs)
  BY <1>1, <1>3
<1>5. rollupTxs[r.block] = r.tx
  BY DEF RowsAre
<1>6. r.block = i
  BY <1>4, <1>5 DEF L1Is
<1>7. r = Row(rollupTxs, i)
  BY <1>3, <1>6 DEF Row
<1> QED BY <1>7 DEF HasRow

\* It indexes the transaction of a block it has.
LEMMA KnownLogKeeps ==
    ASSUME FollowerInv, KnownLog
    PROVE  FollowerInv'
<1> DEFINE i == Min(logs)
<1> DEFINE N == Len(rollupTxs)
<1> DEFINE tells == i \in PostsAt(rollupTxs) /\ (\A r \in db.l1Txs : r.tx # rollupTxs[i])
<1> DEFINE e == AddL1Tx(db, i)
<1>1. /\ L1Is(rollupTxs) /\ N <= MaxL1 /\ Tables(db) /\ Tables(committed) /\ SameBlocks
      /\ rebuilt \in Chains /\ fromBlock \in L1Places /\ logs \subseteq 1..MaxL1
      /\ watched \in BOOLEAN /\ usual \in BOOLEAN
  BY DEF FollowerInv, FollowerShape
<1>2. /\ step = "logs" /\ logs # {} /\ (i \in PostsAt(rollupTxs) => IsKnown(i))
      /\ (tells => db' = e) /\ (~tells => db' = db)
      /\ logs' = logs \ {i}
      /\ UNCHANGED <<rollupTxs, committed, step, rebuilt, fromBlock, watched, usual>>
  BY DEF KnownLog
<1> HIDE DEF i
<1>3. db \in Dbs /\ \A j \in PostsAt(rollupTxs) : j \in 1..N
  BY <1>1, L1Basics DEF Tables
<1>4. CASE tells
  <2>1. i \in 1..N /\ db' = e
    BY <1>2, <1>3, <1>4
  <2>2. Tables(e) /\ SameL2(e, db)
    BY <1>1, <1>3, <2>1, AddL1TxTables, AddL1TxIs
  <2>3. \A n \in 0..N : RowsAre(db, rollupTxs, n) => RowsAre(e, rollupTxs, n)
    BY <1>1, <1>3, <2>1, AddL1TxRows
  <2>4. /\ HasRow(e, i) /\ \A j \in 1..N : HasRow(db, j) => HasRow(e, j)
        /\ \A r \in e.l1Txs : r \in db.l1Txs \/ (r.tx = rollupTxs[i] /\ r.block = i)
    BY <1>1, <1>3, <2>1, AddL1TxTells
  <2> HIDE DEF e
  <2>5. Len(rollupTxs[i].what) <= Len(rebuilt)
    BY <1>2, <1>4 DEF IsKnown
  <2>6. MoreRows(e, db)
    BY <2>1, <2>2, <2>3, <2>4, <2>5 DEF MoreRows, SameL2
  <2>7. FollowerShape'
    BY <1>1, <1>2, <2>1, <2>2 DEF FollowerShape, SameBlocks, SameL2
  <2>8. ASSUME NEW j \in PostsAt(rollupTxs), ToTell(j) PROVE ToTell(j)'
    <3>1. CASE HasRow(db, j)
      <4>1. HasRow(e, j)
        BY <1>3, <2>4, <3>1
      <4> QED BY <1>2, <2>1, <4>1 DEF ToTell, HasRow
    <3>2. CASE j \in logs
      <4>1. CASE j = i
        BY <1>2, <2>1, <2>4, <4>1 DEF ToTell, HasRow
      <4>2. CASE j # i
        <5>1. j \in logs' /\ step' = "logs"
          BY <1>2, <3>2, <4>2
        <5> QED BY <5>1 DEF ToTell
      <4> QED BY <4>1, <4>2
    <3> QED BY <1>2, <2>8, <3>1, <3>2 DEF ToTell
  <2>9. TellsRows
    BY <1>2, <2>1, <2>6, <2>8 DEF TellsRows, SeesL1
  <2> QED BY <2>7, <2>9, TellsRowsKnows DEF FollowerInv
<1>5. CASE ~tells
  <2>1. db' = db
    BY <1>2, <1>5
  <2>2. MoreRows(db', db)
    BY <2>1 DEF MoreRows
  <2>3. FollowerShape'
    BY <1>1, <1>2, <2>1 DEF FollowerShape, SameBlocks
  <2>4. ASSUME SeesL1, NEW j \in PostsAt(rollupTxs), ToTell(j) PROVE ToTell(j)'
    <3>1. CASE HasRow(db, j)
      BY <1>2, <2>1, <3>1 DEF ToTell, HasRow
    <3>2. CASE j \in logs /\ j # i
      <4>1. j \in logs' /\ step' = "logs"
        BY <1>2, <3>2
      <4> QED BY <4>1 DEF ToTell
    <3>3. CASE j = i
      <4>1. PICK r \in db.l1Txs : r.tx = rollupTxs[i]
        BY <1>5, <2>4, <3>3
      <4>2. RowsAre(db, rollupTxs, N) /\ r.block <= N
        BY <2>4 DEF SeesL1
      <4>3. HasRow(db, j)
        BY <1>1, <1>3, <3>3, <4>1, <4>2, RowOfTx
      <4> QED BY <3>1, <4>3
    <3> QED BY <1>2, <2>4, <3>1, <3>2, <3>3 DEF ToTell
  <2>5. TellsRows
    BY <1>2, <2>1, <2>2, <2>4 DEF TellsRows, SeesL1
  <2> QED BY <2>3, <2>5, TellsRowsKnows DEF FollowerInv
<1> QED BY <1>4, <1>5

\* It indexes the messages of L1.
LEMMA IndexMessagesKeeps ==
    ASSUME FollowerInv, IndexMessages
    PROVE  FollowerInv'
<1> DEFINE N == Len(rollupTxs)
<1> DEFINE e == Indexed(db)
<1>1. /\ L1Is(rollupTxs) /\ N <= MaxL1 /\ Tables(db) /\ Tables(committed) /\ SameBlocks
      /\ rebuilt \in Chains /\ fromBlock \in L1Places /\ logs \subseteq 1..MaxL1
      /\ watched \in BOOLEAN /\ usual \in BOOLEAN
  BY DEF FollowerInv, FollowerShape
<1>2. /\ step = "logs" /\ logs = {} /\ committed' = db' /\ step' = "poll"
      /\ PartOf(db', db) \/ db' = (IF N < db.messagesFrom THEN db ELSE e)
      /\ UNCHANGED <<rollupTxs, rebuilt, fromBlock, logs, watched, usual>>
  BY DEF IndexMessages, Indexed, PartOf
<1>3. MessagesTold(e, db)
  BY <1>1, IndexMessagesIs
<1> HIDE DEF e
<1>4. MoreRows(e, db)
  BY <1>3 DEF MessagesTold, MoreRows
<1>5. MoreRows(db, db)
  BY DEF MoreRows
<1>6. MoreRows(db', db) /\ Tables(db')
  <2>1. CASE db' = db
    BY <1>1, <1>5, <2>1
  <2>2. CASE db' = e
    <3>1. Tables(e)
      BY <1>3 DEF MessagesTold
    <3> QED BY <1>4, <2>2, <3>1
  <2>3. CASE PartOf(db', db)
    <3>1. PICK x : x = db' /\ PartOf(x, db)
      BY <2>3
    <3>2. PartTold(x, db)
      BY <1>1, <3>1, PartOfMessagesIs
    <3> QED BY <3>1, <3>2 DEF PartTold, SameL2, MoreRows
  <2> QED BY <1>2, <2>1, <2>2, <2>3
<1>7. FollowerShape'
  BY <1>1, <1>2, <1>6 DEF FollowerShape, SameBlocks
<1>8. ASSUME NEW j \in PostsAt(rollupTxs), ToTell(j) PROVE ToTell(j)'
  <2>1. HasRow(db, j)
    BY <1>2, <1>8 DEF ToTell
  <2>2. j \in 1..N
    BY <1>1, L1Basics
  <2>3. HasRow(db', j)
    BY <1>6, <2>1, <2>2 DEF MoreRows
  <2> QED BY <1>2, <2>3 DEF ToTell, HasRow
<1>9. TellsRows
  BY <1>2, <1>6, <1>8 DEF TellsRows, SeesL1
<1> QED BY <1>7, <1>9, TellsRowsKnows DEF FollowerInv

-----------------------------------------------------------------------------
(* The follower: a block is added                                          *)

\* The step that adds a block.
Adds(block, i) ==
    /\ i \in PostsAt(rollupTxs) /\ i \in 1..Len(rollupTxs) /\ rollupTxs[i] = Advance(block) /\ rollupTxs[i].what = block
    /\ block \in Blk /\ Once(block) /\ Len(block) = Len(rebuilt) + 1 /\ SubSeq(block, 1, Len(rebuilt)) = rebuilt
    /\ NewBlockTold(db', db, block, i) /\ SnapshotTold(db', db, block, i)
    /\ committed' = db' /\ rebuilt' = block /\ fromBlock' = i /\ logs' = logs \ {i} /\ step = "logs" /\ step' = "logs"
    /\ UNCHANGED <<rollupTxs, watched, usual>>

\* It adds one, or it stops.
LEMMA AddsIs ==
    ASSUME FollowerShape, NewLog
    PROVE  (Stop /\ UNCHANGED <<rollupTxs, committed, watched, usual>>) \/ \E block, i : Adds(block, i)
<1> DEFINE i == Min(logs)
<1>1. /\ L1Is(rollupTxs) /\ Len(rollupTxs) <= MaxL1 /\ Tables(db) /\ rebuilt \in Chains
  BY DEF FollowerShape
<1>2. UNCHANGED <<rollupTxs, watched, usual>> /\ step = "logs"
  BY DEF NewLog
<1>3. \/ Stop /\ UNCHANGED committed
      \/ \E block \in Rebuild(i) :
           /\ db' = NewDb(db, block, i) /\ committed' = db'
           /\ rebuilt' = block /\ fromBlock' = i /\ logs' = logs \ {i} /\ step' = step
  BY DEF NewLog, NewDb
<1>4. CASE Stop /\ UNCHANGED committed
  BY <1>2, <1>4
<1>5. ASSUME NEW block \in Rebuild(i),
             /\ db' = NewDb(db, block, i) /\ committed' = db'
             /\ rebuilt' = block /\ fromBlock' = i /\ logs' = logs \ {i} /\ step' = step
      PROVE  Adds(block, i)
  <2> HIDE DEF i
  <2>1. i \in PostsAt(rollupTxs) /\ Front(rollupTxs[i].what) = rebuilt /\ rollupTxs[i].what = block
    BY <1>5 DEF Rebuild
  <2>2. i \in 1..Len(rollupTxs) /\ block \in Chains /\ block # <<>> /\ Len(block) \in Nat \ {0} /\ rollupTxs[i] = Advance(block)
    BY <1>1, <2>1, L1Basics
  <2>3. block \in Blk
    BY <2>2 DEF Blk
  <2>4. Once(block)
    BY <1>1, <2>1 DEF L1Is, OneChain
  <2>5. rebuilt = SubSeq(block, 1, Len(block) - 1)
    BY <2>1 DEF Front
  <2>6. Len(block) - 1 \in Nat /\ Len(block) - 1 <= Len(block)
    BY <2>2
  <2>7. Len(rebuilt) = Len(block) - 1
    BY <2>2, <2>5, <2>6, FirstOf DEF Chains
  <2>8. Len(block) = Len(rebuilt) + 1 /\ SubSeq(block, 1, Len(rebuilt)) = rebuilt
    BY <2>2, <2>5, <2>7
  <2>9. NewBlockTold(NewDb(db, block, i), db, block, i)
    BY <1>1, <2>2, <2>3, NewDbIs
  <2>10. SnapshotTold(NewDb(db, block, i), db, block, i)
    BY <1>1, <2>2, <2>3, NewDbIs
  <2> QED BY <1>2, <1>5, <2>1, <2>2, <2>3, <2>4, <2>8, <2>9, <2>10 DEF Adds
<1> QED BY <1>3, <1>4, <1>5

\* The follower is in step with the block added.
LEMMA AddsInStep ==
    ASSUME FollowerShape, NEW block, NEW i, Adds(block, i), NEW top \in Chains, NEW m \in Nat, InStep(top, m)
    PROVE  \E T \in Chains : InStep(T, m + 1)'
<1> DEFINE N == Len(rollupTxs)
<1> DEFINE H == HeadIn(rollupTxs)
<1> DEFINE h == Len(top)
<1> DEFINE q == m + 1
<1> DEFINE e == db'
<1> DEFINE added == [block |-> block, l1Tx |-> rollupTxs[i], l1Block |-> i]
<1>1. /\ L1Is(rollupTxs) /\ N <= MaxL1 /\ Tables(db) /\ db \in Dbs
  BY DEF FollowerShape, Tables
<1>2. /\ m <= h /\ PostedIn(rollupTxs, top) /\ TellsOf(db, top)
      /\ \A b \in db.blocks : OnPlace(b) /\ Len(b.block) <= h
      /\ \A r \in db.l2Txs : r.block <= h
      /\ \A a \in Accounts : \E k \in m..h : db.accounts[a].state = AccountState(SubSeq(top, 1, k), a)
      /\ SnapsAre(db, m, h) /\ SeesAll(db, h)
      /\ logs \subseteq PostsAt(rollupTxs)
  BY DEF InStep
<1>3. /\ i \in PostsAt(rollupTxs) /\ i \in 1..N /\ rollupTxs[i] = Advance(block) /\ rollupTxs[i].what = block
      /\ block \in Blk /\ Once(block) /\ Len(block) = Len(rebuilt) + 1 /\ SubSeq(block, 1, Len(rebuilt)) = rebuilt
      /\ NewBlockTold(e, db, block, i) /\ SnapshotTold(e, db, block, i)
      /\ committed' = e /\ rebuilt' = block /\ logs' = logs \ {i} /\ step = "logs" /\ step' = "logs"
      /\ rollupTxs' = rollupTxs /\ db' = e
  BY DEF Adds
<1>4. rebuilt = SubSeq(top, 1, m) /\ \A j \in DOMAIN rollupTxs : Known(j) => ToTell(j)
  BY <1>3 DEF InStep
<1> HIDE DEF e
<1>5. /\ h \in Nat /\ N \in Nat /\ Len(rebuilt) = m /\ Len(block) = q /\ q \in Nat \ {0}
      /\ block \in Chains /\ SubSeq(block, 1, m) = rebuilt
  <2>1. top \in Seq(BlockTxs)
    BY DEF Chains
  <2>2. h \in Nat /\ m <= h
    BY <1>2, <2>1, LenProperties
  <2>3. Len(SubSeq(top, 1, m)) = m
    BY <2>1, <2>2, FirstOf
  <2>4. N \in Nat
    BY <1>1, L1Basics
  <2> QED BY <1>3, <1>4, <2>2, <2>3, <2>4 DEF Blk
<1>6. PICK T \in Chains : /\ T = IF q <= h THEN top ELSE block
  <2> DEFINE T == IF q <= h THEN top ELSE block
  <2>1. T \in Chains
    BY <1>5
  <2> QED BY <2>1
<1>7. /\ PostedIn(rollupTxs, T) /\ Len(T) \in Nat /\ q <= Len(T) /\ h <= Len(T) /\ (Len(T) = h \/ (Len(T) = q /\ h = m))
      /\ SubSeq(T, 1, q) = block
      /\ \A k \in 0..h : SubSeq(T, 1, k) = SubSeq(top, 1, k)
      /\ \A j \in 1..h : T[j] = top[j]
  <2>1. CASE q <= h
    <3>1. T = top
      BY <1>6, <2>1
    <3>2. block = SubSeq(top, 1, Len(block))
      BY <1>1, <1>2, <1>3, <1>5, <2>1, PostedIs
    <3> QED BY <1>2, <1>5, <2>1, <3>1, <3>2
  <2>2. CASE ~(q <= h)
    <3>1. T = block /\ h = m
      <4>1. m <= h
        BY <1>2
      <4> HIDE DEF h
      <4> QED BY <1>5, <1>6, <2>2, <4>1
    <3>2. rebuilt = top
      BY <1>4, <3>1, SubSeqFull DEF Chains
    <3>3. PostedIn(rollupTxs, block)
      BY <1>3 DEF PostedIn
    <3>4. SubSeq(block, 1, q) = block
      BY <1>5, SubSeqFull DEF Chains
    <3>5. SubSeq(block, 1, h) = top
      BY <1>5, <3>1, <3>2
    <3>6. h <= Len(block)
      BY <1>5, <3>1
    <3>7. \A k \in 0..h : SubSeq(SubSeq(block, 1, h), 1, k) = SubSeq(block, 1, k)
      BY <1>5, <3>6, FirstOfMore DEF Chains
    <3>8. \A k \in 0..h : SubSeq(block, 1, k) = SubSeq(top, 1, k)
      BY <3>5, <3>7
    <3>9. \A j \in 1..h : block[j] = top[j]
      <4>1. \A j \in 1..h : SubSeq(block, 1, h)[j] = block[j]
        BY <1>5, <3>6, FirstOf DEF Chains
      <4> QED BY <3>5, <4>1
    <3>10. q <= q
      BY <1>5
    <3> QED BY <1>5, <3>1, <3>3, <3>4, <3>6, <3>8, <3>9, <3>10
  <2> QED BY <2>1, <2>2
<1> DEFINE t == Last(block)
<1>8. t = T[q] /\ t \in BlockTxs /\ Once(T)
  <2>1. t = block[q] /\ t \in BlockTxs
    BY <1>3, <1>5, BlkIs
  <2>2. SubSeq(T, 1, q)[q] = T[q]
    <3>1. q \in 1..q
      BY <1>5
    <3> QED BY <1>5, <1>7, <3>1, FirstOf DEF Chains
  <2>3. Once(T)
    BY <1>1, <1>7, PostedIs
  <2> QED BY <1>7, <2>1, <2>2, <2>3
<1>9. /\ e.blocks = {b \in db.blocks : Len(b.block) # q} \cup {added}
      /\ t = "none" => e.l2Txs = db.l2Txs
      /\ t # "none" => e.l2Txs = {r \in db.l2Txs : r.tx # L2Tx(t)} \cup {[tx |-> L2Tx(t), block |-> q]}
      /\ e.accounts = [a \in Accounts |->
           IF a \in Touched(block) THEN [block |-> q, state |-> block] ELSE db.accounts[a]]
      /\ e.messagesFrom = db.messagesFrom
      /\ \A n \in 0..N : RowsAre(db, rollupTxs, n) => RowsAre(e, rollupTxs, n)
      /\ HasRow(e, i) /\ \A j \in 1..N : HasRow(db, j) => HasRow(e, j)
      /\ \A r \in e.l1Txs : r \in db.l1Txs \/ (r.tx = rollupTxs[i] /\ r.block = i)
  BY <1>3, <1>5 DEF NewBlockTold
<1> HIDE DEF N, H, h, q, t
<1>10. \A b \in db.blocks : Len(b.block) \in Nat
  <2> SUFFICES ASSUME NEW b \in db.blocks PROVE Len(b.block) \in Nat
    OBVIOUS
  <2>1. b.block \in Seq(BlockTxs)
    BY <1>1 DEF Dbs, Chains
  <2> QED BY <2>1, LenProperties
<1>11. added.block = block /\ Len(added.block) = q /\ added.l1Tx = Advance(block) /\ added.l1Block = i
  BY <1>3, <1>5
<1> HIDE DEF added
<1>12. TellsOf(e, T)
  <2>1. ASSUME NEW b \in e.blocks PROVE b.block = SubSeq(T, 1, Len(b.block)) /\ b.l1Tx = Advance(b.block)
    <3>1. CASE b = added
      BY <1>7, <1>11, <3>1
    <3>2. CASE b \in db.blocks
      <4>1. Len(b.block) <= h /\ Len(b.block) \in 0..h
        BY <1>2, <1>5, <1>10, <3>2
      <4>2. b.block = SubSeq(top, 1, Len(b.block)) /\ b.l1Tx = Advance(b.block)
        BY <1>2, <3>2, <4>1 DEF TellsOf, h
      <4> QED BY <1>7, <4>1, <4>2
    <3> QED BY <1>9, <3>1, <3>2
  <2>2. ASSUME NEW j \in 1..Len(T) PROVE \E b \in e.blocks : Len(b.block) = j
    <3>1. CASE j = q
      BY <1>9, <1>11, <3>1
    <3>2. CASE j # q
      <4>1. j \in 1..h
        BY <1>5, <1>7, <3>2 DEF q
      <4>2. PICK b \in db.blocks : Len(b.block) = j
        BY <1>2, <4>1 DEF TellsOf, h
      <4> QED BY <1>9, <3>2, <4>2
    <3> QED BY <3>1, <3>2
  <2>3. ASSUME NEW r \in e.l2Txs PROVE r.block # 0 /\ T[r.block] # "none" /\ r.tx = L2Tx(T[r.block])
    <3>1. CASE r \in db.l2Txs
      <4>1. r.block <= h /\ r.block \in Nat
        BY <1>1, <1>2, <3>1 DEF Dbs
      <4>2. r.block # 0 /\ top[r.block] # "none" /\ r.tx = L2Tx(top[r.block])
        BY <1>2, <3>1, <4>1 DEF TellsOf, h
      <4>3. r.block \in 1..h
        BY <1>5, <4>1, <4>2
      <4> QED BY <1>7, <4>2, <4>3
    <3>2. CASE t # "none" /\ r = [tx |-> L2Tx(t), block |-> q]
      <4>1. r.tx = L2Tx(t) /\ r.block = q
        BY <3>2
      <4> QED BY <1>5, <1>8, <3>2, <4>1
    <3> QED BY <1>9, <3>1, <3>2
  <2>4. ASSUME NEW j \in 1..Len(T), T[j] # "none" PROVE [tx |-> L2Tx(T[j]), block |-> j] \in e.l2Txs
    <3> DEFINE r == [tx |-> L2Tx(T[j]), block |-> j]
    <3>1. CASE j = q
      <4>1. t # "none" /\ r = [tx |-> L2Tx(t), block |-> q]
        BY <1>8, <2>4, <3>1
      <4> QED BY <1>9, <4>1
    <3>2. CASE j # q
      <4>1. j \in 1..h /\ q \in 1..Len(T)
        BY <1>5, <1>7, <3>2 DEF q
      <4>2. r \in db.l2Txs
        BY <1>2, <1>7, <2>4, <4>1 DEF TellsOf, h
      <4>3. T[j] # T[q]
        BY <1>8, <2>4, <3>2, <4>1 DEF Once
      <4>4. L2Tx(T[j]) # L2Tx(t)
        <5>1. L2Tx(T[j]).what[1] = T[j] /\ L2Tx(t).what[1] = t
          BY DEF L2Tx
        <5> QED BY <1>8, <4>3, <5>1
      <4>5. r.tx = L2Tx(T[j])
        OBVIOUS
      <4> HIDE DEF r
      <4>6. r \in e.l2Txs
        BY <1>9, <4>2, <4>4, <4>5
      <4> QED BY <4>6 DEF r
    <3> QED BY <3>1, <3>2
  <2> QED BY <2>1, <2>2, <2>3, <2>4 DEF TellsOf
<1>13. ASSUME NEW b \in e.blocks PROVE OnPlace(b) /\ Len(b.block) <= Len(T)
  <2>1. CASE b = added
    <3>1. DOMAIN rollupTxs = 1..N
      BY <1>1, L1Basics DEF N
    <3> QED BY <1>3, <1>7, <1>11, <2>1, <3>1 DEF OnPlace
  <2>2. CASE b \in db.blocks
    <3>1. OnPlace(b) /\ Len(b.block) <= h
      BY <1>2, <2>2
    <3> QED BY <1>5, <1>7, <1>10, <2>2, <3>1
  <2> QED BY <1>9, <2>1, <2>2
<1>14. ASSUME NEW r \in e.l2Txs PROVE r.block <= Len(T)
  <2>1. CASE r \in db.l2Txs
    <3>1. r.block <= h /\ r.block \in Nat
      BY <1>1, <1>2, <2>1 DEF Dbs
    <3> QED BY <1>5, <1>7, <3>1
  <2>2. CASE r = [tx |-> L2Tx(t), block |-> q]
    BY <1>7, <2>2
  <2> QED BY <1>9, <2>1, <2>2
<1>15. ASSUME NEW a \in Accounts
       PROVE  \E k \in q..Len(T) : e.accounts[a].state = AccountState(SubSeq(T, 1, k), a)
  <2>1. q \in q..Len(T)
    BY <1>5, <1>7
  <2>2. CASE a \in Touched(block)
    <3>1. e.accounts[a].state = block
      BY <1>9, <2>2
    <3>2. AccountState(block, a) = block
      BY <1>3, <2>2, AccountAfter
    <3> QED BY <1>7, <2>1, <3>1, <3>2
  <2>3. CASE a \notin Touched(block)
    <3>1. PICK k \in m..h : db.accounts[a].state = AccountState(SubSeq(top, 1, k), a)
      BY <1>2
    <3>2. e.accounts[a] = db.accounts[a]
      BY <1>9, <2>3
    <3>3. CASE k = m
      <4>1. AccountState(block, a) = AccountState(SubSeq(block, 1, Len(block) - 1), a)
        BY <1>3, <2>3, AccountAfter
      <4>2. Len(block) - 1 = m
        BY <1>5 DEF q
      <4>3. AccountState(block, a) = AccountState(rebuilt, a)
        BY <1>5, <4>1, <4>2
      <4> QED BY <1>4, <1>7, <2>1, <3>1, <3>2, <3>3, <4>3
    <3>4. CASE k # m
      <4>1. k \in q..Len(T) /\ k \in 0..h
        BY <1>5, <1>7, <3>4 DEF q
      <4>2. SubSeq(T, 1, k) = SubSeq(top, 1, k)
        BY <1>7, <4>1
      <4> QED BY <3>1, <3>2, <4>1, <4>2
    <3> QED BY <3>3, <3>4
  <2> QED BY <2>2, <2>3
<1>16. SnapsAre(e, q, Len(T))
  <2> DEFINE saved == [chain |-> block, l1Block |-> i]
  <2> DEFINE saves == q % SNAPSHOT_INTERVAL = 0
  <2>1. /\ \A s \in e.snapshots : s \in db.snapshots \/ s = saved
        /\ saves => /\ SnapshotAt(e.snapshots, q)
                    /\ \A s \in e.snapshots : Len(s.chain) = q => s = saved
        /\ ~saves => e.snapshots = db.snapshots
        /\ \A j \in Nat : SnapshotAt(db.snapshots, j) => SnapshotAt(e.snapshots, j)
    BY <1>3, <1>5 DEF SnapshotTold
  <2>2. /\ \A s \in db.snapshots : Len(s.chain) <= h =>
             Len(s.chain) <= m /\ \E b \in db.blocks : b.block = s.chain /\ b.l1Block = s.l1Block
        /\ \A j \in 1..h : j % SNAPSHOT_INTERVAL = 0 => SnapshotAt(db.snapshots, j)
        /\ \A s \in db.snapshots : Len(s.chain) % SNAPSHOT_INTERVAL = 0
    BY <1>2 DEF SnapsAre
  <2>3. Len(saved.chain) = q /\ saved.chain = block /\ saved.l1Block = i
    BY <1>5
  <2>4. \A s \in db.snapshots : Len(s.chain) \in Nat
    <3> SUFFICES ASSUME NEW s \in db.snapshots PROVE Len(s.chain) \in Nat
      OBVIOUS
    <3>1. s.chain \in Seq(BlockTxs)
      BY <1>1 DEF Dbs, Chains
    <3> QED BY <3>1, LenProperties
  <2>5. saved \in e.snapshots => saves
    <3> SUFFICES ASSUME saved \in e.snapshots, ~saves PROVE FALSE
      OBVIOUS
    <3>1. saved \in db.snapshots
      BY <2>1
    <3> HIDE DEF saved
    <3>2. q % SNAPSHOT_INTERVAL = 0
      BY <2>2, <2>3, <3>1
    <3> QED BY <3>2
  <2> HIDE DEF saved
  <2>6. ASSUME NEW s \in e.snapshots, Len(s.chain) <= Len(T)
        PROVE  Len(s.chain) <= q /\ \E b \in e.blocks : b.block = s.chain /\ b.l1Block = s.l1Block
    <3>1. CASE s = saved
      <4>1. added \in e.blocks
        BY <1>9
      <4> QED BY <1>5, <1>11, <2>3, <3>1, <4>1
    <3>2. CASE s # saved
      <4>1. s \in db.snapshots
        BY <2>1, <3>2
      <4>2. Len(s.chain) # q
        <5> SUFFICES ASSUME Len(s.chain) = q PROVE FALSE
          OBVIOUS
        <5>1. saves
          BY <2>2, <4>1
        <5> QED BY <2>1, <3>2, <5>1
      <4>3. Len(s.chain) <= h
        BY <1>5, <1>7, <2>4, <2>6, <4>1, <4>2 DEF q
      <4>4. PICK b \in db.blocks : b.block = s.chain /\ b.l1Block = s.l1Block
        BY <2>2, <4>1, <4>3
      <4>5. b \in e.blocks
        BY <1>9, <4>2, <4>4
      <4>6. Len(s.chain) <= q
        <5>1. Len(s.chain) <= m
          BY <2>2, <4>1, <4>3
        <5> QED BY <1>5, <2>4, <4>1, <5>1 DEF q
      <4> QED BY <4>4, <4>5, <4>6
    <3> QED BY <3>1, <3>2
  <2>7. ASSUME NEW j \in 1..Len(T), j % SNAPSHOT_INTERVAL = 0 PROVE SnapshotAt(e.snapshots, j)
    <3>1. CASE j = q
      BY <2>1, <2>7, <3>1
    <3>2. CASE j # q
      <4>1. j \in 1..h /\ j \in Nat
        BY <1>5, <1>7, <3>2 DEF q
      <4>2. SnapshotAt(db.snapshots, j)
        BY <2>2, <2>7, <4>1
      <4> QED BY <2>1, <4>1, <4>2
    <3> QED BY <3>1, <3>2
  <2>8. \A s \in e.snapshots : Len(s.chain) % SNAPSHOT_INTERVAL = 0
    BY <2>1, <2>2, <2>3, <2>5
  <2> QED BY <2>6, <2>7, <2>8 DEF SnapsAre
<1>17. /\ RowsAre(e, rollupTxs, N) /\ PostRows(e, Len(T)) /\ (\A r \in e.l1Txs : r.block <= N)
       /\ e.messagesFrom <= N + 1
  <2>1. RowsAre(db, rollupTxs, N) /\ PostRows(db, h) /\ (\A r \in db.l1Txs : r.block <= N) /\ db.messagesFrom <= N + 1
    BY <1>2 DEF SeesAll, N
  <2>2. N \in 0..N /\ i <= N
    BY <1>3, <1>5
  <2>3. ASSUME NEW r \in e.l1Txs, r.tx.kind = "advance" PROVE Len(r.tx.what) <= Len(T)
    <3>1. CASE r \in db.l1Txs
      <4>1. Len(r.tx.what) <= h
        BY <2>1, <2>3, <3>1 DEF PostRows
      <4>2. r.tx \in L1Tx
        BY <1>1, <3>1 DEF Dbs
      <4>3. r.tx.what \in Seq(BlockTxs)
        BY <2>3, <4>2, TxKinds DEF Chains
      <4>4. Len(r.tx.what) \in Nat
        BY <4>3, LenProperties
      <4> QED BY <1>5, <1>7, <4>1, <4>4
    <3>2. CASE r.tx = rollupTxs[i]
      <4>1. r.tx.what = block
        BY <1>3, <3>2
      <4> QED BY <1>5, <1>7, <4>1
    <3> QED BY <1>9, <3>1, <3>2
  <2> QED BY <1>9, <2>1, <2>2, <2>3 DEF PostRows
<1>18. ASSUME NEW j \in PostsAt(rollupTxs), Len(rollupTxs[j].what) <= q PROVE HasRow(e, j) \/ j \in logs'
  <2>1. Len(rollupTxs[j].what) \in Nat \ {0} /\ j \in 1..N /\ DOMAIN rollupTxs = 1..N
    BY <1>1, L1Basics DEF N
  <2>2. CASE Len(rollupTxs[j].what) = q
    <3>1. Len(rollupTxs[j].what) = Len(rollupTxs[i].what)
      BY <1>3, <1>5, <2>2
    <3>2. ~(i < j) /\ ~(j < i)
      <4>1. i < j => Len(rollupTxs[i].what) < Len(rollupTxs[j].what)
        BY <1>1, <1>3 DEF L1Is, OneChain
      <4>2. j < i => Len(rollupTxs[j].what) < Len(rollupTxs[i].what)
        BY <1>1, <1>3 DEF L1Is, OneChain
      <4> QED BY <2>1, <3>1, <4>1, <4>2
    <3>3. i = j
      BY <1>3, <1>5, <2>1, <3>2
    <3> QED BY <1>9, <3>3
  <2>3. CASE Len(rollupTxs[j].what) # q
    <3>1. Len(rollupTxs[j].what) <= Len(rebuilt)
      BY <1>5, <1>18, <2>1, <2>3 DEF q
    <3>2. Known(j)
      BY <3>1 DEF Known, IsKnown
    <3>3. ToTell(j)
      BY <1>4, <2>1, <3>2
    <3>4. CASE HasRow(db, j)
      BY <1>9, <2>1, <3>4
    <3>5. CASE j \in logs
      <4>1. j # i
        BY <1>3, <1>5, <2>3
      <4> QED BY <1>3, <3>5, <4>1
    <3> QED BY <1>3, <3>3, <3>4, <3>5 DEF ToTell
  <2> QED BY <2>2, <2>3
<1>19. ASSUME NEW j \in DOMAIN rollupTxs', Known(j)' PROVE ToTell(j)'
  <2>1. j \in PostsAt(rollupTxs) /\ Len(rollupTxs[j].what) <= q
    BY <1>3, <1>5, <1>19 DEF Known, IsKnown
  <2>2. HasRow(e, j) \/ j \in logs'
    BY <1>18, <2>1
  <2> QED BY <1>3, <2>2 DEF ToTell, HasRow
<1>20. InStep(T, q)'
  <2>1. SeesAll(db, Len(T))' /\ SeesAll(committed, Len(T))'
    BY <1>3, <1>17 DEF SeesAll, N
  <2>2. (\A b \in db.blocks : OnPlace(b) /\ Len(b.block) <= Len(T))'
    BY <1>3, <1>13 DEF OnPlace
  <2>3. (\A a \in Accounts : \E k \in q..Len(T) : db.accounts[a].state = AccountState(SubSeq(T, 1, k), a))'
    BY <1>3, <1>15
  <2>4. (logs \subseteq PostsAt(rollupTxs))'
    BY <1>2, <1>3
  <2>5. (rebuilt = SubSeq(T, 1, q))'
    BY <1>3, <1>7
  <2> QED BY <1>3, <1>7, <1>12, <1>14, <1>16, <1>19, <2>1, <2>2, <2>3, <2>4, <2>5 DEF InStep
<1> QED BY <1>20 DEF q

\* A follower that L1 left behind adds a block: it is still behind, or its
\* last block is that of L1.
LEMMA AddsLeft ==
    ASSUME FollowerShape, NEW block, NEW i, Adds(block, i),
           NEW c \in Chains, NEW h \in Nat, NEW n \in 0..Len(rollupTxs), LeftBehind(c, h, n), Len(block) <= h
    PROVE  LeftBehind(c, h, n)'
<1> DEFINE q == Len(block)
<1> DEFINE k == Len(c)
<1> DEFINE t == Last(block)
<1> DEFINE e == db'
<1> DEFINE added == [block |-> block, l1Tx |-> rollupTxs[i], l1Block |-> i]
<1> DEFINE saved == [chain |-> block, l1Block |-> i]
<1>1. L1Is(rollupTxs) /\ Tables(db) /\ db \in Dbs /\ rebuilt \in Chains
  BY DEF FollowerShape, Tables
<1>2. /\ rollupTxs[i] = Advance(block) /\ block \in Blk /\ Once(block)
      /\ q = Len(rebuilt) + 1 /\ SubSeq(block, 1, Len(rebuilt)) = rebuilt
      /\ NewBlockTold(e, db, block, i) /\ SnapshotTold(e, db, block, i)
      /\ committed' = e /\ rebuilt' = block /\ step = "logs" /\ step' = "logs"
      /\ rollupTxs' = rollupTxs /\ db' = e
  BY DEF Adds
<1>3. /\ k <= h /\ TellsOf(db, c)
      /\ \A b \in db.blocks : Len(b.block) <= h /\ (Len(b.block) <= k => b.l1Block <= n + FinalityLag)
      /\ \A a \in Accounts : db.accounts[a].block <= k => db.accounts[a].state = AccountState(c, a)
      /\ SnapsAre(db, k, h) /\ RowsAre(db, rollupTxs, n) /\ PostRows(db, h)
      /\ k <= Len(rebuilt) /\ Len(rebuilt) <= h /\ SubSeq(rebuilt, 1, k) = c
  BY <1>2 DEF LeftBehind
<1> HIDE DEF e
<1>4. k \in Nat /\ Len(rebuilt) \in Nat /\ q \in Nat \ {0} /\ block \in Chains /\ k < q /\ q <= h
  <2>1. c \in Seq(BlockTxs) /\ rebuilt \in Seq(BlockTxs) /\ block \in Seq(BlockTxs) /\ block \in Chains
    BY <1>1, <1>2 DEF Chains, Blk
  <2>2. Len(c) \in Nat /\ Len(rebuilt) \in Nat /\ Len(block) \in Nat
    BY <2>1, LenProperties
  <2> QED BY <1>2, <1>3, <2>1, <2>2
<1>5. SubSeq(block, 1, k) = c /\ \A j \in 1..k : block[j] = c[j]
  <2>1. k \in 0..Len(rebuilt) /\ Len(rebuilt) <= Len(block) /\ k <= Len(block)
    BY <1>2, <1>3, <1>4
  <2>2. SubSeq(SubSeq(block, 1, Len(rebuilt)), 1, k) = SubSeq(block, 1, k)
    BY <1>4, <2>1, FirstOfMore DEF Chains
  <2>3. \A j \in 1..k : SubSeq(block, 1, k)[j] = block[j]
    BY <1>4, <2>1, FirstOf DEF Chains
  <2> QED BY <1>2, <1>3, <2>2, <2>3
<1>6. t = block[q]
  BY <1>2, BlkIs
<1>7. /\ e.blocks = {b \in db.blocks : Len(b.block) # q} \cup {added}
      /\ t = "none" => e.l2Txs = db.l2Txs
      /\ t # "none" => e.l2Txs = {r \in db.l2Txs : r.tx # L2Tx(t)} \cup {[tx |-> L2Tx(t), block |-> q]}
      /\ e.accounts = [a \in Accounts |->
           IF a \in Touched(block) THEN [block |-> q, state |-> block] ELSE db.accounts[a]]
      /\ \A u \in 0..Len(rollupTxs) : RowsAre(db, rollupTxs, u) => RowsAre(e, rollupTxs, u)
      /\ \A r \in e.l1Txs : r \in db.l1Txs \/ (r.tx = rollupTxs[i] /\ r.block = i)
  BY <1>2 DEF NewBlockTold
<1>8. added.block = block /\ Len(added.block) = q
  OBVIOUS
<1>9. /\ \A s \in e.snapshots : s \in db.snapshots \/ s = saved
      /\ q % SNAPSHOT_INTERVAL = 0 /\ Two(db.snapshots, q) => saved \notin e.snapshots
      /\ q % SNAPSHOT_INTERVAL # 0 => e.snapshots = db.snapshots
      /\ \A j \in Nat : SnapshotAt(db.snapshots, j) => SnapshotAt(e.snapshots, j)
  BY <1>2 DEF SnapshotTold
<1>10. Len(saved.chain) = q
  OBVIOUS
<1> HIDE DEF q, t, k, added, saved
<1>11. TellsOf(e, c)
  <2>1. ASSUME NEW b \in e.blocks, Len(b.block) <= k PROVE b.block = SubSeq(c, 1, Len(b.block)) /\ b.l1Tx = Advance(b.block)
    <3>1. b \in db.blocks
      BY <1>4, <1>7, <1>8, <2>1
    <3> QED BY <1>3, <2>1, <3>1 DEF TellsOf, k
  <2>2. ASSUME NEW j \in 1..k PROVE \E b \in e.blocks : Len(b.block) = j
    <3>1. PICK b \in db.blocks : Len(b.block) = j
      BY <1>3 DEF TellsOf, k
    <3>2. j # q
      BY <1>4
    <3> QED BY <1>7, <3>1, <3>2
  <2>3. ASSUME NEW r \in e.l2Txs, r.block <= k PROVE r.block # 0 /\ c[r.block] # "none" /\ r.tx = L2Tx(c[r.block])
    <3>1. r \in db.l2Txs \/ r = [tx |-> L2Tx(t), block |-> q]
      BY <1>7
    <3>2. r # [tx |-> L2Tx(t), block |-> q]
      BY <1>4, <2>3
    <3> QED BY <1>3, <2>3, <3>1, <3>2 DEF TellsOf, k
  <2>4. ASSUME NEW j \in 1..k, c[j] # "none" PROVE [tx |-> L2Tx(c[j]), block |-> j] \in e.l2Txs
    <3> DEFINE r == [tx |-> L2Tx(c[j]), block |-> j]
    <3>1. r \in db.l2Txs
      BY <1>3, <2>4 DEF TellsOf, k
    <3>2. j \in 1..Len(block) /\ q \in 1..Len(block) /\ j # q
      BY <1>4 DEF q
    <3>3. block[j] # block[q]
      BY <1>2, <1>5, <2>4, <3>2 DEF Once
    <3>4. L2Tx(c[j]) # L2Tx(t)
      <4>1. L2Tx(c[j]).what[1] = c[j] /\ L2Tx(t).what[1] = t
        BY DEF L2Tx
      <4> QED BY <1>5, <1>6, <3>3, <4>1
    <3>5. r.tx = L2Tx(c[j])
      OBVIOUS
    <3> HIDE DEF r
    <3>6. r \in e.l2Txs
      BY <1>7, <3>1, <3>4, <3>5
    <3> QED BY <3>6 DEF r
  <2> QED BY <2>1, <2>2, <2>3, <2>4 DEF TellsOf, k
<1>12. ASSUME NEW b \in e.blocks PROVE Len(b.block) <= h /\ (Len(b.block) <= k => b.l1Block <= n + FinalityLag)
  <2>1. CASE b = added
    BY <1>4, <1>8, <2>1
  <2>2. CASE b \in db.blocks
    BY <1>3, <2>2
  <2> QED BY <1>7, <2>1, <2>2
<1>13. ASSUME NEW a \in Accounts, e.accounts[a].block <= k PROVE e.accounts[a].state = AccountState(c, a)
  <2>1. a \notin Touched(block)
    <3> SUFFICES ASSUME a \in Touched(block) PROVE FALSE
      OBVIOUS
    <3>1. e.accounts[a].block = q
      BY <1>7
    <3> QED BY <1>4, <1>13, <3>1
  <2>2. e.accounts[a] = db.accounts[a]
    BY <1>7, <2>1
  <2> QED BY <1>3, <1>13, <2>2
<1>14. SnapsAre(e, k, h)
  <2>1. /\ \A s \in db.snapshots : Len(s.chain) <= h =>
             Len(s.chain) <= k /\ \E b \in db.blocks : b.block = s.chain /\ b.l1Block = s.l1Block
        /\ \A j \in 1..h : j % SNAPSHOT_INTERVAL = 0 => SnapshotAt(db.snapshots, j)
        /\ \A s \in db.snapshots : Len(s.chain) % SNAPSHOT_INTERVAL = 0
    BY <1>3 DEF SnapsAre
  <2>2. \A s \in e.snapshots : s \in db.snapshots
    <3> SUFFICES ASSUME NEW s \in e.snapshots, s \notin db.snapshots PROVE FALSE
      OBVIOUS
    <3>1. s = saved /\ q % SNAPSHOT_INTERVAL = 0
      BY <1>9
    <3>2. q \in 1..h
      BY <1>4
    <3>3. SnapshotAt(db.snapshots, q)
      BY <2>1, <3>1, <3>2
    <3>4. ~\E r \in db.snapshots : Len(r.chain) = q
      <4> SUFFICES ASSUME NEW r \in db.snapshots, Len(r.chain) = q PROVE FALSE
        OBVIOUS
      <4>1. Len(r.chain) <= k
        BY <1>4, <2>1
      <4> QED BY <1>4, <4>1
    <3>5. Two(db.snapshots, q)
      BY <3>3, <3>4 DEF SnapshotAt
    <3> QED BY <1>9, <3>1, <3>5
  <2>3. ASSUME NEW s \in e.snapshots, Len(s.chain) <= h
        PROVE  Len(s.chain) <= k /\ \E b \in e.blocks : b.block = s.chain /\ b.l1Block = s.l1Block
    <3>1. Len(s.chain) <= k
      BY <2>1, <2>2, <2>3
    <3>2. PICK b \in db.blocks : b.block = s.chain /\ b.l1Block = s.l1Block
      BY <2>1, <2>2, <2>3
    <3>3. Len(b.block) # q
      BY <1>4, <3>1, <3>2
    <3> QED BY <1>7, <3>1, <3>2, <3>3
  <2>4. \A j \in 1..h : j % SNAPSHOT_INTERVAL = 0 => SnapshotAt(e.snapshots, j)
    BY <1>9, <2>1
  <2> QED BY <2>1, <2>2, <2>3, <2>4 DEF SnapsAre
<1>15. RowsAre(e, rollupTxs, n)
  BY <1>3, <1>7
<1>16. ASSUME NEW r \in e.l1Txs, r.tx.kind = "advance" PROVE Len(r.tx.what) <= h
  <2>1. CASE r \in db.l1Txs
    BY <1>3, <1>16, <2>1 DEF PostRows
  <2>2. CASE r.tx = rollupTxs[i]
    <3>1. r.tx.what = block
      BY <1>2, <2>2 DEF Advance
    <3> QED BY <1>4, <3>1 DEF q
  <2> QED BY <1>7, <2>1, <2>2
<1>17. k <= q
  BY <1>4
<1>18. LeftBehind(c, h, n)'
  <2>1. PostRows(e, h)
    BY <1>16 DEF PostRows
  <2>2. k <= Len(block) /\ Len(block) <= h /\ SubSeq(block, 1, k) = c
    BY <1>4, <1>5, <1>17 DEF q
  <2> QED BY <1>2, <1>3, <1>11, <1>12, <1>13, <1>14, <1>15, <2>1, <2>2 DEF LeftBehind, k
<1> QED BY <1>18

\* A block above all others is the last one, and L1 has it.
LEMMA AddsOnTop ==
    ASSUME FollowerShape, NEW block, NEW i, Adds(block, i), \A b \in db.blocks : Len(b.block) < Len(block)
    PROVE  WentOn'
<1> DEFINE e == db'
<1> DEFINE added == [block |-> block, l1Tx |-> rollupTxs[i], l1Block |-> i]
<1>1. L1Is(rollupTxs) /\ db \in Dbs
  BY DEF FollowerShape, Tables
<1>2. /\ i \in 1..Len(rollupTxs) /\ NewBlockTold(e, db, block, i) /\ block \in Blk
      /\ rollupTxs' = rollupTxs /\ db' = e /\ rebuilt' = block
  BY DEF Adds
<1> HIDE DEF e
<1>3. e.blocks = {b \in db.blocks : Len(b.block) # Len(block)} \cup {added}
  BY <1>2 DEF NewBlockTold
<1>4. added.block = block /\ added.l1Tx = rollupTxs[i] /\ added.l1Block = i
  OBVIOUS
<1> HIDE DEF added
<1>5. Len(block) \in Nat /\ \A b \in db.blocks : Len(b.block) \in Nat
  <2>1. ASSUME NEW b \in db.blocks PROVE Len(b.block) \in Nat
    <3>1. b.block \in Seq(BlockTxs)
      BY <1>1 DEF Dbs, Chains
    <3> QED BY <3>1, LenProperties
  <2> QED BY <1>2, <2>1, BlkIs
<1>6. ASSUME NEW b \in e.blocks PROVE Len(b.block) <= Len(block)
  BY <1>3, <1>4, <1>5
<1>7. OnPlace(added)
  <2>1. DOMAIN rollupTxs = 1..Len(rollupTxs)
    BY <1>1, L1Basics
  <2> QED BY <1>2, <1>4, <2>1 DEF OnPlace
<1>8. ASSUME NEW b \in e.blocks, \A x \in e.blocks : Len(x.block) <= Len(b.block) PROVE OnPlace(b)
  <2>1. Len(block) <= Len(b.block)
    BY <1>3, <1>4, <1>8
  <2>2. b = added
    BY <1>3, <1>5, <2>1
  <2> QED BY <1>7, <2>2
<1>9. StillOnL1'
  BY <1>2, <1>8 DEF StillOnL1, OnPlace
<1> QED BY <1>2, <1>6, <1>9 DEF WentOn

-----------------------------------------------------------------------------
(* The follower: every step                                                *)

\* It adds a block, or stops.
LEMMA NewLogKeeps ==
    ASSUME FollowerInv, NewLog
    PROVE  FollowerInv'
<1>1. FollowerShape
  BY DEF FollowerInv
<1>2. CASE Stop /\ UNCHANGED <<rollupTxs, committed, watched, usual>>
  BY <1>2, StopKeeps
<1>3. ASSUME NEW block, NEW i, Adds(block, i) PROVE FollowerInv'
  <2>1. /\ i \in 1..Len(rollupTxs) /\ block \in Blk /\ Len(block) = Len(rebuilt) + 1
        /\ NewBlockTold(db', db, block, i)
        /\ committed' = db' /\ rebuilt' = block /\ fromBlock' = i /\ logs' = logs \ {i} /\ step = "logs" /\ step' = "logs"
        /\ rollupTxs' = rollupTxs /\ watched' = watched /\ usual' = usual
    BY <1>3 DEF Adds
  <2>2. Tables(db')
    BY <2>1 DEF NewBlockTold
  <2>3. i \in L1Places
    <3>1. Len(rollupTxs) \in Nat /\ Len(rollupTxs) <= MaxL1 /\ MaxL1 \in Nat
      BY <1>1, L1Basics, FollowerAssumption DEF FollowerShape
    <3> QED BY <2>1, <3>1 DEF L1Places
  <2>4. FollowerShape'
    BY <1>1, <2>1, <2>2, <2>3 DEF FollowerShape, SameBlocks, Blk
  <2>5. Len(rebuilt) \in Nat /\ Len(block) \in Nat /\ \A b \in db.blocks : Len(b.block) \in Nat
    <3>1. rebuilt \in Seq(BlockTxs) /\ db \in Dbs
      BY <1>1 DEF FollowerShape, Chains, Tables
    <3>2. ASSUME NEW b \in db.blocks PROVE Len(b.block) \in Nat
      <4>1. b.block \in Seq(BlockTxs)
        BY <3>1 DEF Dbs, Chains
      <4> QED BY <4>1, LenProperties
    <3>3. Len(rebuilt) \in Nat
      BY <3>1, LenProperties
    <3> QED BY <2>1, <3>2, <3>3
  <2>6. ASSUME usual', watched' PROVE \E T \in Chains, k \in Nat : InStep(T, k)'
    <3>1. PICK top \in Chains, m \in Nat : InStep(top, m)
      BY <2>1, <2>6 DEF FollowerInv, FollowerKnows
    <3>2. \E T \in Chains : InStep(T, m + 1)'
      BY <1>1, <1>3, <3>1, AddsInStep
    <3>3. m + 1 \in Nat
      OBVIOUS
    <3> QED BY <3>2, <3>3
  <2>7. ASSUME usual', ~watched'
        PROVE  WentOn' \/ \E c \in Chains, h \in Nat, n \in 0..Len(rollupTxs') : LeftBehind(c, h, n)'
    <3>1. WentOn \/ \E c \in Chains, h \in Nat, n \in 0..Len(rollupTxs) : LeftBehind(c, h, n)
      BY <2>1, <2>7 DEF FollowerInv, FollowerKnows
    <3>2. CASE WentOn
      <4>1. \A b \in db.blocks : Len(b.block) <= Len(rebuilt)
        BY <2>1, <3>2 DEF WentOn
      <4>2. \A b \in db.blocks : Len(b.block) < Len(block)
        BY <2>1, <2>5, <4>1
      <4> QED BY <1>1, <1>3, <4>2, AddsOnTop
    <3>3. ASSUME NEW c \in Chains, NEW h \in Nat, NEW n \in 0..Len(rollupTxs), LeftBehind(c, h, n)
          PROVE  WentOn' \/ LeftBehind(c, h, n)'
      <4>1. CASE Len(block) <= h
        BY <1>1, <1>3, <3>3, <4>1, AddsLeft
      <4>2. CASE ~(Len(block) <= h)
        <5>1. \A b \in db.blocks : Len(b.block) <= h
          BY <3>3 DEF LeftBehind
        <5>2. \A b \in db.blocks : Len(b.block) < Len(block)
          BY <2>5, <4>2, <5>1
        <5> QED BY <1>1, <1>3, <5>2, AddsOnTop
      <4> QED BY <4>1, <4>2
    <3> QED BY <2>1, <3>1, <3>2, <3>3
  <2>8. FollowerKnows'
    BY <2>6, <2>7 DEF FollowerKnows
  <2> QED BY <2>4, <2>8 DEF FollowerInv
<1> QED BY <1>1, <1>2, <1>3, AddsIs DEF NewLog

\* It starts.
LEMMA StartKeeps ==
    ASSUME FollowerInv, StartFollower
    PROVE  FollowerInv'
<1>1. FollowerShape
  BY DEF FollowerInv
<1>2. PICK s, before : StartsFrom(s, before)
  BY <1>1, StartIs
<1>3. /\ s.chain \in Chains /\ s.l1Block \in L1Places /\ before \in L1Places
      /\ step = "down" /\ rebuilt' = s.chain /\ committed' = db' /\ step' = "poll" /\ watched' = TRUE
      /\ rollupTxs' = rollupTxs /\ logs' = logs
      /\ usual' = (usual /\ ~Moved(s) /\ ~Behind(s) /\ ~Unnoticed)
      /\ StillOnL1 => fromBlock' = s.l1Block /\ db' = db
      /\ ~StillOnL1 => fromBlock' = before /\ Tables(db')
  BY <1>2 DEF StartsFrom
<1>4. FollowerShape'
  <2>1. fromBlock' \in L1Places /\ Tables(db')
    BY <1>1, <1>3 DEF FollowerShape
  <2>2. usual' \in BOOLEAN /\ watched' \in BOOLEAN
    BY <1>3
  <2>3. L1Is(rollupTxs) /\ Len(rollupTxs) <= MaxL1 /\ logs = {}
    BY <1>1, <1>3 DEF FollowerShape
  <2> QED BY <1>3, <2>1, <2>2, <2>3 DEF FollowerShape, SameBlocks
<1>5. ASSUME usual' PROVE \E T \in Chains, k \in Nat : InStep(T, k)'
  <2>1. usual /\ ~Unnoticed
    BY <1>3, <1>5
  <2>2. Len(s.chain) \in Nat
    <3> DEFINE v == s.chain
    <3>1. v \in Seq(BlockTxs)
      BY <1>3 DEF Chains
    <3> HIDE DEF v
    <3>2. Len(v) \in Nat
      BY <3>1, LenProperties
    <3> QED BY <3>2 DEF v
  <2>3. CASE watched
    <3>1. PICK top \in Chains, m \in Nat : InStep(top, m)
      BY <2>1, <2>3 DEF FollowerInv, FollowerKnows
    <3>2. InStep(top, Len(s.chain))'
      BY <1>1, <1>2, <1>5, <3>1, StartsInStep
    <3> QED BY <2>2, <3>2
  <2>4. CASE ~watched
    <3>1. ~StillOnL1
      BY <2>1, <2>4 DEF Unnoticed
    <3>2. \E c \in Chains, h \in Nat, n \in 0..Len(rollupTxs) : LeftBehind(c, h, n)
      BY <2>1, <2>4, <3>1 DEF FollowerInv, FollowerKnows, WentOn
    <3>3. PICK c \in Chains, h \in Nat, n \in 0..Len(rollupTxs) : LeftBehind(c, h, n)
      BY <3>2
    <3>4. InStep(s.chain, Len(s.chain))'
      BY <1>1, <1>2, <1>5, <3>1, <3>3, RewindsInStep
    <3> QED BY <1>3, <2>2, <3>4
  <2> QED BY <2>3, <2>4
<1>6. FollowerKnows'
  BY <1>3, <1>5 DEF FollowerKnows
<1> QED BY <1>4, <1>6 DEF FollowerInv

\* L1 goes on.
LEMMA MineKeeps ==
    ASSUME FollowerInv, Mine
    PROVE  FollowerInv'
<1>1. FollowerShape
  BY DEF FollowerInv
<1>2. UNCHANGED <<db, committed, step, rebuilt, fromBlock, logs, watched, usual>>
  BY DEF Mine
<1>3. L1Is(rollupTxs)' /\ Len(rollupTxs') <= MaxL1
  <2>1. L1Is(rollupTxs)' /\ Len(rollupTxs') = Len(rollupTxs) + 1 /\ Len(rollupTxs) + 1 <= MaxL1
    BY <1>1, MineIs
  <2> QED BY <2>1
<1>4. FollowerShape'
  BY <1>1, <1>2, <1>3 DEF FollowerShape, SameBlocks
<1>5. \A top \in Chains, m \in Nat : InStep(top, m) => InStep(top, m)'
  BY <1>1, MineInStep
<1>6. \A c \in Chains, h \in Nat, n \in 0..Len(rollupTxs) : LeftBehind(c, h, n) => LeftBehind(c, h, n)' /\ n \in 0..Len(rollupTxs')
  BY <1>1, MineLeft
<1>7. WentOn => WentOn'
  BY <1>1, MineWentOn
<1>8. FollowerKnows'
  BY <1>2, <1>5, <1>6, <1>7 DEF FollowerInv, FollowerKnows
<1> QED BY <1>4, <1>8 DEF FollowerInv

\* L1 loses blocks.
LEMMA LoseKeeps ==
    ASSUME FollowerInv, LoseBlocks
    PROVE  FollowerInv'
<1>1. FollowerShape
  BY DEF FollowerInv
<1>2. watched /\ watched' = FALSE /\ UNCHANGED <<db, committed, step, rebuilt, fromBlock, logs, usual>>
  BY DEF LoseBlocks
<1>3. L1Is(rollupTxs)' /\ Len(rollupTxs') <= MaxL1
  <2>1. PICK n \in 0..Len(rollupTxs) :
          /\ L1Is(rollupTxs)' /\ Len(rollupTxs') = n /\ n \in Nat /\ n < Len(rollupTxs) /\ Len(rollupTxs) \in Nat
    BY <1>1, LoseIs
  <2>2. Len(rollupTxs) <= MaxL1 /\ MaxL1 \in Nat
    BY <1>1, FollowerAssumption DEF FollowerShape
  <2> QED BY <2>1, <2>2
<1>4. FollowerShape'
  BY <1>1, <1>2, <1>3 DEF FollowerShape, SameBlocks
<1>5. ASSUME usual' PROVE \E c \in Chains, h \in Nat, n \in 0..Len(rollupTxs') : LeftBehind(c, h, n)'
  <2>1. PICK top \in Chains, m \in Nat : InStep(top, m)
    BY <1>2, <1>5 DEF FollowerInv, FollowerKnows
  <2> QED BY <1>1, <2>1, LoseLeft
<1>6. FollowerKnows'
  BY <1>2, <1>5 DEF FollowerKnows
<1> QED BY <1>4, <1>6 DEF FollowerInv

\* The follower's invariant holds at first.
LEMMA FollowerInvInit ==
    ASSUME FollowerInit
    PROVE  FollowerInv
<1>1. /\ rollupTxs = <<>> /\ db = EmptyDb /\ committed = EmptyDb
      /\ step = "down" /\ rebuilt = <<>> /\ fromBlock = 0 /\ logs = {} /\ watched = TRUE /\ usual = TRUE
  BY DEF FollowerInit
<1>2. <<>> \in Chains /\ Len(<<>>) = 0 /\ MaxL1 \in Nat /\ SNAPSHOT_INTERVAL \in Nat
  BY EmptySeq, FollowerAssumption DEF Chains
<1>3. PostsAt(<<>>) = {}
  <2>1. DOMAIN <<>> = {}
    OBVIOUS
  <2> QED BY <2>1 DEF PostsAt
<1>4. L1Is(rollupTxs)
  <2>1. <<>> \in Seq(L1Tx)
    BY EmptySeq
  <2> QED BY <1>1, <1>2, <1>3, <2>1 DEF L1Is, OneChain
<1>5. /\ EmptyDb.l1Txs = {} /\ EmptyDb.l2Txs = {} /\ EmptyDb.blocks = {} /\ EmptyDb.sides = {} /\ EmptyDb.snapshots = {}
      /\ EmptyDb.accounts = [a \in Accounts |-> [block |-> 0, state |-> <<>>]] /\ EmptyDb.messagesFrom = 0
  BY DEF EmptyDb
<1>6. EmptyDb \in Dbs
  <2>1. [a \in Accounts |-> [block |-> 0, state |-> <<>>]] \in [Accounts -> [block : Nat, state : Chains]]
    BY <1>2
  <2>2. 0 \in 0..(MaxL1 + 1)
    BY <1>2
  <2> DEFINE acc == [a \in Accounts |-> [block |-> 0, state |-> <<>>]]
  <2>3. EmptyDb = [l1Txs |-> {}, l2Txs |-> {}, blocks |-> {}, sides |-> {}, snapshots |-> {}, accounts |-> acc, messagesFrom |-> 0]
    BY DEF EmptyDb
  <2> HIDE DEF acc
  <2>4. acc \in [Accounts -> [block : Nat, state : Chains]]
    BY <2>1 DEF acc
  <2> QED BY <2>2, <2>3, <2>4 DEF Dbs
<1>7. Tables(EmptyDb)
  <2>1. \A a \in Accounts : Len(EmptyDb.accounts[a].state) <= EmptyDb.accounts[a].block
    BY <1>2, <1>5
  <2> QED BY <1>5, <1>6, <2>1 DEF Tables
<1>8. 0 \in L1Places
  BY <1>2 DEF L1Places
<1>9. FollowerShape
  <2>1. Len(rollupTxs) <= MaxL1
    BY <1>1, <1>2
  <2> QED BY <1>1, <1>2, <1>4, <1>7, <1>8, <2>1 DEF FollowerShape, SameBlocks
<1>10. SeesAll(EmptyDb, 0) /\ SeesAll(db, 0) /\ SeesAll(committed, 0)
  <2>1. RowsAre(EmptyDb, rollupTxs, 0)
    BY <1>5 DEF RowsAre
  <2>2. SeesAll(EmptyDb, 0)
    BY <1>1, <1>2, <1>5, <2>1 DEF SeesAll, PostRows
  <2> QED BY <1>1, <2>2
<1>11. InStep(<<>>, 0)
  <2>1. TellsOf(db, <<>>)
    <3>1. ~\E j : j \in 1..0
      OBVIOUS
    <3> QED BY <1>1, <1>2, <1>5, <3>1 DEF TellsOf
  <2>2. SnapsAre(db, 0, 0)
    <3>1. ~\E j : j \in 1..0
      OBVIOUS
    <3> QED BY <1>1, <1>5, <3>1 DEF SnapsAre
  <2>3. ASSUME NEW a \in Accounts PROVE \E k \in 0..0 : db.accounts[a].state = AccountState(SubSeq(<<>>, 1, k), a)
    <3>1. db.accounts[a].state = <<>>
      BY <1>1, <1>5
    <3>2. SubSeq(<<>>, 1, 0) = <<>>
      BY <1>2, SubSeqEmpty DEF Chains
    <3>3. AccountState(<<>>, a) = <<>>
      <4>1. AccountState(<<>>, a) \in Chains /\ Len(AccountState(<<>>, a)) \in Nat /\ Len(AccountState(<<>>, a)) <= 0
        BY <1>2, AccountIsChain
      <4> DEFINE z == AccountState(<<>>, a)
      <4> HIDE DEF z
      <4>2. z \in Seq(BlockTxs) /\ Len(z) = 0
        BY <4>1 DEF z, Chains
      <4>3. z = <<>>
        BY <4>2, EmptySeq
      <4> QED BY <4>3 DEF z
    <3>4. 0 \in 0..0
      OBVIOUS
    <3>5. db.accounts[a].state = AccountState(SubSeq(<<>>, 1, 0), a)
      BY <3>1, <3>2, <3>3
    <3> QED BY <3>4, <3>5
  <2>4. 0 <= Len(<<>>) /\ PostedIn(rollupTxs, <<>>)
    BY <1>2 DEF PostedIn
  <2> QED BY <1>1, <1>2, <1>5, <1>10, <2>1, <2>2, <2>3, <2>4 DEF InStep
<1>12. FollowerKnows
  BY <1>1, <1>2, <1>11 DEF FollowerKnows
<1> QED BY <1>9, <1>12 DEF FollowerInv

\* Each step keeps it.
LEMMA FollowerInvNext ==
    ASSUME FollowerInv, FollowerNext
    PROVE  FollowerInv'
<1>1. ASSUME FollowerCrash PROVE FollowerInv'
  <2>1. Stop /\ UNCHANGED <<rollupTxs, committed, watched, usual>>
    BY <1>1 DEF FollowerCrash
  <2> QED BY <2>1, StopKeeps
<1> QED BY <1>1, MineKeeps, LoseKeeps, StartKeeps, PollKeeps, KnownLogKeeps, NewLogKeeps, IndexMessagesKeeps
        DEF FollowerNext

\* A step of another part.
LEMMA FollowerStutter == ASSUME FollowerInv, UNCHANGED followerVars PROVE FollowerInv'
<1>1. UNCHANGED <<rollupTxs, db, committed, step, rebuilt, fromBlock, logs, watched, usual>>
  BY DEF followerVars
<1>2. FollowerShape'
  BY <1>1 DEF FollowerInv, FollowerShape, SameBlocks
<1>3. ASSUME NEW i PROVE Known(i)' = Known(i) /\ ToTell(i)' = ToTell(i)
  BY <1>1 DEF Known, IsKnown, ToTell, HasRow
<1>4. ASSUME NEW top \in Chains, NEW m \in Nat, InStep(top, m) PROVE InStep(top, m)'
  <2>1. (\A b \in db.blocks : OnPlace(b) /\ Len(b.block) <= Len(top))'
    BY <1>1, <1>4 DEF InStep, OnPlace
  <2>2. SeesAll(db, Len(top))' /\ SeesAll(committed, Len(top))'
    BY <1>1, <1>4 DEF InStep, SeesAll
  <2> QED BY <1>1, <1>3, <1>4, <2>1, <2>2 DEF InStep
<1>5. ASSUME NEW c \in Chains, NEW h \in Nat, NEW n \in 0..Len(rollupTxs), LeftBehind(c, h, n) PROVE LeftBehind(c, h, n)'
  BY <1>1, <1>5 DEF LeftBehind
<1>6. WentOn => WentOn'
  BY <1>1 DEF WentOn, StillOnL1, OnPlace
<1>7. FollowerKnows'
  BY <1>1, <1>4, <1>5, <1>6 DEF FollowerInv, FollowerKnows
<1> QED BY <1>2, <1>7 DEF FollowerInv

\* Once it has read all that L1 has, the database has what L1 tells.
LEMMA ShowsL1 ==
    ASSUME FollowerInv
    PROVE  ExplorerShowsL1
<1> SUFFICES ASSUME step = "poll", watched, usual, rebuilt = HeadIn(rollupTxs), db.messagesFrom > Len(rollupTxs)
             PROVE  /\ OnL1 = [l1Txs |-> db.l1Txs, l2Txs |-> db.l2Txs, blocks |-> db.blocks, sides |-> db.sides]
                    /\ \A a \in Accounts : db.accounts[a].state = AccountState(rebuilt, a)
  BY DEF ExplorerShowsL1
<1> DEFINE H == HeadIn(rollupTxs)
<1> DEFINE N == Len(rollupTxs)
<1> DEFINE posts == PostsAt(rollupTxs)
<1> DEFINE x(i) == rollupTxs[i].what
<1>1. L1Is(rollupTxs) /\ Tables(db) /\ db \in Dbs
  BY DEF FollowerInv, FollowerShape, Tables
<1>2. PICK top \in Chains, m \in Nat : InStep(top, m)
  BY DEF FollowerInv, FollowerKnows
<1>3. /\ m <= Len(top) /\ PostedIn(rollupTxs, top) /\ TellsOf(db, top)
      /\ \A b \in db.blocks : OnPlace(b) /\ Len(b.block) <= Len(top)
      /\ \A r \in db.l2Txs : r.block <= Len(top)
      /\ \A a \in Accounts : \E k \in m..Len(top) : db.accounts[a].state = AccountState(SubSeq(top, 1, k), a)
      /\ SeesAll(db, Len(top))
      /\ rebuilt = SubSeq(top, 1, m) /\ \A i \in DOMAIN rollupTxs : Known(i) => ToTell(i)
  BY <1>2 DEF InStep
<1>4. /\ N \in Nat /\ DOMAIN rollupTxs = 1..N /\ posts = {i \in 1..N : rollupTxs[i].kind = "advance"}
      /\ \A i \in posts : i \in 1..N /\ x(i) \in Chains /\ x(i) # <<>> /\ Len(x(i)) \in Nat \ {0} /\ rollupTxs[i] = Advance(x(i))
      /\ \A i \in 1..N : rollupTxs[i] \in L1Tx
      /\ \A i, j \in 1..N : rollupTxs[i] = rollupTxs[j] => i = j
  BY <1>1, L1Basics DEF L1Is
<1>5. /\ H \in Chains /\ Len(H) \in Nat
      /\ \A i \in posts : Len(x(i)) <= Len(H) /\ x(i) = SubSeq(H, 1, Len(x(i)))
      /\ \A k \in 1..Len(H) : \E i \in posts : x(i) = SubSeq(H, 1, k)
  BY <1>1, HeadOfL1
<1> HIDE DEF H, N, posts, x
<1>6. top = H /\ m = Len(H)
  <2>1. Len(top) \in Nat /\ Len(top) <= Len(H)
    BY <1>1, <1>3, PostedIs DEF H
  <2>2. Len(SubSeq(top, 1, m)) = m
    BY <1>3, <2>1, FirstOf DEF Chains
  <2>3. rebuilt = H
    BY DEF H
  <2>4. m = Len(H)
    BY <1>3, <2>2, <2>3
  <2>5. m = Len(top)
    BY <1>3, <1>5, <2>1, <2>4
  <2>6. SubSeq(top, 1, m) = top
    BY <2>5, SubSeqFull DEF Chains
  <2> QED BY <1>3, <2>3, <2>4, <2>6
<1>7. /\ RowsAre(db, rollupTxs, N) /\ \A r \in db.l1Txs : r.block <= N
  BY <1>3 DEF SeesAll, N
<1>8. \A r \in db.l1Txs : r.block \in Nat /\ r.block # 0 /\ r.block \in 1..N /\ rollupTxs[r.block] = r.tx
      /\ r = [tx |-> r.tx, block |-> r.block]
  <2> SUFFICES ASSUME NEW r \in db.l1Txs
               PROVE  r.block \in Nat /\ r.block # 0 /\ r.block \in 1..N /\ rollupTxs[r.block] = r.tx
                      /\ r = [tx |-> r.tx, block |-> r.block]
    OBVIOUS
  <2>1. r \in [tx : L1Tx, block : 1..MaxL1]
    BY <1>1 DEF Dbs
  <2>2. r.block \in Nat /\ r.block # 0 /\ r = [tx |-> r.tx, block |-> r.block]
    BY <2>1, FollowerAssumption
  <2> QED BY <1>4, <1>7, <2>2 DEF RowsAre
<1>9. \A i \in 1..N : Row(rollupTxs, i) \in db.l1Txs
  <2> SUFFICES ASSUME NEW i \in 1..N PROVE Row(rollupTxs, i) \in db.l1Txs
    OBVIOUS
  <2>1. db.messagesFrom \in Nat
    BY <1>1, FollowerAssumption DEF Dbs
  <2>2. i < db.messagesFrom /\ ~(db.messagesFrom <= N)
    BY <1>4, <2>1 DEF N
  <2>3. CASE rollupTxs[i].kind # "advance"
    BY <1>7, <2>2, <2>3 DEF RowsAre
  <2>4. CASE rollupTxs[i].kind = "advance"
    <3>1. i \in posts
      BY <1>4, <2>4
    <3>2. Len(x(i)) <= Len(rebuilt)
      BY <1>5, <3>1 DEF H
    <3>3. Known(i) /\ i \in DOMAIN rollupTxs
      BY <1>4, <3>1, <3>2 DEF Known, IsKnown, posts, x
    <3>4. ToTell(i)
      BY <1>3, <3>3
    <3> QED BY <2>2, <3>4 DEF ToTell, HasRow, N
  <2> QED BY <2>3, <2>4
<1>10. db.l1Txs = {[tx |-> rollupTxs[i], block |-> i] : i \in DOMAIN rollupTxs}
  <2>1. ASSUME NEW r \in db.l1Txs PROVE r \in {[tx |-> rollupTxs[i], block |-> i] : i \in DOMAIN rollupTxs}
    <3>1. r.block \in DOMAIN rollupTxs /\ r = [tx |-> rollupTxs[r.block], block |-> r.block]
      BY <1>4, <1>8
    <3> QED BY <3>1
  <2>2. ASSUME NEW i \in DOMAIN rollupTxs PROVE [tx |-> rollupTxs[i], block |-> i] \in db.l1Txs
    BY <1>4, <1>9 DEF Row
  <2> QED BY <2>1, <2>2
<1>11. ASSUME NEW i \in posts
       PROVE  /\ Last(x(i)) = H[Len(x(i))] /\ Last(x(i)) \in BlockTxs /\ Len(x(i)) \in 1..Len(H)
  <2> DEFINE k == Len(x(i))
  <2>1. x(i) \in Blk /\ k \in Nat \ {0} /\ k <= Len(H) /\ x(i) = SubSeq(H, 1, k)
    BY <1>4, <1>5 DEF Blk
  <2>2. Last(x(i)) = x(i)[k] /\ x(i)[k] \in BlockTxs
    BY <2>1, BlkIs
  <2>3. k \in 1..k /\ k \in 1..Len(H)
    BY <1>5, <2>1
  <2> HIDE DEF k
  <2>4. SubSeq(H, 1, k)[k] = H[k]
    BY <1>5, <2>1, <2>3, FirstOf DEF Chains
  <2>5. Last(x(i)) = H[k] /\ Last(x(i)) \in BlockTxs
    BY <2>1, <2>2, <2>4
  <2> QED BY <2>3, <2>5 DEF k
<1>12. db.l2Txs = {[tx |-> L2Tx(Last(rollupTxs[i].what)), block |-> Len(rollupTxs[i].what)] :
                        i \in {j \in posts : Last(rollupTxs[j].what) # "none"}}
  <2> DEFINE told == {j \in posts : Last(x(j)) # "none"}
  <2> DEFINE Of(i) == [tx |-> L2Tx(Last(x(i))), block |-> Len(x(i))]
  <2>1. ASSUME NEW r \in db.l2Txs PROVE \E i \in told : r = Of(i)
    <3>1. r \in [tx : L2Sent, block : Nat]
      BY <1>1 DEF Dbs
    <3>2. r.block <= Len(H) /\ r.block \in Nat /\ r = [tx |-> r.tx, block |-> r.block]
      BY <1>3, <1>6, <3>1
    <3>3. r.block # 0 /\ H[r.block] # "none" /\ r.tx = L2Tx(H[r.block])
      BY <1>3, <1>6, <3>2 DEF TellsOf
    <3>4. r.block \in 1..Len(H)
      BY <1>5, <3>2, <3>3
    <3>5. PICK i \in posts : x(i) = SubSeq(H, 1, r.block)
      BY <1>5, <3>4
    <3>6. Len(x(i)) = r.block
      BY <1>5, <3>2, <3>5, FirstOf DEF Chains
    <3>7. Last(x(i)) = H[r.block]
      BY <1>11, <3>6
    <3>8. i \in told /\ r = [tx |-> L2Tx(Last(x(i))), block |-> Len(x(i))]
      BY <3>2, <3>3, <3>6, <3>7
    <3> QED BY <3>8
  <2>2. ASSUME NEW i \in told PROVE Of(i) \in db.l2Txs
    <3>1. Len(x(i)) \in 1..Len(H) /\ H[Len(x(i))] = Last(x(i)) /\ Last(x(i)) # "none"
      BY <1>11
    <3>2. [tx |-> L2Tx(H[Len(x(i))]), block |-> Len(x(i))] \in db.l2Txs
      BY <1>3, <1>6, <3>1 DEF TellsOf
    <3> QED BY <3>1, <3>2
  <2>3. db.l2Txs = {Of(i) : i \in told}
    <3> HIDE DEF Of, told
    <3> QED BY <2>1, <2>2
  <2> QED BY <2>3 DEF x
<1>13. db.blocks = {[block |-> rollupTxs[i].what, l1Tx |-> rollupTxs[i], l1Block |-> i] : i \in posts}
  <2> DEFINE Of(i) == [block |-> x(i), l1Tx |-> rollupTxs[i], l1Block |-> i]
  <2>1. ASSUME NEW b \in db.blocks
        PROVE  b.l1Block \in posts /\ b = Of(b.l1Block)
    <3>1. b \in [block : Chains \ {<<>>}, l1Tx : L1Tx, l1Block : L1Places]
      BY <1>1 DEF Dbs
    <3>2. b = [block |-> b.block, l1Tx |-> b.l1Tx, l1Block |-> b.l1Block]
      BY <3>1
    <3>3. b.l1Block \in 1..N /\ rollupTxs[b.l1Block] = b.l1Tx
      BY <1>3, <1>4 DEF OnPlace
    <3>4. b.l1Tx = Advance(b.block)
      BY <1>3 DEF TellsOf
    <3>5. b.l1Tx.kind = "advance" /\ b.l1Tx.what = b.block
      BY <3>4 DEF Advance
    <3>6. b.l1Block \in posts /\ x(b.l1Block) = b.block
      BY <1>4, <3>3, <3>5 DEF x
    <3> QED BY <3>2, <3>3, <3>6
  <2>2. ASSUME NEW i \in posts PROVE Of(i) \in db.blocks
    <3>1. Len(x(i)) \in 1..Len(H) /\ Len(x(i)) <= Len(H)
      BY <1>5, <1>11
    <3>2. PICK b \in db.blocks : Len(b.block) = Len(x(i))
      BY <1>3, <1>6, <3>1 DEF TellsOf
    <3>3. b.block = SubSeq(H, 1, Len(b.block))
      BY <1>3, <1>6, <3>1, <3>2 DEF TellsOf
    <3>4. b.block = x(i)
      BY <1>5, <3>2, <3>3
    <3>5. b.l1Block \in posts /\ b = Of(b.l1Block)
      BY <2>1
    <3>6. x(b.l1Block) = x(i)
      <4>1. Of(b.l1Block).block = x(b.l1Block)
        OBVIOUS
      <4> HIDE DEF Of
      <4> QED BY <3>4, <3>5, <4>1
    <3>7. rollupTxs[b.l1Block] = rollupTxs[i] /\ i \in 1..N /\ b.l1Block \in 1..N
      <4> DEFINE j == b.l1Block
      <4>1. j \in posts /\ x(j) = x(i)
        BY <3>5, <3>6
      <4> HIDE DEF j
      <4>2. rollupTxs[j] = rollupTxs[i] /\ i \in 1..N /\ j \in 1..N
        BY <1>4, <4>1
      <4> QED BY <4>2 DEF j
    <3>8. b.l1Block = i
      BY <1>4, <3>7
    <3> HIDE DEF Of
    <3> QED BY <3>5, <3>8
  <2>3. db.blocks = {Of(i) : i \in posts}
    <3> HIDE DEF Of
    <3> QED BY <2>1, <2>2
  <2> QED BY <2>3 DEF x
<1> DEFINE depositAt(i) == Cardinality({j \in 1..(i - 1) : rollupTxs[j].kind = "deposit"})
<1> DEFINE kinds(k) == {j \in DOMAIN rollupTxs : rollupTxs[j].kind = k}
<1> DEFINE of(t) == {j \in posts : Last(rollupTxs[j].what) = t}
<1> DEFINE s1 == {Side("deposits", depositAt(i), "l1", rollupTxs[i], i) : i \in kinds("deposit")}
<1> DEFINE s2 == {Side("withdrawals", 0, "l1", rollupTxs[i], i) : i \in kinds("withdrawal claim")}
<1> DEFINE s3 == {Side("deposits", 0, "l2", L2Tx("claim"), Len(rollupTxs[i].what)) : i \in of("claim")}
<1> DEFINE s4 == {Side("withdrawals", 0, "l2", L2Tx("send"), Len(rollupTxs[i].what)) : i \in of("send")}
<1>14. db.sides = s1 \cup s2 \cup s3 \cup s4
  <2>1. \A i : depositAt(i) = Cardinality(DepositsIn(rollupTxs, i - 1))
    BY DEF DepositsIn
  <2>2. ASSUME NEW i \in 1..N PROVE L1Sides(rollupTxs, i) \subseteq s1 \cup s2
    <3>1. CASE rollupTxs[i].kind = "deposit"
      <4>1. L1Sides(rollupTxs, i) = {Side("deposits", depositAt(i), "l1", rollupTxs[i], i)}
        BY <3>1 DEF L1Sides, DepositsIn
      <4>2. i \in kinds("deposit")
        BY <1>4, <3>1
      <4> HIDE DEF depositAt, kinds
      <4> QED BY <4>1, <4>2
    <3>2. CASE rollupTxs[i].kind = "withdrawal claim"
      <4>1. L1Sides(rollupTxs, i) = {Side("withdrawals", 0, "l1", rollupTxs[i], i)}
        BY <3>2 DEF L1Sides
      <4>2. i \in kinds("withdrawal claim")
        BY <1>4, <3>2
      <4> HIDE DEF depositAt, kinds
      <4> QED BY <4>1, <4>2
    <3>3. CASE rollupTxs[i].kind # "deposit" /\ rollupTxs[i].kind # "withdrawal claim"
      BY <3>3 DEF L1Sides
    <3> QED BY <3>1, <3>2, <3>3
  <2>3. ASSUME NEW r \in db.l2Txs PROVE L2SideOf(r) \in s3 \cup s4
    <3>1. PICK i \in {j \in posts : Last(rollupTxs[j].what) # "none"} :
             r = [tx |-> L2Tx(Last(rollupTxs[i].what)), block |-> Len(rollupTxs[i].what)]
      BY <1>12
    <3> DEFINE t == Last(rollupTxs[i].what)
    <3>2. t \in {"claim", "send"}
      BY <1>11, <3>1 DEF BlockTxs, x
    <3>3. L2Tx("claim") # L2Tx("send")
      BY DEF L2Tx
    <3>4. r.tx = L2Tx(t) /\ r.block = Len(rollupTxs[i].what)
      BY <3>1
    <3>5. CASE t = "claim"
      <4>1. L2SideOf(r) = Side("deposits", 0, "l2", L2Tx("claim"), Len(rollupTxs[i].what))
        BY <3>4, <3>5 DEF L2SideOf
      <4>2. i \in of("claim")
        BY <3>1, <3>5
      <4> HIDE DEF of
      <4> QED BY <4>1, <4>2
    <3>6. CASE t = "send"
      <4>1. L2SideOf(r) = Side("withdrawals", 0, "l2", L2Tx("send"), Len(rollupTxs[i].what))
        BY <3>3, <3>4, <3>6 DEF L2SideOf
      <4>2. i \in of("send")
        BY <3>1, <3>6
      <4> HIDE DEF of
      <4> QED BY <4>1, <4>2
    <3> QED BY <3>2, <3>5, <3>6
  <2>4. ASSUME NEW s \in db.sides PROVE s \in s1 \cup s2 \cup s3 \cup s4
    <3>1. s.chain = "l1" \/ s.chain = "l2"
      BY <1>1 DEF Dbs, SideSet
    <3>2. CASE s.chain = "l1"
      <4>1. PICK r \in db.l1Txs : r.tx = s.tx /\ (r.block <= N <=> s.block <= N)
        BY <1>7, <3>2 DEF RowsAre
      <4>2. s.block <= N
        BY <1>7, <4>1
      <4>3. s.block # 0 /\ s \in L1Sides(rollupTxs, s.block)
        BY <1>7, <3>2, <4>2 DEF RowsAre
      <4>4. s.block \in Nat
        BY <1>1 DEF Dbs, SideSet
      <4>5. s.block \in 1..N
        BY <1>4, <4>2, <4>3, <4>4
      <4>6. s \in s1 \cup s2
        BY <2>2, <4>3, <4>5
      <4> QED BY <4>6
    <3>3. CASE s.chain = "l2"
      <4>1. PICK r \in db.l2Txs : s = L2SideOf(r)
        BY <1>1, <3>3 DEF Tables
      <4> HIDE DEF s1, s2, s3, s4
      <4> QED BY <2>3, <4>1
    <3> QED BY <3>1, <3>2, <3>3
  <2>5. ASSUME NEW i \in DOMAIN rollupTxs PROVE L1Sides(rollupTxs, i) \subseteq db.sides
    <3>1. i \in 1..N /\ i <= N
      BY <1>4
    <3>2. Row(rollupTxs, i) \in db.l1Txs /\ Row(rollupTxs, i).block = i
      BY <1>9, <3>1 DEF Row
    <3> QED BY <1>7, <3>1, <3>2 DEF RowsAre
  <2>6. s1 \subseteq db.sides
    <3> SUFFICES ASSUME NEW i \in kinds("deposit") PROVE Side("deposits", depositAt(i), "l1", rollupTxs[i], i) \in db.sides
      OBVIOUS
    <3>1. L1Sides(rollupTxs, i) = {Side("deposits", depositAt(i), "l1", rollupTxs[i], i)}
      BY DEF L1Sides, DepositsIn
    <3> HIDE DEF depositAt
    <3> QED BY <2>5, <3>1
  <2>7. s2 \subseteq db.sides
    <3> SUFFICES ASSUME NEW i \in kinds("withdrawal claim") PROVE Side("withdrawals", 0, "l1", rollupTxs[i], i) \in db.sides
      OBVIOUS
    <3>1. L1Sides(rollupTxs, i) = {Side("withdrawals", 0, "l1", rollupTxs[i], i)}
      BY DEF L1Sides
    <3> QED BY <2>5, <3>1
  <2>8. ASSUME NEW i \in posts, Last(rollupTxs[i].what) # "none"
        PROVE  L2SideOf([tx |-> L2Tx(Last(rollupTxs[i].what)), block |-> Len(rollupTxs[i].what)]) \in db.sides
    <3> DEFINE r == [tx |-> L2Tx(Last(rollupTxs[i].what)), block |-> Len(rollupTxs[i].what)]
    <3>1. r \in db.l2Txs
      BY <1>12, <2>8
    <3> HIDE DEF r
    <3>2. L2SideOf(r) \in db.sides
      BY <1>1, <3>1 DEF Tables
    <3> QED BY <3>2 DEF r
  <2>9. s3 \subseteq db.sides
    <3> SUFFICES ASSUME NEW i \in of("claim")
                 PROVE  Side("deposits", 0, "l2", L2Tx("claim"), Len(rollupTxs[i].what)) \in db.sides
      OBVIOUS
    <3> DEFINE r == [tx |-> L2Tx("claim"), block |-> Len(rollupTxs[i].what)]
    <3>1. L2SideOf(r) = Side("deposits", 0, "l2", L2Tx("claim"), Len(rollupTxs[i].what))
      BY DEF L2SideOf
    <3>2. L2SideOf(r) \in db.sides
      BY <2>8
    <3> QED BY <3>1, <3>2
  <2>10. s4 \subseteq db.sides
    <3> SUFFICES ASSUME NEW i \in of("send")
                 PROVE  Side("withdrawals", 0, "l2", L2Tx("send"), Len(rollupTxs[i].what)) \in db.sides
      OBVIOUS
    <3> DEFINE r == [tx |-> L2Tx("send"), block |-> Len(rollupTxs[i].what)]
    <3>1. L2Tx("claim") # L2Tx("send")
      BY DEF L2Tx
    <3>2. L2SideOf(r) = Side("withdrawals", 0, "l2", L2Tx("send"), Len(rollupTxs[i].what))
      BY <3>1 DEF L2SideOf
    <3>3. L2SideOf(r) \in db.sides
      BY <2>8
    <3> QED BY <3>2, <3>3
  <2> HIDE DEF s1, s2, s3, s4
  <2> QED BY <2>4, <2>6, <2>7, <2>9, <2>10
<1>15. OnL1 = [l1Txs |-> db.l1Txs, l2Txs |-> db.l2Txs, blocks |-> db.blocks, sides |-> db.sides]
  <2>1. OnL1 = [l1Txs |-> {[tx |-> rollupTxs[i], block |-> i] : i \in DOMAIN rollupTxs},
                l2Txs |-> {[tx |-> L2Tx(Last(rollupTxs[i].what)), block |-> Len(rollupTxs[i].what)] :
                        i \in {j \in posts : Last(rollupTxs[j].what) # "none"}},
                blocks |-> {[block |-> rollupTxs[i].what, l1Tx |-> rollupTxs[i], l1Block |-> i] : i \in posts},
                sides |-> s1 \cup s2 \cup s3 \cup s4]
    BY DEF OnL1, posts
  <2> QED BY <1>10, <1>12, <1>13, <1>14, <2>1
<1>16. ASSUME NEW a \in Accounts PROVE db.accounts[a].state = AccountState(rebuilt, a)
  <2>1. PICK k \in m..Len(top) : db.accounts[a].state = AccountState(SubSeq(top, 1, k), a)
    BY <1>3
  <2>2. k = m
    BY <1>5, <1>6
  <2> QED BY <1>3, <2>1, <2>2
<1> QED BY <1>15, <1>16

-----------------------------------------------------------------------------
(* The claims: their inductive invariant                                   *)

L1Msgs == Claimers \cup {Nothing}
ClaimTxs ==
    {c \in [index : Nat, leaves : Seq(Claimers), size : Nat, proves : BOOLEAN] : c.proves => c.size = Len(c.leaves)}
L2Blks == [anchor : Nat, claims : Seq(ClaimTxs)]
ClaimFiles == [through : Nat, messages : Seq(Claimers), claimed : SUBSET Nat, claimedAt : Seq(L2Blks), sound : BOOLEAN]
ClaimRuns == [at : {"idle", "bits", "root", "send", "save"}, anchor : Nat, leaves : Seq(Claimers), through : Nat,
              settled : Seq(Claimers), bits : SUBSET Nat, wanted : SUBSET Nat, covered : Nat,
              proved : SUBSET Claimers, quiet : BOOLEAN, rolled : BOOLEAN]
ClaimsShape ==
    /\ l1Blocks \in Seq(L1Msgs) /\ fixed \in Nat
    /\ fixed <= Len(l1Blocks) /\ Len(l1Blocks) - CACHE_MARGIN <= fixed
    /\ l2Blocks \in Seq(L2Blks) /\ claimPool \in Seq(ClaimTxs)
    /\ file \in ClaimFiles /\ run \in ClaimRuns
    /\ run.wanted \subseteq DOMAIN run.leaves /\ run.covered <= Len(run.leaves)

\* The blocks' anchors are L1 blocks, and each is no earlier than the last.
AnchorsRise ==
    /\ \A i \in 1..Len(l2Blocks) : l2Blocks[i].anchor <= Len(l1Blocks)
    /\ \A i, j \in 1..Len(l2Blocks) : i <= j => l2Blocks[i].anchor <= l2Blocks[j].anchor

\* The messages through a block, and that `root` is the tree of some anchor's.
UpToBlock(L1, n) == Messages(SubSeq(L1, 1, n))
AnchorRoot(L1, L2, root) == \E i \in 1..Len(L2) : UpToBlock(L1, L2[i].anchor) = root

\* The root after the first n claims, each of which the messenger took: its
\* message was not claimed before, and the root it gives a path to is the one
\* before, or the one that it proves.
RootAfter(cs, n) == IF n = 0 THEN <<>> ELSE SubSeq(cs[n].leaves, 1, cs[n].size)
Fits(L1, L2, root, c) ==
    \/ SubSeq(c.leaves, 1, c.size) = root
    \/ c.proves /\ Len(c.leaves) >= Len(root) /\ AnchorRoot(L1, L2, c.leaves)
Taken(L1, L2, cs) ==
    /\ \A i, j \in 1..Len(cs) : cs[i].index = cs[j].index => i = j
    /\ \A n \in 1..Len(cs) : Fits(L1, L2, RootAfter(cs, n - 1), cs[n])
IndicesOf(cs) == {cs[i].index : i \in 1..Len(cs)}
AllTaken == \A n \in 0..Len(l2Blocks) : Taken(l1Blocks, SubSeq(l2Blocks, 1, n), ClaimsIn(SubSeq(l2Blocks, 1, n)))

\* What the file, and then the run, keep: messages that no reorg changes, and
\* bits that are set on the chain they were read on.
Lasts(through, messages) == through <= fixed /\ messages = UpToBlock(l1Blocks, through)
FileLasts ==
    /\ Lasts(file.through, file.messages)
    /\ file.sound => file.claimed \subseteq IndicesOf(ClaimsIn(file.claimedAt))
ClaimedNow == IndicesOf(ClaimsIn(l2Blocks))
RootNow == RootAfter(ClaimsIn(l2Blocks), Len(ClaimsIn(l2Blocks)))
RunLasts ==
    run.at # "idle" => Lasts(run.through, run.settled) /\ (~run.rolled => run.bits \subseteq ClaimedNow)

\* What a run knows of the chains while nothing else happens on L2.
LeftToClaim == run.wanted # {} /\ run.wanted \subseteq DOMAIN run.leaves \ ClaimedNow
RunKnows ==
    run.at # "idle" /\ run.quiet =>
        /\ l2Blocks # <<>> /\ run.leaves = UpToBlock(l1Blocks, Anchor)
        /\ run.at = "bits" => run.proved = {}
        /\ run.at = "root" => run.proved = {} /\ LeftToClaim
        /\ run.at = "send" /\ claimPool = <<>> =>
             /\ run.proved = {} /\ LeftToClaim
             /\ run.covered = 0 \/ SubSeq(run.leaves, 1, run.covered) = RootNow
        /\ run.at = "save" /\ claimPool = <<>> /\ ~run.rolled => DOMAIN run.leaves \subseteq ClaimedNow

ChainsInv == AnchorsRise /\ AllTaken
ClaimsInv == ClaimsShape /\ ChainsInv /\ FileLasts /\ RunLasts /\ RunKnows

-----------------------------------------------------------------------------
(* The claims: the messages of the L1 blocks                               *)

\* The messages of no block, and of one block more.
LEMMA MessagesNext ==
    ASSUME NEW s \in Seq(L1Msgs), NEW m \in L1Msgs
    PROVE  Messages(<<>>) = <<>> /\ Messages(Append(s, m)) = WithMessage(Messages(s), m)
<1>1. Messages(<<>>) = <<>>
  <2> DEFINE r == Messages(<<>>)
  <2>1. <<>> \in Seq(L1Msgs) /\ Len(<<>>) = 0
    BY EmptySeq
  <2>2. FoldIs(r, WithMessage, <<>>, <<>>)
    BY DEF FoldIs, Messages
  <2>3. FoldSteps(r, WithMessage, <<>>, <<>>)
    BY <2>1, <2>2, FoldLeftSteps
  <2> HIDE DEF r
  <2>4. r = <<>>
    BY <2>1, <2>3 DEF FoldSteps
  <2> QED BY <2>4 DEF r
<1>2. Messages(Append(s, m)) = WithMessage(Messages(s), m)
  <2> DEFINE r == Messages(s)
  <2> DEFINE q == Messages(Append(s, m))
  <2>1. FoldIs(r, WithMessage, <<>>, s) /\ FoldIs(q, WithMessage, <<>>, Append(s, m))
    BY DEF FoldIs, Messages
  <2>2. FoldAdds(q, WithMessage, r, m)
    BY <2>1, FoldLeftAppend
  <2> QED BY <2>2 DEF FoldAdds
<1> QED BY <1>1, <1>2

\* The messages between two blocks go to claimers, and follow those before.
LEMMA MessagesBetween ==
    ASSUME NEW s \in Seq(L1Msgs), NEW m \in Nat, NEW n \in Nat, m <= n, n <= Len(s)
    PROVE  /\ Messages(SubSeq(s, m + 1, n)) \in Seq(Claimers)
           /\ UpToBlock(s, m) \in Seq(Claimers)
           /\ UpToBlock(s, n) = UpToBlock(s, m) \o Messages(SubSeq(s, m + 1, n))
<1> DEFINE From(j, k) == Messages(SubSeq(s, j, k))
<1>1. Len(s) \in Nat
  BY LenProperties
<1>2. ASSUME NEW j \in Nat, j # 0, NEW k \in Nat, j <= k + 1, k + 1 <= Len(s)
      PROVE  From(j, k + 1) = IF s[k + 1] = Nothing THEN From(j, k) ELSE Append(From(j, k), s[k + 1])
  <2> DEFINE a == SubSeq(s, j, k)
  <2>1. a \in Seq(L1Msgs) /\ s[k + 1] \in L1Msgs /\ SubSeq(s, j, k + 1) = Append(a, s[k + 1])
    BY <1>2, SubSeqNext
  <2> HIDE DEF a
  <2>2. Messages(Append(a, s[k + 1])) = WithMessage(Messages(a), s[k + 1])
    BY <2>1, MessagesNext
  <2> QED BY <2>1, <2>2 DEF WithMessage, a
<1>3. ASSUME NEW k \in 1..Len(s), s[k] # Nothing PROVE s[k] \in Claimers
  <2>1. s[k] \in L1Msgs
    BY ElementOfSeq
  <2> QED BY <1>3, <2>1 DEF L1Msgs
<1>4. ASSUME NEW j \in Nat, NEW k \in Nat, k <= j PROVE From(j + 1, k) = <<>>
  <2>1. SubSeq(s, j + 1, k) = <<>>
    <3>1. j + 1 \in Int /\ k \in Int /\ k < j + 1
      BY <1>4
    <3> QED BY <3>1, SubSeqEmpty
  <2>2. Messages(<<>>) = <<>>
    <3>1. <<>> \in Seq(L1Msgs) /\ Nothing \in L1Msgs
      BY EmptySeq DEF L1Msgs
    <3> QED BY <3>1, MessagesNext
  <2> QED BY <2>1, <2>2
<1>5. ASSUME NEW j \in Nat, NEW k \in Nat, j <= k, k <= Len(s) PROVE From(j + 1, k) \in Seq(Claimers)
  <2> DEFINE T == {i \in Nat : j <= i /\ i <= Len(s) => From(j + 1, i) \in Seq(Claimers)}
  <2> HIDE DEF From
  <2>0. <<>> \in Seq(Claimers)
    BY EmptySeq
  <2>1. 0 \in T
    <3> SUFFICES ASSUME j <= 0 PROVE From(j + 1, 0) \in Seq(Claimers)
      OBVIOUS
    <3>1. 0 <= j
      OBVIOUS
    <3> QED BY <2>0, <3>1, <1>4
  <2>2. ASSUME NEW i \in Nat, i \in T PROVE i + 1 \in T
    <3> SUFFICES ASSUME j <= i + 1, i + 1 <= Len(s) PROVE From(j + 1, i + 1) \in Seq(Claimers)
      OBVIOUS
    <3>1. CASE j = i + 1
      <4>1. i + 1 \in Nat /\ i + 1 <= j
        BY <3>1
      <4> QED BY <2>0, <4>1, <1>4
    <3>2. CASE j # i + 1
      <4>1. j <= i /\ i <= Len(s) /\ j + 1 \in Nat /\ j + 1 # 0 /\ j + 1 <= i + 1 /\ i + 1 \in 1..Len(s)
        BY <3>2, <1>1
      <4>2. From(j + 1, i) \in Seq(Claimers)
        BY <2>2, <4>1
      <4>3. From(j + 1, i + 1) = IF s[i + 1] = Nothing THEN From(j + 1, i) ELSE Append(From(j + 1, i), s[i + 1])
        BY <1>2, <4>1
      <4>4. CASE s[i + 1] = Nothing
        BY <4>2, <4>3, <4>4
      <4>5. CASE s[i + 1] # Nothing
        <5>1. s[i + 1] \in Claimers
          BY <1>3, <4>1, <4>5
        <5>2. Append(From(j + 1, i), s[i + 1]) \in Seq(Claimers)
          BY <4>2, <5>1, AppendProperties
        <5> QED BY <4>3, <4>5, <5>2
      <4> QED BY <4>4, <4>5
    <3> QED BY <3>1, <3>2
  <2> HIDE DEF T
  <2>3. Nat \subseteq T
    BY <2>1, <2>2, SetInduction
  <2> QED BY <1>5, <2>3 DEF T
<1>6. From(1, m) \in Seq(Claimers) /\ From(m + 1, n) \in Seq(Claimers)
  <2>1. 0 \in Nat /\ 0 <= m /\ 0 + 1 = 1 /\ m <= Len(s)
    BY <1>1
  <2>2. From(0 + 1, m) \in Seq(Claimers)
    BY <1>5, <2>1
  <2>3. From(m + 1, n) \in Seq(Claimers)
    BY <1>5
  <2> HIDE DEF From
  <2> QED BY <2>1, <2>2, <2>3
<1>7. From(1, n) = From(1, m) \o From(m + 1, n)
  <2> DEFINE T == {i \in Nat : m <= i /\ i <= Len(s) => From(1, i) = From(1, m) \o From(m + 1, i)}
  <2> HIDE DEF From
  <2>1. From(1, m) = From(1, m) \o From(m + 1, m)
    <3>1. From(m + 1, m) = <<>>
      BY <1>4
    <3> QED BY <1>6, <3>1, ConcatEmptySeq
  <2>2. 0 \in T
    <3> SUFFICES ASSUME m <= 0 PROVE From(1, 0) = From(1, m) \o From(m + 1, 0)
      OBVIOUS
    <3>1. m = 0
      OBVIOUS
    <3> QED BY <2>1, <3>1
  <2>3. ASSUME NEW i \in Nat, i \in T PROVE i + 1 \in T
    <3> SUFFICES ASSUME m <= i + 1, i + 1 <= Len(s) PROVE From(1, i + 1) = From(1, m) \o From(m + 1, i + 1)
      OBVIOUS
    <3>1. CASE m = i + 1
      BY <2>1, <3>1
    <3>2. CASE m # i + 1
      <4>1. /\ m <= i /\ i <= Len(s) /\ m + 1 \in Nat /\ m + 1 # 0 /\ m + 1 <= i + 1 /\ i + 1 \in 1..Len(s)
            /\ 1 \in Nat /\ 1 # 0 /\ 1 <= i + 1
        BY <3>2, <1>1
      <4>2. From(1, i) = From(1, m) \o From(m + 1, i)
        BY <2>3, <4>1
      <4>3. From(m + 1, i + 1) = IF s[i + 1] = Nothing THEN From(m + 1, i) ELSE Append(From(m + 1, i), s[i + 1])
        BY <1>2, <4>1
      <4>4. From(1, i + 1) = IF s[i + 1] = Nothing THEN From(1, i) ELSE Append(From(1, i), s[i + 1])
        BY <1>2, <4>1
      <4>5. CASE s[i + 1] = Nothing
        BY <4>2, <4>3, <4>4, <4>5
      <4>6. CASE s[i + 1] # Nothing
        <5>1. s[i + 1] \in Claimers /\ From(m + 1, i) \in Seq(Claimers)
          BY <1>3, <1>5, <4>1, <4>6
        <5>2. <<s[i + 1]>> \in Seq(Claimers) /\ From(1, m) \o From(m + 1, i) \in Seq(Claimers)
          BY <1>6, <5>1, ConcatProperties
        <5>3. Append(From(1, m) \o From(m + 1, i), s[i + 1]) = (From(1, m) \o From(m + 1, i)) \o <<s[i + 1]>>
          BY <5>1, <5>2, AppendIsConcat
        <5>4. (From(1, m) \o From(m + 1, i)) \o <<s[i + 1]>> = From(1, m) \o (From(m + 1, i) \o <<s[i + 1]>>)
          <6> DEFINE u == <<s[i + 1]>>
          <6> DEFINE x == From(1, m)
          <6> DEFINE y == From(m + 1, i)
          <6>1. x \in Seq(Claimers) /\ y \in Seq(Claimers) /\ u \in Seq(Claimers)
            BY <1>6, <5>1, <5>2
          <6> HIDE DEF u, x, y
          <6>2. (x \o y) \o u = x \o (y \o u)
            BY <6>1, ConcatAssociative, SMTT(60)
          <6> QED BY <6>2 DEF u, x, y
        <5>5. Append(From(m + 1, i), s[i + 1]) = From(m + 1, i) \o <<s[i + 1]>>
          BY <5>1, AppendIsConcat
        <5> QED BY <4>2, <4>3, <4>4, <4>6, <5>3, <5>4, <5>5
      <4> QED BY <4>5, <4>6
    <3> QED BY <3>1, <3>2
  <2> HIDE DEF T
  <2>4. Nat \subseteq T
    BY <2>2, <2>3, SetInduction
  <2> QED BY <2>4 DEF T
<1> HIDE DEF From
<1> QED BY <1>6, <1>7 DEF From, UpToBlock

-----------------------------------------------------------------------------
(* The claims: what the messenger takes                                    *)

\* The claims of no block, and of one block more.
LEMMA ClaimsInNext ==
    ASSUME NEW s \in Seq(L2Blks), NEW b \in L2Blks
    PROVE  ClaimsIn(<<>>) = <<>> /\ ClaimsIn(Append(s, b)) = ClaimsIn(s) \o b.claims
<1>1. ClaimsIn(<<>>) = <<>>
  <2> DEFINE r == ClaimsIn(<<>>)
  <2>1. <<>> \in Seq(L2Blks) /\ Len(<<>>) = 0
    BY EmptySeq
  <2>2. FoldIs(r, WithClaimsOf, <<>>, <<>>)
    BY DEF FoldIs, ClaimsIn
  <2>3. FoldSteps(r, WithClaimsOf, <<>>, <<>>)
    BY <2>1, <2>2, FoldLeftSteps
  <2> HIDE DEF r
  <2>4. r = <<>>
    BY <2>1, <2>3 DEF FoldSteps
  <2> QED BY <2>4 DEF r
<1>2. ClaimsIn(Append(s, b)) = ClaimsIn(s) \o b.claims
  <2> DEFINE r == ClaimsIn(s)
  <2> DEFINE q == ClaimsIn(Append(s, b))
  <2>1. FoldIs(r, WithClaimsOf, <<>>, s) /\ FoldIs(q, WithClaimsOf, <<>>, Append(s, b))
    BY DEF FoldIs, ClaimsIn
  <2>2. FoldAdds(q, WithClaimsOf, r, b)
    BY <2>1, FoldLeftAppend
  <2> QED BY <2>2 DEF FoldAdds, WithClaimsOf
<1> QED BY <1>1, <1>2

\* The messages that claims are of.
LEMMA IndicesOfMore ==
    ASSUME NEW a \in Seq(ClaimTxs), NEW b \in Seq(ClaimTxs)
    PROVE  /\ IndicesOf(a \o b) = IndicesOf(a) \cup IndicesOf(b)
           /\ IndicesOf(<<>>) = {}
           /\ \A c \in ClaimTxs : IndicesOf(Append(a, c)) = IndicesOf(a) \cup {c.index}
<1>1. Len(a) \in Nat /\ Len(b) \in Nat
  BY LenProperties
<1>2. IndicesOf(a \o b) = IndicesOf(a) \cup IndicesOf(b)
  <2> DEFINE c == a \o b
  <2>1. /\ Len(c) = Len(a) + Len(b)
        /\ \A i \in 1..(Len(a) + Len(b)) : c[i] = IF i <= Len(a) THEN a[i] ELSE b[i - Len(a)]
    BY ConcatProperties
  <2> HIDE DEF c
  <2>2. ASSUME NEW i \in 1..Len(c) PROVE c[i].index \in IndicesOf(a) \cup IndicesOf(b)
    <3>1. CASE i <= Len(a)
      <4>1. i \in 1..Len(a) /\ c[i] = a[i]
        BY <1>1, <2>1, <3>1
      <4> QED BY <4>1 DEF IndicesOf
    <3>2. CASE ~(i <= Len(a))
      <4>1. i - Len(a) \in 1..Len(b) /\ c[i] = b[i - Len(a)]
        BY <1>1, <2>1, <3>2
      <4> QED BY <4>1 DEF IndicesOf
    <3> QED BY <3>1, <3>2
  <2>3. ASSUME NEW i \in 1..Len(a) PROVE a[i].index \in IndicesOf(c)
    <3>1. i \in 1..Len(c) /\ c[i] = a[i]
      BY <1>1, <2>1
    <3> QED BY <3>1 DEF IndicesOf
  <2>4. ASSUME NEW i \in 1..Len(b) PROVE b[i].index \in IndicesOf(c)
    <3>1. i + Len(a) \in 1..Len(c) /\ ~(i + Len(a) <= Len(a)) /\ (i + Len(a)) - Len(a) = i
      BY <1>1, <2>1
    <3>2. c[i + Len(a)] = b[i]
      BY <2>1, <3>1
    <3> QED BY <3>1, <3>2 DEF IndicesOf
  <2>5. IndicesOf(c) = IndicesOf(a) \cup IndicesOf(b)
    BY <2>2, <2>3, <2>4 DEF IndicesOf
  <2> QED BY <2>5 DEF c
<1>3. IndicesOf(<<>>) = {}
  <2>1. Len(<<>>) = 0 /\ 1..0 = {}
    BY EmptySeq
  <2> QED BY <2>1 DEF IndicesOf
<1>4. ASSUME NEW c \in ClaimTxs PROVE IndicesOf(Append(a, c)) = IndicesOf(a) \cup {c.index}
  <2> DEFINE t == Append(a, c)
  <2>1. /\ Len(t) = Len(a) + 1 /\ \A i \in 1..Len(a) : t[i] = a[i]
        /\ t[Len(a) + 1] = c
    BY AppendProperties
  <2> HIDE DEF t
  <2>2. 1..Len(t) = 1..Len(a) \cup {Len(a) + 1}
    BY <1>1, <2>1
  <2>3. IndicesOf(t) = IndicesOf(a) \cup {c.index}
    BY <2>1, <2>2 DEF IndicesOf
  <2> QED BY <2>3 DEF t
<1> QED BY <1>2, <1>3, <1>4

\* A block of the chain.
LEMMA BlockIs ==
    ASSUME NEW s \in Seq(L2Blks), NEW i \in 1..Len(s)
    PROVE  s[i].anchor \in Nat /\ s[i].claims \in Seq(ClaimTxs)
<1>1. s[i] \in L2Blks
  BY ElementOfSeq
<1> QED BY <1>1 DEF L2Blks

\* The claims of the first blocks, and of more of them.
LEMMA ClaimsInFirst ==
    ASSUME NEW s \in Seq(L2Blks), NEW m \in Nat, NEW n \in Nat, m <= n, n <= Len(s)
    PROVE  /\ ClaimsIn(SubSeq(s, 1, n)) \in Seq(ClaimTxs)
           /\ IndicesOf(ClaimsIn(SubSeq(s, 1, m))) \subseteq IndicesOf(ClaimsIn(SubSeq(s, 1, n)))
<1> DEFINE C(k) == ClaimsIn(SubSeq(s, 1, k))
<1>1. Len(s) \in Nat
  BY LenProperties
<1>2. ASSUME NEW k \in Nat, k + 1 <= Len(s)
      PROVE  C(k + 1) = C(k) \o s[k + 1].claims /\ s[k + 1].claims \in Seq(ClaimTxs)
  <2> DEFINE a == SubSeq(s, 1, k)
  <2>1. 1 \in Nat /\ 1 # 0 /\ 1 <= k + 1
    OBVIOUS
  <2>2. a \in Seq(L2Blks) /\ s[k + 1] \in L2Blks /\ SubSeq(s, 1, k + 1) = Append(a, s[k + 1])
    BY <1>2, <2>1, SubSeqNext
  <2> HIDE DEF a
  <2>3. ClaimsIn(Append(a, s[k + 1])) = ClaimsIn(a) \o s[k + 1].claims
    BY <2>2, ClaimsInNext
  <2>4. s[k + 1].claims \in Seq(ClaimTxs)
    BY <2>2 DEF L2Blks
  <2> QED BY <2>2, <2>3, <2>4 DEF a
<1>3. C(0) = <<>>
  <2>1. SubSeq(s, 1, 0) = <<>>
    BY SubSeqEmpty
  <2>2. ClaimsIn(<<>>) = <<>>
    <3>1. <<>> \in Seq(L2Blks) /\ [anchor |-> 0, claims |-> <<>>] \in L2Blks
      BY EmptySeq DEF L2Blks
    <3> QED BY <3>1, ClaimsInNext
  <2> QED BY <2>1, <2>2
<1> HIDE DEF C
<1> DEFINE T == {k \in Nat : k <= Len(s) => C(k) \in Seq(ClaimTxs)}
<1>4. 0 \in T
  BY <1>3, EmptySeq
<1>5. ASSUME NEW k \in Nat, k \in T PROVE k + 1 \in T
  <2> SUFFICES ASSUME k + 1 <= Len(s) PROVE C(k + 1) \in Seq(ClaimTxs)
    OBVIOUS
  <2>1. k <= Len(s)
    BY <1>1
  <2>2. C(k) \in Seq(ClaimTxs)
    BY <1>5, <2>1
  <2>3. C(k + 1) = C(k) \o s[k + 1].claims /\ s[k + 1].claims \in Seq(ClaimTxs)
    BY <1>2
  <2>4. \A a, b \in Seq(ClaimTxs) : a \o b \in Seq(ClaimTxs)
    BY ConcatProperties
  <2> QED BY <2>2, <2>3, <2>4
<1> HIDE DEF T
<1>6. Nat \subseteq T
  BY <1>4, <1>5, SetInduction
<1>7. \A k \in Nat : k <= Len(s) => C(k) \in Seq(ClaimTxs)
  BY <1>6 DEF T
<1> DEFINE U == {k \in Nat : m <= k /\ k <= Len(s) => IndicesOf(C(m)) \subseteq IndicesOf(C(k))}
<1>8. 0 \in U
  <2> SUFFICES ASSUME m <= 0 PROVE IndicesOf(C(m)) \subseteq IndicesOf(C(0))
    OBVIOUS
  <2>1. m = 0
    OBVIOUS
  <2> QED BY <2>1
<1>9. ASSUME NEW k \in Nat, k \in U PROVE k + 1 \in U
  <2> SUFFICES ASSUME m <= k + 1, k + 1 <= Len(s) PROVE IndicesOf(C(m)) \subseteq IndicesOf(C(k + 1))
    OBVIOUS
  <2>1. CASE m = k + 1
    BY <2>1
  <2>2. CASE m # k + 1
    <3>1. m <= k /\ k <= Len(s)
      BY <1>1, <2>2
    <3>2. IndicesOf(C(k + 1)) = IndicesOf(C(k)) \cup IndicesOf(s[k + 1].claims)
      BY <1>2, <1>7, <3>1, IndicesOfMore
    <3> QED BY <1>9, <3>1, <3>2
  <2> QED BY <2>1, <2>2
<1> HIDE DEF U
<1>10. Nat \subseteq U
  BY <1>8, <1>9, SetInduction
<1>11. IndicesOf(C(m)) \subseteq IndicesOf(C(n))
  BY <1>10 DEF U
<1> QED BY <1>7, <1>11 DEF C

\* The anchors of blocks in a set, and in the sequence.
LEMMA AnchorRootIs ==
    ASSUME NEW L1, NEW L2 \in Seq(L2Blks), NEW root
    PROVE  AnchorRoot(L1, L2, root) <=> \E b \in ToSet(L2) : Messages(SubSeq(L1, 1, b.anchor)) = root
<1>1. ToSet(L2) = {L2[i] : i \in 1..Len(L2)}
  BY LenProperties DEF ToSet
<1> QED BY <1>1 DEF AnchorRoot, UpToBlock

\* The claims that the messenger takes, and what it is then.
LEMMA ClaimOnIs ==
    ASSUME NEW L1, NEW L2 \in Seq(L2Blks), NEW st, NEW c \in ClaimTxs
    PROVE  /\ ClaimOn(L1, L2, st, c).valid <=> c.index \notin st.claimed /\ Fits(L1, L2, st.root, c)
           /\ ClaimOn(L1, L2, st, c).valid =>
                ClaimOn(L1, L2, st, c).state =
                  [claimed |-> st.claimed \cup {c.index}, root |-> SubSeq(c.leaves, 1, c.size)]
<1>1. Proven(L1, L2, st, c) <=> c.proves /\ Len(c.leaves) >= Len(st.root) /\ AnchorRoot(L1, L2, c.leaves)
  BY AnchorRootIs DEF Proven
<1>2. c.proves => SubSeq(c.leaves, 1, c.size) = c.leaves
  <2>1. c.leaves \in Seq(Claimers) /\ (c.proves => c.size = Len(c.leaves))
    BY DEF ClaimTxs
  <2> QED BY <2>1, SubSeqFull
<1> DEFINE root == IF Proven(L1, L2, st, c) THEN c.leaves ELSE st.root
<1>3. /\ ClaimOn(L1, L2, st, c).valid = (c.index \notin st.claimed /\ SubSeq(c.leaves, 1, c.size) = root)
      /\ ClaimOn(L1, L2, st, c).state = [claimed |-> st.claimed \cup {c.index}, root |-> root]
  BY DEF ClaimOn
<1>4. Fits(L1, L2, st.root, c) <=> SubSeq(c.leaves, 1, c.size) = root
  BY <1>1, <1>2 DEF Fits
<1> HIDE DEF root
<1> QED BY <1>3, <1>4

\* One more claim.
LEMMA TakenNext ==
    ASSUME NEW L1, NEW L2, NEW cs \in Seq(ClaimTxs), NEW c \in ClaimTxs, Taken(L1, L2, cs),
           c.index \notin IndicesOf(cs), Fits(L1, L2, RootAfter(cs, Len(cs)), c)
    PROVE  /\ Taken(L1, L2, Append(cs, c))
           /\ RootAfter(Append(cs, c), Len(Append(cs, c))) = SubSeq(c.leaves, 1, c.size)
<1> DEFINE t == Append(cs, c)
<1> DEFINE n == Len(cs)
<1>1. /\ Len(t) = n + 1 /\ n \in Nat /\ \A i \in 1..n : t[i] = cs[i]
      /\ t[n + 1] = c
  BY AppendProperties, LenProperties
<1>2. c.index \notin {cs[i].index : i \in 1..n} /\ Fits(L1, L2, RootAfter(cs, n), c)
  BY DEF IndicesOf
<1>3. /\ \A i, j \in 1..n : cs[i].index = cs[j].index => i = j
      /\ \A k \in 1..n : Fits(L1, L2, RootAfter(cs, k - 1), cs[k])
  BY DEF Taken
<1> HIDE DEF t, n
<1>4. \A i, j \in 1..(n + 1) : t[i].index = t[j].index => i = j
  <2>1. \A i \in 1..(n + 1) : i \in 1..n \/ i = n + 1
    BY <1>1
  <2> QED BY <1>1, <1>2, <1>3, <2>1
<1>5. ASSUME NEW k \in 1..(n + 1) PROVE Fits(L1, L2, RootAfter(t, k - 1), t[k])
  <2>1. k - 1 \in 0..n /\ (k \in 1..n \/ k = n + 1)
    BY <1>1
  <2>2. RootAfter(t, k - 1) = RootAfter(cs, k - 1)
    <3>1. k - 1 = 0 \/ k - 1 \in 1..n
      BY <1>1
    <3>2. k - 1 # 0 => t[k - 1] = cs[k - 1]
      BY <1>1, <3>1
    <3> QED BY <3>2 DEF RootAfter
  <2>3. CASE k \in 1..n
    BY <1>1, <1>3, <2>2, <2>3
  <2>4. CASE k = n + 1
    <3>1. k - 1 = n
      BY <1>1, <2>4
    <3> QED BY <1>1, <1>2, <2>2, <2>4, <3>1
  <2> QED BY <2>1, <2>3, <2>4
<1>6. Taken(L1, L2, t)
  BY <1>1, <1>4, <1>5 DEF Taken
<1>7. RootAfter(t, n + 1) = SubSeq(c.leaves, 1, c.size)
  <2>1. n + 1 # 0
    BY <1>1
  <2> QED BY <1>1, <2>1 DEF RootAfter
<1> QED BY <1>1, <1>6, <1>7 DEF t

\* The claims that the messenger takes after those it took.
LEMMA IncludingTaken ==
    ASSUME NEW L1, NEW L2 \in Seq(L2Blks), NEW cs \in Seq(ClaimTxs), NEW st, NEW inPool \in Seq(ClaimTxs),
           Taken(L1, L2, cs), st.claimed = IndicesOf(cs), st.root = RootAfter(cs, Len(cs))
    PROVE  /\ Including(L1, L2, st, inPool).claims \in Seq(ClaimTxs)
           /\ Taken(L1, L2, cs \o Including(L1, L2, st, inPool).claims)
<1> DEFINE r == Including(L1, L2, st, inPool)
<1> DEFINE start == [state |-> st, claims |-> <<>>]
<1> DEFINE Op(b, c) == IncludeOne(L1, L2, b, c)
<1>1. FoldIs(r, Op, start, inPool)
  BY DEF FoldIs, Including
<1>2. FoldSteps(r, Op, start, inPool)
  BY <1>1, FoldLeftSteps
<1> HIDE DEF r
<1>3. PICK g : /\ g[0] = start
               /\ \A k \in 1..Len(inPool) : g[k] = IncludeOne(L1, L2, g[k - 1], inPool[k])
               /\ r = g[Len(inPool)]
  BY <1>2 DEF FoldSteps
<1> DEFINE Body(b) ==
      /\ b.claims \in Seq(ClaimTxs) /\ Taken(L1, L2, cs \o b.claims)
      /\ b.state.claimed = IndicesOf(cs \o b.claims)
      /\ b.state.root = RootAfter(cs \o b.claims, Len(cs \o b.claims))
<1> DEFINE Good(k) == k <= Len(inPool) => Body(g[k])
<1> DEFINE T == {k \in Nat : Good(k)}
<1>4. Good(0)
  <2>1. <<>> \in Seq(ClaimTxs) /\ cs \o <<>> = cs
    BY EmptySeq, ConcatEmptySeq
  <2>2. g[0].claims = <<>> /\ g[0].state = st
    BY <1>3
  <2> QED BY <2>1, <2>2
<1>5. ASSUME NEW k \in Nat, Good(k) PROVE Good(k + 1)
  <2> SUFFICES ASSUME k + 1 <= Len(inPool) PROVE Body(g[k + 1])
    OBVIOUS
  <2> DEFINE b == g[k]
  <2> DEFINE c == inPool[k + 1]
  <2> DEFINE v == ClaimOn(L1, L2, b.state, c)
  <2>1. Len(inPool) \in Nat /\ k + 1 \in 1..Len(inPool) /\ (k + 1) - 1 = k /\ k <= Len(inPool)
    BY LenProperties
  <2>2. g[k + 1] = IncludeOne(L1, L2, b, c)
    BY <1>3, <2>1
  <2>3. Body(b) /\ c \in ClaimTxs
    BY <1>5, <2>1, ElementOfSeq
  <2>4. /\ v.valid <=> c.index \notin b.state.claimed /\ Fits(L1, L2, b.state.root, c)
        /\ v.valid => v.state = [claimed |-> b.state.claimed \cup {c.index}, root |-> SubSeq(c.leaves, 1, c.size)]
    <3> DEFINE s0 == b.state
    <3> HIDE DEF s0, b, c
    <3>1. c \in ClaimTxs
      BY <2>3
    <3>2. /\ ClaimOn(L1, L2, s0, c).valid <=> c.index \notin s0.claimed /\ Fits(L1, L2, s0.root, c)
          /\ ClaimOn(L1, L2, s0, c).valid =>
               ClaimOn(L1, L2, s0, c).state = [claimed |-> s0.claimed \cup {c.index}, root |-> SubSeq(c.leaves, 1, c.size)]
      BY <3>1, ClaimOnIs
    <3> QED BY <3>2 DEF s0
  <2>5. g[k + 1] = IF v.valid THEN [state |-> v.state, claims |-> Append(b.claims, c)] ELSE b
    BY <2>2 DEF IncludeOne
  <2> HIDE DEF b, c, v
  <2>6. CASE ~v.valid
    BY <2>3, <2>5, <2>6
  <2>7. CASE v.valid
    <3> DEFINE ds == cs \o b.claims
    <3>1. ds \in Seq(ClaimTxs)
      BY <2>3, ConcatProperties
    <3>2. Append(ds, c) = cs \o Append(b.claims, c) /\ Append(b.claims, c) \in Seq(ClaimTxs)
      <4>1. b.claims \in Seq(ClaimTxs) /\ c \in ClaimTxs /\ <<c>> \in Seq(ClaimTxs)
        BY <2>3
      <4>2. Append(ds, c) = ds \o <<c>>
        BY <3>1, <4>1, AppendIsConcat
      <4>3. (cs \o b.claims) \o <<c>> = cs \o (b.claims \o <<c>>)
        <5> DEFINE u == <<c>>
        <5> DEFINE y == b.claims
        <5>1. y \in Seq(ClaimTxs) /\ u \in Seq(ClaimTxs)
          BY <4>1
        <5> HIDE DEF u, y
        <5>2. (cs \o y) \o u = cs \o (y \o u)
          BY <5>1, ConcatAssociative, SMTT(60)
        <5> QED BY <5>2 DEF u, y
      <4>4. Append(b.claims, c) = b.claims \o <<c>> /\ Append(b.claims, c) \in Seq(ClaimTxs)
        BY <4>1, AppendIsConcat, AppendProperties
      <4> QED BY <4>2, <4>3, <4>4
    <3>3. Taken(L1, L2, ds) /\ c.index \notin IndicesOf(ds) /\ Fits(L1, L2, RootAfter(ds, Len(ds)), c)
      BY <2>3, <2>4, <2>7
    <3>4. b.state.claimed = IndicesOf(ds)
      BY <2>3
    <3> HIDE DEF ds
    <3>5. /\ Taken(L1, L2, Append(ds, c))
          /\ RootAfter(Append(ds, c), Len(Append(ds, c))) = SubSeq(c.leaves, 1, c.size)
      BY <2>3, <3>1, <3>3, TakenNext
    <3>6. IndicesOf(Append(ds, c)) = IndicesOf(ds) \cup {c.index}
      BY <2>3, <3>1, IndicesOfMore
    <3>7. v.state.claimed = IndicesOf(ds) \cup {c.index} /\ v.state.root = SubSeq(c.leaves, 1, c.size)
      BY <2>4, <2>7, <3>4
    <3>8. g[k + 1].claims = Append(b.claims, c) /\ g[k + 1].state = v.state
      BY <2>5, <2>7
    <3> QED BY <3>2, <3>5, <3>6, <3>7, <3>8
  <2> QED BY <2>6, <2>7
<1> HIDE DEF Good
<1>6. 0 \in T /\ \A k \in Nat : k \in T => k + 1 \in T
  BY <1>4, <1>5
<1> HIDE DEF T
<1>7. Nat \subseteq T
  BY <1>6, SetInduction
<1>8. Len(inPool) \in Nat
  BY LenProperties
<1>9. Good(Len(inPool))
  BY <1>7, <1>8 DEF T
<1>10. Body(r)
  BY <1>3, <1>8, <1>9 DEF Good
<1> QED BY <1>10 DEF r

\* The messenger after the claims that it took.
LEMMA TakenState ==
    ASSUME NEW L1, NEW L2 \in Seq(L2Blks), NEW cs \in Seq(ClaimTxs), Taken(L1, L2, cs)
    PROVE  /\ Including(L1, L2, Messenger, cs).state.claimed = IndicesOf(cs)
           /\ Including(L1, L2, Messenger, cs).state.root = RootAfter(cs, Len(cs))
<1> DEFINE r == Including(L1, L2, Messenger, cs)
<1> DEFINE start == [state |-> Messenger, claims |-> <<>>]
<1> DEFINE Op(b, c) == IncludeOne(L1, L2, b, c)
<1>1. FoldIs(r, Op, start, cs)
  BY DEF FoldIs, Including
<1>2. FoldSteps(r, Op, start, cs)
  BY <1>1, FoldLeftSteps
<1> HIDE DEF r
<1>3. PICK g : /\ g[0] = start
               /\ \A k \in 1..Len(cs) : g[k] = IncludeOne(L1, L2, g[k - 1], cs[k])
               /\ r = g[Len(cs)]
  BY <1>2 DEF FoldSteps
<1> DEFINE Body(b, k) == b.state.claimed = {cs[i].index : i \in 1..k} /\ b.state.root = RootAfter(cs, k)
<1> DEFINE Good(k) == k <= Len(cs) => Body(g[k], k)
<1> DEFINE T == {k \in Nat : Good(k)}
<1>4. Good(0)
  <2>1. g[0].state.claimed = {} /\ g[0].state.root = <<>>
    BY <1>3 DEF Messenger
  <2>2. 1..0 = {} /\ RootAfter(cs, 0) = <<>>
    BY DEF RootAfter
  <2> QED BY <2>1, <2>2
<1>5. ASSUME NEW k \in Nat, Good(k) PROVE Good(k + 1)
  <2> SUFFICES ASSUME k + 1 <= Len(cs) PROVE Body(g[k + 1], k + 1)
    OBVIOUS
  <2> DEFINE b == g[k]
  <2> DEFINE c == cs[k + 1]
  <2> DEFINE v == ClaimOn(L1, L2, b.state, c)
  <2>1. /\ Len(cs) \in Nat /\ k + 1 \in 1..Len(cs) /\ (k + 1) - 1 = k /\ k <= Len(cs) /\ k + 1 # 0
        /\ 1..(k + 1) = 1..k \cup {k + 1} /\ \A i \in 1..k : i \in 1..Len(cs) /\ i # k + 1
    BY LenProperties
  <2>2. g[k + 1] = IncludeOne(L1, L2, b, c)
    BY <1>3, <2>1
  <2>3. Body(b, k)
    BY <1>5, <2>1
  <2>13. c \in ClaimTxs
    BY <2>1, ElementOfSeq
  <2>4. /\ v.valid <=> c.index \notin b.state.claimed /\ Fits(L1, L2, b.state.root, c)
        /\ v.valid => v.state = [claimed |-> b.state.claimed \cup {c.index}, root |-> SubSeq(c.leaves, 1, c.size)]
    <3> DEFINE s0 == b.state
    <3> HIDE DEF c, s0
    <3>1. /\ ClaimOn(L1, L2, s0, c).valid <=> c.index \notin s0.claimed /\ Fits(L1, L2, s0.root, c)
          /\ ClaimOn(L1, L2, s0, c).valid =>
               ClaimOn(L1, L2, s0, c).state = [claimed |-> s0.claimed \cup {c.index}, root |-> SubSeq(c.leaves, 1, c.size)]
      BY <2>13, ClaimOnIs
    <3> QED BY <3>1 DEF s0
  <2>5. g[k + 1] = IF v.valid THEN [state |-> v.state, claims |-> Append(b.claims, c)] ELSE b
    BY <2>2 DEF IncludeOne
  <2>6. c.index \notin {cs[i].index : i \in 1..k}
    BY <2>1 DEF Taken
  <2>7. Fits(L1, L2, RootAfter(cs, k), c)
    BY <2>1 DEF Taken
  <2>8. RootAfter(cs, k + 1) = SubSeq(c.leaves, 1, c.size)
    BY <2>1 DEF RootAfter
  <2>9. {cs[i].index : i \in 1..(k + 1)} = {cs[i].index : i \in 1..k} \cup {c.index}
    BY <2>1
  <2> HIDE DEF b, c, v
  <2>10. v.valid
    BY <2>3, <2>4, <2>6, <2>7
  <2>11. g[k + 1].state = v.state
    BY <2>5, <2>10
  <2>12. v.state.claimed = b.state.claimed \cup {c.index} /\ v.state.root = SubSeq(c.leaves, 1, c.size)
    BY <2>4, <2>10
  <2> QED BY <2>3, <2>8, <2>9, <2>11, <2>12
<1> HIDE DEF Good
<1>6. 0 \in T /\ \A k \in Nat : k \in T => k + 1 \in T
  BY <1>4, <1>5
<1> HIDE DEF T
<1>7. Nat \subseteq T
  BY <1>6, SetInduction
<1>8. Len(cs) \in Nat
  BY LenProperties
<1>9. Good(Len(cs))
  BY <1>7, <1>8 DEF T
<1>10. Body(r, Len(cs))
  BY <1>3, <1>8, <1>9 DEF Good
<1> QED BY <1>10 DEF r, IndicesOf

\* Where every anchor's root stays one, the claims are still taken.
LEMMA TakenElsewhere ==
    ASSUME NEW L1, NEW L2, NEW l3, NEW l4, NEW cs, Taken(L1, L2, cs),
           \A root : AnchorRoot(L1, L2, root) => AnchorRoot(l3, l4, root)
    PROVE  Taken(l3, l4, cs)
BY DEF Taken, Fits

\* The root that the messenger has was that of an anchor.
LEMMA RootIsAnchors ==
    ASSUME NEW L1, NEW L2, NEW cs \in Seq(ClaimTxs), Taken(L1, L2, cs), NEW n \in 0..Len(cs)
    PROVE  RootAfter(cs, n) = <<>> \/ AnchorRoot(L1, L2, RootAfter(cs, n))
<1> DEFINE Good(k) == RootAfter(cs, k) = <<>> \/ AnchorRoot(L1, L2, RootAfter(cs, k))
<1> DEFINE T == {k \in Nat : k <= Len(cs) => Good(k)}
<1>1. 0 \in T
  BY DEF RootAfter
<1>2. ASSUME NEW k \in Nat, k \in T PROVE k + 1 \in T
  <2> SUFFICES ASSUME k + 1 <= Len(cs) PROVE Good(k + 1)
    OBVIOUS
  <2> DEFINE c == cs[k + 1]
  <2>1. Len(cs) \in Nat /\ k + 1 \in 1..Len(cs) /\ (k + 1) - 1 = k /\ k <= Len(cs) /\ k + 1 # 0
    BY LenProperties
  <2>2. c \in ClaimTxs /\ Fits(L1, L2, RootAfter(cs, k), c)
    <3>1. c \in ClaimTxs
      BY <2>1, ElementOfSeq
    <3>2. Fits(L1, L2, RootAfter(cs, (k + 1) - 1), c)
      BY <2>1 DEF Taken
    <3> QED BY <2>1, <3>1, <3>2
  <2>3. RootAfter(cs, k + 1) = SubSeq(c.leaves, 1, c.size)
    BY <2>1 DEF RootAfter
  <2>4. c.proves => SubSeq(c.leaves, 1, c.size) = c.leaves
    <3>1. c.leaves \in Seq(Claimers) /\ (c.proves => c.size = Len(c.leaves))
      BY <2>2 DEF ClaimTxs
    <3> QED BY <3>1, SubSeqFull
  <2>5. Good(k)
    BY <1>2, <2>1
  <2> HIDE DEF c
  <2> QED BY <2>2, <2>3, <2>4, <2>5 DEF Fits
<1> HIDE DEF T
<1>3. Nat \subseteq T
  BY <1>1, <1>2, SetInduction
<1> QED BY <1>3 DEF T

-----------------------------------------------------------------------------
(* The claims: what the chains then are                                    *)

\* The claims of the L2 chain are those that the messenger took.
LEMMA NowIs ==
    ASSUME ClaimsShape, ChainsInv
    PROVE  /\ Len(l1Blocks) \in Nat /\ Len(l2Blocks) \in Nat
           /\ ClaimsIn(l2Blocks) \in Seq(ClaimTxs) /\ Taken(l1Blocks, l2Blocks, ClaimsIn(l2Blocks))
           /\ State.claimed = ClaimedNow /\ State.root = RootNow
           /\ ClaimedNow \in SUBSET Nat
<1> DEFINE n == Len(l2Blocks)
<1> DEFINE cs == ClaimsIn(l2Blocks)
<1>1. l1Blocks \in Seq(L1Msgs) /\ l2Blocks \in Seq(L2Blks)
  BY DEF ClaimsShape
<1>2. Len(l1Blocks) \in Nat /\ n \in Nat
  BY <1>1, LenProperties
<1>3. SubSeq(l2Blocks, 1, n) = l2Blocks
  BY <1>1, SubSeqFull
<1>4. ClaimsIn(SubSeq(l2Blocks, 1, n)) \in Seq(ClaimTxs)
  <2>1. n <= n
    BY <1>2
  <2> QED BY <1>1, <1>2, <2>1, ClaimsInFirst
<1>5. Taken(l1Blocks, SubSeq(l2Blocks, 1, n), ClaimsIn(SubSeq(l2Blocks, 1, n)))
  <2>1. n \in 0..n
    BY <1>2
  <2> QED BY <2>1 DEF ChainsInv, AllTaken
<1>6. cs \in Seq(ClaimTxs) /\ Taken(l1Blocks, l2Blocks, cs)
  BY <1>3, <1>4, <1>5
<1>7. /\ Including(l1Blocks, l2Blocks, Messenger, cs).state.claimed = IndicesOf(cs)
      /\ Including(l1Blocks, l2Blocks, Messenger, cs).state.root = RootAfter(cs, Len(cs))
  BY <1>1, <1>6, TakenState
<1>8. IndicesOf(cs) \in SUBSET Nat
  <2>1. \A i \in 1..Len(cs) : cs[i].index \in Nat
    BY <1>6, ElementOfSeq DEF ClaimTxs
  <2> QED BY <2>1 DEF IndicesOf
<1> QED BY <1>2, <1>6, <1>7, <1>8 DEF State, After, ClaimedNow, RootNow

\* The anchor's root is one that the messenger would take.
LEMMA AnchorIs ==
    ASSUME ClaimsShape, ChainsInv, l2Blocks # <<>>
    PROVE  /\ Anchor \in Nat /\ Anchor <= Len(l1Blocks)
           /\ AnchorRoot(l1Blocks, l2Blocks, UpToBlock(l1Blocks, Anchor))
           /\ UpToBlock(l1Blocks, Anchor) \in Seq(Claimers)
           /\ Len(RootNow) <= Len(UpToBlock(l1Blocks, Anchor))
<1> DEFINE n == Len(l2Blocks)
<1>1. l1Blocks \in Seq(L1Msgs) /\ l2Blocks \in Seq(L2Blks) /\ Len(l1Blocks) \in Nat
  BY LenProperties DEF ClaimsShape
<1>2. n \in Nat \ {0} /\ n \in 1..n
  BY <1>1, EmptySeq
<1>3. Anchor = l2Blocks[n].anchor
  BY DEF Anchor, Last
<1>4. l2Blocks[n] \in L2Blks
  BY <1>1, <1>2, ElementOfSeq
<1>5. Anchor \in Nat /\ Anchor <= Len(l1Blocks)
  BY <1>2, <1>3, <1>4 DEF L2Blks, ChainsInv, AnchorsRise
<1>6. AnchorRoot(l1Blocks, l2Blocks, UpToBlock(l1Blocks, Anchor))
  BY <1>2, <1>3 DEF AnchorRoot
<1>7. ASSUME NEW a \in Nat, a <= Anchor
      PROVE  /\ UpToBlock(l1Blocks, Anchor) \in Seq(Claimers)
             /\ Len(UpToBlock(l1Blocks, a)) <= Len(UpToBlock(l1Blocks, Anchor))
  <2> DEFINE p == UpToBlock(l1Blocks, a)
  <2> DEFINE q == Messages(SubSeq(l1Blocks, a + 1, Anchor))
  <2>1. q \in Seq(Claimers) /\ p \in Seq(Claimers) /\ UpToBlock(l1Blocks, Anchor) = p \o q
    BY <1>1, <1>5, <1>7, MessagesBetween
  <2> HIDE DEF p, q
  <2>2. p \o q \in Seq(Claimers) /\ Len(p \o q) = Len(p) + Len(q) /\ Len(p) \in Nat /\ Len(q) \in Nat
    BY <2>1, ConcatProperties, LenProperties
  <2> QED BY <2>1, <2>2 DEF p
<1>8. UpToBlock(l1Blocks, Anchor) \in Seq(Claimers)
  BY <1>5, <1>7
<1>9. Len(RootNow) <= Len(UpToBlock(l1Blocks, Anchor))
  <2> DEFINE cs == ClaimsIn(l2Blocks)
  <2>1. cs \in Seq(ClaimTxs) /\ Taken(l1Blocks, l2Blocks, cs)
    BY NowIs
  <2>2. Len(cs) \in 0..Len(cs)
    <3>1. Len(cs) \in Nat
      BY <2>1, LenProperties
    <3> QED BY <3>1
  <2>3. RootNow = <<>> \/ AnchorRoot(l1Blocks, l2Blocks, RootNow)
    <3> HIDE DEF cs
    <3>1. RootAfter(cs, Len(cs)) = <<>> \/ AnchorRoot(l1Blocks, l2Blocks, RootAfter(cs, Len(cs)))
      BY <2>1, <2>2, RootIsAnchors
    <3> QED BY <3>1 DEF RootNow, cs
  <2>4. CASE RootNow = <<>>
    <3>1. Len(RootNow) = 0
      BY <2>4, EmptySeq
    <3>2. Len(UpToBlock(l1Blocks, Anchor)) \in Nat
      BY <1>8, LenProperties
    <3> QED BY <3>1, <3>2
  <2>5. CASE AnchorRoot(l1Blocks, l2Blocks, RootNow)
    <3>1. PICK i \in 1..n : UpToBlock(l1Blocks, l2Blocks[i].anchor) = RootNow
      BY <2>5 DEF AnchorRoot
    <3>2. l2Blocks[i].anchor \in Nat
      BY <1>1, BlockIs
    <3>3. l2Blocks[i].anchor <= Anchor
      <4>1. i <= n
        BY <1>2
      <4> QED BY <1>2, <1>3, <4>1 DEF ChainsInv, AnchorsRise
    <3> QED BY <1>7, <3>1, <3>2, <3>3
  <2> QED BY <2>3, <2>4, <2>5
<1> QED BY <1>5, <1>6, <1>8, <1>9

\* The roots of the anchors that stay.
LEMMA AnchorRootStays ==
    ASSUME NEW L1, NEW L2, NEW l3, NEW l4,
           \A i \in 1..Len(L2) : /\ i \in 1..Len(l4) /\ l4[i] = L2[i]
                                 /\ UpToBlock(l3, L2[i].anchor) = UpToBlock(L1, L2[i].anchor)
    PROVE  \A root : AnchorRoot(L1, L2, root) => AnchorRoot(l3, l4, root)
BY DEF AnchorRoot

\* The first L2 blocks, where L1 keeps the blocks that they anchor.
LEMMA FirstBlocksKept ==
    ASSUME ClaimsShape, ChainsInv, NEW n \in 0..Len(l2Blocks), NEW L1,
           \A i \in 1..n : UpToBlock(L1, l2Blocks[i].anchor) = UpToBlock(l1Blocks, l2Blocks[i].anchor)
    PROVE  Taken(L1, SubSeq(l2Blocks, 1, n), ClaimsIn(SubSeq(l2Blocks, 1, n)))
<1> DEFINE L2 == SubSeq(l2Blocks, 1, n)
<1>1. l2Blocks \in Seq(L2Blks) /\ n \in Nat /\ n <= Len(l2Blocks)
  BY NowIs DEF ClaimsShape
<1>2. Len(L2) = n /\ \A i \in 1..n : L2[i] = l2Blocks[i]
  BY <1>1, FirstOf
<1>3. Taken(l1Blocks, L2, ClaimsIn(L2))
  BY DEF ChainsInv, AllTaken
<1> HIDE DEF L2
<1>4. \A i \in 1..Len(L2) : /\ i \in 1..Len(L2) /\ L2[i] = L2[i]
                            /\ UpToBlock(L1, L2[i].anchor) = UpToBlock(l1Blocks, L2[i].anchor)
  BY <1>2
<1>5. \A root : AnchorRoot(l1Blocks, L2, root) => AnchorRoot(L1, L2, root)
  BY <1>4, AnchorRootStays
<1>6. Taken(L1, L2, ClaimsIn(L2))
  BY <1>3, <1>5, TakenElsewhere
<1> QED BY <1>6 DEF L2

-----------------------------------------------------------------------------
(* The claims: the steps of the chains                                     *)

\* What stays of the file and the run while L1 keeps the fixed blocks.
LEMMA LastsStill ==
    ASSUME ClaimsShape, FileLasts, RunLasts, UNCHANGED file,
           fixed' \in Nat, fixed <= fixed',
           \A n \in 0..fixed : UpToBlock(l1Blocks', n) = UpToBlock(l1Blocks, n)
    PROVE  /\ FileLasts'
           /\ run.at # "idle" => run.through <= fixed' /\ run.settled = UpToBlock(l1Blocks', run.through)
<1>1. /\ file.through \in Nat /\ run.through \in Nat /\ fixed \in Nat
  BY DEF ClaimsShape, ClaimFiles, ClaimRuns
<1>2. ASSUME NEW n \in Nat, n <= fixed PROVE n <= fixed' /\ UpToBlock(l1Blocks', n) = UpToBlock(l1Blocks, n)
  BY <1>1, <1>2
<1>3. FileLasts'
  <2>1. file.through <= fixed' /\ file.messages = UpToBlock(l1Blocks', file.through)
    BY <1>1, <1>2 DEF FileLasts, Lasts
  <2> QED BY <2>1 DEF FileLasts, Lasts
<1>4. run.at # "idle" => run.through <= fixed' /\ run.settled = UpToBlock(l1Blocks', run.through)
  BY <1>1, <1>2 DEF RunLasts, Lasts
<1> QED BY <1>3, <1>4

\* A new L1 block.
LEMMA NewL1BlockKeeps == ASSUME ClaimsInv, NewL1Block PROVE ClaimsInv'
<1>1. ClaimsShape /\ ChainsInv /\ FileLasts /\ RunLasts /\ RunKnows
  BY DEF ClaimsInv
<1>2. PICK m \in Claimers \cup {Nothing} : l1Blocks' = Append(l1Blocks, m)
  BY DEF NewL1Block
<1>3. UNCHANGED <<l2Blocks, claimPool, file, run>>
  BY DEF NewL1Block
<1>4. l1Blocks \in Seq(L1Msgs) /\ m \in L1Msgs /\ Len(l1Blocks) \in Nat
  BY <1>1, NowIs DEF ClaimsShape, L1Msgs
<1>5. l1Blocks' \in Seq(L1Msgs) /\ Len(l1Blocks') = Len(l1Blocks) + 1
  BY <1>2, <1>4, AppendProperties
<1>6. fixed' \in Nat /\ fixed <= fixed' /\ fixed' <= Len(l1Blocks') /\ Len(l1Blocks') - CACHE_MARGIN <= fixed'
  <2> DEFINE h == Len(l1Blocks) + 1 - CACHE_MARGIN
  <2>1. fixed \in Nat /\ CACHE_MARGIN \in Nat /\ fixed <= Len(l1Blocks)
    BY <1>1, ClaimsAssumption DEF ClaimsShape
  <2>2. h \in Int /\ h <= Len(l1Blocks) + 1 /\ fixed \in Int /\ h = Len(l1Blocks') - CACHE_MARGIN
    BY <1>4, <1>5, <2>1
  <2>3. fixed' = Max({fixed, h})
    BY DEF NewL1Block
  <2> HIDE DEF h
  <2>4. fixed' = IF fixed < h THEN h ELSE fixed
    BY <2>2, <2>3, MaxOfTwo
  <2> QED BY <1>4, <1>5, <2>1, <2>2, <2>4
<1>7. \A n \in 0..Len(l1Blocks) : UpToBlock(l1Blocks', n) = UpToBlock(l1Blocks, n)
  <2> SUFFICES ASSUME NEW n \in 0..Len(l1Blocks) PROVE UpToBlock(l1Blocks', n) = UpToBlock(l1Blocks, n)
    OBVIOUS
  <2>1. n \in Nat /\ n <= Len(l1Blocks)
    BY <1>4
  <2>2. SubSeq(l1Blocks', 1, n) = SubSeq(l1Blocks, 1, n)
    BY <1>2, <1>4, <2>1, FirstOfMore
  <2> QED BY <2>2 DEF UpToBlock
<1>8. ClaimsShape'
  BY <1>1, <1>3, <1>5, <1>6 DEF ClaimsShape
<1>9. AnchorsRise'
  <2>1. \A i \in 1..Len(l2Blocks) : l2Blocks[i].anchor \in Nat
    BY <1>1, BlockIs DEF ClaimsShape
  <2>2. \A i \in 1..Len(l2Blocks) : l2Blocks[i].anchor <= Len(l1Blocks')
    BY <1>1, <1>4, <1>5, <2>1 DEF ChainsInv, AnchorsRise
  <2> QED BY <1>1, <1>3, <2>2 DEF ChainsInv, AnchorsRise
<1>10. AllTaken'
  <2> SUFFICES ASSUME NEW n \in 0..Len(l2Blocks)
               PROVE  Taken(l1Blocks', SubSeq(l2Blocks, 1, n), ClaimsIn(SubSeq(l2Blocks, 1, n)))
    BY <1>3 DEF AllTaken
  <2>1. \A i \in 1..n : UpToBlock(l1Blocks', l2Blocks[i].anchor) = UpToBlock(l1Blocks, l2Blocks[i].anchor)
    <3> SUFFICES ASSUME NEW i \in 1..n
                 PROVE  UpToBlock(l1Blocks', l2Blocks[i].anchor) = UpToBlock(l1Blocks, l2Blocks[i].anchor)
      OBVIOUS
    <3>1. Len(l2Blocks) \in Nat
      BY <1>1, NowIs
    <3>2. i \in 1..Len(l2Blocks)
      BY <3>1
    <3>3. l2Blocks[i].anchor \in Nat /\ l2Blocks[i].anchor <= Len(l1Blocks)
      BY <1>1, <3>2, BlockIs DEF ClaimsShape, ChainsInv, AnchorsRise
    <3>4. l2Blocks[i].anchor \in 0..Len(l1Blocks)
      BY <1>4, <3>3
    <3> QED BY <1>7, <3>4
  <2> QED BY <1>1, <2>1, FirstBlocksKept
<1>11. FileLasts' /\ RunLasts'
  <2>1. \A n \in 0..fixed : UpToBlock(l1Blocks', n) = UpToBlock(l1Blocks, n)
    <3>1. fixed \in Nat /\ fixed <= Len(l1Blocks)
      BY <1>1 DEF ClaimsShape
    <3>2. \A n \in 0..fixed : n \in 0..Len(l1Blocks)
      BY <1>4, <3>1
    <3> QED BY <1>7, <3>2
  <2>2. /\ FileLasts'
        /\ run.at # "idle" => run.through <= fixed' /\ run.settled = UpToBlock(l1Blocks', run.through)
    BY <1>1, <1>3, <1>6, <2>1, LastsStill
  <2> QED BY <1>1, <1>3, <2>2 DEF RunLasts, Lasts, ClaimedNow
<1>12. RunKnows'
  <2>1. CASE l2Blocks = <<>>
    BY <1>1, <1>3, <2>1 DEF RunKnows
  <2>2. CASE l2Blocks # <<>>
    <3>1. Anchor \in 0..Len(l1Blocks)
      BY <1>1, <1>4, <2>2, AnchorIs
    <3>2. Anchor' = Anchor
      BY <1>3 DEF Anchor
    <3>3. UpToBlock(l1Blocks', Anchor) = UpToBlock(l1Blocks, Anchor)
      BY <1>7, <3>1
    <3> QED BY <1>1, <1>3, <3>2, <3>3 DEF RunKnows, LeftToClaim, ClaimedNow, RootNow
  <2> QED BY <2>1, <2>2
<1> QED BY <1>8, <1>9, <1>10, <1>11, <1>12 DEF ClaimsInv, ChainsInv

\* What happens meanwhile.
LEMMA MeanwhileIs ==
    ASSUME NEW r \in ClaimRuns, NEW rolled \in BOOLEAN
    PROVE  /\ Meanwhile(r, rolled) \in ClaimRuns
           /\ Meanwhile(r, rolled).at = r.at /\ Meanwhile(r, rolled).leaves = r.leaves
           /\ Meanwhile(r, rolled).wanted = r.wanted /\ Meanwhile(r, rolled).covered = r.covered
           /\ r.at # "idle" =>
                /\ ~Meanwhile(r, rolled).quiet
                /\ Meanwhile(r, rolled).rolled = (r.rolled \/ (rolled /\ r.bits # {}))
                /\ Meanwhile(r, rolled).through = r.through
                /\ Meanwhile(r, rolled).settled = r.settled
                /\ Meanwhile(r, rolled).bits = r.bits
BY DEF Meanwhile, ClaimRuns

\* A new L2 block.
LEMMA NewL2BlockKeeps == ASSUME ClaimsInv, NewL2Block PROVE ClaimsInv'
<1>1. ClaimsShape /\ ChainsInv /\ FileLasts /\ RunLasts /\ RunKnows
  BY DEF ClaimsInv
<1> DEFINE cs == ClaimsIn(l2Blocks)
<1> DEFINE block == Including(l1Blocks, l2Blocks, State, claimPool).claims
<1> DEFINE b == [anchor |-> Len(l1Blocks), claims |-> block]
<1> DEFINE n == Len(l2Blocks)
<1>2. l2Blocks' = Append(l2Blocks, b) /\ claimPool' = <<>> /\ run' = Meanwhile(run, FALSE)
  BY DEF NewL2Block
<1>3. UNCHANGED <<l1Blocks, fixed, file>>
  BY DEF NewL2Block
<1>4. /\ l1Blocks \in Seq(L1Msgs) /\ l2Blocks \in Seq(L2Blks) /\ claimPool \in Seq(ClaimTxs)
      /\ Len(l1Blocks) \in Nat /\ n \in Nat
      /\ cs \in Seq(ClaimTxs) /\ Taken(l1Blocks, l2Blocks, cs)
      /\ State.claimed = IndicesOf(cs) /\ State.root = RootAfter(cs, Len(cs))
  BY <1>1, NowIs DEF ClaimsShape, ClaimedNow, RootNow
<1>5. block \in Seq(ClaimTxs) /\ Taken(l1Blocks, l2Blocks, cs \o block)
  <2> HIDE DEF cs
  <2> QED BY <1>4, IncludingTaken
<1> HIDE DEF block
<1>6. b \in L2Blks
  BY <1>4, <1>5 DEF L2Blks
<1>7. /\ l2Blocks' \in Seq(L2Blks) /\ Len(l2Blocks') = n + 1 /\ l2Blocks'[n + 1] = b
      /\ \A i \in 1..n : l2Blocks'[i] = l2Blocks[i]
  BY <1>2, <1>4, <1>6, AppendProperties
<1>8. ClaimsIn(l2Blocks') = cs \o block
  BY <1>2, <1>4, <1>6, ClaimsInNext
<1> HIDE DEF cs
<1>9. ClaimsShape'
  <2>1. run' \in ClaimRuns
    BY <1>1, <1>2, MeanwhileIs DEF ClaimsShape
  <2>2. run'.wanted \subseteq DOMAIN run'.leaves /\ run'.covered <= Len(run'.leaves)
    BY <1>1, <1>2, MeanwhileIs DEF ClaimsShape
  <2> QED BY <1>1, <1>2, <1>3, <1>7, <2>1, <2>2, EmptySeq DEF ClaimsShape
<1>10. AnchorsRise'
  <2>1. \A i \in 1..n : l2Blocks[i].anchor \in Nat
    BY <1>4, BlockIs
  <2>2. \A i \in 1..(n + 1) : i \in 1..n \/ i = n + 1
    BY <1>4
  <2>3. b.anchor = Len(l1Blocks)
    OBVIOUS
  <2> HIDE DEF b
  <2>4. \A i \in 1..n : l2Blocks[i].anchor <= Len(l1Blocks)
    BY <1>1 DEF ChainsInv, AnchorsRise
  <2>5. \A i, j \in 1..n : i <= j => l2Blocks[i].anchor <= l2Blocks[j].anchor
    BY <1>1 DEF ChainsInv, AnchorsRise
  <2>6. \A i \in 1..(n + 1) : l2Blocks'[i].anchor <= Len(l1Blocks)
    BY <1>4, <1>7, <2>2, <2>3, <2>4
  <2>7. \A i, j \in 1..(n + 1) : i <= j => l2Blocks'[i].anchor <= l2Blocks'[j].anchor
    <3> SUFFICES ASSUME NEW i \in 1..(n + 1), NEW j \in 1..(n + 1), i <= j
                 PROVE  l2Blocks'[i].anchor <= l2Blocks'[j].anchor
      OBVIOUS
    <3>1. CASE j = n + 1
      BY <1>7, <2>3, <2>6, <3>1
    <3>2. CASE j \in 1..n
      <4>1. i \in 1..n
        BY <1>4, <3>2
      <4> QED BY <1>7, <2>5, <3>2, <4>1
    <3> QED BY <2>2, <3>1, <3>2
  <2> QED BY <1>3, <1>7, <2>6, <2>7 DEF AnchorsRise
<1>11. AllTaken'
  <2> SUFFICES ASSUME NEW k \in 0..(n + 1)
               PROVE  Taken(l1Blocks, SubSeq(l2Blocks', 1, k), ClaimsIn(SubSeq(l2Blocks', 1, k)))
    BY <1>3, <1>7 DEF AllTaken
  <2>1. CASE k \in 0..n
    <3>1. k \in Nat /\ k <= n
      BY <1>4, <2>1
    <3>2. SubSeq(l2Blocks', 1, k) = SubSeq(l2Blocks, 1, k)
      BY <1>2, <1>4, <1>6, <3>1, FirstOfMore
    <3> QED BY <1>1, <2>1, <3>2 DEF ChainsInv, AllTaken
  <2>2. CASE k = n + 1
    <3>1. SubSeq(l2Blocks', 1, k) = l2Blocks'
      BY <1>7, <2>2, SubSeqFull
    <3>2. \A i \in 1..n : i \in 1..Len(l2Blocks') /\ l2Blocks'[i] = l2Blocks[i]
      BY <1>4, <1>7
    <3>3. \A root : AnchorRoot(l1Blocks, l2Blocks, root) => AnchorRoot(l1Blocks, l2Blocks', root)
      BY <3>2, AnchorRootStays
    <3>4. Taken(l1Blocks, l2Blocks', cs \o block)
      BY <1>5, <3>3, TakenElsewhere
    <3> QED BY <1>8, <3>1, <3>4
  <2> QED BY <1>4, <2>1, <2>2
<1>12. ClaimedNow \subseteq ClaimedNow'
  <2>1. IndicesOf(cs \o block) = IndicesOf(cs) \cup IndicesOf(block)
    BY <1>4, <1>5, IndicesOfMore
  <2> QED BY <1>8, <2>1 DEF ClaimedNow, cs
<1>13. FileLasts' /\ RunLasts' /\ RunKnows'
  <2>1. /\ run'.at = run.at
        /\ run.at # "idle" =>
             /\ ~run'.quiet /\ run'.rolled = run.rolled
             /\ run'.through = run.through /\ run'.settled = run.settled /\ run'.bits = run.bits
    <3>1. run \in ClaimRuns
      BY <1>1 DEF ClaimsShape
    <3>2. run' = Meanwhile(run, FALSE)
      BY <1>2
    <3> DEFINE m == Meanwhile(run, FALSE)
    <3>3. /\ m.at = run.at
          /\ run.at # "idle" =>
               /\ ~m.quiet /\ m.rolled = (run.rolled \/ (FALSE /\ run.bits # {}))
               /\ m.through = run.through /\ m.settled = run.settled /\ m.bits = run.bits
      BY <3>1, MeanwhileIs
    <3>4. run.rolled \in BOOLEAN
      BY <3>1 DEF ClaimRuns
    <3> HIDE DEF m
    <3>5. run.at # "idle" => m.rolled = run.rolled
      BY <3>3, <3>4
    <3>6. run' = m
      BY <3>2 DEF m
    <3> QED BY <3>3, <3>5, <3>6
  <2>2. FileLasts'
    BY <1>1, <1>3 DEF FileLasts, Lasts
  <2>3. RunLasts'
    BY <1>1, <1>3, <1>12, <2>1 DEF RunLasts, Lasts
  <2>4. RunKnows'
    BY <2>1 DEF RunKnows
  <2> QED BY <2>2, <2>3, <2>4
<1> QED BY <1>9, <1>10, <1>11, <1>13 DEF ClaimsInv, ChainsInv

\* The claims that the node takes into its pool again.
LEMMA AdmittedAreTxs ==
    ASSUME NEW L1, NEW L2, NEW cs \in Seq(ClaimTxs)
    PROVE  Admitting(L1, L2, cs) \in Seq(ClaimTxs)
<1> DEFINE Op(p, c) == Admit(L1, L2, p, c)
<1> DEFINE r == Admitting(L1, L2, cs)
<1>1. FoldIs(r, Op, <<>>, cs)
  BY DEF FoldIs, Admitting
<1>2. FoldSteps(r, Op, <<>>, cs)
  BY <1>1, FoldLeftSteps
<1> HIDE DEF r
<1>4. PICK g : /\ g[0] = <<>>
               /\ \A k \in 1..Len(cs) : g[k] = Admit(L1, L2, g[k - 1], cs[k])
               /\ r = g[Len(cs)]
  BY <1>2 DEF FoldSteps
<1> DEFINE T == {k \in Nat : k <= Len(cs) => g[k] \in Seq(ClaimTxs)}
<1>5. 0 \in T
  BY <1>4, EmptySeq
<1>6. ASSUME NEW k \in Nat, k \in T PROVE k + 1 \in T
  <2> SUFFICES ASSUME k + 1 <= Len(cs) PROVE g[k + 1] \in Seq(ClaimTxs)
    OBVIOUS
  <2>1. Len(cs) \in Nat /\ k + 1 \in 1..Len(cs) /\ (k + 1) - 1 = k /\ k <= Len(cs)
    BY LenProperties
  <2>2. g[k] \in Seq(ClaimTxs) /\ cs[k + 1] \in ClaimTxs
    BY <1>6, <2>1, ElementOfSeq
  <2>3. Append(g[k], cs[k + 1]) \in Seq(ClaimTxs)
    BY <2>2, AppendProperties
  <2>4. g[k + 1] = Admit(L1, L2, g[k], cs[k + 1])
    BY <1>4, <2>1
  <2> QED BY <2>2, <2>3, <2>4 DEF Admit
<1> HIDE DEF T
<1>7. Nat \subseteq T
  BY <1>5, <1>6, SetInduction
<1>8. Len(cs) \in Nat /\ Len(cs) <= Len(cs)
  <2>1. Len(cs) \in Nat
    BY LenProperties
  <2> QED BY <2>1
<1>9. r \in Seq(ClaimTxs)
  BY <1>4, <1>7, <1>8 DEF T
<1> QED BY <1>9 DEF r

\* The claims of the last blocks.
LEMMA LastClaimsAreTxs ==
    ASSUME NEW s \in Seq(L2Blks), NEW n \in Nat, n <= Len(s)
    PROVE  ClaimsIn(SubSeq(s, n + 1, Len(s))) \in Seq(ClaimTxs)
<1> DEFINE t == SubSeq(s, n + 1, Len(s))
<1>1. Len(s) \in Nat
  BY LenProperties
<1>2. t \in Seq(L2Blks)
  <2>1. \A i \in (n + 1)..Len(s) : s[i] \in L2Blks
    <3> SUFFICES ASSUME NEW i \in (n + 1)..Len(s) PROVE s[i] \in L2Blks
      OBVIOUS
    <3>1. i \in 1..Len(s)
      BY <1>1
    <3> QED BY <3>1, ElementOfSeq
  <2>2. n + 1 \in Int /\ Len(s) \in Int
    BY <1>1
  <2> QED BY <2>1, <2>2, SubSeqProperties
<1> HIDE DEF t
<1>3. Len(t) \in Nat /\ SubSeq(t, 1, Len(t)) = t
  BY <1>2, LenProperties, SubSeqFull
<1>4. Len(t) <= Len(t)
  BY <1>3
<1>5. ClaimsIn(SubSeq(t, 1, Len(t))) \in Seq(ClaimTxs)
  BY <1>2, <1>3, <1>4, ClaimsInFirst
<1> QED BY <1>3, <1>5 DEF t

\* A rollback.
LEMMA RollBackKeeps == ASSUME ClaimsInv, RollBack PROVE ClaimsInv'
<1>1. ClaimsShape /\ ChainsInv /\ FileLasts /\ RunLasts /\ RunKnows
  BY DEF ClaimsInv
<1>2. PICK n \in 0..(Len(l2Blocks) - 1), gone \in 0..(Len(l1Blocks) - fixed) :
        LET L1 == SubSeq(l1Blocks, 1, Len(l1Blocks) - gone)
            L2 == SubSeq(l2Blocks, 1, n)
            dropped == ClaimsIn(SubSeq(l2Blocks, n + 1, Len(l2Blocks)))
        IN /\ n > 0 => l2Blocks[n].anchor <= Len(L1)
           /\ l1Blocks' = L1 /\ l2Blocks' = L2
           /\ claimPool' \in {<<>>, Admitting(L1, L2, dropped)}
  BY DEF RollBack
<1> DEFINE h == Len(l1Blocks) - gone
<1>3. UNCHANGED <<fixed, file>> /\ run' = Meanwhile(run, TRUE)
  BY DEF RollBack
<1>4. /\ l1Blocks \in Seq(L1Msgs) /\ l2Blocks \in Seq(L2Blks) /\ fixed \in Nat /\ fixed <= Len(l1Blocks)
      /\ Len(l1Blocks) \in Nat /\ Len(l2Blocks) \in Nat
  BY <1>1, NowIs DEF ClaimsShape
<1>5. n \in Nat /\ n <= Len(l2Blocks) /\ h \in Nat /\ h <= Len(l1Blocks) /\ fixed <= h
  <2>1. n \in Nat /\ n <= Len(l2Blocks) - 1
    OBVIOUS
  <2>2. gone \in Nat /\ gone <= Len(l1Blocks) - fixed
    OBVIOUS
  <2> QED BY <1>4, <2>1, <2>2
<1>6. l1Blocks' = SubSeq(l1Blocks, 1, h) /\ l2Blocks' = SubSeq(l2Blocks, 1, n)
  BY <1>2
<1> HIDE DEF h
<1>7. l1Blocks' \in Seq(L1Msgs) /\ Len(l1Blocks') = h
  BY <1>4, <1>5, <1>6, FirstOf
<1>8. l2Blocks' \in Seq(L2Blks) /\ Len(l2Blocks') = n /\ \A i \in 1..n : l2Blocks'[i] = l2Blocks[i]
  BY <1>4, <1>5, <1>6, FirstOf
<1>9. claimPool' \in Seq(ClaimTxs)
  <2> DEFINE dropped == ClaimsIn(SubSeq(l2Blocks, n + 1, Len(l2Blocks)))
  <2>1. dropped \in Seq(ClaimTxs)
    BY <1>4, <1>5, LastClaimsAreTxs
  <2>2. claimPool' \in {<<>>, Admitting(l1Blocks', l2Blocks', dropped)}
    BY <1>2
  <2> HIDE DEF dropped
  <2>3. Admitting(l1Blocks', l2Blocks', dropped) \in Seq(ClaimTxs)
    BY <2>1, AdmittedAreTxs
  <2> QED BY <2>2, <2>3, EmptySeq
<1>10. \A k \in 0..h : UpToBlock(l1Blocks', k) = UpToBlock(l1Blocks, k)
  <2> SUFFICES ASSUME NEW k \in 0..h PROVE UpToBlock(l1Blocks', k) = UpToBlock(l1Blocks, k)
    OBVIOUS
  <2>1. SubSeq(l1Blocks', 1, k) = SubSeq(l1Blocks, 1, k)
    BY <1>4, <1>5, <1>6, FirstOfMore
  <2> QED BY <2>1 DEF UpToBlock
<1>11. \A i \in 1..n : /\ i \in 1..Len(l2Blocks)
                       /\ l2Blocks[i].anchor \in 0..h
  <2> SUFFICES ASSUME NEW i \in 1..n PROVE i \in 1..Len(l2Blocks) /\ l2Blocks[i].anchor \in 0..h
    OBVIOUS
  <2>1. i \in 1..Len(l2Blocks) /\ n \in 1..Len(l2Blocks) /\ i <= n /\ n > 0
    BY <1>4, <1>5
  <2>2. l2Blocks[i].anchor \in Nat /\ l2Blocks[n].anchor \in Nat
    BY <1>4, <2>1, BlockIs
  <2>3. l2Blocks[i].anchor <= l2Blocks[n].anchor
    BY <1>1, <2>1 DEF ChainsInv, AnchorsRise
  <2>4. l2Blocks[n].anchor <= h
    BY <1>2, <1>6, <1>7, <2>1
  <2> QED BY <1>5, <2>1, <2>2, <2>3, <2>4
<1>12. ClaimsShape'
  <2>1. run' \in ClaimRuns
    BY <1>1, <1>3, MeanwhileIs DEF ClaimsShape
  <2>2. h - CACHE_MARGIN <= fixed
    <3>1. CACHE_MARGIN \in Nat /\ Len(l1Blocks) - CACHE_MARGIN <= fixed
      BY <1>1, ClaimsAssumption DEF ClaimsShape
    <3> QED BY <1>4, <1>5, <3>1
  <2>3. run'.wanted \subseteq DOMAIN run'.leaves /\ run'.covered <= Len(run'.leaves)
    BY <1>1, <1>3, MeanwhileIs DEF ClaimsShape
  <2> QED BY <1>1, <1>3, <1>5, <1>7, <1>8, <1>9, <2>1, <2>2, <2>3 DEF ClaimsShape
<1>13. AnchorsRise'
  <2>1. \A i \in 1..n : l2Blocks'[i].anchor <= h
    BY <1>5, <1>8, <1>11
  <2>2. \A i, j \in 1..n : i <= j => l2Blocks'[i].anchor <= l2Blocks'[j].anchor
    BY <1>1, <1>8, <1>11 DEF ChainsInv, AnchorsRise
  <2> QED BY <1>7, <1>8, <2>1, <2>2 DEF AnchorsRise
<1>14. AllTaken'
  <2> SUFFICES ASSUME NEW k \in 0..n
               PROVE  Taken(l1Blocks', SubSeq(l2Blocks', 1, k), ClaimsIn(SubSeq(l2Blocks', 1, k)))
    BY <1>8 DEF AllTaken
  <2>1. SubSeq(l2Blocks', 1, k) = SubSeq(l2Blocks, 1, k)
    BY <1>4, <1>5, <1>6, FirstOfMore
  <2>2. k \in 0..Len(l2Blocks)
    BY <1>4, <1>5
  <2>3. \A i \in 1..k : UpToBlock(l1Blocks', l2Blocks[i].anchor) = UpToBlock(l1Blocks, l2Blocks[i].anchor)
    <3>1. \A i \in 1..k : i \in 1..n
      BY <1>5
    <3> QED BY <1>10, <1>11, <3>1
  <2>4. Taken(l1Blocks', SubSeq(l2Blocks, 1, k), ClaimsIn(SubSeq(l2Blocks, 1, k)))
    BY <1>1, <2>2, <2>3, FirstBlocksKept
  <2> QED BY <2>1, <2>4
<1>15. FileLasts' /\ RunLasts' /\ RunKnows'
  <2>1. /\ run'.at = run.at
        /\ run.at # "idle" =>
             /\ ~run'.quiet /\ run'.rolled = (run.rolled \/ run.bits # {})
             /\ run'.through = run.through /\ run'.settled = run.settled /\ run'.bits = run.bits
    BY <1>1, <1>3, MeanwhileIs DEF ClaimsShape
  <2>2. \A k \in 0..fixed : UpToBlock(l1Blocks', k) = UpToBlock(l1Blocks, k)
    <3>1. \A k \in 0..fixed : k \in 0..h
      BY <1>4, <1>5
    <3> QED BY <1>10, <3>1
  <2>3. /\ FileLasts'
        /\ run.at # "idle" => run.through <= fixed' /\ run.settled = UpToBlock(l1Blocks', run.through)
    <3>1. fixed' \in Nat /\ fixed <= fixed' /\ UNCHANGED file
      BY <1>3, <1>4
    <3> QED BY <1>1, <2>2, <3>1, LastsStill
  <2>4. RunLasts'
    BY <2>1, <2>3 DEF RunLasts, Lasts
  <2>5. RunKnows'
    BY <2>1 DEF RunKnows
  <2> QED BY <2>3, <2>4, <2>5
<1> QED BY <1>12, <1>13, <1>14, <1>15 DEF ClaimsInv, ChainsInv

-----------------------------------------------------------------------------
(* The claims: the steps of a run                                          *)

\* What a step of the run leaves alone.
LEMMA ChainsStill ==
    ASSUME ChainsInv, UNCHANGED <<l1Blocks, l2Blocks>>
    PROVE  /\ ChainsInv' /\ ClaimedNow' = ClaimedNow /\ RootNow' = RootNow /\ Anchor' = Anchor
BY DEF ChainsInv, AnchorsRise, AllTaken, ClaimedNow, RootNow, Anchor

\* The bits that a run starts with.
LEMMA KeptBitsAreSet ==
    ASSUME ClaimsShape, NEW s \in ClaimFiles, OnChain(s.claimedAt), s.sound,
           s.sound => s.claimed \subseteq IndicesOf(ClaimsIn(s.claimedAt))
    PROVE  s.claimed \subseteq ClaimedNow
<1> DEFINE at == s.claimedAt
<1> DEFINE m == Len(at)
<1> DEFINE n == Len(l2Blocks)
<1>1. at \in Seq(L2Blks) /\ l2Blocks \in Seq(L2Blks)
  BY DEF ClaimFiles, ClaimsShape
<1>2. m \in Nat /\ n \in Nat /\ SubSeq(at, 1, m) = at /\ SubSeq(l2Blocks, 1, n) = l2Blocks
  BY <1>1, LenProperties, SubSeqFull
<1>3. m <= n /\ SubSeq(at, 1, m) = SubSeq(l2Blocks, 1, m)
  BY DEF OnChain, IsPrefix
<1> HIDE DEF m, n, at
<1>4. n <= Len(l2Blocks)
  BY <1>2 DEF n
<1>5. IndicesOf(ClaimsIn(SubSeq(l2Blocks, 1, m))) \subseteq IndicesOf(ClaimsIn(SubSeq(l2Blocks, 1, n)))
  BY <1>1, <1>2, <1>3, <1>4, ClaimsInFirst
<1> QED BY <1>2, <1>3, <1>5 DEF ClaimedNow, at

\* A run starts with the messages through the anchor, and settles those of
\* the blocks that are fixed.
LEMMA StartRunKeeps == ASSUME ClaimsInv, StartRun PROVE ClaimsInv'
<1>1. ClaimsShape /\ ChainsInv /\ FileLasts /\ RunLasts /\ RunKnows
  BY DEF ClaimsInv
<1> DEFINE fromFile == IF file.through > Anchor THEN NoFile ELSE file
<1> DEFINE kept == OnChain(fromFile.claimedAt)
<1> DEFINE added(to) == Messages(SubSeq(l1Blocks, fromFile.through + 1, to))
<1> DEFINE through == Max({fromFile.through, Anchor - CACHE_MARGIN})
<1>2. /\ l2Blocks # <<>>
      /\ run' = [NoRun EXCEPT
            !.at = "bits", !.anchor = Anchor,
            !.leaves = fromFile.messages \o added(Anchor),
            !.through = through, !.settled = fromFile.messages \o added(through),
            !.bits = IF kept THEN fromFile.claimed ELSE {},
            !.rolled = kept /\ ~fromFile.sound]
      /\ UNCHANGED <<l1Blocks, fixed, l2Blocks, claimPool, file>>
  BY DEF StartRun
<1>3. /\ l1Blocks \in Seq(L1Msgs) /\ Len(l1Blocks) \in Nat /\ fixed \in Nat /\ fixed <= Len(l1Blocks)
      /\ Anchor \in Nat /\ Anchor <= Len(l1Blocks)
  BY <1>1, <1>2, NowIs, AnchorIs DEF ClaimsShape
<1>4. fromFile \in ClaimFiles /\ fromFile.through <= Anchor /\ fromFile.through <= fixed
      /\ fromFile.messages = UpToBlock(l1Blocks, fromFile.through)
      /\ (fromFile.sound => fromFile.claimed \subseteq IndicesOf(ClaimsIn(fromFile.claimedAt)))
  <2>1. CASE file.through > Anchor
    <3>1. fromFile = NoFile
      BY <2>1
    <3>2. NoFile \in ClaimFiles
      <4>1. <<>> \in Seq(Claimers) /\ <<>> \in Seq(L2Blks)
        BY EmptySeq
      <4> QED BY <4>1 DEF NoFile, ClaimFiles
    <3>3. UpToBlock(l1Blocks, 0) = <<>>
      <4>1. SubSeq(l1Blocks, 1, 0) = <<>>
        BY SubSeqEmpty
      <4>2. Nothing \in L1Msgs /\ <<>> \in Seq(L1Msgs)
        BY EmptySeq DEF L1Msgs
      <4>3. Messages(<<>>) = <<>>
        BY <4>2, MessagesNext
      <4> QED BY <4>1, <4>3 DEF UpToBlock
    <3>4. NoFile.through = 0 /\ NoFile.messages = <<>> /\ NoFile.claimed = {}
      BY DEF NoFile
    <3> HIDE DEF fromFile
    <3> QED BY <1>3, <3>1, <3>2, <3>3, <3>4
  <2>2. CASE ~(file.through > Anchor)
    <3>1. fromFile = file
      BY <2>2
    <3>2. file \in ClaimFiles /\ file.through \in Nat
      BY <1>1 DEF ClaimsShape, ClaimFiles
    <3>3. file.through <= Anchor
      BY <1>3, <2>2, <3>2
    <3> HIDE DEF fromFile
    <3> QED BY <1>1, <3>1, <3>2, <3>3 DEF FileLasts, Lasts
  <2> QED BY <2>1, <2>2
<1> HIDE DEF fromFile
<1> DEFINE t0 == fromFile.through
<1>5. t0 \in Nat /\ fromFile.messages \in Seq(Claimers) /\ fromFile.claimed \in SUBSET Nat /\ fromFile.sound \in BOOLEAN
  BY <1>4 DEF ClaimFiles
<1>6. through \in Nat /\ t0 <= through /\ through <= Anchor /\ through <= fixed
  <2> DEFINE a == Anchor - CACHE_MARGIN
  <2>1. CACHE_MARGIN \in Nat /\ Len(l1Blocks) - CACHE_MARGIN <= fixed
    BY <1>1, ClaimsAssumption DEF ClaimsShape
  <2>2. a \in Int /\ a <= Anchor /\ a <= fixed /\ t0 \in Int /\ t0 <= Anchor /\ t0 <= fixed
    BY <1>3, <1>4, <1>5, <2>1
  <2>3. through = Max({t0, a})
    OBVIOUS
  <2> HIDE DEF through, t0, a
  <2>4. through = IF t0 < a THEN a ELSE t0
    BY <2>2, <2>3, MaxOfTwo
  <2> QED BY <1>3, <1>5, <2>2, <2>4
<1> HIDE DEF through
<1>7. ASSUME NEW to \in Nat, t0 <= to, to <= Anchor
      PROVE  /\ fromFile.messages \o added(to) = UpToBlock(l1Blocks, to)
             /\ UpToBlock(l1Blocks, to) \in Seq(Claimers)
  <2> DEFINE q == Messages(SubSeq(l1Blocks, t0 + 1, to))
  <2>1. to <= Len(l1Blocks)
    BY <1>3, <1>7
  <2>2. q \in Seq(Claimers) /\ UpToBlock(l1Blocks, to) = UpToBlock(l1Blocks, t0) \o q
    BY <1>3, <1>5, <1>7, <2>1, MessagesBetween
  <2>3. UpToBlock(l1Blocks, to) \in Seq(Claimers)
    BY <1>4, <1>5, <2>2, ConcatProperties
  <2> QED BY <1>4, <2>2, <2>3
<1>8. /\ fromFile.messages \o added(Anchor) = UpToBlock(l1Blocks, Anchor)
      /\ UpToBlock(l1Blocks, Anchor) \in Seq(Claimers)
  <2>1. t0 <= Anchor /\ Anchor <= Anchor
    BY <1>3, <1>4
  <2> QED BY <1>3, <1>7, <2>1
<1>9. /\ fromFile.messages \o added(through) = UpToBlock(l1Blocks, through)
      /\ UpToBlock(l1Blocks, through) \in Seq(Claimers)
  BY <1>6, <1>7
<1> HIDE DEF added, t0
<1>10. kept \in BOOLEAN
  BY DEF OnChain
<1>11. kept /\ fromFile.sound => fromFile.claimed \subseteq ClaimedNow
  BY <1>1, <1>4, KeptBitsAreSet
<1> HIDE DEF kept
<1>12. /\ run'.at = "bits" /\ run'.leaves = UpToBlock(l1Blocks, Anchor) /\ run'.through = through
       /\ run'.settled = UpToBlock(l1Blocks, through) /\ run'.proved = {}
       /\ run'.bits = (IF kept THEN fromFile.claimed ELSE {}) /\ run'.rolled = (kept /\ ~fromFile.sound)
       /\ run' \in ClaimRuns /\ run'.wanted = {} /\ run'.covered = 0
  <2>1. run' = [at |-> "bits", anchor |-> Anchor, leaves |-> UpToBlock(l1Blocks, Anchor), through |-> through,
                settled |-> UpToBlock(l1Blocks, through), bits |-> IF kept THEN fromFile.claimed ELSE {},
                wanted |-> {}, covered |-> 0, proved |-> {}, quiet |-> TRUE, rolled |-> kept /\ ~fromFile.sound]
    BY <1>2, <1>8, <1>9 DEF NoRun
  <2>2. (IF kept THEN fromFile.claimed ELSE {}) \in SUBSET Nat /\ (kept /\ ~fromFile.sound) \in BOOLEAN
    BY <1>5, <1>10
  <2>3. run' \in ClaimRuns
    BY <1>3, <1>6, <1>8, <1>9, <2>1, <2>2 DEF ClaimRuns
  <2> QED BY <2>1, <2>3
<1>13. ChainsInv' /\ ClaimedNow' = ClaimedNow /\ Anchor' = Anchor
  BY <1>1, <1>2, ChainsStill
<1>14. ClaimsShape'
  <2>1. Len(run'.leaves) \in Nat
    BY <1>8, <1>12, LenProperties
  <2> QED BY <1>1, <1>2, <1>12, <2>1 DEF ClaimsShape
<1>15. FileLasts'
  BY <1>1, <1>2 DEF FileLasts, Lasts
<1>16. RunLasts'
  <2>1. ~(kept /\ ~fromFile.sound) => (IF kept THEN fromFile.claimed ELSE {}) \subseteq ClaimedNow
    BY <1>11
  <2> QED BY <1>2, <1>6, <1>12, <1>13, <2>1 DEF RunLasts, Lasts
<1>17. RunKnows'
  BY <1>2, <1>12, <1>13 DEF RunKnows
<1> QED BY <1>13, <1>14, <1>15, <1>16, <1>17 DEF ClaimsInv

\* A run reads the claimed bits.
LEMMA ReadBitsKeeps == ASSUME ClaimsInv, ReadBits PROVE ClaimsInv'
<1>1. ClaimsShape /\ ChainsInv /\ FileLasts /\ RunLasts /\ RunKnows
  BY DEF ClaimsInv
<1> DEFINE unseen == {i \in DOMAIN run.leaves : i \notin run.bits}
<1> DEFINE bits == IF unseen = {} THEN run.bits ELSE State.claimed
<1> DEFINE wanted == DOMAIN run.leaves \ bits
<1> DEFINE rolled == run.rolled /\ unseen = {}
<1> DEFINE place == IF DOMAIN run.leaves \subseteq bits THEN "save" ELSE "root"
<1>2. /\ run.at = "bits" /\ run' = [run EXCEPT !.bits = bits, !.rolled = rolled, !.wanted = wanted, !.at = place]
      /\ UNCHANGED <<l1Blocks, fixed, l2Blocks, claimPool, file>>
  BY DEF ReadBits
<1>3. run \in ClaimRuns /\ DOMAIN run.leaves \in SUBSET Nat /\ run.bits \in SUBSET Nat
  <2>1. run \in ClaimRuns /\ run.leaves \in Seq(Claimers) /\ run.bits \in SUBSET Nat
    BY <1>1 DEF ClaimsShape, ClaimRuns
  <2>2. DOMAIN run.leaves = 1..Len(run.leaves) /\ Len(run.leaves) \in Nat
    BY <2>1, LenProperties
  <2> QED BY <2>1, <2>2
<1>4. State.claimed = ClaimedNow /\ ClaimedNow \in SUBSET Nat
  BY <1>1, NowIs
<1>5. bits \in SUBSET Nat /\ rolled \in BOOLEAN /\ (~rolled => bits \subseteq ClaimedNow)
  <2>1. ~run.rolled => run.bits \subseteq ClaimedNow
    BY <1>1, <1>2 DEF RunLasts
  <2>2. run.rolled \in BOOLEAN
    BY <1>3 DEF ClaimRuns
  <2> QED BY <1>3, <1>4, <2>1, <2>2
<1>6. place = "root" => wanted # {} /\ bits = ClaimedNow
  <2> SUFFICES ASSUME ~(DOMAIN run.leaves \subseteq bits) PROVE wanted # {} /\ bits = ClaimedNow
    OBVIOUS
  <2>1. unseen # {}
    OBVIOUS
  <2> QED BY <1>4, <2>1
<1>7. place = "save" => DOMAIN run.leaves \subseteq bits
  OBVIOUS
<1>8. place \in {"save", "root"} /\ wanted \in SUBSET Nat
  BY <1>3
<1>9. wanted = DOMAIN run.leaves \ bits
  OBVIOUS
<1> HIDE DEF bits, unseen, place, wanted, rolled
<1>10. /\ run' \in ClaimRuns /\ run'.at = place /\ run'.bits = bits /\ run'.wanted = wanted
       /\ run'.leaves = run.leaves /\ run'.through = run.through /\ run'.settled = run.settled
       /\ run'.proved = run.proved /\ run'.quiet = run.quiet /\ run'.rolled = rolled
       /\ run'.covered = run.covered
  BY <1>2, <1>3, <1>5, <1>8 DEF ClaimRuns
<1>11. ChainsInv' /\ ClaimedNow' = ClaimedNow /\ Anchor' = Anchor
  BY <1>1, <1>2, ChainsStill
<1>12. ClaimsShape'
  BY <1>1, <1>2, <1>9, <1>10 DEF ClaimsShape
<1>13. FileLasts'
  BY <1>1, <1>2 DEF FileLasts, Lasts
<1>14. RunLasts'
  BY <1>1, <1>2, <1>5, <1>10, <1>11 DEF RunLasts, Lasts
<1>15. RunKnows'
  <2> SUFFICES ASSUME run.quiet
               PROVE  /\ l2Blocks # <<>> /\ run.leaves = UpToBlock(l1Blocks, Anchor)
                      /\ place = "root" =>
                           run.proved = {} /\ wanted # {} /\ wanted \subseteq DOMAIN run.leaves \ ClaimedNow
                      /\ place = "save" /\ ~rolled => DOMAIN run.leaves \subseteq ClaimedNow
    BY <1>2, <1>8, <1>10, <1>11 DEF RunKnows, LeftToClaim
  <2>1. l2Blocks # <<>> /\ run.leaves = UpToBlock(l1Blocks, Anchor) /\ run.proved = {}
    BY <1>1, <1>2 DEF RunKnows
  <2> QED BY <1>5, <1>6, <1>7, <1>9, <2>1
<1> QED BY <1>11, <1>12, <1>13, <1>14, <1>15 DEF ClaimsInv

\* A run reads the root.
LEMMA ReadRootKeeps == ASSUME ClaimsInv, ReadRoot PROVE ClaimsInv'
<1>1. ClaimsShape /\ ChainsInv /\ FileLasts /\ RunLasts /\ RunKnows
  BY DEF ClaimsInv
<1> DEFINE T == {0} \cup {n \in DOMAIN run.leaves : SubSeq(run.leaves, 1, n) = State.root}
<1> DEFINE covered == Max(T)
<1>2. /\ run.at = "root" /\ run' = [run EXCEPT !.at = "send", !.covered = covered]
      /\ UNCHANGED <<l1Blocks, fixed, l2Blocks, claimPool, file>>
  BY DEF ReadRoot
<1>3. run \in ClaimRuns /\ run.leaves \in Seq(Claimers)
  BY <1>1 DEF ClaimsShape, ClaimRuns
<1>4. DOMAIN run.leaves = 1..Len(run.leaves) /\ Len(run.leaves) \in Nat
  BY <1>3, LenProperties
<1>5. covered \in T
  <2>1. T \in SUBSET (0..Len(run.leaves)) /\ T # {}
    BY <1>4
  <2> HIDE DEF T
  <2> QED BY <1>4, <2>1, MaxOfNumbers
<1> HIDE DEF covered
<1>6. covered \in Nat /\ covered <= Len(run.leaves) /\ (covered = 0 \/ SubSeq(run.leaves, 1, covered) = RootNow)
  <2>1. State.root = RootNow
    BY <1>1, NowIs
  <2> QED BY <1>4, <1>5, <2>1
<1> HIDE DEF T
<1>7. /\ run' \in ClaimRuns /\ run'.at = "send" /\ run'.covered = covered
      /\ run'.leaves = run.leaves /\ run'.through = run.through /\ run'.settled = run.settled
      /\ run'.bits = run.bits /\ run'.wanted = run.wanted
      /\ run'.proved = run.proved /\ run'.quiet = run.quiet /\ run'.rolled = run.rolled
  BY <1>2, <1>3, <1>6 DEF ClaimRuns
<1>8. ChainsInv' /\ ClaimedNow' = ClaimedNow /\ RootNow' = RootNow /\ Anchor' = Anchor
  BY <1>1, <1>2, ChainsStill
<1>9. ClaimsShape'
  BY <1>1, <1>2, <1>6, <1>7 DEF ClaimsShape
<1>10. FileLasts'
  BY <1>1, <1>2 DEF FileLasts, Lasts
<1>11. RunLasts'
  BY <1>1, <1>2, <1>7, <1>8 DEF RunLasts, Lasts
<1>12. RunKnows'
  BY <1>1, <1>2, <1>6, <1>7, <1>8 DEF RunKnows, LeftToClaim
<1> QED BY <1>8, <1>9, <1>10, <1>11, <1>12 DEF ClaimsInv

\* A claim that the run gives is well formed.
LEMMA ClaimOfIs ==
    ASSUME ClaimsShape, NEW i \in run.wanted
    PROVE  /\ run \in ClaimRuns /\ run.leaves \in Seq(Claimers) /\ Len(run.leaves) \in Nat
           /\ run.covered \in Nat /\ run.proved \in SUBSET Claimers
           /\ i \in Nat /\ i # 0 /\ i \in DOMAIN run.leaves /\ run.leaves[i] \in Claimers
           /\ ClaimOf(i) \in ClaimTxs
           /\ ClaimOf(i).index = i /\ ClaimOf(i).leaves = run.leaves
           /\ ClaimOf(i).size = (IF i <= run.covered THEN run.covered ELSE Len(run.leaves))
           /\ ClaimOf(i).proves = (~(i <= run.covered) /\ run.leaves[i] \notin run.proved)
<1>1. /\ run \in ClaimRuns /\ run.leaves \in Seq(Claimers) /\ run.covered \in Nat
      /\ run.proved \in SUBSET Claimers /\ run.wanted \subseteq DOMAIN run.leaves
  BY DEF ClaimsShape, ClaimRuns
<1>2. i \in 1..Len(run.leaves) /\ Len(run.leaves) \in Nat /\ i \in DOMAIN run.leaves
  BY <1>1, LenProperties
<1>3. run.leaves[i] \in Claimers
  BY <1>1, <1>2, ElementOfSeq
<1> DEFINE c == ClaimOf(i)
<1>4. /\ c.index = i /\ c.leaves = run.leaves
      /\ c.size = (IF i <= run.covered THEN run.covered ELSE Len(run.leaves))
      /\ c.proves = (~(i <= run.covered) /\ run.leaves[i] \notin run.proved)
      /\ c = [index |-> c.index, leaves |-> c.leaves, size |-> c.size, proves |-> c.proves]
  BY DEF ClaimOf
<1> HIDE DEF c
<1>5. c.size \in Nat /\ c.proves \in BOOLEAN /\ (c.proves => c.size = Len(c.leaves))
  BY <1>1, <1>2, <1>4
<1>6. c \in [index : Nat, leaves : Seq(Claimers), size : Nat, proves : BOOLEAN]
  <2>1. c.index \in Nat /\ c.leaves \in Seq(Claimers) /\ c.size \in Nat /\ c.proves \in BOOLEAN
    BY <1>1, <1>2, <1>4, <1>5
  <2>2. \A a \in Nat, b \in Seq(Claimers), d \in Nat, e \in BOOLEAN :
          [index |-> a, leaves |-> b, size |-> d, proves |-> e]
            \in [index : Nat, leaves : Seq(Claimers), size : Nat, proves : BOOLEAN]
    OBVIOUS
  <2> DEFINE z == [index |-> c.index, leaves |-> c.leaves, size |-> c.size, proves |-> c.proves]
  <2>3. z \in [index : Nat, leaves : Seq(Claimers), size : Nat, proves : BOOLEAN]
    BY <2>1, <2>2
  <2>4. c = z
    BY <1>4
  <2> HIDE DEF z
  <2> QED BY <2>3, <2>4
<1>7. c \in ClaimTxs
  BY <1>5, <1>6 DEF ClaimTxs
<1> QED BY <1>1, <1>2, <1>3, <1>4, <1>7 DEF c

\* A claim that a run sends with nothing pending, of a message that is left,
\* while it is alone, is one that the messenger takes.
LEMMA FirstClaimIsValid ==
    ASSUME ClaimsInv, run.at = "send", run.quiet, claimPool = <<>>, NEW i \in run.wanted
    PROVE  ClaimOn(l1Blocks, l2Blocks, After(l1Blocks, l2Blocks), ClaimOf(i)).valid
<1>1. ClaimsShape /\ ChainsInv /\ RunKnows
  BY DEF ClaimsInv
<1> DEFINE c == ClaimOf(i)
<1>2. /\ run.covered \in Nat /\ i \in Nat /\ i # 0 /\ Len(run.leaves) \in Nat
      /\ c \in ClaimTxs /\ c.index = i /\ c.leaves = run.leaves
      /\ c.size = (IF i <= run.covered THEN run.covered ELSE Len(run.leaves))
      /\ c.proves = (~(i <= run.covered) /\ run.leaves[i] \notin run.proved)
  BY <1>1, ClaimOfIs
<1>3. /\ l2Blocks # <<>> /\ run.leaves = UpToBlock(l1Blocks, Anchor)
      /\ run.proved = {} /\ i \notin ClaimedNow
      /\ run.covered = 0 \/ SubSeq(run.leaves, 1, run.covered) = RootNow
  BY <1>1 DEF RunKnows, LeftToClaim
<1> HIDE DEF c
<1>4. l2Blocks \in Seq(L2Blks) /\ State.claimed = ClaimedNow /\ State.root = RootNow
  BY <1>1, NowIs DEF ClaimsShape
<1>5. Fits(l1Blocks, l2Blocks, RootNow, c)
  <2>1. CASE i <= run.covered
    <3>1. c.size = run.covered /\ run.covered # 0
      BY <1>2, <2>1
    <3> QED BY <1>2, <1>3, <3>1 DEF Fits
  <2>2. CASE ~(i <= run.covered)
    <3>1. c.proves
      BY <1>2, <1>3, <2>2
    <3>2. /\ AnchorRoot(l1Blocks, l2Blocks, UpToBlock(l1Blocks, Anchor))
          /\ Len(UpToBlock(l1Blocks, Anchor)) >= Len(RootNow)
      BY <1>1, <1>3, AnchorIs
    <3> QED BY <1>2, <1>3, <3>1, <3>2 DEF Fits
  <2> QED BY <2>1, <2>2
<1>6. ClaimOn(l1Blocks, l2Blocks, State, c).valid <=> c.index \notin State.claimed /\ Fits(l1Blocks, l2Blocks, State.root, c)
  <2> DEFINE st == State
  <2> HIDE DEF st
  <2>1. ClaimOn(l1Blocks, l2Blocks, st, c).valid <=> c.index \notin st.claimed /\ Fits(l1Blocks, l2Blocks, st.root, c)
    BY <1>2, <1>4, ClaimOnIs
  <2> QED BY <2>1 DEF st
<1>7. ClaimOn(l1Blocks, l2Blocks, State, c).valid
  BY <1>2, <1>3, <1>4, <1>5, <1>6
<1> QED BY <1>7 DEF State, c

\* A run sends a claim, and after the first one there is one pending.
LEMMA SendClaimKeeps == ASSUME ClaimsInv, SendClaim PROVE ClaimsInv'
<1>1. ClaimsShape /\ ChainsInv /\ FileLasts /\ RunLasts /\ RunKnows
  BY DEF ClaimsInv
<1>2. PICK i \in run.wanted :
        LET c == ClaimOf(i)
            rest == run.wanted \ {i}
        IN /\ claimPool' = Admit(l1Blocks, l2Blocks, claimPool, c)
           /\ run' = [run EXCEPT !.wanted = rest, !.at = IF rest = {} THEN "save" ELSE "send",
                        !.proved = IF c.proves /\ claimPool' # claimPool THEN @ \cup {run.leaves[i]} ELSE @]
  BY DEF SendClaim
<1> DEFINE c == ClaimOf(i)
<1> DEFINE rest == run.wanted \ {i}
<1> DEFINE place == IF rest = {} THEN "save" ELSE "send"
<1> DEFINE proved == IF c.proves /\ claimPool' # claimPool THEN run.proved \cup {run.leaves[i]} ELSE run.proved
<1>3. /\ run.at = "send" /\ claimPool' = Admit(l1Blocks, l2Blocks, claimPool, c)
      /\ run' = [run EXCEPT !.wanted = rest, !.at = place, !.proved = proved]
      /\ UNCHANGED <<l1Blocks, fixed, l2Blocks, file>>
  BY <1>2 DEF SendClaim
<1>4. /\ run \in ClaimRuns /\ claimPool \in Seq(ClaimTxs) /\ run.wanted \in SUBSET Nat
      /\ run.wanted \subseteq DOMAIN run.leaves
  BY <1>1 DEF ClaimsShape, ClaimRuns
<1>5. c \in ClaimTxs /\ run.leaves[i] \in Claimers /\ run.proved \in SUBSET Claimers
  BY <1>1, ClaimOfIs
<1>6. rest \in SUBSET Nat /\ rest \subseteq DOMAIN run.leaves /\ place \in {"save", "send"} /\ proved \in SUBSET Claimers
  BY <1>4, <1>5
<1>7. claimPool' \in Seq(ClaimTxs) /\ (claimPool' = claimPool \/ claimPool' = Append(claimPool, c))
  <2> HIDE DEF c
  <2>1. Append(claimPool, c) \in Seq(ClaimTxs)
    BY <1>4, <1>5, AppendProperties
  <2> QED BY <1>3, <1>4, <2>1 DEF Admit
<1>8. run.quiet => claimPool' # <<>>
  <2> SUFFICES ASSUME run.quiet PROVE claimPool' # <<>>
    OBVIOUS
  <2>1. CASE claimPool = <<>>
    <3>1. ClaimOn(l1Blocks, l2Blocks, After(l1Blocks, l2Blocks), c).valid
      BY <1>3, <2>1, FirstClaimIsValid
    <3>2. \A d \in ToSet(claimPool) : d.index # c.index
      <4>1. Len(claimPool) = 0 /\ 1..0 = {}
        BY <2>1, EmptySeq
      <4>2. ToSet(claimPool) = {claimPool[k] : k \in 1..Len(claimPool)}
        BY <1>4, LenProperties DEF ToSet
      <4> QED BY <4>1, <4>2
    <3> HIDE DEF c
    <3>3. claimPool' = Append(claimPool, c)
      BY <1>3, <3>1, <3>2 DEF Admit
    <3> QED BY <1>4, <1>5, <3>3, AppendProperties
  <2>2. CASE claimPool # <<>>
    <3> HIDE DEF c
    <3>1. Append(claimPool, c) # <<>>
      BY <1>4, <1>5, AppendProperties
    <3> QED BY <1>7, <2>2, <3>1
  <2> QED BY <2>1, <2>2
<1> HIDE DEF rest, place, proved
<1>9. /\ run' \in ClaimRuns /\ run'.at = place /\ run'.wanted = rest
      /\ run'.leaves = run.leaves /\ run'.through = run.through /\ run'.settled = run.settled
      /\ run'.bits = run.bits /\ run'.covered = run.covered
      /\ run'.quiet = run.quiet /\ run'.rolled = run.rolled
  BY <1>3, <1>4, <1>6 DEF ClaimRuns
<1>10. ChainsInv' /\ ClaimedNow' = ClaimedNow /\ Anchor' = Anchor
  BY <1>1, <1>3, ChainsStill
<1>11. ClaimsShape'
  BY <1>1, <1>3, <1>6, <1>7, <1>9 DEF ClaimsShape
<1>12. FileLasts'
  BY <1>1, <1>3 DEF FileLasts, Lasts
<1>13. RunLasts'
  BY <1>1, <1>3, <1>9, <1>10 DEF RunLasts, Lasts
<1>14. RunKnows'
  <2> SUFFICES ASSUME run.quiet PROVE l2Blocks # <<>> /\ run.leaves = UpToBlock(l1Blocks, Anchor)
    BY <1>3, <1>6, <1>8, <1>9, <1>10 DEF RunKnows
  <2> QED BY <1>1, <1>3 DEF RunKnows
<1> QED BY <1>10, <1>11, <1>12, <1>13, <1>14 DEF ClaimsInv

\* An error ends the run.
LEMMA RunErrorKeeps == ASSUME ClaimsInv, RunError PROVE ClaimsInv'
<1>1. ClaimsShape /\ ChainsInv /\ FileLasts /\ RunLasts /\ RunKnows
  BY DEF ClaimsInv
<1>2. /\ run.at # "idle" /\ run' = [run EXCEPT !.at = "save", !.quiet = FALSE]
      /\ UNCHANGED <<l1Blocks, fixed, l2Blocks, claimPool, file>>
  BY DEF RunError
<1>3. run \in ClaimRuns
  BY <1>1 DEF ClaimsShape
<1>4. /\ run' \in ClaimRuns /\ ~run'.quiet /\ run'.rolled = run.rolled
      /\ run'.leaves = run.leaves /\ run'.through = run.through /\ run'.settled = run.settled
      /\ run'.bits = run.bits /\ run'.covered = run.covered /\ run'.wanted = run.wanted
  BY <1>2, <1>3 DEF ClaimRuns
<1>5. ChainsInv' /\ ClaimedNow' = ClaimedNow
  BY <1>1, <1>2, ChainsStill
<1>6. ClaimsShape' /\ FileLasts'
  BY <1>1, <1>2, <1>4 DEF ClaimsShape, FileLasts, Lasts
<1>7. RunLasts' /\ RunKnows'
  BY <1>1, <1>2, <1>4, <1>5 DEF RunLasts, Lasts, RunKnows
<1> QED BY <1>5, <1>6, <1>7 DEF ClaimsInv

\* The file before any run, and the run before its first step.
LEMMA NothingKept ==
    /\ NoFile \in ClaimFiles /\ NoRun \in ClaimRuns /\ NoRun.at = "idle"
    /\ NoRun.wanted = {} /\ NoRun.leaves = <<>> /\ NoRun.covered = 0
    /\ NoFile.through = 0 /\ NoFile.messages = <<>> /\ NoFile.claimed = {}
<1>1. <<>> \in Seq(Claimers) /\ <<>> \in Seq(L2Blks)
  BY EmptySeq
<1>2. NoFile \in ClaimFiles
  BY <1>1 DEF NoFile, ClaimFiles
<1>3. NoRun \in ClaimRuns
  BY <1>1 DEF NoRun, ClaimRuns
<1> QED BY <1>2, <1>3 DEF NoFile, NoRun

\* The run's end, with what it saves, or without.
LEMMA SaveKeeps == ASSUME ClaimsInv, Save PROVE ClaimsInv'
<1>1. ClaimsShape /\ ChainsInv /\ FileLasts /\ RunLasts /\ RunKnows
  BY DEF ClaimsInv
<1> DEFINE f1 == [NoFile EXCEPT !.through = run.through, !.messages = run.settled]
<1> DEFINE f2 == [through |-> run.through, messages |-> run.settled, claimed |-> run.bits,
                  claimedAt |-> l2Blocks, sound |-> ~run.rolled]
<1>2. /\ run.at = "save" /\ file' \in {file, f1, f2} /\ run' = NoRun
      /\ UNCHANGED <<l1Blocks, fixed, l2Blocks, claimPool>>
  BY DEF Save
<1>3. /\ run.through \in Nat /\ run.settled \in Seq(Claimers) /\ run.bits \in SUBSET Nat /\ run.rolled \in BOOLEAN
      /\ l2Blocks \in Seq(L2Blks)
  BY <1>1 DEF ClaimsShape, ClaimRuns
<1>4. Lasts(run.through, run.settled) /\ (~run.rolled => run.bits \subseteq IndicesOf(ClaimsIn(l2Blocks)))
  BY <1>1, <1>2 DEF RunLasts, ClaimedNow
<1>5. /\ f1 \in ClaimFiles /\ Lasts(f1.through, f1.messages)
      /\ f1.sound => f1.claimed \subseteq IndicesOf(ClaimsIn(f1.claimedAt))
  <2>1. NoFile \in ClaimFiles /\ NoFile.claimed = {}
    BY NothingKept
  <2>2. f1 \in ClaimFiles /\ f1.through = run.through /\ f1.messages = run.settled /\ f1.claimed = {}
    BY <1>3, <2>1 DEF ClaimFiles
  <2> QED BY <1>4, <2>2
<1>6. /\ f2 \in ClaimFiles /\ Lasts(f2.through, f2.messages)
      /\ f2.sound => f2.claimed \subseteq IndicesOf(ClaimsIn(f2.claimedAt))
  BY <1>3, <1>4 DEF ClaimFiles
<1>7. /\ file \in ClaimFiles /\ Lasts(file.through, file.messages)
      /\ file.sound => file.claimed \subseteq IndicesOf(ClaimsIn(file.claimedAt))
  BY <1>1 DEF ClaimsShape, FileLasts
<1> HIDE DEF f1, f2
<1>8. /\ file' \in ClaimFiles /\ Lasts(file'.through, file'.messages)
      /\ file'.sound => file'.claimed \subseteq IndicesOf(ClaimsIn(file'.claimedAt))
  BY <1>2, <1>5, <1>6, <1>7
<1>9. ChainsInv'
  BY <1>1, <1>2, ChainsStill
<1>10. ClaimsShape'
  <2>1. Len(<<>>) = 0
    OBVIOUS
  <2> QED BY <1>1, <1>2, <1>8, <2>1, NothingKept DEF ClaimsShape
<1>11. FileLasts'
  BY <1>2, <1>8 DEF FileLasts, Lasts
<1>12. RunLasts' /\ RunKnows'
  BY <1>2, NothingKept DEF RunLasts, RunKnows
<1> QED BY <1>9, <1>10, <1>11, <1>12 DEF ClaimsInv

\* The first state.
LEMMA ClaimsInitInv == ASSUME ClaimsInit PROVE ClaimsInv
<1>1. l1Blocks = <<>> /\ fixed = 0 /\ l2Blocks = <<>> /\ claimPool = <<>> /\ file = NoFile /\ run = NoRun
  BY DEF ClaimsInit
<1>2. \A S : <<>> \in Seq(S)
  BY EmptySeq
<1>3. Len(<<>>) = 0
  OBVIOUS
<1>4. ClaimsShape
  <2>1. CACHE_MARGIN \in Nat
    BY ClaimsAssumption
  <2> QED BY <1>1, <1>2, <1>3, <2>1, NothingKept DEF ClaimsShape
<1>5. ClaimsIn(<<>>) = <<>> /\ Messages(<<>>) = <<>>
  <2>1. [anchor |-> 0, claims |-> <<>>] \in L2Blks /\ <<>> \in Seq(L2Blks)
    BY <1>2 DEF L2Blks
  <2>2. Nothing \in L1Msgs /\ <<>> \in Seq(L1Msgs)
    BY <1>2 DEF L1Msgs
  <2> QED BY <2>1, <2>2, ClaimsInNext, MessagesNext
<1>6. SubSeq(<<>>, 1, 0) = <<>>
  BY SubSeqEmpty
<1>7. ChainsInv
  <2>1. AnchorsRise
    BY <1>1, <1>3 DEF AnchorsRise
  <2>2. Taken(<<>>, <<>>, <<>>)
    BY <1>3 DEF Taken
  <2>3. \A n \in 0..0 : n = 0
    OBVIOUS
  <2> QED BY <1>1, <1>3, <1>5, <1>6, <2>1, <2>2, <2>3 DEF ChainsInv, AllTaken
<1>8. FileLasts
  <2>1. UpToBlock(<<>>, 0) = <<>>
    BY <1>5, <1>6 DEF UpToBlock
  <2>2. Lasts(file.through, file.messages)
    BY <1>1, <2>1, NothingKept DEF Lasts
  <2>3. file.claimed = {}
    BY <1>1, NothingKept
  <2> QED BY <2>2, <2>3 DEF FileLasts
<1>9. RunLasts /\ RunKnows
  BY <1>1, NothingKept DEF RunLasts, RunKnows
<1> QED BY <1>4, <1>7, <1>8, <1>9 DEF ClaimsInv

\* Every step of the claims' part.
LEMMA ClaimsStep == ASSUME ClaimsInv, ClaimsNext PROVE ClaimsInv'
BY NewL1BlockKeeps, NewL2BlockKeeps, RollBackKeeps, StartRunKeeps, ReadBitsKeeps, ReadRootKeeps,
   SendClaimKeeps, RunErrorKeeps, SaveKeeps DEF ClaimsNext

\* A step of another part.
LEMMA ClaimsStutter == ASSUME ClaimsInv, UNCHANGED claimsVars PROVE ClaimsInv'
<1>1. UNCHANGED <<l1Blocks, fixed, l2Blocks, claimPool, file, run>>
  BY DEF claimsVars
<1>2. ChainsInv' /\ ClaimedNow' = ClaimedNow /\ RootNow' = RootNow /\ Anchor' = Anchor
  BY <1>1, ChainsStill DEF ClaimsInv
<1>3. ClaimsShape' /\ FileLasts' /\ RunLasts' /\ RunKnows'
  BY <1>1, <1>2 DEF ClaimsInv, ClaimsShape, FileLasts, RunLasts, Lasts, RunKnows, LeftToClaim
<1> QED BY <1>2, <1>3 DEF ClaimsInv

\* What the run has then claimed.
LEMMA ClaimsAreLeft == ASSUME ClaimsInv PROVE RunsClaimWhatIsLeft
<1>1. ClaimsShape /\ ChainsInv /\ RunKnows
  BY DEF ClaimsInv
<1>2. State.claimed = ClaimedNow
  BY <1>1, NowIs
<1> QED BY <1>1, <1>2 DEF RunKnows, RunsClaimWhatIsLeft, UpToBlock

-----------------------------------------------------------------------------
(* The types of the pool, the follower and the claims                      *)

\* The pool's invariant has its types.
LEMMA PoolTyped == ASSUME PoolInv PROVE PoolTypeOK
<1>1. chain \in Seq(PoolBlocks)
  BY DEF PoolInv, PoolShape
<1>2. ASSUME NEW i \in DOMAIN chain PROVE chain[i] \in PoolBlocks
  <2>1. i \in 1..Len(chain)
    BY <1>1, LenProperties
  <2> QED BY <1>1, <2>1, ElementOfSeq
<1> QED BY <1>2 DEF PoolInv, PoolShape, PoolTypeOK, PoolBlocks

\* The follower's has all but a bound.
FollowerTypes == stops \in 0..MaxStops

LEMMA FollowerTyped == ASSUME FollowerInv, FollowerTypes PROVE FollowerTypeOK
<1>1. FollowerShape /\ db \in Dbs
  BY DEF FollowerInv, FollowerShape, Tables
<1>2. ASSUME NEW i \in DOMAIN rebuilt PROVE rebuilt[i] \in {"none", "claim", "send"}
  <2>1. rebuilt \in Seq(BlockTxs)
    BY <1>1 DEF FollowerShape, Chains
  <2>2. i \in 1..Len(rebuilt)
    BY <2>1, LenProperties
  <2> QED BY <2>1, <2>2, ElementOfSeq DEF BlockTxs
<1>3. db.messagesFrom \in 0..(MaxL1 + 1) /\ db.sides \subseteq SideSet
  BY <1>1 DEF Dbs
<1>4. \A s \in db.sides : s.table \in {"deposits", "withdrawals"} /\ s.chain \in {"l1", "l2"}
  BY <1>3 DEF SideSet
<1>5. step \in {"down", "poll"} => db = committed
  BY <1>1 DEF FollowerShape
<1>6. fromBlock \in 0..MaxL1
  BY <1>1 DEF FollowerShape, L1Places
<1> QED BY <1>1, <1>2, <1>3, <1>4, <1>5, <1>6 DEF FollowerShape, FollowerTypes, FollowerTypeOK

LEMMA FollowerTypesInit == ASSUME FollowerInit PROVE FollowerTypes
BY FollowerAssumption DEF FollowerInit, FollowerTypes

LEMMA FollowerTypesStep == ASSUME FollowerTypes, FollowerNext PROVE FollowerTypes'
<1>1. MaxStops \in Nat
  BY FollowerAssumption
<1>2. stops' = stops \/ (stops < MaxStops /\ stops' = stops + 1)
  BY DEF FollowerNext, Mine, LoseBlocks, StartFollower, Poll, KnownLog, NewLog, IndexMessages, FollowerCrash
<1> QED BY <1>1, <1>2 DEF FollowerTypes

LEMMA FollowerTypesStutter == ASSUME FollowerTypes, UNCHANGED followerVars PROVE FollowerTypes'
BY DEF FollowerTypes, followerVars

\* So has the claims'.
ClaimsTypes == Len(l1Blocks) <= MaxL1Blocks /\ rollbacks \in 0..MaxRollbacks /\ runs \in 0..MaxRuns

LEMMA ClaimsTyped == ASSUME ClaimsInv, ClaimsTypes PROVE ClaimsTypeOK
<1>1. /\ l1Blocks \in Seq(L1Msgs) /\ fixed \in Nat /\ fixed <= Len(l1Blocks) /\ l2Blocks \in Seq(L2Blks)
      /\ file \in ClaimFiles /\ run \in ClaimRuns /\ run.covered <= Len(run.leaves)
  BY DEF ClaimsInv, ClaimsShape
<1>2. Len(l1Blocks) \in Nat /\ MaxL1Blocks \in Nat
  BY <1>1, LenProperties, ClaimsAssumption
<1>3. ASSUME NEW i \in DOMAIN l2Blocks PROVE l2Blocks[i].anchor \in 0..Len(l1Blocks)
  <2>1. i \in 1..Len(l2Blocks)
    BY <1>1, LenProperties
  <2>2. l2Blocks[i] \in L2Blks
    BY <1>1, <2>1, ElementOfSeq
  <2>3. l2Blocks[i].anchor \in Nat /\ l2Blocks[i].anchor <= Len(l1Blocks)
    BY <2>1, <2>2 DEF ClaimsInv, ChainsInv, AnchorsRise, L2Blks
  <2> QED BY <1>2, <2>3
<1>4. file.through \in 0..MaxL1Blocks /\ file.messages \in Seq(Claimers)
  <2>1. file.through \in Nat /\ file.messages \in Seq(Claimers)
    BY <1>1 DEF ClaimFiles
  <2>2. file.through <= fixed /\ Len(l1Blocks) <= MaxL1Blocks
    BY DEF ClaimsInv, FileLasts, Lasts, ClaimsTypes
  <2> QED BY <1>1, <1>2, <2>1, <2>2
<1>5. /\ run.at \in {"idle", "bits", "root", "send", "save"} /\ run.proved \subseteq Claimers
      /\ run.covered \in 0..Len(run.leaves)
  <2>1. run.covered \in Nat /\ run.leaves \in Seq(Claimers)
    BY <1>1 DEF ClaimRuns
  <2>2. Len(run.leaves) \in Nat
    BY <2>1, LenProperties
  <2> QED BY <1>1, <2>1, <2>2 DEF ClaimRuns
<1>6. fixed \in 0..Len(l1Blocks)
  BY <1>1, <1>2
<1> QED BY <1>1, <1>3, <1>4, <1>5, <1>6 DEF ClaimsTypes, ClaimsTypeOK, L1Msgs

LEMMA ClaimsTypesInit == ASSUME ClaimsInit PROVE ClaimsTypes
<1>1. Len(<<>>) = 0 /\ MaxL1Blocks \in Nat /\ MaxRollbacks \in Nat /\ MaxRuns \in Nat
  BY ClaimsAssumption
<1> QED BY <1>1 DEF ClaimsInit, ClaimsTypes

LEMMA ClaimsTypesStep == ASSUME ClaimsInv, ClaimsTypes, ClaimsNext PROVE ClaimsTypes'
<1>1. /\ l1Blocks \in Seq(L1Msgs) /\ Len(l1Blocks) \in Nat /\ Len(l1Blocks) <= MaxL1Blocks
      /\ fixed \in Nat /\ fixed <= Len(l1Blocks) /\ MaxL1Blocks \in Nat /\ MaxRollbacks \in Nat /\ MaxRuns \in Nat
  BY LenProperties, ClaimsAssumption DEF ClaimsInv, ClaimsShape, ClaimsTypes
<1>2. CASE NewL1Block
  <2>1. PICK m \in L1Msgs : l1Blocks' = Append(l1Blocks, m)
    BY <1>2 DEF NewL1Block, L1Msgs
  <2>2. Len(l1Blocks') = Len(l1Blocks) + 1 /\ Len(l1Blocks) < MaxL1Blocks
    BY <1>1, <1>2, <2>1, AppendProperties DEF NewL1Block
  <2>3. Len(l1Blocks') <= MaxL1Blocks
    BY <1>1, <2>2
  <2> QED BY <1>2, <2>3 DEF NewL1Block, ClaimsTypes
<1>3. CASE RollBack
  <2>1. PICK lost \in 0..(Len(l1Blocks) - fixed) : l1Blocks' = SubSeq(l1Blocks, 1, Len(l1Blocks) - lost)
    BY <1>3 DEF RollBack
  <2>2. Len(l1Blocks) - lost \in Nat /\ Len(l1Blocks) - lost <= Len(l1Blocks)
    BY <1>1
  <2>3. Len(l1Blocks') = Len(l1Blocks) - lost
    BY <1>1, <2>1, <2>2, FirstOf
  <2>4. Len(l1Blocks') <= MaxL1Blocks
    BY <1>1, <2>2, <2>3
  <2>5. rollbacks' \in 0..MaxRollbacks
    BY <1>1, <1>3 DEF RollBack, ClaimsTypes
  <2> QED BY <1>3, <2>4, <2>5 DEF RollBack, ClaimsTypes
<1>4. CASE StartRun
  BY <1>1, <1>4 DEF StartRun, ClaimsTypes
<1>5. CASE NewL2Block \/ ReadBits \/ ReadRoot \/ SendClaim \/ RunError \/ Save
  BY <1>5 DEF NewL2Block, ReadBits, ReadRoot, SendClaim, RunError, Save, ClaimsTypes
<1> QED BY <1>2, <1>3, <1>4, <1>5 DEF ClaimsNext

LEMMA ClaimsTypesStutter == ASSUME ClaimsTypes, UNCHANGED claimsVars PROVE ClaimsTypes'
BY DEF ClaimsTypes, claimsVars
=============================================================================
