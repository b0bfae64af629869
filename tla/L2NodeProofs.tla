---------------------------- MODULE L2NodeProofs ----------------------------
(***************************************************************************)
(* What the node keeps, for every value of the constants.  The invariant   *)
(* names the chain that the state file stands for and how much of it is    *)
(* posted: each list of the file is a stretch of that chain, and the       *)
(* node's memory, when it runs, is the same chain.                         *)
(***************************************************************************)
EXTENDS L2Node, InductionLemmas, NaturalsInduction, SequenceTheorems

\* The chain `g` is the beginning of the chain `h`.
Before(g, h) == Len(g) <= Len(h) /\ g = AtNumber(h, Len(g))

\* The blocks of the chain `p` above the number `low` up to `high`.
Blocks(p, low, high) == [i \in 1..(high - low) |-> AtNumber(p, low + i)]

\* The number of the oldest snapshot: the stored blocks start after it.
Oldest(d) == IF d.snapshots = <<>> THEN 0 ELSE d.snapshots[1]

\* At most two snapshots are listed, the older first, none above `n`.
SnapshotsIn(d, n) ==
    /\ Len(d.snapshots) <= 2
    /\ \A i \in 1..Len(d.snapshots) : d.snapshots[i] \in 1..n
    /\ \A i, j \in 1..Len(d.snapshots) : i < j => d.snapshots[i] < d.snapshots[j]

\* Each snapshot's file holds the state of its head, and one that is listed, if
\* its file is there, is of the chain `p`.
FilesIn(d, p) ==
    /\ \A f \in d.files : f.state = f.head
    /\ \A f, g \in d.files : Number(f.head) = Number(g.head) => f = g
    /\ \A f \in d.files, i \in 1..Len(d.snapshots) :
          Number(f.head) = d.snapshots[i] => f.head = AtNumber(p, d.snapshots[i])

\* The state file is that of a node whose chain is `p`, posted up to `n`.
DiskIs(d, p, n) ==
    /\ d \in Disk
    /\ SnapshotsIn(d, n)
    /\ FilesIn(d, p)
    /\ d.blocks = Blocks(p, Oldest(d), n)
    /\ d.preconfirmed = Blocks(p, n, Len(p))

\* The running node's memory is of the chain `p`, posted up to `n`.
MemoryIs(m, p, n) ==
    m \in Memory /\ m.chain = p /\ m.posted = n /\ m.postedState = AtNumber(p, n)

\* The file and the memory agree on the chain, whose posted part L1 had; unless
\* L1 lost or refused blocks, whatever was promised, sent or on L1 begins it.
NodeIs(p, n) ==
    /\ DiskIs(disk, p, n)
    /\ Running => MemoryIs(node, p, n) /\ Loads(disk)
    /\ AtNumber(p, n) \in had
    /\ losses = 0 /\ expired = 0 => \A h \in given \cup posts \cup had : Before(h, p)

\* The heads that the rollup contract had are the chains that lead to them.
L1Inv ==
    /\ had \subseteq Hash
    /\ rollup \in had
    /\ \A h \in had : \A k \in 0..Len(h) : AtNumber(h, k) \in had
    /\ read # NoHead => read \in had
    /\ losses = 0 => \A h \in had : Before(h, rollup)

\* What the environment may still do is bounded.
CountersOK == /\ built \in 0..MaxBuilt
              /\ expired \in 0..MaxExpired
              /\ losses \in 0..MaxLosses
              /\ crashes \in 0..MaxCrashes

\* There is a chain of which the file and the memory are stretches.
NodeInv == /\ CountersOK
           /\ posts \cup given \subseteq Hash
           /\ L1Inv
           /\ \E p \in Hash : \E n \in 0..Len(p) : NodeIs(p, n)
-----------------------------------------------------------------------------
(* Chains and their parts.                                                 *)

\* What the part of a chain up to a block holds.
LEMMA AtNumberIs ==
    ASSUME NEW p \in Hash, NEW k \in 0..Len(p)
    PROVE  /\ AtNumber(p, k) \in Hash
           /\ Len(AtNumber(p, k)) = k
           /\ \A i \in 1..k : AtNumber(p, k)[i] = p[i]
<1>1. Len(p) \in Nat /\ \A i \in 1..Len(p) : p[i] \in 1..MaxBuilt
  BY LenProperties DEF Hash
<1>2. \A i \in 1..k : p[i] \in 1..MaxBuilt
  BY <1>1
<1>3. /\ SubSeq(p, 1, k) \in Seq(1..MaxBuilt)
      /\ Len(SubSeq(p, 1, k)) = IF 1 <= k THEN k - 1 + 1 ELSE 0
      /\ \A i \in 1..(k - 1 + 1) : SubSeq(p, 1, k)[i] = p[1 + i - 1]
  BY <1>1, <1>2, SubSeqProperties
<1> QED BY <1>1, <1>3 DEF AtNumber, Hash

\* Chains are equal if they have the same blocks.
LEMMA HashEqual ==
    ASSUME NEW g \in Hash, NEW h \in Hash, Len(g) = Len(h), \A i \in 1..Len(g) : g[i] = h[i]
    PROVE  g = h
BY SeqEqual DEF Hash

\* The number of a block is a natural.
LEMMA LenHash == ASSUME NEW p \in Hash PROVE Len(p) \in Nat
BY LenProperties DEF Hash

\* A part of a part is the part.
LEMMA PartOfPart ==
    ASSUME NEW p \in Hash, NEW k \in 0..Len(p), NEW j \in 0..k
    PROVE  AtNumber(AtNumber(p, k), j) = AtNumber(p, j)
<1> DEFINE q == AtNumber(p, k)
<1>0. Len(p) \in Nat
  BY LenHash
<1>1. q \in Hash /\ Len(q) = k /\ \A i \in 1..k : q[i] = p[i]
  BY AtNumberIs
<1> HIDE DEF q
<1>2. j \in 0..Len(q) /\ j \in 0..Len(p)
  BY <1>0, <1>1
<1>3. AtNumber(q, j) \in Hash /\ Len(AtNumber(q, j)) = j /\ \A i \in 1..j : AtNumber(q, j)[i] = q[i]
  BY <1>1, <1>2, AtNumberIs
<1>4. AtNumber(p, j) \in Hash /\ Len(AtNumber(p, j)) = j /\ \A i \in 1..j : AtNumber(p, j)[i] = p[i]
  BY <1>2, AtNumberIs
<1>5. \A i \in 1..j : AtNumber(q, j)[i] = AtNumber(p, j)[i]
  BY <1>0, <1>1, <1>3, <1>4
<1>6. AtNumber(q, j) = AtNumber(p, j)
  BY <1>3, <1>4, <1>5, HashEqual
<1> QED BY <1>6 DEF q

\* The whole and the empty part.
LEMMA PartEnds ==
    ASSUME NEW p \in Hash
    PROVE  AtNumber(p, Len(p)) = p /\ AtNumber(p, 0) = Genesis /\ Genesis \in Hash /\ Len(Genesis) = 0
<1>1. SubSeq(p, 1, Len(p)) = p
  BY SubSeqFull DEF Hash
<1>2. SubSeq(p, 1, 0) = <<>>
  BY SubSeqEmpty
<1>3. <<>> \in Seq(1..MaxBuilt) /\ Len(<<>>) = 0
  BY EmptySeq
<1> QED BY <1>1, <1>2, <1>3 DEF AtNumber, Genesis, Hash

\* A part of a chain is the beginning of it.
LEMMA PartBefore ==
    ASSUME NEW p \in Hash, NEW k \in 0..Len(p)
    PROVE  Before(AtNumber(p, k), p)
BY AtNumberIs, LenHash DEF Before

\* The order of chains that the code tests.
LEMMA PrefixIsBefore ==
    ASSUME NEW g \in Hash, NEW h \in Hash
    PROVE  IsPrefix(g, h) <=> Before(g, h)
<1>1. SubSeq(g, 1, Len(g)) = g
  BY SubSeqFull DEF Hash
<1> QED BY <1>1 DEF Before, AtNumber, IsPrefix

\* The beginning of a beginning of a chain is a beginning of it.
LEMMA BeforeTransitive ==
    ASSUME NEW f \in Hash, NEW g \in Hash, NEW h \in Hash, Before(f, g), Before(g, h)
    PROVE  Before(f, h)
<1>1. Len(f) \in Nat /\ Len(g) \in Nat /\ Len(h) \in Nat
  BY LenHash
<1>2. Len(f) <= Len(g) /\ Len(g) <= Len(h) /\ f = AtNumber(g, Len(f)) /\ g = AtNumber(h, Len(g))
  BY DEF Before
<1>3. AtNumber(AtNumber(h, Len(g)), Len(f)) = AtNumber(h, Len(f))
  <2>1. Len(g) \in 0..Len(h) /\ Len(f) \in 0..Len(g)
    BY <1>1, <1>2
  <2> QED BY <2>1, PartOfPart
<1>4. f = AtNumber(h, Len(f))
  BY <1>2, <1>3, Zenon
<1> QED BY <1>1, <1>2, <1>4 DEF Before

\* Two beginnings of a chain are in order.
LEMMA BeforeTotal ==
    ASSUME NEW f \in Hash, NEW g \in Hash, NEW h \in Hash, Before(f, h), Before(g, h), Len(f) <= Len(g)
    PROVE  Before(f, g)
<1>1. Len(f) \in Nat /\ Len(g) \in Nat /\ Len(h) \in Nat
  BY LenHash
<1>2. Len(g) <= Len(h) /\ f = AtNumber(h, Len(f)) /\ g = AtNumber(h, Len(g))
  BY DEF Before
<1>3. AtNumber(AtNumber(h, Len(g)), Len(f)) = AtNumber(h, Len(f))
  <2>1. Len(g) \in 0..Len(h) /\ Len(f) \in 0..Len(g)
    BY <1>1, <1>2
  <2> QED BY <2>1, PartOfPart
<1>4. f = AtNumber(g, Len(f))
  BY <1>2, <1>3, Zenon
<1> QED BY <1>4 DEF Before

\* Any chain is the beginning of one that extends it.
LEMMA ChainAppend ==
    ASSUME NEW p \in Hash, NEW b \in 1..MaxBuilt
    PROVE  /\ Append(p, b) \in Hash
           /\ Len(Append(p, b)) = Len(p) + 1
           /\ Append(p, b)[Len(p) + 1] = b
           /\ \A k \in 0..Len(p) : AtNumber(Append(p, b), k) = AtNumber(p, k)
           /\ Before(p, Append(p, b))
<1> DEFINE q == Append(p, b)
<1>0. Len(p) \in Nat
  BY LenHash
<1>1. /\ q \in Hash /\ Len(q) = Len(p) + 1 /\ \A i \in 1..Len(p) : q[i] = p[i]
      /\ q[Len(p) + 1] = b
  BY AppendProperties DEF Hash
<1> HIDE DEF q
<1>2. ASSUME NEW k \in 0..Len(p) PROVE AtNumber(q, k) = AtNumber(p, k)
  <2>1. k \in 0..Len(q)
    BY <1>0, <1>1
  <2>2. AtNumber(q, k) \in Hash /\ Len(AtNumber(q, k)) = k /\ \A i \in 1..k : AtNumber(q, k)[i] = q[i]
    BY <1>1, <2>1, AtNumberIs
  <2>3. AtNumber(p, k) \in Hash /\ Len(AtNumber(p, k)) = k /\ \A i \in 1..k : AtNumber(p, k)[i] = p[i]
    BY AtNumberIs
  <2>4. \A i \in 1..k : AtNumber(q, k)[i] = AtNumber(p, k)[i]
    BY <1>0, <1>1, <2>2, <2>3
  <2> QED BY <2>2, <2>3, <2>4, HashEqual
<1>3. Before(p, q)
  BY <1>0, <1>1, <1>2, PartEnds DEF Before
<1> QED BY <1>1, <1>2, <1>3 DEF q

\* Executing a block on the part of the chain before it.
LEMMA NextPart ==
    ASSUME NEW p \in Hash, NEW k \in 0..(Len(p) - 1)
    PROVE  Append(AtNumber(p, k), Last(AtNumber(p, k + 1))) = AtNumber(p, k + 1)
<1>0. Len(p) \in Nat /\ k \in 0..Len(p) /\ k + 1 \in 0..Len(p) /\ k \in Nat
  BY LenHash
<1> DEFINE q == AtNumber(p, k)
           r == AtNumber(p, k + 1)
<1>1. q \in Hash /\ Len(q) = k /\ \A i \in 1..k : q[i] = p[i]
  BY <1>0, AtNumberIs
<1>2. r \in Hash /\ Len(r) = k + 1 /\ \A i \in 1..(k + 1) : r[i] = p[i]
  BY <1>0, AtNumberIs
<1> HIDE DEF q, r
<1>3. Last(r) = r[k + 1] /\ r[k + 1] \in 1..MaxBuilt
  <2>1. k + 1 \in 1..Len(r)
    BY <1>0, <1>2
  <2> QED BY <1>2, <2>1, ElementOfSeq DEF Last, Hash
<1>4. /\ Append(q, Last(r)) \in Hash /\ Len(Append(q, Last(r))) = k + 1
      /\ \A i \in 1..k : Append(q, Last(r))[i] = q[i]
      /\ Append(q, Last(r))[k + 1] = r[k + 1]
  <2>1. Last(r) \in 1..MaxBuilt
    BY <1>3
  <2>2. q \in Seq(1..MaxBuilt)
    BY <1>1 DEF Hash
  <2> HIDE DEF Last
  <2> QED BY <1>1, <1>3, <2>1, <2>2, AppendProperties DEF Hash
<1>5. \A i \in 1..(k + 1) : Append(q, Last(r))[i] = r[i]
  BY <1>0, <1>1, <1>2, <1>4
<1>6. Append(q, Last(r)) = r
  BY <1>2, <1>4, <1>5, HashEqual
<1> QED BY <1>6 DEF q, r
-----------------------------------------------------------------------------
(* The lists of the state file.                                            *)

\* What a stretch of a chain holds.
LEMMA BlocksAre ==
    ASSUME NEW p \in Hash, NEW high \in 0..Len(p), NEW low \in 0..high
    PROVE  /\ Blocks(p, low, high) \in Seq(Hash)
           /\ Len(Blocks(p, low, high)) = high - low
           /\ DOMAIN Blocks(p, low, high) = 1..(high - low)
           /\ \A i \in 1..(high - low) : /\ Blocks(p, low, high)[i] = AtNumber(p, low + i)
                                         /\ Number(Blocks(p, low, high)[i]) = low + i
<1>0. Len(p) \in Nat /\ high \in Nat /\ low \in Nat /\ high - low \in Nat
  BY LenHash
<1>1. \A i \in 1..(high - low) : AtNumber(p, low + i) \in Hash /\ Len(AtNumber(p, low + i)) = low + i
  <2>1. \A i \in 1..(high - low) : low + i \in 0..Len(p)
    BY <1>0
  <2> QED BY <2>1, AtNumberIs
<1>2. Blocks(p, low, high) \in [1..(high - low) -> Hash]
  BY <1>1 DEF Blocks
<1>3. Blocks(p, low, high) \in Seq(Hash)
  BY <1>0, <1>2, SeqDef
<1>4. Len(Blocks(p, low, high)) = high - low
  BY <1>0, <1>2, <1>3, LenProperties
<1> QED BY <1>1, <1>2, <1>3, <1>4 DEF Blocks, Number

\* Lists of blocks are equal if they have the same blocks.
LEMMA BlocksEqual ==
    ASSUME NEW s \in Seq(Hash), NEW p \in Hash, NEW high \in 0..Len(p), NEW low \in 0..high,
           Len(s) = high - low, \A i \in 1..(high - low) : s[i] = AtNumber(p, low + i)
    PROVE  s = Blocks(p, low, high)
<1>1. Blocks(p, low, high) \in Seq(Hash) /\ Len(Blocks(p, low, high)) = high - low
  BY BlocksAre
<1>2. \A i \in 1..Len(s) : s[i] = Blocks(p, low, high)[i]
  BY BlocksAre
<1> QED BY <1>1, <1>2, SeqEqual

\* A block more at the end, and one less at the start.
LEMMA BlocksAppend ==
    ASSUME NEW p \in Hash, NEW high \in 0..(Len(p) - 1), NEW low \in 0..high
    PROVE  Append(Blocks(p, low, high), AtNumber(p, high + 1)) = Blocks(p, low, high + 1)
<1>0. Len(p) \in Nat /\ high \in 0..Len(p) /\ high + 1 \in 0..Len(p) /\ low \in 0..(high + 1) /\ low \in Nat
  BY LenHash
<1> DEFINE s == Blocks(p, low, high)
           a == AtNumber(p, high + 1)
<1>1. /\ s \in Seq(Hash) /\ Len(s) = high - low
      /\ \A i \in 1..(high - low) : s[i] = AtNumber(p, low + i)
  BY <1>0, BlocksAre
<1>2. a \in Hash
  BY <1>0, AtNumberIs
<1>3. low + (high - low + 1) = high + 1
  BY <1>0
<1>4. AtNumber(p, low + (high - low + 1)) = a
  BY <1>3
<1> HIDE DEF s, a
<1>5. /\ Append(s, a) \in Seq(Hash) /\ Len(Append(s, a)) = Len(s) + 1
      /\ \A i \in 1..Len(s) : Append(s, a)[i] = s[i]
      /\ Append(s, a)[Len(s) + 1] = a
  BY <1>1, <1>2, AppendProperties
<1>6. Len(Append(s, a)) = (high + 1) - low
  BY <1>0, <1>1, <1>5
<1>7. ASSUME NEW i \in 1..((high + 1) - low) PROVE Append(s, a)[i] = AtNumber(p, low + i)
  <2>1. CASE i \in 1..(high - low)
    BY <1>1, <1>5, <2>1
  <2>2. CASE i = high - low + 1
    BY <1>1, <1>4, <1>5, <2>2
  <2>3. i \in 1..(high - low) \/ i = high - low + 1
    BY <1>0
  <2> QED BY <2>1, <2>2, <2>3
<1>8. Append(s, a) = Blocks(p, low, high + 1)
  BY <1>0, <1>5, <1>6, <1>7, BlocksEqual
<1> QED BY <1>8 DEF s, a

\* A stretch is its first block and the rest (`mark_posted` takes the oldest
\* preconfirmed block off the list).
LEMMA BlocksHeadTail ==
    ASSUME NEW p \in Hash, NEW high \in 0..Len(p), NEW low \in 0..(high - 1)
    PROVE  /\ Blocks(p, low, high) # <<>>
           /\ Head(Blocks(p, low, high)) = AtNumber(p, low + 1)
           /\ Tail(Blocks(p, low, high)) = Blocks(p, low + 1, high)
<1>0. Len(p) \in Nat /\ low \in 0..high /\ low + 1 \in 0..high /\ high \in Nat
  BY LenHash
<1> DEFINE s == Blocks(p, low, high)
<1>1. /\ s \in Seq(Hash) /\ Len(s) = high - low
      /\ \A i \in 1..(high - low) : s[i] = AtNumber(p, low + i)
  BY <1>0, BlocksAre
<1> HIDE DEF s
<1>2. s # <<>>
  <2>1. Len(s) > 0
    BY <1>0, <1>1
  <2>2. Len(<<>>) = 0
    OBVIOUS
  <2> QED BY <2>1, <2>2
<1>3. Head(s) = s[1]
  BY <1>1, <1>2
<1>4. /\ Tail(s) \in Seq(Hash) /\ Len(Tail(s)) = Len(s) - 1
      /\ \A i \in 1..Len(Tail(s)) : Tail(s)[i] = s[i + 1]
  BY <1>1, <1>2, HeadTailProperties
<1>5. Len(Tail(s)) = high - (low + 1)
  BY <1>0, <1>1, <1>4
<1>6. \A i \in 1..(high - (low + 1)) : Tail(s)[i] = AtNumber(p, (low + 1) + i)
  <2> SUFFICES ASSUME NEW i \in 1..(high - (low + 1)) PROVE Tail(s)[i] = AtNumber(p, (low + 1) + i)
    OBVIOUS
  <2>1. i + 1 \in 1..(high - low) /\ low + (i + 1) = (low + 1) + i
    BY <1>0
  <2>2. Tail(s)[i] = s[i + 1]
    BY <1>4, <1>5
  <2>3. s[i + 1] = AtNumber(p, low + (i + 1))
    BY <1>1, <2>1
  <2> QED BY <2>1, <2>2, <2>3
<1>7. Tail(s) = Blocks(p, low + 1, high)
  BY <1>0, <1>4, <1>5, <1>6, BlocksEqual
<1>8. s[1] = AtNumber(p, low + 1)
  BY <1>0, <1>1
<1> QED BY <1>2, <1>3, <1>7, <1>8 DEF s

\* The stretch from a block to itself is empty.
LEMMA BlocksEmpty ==
    ASSUME NEW p \in Hash, NEW k \in 0..Len(p)
    PROVE  Blocks(p, k, k) = <<>>
<1>1. k - k = 0 /\ k \in 0..k
  BY LenHash
<1>2. Blocks(p, k, k) \in Seq(Hash) /\ Len(Blocks(p, k, k)) = 0
  BY <1>1, BlocksAre
<1> QED BY <1>2, EmptySeq

\* Chains that are the same up to a block have the same stretches up to it.
LEMMA BlocksSame ==
    ASSUME NEW p \in Hash, NEW q \in Hash, NEW high \in 0..Len(p), NEW low \in 0..high,
           \A k \in 0..high : AtNumber(q, k) = AtNumber(p, k)
    PROVE  Blocks(q, low, high) = Blocks(p, low, high)
<1>1. \A i \in 1..(high - low) : low + i \in 0..high
  BY LenHash
<1> QED BY <1>1 DEF Blocks

\* Adjacent stretches.
LEMMA BlocksConcat ==
    ASSUME NEW p \in Hash, NEW high \in 0..Len(p), NEW mid \in 0..high, NEW low \in 0..mid
    PROVE  Blocks(p, low, mid) \o Blocks(p, mid, high) = Blocks(p, low, high)
<1>0. Len(p) \in Nat /\ mid \in 0..Len(p) /\ low \in 0..high /\ low \in Nat /\ mid \in Nat /\ high \in Nat
  BY LenHash
<1> DEFINE s == Blocks(p, low, mid)
           t == Blocks(p, mid, high)
<1>1. /\ s \in Seq(Hash) /\ Len(s) = mid - low
      /\ \A i \in 1..(mid - low) : s[i] = AtNumber(p, low + i)
  BY <1>0, BlocksAre
<1>2. /\ t \in Seq(Hash) /\ Len(t) = high - mid
      /\ \A i \in 1..(high - mid) : t[i] = AtNumber(p, mid + i)
  BY <1>0, BlocksAre
<1> HIDE DEF s, t
<1>3. /\ s \o t \in Seq(Hash) /\ Len(s \o t) = Len(s) + Len(t)
      /\ \A i \in 1..(Len(s) + Len(t)) : (s \o t)[i] = IF i <= Len(s) THEN s[i] ELSE t[i - Len(s)]
  BY <1>1, <1>2, ConcatProperties
<1>4. Len(s \o t) = high - low
  BY <1>0, <1>1, <1>2, <1>3
<1>5. ASSUME NEW i \in 1..(high - low) PROVE (s \o t)[i] = AtNumber(p, low + i)
  <2>1. CASE i <= mid - low
    BY <1>0, <1>1, <1>2, <1>3, <2>1
  <2>2. CASE ~ (i <= mid - low)
    <3>1. i - (mid - low) \in 1..(high - mid) /\ mid + (i - (mid - low)) = low + i
      BY <1>0, <2>2
    <3>2. (s \o t)[i] = t[i - (mid - low)]
      BY <1>0, <1>1, <1>2, <1>3, <2>2
    <3>3. t[i - (mid - low)] = AtNumber(p, mid + (i - (mid - low)))
      BY <1>2, <3>1
    <3> QED BY <3>1, <3>2, <3>3
  <2> QED BY <2>1, <2>2
<1>6. s \o t = Blocks(p, low, high)
  BY <1>0, <1>3, <1>4, <1>5, BlocksEqual
<1> QED BY <1>6 DEF s, t

\* Replaying a stretch on the chain before it.
LEMMA ReplayBlocks ==
    ASSUME NEW p \in Hash, NEW high \in 0..Len(p), NEW low \in 0..high
    PROVE  Replay(AtNumber(p, low), Blocks(p, low, high)) = AtNumber(p, high)
<1>0. Len(p) \in Nat /\ low \in 0..Len(p) /\ low \in Nat /\ high \in Nat
  BY LenHash
<1> DEFINE s == Blocks(p, low, high)
           h == AtNumber(p, low)
           r == [i \in DOMAIN s |-> Last(s[i])]
<1>1. DOMAIN s = 1..(high - low) /\ \A i \in 1..(high - low) : s[i] = AtNumber(p, low + i)
  BY <1>0, BlocksAre
<1>2. h \in Hash /\ Len(h) = low /\ \A i \in 1..low : h[i] = p[i]
  BY <1>0, AtNumberIs
<1>3. \A i \in 1..(high - low) : Last(AtNumber(p, low + i)) = p[low + i] /\ p[low + i] \in 1..MaxBuilt
  <2> SUFFICES ASSUME NEW i \in 1..(high - low)
               PROVE  Last(AtNumber(p, low + i)) = p[low + i] /\ p[low + i] \in 1..MaxBuilt
    OBVIOUS
  <2>1. low + i \in 0..Len(p) /\ low + i \in 1..Len(p) /\ low + i \in 1..(low + i)
    BY <1>0
  <2>2. Len(AtNumber(p, low + i)) = low + i /\ AtNumber(p, low + i)[low + i] = p[low + i]
    BY <2>1, AtNumberIs
  <2>3. p[low + i] \in 1..MaxBuilt
    BY <2>1, ElementOfSeq DEF Hash
  <2> QED BY <2>2, <2>3 DEF Last
<1> HIDE DEF s
<1>4. r \in [1..(high - low) -> 1..MaxBuilt] /\ \A i \in 1..(high - low) : r[i] = p[low + i]
  BY <1>1, <1>3
<1>5. r \in Seq(1..MaxBuilt) /\ Len(r) = high - low
  <2>1. high - low \in Nat
    BY <1>0
  <2> HIDE DEF r
  <2>2. r \in Seq(1..MaxBuilt)
    BY <1>4, <2>1, SeqDef
  <2>3. DOMAIN r = 1..(high - low)
    BY <1>4
  <2>4. DOMAIN r = 1..Len(r) /\ Len(r) \in Nat
    BY <2>2, LenProperties
  <2>5. 1..(high - low) = 1..Len(r)
    BY <2>3, <2>4
  <2> QED BY <2>1, <2>2, <2>4, <2>5
<1>6. Replay(h, s) = h \o r
  BY DEF Replay
<1> HIDE DEF r, h
<1>7. /\ h \o r \in Seq(1..MaxBuilt) /\ Len(h \o r) = Len(h) + Len(r)
      /\ \A i \in 1..(Len(h) + Len(r)) : (h \o r)[i] = IF i <= Len(h) THEN h[i] ELSE r[i - Len(h)]
  BY <1>2, <1>5, ConcatProperties DEF Hash
<1>8. AtNumber(p, high) \in Hash /\ Len(AtNumber(p, high)) = high /\ \A i \in 1..high : AtNumber(p, high)[i] = p[i]
  BY AtNumberIs
<1>9. Len(h \o r) = high
  BY <1>0, <1>2, <1>5, <1>7
<1>10. ASSUME NEW i \in 1..high PROVE (h \o r)[i] = p[i]
  <2>1. CASE i <= low
    BY <1>0, <1>2, <1>5, <1>7, <2>1
  <2>2. CASE ~ (i <= low)
    <3>1. i - low \in 1..(high - low) /\ low + (i - low) = i
      BY <1>0, <2>2
    <3>2. (h \o r)[i] = r[i - low]
      BY <1>0, <1>2, <1>5, <1>7, <2>2
    <3>3. r[i - low] = p[low + (i - low)]
      BY <1>4, <3>1
    <3> QED BY <3>1, <3>2, <3>3
  <2> QED BY <2>1, <2>2
<1>11. h \o r = AtNumber(p, high)
  <2>1. h \o r \in Hash
    BY <1>7 DEF Hash
  <2>2. \A i \in 1..Len(h \o r) : (h \o r)[i] = AtNumber(p, high)[i]
    BY <1>8, <1>9, <1>10
  <2> QED BY <1>8, <1>9, <2>1, <2>2, HashEqual
<1> QED BY <1>6, <1>11 DEF s, h
-----------------------------------------------------------------------------
(* The comprehensions over the state file.                                 *)

\* The function behind Kept, named so that the library's theorem about
\* recursive functions on intervals applies to it.
KeptWalk(s, positions) ==
    CHOOSE g : g = [i \in 0..Len(s) |->
                       IF i = 0 THEN <<>>
                       ELSE IF i \in positions THEN Append(g[i - 1], s[i]) ELSE g[i - 1]]

\* `Kept` is the walk that appends each element at a kept position.
LEMMA KeptWalkSteps ==
    ASSUME NEW s, NEW positions, Len(s) \in Nat
    PROVE  /\ Kept(s, positions) = KeptWalk(s, positions)[Len(s)]
           /\ KeptWalk(s, positions)[0] = <<>>
           /\ \A i \in 1..Len(s) :
                 KeptWalk(s, positions)[i] = IF i \in positions
                                             THEN Append(KeptWalk(s, positions)[i - 1], s[i])
                                             ELSE KeptWalk(s, positions)[i - 1]
<1> DEFINE Def(v, i) == IF i \in positions THEN Append(v, s[i]) ELSE v
           g == KeptWalk(s, positions)
           m == Len(s)
<1>1. FiniteNatInductiveDefHypothesis(g, <<>>, Def, 0, m)
  BY DEF FiniteNatInductiveDefHypothesis, KeptWalk
<1>2. FiniteNatInductiveDefConclusion(g, <<>>, Def, 0, m)
  BY <1>1, FiniteNatInductiveDef
<1>3. g = [i \in 0..m |-> IF i = 0 THEN <<>> ELSE Def(g[i - 1], i)]
  BY <1>2 DEF FiniteNatInductiveDefConclusion
<1>4. Kept(s, positions) = g[m]
  BY DEF Kept, KeptWalk
<1>5. m \in Nat
  OBVIOUS
<1> HIDE DEF g, m, Def
<1>6. g[0] = <<>> /\ \A i \in 1..m : g[i] = Def(g[i - 1], i)
  BY <1>3, <1>5
<1> QED BY <1>4, <1>6 DEF g, m, Def

\* The elements of `s` from the place `a + 1` to `b`, as the code keeps them.
Stretch(s, a, b) == Kept(s, (a + 1)..b)

\* Keeping adjacent positions keeps that stretch of the list.
LEMMA KeptStretch ==
    ASSUME NEW S, NEW s \in Seq(S), NEW b \in 0..Len(s), NEW a \in 0..b
    PROVE  /\ Stretch(s, a, b) \in Seq(S)
           /\ Len(Stretch(s, a, b)) = b - a
           /\ \A j \in 1..(b - a) : Stretch(s, a, b)[j] = s[a + j]
<1> DEFINE g == KeptWalk(s, (a + 1)..b)
           Size(i) == IF i <= a THEN 0 ELSE IF i <= b THEN i - a ELSE b - a
           P == {i \in Nat : i <= Len(s) => /\ g[i] \in Seq(S)
                                            /\ Len(g[i]) = Size(i)
                                            /\ \A j \in 1..Size(i) : g[i][j] = s[a + j]}
<1>0. Len(s) \in Nat /\ a \in Nat /\ b \in Nat
  BY LenProperties
<1>1. /\ Kept(s, (a + 1)..b) = g[Len(s)]
      /\ g[0] = <<>>
      /\ \A i \in 1..Len(s) : g[i] = IF i \in (a + 1)..b THEN Append(g[i - 1], s[i]) ELSE g[i - 1]
  BY <1>0, KeptWalkSteps
<1> HIDE DEF g
<1>2. 0 \in P
  <2>1. g[0] \in Seq(S) /\ Len(g[0]) = 0
    BY <1>1, EmptySeq
  <2>2. Size(0) = 0
    BY <1>0
  <2> QED BY <2>1, <2>2
<1>3. ASSUME NEW k \in Nat, k \in P PROVE k + 1 \in P
  <2> SUFFICES ASSUME k + 1 <= Len(s)
               PROVE  /\ g[k + 1] \in Seq(S)
                      /\ Len(g[k + 1]) = Size(k + 1)
                      /\ \A j \in 1..Size(k + 1) : g[k + 1][j] = s[a + j]
    <3> HIDE DEF Size
    <3>1. k + 1 \in Nat
      OBVIOUS
    <3> QED BY <3>1
  <2>1. /\ g[k] \in Seq(S) /\ Len(g[k]) = Size(k)
        /\ \A j \in 1..Size(k) : g[k][j] = s[a + j]
    BY <1>0, <1>3
  <2>2. g[k + 1] = IF k + 1 \in (a + 1)..b THEN Append(g[k], s[k + 1]) ELSE g[k]
    <3>1. k + 1 \in 1..Len(s) /\ (k + 1) - 1 = k
      BY <1>0
    <3> QED BY <1>1, <3>1
  <2>3. CASE k + 1 \in (a + 1)..b
    <3>1. s[k + 1] \in S
      BY <1>0, ElementOfSeq
    <3>2. g[k + 1] = Append(g[k], s[k + 1])
      BY <2>2, <2>3
    <3>3. /\ g[k + 1] \in Seq(S) /\ Len(g[k + 1]) = Len(g[k]) + 1
          /\ \A i \in 1..Len(g[k]) : g[k + 1][i] = g[k][i]
          /\ g[k + 1][Len(g[k]) + 1] = s[k + 1]
      BY <2>1, <3>1, <3>2, AppendProperties
    <3>4. Size(k) = k - a /\ Size(k + 1) = k + 1 - a /\ k - a \in Nat
      BY <1>0, <2>3
    <3> HIDE DEF Size
    <3>5. \A j \in 1..(k + 1 - a) : g[k + 1][j] = s[a + j]
      <4> SUFFICES ASSUME NEW j \in 1..(k + 1 - a) PROVE g[k + 1][j] = s[a + j]
        OBVIOUS
      <4>1. CASE j \in 1..(k - a)
        BY <2>1, <3>3, <3>4, <4>1
      <4>2. CASE j = k - a + 1
        <5>1. a + j = k + 1
          BY <1>0, <4>2
        <5> QED BY <2>1, <3>3, <3>4, <4>2, <5>1
      <4> QED BY <1>0, <3>4, <4>1, <4>2
    <3> QED BY <1>0, <2>1, <3>3, <3>4, <3>5
  <2>4. CASE ~ (k + 1 \in (a + 1)..b)
    <3>1. g[k + 1] = g[k]
      BY <2>2, <2>4
    <3>2. Size(k + 1) = Size(k)
      BY <1>0, <2>4
    <3> HIDE DEF Size
    <3> QED BY <2>1, <3>1, <3>2
  <2> QED BY <2>3, <2>4
<1>4. Len(s) \in P
  <2> HIDE DEF P
  <2>1. Nat \subseteq P
    BY <1>2, <1>3, SetInduction
  <2> QED BY <1>0, <2>1
<1>5. Size(Len(s)) = b - a
  BY <1>0
<1>6. g[Len(s)] \in Seq(S) /\ Len(g[Len(s)]) = b - a /\ \A j \in 1..(b - a) : g[Len(s)][j] = s[a + j]
  <2>1. /\ g[Len(s)] \in Seq(S) /\ Len(g[Len(s)]) = Size(Len(s))
        /\ \A j \in 1..Size(Len(s)) : g[Len(s)][j] = s[a + j]
    BY <1>0, <1>4
  <2> HIDE DEF Size
  <2> QED BY <1>5, <2>1
<1> QED BY <1>1, <1>6 DEF Stretch

\* The stored blocks above a number, and up to it.
LEMMA BlocksAbove ==
    ASSUME NEW p \in Hash, NEW high \in 0..Len(p), NEW n \in 0..high, NEW low \in 0..n
    PROVE  AboveNumber(Blocks(p, low, high), n) = Blocks(p, n, high)
<1>0. Len(p) \in Nat /\ low \in 0..high /\ high \in Nat /\ n \in Nat
  BY LenHash
<1> DEFINE s == Blocks(p, low, high)
<1>1. /\ s \in Seq(Hash) /\ Len(s) = high - low /\ DOMAIN s = 1..(high - low)
      /\ \A i \in 1..(high - low) : s[i] = AtNumber(p, low + i) /\ Number(s[i]) = low + i
  BY <1>0, BlocksAre
<1> HIDE DEF s
<1>2. {i \in DOMAIN s : Number(s[i]) > n} = ((n - low) + 1)..(high - low)
  BY <1>0, <1>1
<1>3. n - low \in 0..(high - low) /\ high - low \in 0..Len(s)
  BY <1>0, <1>1
<1> DEFINE k == Stretch(s, n - low, high - low)
<1>4. /\ k \in Seq(Hash) /\ Len(k) = (high - low) - (n - low)
      /\ \A j \in 1..((high - low) - (n - low)) : k[j] = s[(n - low) + j]
  BY <1>1, <1>3, KeptStretch
<1> HIDE DEF k
<1>5. Len(k) = high - n
  BY <1>0, <1>4
<1>6. ASSUME NEW j \in 1..(high - n) PROVE k[j] = AtNumber(p, n + j)
  <2>1. (n - low) + j \in 1..(high - low) /\ low + ((n - low) + j) = n + j /\ j \in 1..((high - low) - (n - low))
    BY <1>0
  <2>2. k[j] = s[(n - low) + j]
    BY <1>4, <2>1
  <2>3. s[(n - low) + j] = AtNumber(p, low + ((n - low) + j))
    BY <1>1, <2>1
  <2> QED BY <2>1, <2>2, <2>3
<1>7. k = Blocks(p, n, high)
  BY <1>0, <1>4, <1>5, <1>6, BlocksEqual
<1> QED BY <1>2, <1>7 DEF AboveNumber, Stretch, k, s

\* Cutting a stored stretch after a block (`unpost`) leaves the shorter stretch.
LEMMA BlocksUpTo ==
    ASSUME NEW p \in Hash, NEW high \in 0..Len(p), NEW n \in 0..high, NEW low \in 0..n
    PROVE  UpToNumber(Blocks(p, low, high), n) = Blocks(p, low, n)
<1>0. Len(p) \in Nat /\ low \in 0..high /\ high \in Nat /\ n \in Nat /\ n \in 0..Len(p)
  BY LenHash
<1> DEFINE s == Blocks(p, low, high)
<1>1. /\ s \in Seq(Hash) /\ Len(s) = high - low /\ DOMAIN s = 1..(high - low)
      /\ \A i \in 1..(high - low) : s[i] = AtNumber(p, low + i) /\ Number(s[i]) = low + i
  BY <1>0, BlocksAre
<1> HIDE DEF s
<1>2. {i \in DOMAIN s : Number(s[i]) <= n} = (0 + 1)..(n - low)
  BY <1>0, <1>1
<1>3. n - low \in 0..Len(s) /\ 0 \in 0..(n - low)
  BY <1>0, <1>1
<1> DEFINE k == Stretch(s, 0, n - low)
<1>4. /\ k \in Seq(Hash) /\ Len(k) = (n - low) - 0
      /\ \A j \in 1..((n - low) - 0) : k[j] = s[0 + j]
  BY <1>1, <1>3, KeptStretch
<1> HIDE DEF k
<1>5. Len(k) = n - low
  BY <1>0, <1>4
<1>6. ASSUME NEW j \in 1..(n - low) PROVE k[j] = AtNumber(p, low + j)
  <2>1. j \in 1..(high - low) /\ 0 + j = j /\ j \in 1..((n - low) - 0)
    BY <1>0
  <2> QED BY <1>1, <1>4, <2>1
<1>7. k = Blocks(p, low, n)
  BY <1>0, <1>4, <1>5, <1>6, BlocksEqual
<1> QED BY <1>2, <1>7 DEF UpToNumber, Stretch, k, s
-----------------------------------------------------------------------------
(* The state file that stands for a chain.                                 *)

\* The fields of a state file.
LEMMA DiskFields ==
    ASSUME NEW d \in Disk
    PROVE  /\ d.blocks \in Seq(Hash) /\ d.preconfirmed \in Seq(Hash)
           /\ d.snapshots \in Seq(Nat) /\ Len(d.snapshots) \in Nat
           /\ d.snapshots \in [1..Len(d.snapshots) -> Nat]
           /\ d.files \in SUBSET Snapshot
           /\ \A f \in d.files : f.head \in Hash /\ f.state \in Hash /\ Number(f.head) \in Nat
<1>1. /\ d.blocks \in Seq(Hash) /\ d.preconfirmed \in Seq(Hash)
      /\ d.snapshots \in Seq(Nat) /\ d.files \in SUBSET Snapshot
  BY DEF Disk
<1>2. Len(d.snapshots) \in Nat /\ d.snapshots \in [1..Len(d.snapshots) -> Nat]
  BY <1>1, LenProperties
<1>3. \A f \in d.files : f.head \in Hash /\ f.state \in Hash
  BY <1>1 DEF Snapshot
<1>4. \A f \in d.files : Number(f.head) \in Nat
  BY <1>3, LenHash DEF Number
<1> QED BY <1>1, <1>2, <1>3, <1>4

\* Where the stored blocks start, and the snapshots' place in the chain.
LEMMA SnapshotFacts ==
    ASSUME NEW d \in Disk, NEW n \in Nat, SnapshotsIn(d, n)
    PROVE  /\ Oldest(d) \in 0..n
           /\ d.snapshots = <<>> <=> Len(d.snapshots) = 0
           /\ d.snapshots = <<>> => Oldest(d) = 0
           /\ d.snapshots # <<>> => /\ Len(d.snapshots) \in 1..2
                                    /\ Oldest(d) = d.snapshots[1]
                                    /\ Last(d.snapshots) = d.snapshots[Len(d.snapshots)]
                                    /\ Last(d.snapshots) \in Oldest(d)..n
<1>1. d.snapshots \in Seq(Nat) /\ Len(d.snapshots) \in Nat
  BY DiskFields
<1>2. d.snapshots = <<>> <=> Len(d.snapshots) = 0
  BY <1>1, EmptySeq
<1>3. CASE d.snapshots = <<>>
  BY <1>2, <1>3 DEF Oldest
<1>4. CASE d.snapshots # <<>>
  <2>1. Len(d.snapshots) \in 1..2
    <3> DEFINE c == Len(d.snapshots)
    <3>1. c \in Nat /\ c # 0 /\ c <= 2
      BY <1>1, <1>2, <1>4 DEF SnapshotsIn
    <3> HIDE DEF c
    <3>2. c \in 1..2
      BY <3>1
    <3> QED BY <3>2 DEF c
  <2>2. d.snapshots[1] \in 1..n
    BY <2>1 DEF SnapshotsIn
  <2>3. d.snapshots[Len(d.snapshots)] \in d.snapshots[1]..n
    <3>1. CASE Len(d.snapshots) = 1
      BY <2>2, <3>1
    <3>2. CASE Len(d.snapshots) = 2
      <4>1. d.snapshots[2] \in 1..n /\ d.snapshots[1] < d.snapshots[2]
        BY <3>2 DEF SnapshotsIn
      <4> QED BY <2>2, <3>2, <4>1
    <3> QED BY <2>1, <3>1, <3>2
  <2> QED BY <1>2, <1>4, <2>1, <2>2, <2>3 DEF Oldest, Last
<1> QED BY <1>3, <1>4

\* Files may go, and the file stands for the same chain.
LEMMA FewerFiles ==
    ASSUME NEW p, NEW n, NEW d, DiskIs(d, p, n), NEW F \in SUBSET d.files
    PROVE  DiskIs([d EXCEPT !.files = F], p, n)
<1> DEFINE e == [d EXCEPT !.files = F]
<1>1. d \in Disk
  BY DEF DiskIs
<1>2. /\ e.blocks = d.blocks /\ e.preconfirmed = d.preconfirmed /\ e.snapshots = d.snapshots
      /\ e.files = F /\ e \in Disk
  BY <1>1 DEF Disk
<1> HIDE DEF e
<1>3. SnapshotsIn(e, n)
  BY <1>2 DEF DiskIs, SnapshotsIn
<1>4. FilesIn(e, p)
  BY <1>2 DEF DiskIs, FilesIn
<1>5. Oldest(e) = Oldest(d)
  BY <1>2 DEF Oldest
<1>6. DiskIs(e, p, n)
  BY <1>2, <1>3, <1>4, <1>5 DEF DiskIs
<1> QED BY <1>6 DEF e

\* Removing a snapshot's file leaves a file of the same chain.
LEMMA RemovedIs ==
    ASSUME NEW p, NEW n, NEW d, DiskIs(d, p, n), NEW kept
    PROVE  DiskIs(Removed(d, kept), p, n)
<1> DEFINE F == {f \in d.files : Number(f.head) \notin Range(d.snapshots) \ Range(kept)}
<1>1. Removed(d, kept) = [d EXCEPT !.files = F]
  BY DEF Removed
<1>2. F \in SUBSET d.files
  OBVIOUS
<1> QED BY <1>1, <1>2, FewerFiles

\* The files hold snapshots of any chain that is the same up to the block `n`.
LEMMA FilesOfSame ==
    ASSUME NEW p, NEW q, NEW n \in Nat, NEW d \in Disk, SnapshotsIn(d, n), FilesIn(d, p),
           \A k \in 0..n : AtNumber(q, k) = AtNumber(p, k)
    PROVE  FilesIn(d, q)
<1>1. \A i \in 1..Len(d.snapshots) : AtNumber(q, d.snapshots[i]) = AtNumber(p, d.snapshots[i])
  <2>1. \A i \in 1..Len(d.snapshots) : d.snapshots[i] \in 0..n
    BY DEF SnapshotsIn
  <2> QED BY <2>1
<1> QED BY <1>1 DEF FilesIn

\* The posted part stays, and other blocks are preconfirmed after it.
LEMMA OtherPreconfirmed ==
    ASSUME NEW p \in Hash, NEW n \in 0..Len(p), NEW d, DiskIs(d, p, n),
           NEW q \in Hash, n <= Len(q), \A k \in 0..n : AtNumber(q, k) = AtNumber(p, k)
    PROVE  DiskIs([d EXCEPT !.preconfirmed = Blocks(q, n, Len(q))], q, n)
<1> DEFINE c == Blocks(q, n, Len(q))
           e == [d EXCEPT !.preconfirmed = c]
<1>0. n \in Nat /\ Len(p) \in Nat /\ Len(q) \in Nat
  BY LenHash
<1>1. d \in Disk /\ SnapshotsIn(d, n) /\ FilesIn(d, p) /\ d.blocks = Blocks(p, Oldest(d), n)
  BY DEF DiskIs
<1>2. c \in Seq(Hash)
  <2>1. Len(q) \in 0..Len(q) /\ n \in 0..Len(q)
    BY <1>0
  <2> QED BY <2>1, BlocksAre
<1> HIDE DEF c
<1>3. /\ e.blocks = d.blocks /\ e.preconfirmed = c /\ e.snapshots = d.snapshots
      /\ e.files = d.files /\ e \in Disk
  BY <1>1, <1>2 DEF Disk
<1> HIDE DEF e
<1>4. SnapshotsIn(e, n)
  BY <1>1, <1>3 DEF SnapshotsIn
<1>5. FilesIn(e, q)
  <2>1. FilesIn(d, q)
    BY <1>0, <1>1, FilesOfSame
  <2> QED BY <1>3, <2>1 DEF FilesIn
<1>6. Oldest(e) = Oldest(d) /\ Oldest(d) \in 0..n
  BY <1>0, <1>1, <1>3, SnapshotFacts DEF Oldest
<1>7. e.blocks = Blocks(q, Oldest(e), n)
  <2>1. Blocks(q, Oldest(d), n) = Blocks(p, Oldest(d), n)
    BY <1>6, BlocksSame
  <2> QED BY <1>1, <1>3, <1>6, <2>1
<1>8. DiskIs(e, q, n)
  BY <1>3, <1>4, <1>5, <1>7 DEF DiskIs, c
<1> QED BY <1>8 DEF e, c

\* `preconfirm` saves the next block.
LEMMA StoredIs ==
    ASSUME NEW p \in Hash, NEW n \in 0..Len(p), NEW d, DiskIs(d, p, n), NEW b \in 1..MaxBuilt
    PROVE  DiskIs([d EXCEPT !.preconfirmed = Append(@, Append(p, b))], Append(p, b), n)
<1> DEFINE q == Append(p, b)
<1>0. n \in Nat /\ Len(p) \in Nat
  BY LenHash
<1>1. q \in Hash /\ Len(q) = Len(p) + 1 /\ \A k \in 0..Len(p) : AtNumber(q, k) = AtNumber(p, k)
  BY ChainAppend
<1> HIDE DEF q
<1>2. /\ n <= Len(q) /\ \A k \in 0..n : AtNumber(q, k) = AtNumber(p, k)
      /\ n \in 0..Len(q) /\ Len(p) \in 0..(Len(q) - 1) /\ n \in 0..Len(p)
  BY <1>0, <1>1
<1>3. Append(d.preconfirmed, q) = Blocks(q, n, Len(q))
  <2>1. d.preconfirmed = Blocks(p, n, Len(p))
    BY DEF DiskIs
  <2>2. Blocks(p, n, Len(p)) = Blocks(q, n, Len(p))
    <3>1. Len(p) \in 0..Len(p)
      BY <1>0
    <3> QED BY <1>1, <3>1, BlocksSame
  <2>3. Append(Blocks(q, n, Len(p)), AtNumber(q, Len(p) + 1)) = Blocks(q, n, Len(p) + 1)
    BY <1>1, <1>2, BlocksAppend
  <2>4. AtNumber(q, Len(p) + 1) = q
    BY <1>1, PartEnds
  <2> QED BY <1>1, <2>1, <2>2, <2>3, <2>4
<1>4. DiskIs([d EXCEPT !.preconfirmed = Blocks(q, n, Len(q))], q, n)
  BY <1>1, <1>2, OtherPreconfirmed
<1> QED BY <1>3, <1>4 DEF q

\* What waits is dropped.
LEMMA DroppedIs ==
    ASSUME NEW p \in Hash, NEW n \in 0..Len(p), NEW d, DiskIs(d, p, n)
    PROVE  DiskIs([d EXCEPT !.preconfirmed = <<>>], AtNumber(p, n), n)
<1> DEFINE q == AtNumber(p, n)
<1>1. q \in Hash /\ Len(q) = n /\ \A k \in 0..n : AtNumber(q, k) = AtNumber(p, k)
  BY AtNumberIs, PartOfPart
<1>2. Blocks(q, n, Len(q)) = <<>>
  <2>1. n \in 0..Len(q)
    BY <1>1, LenHash
  <2> QED BY <1>1, <2>1, BlocksEmpty
<1> HIDE DEF q
<1>3. DiskIs([d EXCEPT !.preconfirmed = Blocks(q, n, Len(q))], q, n)
  BY <1>1, LenHash, OtherPreconfirmed
<1> QED BY <1>2, <1>3 DEF q

\* A restart reads the chain back, if the file of the last snapshot is there.
LEMMA ReadBack ==
    ASSUME NEW p \in Hash, NEW n \in 0..Len(p), NEW d, DiskIs(d, p, n), Loads(d)
    PROVE  PostedChain(d) = AtNumber(p, n) /\ StoredChain(d) = p
<1>0. n \in Nat /\ Len(p) \in Nat /\ Len(p) \in 0..Len(p)
  BY LenHash
<1>1. /\ d \in Disk /\ SnapshotsIn(d, n) /\ FilesIn(d, p) /\ d.blocks = Blocks(p, Oldest(d), n)
      /\ d.preconfirmed = Blocks(p, n, Len(p))
  BY DEF DiskIs
<1>2. /\ Oldest(d) \in 0..n
      /\ d.snapshots = <<>> => Oldest(d) = 0
      /\ d.snapshots # <<>> => /\ Len(d.snapshots) \in 1..2
                               /\ Last(d.snapshots) = d.snapshots[Len(d.snapshots)]
                               /\ Last(d.snapshots) \in Oldest(d)..n
  BY <1>0, <1>1, SnapshotFacts
<1>3. PostedChain(d) = AtNumber(p, n)
  <2>1. CASE d.snapshots = <<>>
    <3>1. PostedChain(d) = Replay(Genesis, Blocks(p, 0, n))
      BY <1>1, <1>2, <2>1 DEF PostedChain
    <3>2. Genesis = AtNumber(p, 0) /\ 0 \in 0..n
      BY <1>0, PartEnds
    <3>3. Replay(AtNumber(p, 0), Blocks(p, 0, n)) = AtNumber(p, n)
      BY <3>2, ReplayBlocks
    <3> QED BY <3>1, <3>2, <3>3
  <2>2. CASE d.snapshots # <<>>
    <3> DEFINE l == Last(d.snapshots)
               s == File(d, l)
    <3>1. HasFile(d, l)
      BY <2>2 DEF Loads
    <3>2. s \in d.files /\ Number(s.head) = l
      BY <3>1 DEF HasFile, File
    <3>3. Len(d.snapshots) \in 1..Len(d.snapshots)
      BY <1>2, <2>2
    <3>4. s.state = s.head /\ s.head = AtNumber(p, l)
      <4> HIDE DEF s
      <4>1. Number(s.head) = d.snapshots[Len(d.snapshots)]
        BY <1>2, <2>2, <3>2
      <4> QED BY <1>1, <1>2, <2>2, <3>2, <3>3, <4>1 DEF FilesIn
    <3>5. PostedChain(d) = Replay(s.state, AboveNumber(d.blocks, Number(s.head)))
      BY <2>2 DEF PostedChain
    <3> HIDE DEF s
    <3>6. l \in 0..n /\ Oldest(d) \in 0..l
      BY <1>0, <1>2, <2>2
    <3> HIDE DEF l
    <3>7. AboveNumber(Blocks(p, Oldest(d), n), l) = Blocks(p, l, n)
      BY <3>6, BlocksAbove
    <3>8. Replay(AtNumber(p, l), Blocks(p, l, n)) = AtNumber(p, n)
      BY <3>6, ReplayBlocks
    <3> QED BY <1>1, <3>2, <3>4, <3>5, <3>7, <3>8
  <2> QED BY <2>1, <2>2
<1>4. Replay(AtNumber(p, n), Blocks(p, n, Len(p))) = AtNumber(p, Len(p))
  BY <1>0, ReplayBlocks
<1> QED BY <1>1, <1>3, <1>4, PartEnds DEF StoredChain

\* `posted` of `__init__` is the number of the posted chain.
LEMMA PostedNumberIs ==
    ASSUME NEW p \in Hash, NEW n \in 0..Len(p), NEW d, DiskIs(d, p, n)
    PROVE  PostedNumber(d) = n
<1>0. n \in Nat /\ Len(p) \in Nat
  BY LenHash
<1>1. /\ d \in Disk /\ SnapshotsIn(d, n) /\ d.blocks = Blocks(p, Oldest(d), n)
  BY DEF DiskIs
<1>2. /\ Oldest(d) \in 0..n
      /\ d.snapshots = <<>> => Oldest(d) = 0
      /\ d.snapshots # <<>> => Len(d.snapshots) \in 1..2 /\ Oldest(d) = d.snapshots[1]
  BY <1>0, <1>1, SnapshotFacts
<1> DEFINE low == Oldest(d)
           B == {Number(d.blocks[i]) : i \in DOMAIN d.blocks}
           S == Range(d.snapshots)
<1>3. DOMAIN d.blocks = 1..(n - low) /\ \A i \in 1..(n - low) : Number(d.blocks[i]) = low + i
  <2> DEFINE s == Blocks(p, low, n)
  <2>1. DOMAIN s = 1..(n - low) /\ \A i \in 1..(n - low) : Number(s[i]) = low + i
    <3>1. low \in 0..n
      BY <1>2
    <3> HIDE DEF low
    <3> QED BY <3>1, BlocksAre
  <2>2. d.blocks = s
    BY <1>1
  <2> HIDE DEF s, low
  <2> QED BY <2>1, <2>2
<1>4. DOMAIN d.snapshots = 1..Len(d.snapshots) /\ \A i \in 1..Len(d.snapshots) : d.snapshots[i] \in 1..n
  BY <1>1, DiskFields DEF SnapshotsIn
<1> HIDE DEF low
<1>5. low \in 0..n
  BY <1>2 DEF low
<1>6. B \subseteq 0..n /\ (low < n => n \in B)
  <2>1. B \subseteq 0..n
    BY <1>0, <1>3, <1>5
  <2>2. ASSUME low < n PROVE n \in B
    <3>1. n - low \in DOMAIN d.blocks /\ Number(d.blocks[n - low]) = low + (n - low)
      BY <1>0, <1>3, <1>5, <2>2
    <3>2. low + (n - low) = n
      BY <1>0, <1>5
    <3> QED BY <3>1, <3>2
  <2> QED BY <2>1, <2>2
<1>7. S \subseteq 0..n /\ (low = n => n \in {0} \cup S)
  <2>1. S \subseteq 0..n
    BY <1>4 DEF Range
  <2>2. ASSUME low = n, n # 0 PROVE n \in S
    <3>1. d.snapshots # <<>> /\ n = d.snapshots[1] /\ 1 \in DOMAIN d.snapshots
      BY <1>2, <1>4, <2>2 DEF low
    <3> QED BY <3>1 DEF Range
  <2> QED BY <2>1, <2>2
<1> DEFINE T == {0} \cup B \cup S
<1>8. T \subseteq 0..n /\ n \in T
  <2> HIDE DEF B, S
  <2> QED BY <1>0, <1>5, <1>6, <1>7
<1>9. PostedNumber(d) = Max(T)
  BY DEF PostedNumber
<1> HIDE DEF T
<1>10. Max(T) = CHOOSE x \in T : \A y \in T : x >= y
  BY DEF Max
<1>11. \A y \in T : n >= y
  BY <1>8
<1>12. \A x \in T : (\A y \in T : x >= y) => x = n
  BY <1>0, <1>8
<1> QED BY <1>8, <1>9, <1>10, <1>11, <1>12
-----------------------------------------------------------------------------
(* Marking blocks as posted.                                               *)

\* A round starts and ends with a state file and a memory of the same chain.
MarkedIs(t, p, n) ==
    /\ t = [disk |-> t.disk, node |-> t.node]
    /\ DiskIs(t.disk, p, n)
    /\ MemoryIs(t.node, p, n)
    /\ Loads(t.disk)

\* The oldest preconfirmed block becomes a posted one, and the memory agrees.
LEMMA MarkIs ==
    ASSUME NEW p \in Hash, NEW k \in 0..(Len(p) - 1), NEW s, MarkedIs(s, p, k)
    PROVE  /\ MarkedIs(Mark(s), p, k + 1)
           /\ SnapshotsIn(Mark(s).disk, k)
<1> DEFINE d == s.disk
           e == Taken(d)
<1>0. Len(p) \in Nat /\ k \in Nat /\ k \in 0..Len(p) /\ k + 1 \in 0..Len(p) /\ Len(p) \in 0..Len(p)
  BY LenHash
<1>1. /\ d \in Disk /\ SnapshotsIn(d, k) /\ FilesIn(d, p) /\ d.blocks = Blocks(p, Oldest(d), k)
      /\ d.preconfirmed = Blocks(p, k, Len(p)) /\ Loads(d)
      /\ s.node \in Memory /\ s.node.chain = p /\ s.node.posted = k /\ s.node.postedState = AtNumber(p, k)
  BY DEF MarkedIs, DiskIs, MemoryIs
<1>2. Oldest(d) \in 0..k
  BY <1>0, <1>1, SnapshotFacts
<1>3. Head(d.preconfirmed) = AtNumber(p, k + 1) /\ Tail(d.preconfirmed) = Blocks(p, k + 1, Len(p))
  BY <1>0, <1>1, BlocksHeadTail
<1>4. Append(d.blocks, AtNumber(p, k + 1)) = Blocks(p, Oldest(d), k + 1)
  BY <1>0, <1>1, <1>2, BlocksAppend
<1>5. Blocks(p, k + 1, Len(p)) \in Seq(Hash) /\ Blocks(p, Oldest(d), k + 1) \in Seq(Hash)
  <2>1. k + 1 \in 0..Len(p) /\ Oldest(d) \in 0..(k + 1)
    BY <1>0, <1>2
  <2> QED BY <1>0, <2>1, BlocksAre
<1>6. e = [d EXCEPT !.preconfirmed = Blocks(p, k + 1, Len(p)), !.blocks = Blocks(p, Oldest(d), k + 1)]
  BY <1>1, <1>3, <1>4 DEF Taken, Disk
<1>7. Mark(s) = [disk |-> e,
                 node |-> [s.node EXCEPT !.posted = @ + 1,
                                         !.postedState = Append(@, Last(AtNumber(p, k + 1)))]]
  BY <1>3 DEF Mark
<1> HIDE DEF d, e
<1>8. /\ e \in Disk /\ e.snapshots = d.snapshots /\ e.files = d.files
      /\ e.blocks = Blocks(p, Oldest(d), k + 1) /\ e.preconfirmed = Blocks(p, k + 1, Len(p))
  BY <1>1, <1>5, <1>6 DEF Disk
<1>9. Oldest(e) = Oldest(d) /\ FilesIn(e, p) /\ SnapshotsIn(e, k)
  BY <1>1, <1>8 DEF Oldest, FilesIn, SnapshotsIn
<1>10. SnapshotsIn(e, k + 1)
  <2>1. \A i \in 1..k : i \in 1..(k + 1)
    BY <1>0
  <2> QED BY <1>9, <2>1 DEF SnapshotsIn
<1>11. DiskIs(e, p, k + 1)
  BY <1>8, <1>9, <1>10 DEF DiskIs
<1>12. Loads(e)
  BY <1>1, <1>8 DEF Loads, HasFile
<1>13. Append(AtNumber(p, k), Last(AtNumber(p, k + 1))) = AtNumber(p, k + 1)
  BY NextPart
<1>14. MemoryIs(Mark(s).node, p, k + 1)
  <2> DEFINE x == k + 1
             y == AtNumber(p, k + 1)
             m == s.node
  <2>1. Mark(s).node = [m EXCEPT !.posted = x, !.postedState = y]
    <3> DEFINE b == Last(AtNumber(p, k + 1))
    <3>1. Mark(s).node = [m EXCEPT !.posted = @ + 1, !.postedState = Append(@, b)]
      BY <1>7
    <3>2. m \in Memory /\ m.posted + 1 = x /\ Append(m.postedState, b) = y
      BY <1>1, <1>13
    <3> HIDE DEF b, x, y, m
    <3>3. [m EXCEPT !.posted = @ + 1, !.postedState = Append(@, b)]
             = [m EXCEPT !.posted = m.posted + 1, !.postedState = Append(m.postedState, b)]
      BY <3>2 DEF Memory
    <3> QED BY <3>1, <3>2, <3>3, Zenon
  <2>2. x \in Nat /\ y \in Hash /\ m \in Memory /\ m.chain = p
    BY <1>0, <1>1, AtNumberIs
  <2> HIDE DEF x, y, m
  <2>3. [m EXCEPT !.posted = x, !.postedState = y] \in Memory
    BY <2>2 DEF Memory
  <2>4. /\ [m EXCEPT !.posted = x, !.postedState = y].chain = p
        /\ [m EXCEPT !.posted = x, !.postedState = y].posted = x
        /\ [m EXCEPT !.posted = x, !.postedState = y].postedState = y
    BY <2>2 DEF Memory
  <2> QED BY <2>1, <2>3, <2>4 DEF MemoryIs, x, y
<1>15. Mark(s) = [disk |-> Mark(s).disk, node |-> Mark(s).node] /\ Mark(s).disk = e
  BY <1>7
<1> QED BY <1>9, <1>11, <1>12, <1>14, <1>15 DEF MarkedIs

\* The new snapshot's file joins the others.
LEMMA WrittenIs ==
    ASSUME NEW p \in Hash, NEW n \in 0..Len(p), NEW s, MarkedIs(s, p, n)
    PROVE  LET e == Written(s.disk, Taking(s.node))
           IN  /\ DiskIs(e, p, n)
               /\ e.snapshots = s.disk.snapshots
               /\ e.blocks = s.disk.blocks
               /\ HasFile(e, n)
               /\ \A f \in e.files : Number(f.head) = n => f.head = AtNumber(p, n)
<1> DEFINE d == s.disk
           f == [head |-> AtNumber(p, n), state |-> AtNumber(p, n)]
           F == {g \in d.files : Number(g.head) # n} \cup {f}
           e == Written(d, Taking(s.node))
<1>0. AtNumber(p, n) \in Hash /\ Number(f.head) = n /\ f.head = AtNumber(p, n) /\ f.state = AtNumber(p, n)
  BY AtNumberIs DEF Number
<1>1. /\ DiskIs(d, p, n) /\ d \in Disk /\ SnapshotsIn(d, n) /\ FilesIn(d, p)
      /\ s.node.chain = p /\ s.node.posted = n /\ s.node.postedState = AtNumber(p, n)
  BY DEF MarkedIs, DiskIs, MemoryIs
<1>2. Taking(s.node) = f
  BY <1>1 DEF Taking
<1>3. e = [d EXCEPT !.files = F]
  BY <1>0, <1>2 DEF Written
<1>4. F \in SUBSET Snapshot
  BY <1>0, <1>1, DiskFields DEF Snapshot
<1> HIDE DEF d, f
<1>5. f \in F /\ \A g \in F : g = f \/ (g \in d.files /\ Number(g.head) # n)
  OBVIOUS
<1> HIDE DEF F, e
<1>6. /\ e \in Disk /\ e.snapshots = d.snapshots /\ e.blocks = d.blocks
      /\ e.preconfirmed = d.preconfirmed /\ e.files = F
  BY <1>1, <1>3, <1>4 DEF Disk
<1>7. SnapshotsIn(e, n) /\ Oldest(e) = Oldest(d)
  BY <1>1, <1>6 DEF SnapshotsIn, Oldest
<1>8. FilesIn(e, p)
  <2>1. \A g \in F : g.state = g.head
    BY <1>0, <1>1, <1>5 DEF FilesIn
  <2>2. \A g, h \in F : Number(g.head) = Number(h.head) => g = h
    BY <1>0, <1>1, <1>5 DEF FilesIn
  <2>3. \A g \in F, i \in 1..Len(d.snapshots) :
          Number(g.head) = d.snapshots[i] => g.head = AtNumber(p, d.snapshots[i])
    BY <1>0, <1>1, <1>5 DEF FilesIn
  <2> QED BY <1>6, <2>1, <2>2, <2>3 DEF FilesIn
<1>9. DiskIs(e, p, n)
  BY <1>1, <1>6, <1>7, <1>8 DEF DiskIs
<1>10. HasFile(e, n)
  BY <1>0, <1>5, <1>6 DEF HasFile
<1>11. \A g \in e.files : Number(g.head) = n => g.head = AtNumber(p, n)
  BY <1>0, <1>5, <1>6
<1> QED BY <1>6, <1>9, <1>10, <1>11 DEF e, d

\* The list keeps at most one snapshot before the new one.
LEMMA LastTwo ==
    ASSUME NEW was \in Seq(Nat), Len(was) <= 2, NEW n \in Nat
    PROVE  LET kept == KeptSnapshots(Append(was, n))
           IN  /\ kept \in Seq(Nat)
               /\ Len(kept) \in 1..2
               /\ kept[Len(kept)] = n
               /\ Len(was) = 0 => Len(kept) = 1
               /\ Len(was) = 1 => Len(kept) = 2 /\ kept[1] = was[1]
               /\ Len(was) = 2 => Len(kept) = 2 /\ kept[1] = was[2]
<1> DEFINE extended == Append(was, n)
           kept == KeptSnapshots(extended)
<1>1. Len(was) \in 0..2
  <2> DEFINE size == Len(was)
  <2>1. size \in Nat /\ size <= 2
    BY LenProperties
  <2> HIDE DEF size
  <2>2. size \in 0..2
    BY <2>1
  <2> QED BY <2>2 DEF size
<1>2. /\ extended \in Seq(Nat) /\ extended # <<>> /\ Len(extended) = Len(was) + 1
      /\ \A i \in 1..Len(was) : extended[i] = was[i]
      /\ extended[Len(was) + 1] = n
  BY AppendProperties
<1>3. kept = IF Len(extended) > 2 THEN Tail(extended) ELSE extended
  BY DEF KeptSnapshots
<1>4. /\ Len(Tail(extended)) = Len(extended) - 1 /\ Tail(extended) \in Seq(Nat)
      /\ \A i \in 1..Len(Tail(extended)) : Tail(extended)[i] = extended[i + 1]
  BY <1>2, HeadTailProperties
<1> HIDE DEF kept, extended
<1>5. CASE Len(was) = 0
  <2>1. Len(extended) = 1 /\ extended[1] = n /\ kept = extended
    BY <1>2, <1>3, <1>5
  <2> QED BY <1>2, <1>5, <2>1 DEF kept, extended
<1>6. CASE Len(was) = 1
  <2>1. Len(extended) = 2 /\ extended[2] = n /\ extended[1] = was[1] /\ kept = extended
    BY <1>2, <1>3, <1>6
  <2> QED BY <1>2, <1>6, <2>1 DEF kept, extended
<1>7. CASE Len(was) = 2
  <2>1. Len(extended) = 3 /\ extended[3] = n /\ extended[2] = was[2] /\ kept = Tail(extended)
    BY <1>2, <1>3, <1>7
  <2>2. Len(kept) = 2 /\ kept \in Seq(Nat) /\ \A i \in 1..2 : kept[i] = extended[i + 1]
    <3>1. Len(extended) - 1 = 2
      BY <2>1
    <3>2. Len(kept) = 2
      BY <1>4, <2>1, <3>1, Zenon
    <3> QED BY <1>4, <2>1, <3>2
  <2>3. kept[1] = extended[2] /\ kept[2] = extended[3]
    <3>1. 1 + 1 = 2 /\ 2 + 1 = 3 /\ 1 \in 1..2 /\ 2 \in 1..2
      OBVIOUS
    <3>2. kept[1] = extended[1 + 1] /\ kept[2] = extended[2 + 1]
      BY <2>2, <3>1, Zenon
    <3> QED BY <3>1, <3>2, Zenon
  <2> QED BY <1>7, <2>1, <2>2, <2>3 DEF kept, extended
<1> QED BY <1>1, <1>5, <1>6, <1>7

\* The new list ends with the new snapshot and keeps at most one of the old ones.
LEMMA ListedIs ==
    ASSUME NEW d \in Disk, NEW k \in Nat, SnapshotsIn(d, k), NEW m, m.posted = k + 1
    PROVE  LET l == Listed(d, m)
           IN  /\ l \in Seq(Nat)
               /\ Len(l) \in 1..2
               /\ l[Len(l)] = k + 1
               /\ Len(l) = 2 => l[1] \in 1..k /\ \E i \in 1..Len(d.snapshots) : l[1] = d.snapshots[i]
               /\ Oldest(d) \in 0..l[1]
<1> DEFINE q == d.snapshots
           n == k + 1
           l == KeptSnapshots(Append(q, n))
<1>0. Listed(d, m) = l
  BY DEF Listed
<1>1. /\ q \in Seq(Nat) /\ Len(q) \in Nat /\ Len(q) <= 2
      /\ \A i \in 1..Len(q) : q[i] \in 1..k
      /\ \A i, j \in 1..Len(q) : i < j => q[i] < q[j]
      /\ Len(q) = 0 \/ Len(q) = 1 \/ Len(q) = 2
  <2> DEFINE size == Len(q)
  <2>1. /\ q \in Seq(Nat) /\ size \in Nat /\ size <= 2
        /\ \A i \in 1..Len(q) : q[i] \in 1..k
        /\ \A i, j \in 1..Len(q) : i < j => q[i] < q[j]
    BY DiskFields DEF SnapshotsIn
  <2> HIDE DEF size
  <2>2. size = 0 \/ size = 1 \/ size = 2
    BY <2>1
  <2> HIDE DEF q
  <2> QED BY <2>1, <2>2, Zenon DEF size
<1>2. Oldest(d) = IF q = <<>> THEN 0 ELSE q[1]
  BY DEF Oldest
<1>3. n \in Nat /\ k < n
  OBVIOUS
<1> HIDE DEF n, q
<1>4. /\ l \in Seq(Nat) /\ Len(l) \in 1..2 /\ l[Len(l)] = n
      /\ Len(q) = 0 => Len(l) = 1
      /\ Len(q) = 1 => Len(l) = 2 /\ l[1] = q[1]
      /\ Len(q) = 2 => Len(l) = 2 /\ l[1] = q[2]
  BY <1>1, <1>3, LastTwo
<1> HIDE DEF l
<1>5. q = <<>> <=> Len(q) = 0
  BY <1>1, EmptySeq
<1>6. Len(l) = 2 => l[1] \in 1..k /\ \E i \in 1..Len(q) : l[1] = q[i]
  <2> SUFFICES ASSUME Len(l) = 2 PROVE l[1] \in 1..k /\ \E i \in 1..Len(q) : l[1] = q[i]
    OBVIOUS
  <2>1. PICK i \in 1..Len(q) : l[1] = q[i]
    <3>1. CASE Len(q) = 1
      BY <1>4, <3>1
    <3>2. CASE Len(q) = 2
      BY <1>4, <3>2
    <3>3. CASE Len(q) = 0
      BY <1>4, <3>3
    <3> QED BY <1>1, <3>1, <3>2, <3>3
  <2> QED BY <1>1, <2>1
<1>7. Oldest(d) \in 0..l[1]
  <2>1. CASE Len(q) = 0
    <3>1. l[1] = n
      BY <1>4, <2>1
    <3> QED BY <1>2, <1>3, <1>5, <2>1, <3>1
  <2>2. CASE Len(q) = 1
    BY <1>1, <1>2, <1>4, <1>5, <2>2
  <2>3. CASE Len(q) = 2
    BY <1>1, <1>2, <1>4, <1>5, <2>3
  <2> QED BY <1>1, <2>1, <2>2, <2>3
<1>8. /\ l \in Seq(Nat) /\ Len(l) \in 1..2 /\ l[Len(l)] = n
      /\ Len(l) = 2 => l[1] \in 1..k /\ \E i \in 1..Len(q) : l[1] = q[i]
      /\ Oldest(d) \in 0..l[1]
  BY <1>4, <1>6, <1>7
<1> QED BY <1>0, <1>8 DEF q, n

\* What is on disk while a snapshot is taken.
LEMMA FilesMovedIs ==
    ASSUME NEW p \in Hash, NEW n \in 0..Len(p), NEW s, MarkedIs(s, p, n)
    PROVE  DiskIs(FilesMoved(s.disk, s.node), p, n)
<1>1. DiskIs(Written(s.disk, Taking(s.node)), p, n)
  BY WrittenIs
<1> QED BY <1>1, RemovedIs DEF FilesMoved

\* ... and when it is listed.
LEMMA SnapshotTaken ==
    ASSUME NEW p \in Hash, NEW k \in 0..(Len(p) - 1), NEW s, MarkedIs(s, p, k + 1),
           SnapshotsIn(s.disk, k)
    PROVE  LET e == WithSnapshot(s.disk, s.node)
           IN  DiskIs(e, p, k + 1) /\ Loads(e)
<1> DEFINE d == s.disk
           m == s.node
           w == Written(d, Taking(m))
           l == Listed(d, m)
           F == {f \in w.files : Number(f.head) \notin Range(w.snapshots) \ Range(l)}
           e == WithSnapshot(d, m)
           n == k + 1
<1>0. Len(p) \in Nat /\ k \in Nat /\ n \in 0..Len(p) /\ n \in Nat
  BY LenHash
<1>1. /\ d \in Disk /\ m.posted = n
      /\ d.blocks = Blocks(p, Oldest(d), n) /\ d.preconfirmed = Blocks(p, n, Len(p))
  BY DEF MarkedIs, MemoryIs, DiskIs
<1>2. DiskIs(w, p, n) /\ w.snapshots = d.snapshots /\ w.blocks = d.blocks /\ HasFile(w, n)
      /\ \A f \in w.files : Number(f.head) = n => f.head = AtNumber(p, n)
  BY <1>0, WrittenIs
<1>3. /\ l \in Seq(Nat) /\ Len(l) \in 1..2 /\ l[Len(l)] = n
      /\ Len(l) = 2 => l[1] \in 1..k /\ \E i \in 1..Len(d.snapshots) : l[1] = d.snapshots[i]
      /\ Oldest(d) \in 0..l[1]
  <2>1. SnapshotsIn(d, k)
    OBVIOUS
  <2> HIDE DEF d, m, l
  <2>2. m.posted = k + 1
    BY <1>1
  <2>3. LET x == Listed(d, m)
        IN  /\ x \in Seq(Nat) /\ Len(x) \in 1..2 /\ x[Len(x)] = k + 1
            /\ Len(x) = 2 => x[1] \in 1..k /\ \E i \in 1..Len(d.snapshots) : x[1] = d.snapshots[i]
            /\ Oldest(d) \in 0..x[1]
    BY <1>0, <1>1, <2>1, <2>2, ListedIs
  <2> QED BY <2>3, Zenon DEF l
<1>4. w \in Disk /\ w.preconfirmed = Blocks(p, n, Len(p)) /\ FilesIn(w, p) /\ w.files \in SUBSET Snapshot
  BY <1>2, DiskFields DEF DiskIs
<1>5. F \in SUBSET w.files
  OBVIOUS
<1>6. e = [w EXCEPT !.files = F, !.snapshots = l, !.blocks = AboveNumber(@, Head(l))]
  BY DEF WithSnapshot, FilesMoved, Removed, Pruned
<1> HIDE DEF l, w, e, d, m
<1>7. Head(l) = l[1] /\ l # <<>> /\ l[1] \in 1..n
  <2>1. l # <<>>
    BY <1>3, EmptySeq
  <2>2. l[1] \in 1..n
    <3>1. CASE Len(l) = 1
      BY <1>0, <1>3, <3>1
    <3>2. CASE Len(l) = 2
      BY <1>0, <1>3, <3>2
    <3> QED BY <1>3, <3>1, <3>2
  <2> QED BY <1>3, <2>1, <2>2
<1>8. AboveNumber(w.blocks, Head(l)) = Blocks(p, l[1], n) /\ Blocks(p, l[1], n) \in Seq(Hash)
  <2>1. Oldest(d) \in 0..l[1] /\ l[1] \in 0..n
    <3>1. Oldest(d) \in 0..k
      BY <1>0, <1>1, SnapshotFacts DEF d
    <3> QED BY <1>0, <1>3, <1>7, <3>1
  <2>2. AboveNumber(Blocks(p, Oldest(d), n), l[1]) = Blocks(p, l[1], n)
    BY <1>0, <2>1, BlocksAbove
  <2> HIDE DEF n
  <2>3. Blocks(p, l[1], n) \in Seq(Hash)
    BY <1>0, <2>1, BlocksAre
  <2> QED BY <1>1, <1>2, <1>7, <2>2, <2>3
<1> HIDE DEF n
<1>9. /\ e \in Disk /\ e.files = F /\ e.snapshots = l
      /\ e.blocks = Blocks(p, l[1], n) /\ e.preconfirmed = Blocks(p, n, Len(p))
  BY <1>3, <1>4, <1>5, <1>6, <1>8 DEF Disk
<1>10. \A f \in F : f \in w.files
  BY <1>5
<1>11. HasFile(e, n)
  <2>1. PICK f \in w.files : Number(f.head) = n
    BY <1>2 DEF HasFile
  <2>2. n \in Range(l)
    <3>1. DOMAIN l = 1..Len(l) /\ Len(l) \in 1..Len(l)
      BY <1>3, LenProperties
    <3> QED BY <1>3, <3>1 DEF Range
  <2>3. f \in F
    BY <2>1, <2>2
  <2> QED BY <1>9, <2>1, <2>3 DEF HasFile
<1> HIDE DEF F
<1>12. SnapshotsIn(e, n)
  <2>1. CASE Len(l) = 1
    BY <1>3, <1>7, <1>9, <2>1 DEF SnapshotsIn
  <2>2. CASE Len(l) = 2
    <3>1. l[1] \in 1..k /\ l[2] = n /\ n = k + 1
      BY <1>3, <2>2 DEF n
    <3> QED BY <1>0, <1>9, <2>2, <3>1 DEF SnapshotsIn
  <2> QED BY <1>3, <2>1, <2>2
<1>13. FilesIn(e, p)
  <2>1. ASSUME NEW f \in F, NEW i \in 1..Len(l), Number(f.head) = l[i] PROVE f.head = AtNumber(p, l[i])
    <3>0. f \in w.files
      BY <1>10
    <3>1. CASE i = Len(l)
      <4>1. Number(f.head) = n
        BY <1>3, <2>1, <3>1
      <4> QED BY <1>2, <1>3, <3>0, <3>1, <4>1
    <3>2. CASE i # Len(l)
      <4>1. Len(l) = 2 /\ i = 1
        BY <1>3, <3>2
      <4>2. PICK j \in 1..Len(d.snapshots) : l[1] = d.snapshots[j]
        BY <1>3, <4>1
      <4> QED BY <1>2, <1>4, <2>1, <3>0, <4>1, <4>2 DEF FilesIn
    <3> QED BY <3>1, <3>2
  <2> QED BY <1>4, <1>9, <1>10, <2>1 DEF FilesIn
<1>14. Oldest(e) = l[1]
  BY <1>7, <1>9 DEF Oldest
<1>15. DiskIs(e, p, n)
  BY <1>9, <1>12, <1>13, <1>14 DEF DiskIs
<1>16. Loads(e)
  BY <1>3, <1>9, <1>11 DEF Loads, Last
<1> QED BY <1>15, <1>16 DEF e, d, m, n

\* A whole round.
LEMMA RoundIs ==
    ASSUME NEW p \in Hash, NEW k \in 0..(Len(p) - 1), NEW s, MarkedIs(s, p, k)
    PROVE  MarkedIs(MarkAndSnapshot(s), p, k + 1)
<1> DEFINE t == Mark(s)
<1>1. MarkedIs(t, p, k + 1) /\ SnapshotsIn(t.disk, k)
  BY MarkIs
<1>2. MarkAndSnapshot(s) = IF SnapshotDue(t.node)
                           THEN [t EXCEPT !.disk = WithSnapshot(t.disk, t.node)]
                           ELSE t
  BY DEF MarkAndSnapshot
<1> HIDE DEF t
<1>3. LET e == WithSnapshot(t.disk, t.node)
      IN  DiskIs(e, p, k + 1) /\ Loads(e)
  BY <1>1, SnapshotTaken
<1> DEFINE e == WithSnapshot(t.disk, t.node)
           u == [t EXCEPT !.disk = e]
<1>4. t = [disk |-> t.disk, node |-> t.node] /\ MemoryIs(t.node, p, k + 1)
  BY <1>1 DEF MarkedIs
<1> HIDE DEF e
<1>5. u = [disk |-> e, node |-> t.node]
  BY <1>4
<1>6. MarkedIs(u, p, k + 1)
  <2>1. u = [disk |-> u.disk, node |-> u.node] /\ u.disk = e /\ u.node = t.node
    BY <1>5
  <2> QED BY <1>3, <1>4, <2>1 DEF MarkedIs, e
<1> QED BY <1>1, <1>2, <1>6 DEF e

\* The function behind MarkPosted.
MarkWalk ==
    CHOOSE after : after = [round \in Nat |->
                              IF round = 0
                              THEN [disk |-> disk, node |-> node]
                              ELSE CHOOSE t \in {MarkAndSnapshot(s) : s \in {after[round - 1]}} : TRUE]

\* `mark_posted` is the walk that marks one block after another.
LEMMA MarkWalkSteps ==
    /\ \A n : MarkPosted(n) = MarkWalk[IF n <= node.posted THEN 0 ELSE n - node.posted]
    /\ MarkWalk[0] = [disk |-> disk, node |-> node]
    /\ \A k \in Nat : MarkWalk[k + 1] = MarkAndSnapshot(MarkWalk[k])
<1> DEFINE Def(v, k) == CHOOSE t \in {MarkAndSnapshot(s) : s \in {v}} : TRUE
           start == [disk |-> disk, node |-> node]
           g == MarkWalk
<1>1. NatInductiveDefHypothesis(g, start, Def)
  BY DEF NatInductiveDefHypothesis, MarkWalk
<1>2. NatInductiveDefConclusion(g, start, Def)
  BY <1>1, NatInductiveDef
<1>3. g = [k \in Nat |-> IF k = 0 THEN start ELSE Def(g[k - 1], k)]
  BY <1>2 DEF NatInductiveDefConclusion
<1>4. \A n : MarkPosted(n) = g[IF n <= node.posted THEN 0 ELSE n - node.posted]
  BY DEF MarkPosted, MarkWalk
<1>5. \A v, k : Def(v, k) = MarkAndSnapshot(v)
  OBVIOUS
<1> HIDE DEF g, start, Def
<1>6. g[0] = start /\ \A k \in Nat : g[k + 1] = Def(g[k], k + 1)
  BY <1>3
<1> QED BY <1>4, <1>5, <1>6 DEF g, start

\* `mark_posted` up to a block of the chain.
LEMMA MarkPostedIs ==
    ASSUME NEW p \in Hash, NEW m \in 0..Len(p), DiskIs(disk, p, m), MemoryIs(node, p, m),
           Loads(disk), NEW n \in 0..Len(p)
    PROVE  MarkedIs(MarkPosted(n), p, IF n <= m THEN m ELSE n)
<1> DEFINE g == MarkWalk
           P == {k \in Nat : m + k <= Len(p) => MarkedIs(g[k], p, m + k)}
<1>0. Len(p) \in Nat /\ m \in Nat /\ n \in Nat
  BY LenHash
<1>1. node.posted = m
  BY DEF MemoryIs
<1>2. /\ MarkPosted(n) = g[IF n <= m THEN 0 ELSE n - m]
      /\ g[0] = [disk |-> disk, node |-> node]
      /\ \A k \in Nat : g[k + 1] = MarkAndSnapshot(g[k])
  BY <1>1, MarkWalkSteps
<1> HIDE DEF g
<1>3. MarkedIs(g[0], p, m)
  BY <1>2 DEF MarkedIs
<1>4. 0 \in P
  <2>1. m + 0 = m
    BY <1>0
  <2> QED BY <1>3, <2>1
<1>5. ASSUME NEW k \in Nat, k \in P PROVE k + 1 \in P
  <2> DEFINE i == m + k
  <2>1. k + 1 \in Nat /\ m + (k + 1) = i + 1 /\ i \in Nat
    BY <1>0
  <2>2. ASSUME i + 1 <= Len(p) PROVE MarkedIs(g[k + 1], p, i + 1)
    <3>1. i \in 0..(Len(p) - 1) /\ i <= Len(p)
      BY <1>0, <2>1, <2>2
    <3>2. MarkedIs(g[k], p, i)
      BY <1>5, <3>1
    <3> HIDE DEF i
    <3>3. MarkedIs(MarkAndSnapshot(g[k]), p, i + 1)
      BY <3>1, <3>2, RoundIs
    <3> QED BY <1>2, <3>3
  <2> HIDE DEF i
  <2> QED BY <2>1, <2>2
<1>6. Nat \subseteq P
  <2> HIDE DEF P
  <2> QED BY <1>4, <1>5, SetInduction
<1>7. CASE n <= m
  BY <1>2, <1>7, <1>3
<1>8. CASE ~ (n <= m)
  <2>1. n - m \in Nat /\ m + (n - m) = n /\ n <= Len(p)
    BY <1>0, <1>8
  <2>2. MarkedIs(g[n - m], p, m + (n - m))
    BY <1>6, <2>1
  <2> QED BY <1>2, <1>8, <2>1, <2>2
<1> QED BY <1>7, <1>8
-----------------------------------------------------------------------------
(* Forgetting blocks, and deriving them.                                   *)

\* The snapshots that `unpost` keeps are the first ones.
LEMMA RemainingIs ==
    ASSUME NEW d \in Disk, NEW n \in Nat, SnapshotsIn(d, n), NEW r \in Nat
    PROVE  LET kept == Remaining(d, r)
           IN  /\ kept \in Seq(Nat)
               /\ Len(kept) \in 0..Len(d.snapshots)
               /\ \A i \in 1..Len(kept) : kept[i] = d.snapshots[i] /\ kept[i] <= r
<1> DEFINE q == d.snapshots
           positions == {i \in DOMAIN q : q[i] <= r}
<1>1. /\ q \in Seq(Nat) /\ DOMAIN q = 1..Len(q) /\ Len(q) \in Nat
      /\ \A i \in 1..Len(q) : q[i] \in 1..n
      /\ \A i, j \in 1..Len(q) : i < j => q[i] < q[j]
      /\ Len(q) = 0 \/ Len(q) = 1 \/ Len(q) = 2
  <2> DEFINE size == Len(q)
  <2>1. /\ q \in Seq(Nat) /\ size \in Nat /\ size <= 2 /\ DOMAIN q = 1..size
        /\ \A i \in 1..Len(q) : q[i] \in 1..n
        /\ \A i, j \in 1..Len(q) : i < j => q[i] < q[j]
    BY DiskFields DEF SnapshotsIn
  <2> HIDE DEF size
  <2>2. size = 0 \/ size = 1 \/ size = 2
    BY <2>1
  <2> HIDE DEF q
  <2> QED BY <2>1, <2>2, Zenon DEF size
<1>2. Remaining(d, r) = Kept(q, positions)
  BY DEF Remaining
<1> HIDE DEF q
<1>3. PICK c \in 0..Len(q) : positions = (0 + 1)..c
  <2>1. CASE Len(q) = 0
    BY <1>1, <2>1
  <2>2. CASE Len(q) = 1
    BY <1>1, <2>2
  <2>3. CASE Len(q) = 2
    BY <1>1, <2>3
  <2> QED BY <1>1, <2>1, <2>2, <2>3
<1>4. 0 \in 0..c
  BY <1>1
<1> DEFINE kept == Stretch(q, 0, c)
<1>5. kept \in Seq(Nat) /\ Len(kept) = c - 0 /\ \A i \in 1..(c - 0) : kept[i] = q[0 + i]
  <2>1. q \in Seq(Nat) /\ c \in 0..Len(q)
    BY <1>1
  <2> QED BY ONLY <1>4, <2>1, KeptStretch
<1> HIDE DEF kept
<1>6. Len(kept) = c /\ \A i \in 1..c : kept[i] = q[i]
  BY <1>1, <1>5
<1>7. \A i \in 1..c : q[i] <= r
  BY <1>3
<1>8. /\ kept \in Seq(Nat) /\ Len(kept) \in 0..Len(q)
      /\ \A i \in 1..Len(kept) : kept[i] = q[i] /\ kept[i] <= r
  BY <1>5, <1>6, <1>7
<1> QED BY <1>2, <1>3, <1>8 DEF kept, q, Stretch

\* `unpost` leaves the chain up to the block that L1 has.
LEMMA UnpostedIs ==
    ASSUME NEW p \in Hash, NEW n \in 0..Len(p), NEW d, DiskIs(d, p, n), NEW r \in 0..n,
           d.snapshots # <<>> => Remaining(d, r) # <<>>
    PROVE  DiskIs(Unposted(d, r), AtNumber(p, r), r)
<1> DEFINE kept == Remaining(d, r)
           w == Removed(d, kept)
           e == Unposted(d, r)
           q == AtNumber(p, r)
           low == Oldest(d)
           b == Blocks(q, low, r)
<1>0. n \in Nat /\ Len(p) \in Nat /\ r \in 0..Len(p) /\ r \in Nat /\ r <= n
  BY LenHash
<1>1. /\ d \in Disk /\ SnapshotsIn(d, n) /\ d.blocks = Blocks(p, low, n)
  BY DEF DiskIs
<1>2. /\ DiskIs(w, p, n) /\ w.blocks = d.blocks /\ w.snapshots = d.snapshots
  <2>1. DiskIs(w, p, n)
    BY RemovedIs
  <2>2. w.blocks = d.blocks /\ w.snapshots = d.snapshots
    BY <1>1 DEF Removed, Disk
  <2> QED BY <2>1, <2>2
<1>3. /\ kept \in Seq(Nat) /\ Len(kept) \in 0..Len(d.snapshots)
      /\ \A i \in 1..Len(kept) : kept[i] = d.snapshots[i] /\ kept[i] <= r
  BY <1>0, <1>1, RemainingIs
<1>4. q \in Hash /\ Len(q) = r /\ \A k \in 0..r : AtNumber(q, k) = AtNumber(p, k)
  BY <1>0, AtNumberIs, PartOfPart
<1>5. e = [w EXCEPT !.blocks = UpToNumber(@, r), !.preconfirmed = <<>>, !.snapshots = kept]
  BY DEF Unposted
<1>6. /\ low \in 0..n
      /\ d.snapshots = <<>> <=> Len(d.snapshots) = 0
      /\ d.snapshots = <<>> => low = 0
      /\ d.snapshots # <<>> => low = d.snapshots[1]
  BY <1>0, <1>1, SnapshotFacts
<1>7. d.snapshots \in Seq(Nat) /\ Len(d.snapshots) \in Nat /\ Len(d.snapshots) <= 2
  BY <1>1, DiskFields DEF SnapshotsIn
<1> HIDE DEF kept, w, e, q, low
<1>8. kept = <<>> => low = 0
  BY <1>6, EmptySeq DEF kept
<1>9. kept # <<>> => Len(kept) >= 1 /\ low = kept[1] /\ low <= r
  <2> SUFFICES ASSUME kept # <<>> PROVE Len(kept) >= 1 /\ low = kept[1] /\ low <= r
    OBVIOUS
  <2>1. Len(kept) >= 1
    BY <1>3, EmptySeq
  <2>2. 1 \in 1..Len(kept)
    BY <1>3, <2>1
  <2>3. kept[1] = d.snapshots[1] /\ kept[1] <= r
    BY <1>3, <2>2
  <2>4. d.snapshots # <<>>
    BY <1>3, <1>6, <1>7, <2>1
  <2> QED BY <1>6, <2>1, <2>3, <2>4
<1>10. low \in 0..r
  BY <1>0, <1>6, <1>8, <1>9
<1>11. UpToNumber(w.blocks, r) = b /\ b \in Seq(Hash)
  <2>1. UpToNumber(Blocks(p, low, n), r) = Blocks(p, low, r)
    BY <1>10, BlocksUpTo
  <2>2. Blocks(q, low, r) = Blocks(p, low, r)
    BY <1>0, <1>4, <1>10, BlocksSame
  <2>3. Blocks(p, low, r) \in Seq(Hash)
    BY <1>0, <1>10, BlocksAre
  <2> QED BY <1>1, <1>2, <2>1, <2>2, <2>3
<1> HIDE DEF b
<1>12. <<>> \in Seq(Hash) /\ Blocks(q, r, Len(q)) = <<>>
  <2>1. r \in 0..Len(q)
    BY <1>0, <1>4
  <2> QED BY <1>4, <2>1, BlocksEmpty, EmptySeq
<1>13. w \in Disk /\ FilesIn(w, p)
  BY <1>2 DEF DiskIs
<1>14. /\ e \in Disk /\ e.blocks = b /\ e.preconfirmed = <<>> /\ e.snapshots = kept
       /\ e.files = w.files
  BY <1>3, <1>5, <1>11, <1>12, <1>13 DEF Disk
<1>15. \A i \in 1..Len(kept) : i \in 1..Len(d.snapshots)
  BY <1>3, <1>7
<1>16. SnapshotsIn(e, r)
  <2>1. Len(kept) <= 2
    <3> DEFINE x == Len(kept)
               y == Len(d.snapshots)
    <3>1. x \in 0..y /\ y \in Nat /\ y <= 2
      BY <1>3, <1>7
    <3> HIDE DEF x, y
    <3>2. x <= 2
      BY <3>1
    <3> QED BY <3>2 DEF x
  <2>2. \A i \in 1..Len(kept) : kept[i] \in 1..r
    BY <1>0, <1>1, <1>3, <1>15 DEF SnapshotsIn
  <2>3. \A i, j \in 1..Len(kept) : i < j => kept[i] < kept[j]
    BY <1>1, <1>3, <1>15 DEF SnapshotsIn
  <2> QED BY <1>14, <2>1, <2>2, <2>3 DEF SnapshotsIn
<1>17. FilesIn(e, q)
  <2>1. FilesIn(e, p)
    BY <1>2, <1>3, <1>13, <1>14, <1>15 DEF FilesIn
  <2> QED BY <1>0, <1>4, <1>14, <1>16, <2>1, FilesOfSame
<1>18. Oldest(e) = low
  BY <1>8, <1>9, <1>14 DEF Oldest
<1>19. DiskIs(e, q, r)
  BY <1>4, <1>12, <1>14, <1>16, <1>17, <1>18 DEF DiskIs, b
<1> QED BY <1>19 DEF e, q

\* `catch_up` stores the blocks of the chain that builds on the node's.
LEMMA CaughtUp ==
    ASSUME NEW p \in Hash, NEW d, DiskIs(d, p, Len(p)), NEW q \in Hash, Before(p, q)
    PROVE  DiskIs([d EXCEPT !.blocks = @ \o Blocks(q, Len(p), Len(q))], q, Len(q))
<1> DEFINE n == Len(p)
           m == Len(q)
           low == Oldest(d)
           b == Blocks(q, low, m)
           e == [d EXCEPT !.blocks = @ \o Blocks(q, n, m)]
<1>0. n \in Nat /\ m \in Nat /\ n <= m /\ n \in 0..m /\ m \in 0..m /\ n \in 0..n
  BY LenHash DEF Before
<1>1. /\ d \in Disk /\ SnapshotsIn(d, n) /\ FilesIn(d, p)
      /\ d.blocks = Blocks(p, low, n) /\ d.preconfirmed = Blocks(p, n, n)
  BY DEF DiskIs
<1>2. low \in 0..n
  BY <1>0, <1>1, SnapshotFacts
<1>3. \A k \in 0..n : AtNumber(q, k) = AtNumber(p, k)
  <2>1. p = AtNumber(q, n)
    BY DEF Before
  <2>2. \A k \in 0..n : AtNumber(AtNumber(q, n), k) = AtNumber(q, k)
    BY <1>0, PartOfPart
  <2> QED BY <2>1, <2>2
<1>4. Blocks(p, low, n) \o Blocks(q, n, m) = b
  <2>1. Blocks(p, low, n) = Blocks(q, low, n)
    BY <1>0, <1>2, <1>3, BlocksSame
  <2>2. Blocks(q, low, n) \o Blocks(q, n, m) = b
    BY <1>0, <1>2, BlocksConcat
  <2> QED BY <2>1, <2>2
<1>5. b \in Seq(Hash)
  <2>1. low \in 0..m
    BY <1>0, <1>2
  <2> QED BY <1>0, <2>1, BlocksAre
<1>6. d.preconfirmed = <<>> /\ Blocks(q, m, m) = <<>>
  BY <1>0, <1>1, BlocksEmpty
<1>7. e = [d EXCEPT !.blocks = b]
  BY <1>1, <1>4
<1> HIDE DEF e, b, low
<1>8. /\ e \in Disk /\ e.blocks = b /\ e.preconfirmed = <<>> /\ e.snapshots = d.snapshots
      /\ e.files = d.files
  BY <1>1, <1>5, <1>6, <1>7 DEF Disk
<1>9. SnapshotsIn(e, m)
  <2>1. \A i \in 1..n : i \in 1..m
    BY <1>0
  <2> HIDE DEF n, m
  <2> QED BY <1>1, <1>8, <2>1 DEF SnapshotsIn
<1>10. FilesIn(e, q)
  <2>1. FilesIn(d, q)
    BY <1>0, <1>1, <1>3, FilesOfSame
  <2> QED BY <1>8, <2>1 DEF FilesIn
<1>11. Oldest(e) = low
  BY <1>8 DEF Oldest, low
<1>12. DiskIs(e, q, m)
  BY <1>6, <1>8, <1>9, <1>10, <1>11 DEF DiskIs, b
<1> QED BY <1>12 DEF e
-----------------------------------------------------------------------------
(* The invariant holds in every state.                                     *)

\* What is known of the state.
LEMMA InvParts ==
    ASSUME NodeInv
    PROVE  /\ CountersOK /\ L1Inv
           /\ posts \subseteq Hash /\ given \subseteq Hash /\ had \subseteq Hash
           /\ rollup \in had /\ rollup \in Hash
           /\ \A h \in had : \A k \in 0..Len(h) : AtNumber(h, k) \in had
           /\ read # NoHead => read \in had /\ read \in Hash
           /\ losses = 0 => \A h \in had : Before(h, rollup)
           /\ \E p \in Hash : \E n \in 0..Len(p) :
                 /\ DiskIs(disk, p, n)
                 /\ Running => MemoryIs(node, p, n) /\ Loads(disk)
                 /\ AtNumber(p, n) \in had
                 /\ losses = 0 /\ expired = 0 => \A h \in given \cup posts \cup had : Before(h, p)
<1>1. \E p \in Hash : \E n \in 0..Len(p) :
         /\ DiskIs(disk, p, n)
         /\ Running => MemoryIs(node, p, n) /\ Loads(disk)
         /\ AtNumber(p, n) \in had
         /\ losses = 0 /\ expired = 0 => \A h \in given \cup posts \cup had : Before(h, p)
  BY DEF NodeInv, NodeIs
<1> QED BY <1>1 DEF NodeInv, L1Inv

\* What is to be shown of the next one.
LEMMA InvNext ==
    ASSUME CountersOK', posts' \subseteq Hash, given' \subseteq Hash, L1Inv',
           NEW q \in Hash, NEW m \in 0..Len(q),
           DiskIs(disk', q, m),
           node' # Down => MemoryIs(node', q, m) /\ Loads(disk'),
           AtNumber(q, m) \in had',
           losses' = 0 /\ expired' = 0 => \A h \in given' \cup posts' \cup had' : Before(h, q)
    PROVE  NodeInv'
<1>1. NodeIs(q, m)'
  BY DEF NodeIs, Running
<1> QED BY <1>1 DEF NodeInv

\* The steps that are not L1's.
LEMMA L1Same ==
    ASSUME L1Inv, UNCHANGED <<rollup, had, losses>>, read' = read \/ read' = NoHead
    PROVE  L1Inv'
BY DEF L1Inv

\* What happens, happens within its bound.
LEMMA CountersStep ==
    ASSUME CountersOK,
           built' = built \/ (built < MaxBuilt /\ built' = built + 1),
           expired' = expired \/ (expired < MaxExpired /\ expired' = expired + 1),
           losses' = losses \/ (losses < MaxLosses /\ losses' = losses + 1),
           crashes' = crashes \/ (crashes < MaxCrashes /\ crashes' = crashes + 1)
    PROVE  CountersOK'
<1>1. built' \in 0..MaxBuilt
  BY NodeAssumption DEF CountersOK
<1>2. expired' \in 0..MaxExpired
  BY NodeAssumption DEF CountersOK
<1>3. losses' \in 0..MaxLosses
  BY NodeAssumption DEF CountersOK
<1>4. crashes' \in 0..MaxCrashes
  BY NodeAssumption DEF CountersOK
<1> QED BY <1>1, <1>2, <1>3, <1>4 DEF CountersOK

\* A new node has the chain of genesis, all of it posted.
LEMMA InitInv == Init => NodeInv
<1> SUFFICES ASSUME Init PROVE NodeInv
  OBVIOUS
<1>1. CountersOK /\ posts \cup given \subseteq Hash
  BY NodeAssumption DEF Init, CountersOK
<1>2. Genesis \in Hash /\ Len(Genesis) = 0
  <2>1. <<>> \in Seq(1..MaxBuilt)
    BY EmptySeq
  <2> QED BY <2>1, EmptySeq DEF Genesis, Hash
<1>3. AtNumber(Genesis, 0) = Genesis
  BY <1>2, PartEnds
<1>4. Before(Genesis, Genesis)
  BY <1>2, <1>3 DEF Before
<1>5. L1Inv
  <2>1. had = {Genesis} /\ rollup = Genesis /\ read = NoHead
    BY DEF Init
  <2>2. \A k \in 0..Len(Genesis) : AtNumber(Genesis, k) = Genesis
    BY <1>2, <1>3
  <2> QED BY <1>2, <1>4, <2>1, <2>2 DEF L1Inv
<1>6. Blocks(Genesis, 0, 0) = <<>>
  <2>1. 0 \in 0..Len(Genesis)
    BY <1>2
  <2> QED BY <1>2, <2>1, BlocksEmpty
<1>7. DiskIs(disk, Genesis, 0)
  <2>1. /\ disk.blocks = <<>> /\ disk.preconfirmed = <<>> /\ disk.snapshots = <<>> /\ disk.files = {}
        /\ disk = [blocks |-> <<>>, preconfirmed |-> <<>>, snapshots |-> <<>>, files |-> {}]
    BY DEF Init
  <2>2. disk \in Disk
    BY <2>1, EmptySeq DEF Disk
  <2>3. Len(disk.snapshots) = 0
    BY <2>1, EmptySeq
  <2>4. SnapshotsIn(disk, 0)
    BY <2>3 DEF SnapshotsIn
  <2>5. FilesIn(disk, Genesis)
    BY <2>1 DEF FilesIn
  <2>6. Oldest(disk) = 0
    BY <2>1 DEF Oldest
  <2> QED BY <1>2, <1>6, <2>1, <2>2, <2>4, <2>5, <2>6 DEF DiskIs
<1>8. MemoryIs(node, Genesis, 0)
  BY <1>2, <1>3 DEF Init, MemoryIs, Memory
<1>9. Loads(disk)
  BY DEF Init, Loads
<1>10. NodeIs(Genesis, 0)
  BY <1>3, <1>4, <1>7, <1>8, <1>9 DEF Init, NodeIs
<1> QED BY <1>1, <1>2, <1>5, <1>10 DEF NodeInv

\* The next block joins the chain, in memory too if nothing stops the node.
LEMMA BuildInv ==
    ASSUME NodeInv, Preconfirm \/ CrashAfterStoring
    PROVE  NodeInv'
<1>1. Running /\ Build(Append(node.chain, built + 1))
  BY DEF Preconfirm, CrashAfterStoring
<1>2. PICK p \in Hash : \E n \in 0..Len(p) :
         /\ DiskIs(disk, p, n)
         /\ MemoryIs(node, p, n) /\ Loads(disk)
         /\ AtNumber(p, n) \in had
         /\ losses = 0 /\ expired = 0 => \A h \in given \cup posts \cup had : Before(h, p)
  BY <1>1, InvParts
<1>3. PICK n \in 0..Len(p) :
         /\ DiskIs(disk, p, n)
         /\ MemoryIs(node, p, n) /\ Loads(disk)
         /\ AtNumber(p, n) \in had
         /\ losses = 0 /\ expired = 0 => \A h \in given \cup posts \cup had : Before(h, p)
  BY <1>2
<1>4. PICK b : b = built + 1
  OBVIOUS
<1>5. b \in 1..MaxBuilt /\ built' = b
  BY <1>1, <1>4, InvParts, NodeAssumption DEF Build, CountersOK
<1>6. PICK q : q = Append(p, b)
  OBVIOUS
<1>7. /\ q \in Hash /\ Len(q) = Len(p) + 1 /\ \A k \in 0..Len(p) : AtNumber(q, k) = AtNumber(p, k)
      /\ Before(p, q)
  BY <1>5, <1>6, ChainAppend
<1>8. Len(p) \in Nat /\ n \in 0..Len(q) /\ AtNumber(q, n) = AtNumber(p, n) /\ Before(q, q)
  BY <1>7, LenHash, PartEnds DEF Before
<1>9. node.chain = p /\ disk' = Stored(q)
  BY <1>1, <1>3, <1>4, <1>6 DEF MemoryIs, Build
<1>10. DiskIs(disk', q, n)
  BY <1>3, <1>5, <1>6, <1>9, StoredIs DEF Stored
<1>11. Loads(disk')
  <2>1. disk \in Disk
    BY <1>3 DEF DiskIs
  <2>2. disk'.snapshots = disk.snapshots /\ disk'.files = disk.files
    BY <1>9, <2>1 DEF Stored, Disk
  <2> QED BY <1>3, <2>2 DEF Loads, HasFile
<1>12. /\ UNCHANGED <<rollup, posts, had, expired, losses>>
       /\ read' = read \/ read' = NoHead
       /\ crashes' = crashes \/ (crashes < MaxCrashes /\ crashes' = crashes + 1)
       /\ given' = given \cup {q} \/ given' = given
       /\ node' = [node EXCEPT !.chain = q] \/ node' = Down
  BY <1>1, <1>4, <1>6, <1>9 DEF Build, Preconfirm, CrashAfterStoring, Crashes
<1>13. node' # Down => MemoryIs(node', q, n)
  <2>1. node \in Memory /\ node.posted = n /\ node.postedState = AtNumber(p, n)
    BY <1>3 DEF MemoryIs
  <2>2. MemoryIs([node EXCEPT !.chain = q], q, n)
    BY <1>7, <1>8, <2>1 DEF MemoryIs, Memory
  <2> QED BY <1>12, <2>2
<1>14. CountersOK'
  BY <1>5, <1>12, InvParts, NodeAssumption DEF CountersOK
<1>15. L1Inv'
  BY <1>12, InvParts, L1Same
<1>16. posts' \subseteq Hash /\ given' \subseteq Hash
  BY <1>7, <1>12, InvParts
<1>17. ASSUME losses' = 0 /\ expired' = 0, NEW h \in given' \cup posts' \cup had'
       PROVE  Before(h, q)
  <2>1. CASE h = q
    BY <1>8, <2>1
  <2>2. CASE h \in given \cup posts \cup had
    <3>1. Before(h, p)
      BY <1>3, <1>12, <1>17, <2>2
    <3>2. h \in Hash
      BY <2>2, InvParts
    <3> QED BY <1>7, <3>1, <3>2, BeforeTransitive
  <2> QED BY <1>12, <2>1, <2>2
<1>18. AtNumber(q, n) \in had'
  BY <1>3, <1>8, <1>12
<1> QED BY <1>7, <1>8, <1>10, <1>11, <1>13, <1>14, <1>15, <1>16, <1>17, <1>18, InvNext

\* A running node has a chain and a number of posted blocks that the file and
\* the memory both stand for.
LEMMA RunningIs ==
    ASSUME NodeInv, Running
    PROVE  \E p \in Hash : \E n \in 0..Len(p) :
              /\ DiskIs(disk, p, n)
              /\ MemoryIs(node, p, n) /\ Loads(disk)
              /\ AtNumber(p, n) \in had
              /\ losses = 0 /\ expired = 0 => \A h \in given \cup posts \cup had : Before(h, p)
BY InvParts

\* The node's head is known to L1: marking up to it leaves the same chain.
LEMMA MarkedUpTo ==
    ASSUME NodeInv, NEW p \in Hash, NEW n \in 0..Len(p),
           DiskIs(disk, p, n), MemoryIs(node, p, n), Loads(disk), AtNumber(p, n) \in had,
           NEW head \in had, InChain(head),
           NEW m, m = IF Number(head) <= n THEN n ELSE Number(head)
    PROVE  /\ Before(head, p) /\ Number(head) \in 0..Len(p)
           /\ m \in 0..Len(p)
           /\ MarkedIs(MarkPosted(Number(head)), p, m)
           /\ AtNumber(p, m) \in had
<1>1. head \in Hash /\ Len(head) \in Nat /\ Len(p) \in Nat
  BY InvParts, LenHash
<1>2. Before(head, p)
  BY <1>1, PrefixIsBefore DEF InChain, MemoryIs
<1>3. Number(head) \in 0..Len(p) /\ head = AtNumber(p, Number(head))
  BY <1>1, <1>2 DEF Before, Number
<1>4. m \in 0..Len(p)
  BY <1>3
<1>5. MarkedIs(MarkPosted(Number(head)), p, m)
  BY <1>3, MarkPostedIs
<1>6. AtNumber(p, m) \in had
  BY <1>3
<1> QED BY <1>2, <1>3, <1>4, <1>5, <1>6

\* The operator's call marks blocks and sends some of the rest.
LEMMA OperatorPostsInv ==
    ASSUME NodeInv, NEW head \in had, NEW k \in 0..MaxBuilt, OperatorPosts(head, k)
    PROVE  NodeInv'
<1> DEFINE marked == MarkPosted(Number(head))
<1>1. /\ Running /\ InChain(head)
      /\ k <= Len(marked.disk.preconfirmed)
      /\ posts' = posts \cup {marked.disk.preconfirmed[i] : i \in 1..k}
      /\ disk' = marked.disk /\ node' = marked.node
      /\ UNCHANGED <<rollup, read, given, had, counters>>
  BY DEF OperatorPosts
<1> HIDE DEF marked
<1>2. PICK p \in Hash : \E n \in 0..Len(p) :
         /\ DiskIs(disk, p, n)
         /\ MemoryIs(node, p, n) /\ Loads(disk)
         /\ AtNumber(p, n) \in had
         /\ losses = 0 /\ expired = 0 => \A h \in given \cup posts \cup had : Before(h, p)
  BY <1>1, RunningIs
<1>3. PICK n \in 0..Len(p) :
         /\ DiskIs(disk, p, n)
         /\ MemoryIs(node, p, n) /\ Loads(disk)
         /\ AtNumber(p, n) \in had
         /\ losses = 0 /\ expired = 0 => \A h \in given \cup posts \cup had : Before(h, p)
  BY <1>2
<1>4. PICK m : m = IF Number(head) <= n THEN n ELSE Number(head)
  OBVIOUS
<1>5. m \in 0..Len(p) /\ MarkedIs(marked, p, m) /\ AtNumber(p, m) \in had
  BY <1>1, <1>3, <1>4, MarkedUpTo DEF marked
<1>6. DiskIs(disk', p, m) /\ MemoryIs(node', p, m) /\ Loads(disk')
  BY <1>1, <1>5 DEF MarkedIs
<1>7. Len(p) \in Nat /\ Len(p) \in 0..Len(p)
  BY LenHash
<1>8. ASSUME NEW i \in 1..k
      PROVE  marked.disk.preconfirmed[i] \in Hash /\ Before(marked.disk.preconfirmed[i], p)
  <2> DEFINE s == Blocks(p, m, Len(p))
  <2>1. marked.disk.preconfirmed = s
    BY <1>5 DEF MarkedIs, DiskIs
  <2>2. /\ Len(s) = Len(p) - m
        /\ \A j \in 1..(Len(p) - m) : s[j] = AtNumber(p, m + j)
    BY <1>5, <1>7, BlocksAre
  <2> HIDE DEF s
  <2>3. i \in 1..(Len(p) - m)
    BY <1>1, <1>5, <1>7, <2>1, <2>2
  <2>4. m + i \in 0..Len(p) /\ s[i] = AtNumber(p, m + i)
    BY <1>5, <1>7, <2>2, <2>3
  <2> QED BY <2>1, <2>4, AtNumberIs, PartBefore
<1>9. posts' \subseteq Hash /\ given' \subseteq Hash
  BY <1>1, <1>8, InvParts
<1>10. CountersOK' /\ L1Inv'
  BY <1>1, InvParts, L1Same DEF CountersOK, counters
<1>11. ASSUME losses' = 0 /\ expired' = 0, NEW h \in given' \cup posts' \cup had'
       PROVE  Before(h, p)
  BY <1>1, <1>3, <1>8, <1>11 DEF counters
<1>12. AtNumber(p, m) \in had'
  BY <1>1, <1>5
<1> QED BY <1>5, <1>6, <1>9, <1>10, <1>11, <1>12, InvNext

\* The follower marks what L1 has.
LEMMA FollowHeadInv ==
    ASSUME NodeInv, FollowHead
    PROVE  NodeInv'
<1> DEFINE marked == MarkPosted(Number(read))
<1>1. /\ Running /\ read \in had /\ InChain(read)
      /\ disk' = marked.disk /\ node' = marked.node /\ read' = NoHead
      /\ UNCHANGED <<rollup, posts, given, had, counters>>
  BY InvParts DEF FollowHead
<1> HIDE DEF marked
<1>2. PICK p \in Hash : \E n \in 0..Len(p) :
         /\ DiskIs(disk, p, n)
         /\ MemoryIs(node, p, n) /\ Loads(disk)
         /\ AtNumber(p, n) \in had
         /\ losses = 0 /\ expired = 0 => \A h \in given \cup posts \cup had : Before(h, p)
  BY <1>1, RunningIs
<1>3. PICK n \in 0..Len(p) :
         /\ DiskIs(disk, p, n)
         /\ MemoryIs(node, p, n) /\ Loads(disk)
         /\ AtNumber(p, n) \in had
         /\ losses = 0 /\ expired = 0 => \A h \in given \cup posts \cup had : Before(h, p)
  BY <1>2
<1>4. PICK m : m = IF Number(read) <= n THEN n ELSE Number(read)
  OBVIOUS
<1>5. m \in 0..Len(p) /\ MarkedIs(marked, p, m) /\ AtNumber(p, m) \in had
  BY <1>1, <1>3, <1>4, MarkedUpTo DEF marked
<1>6. DiskIs(disk', p, m) /\ MemoryIs(node', p, m) /\ Loads(disk')
  BY <1>1, <1>5 DEF MarkedIs
<1>7. posts' \subseteq Hash /\ given' \subseteq Hash
  BY <1>1, InvParts
<1>8. CountersOK' /\ L1Inv'
  BY <1>1, InvParts, L1Same DEF CountersOK, counters
<1>9. ASSUME losses' = 0 /\ expired' = 0, NEW h \in given' \cup posts' \cup had'
      PROVE  Before(h, p)
  BY <1>1, <1>3, <1>9 DEF counters
<1>10. AtNumber(p, m) \in had'
  BY <1>1, <1>5
<1> QED BY <1>5, <1>6, <1>7, <1>8, <1>9, <1>10, InvNext

\* ... and drops what waits after it.
LEMMA DropExpiredInv ==
    ASSUME NodeInv, DropExpired
    PROVE  NodeInv'
<1> DEFINE marked == MarkPosted(Number(read)).disk
<1>1. /\ Running /\ read \in had /\ InChain(read)
      /\ disk' = [marked EXCEPT !.preconfirmed = <<>>]
      /\ node' = Down /\ read' = NoHead
      /\ expired < MaxExpired /\ expired' = expired + 1
      /\ UNCHANGED <<rollup, posts, given, had, built, losses, crashes>>
  BY InvParts DEF DropExpired, Exits
<1>2. PICK p \in Hash : \E n \in 0..Len(p) :
         DiskIs(disk, p, n) /\ MemoryIs(node, p, n) /\ Loads(disk) /\ AtNumber(p, n) \in had
  BY <1>1, RunningIs
<1>3. PICK n \in 0..Len(p) :
         DiskIs(disk, p, n) /\ MemoryIs(node, p, n) /\ Loads(disk) /\ AtNumber(p, n) \in had
  BY <1>2
<1>4. PICK m : m = IF Number(read) <= n THEN n ELSE Number(read)
  OBVIOUS
<1>5. m \in 0..Len(p) /\ MarkedIs(MarkPosted(Number(read)), p, m) /\ AtNumber(p, m) \in had
  BY <1>1, <1>3, <1>4, MarkedUpTo
<1>6. PICK q : q = AtNumber(p, m)
  OBVIOUS
<1>7. q \in Hash /\ Len(q) = m /\ AtNumber(q, m) = q
  BY <1>5, <1>6, AtNumberIs, PartEnds
<1>8. DiskIs(marked, p, m)
  BY <1>5 DEF MarkedIs
<1> HIDE DEF marked
<1>9. DiskIs(disk', q, m)
  BY <1>1, <1>5, <1>6, <1>8, DroppedIs
<1>10. posts' \subseteq Hash /\ given' \subseteq Hash
  BY <1>1, InvParts
<1>11. CountersOK' /\ L1Inv'
  BY <1>1, InvParts, L1Same, CountersStep
<1>12. expired' # 0
  BY <1>1, InvParts DEF CountersOK
<1>13. m \in 0..Len(q)
  BY <1>5, <1>7, LenHash
<1> QED BY <1>1, <1>5, <1>6, <1>7, <1>9, <1>10, <1>11, <1>12, <1>13, InvNext

\* Unless L1 lost or refused blocks, a head is never of another chain.
LEMMA NoConflict ==
    ASSUME NodeInv, Running, read # NoHead, losses = 0, expired = 0
    PROVE  InChain(read)
<1>1. PICK p \in Hash : \E n \in 0..Len(p) :
         MemoryIs(node, p, n) /\ \A h \in given \cup posts \cup had : Before(h, p)
  BY RunningIs
<1>2. read \in had /\ read \in Hash
  BY InvParts
<1> QED BY <1>1, <1>2, PrefixIsBefore DEF InChain, MemoryIs

\* `drop_conflicting` drops blocks only when L1 is of another chain, which needs
\* a loss or an expiry.
LEMMA DropConflictingInv ==
    ASSUME NodeInv, DropConflicting
    PROVE  NodeInv'
<1>1. /\ Running /\ ~ (losses = 0 /\ expired = 0)
      /\ disk' = [disk EXCEPT !.preconfirmed = <<>>]
      /\ node' = Down /\ read' = NoHead
      /\ UNCHANGED <<rollup, posts, given, had, counters>>
  BY NoConflict DEF DropConflicting, Exits
<1>2. PICK p \in Hash : \E n \in 0..Len(p) : DiskIs(disk, p, n) /\ AtNumber(p, n) \in had
  BY <1>1, RunningIs
<1>3. PICK n \in 0..Len(p) : DiskIs(disk, p, n) /\ AtNumber(p, n) \in had
  BY <1>2
<1>4. PICK q : q = AtNumber(p, n)
  OBVIOUS
<1>5. q \in Hash /\ Len(q) = n /\ AtNumber(q, n) = q /\ n \in 0..Len(q)
  BY <1>4, AtNumberIs, PartEnds, LenHash
<1>6. DiskIs(disk', q, n)
  BY <1>1, <1>3, <1>4, DroppedIs
<1>7. posts' \subseteq Hash /\ given' \subseteq Hash
  BY <1>1, InvParts
<1>8. CountersOK' /\ L1Inv'
  BY <1>1, InvParts, L1Same DEF CountersOK, counters
<1>9. ~ (losses' = 0 /\ expired' = 0)
  BY <1>1 DEF counters
<1> QED BY <1>1, <1>3, <1>4, <1>5, <1>6, <1>7, <1>8, <1>9, InvNext

\* The node stops, or nothing but its reading of L1 changes.
LEMMA SameDiskInv ==
    ASSUME NodeInv, ReadHead \/ ExitOnLoss \/ Crash \/ UNCHANGED vars
    PROVE  NodeInv'
<1>1. /\ UNCHANGED <<rollup, posts, disk, given, had, built, expired, losses>>
      /\ node' = node \/ node' = Down
      /\ crashes' = crashes \/ (crashes < MaxCrashes /\ crashes' = crashes + 1)
      /\ read' \in {read, NoHead, rollup}
  BY DEF ReadHead, ExitOnLoss, Exits, Crash, Crashes, counters, vars
<1>2. PICK p \in Hash : \E n \in 0..Len(p) :
         /\ DiskIs(disk, p, n)
         /\ Running => MemoryIs(node, p, n) /\ Loads(disk)
         /\ AtNumber(p, n) \in had
         /\ losses = 0 /\ expired = 0 => \A h \in given \cup posts \cup had : Before(h, p)
  BY InvParts
<1>3. PICK n \in 0..Len(p) :
         /\ DiskIs(disk, p, n)
         /\ Running => MemoryIs(node, p, n) /\ Loads(disk)
         /\ AtNumber(p, n) \in had
         /\ losses = 0 /\ expired = 0 => \A h \in given \cup posts \cup had : Before(h, p)
  BY <1>2
<1>4. CountersOK'
  BY <1>1, InvParts, CountersStep
<1>5. L1Inv'
  BY <1>1, InvParts DEF L1Inv
<1>6. posts' \subseteq Hash /\ given' \subseteq Hash
  BY <1>1, InvParts
<1>7. node' # Down => MemoryIs(node', p, n) /\ Loads(disk')
  BY <1>1, <1>3 DEF Running
<1>8. DiskIs(disk', p, n) /\ AtNumber(p, n) \in had'
  BY <1>1, <1>3
<1>9. losses' = 0 /\ expired' = 0 => \A h \in given' \cup posts' \cup had' : Before(h, p)
  BY <1>1, <1>3
<1> QED BY <1>4, <1>5, <1>6, <1>7, <1>8, <1>9, InvNext

\* L1 has the next of the posted blocks.
LEMMA L1IncludesInv ==
    ASSUME NodeInv, NEW h \in posts, L1Includes(h)
    PROVE  NodeInv'
<1>1. /\ Front(h) = rollup /\ rollup' = h /\ had' = had \cup {h}
      /\ UNCHANGED <<posts, disk, node, read, given, counters>>
  BY DEF L1Includes
<1>2. h \in Hash /\ rollup \in Hash /\ rollup \in had /\ had \subseteq Hash /\ Len(h) \in Nat /\ Len(rollup) \in Nat
  BY InvParts, LenHash
<1>3. Before(rollup, h) /\ \A k \in 0..Len(h) : AtNumber(h, k) \in had'
  <2>1. CASE Len(h) = 0
    <3>1. h = Genesis /\ rollup = Genesis
      <4>1. h = Genesis
        BY <1>2, <2>1, PartEnds
      <4>2. Front(h) = <<>>
        BY <4>1, SubSeqEmpty, EmptySeq DEF Front, Genesis
      <4> QED BY <1>1, <4>1, <4>2 DEF Genesis
    <3>2. \A k \in 0..Len(h) : AtNumber(h, k) = h
      BY <1>2, <2>1, PartEnds
    <3> QED BY <1>1, <1>2, <2>1, <3>1, <3>2, PartEnds DEF Before
  <2>2. CASE Len(h) # 0
    <3> DEFINE m == Len(h) - 1
    <3>1. m \in 0..Len(h) /\ m \in Nat
      BY <1>2, <2>2
    <3>2. rollup = AtNumber(h, m)
      BY <1>1 DEF Front, AtNumber
    <3>3. Len(rollup) = m
      BY <1>2, <3>1, <3>2, AtNumberIs
    <3>4. Before(rollup, h)
      BY <1>2, <3>1, <3>2, PartBefore
    <3> HIDE DEF m
    <3>5. ASSUME NEW k \in 0..Len(h) PROVE AtNumber(h, k) \in had'
      <4>1. CASE k = Len(h)
        BY <1>1, <1>2, <4>1, PartEnds
      <4>2. CASE k # Len(h)
        <5>1. k \in 0..m
          BY <1>2, <4>2 DEF m
        <5>2. AtNumber(h, k) = AtNumber(rollup, k)
          BY <1>2, <3>1, <3>2, <5>1, PartOfPart
        <5>3. AtNumber(rollup, k) \in had
          BY <1>2, <3>3, <5>1, InvParts
        <5> QED BY <1>1, <5>2, <5>3
      <4> QED BY <4>1, <4>2
    <3> QED BY <3>4, <3>5
  <2> QED BY <2>1, <2>2
<1>4. Before(h, h)
  BY <1>2, PartEnds DEF Before
<1>5. L1Inv'
  <2>1. had' \subseteq Hash /\ rollup' \in had'
    BY <1>1, <1>2
  <2>2. ASSUME NEW g \in had', NEW k \in 0..Len(g) PROVE AtNumber(g, k) \in had'
    BY <1>1, <1>3, InvParts
  <2>3. read' # NoHead => read' \in had'
    BY <1>1, InvParts
  <2>4. ASSUME losses' = 0, NEW g \in had' PROVE Before(g, rollup')
    <3>1. CASE g = h
      BY <1>1, <1>4, <3>1
    <3>2. CASE g \in had
      <4>1. Before(g, rollup)
        BY <1>1, <2>4, <3>2, InvParts DEF counters
      <4> QED BY <1>1, <1>2, <1>3, <3>2, <4>1, BeforeTransitive
    <3> QED BY <1>1, <3>1, <3>2
  <2> QED BY <2>1, <2>2, <2>3, <2>4 DEF L1Inv
<1>6. PICK p \in Hash : \E n \in 0..Len(p) :
         /\ DiskIs(disk, p, n)
         /\ Running => MemoryIs(node, p, n) /\ Loads(disk)
         /\ AtNumber(p, n) \in had
         /\ losses = 0 /\ expired = 0 => \A g \in given \cup posts \cup had : Before(g, p)
  BY InvParts
<1>7. PICK n \in 0..Len(p) :
         /\ DiskIs(disk, p, n)
         /\ Running => MemoryIs(node, p, n) /\ Loads(disk)
         /\ AtNumber(p, n) \in had
         /\ losses = 0 /\ expired = 0 => \A g \in given \cup posts \cup had : Before(g, p)
  BY <1>6
<1>8. CountersOK'
  BY <1>1, InvParts DEF CountersOK, counters
<1>9. posts' \subseteq Hash /\ given' \subseteq Hash
  BY <1>1, InvParts
<1>10. node' # Down => MemoryIs(node', p, n) /\ Loads(disk')
  BY <1>1, <1>7 DEF Running
<1>11. DiskIs(disk', p, n) /\ AtNumber(p, n) \in had'
  BY <1>1, <1>7
<1>12. losses' = 0 /\ expired' = 0 => \A g \in given' \cup posts' \cup had' : Before(g, p)
  BY <1>1, <1>7 DEF counters
<1> QED BY <1>5, <1>8, <1>9, <1>10, <1>11, <1>12, InvNext

\* L1 loses blocks: the heads it had stay among those it had.
LEMMA L1LosesInv ==
    ASSUME NodeInv, NEW k \in 0..(Number(rollup) - 1), L1Loses(k)
    PROVE  NodeInv'
<1>1. /\ losses < MaxLosses /\ losses' = losses + 1 /\ rollup' = AtNumber(rollup, k)
      /\ UNCHANGED <<posts, disk, node, read, given, had, built, expired, crashes>>
  BY DEF L1Loses
<1>2. CountersOK' /\ losses' # 0
  <2>1. CountersOK'
    BY <1>1, InvParts, CountersStep
  <2>2. losses' # 0
    BY <1>1, InvParts DEF CountersOK
  <2> QED BY <2>1, <2>2
<1>3. rollup' \in had
  <2>1. k \in 0..Len(rollup)
    BY InvParts, LenHash DEF Number
  <2> QED BY <1>1, <2>1, InvParts
<1>4. L1Inv'
  BY <1>1, <1>2, <1>3, InvParts DEF L1Inv
<1>5. PICK p \in Hash : \E n \in 0..Len(p) :
         /\ DiskIs(disk, p, n)
         /\ Running => MemoryIs(node, p, n) /\ Loads(disk)
         /\ AtNumber(p, n) \in had
  BY InvParts
<1>6. PICK n \in 0..Len(p) :
         /\ DiskIs(disk, p, n)
         /\ Running => MemoryIs(node, p, n) /\ Loads(disk)
         /\ AtNumber(p, n) \in had
  BY <1>5
<1>7. posts' \subseteq Hash /\ given' \subseteq Hash
  BY <1>1, InvParts
<1>8. node' # Down => MemoryIs(node', p, n) /\ Loads(disk')
  BY <1>1, <1>6 DEF Running
<1>9. DiskIs(disk', p, n) /\ AtNumber(p, n) \in had'
  BY <1>1, <1>6
<1> QED BY <1>2, <1>4, <1>7, <1>8, <1>9, InvNext

\* What `catch_up` appends: the part of L1's chain above the node's, if L1's
\* builds on it, and the chain it then has.
LEMMA MissingIs ==
    ASSUME NodeInv, NEW p \in Hash, DiskIs(disk, p, Len(p)), MemoryIs(node, p, Len(p)),
           AtNumber(p, Len(p)) \in had, NEW k \in 0..Len(rollup)
    PROVE  \E q \in Hash :
              /\ DiskIs([disk EXCEPT !.blocks = @ \o Missing(k)], q, Len(q))
              /\ q \in had
              /\ Missing(k) = <<>> => q = p
              /\ Missing(k) # <<>> => q = AtNumber(rollup, k) /\ Last(Missing(k)) = q /\ Len(q) = k
<1>0. rollup \in Hash /\ Len(rollup) \in Nat /\ Len(p) \in Nat /\ k \in Nat
  BY InvParts, LenHash
<1>1. IsPrefix(node.chain, rollup) <=> Before(p, rollup)
  BY <1>0, PrefixIsBefore DEF MemoryIs
<1>2. /\ Before(p, rollup) => Missing(k) = Blocks(rollup, Len(p), k)
      /\ ~ Before(p, rollup) => Missing(k) = <<>>
  BY <1>1 DEF Missing, Blocks, MemoryIs, Number
<1>3. CASE Missing(k) = <<>>
  <2>1. disk \in Disk /\ disk.blocks \in Seq(Hash)
    BY DiskFields DEF DiskIs
  <2>2. disk.blocks \o <<>> = disk.blocks
    BY <2>1, ConcatEmptySeq
  <2>3. [disk EXCEPT !.blocks = @ \o Missing(k)] = disk
    BY <1>3, <2>1, <2>2 DEF Disk
  <2>4. p \in had
    BY PartEnds
  <2> QED BY <1>3, <2>3, <2>4
<1>4. CASE Missing(k) # <<>>
  <2>1. Before(p, rollup) /\ Missing(k) = Blocks(rollup, Len(p), k)
    BY <1>2, <1>4
  <2>2. Len(p) < k
    <3>1. CASE Len(p) = k
      BY <1>0, <1>4, <2>1, <3>1, BlocksEmpty
    <3>2. CASE Len(p) > k
      <4> DEFINE s == Blocks(rollup, Len(p), k)
      <4>1. 1..(k - Len(p)) = {} /\ 1..0 = {}
        BY <1>0, <3>2
      <4>2. s \in [1..0 -> Hash] /\ DOMAIN s = {}
        BY <4>1 DEF Blocks
      <4> HIDE DEF s
      <4>3. s \in Seq(Hash)
        BY <4>2, SeqDef
      <4>4. DOMAIN s = 1..Len(s) /\ Len(s) \in Nat
        BY <4>3, LenProperties
      <4>5. Len(s) = 0
        BY <4>2, <4>4
      <4>6. s = <<>>
        BY <4>3, <4>5, EmptySeq
      <4> QED BY <1>4, <2>1, <4>6 DEF s
    <3> QED BY <1>0, <3>1, <3>2
  <2> DEFINE q == AtNumber(rollup, k)
  <2>3. /\ q \in Hash /\ Len(q) = k /\ q \in had /\ AtNumber(q, k) = q
        /\ \A j \in 0..k : AtNumber(q, j) = AtNumber(rollup, j)
    BY <1>0, AtNumberIs, PartOfPart, PartEnds, InvParts
  <2> HIDE DEF q
  <2>4. Before(p, q)
    <3>1. p = AtNumber(rollup, Len(p)) /\ Len(p) \in 0..k
      BY <1>0, <2>1, <2>2 DEF Before
    <3>2. p = AtNumber(q, Len(p))
      BY <2>3, <3>1
    <3> QED BY <2>2, <2>3, <3>2 DEF Before
  <2>5. Missing(k) = Blocks(q, Len(p), k)
    <3>1. Len(p) \in 0..k
      BY <1>0, <2>2
    <3>2. Blocks(q, Len(p), k) = Blocks(rollup, Len(p), k)
      BY <1>0, <2>3, <3>1, BlocksSame
    <3> QED BY <2>1, <3>2
  <2>6. DiskIs([disk EXCEPT !.blocks = @ \o Missing(k)], q, Len(q))
    BY <2>3, <2>4, <2>5, CaughtUp
  <2>7. Last(Missing(k)) = q
    <3> DEFINE s == Blocks(q, Len(p), k)
    <3>1. Len(p) \in 0..k /\ k \in 0..Len(q)
      BY <1>0, <2>2, <2>3
    <3>2. Len(s) = k - Len(p) /\ \A i \in 1..(k - Len(p)) : s[i] = AtNumber(q, Len(p) + i)
      BY <2>3, <3>1, BlocksAre
    <3> HIDE DEF s
    <3>3. k - Len(p) \in 1..(k - Len(p)) /\ Len(p) + (k - Len(p)) = k
      BY <1>0, <2>2
    <3>4. s[k - Len(p)] = AtNumber(q, Len(p) + (k - Len(p)))
      BY <3>2, <3>3
    <3>5. s[Len(s)] = q
      BY <2>3, <3>2, <3>3, <3>4
    <3> QED BY <2>5, <3>5 DEF Last, s
  <2> QED BY <1>4, <2>3, <2>6, <2>7 DEF q
<1> QED BY <1>3, <1>4

\* Where deriving starts from: nothing waits, and L1 lost or refused blocks.
LEMMA DeriveStarts ==
    ASSUME NodeInv, NEW k \in Nat, Derive(k)
    PROVE  /\ ~ (losses = 0 /\ expired = 0)
           /\ \E p \in Hash : /\ DiskIs(disk, p, Len(p)) /\ MemoryIs(node, p, Len(p))
                              /\ Loads(disk) /\ AtNumber(p, Len(p)) \in had
<1>1. Running /\ read # NoHead /\ ~ InChain(read) /\ disk.preconfirmed = <<>>
  BY DEF Derive
<1>2. PICK p \in Hash : \E n \in 0..Len(p) :
         DiskIs(disk, p, n) /\ MemoryIs(node, p, n) /\ Loads(disk) /\ AtNumber(p, n) \in had
  BY <1>1, RunningIs
<1>3. PICK n \in 0..Len(p) :
         DiskIs(disk, p, n) /\ MemoryIs(node, p, n) /\ Loads(disk) /\ AtNumber(p, n) \in had
  BY <1>2
<1>4. n = Len(p)
  <2>1. Len(p) \in Nat /\ n \in Nat
    BY LenHash
  <2>2. SUFFICES ASSUME n # Len(p) PROVE FALSE
    OBVIOUS
  <2>3. n \in 0..(Len(p) - 1) /\ Len(p) \in 0..Len(p)
    BY <2>1, <2>2
  <2>4. Blocks(p, n, Len(p)) # <<>>
    BY <2>3, BlocksHeadTail
  <2> QED BY <1>1, <1>3, <2>4 DEF DiskIs
<1>5. ~ (losses = 0 /\ expired = 0)
  BY <1>1, NoConflict
<1> QED BY <1>3, <1>4, <1>5

\* Loading depends on the snapshots only.
LEMMA LoadsSame ==
    ASSUME NEW d \in Disk, NEW b, Loads(d)
    PROVE  Loads([d EXCEPT !.blocks = b])
BY DEF Loads, HasFile, Disk

\* `catch_up` leaves the node with L1's chain, or as it was.
LEMMA CatchUpInv ==
    ASSUME NodeInv, CatchUp
    PROVE  NodeInv'
<1> DEFINE r == Number(rollup)
           last == Last(Missing(r))
           derived == [node EXCEPT !.chain = last, !.posted = Number(last)]
<1>1. /\ Derive(r) /\ read' = NoHead /\ UNCHANGED crashes
      /\ disk' = [disk EXCEPT !.blocks = @ \o Missing(r)]
      /\ UNCHANGED <<rollup, posts, given, had, built, expired, losses>>
  BY DEF CatchUp, Derive
<1>2. r \in Nat /\ r \in 0..Len(rollup)
  BY InvParts, LenHash DEF Number
<1>3. node' = IF Derived(r) = node THEN node ELSE [Derived(r) EXCEPT !.postedState = Derived(r).chain]
  BY DEF CatchUp
<1>4. Derived(r) = IF Missing(r) = <<>> THEN node ELSE derived
  BY DEF Derived
<1> HIDE DEF r, last
<1>5. PICK p \in Hash : /\ DiskIs(disk, p, Len(p)) /\ MemoryIs(node, p, Len(p))
                        /\ Loads(disk) /\ AtNumber(p, Len(p)) \in had
  BY <1>1, <1>2, DeriveStarts
<1>6. PICK q \in Hash :
              /\ DiskIs([disk EXCEPT !.blocks = @ \o Missing(r)], q, Len(q))
              /\ q \in had
              /\ Missing(r) = <<>> => q = p
              /\ Missing(r) # <<>> => last = q
  BY <1>2, <1>5, MissingIs DEF last
<1>7. Len(q) \in Nat /\ Len(q) \in 0..Len(q) /\ AtNumber(q, Len(q)) = q
  BY LenHash, PartEnds
<1>8. MemoryIs(node', q, Len(q))
  <2>1. CASE Missing(r) = <<>>
    BY <1>3, <1>4, <1>5, <1>6, <2>1
  <2>2. CASE Missing(r) # <<>>
    <3>0. node \in Memory
      BY <1>5 DEF MemoryIs
    <3>1. Derived(r) = [node EXCEPT !.chain = q, !.posted = Len(q)]
      BY <1>4, <1>6, <2>2 DEF Number
    <3>2. Derived(r) \in Memory /\ Derived(r).chain = q /\ Derived(r).posted = Len(q)
      BY <1>7, <3>0, <3>1 DEF Memory
    <3>3. CASE Derived(r) = node
      <4>1. q = p
        BY <1>5, <3>2, <3>3 DEF MemoryIs
      <4> QED BY <1>3, <1>5, <3>3, <4>1
    <3>4. CASE Derived(r) # node
      <4>1. node' = [Derived(r) EXCEPT !.postedState = q]
        BY <1>3, <3>2, <3>4
      <4> HIDE DEF Derived
      <4> QED BY <1>7, <3>2, <4>1 DEF MemoryIs, Memory
    <3> QED BY <3>3, <3>4
  <2> QED BY <2>1, <2>2
<1>9. Loads(disk')
  <2>1. disk \in Disk
    BY <1>5 DEF DiskIs
  <2>2. disk' = [disk EXCEPT !.blocks = disk.blocks \o Missing(r)]
    BY <1>1, <2>1
  <2> QED BY <1>5, <2>1, <2>2, LoadsSame
<1>10. CountersOK' /\ L1Inv' /\ posts' \subseteq Hash /\ given' \subseteq Hash
  BY <1>1, InvParts, L1Same DEF CountersOK
<1>11. ~ (losses' = 0 /\ expired' = 0)
  BY <1>1, <1>2, DeriveStarts
<1>12. DiskIs(disk', q, Len(q)) /\ AtNumber(q, Len(q)) \in had'
  BY <1>1, <1>6, <1>7
<1> QED BY <1>7, <1>8, <1>9, <1>10, <1>11, <1>12, InvNext

\* Deriving saves block by block: the file stands for a part of L1's chain wherever
\* the node stops.
LEMMA CrashWhileDerivingInv ==
    ASSUME NodeInv, NEW k \in 1..MaxBuilt, CrashWhileDeriving(k)
    PROVE  NodeInv'
<1>1. /\ Derive(k) /\ k < Number(rollup) /\ read' = NoHead /\ node' = Down
      /\ crashes < MaxCrashes /\ crashes' = crashes + 1
      /\ disk' = [disk EXCEPT !.blocks = @ \o Missing(k)]
      /\ UNCHANGED <<rollup, posts, given, had, built, expired, losses>>
  BY DEF CrashWhileDeriving, Derive, Crashes
<1>2. k \in Nat /\ k \in 0..Len(rollup)
  BY <1>1, InvParts, LenHash, NodeAssumption DEF Number
<1>3. PICK p \in Hash : DiskIs(disk, p, Len(p)) /\ MemoryIs(node, p, Len(p)) /\ AtNumber(p, Len(p)) \in had
  BY <1>1, <1>2, DeriveStarts
<1>4. PICK q \in Hash : DiskIs([disk EXCEPT !.blocks = @ \o Missing(k)], q, Len(q)) /\ q \in had
  BY <1>2, <1>3, MissingIs
<1>5. Len(q) \in 0..Len(q) /\ AtNumber(q, Len(q)) = q
  BY LenHash, PartEnds
<1>6. CountersOK' /\ L1Inv' /\ posts' \subseteq Hash /\ given' \subseteq Hash
  BY <1>1, InvParts, L1Same, CountersStep
<1>7. ~ (losses' = 0 /\ expired' = 0)
  BY <1>1, <1>2, DeriveStarts
<1>8. DiskIs(disk', q, Len(q)) /\ AtNumber(q, Len(q)) \in had'
  BY <1>1, <1>4, <1>5
<1> QED BY <1>1, <1>5, <1>6, <1>7, <1>8, InvNext

\* The node stops in a round of `mark_posted`, at one of its saves.
LEMMA CrashWhileMarkingInv ==
    ASSUME NodeInv, NEW k \in 1..MaxBuilt, CrashWhileMarking(k)
    PROVE  NodeInv'
<1> DEFINE before == MarkPosted(k - 1)
           marked == Mark(before)
<1>1. /\ Running /\ read # NoHead /\ InChain(read)
      /\ k \in (node.posted + 1)..Number(read)
      /\ \/ disk' = marked.disk
         \/ disk' = Written(marked.disk, Taking(marked.node))
         \/ disk' = FilesMoved(marked.disk, marked.node)
      /\ node' = Down /\ read' = NoHead
      /\ crashes < MaxCrashes /\ crashes' = crashes + 1
      /\ UNCHANGED <<rollup, posts, given, had, built, expired, losses>>
  BY DEF CrashWhileMarking, Crashes
<1> HIDE DEF before
<1>2. PICK p \in Hash : \E n \in 0..Len(p) :
         /\ DiskIs(disk, p, n)
         /\ MemoryIs(node, p, n) /\ Loads(disk)
         /\ AtNumber(p, n) \in had
         /\ losses = 0 /\ expired = 0 => \A h \in given \cup posts \cup had : Before(h, p)
  BY <1>1, RunningIs
<1>3. PICK n \in 0..Len(p) :
         /\ DiskIs(disk, p, n)
         /\ MemoryIs(node, p, n) /\ Loads(disk)
         /\ AtNumber(p, n) \in had
         /\ losses = 0 /\ expired = 0 => \A h \in given \cup posts \cup had : Before(h, p)
  BY <1>2
<1>4. read \in had /\ read \in Hash /\ Len(read) \in Nat /\ Len(p) \in Nat /\ n \in Nat
  BY <1>1, InvParts, LenHash
<1>5. Before(read, p)
  BY <1>1, <1>3, <1>4, PrefixIsBefore DEF InChain, MemoryIs
<1>6. k \in Nat /\ n + 1 <= k /\ k <= Len(read) /\ Len(read) <= Len(p)
  BY <1>1, <1>3, <1>4, <1>5, NodeAssumption DEF MemoryIs, Number, Before
<1>7. k - 1 \in 0..(Len(p) - 1) /\ k - 1 \in 0..Len(p) /\ (k - 1) + 1 = k /\ k \in 0..Len(p) /\ k \in 0..Len(read)
  BY <1>4, <1>6
<1>8. MarkedIs(before, p, k - 1)
  <2>1. MarkedIs(before, p, IF k - 1 <= n THEN n ELSE k - 1)
    BY <1>3, <1>7, MarkPostedIs DEF before
  <2>2. (IF k - 1 <= n THEN n ELSE k - 1) = k - 1
    BY <1>4, <1>6
  <2> QED BY <2>1, <2>2
<1>9. MarkedIs(marked, p, k)
  <2>1. MarkedIs(Mark(before), p, (k - 1) + 1)
    BY <1>7, <1>8, MarkIs
  <2> QED BY <1>7, <2>1
<1> HIDE DEF marked
<1>10. DiskIs(disk', p, k)
  <2>1. DiskIs(marked.disk, p, k)
    BY <1>9 DEF MarkedIs
  <2>2. DiskIs(Written(marked.disk, Taking(marked.node)), p, k)
    BY <1>7, <1>9, WrittenIs
  <2>3. DiskIs(FilesMoved(marked.disk, marked.node), p, k)
    BY <1>7, <1>9, FilesMovedIs
  <2> QED BY <1>1, <2>1, <2>2, <2>3
<1>11. AtNumber(p, k) \in had
  <2>1. read = AtNumber(p, Len(read)) /\ Len(read) \in 0..Len(p)
    BY <1>4, <1>5 DEF Before
  <2>2. AtNumber(AtNumber(p, Len(read)), k) = AtNumber(p, k)
    BY <1>7, <2>1, PartOfPart
  <2>3. AtNumber(read, k) \in had
    BY <1>4, <1>7, InvParts
  <2> QED BY <2>1, <2>2, <2>3
<1>12. CountersOK' /\ L1Inv' /\ posts' \subseteq Hash /\ given' \subseteq Hash
  BY <1>1, InvParts, L1Same, CountersStep
<1>13. losses' = 0 /\ expired' = 0 => \A h \in given' \cup posts' \cup had' : Before(h, p)
  BY <1>1, <1>3
<1> QED BY <1>1, <1>7, <1>10, <1>11, <1>12, <1>13, InvNext

\* L1 has fewer blocks than the node has posted only if it lost some.
LEMMA LostMeansLosses ==
    ASSUME NodeInv, NEW p \in Hash, NEW n \in 0..Len(p), DiskIs(disk, p, n),
           AtNumber(p, n) \in had, MustUnpost
    PROVE  losses # 0 /\ Number(rollup) < n
<1>1. Len(rollup) < n
  BY PostedNumberIs DEF MustUnpost, Number
<1>2. Len(AtNumber(p, n)) = n
  BY AtNumberIs
<1>3. SUFFICES ASSUME losses = 0 PROVE FALSE
  BY <1>1 DEF Number
<1>4. Before(AtNumber(p, n), rollup)
  BY <1>3, InvParts
<1>5. n <= Len(rollup)
  BY <1>2, <1>4 DEF Before
<1> QED BY <1>1, <1>5, InvParts, LenHash

\* The node starts from the state file, less what L1 lost.
LEMMA RestartInv ==
    ASSUME NodeInv, NEW l1Answers \in BOOLEAN, Restart(l1Answers)
    PROVE  NodeInv'
<1> DEFINE lost == l1Answers /\ MustUnpost
           r == Number(rollup)
           saved == IF lost THEN Unposted(disk, r) ELSE disk
<1>1. /\ lost => CanUnpost
      /\ disk' = saved
      /\ node' = IF Loads(saved)
                 THEN [chain |-> StoredChain(saved), posted |-> Number(PostedChain(saved)),
                       postedState |-> PostedChain(saved)]
                 ELSE Down
      /\ UNCHANGED <<rollup, posts, read, given, had, counters>>
  BY DEF Restart
<1>2. PICK p \in Hash : \E n \in 0..Len(p) :
         /\ DiskIs(disk, p, n)
         /\ AtNumber(p, n) \in had
         /\ losses = 0 /\ expired = 0 => \A h \in given \cup posts \cup had : Before(h, p)
  BY InvParts
<1>3. PICK n \in 0..Len(p) :
         /\ DiskIs(disk, p, n)
         /\ AtNumber(p, n) \in had
         /\ losses = 0 /\ expired = 0 => \A h \in given \cup posts \cup had : Before(h, p)
  BY <1>2
<1>4. CountersOK' /\ L1Inv' /\ posts' \subseteq Hash /\ given' \subseteq Hash
  BY <1>1, InvParts, L1Same DEF CountersOK, counters
<1>5. \E q \in Hash : \E m \in 0..Len(q) :
         /\ DiskIs(saved, q, m)
         /\ AtNumber(q, m) \in had
         /\ losses = 0 /\ expired = 0 => \A h \in given \cup posts \cup had : Before(h, q)
  <2>1. CASE lost
    <3>1. losses # 0 /\ r < n /\ CanUnpost
      BY <1>1, <1>3, <2>1, LostMeansLosses
    <3>2. r \in Nat /\ r \in 0..n /\ r \in 0..Len(p)
      BY <3>1, InvParts, LenHash DEF Number
    <3>3. disk.snapshots # <<>> => Remaining(disk, r) # <<>>
      BY <3>1 DEF CanUnpost
    <3> HIDE DEF r
    <3>4. DiskIs(Unposted(disk, r), AtNumber(p, r), r)
      BY <1>3, <3>2, <3>3, UnpostedIs
    <3>5. /\ AtNumber(p, r) \in Hash /\ Len(AtNumber(p, r)) = r
          /\ AtNumber(AtNumber(p, r), r) = AtNumber(p, r)
      BY <3>2, AtNumberIs, PartOfPart
    <3>6. AtNumber(p, r) \in had
      <4>1. AtNumber(AtNumber(p, n), r) = AtNumber(p, r) /\ Len(AtNumber(p, n)) = n
        BY <3>2, AtNumberIs, PartOfPart
      <4>2. AtNumber(AtNumber(p, n), r) \in had
        BY <1>3, <3>2, <4>1, InvParts
      <4> QED BY <4>1, <4>2
    <3>7. r \in 0..Len(AtNumber(p, r)) /\ saved = Unposted(disk, r)
      BY <2>1, <3>2, <3>5
    <3> HIDE DEF saved
    <3> QED BY <3>1, <3>4, <3>5, <3>6, <3>7
  <2>2. CASE ~ lost
    BY <1>3, <2>2
  <2> QED BY <2>1, <2>2
<1> HIDE DEF saved
<1>6. PICK q \in Hash : \E m \in 0..Len(q) :
         /\ DiskIs(saved, q, m)
         /\ AtNumber(q, m) \in had
         /\ losses = 0 /\ expired = 0 => \A h \in given \cup posts \cup had : Before(h, q)
  BY <1>5
<1>7. PICK m \in 0..Len(q) :
         /\ DiskIs(saved, q, m)
         /\ AtNumber(q, m) \in had
         /\ losses = 0 /\ expired = 0 => \A h \in given \cup posts \cup had : Before(h, q)
  BY <1>6
<1>8. ASSUME node' # Down PROVE MemoryIs(node', q, m) /\ Loads(disk')
  <2>1. Loads(saved)
    BY <1>1, <1>8
  <2>2. PostedChain(saved) = AtNumber(q, m) /\ StoredChain(saved) = q
    BY <1>7, <2>1, ReadBack
  <2>3. AtNumber(q, m) \in Hash /\ Number(AtNumber(q, m)) = m /\ m \in Nat
    BY AtNumberIs, LenHash DEF Number
  <2>4. node' = [chain |-> q, posted |-> m, postedState |-> AtNumber(q, m)]
    BY <1>1, <2>1, <2>2, <2>3
  <2> QED BY <1>1, <2>1, <2>3, <2>4 DEF MemoryIs, Memory
<1>9. losses' = 0 /\ expired' = 0 => \A h \in given' \cup posts' \cup had' : Before(h, q)
  BY <1>1, <1>7 DEF counters
<1>10. DiskIs(disk', q, m) /\ AtNumber(q, m) \in had'
  BY <1>1, <1>7
<1> QED BY <1>4, <1>8, <1>9, <1>10, InvNext

\* Wherever the node stops in `unpost`, the file stands for the chain that is kept.
LEMMA CrashWhileUnpostingInv ==
    ASSUME NodeInv, CrashWhileUnposting
    PROVE  NodeInv'
<1>1. /\ disk' = Removed(disk, Remaining(disk, Number(rollup)))
      /\ node' = Down /\ read' = NoHead
      /\ crashes < MaxCrashes /\ crashes' = crashes + 1
      /\ UNCHANGED <<rollup, posts, given, had, built, expired, losses>>
  BY DEF CrashWhileUnposting, Crashes
<1>2. PICK p \in Hash : \E n \in 0..Len(p) :
         /\ DiskIs(disk, p, n)
         /\ AtNumber(p, n) \in had
         /\ losses = 0 /\ expired = 0 => \A h \in given \cup posts \cup had : Before(h, p)
  BY InvParts
<1>3. PICK n \in 0..Len(p) :
         /\ DiskIs(disk, p, n)
         /\ AtNumber(p, n) \in had
         /\ losses = 0 /\ expired = 0 => \A h \in given \cup posts \cup had : Before(h, p)
  BY <1>2
<1>4. CountersOK' /\ L1Inv' /\ posts' \subseteq Hash /\ given' \subseteq Hash
  BY <1>1, InvParts, L1Same, CountersStep
<1>5. DiskIs(disk', p, n) /\ AtNumber(p, n) \in had'
  BY <1>1, <1>3, RemovedIs
<1>6. losses' = 0 /\ expired' = 0 => \A h \in given' \cup posts' \cup had' : Before(h, p)
  BY <1>1, <1>3
<1> QED BY <1>1, <1>4, <1>5, <1>6, InvNext

\* Every step keeps the invariant.
LEMMA NextInv == ASSUME NodeInv, [Next]_vars PROVE NodeInv'
<1>1. CASE Preconfirm \/ CrashAfterStoring
  BY <1>1, BuildInv
<1>2. CASE \E head \in had, k \in 0..MaxBuilt : OperatorPosts(head, k)
  BY <1>2, OperatorPostsInv
<1>3. CASE \E h \in posts : L1Includes(h)
  BY <1>3, L1IncludesInv
<1>4. CASE \E k \in 0..(Number(rollup) - 1) : L1Loses(k)
  BY <1>4, L1LosesInv
<1>5. CASE ReadHead \/ ExitOnLoss \/ Crash \/ UNCHANGED vars
  BY <1>5, SameDiskInv
<1>6. CASE FollowHead
  BY <1>6, FollowHeadInv
<1>7. CASE DropExpired
  BY <1>7, DropExpiredInv
<1>8. CASE DropConflicting
  BY <1>8, DropConflictingInv
<1>9. CASE CatchUp
  BY <1>9, CatchUpInv
<1>10. CASE CrashWhileUnposting
  BY <1>10, CrashWhileUnpostingInv
<1>11. CASE \E k \in 1..MaxBuilt : CrashWhileMarking(k) \/ CrashWhileDeriving(k)
  BY <1>11, CrashWhileMarkingInv, CrashWhileDerivingInv
<1>12. CASE \E l1Answers \in BOOLEAN : Restart(l1Answers)
  BY <1>12, RestartInv
<1> QED BY <1>1, <1>2, <1>3, <1>4, <1>5, <1>6, <1>7, <1>8, <1>9, <1>10, <1>11, <1>12 DEF Next

\* The invariant holds in every state.
LEMMA AlwaysNodeInv == Spec => []NodeInv
<1>1. NodeInv /\ [Next]_vars => NodeInv'
  BY NextInv
<1> QED BY <1>1, InitInv, PTL DEF Spec
-----------------------------------------------------------------------------
(* What follows from the invariant.                                        *)

\* Every variable of the node's model has its type, however long it runs.
THEOREM NodeTypes == Spec => []NodeTypeOK
<1>1. ASSUME NodeInv PROVE NodeTypeOK
  <2>1. PICK p \in Hash : \E n \in 0..Len(p) :
           DiskIs(disk, p, n) /\ (Running => MemoryIs(node, p, n))
    BY <1>1, InvParts
  <2>2. disk \in Disk /\ Len(disk.snapshots) <= 2
    BY <2>1 DEF DiskIs, SnapshotsIn
  <2>3. node \in Memory \cup {Down}
    BY <2>1 DEF MemoryIs, Running
  <2> QED BY <1>1, <2>2, <2>3, InvParts DEF NodeTypeOK, CountersOK
<1> QED BY <1>1, AlwaysNodeInv, PTL

\* What the node and its RPC call posted was on L1 (`mark_posted`, `catch_up`,
\* `__init__`, `tag_number`).
THEOREM PostedIsOfL1 == Spec => []PostedWasOnL1
<1>1. ASSUME NodeInv PROVE PostedWasOnL1
  <2> SUFFICES ASSUME Running
               PROVE  node.posted <= Number(node.chain) /\ AtNumber(node.chain, node.posted) \in had
    BY DEF PostedWasOnL1
  <2>1. PICK p \in Hash : \E n \in 0..Len(p) : MemoryIs(node, p, n) /\ AtNumber(p, n) \in had
    BY <1>1, RunningIs
  <2>2. PICK n \in 0..Len(p) : MemoryIs(node, p, n) /\ AtNumber(p, n) \in had
    BY <2>1
  <2>3. node.chain = p /\ node.posted = n
    BY <2>2 DEF MemoryIs
  <2> QED BY <2>2, <2>3, LenHash DEF Number
<1> QED BY <1>1, AlwaysNodeInv, PTL

\* The state file of a running node always starts it again where it is
\* (`preconfirm`, `mark_posted`, `snapshot`, `__init__`).
THEOREM StartsAgainWhereItIs == Spec => []RestartsWhereItWas
<1>1. ASSUME NodeInv PROVE RestartsWhereItWas
  <2> SUFFICES ASSUME Running
               PROVE  /\ Loads(disk) /\ StoredChain(disk) = node.chain
                      /\ PostedChain(disk) = AtNumber(node.chain, node.posted)
    BY DEF RestartsWhereItWas
  <2>1. PICK p \in Hash : \E n \in 0..Len(p) : DiskIs(disk, p, n) /\ MemoryIs(node, p, n) /\ Loads(disk)
    BY <1>1, RunningIs
  <2>2. PICK n \in 0..Len(p) : DiskIs(disk, p, n) /\ MemoryIs(node, p, n) /\ Loads(disk)
    BY <2>1
  <2>3. node.chain = p /\ node.posted = n
    BY <2>2 DEF MemoryIs
  <2> QED BY <2>2, <2>3, ReadBack
<1> QED BY <1>1, AlwaysNodeInv, PTL

\* Without losses and expiry, the promises are one chain across crashes
\* (`preconfirm`).
THEOREM OneChainOfPromises == Spec => []PromisesAreOneChain
<1>1. ASSUME NodeInv PROVE PromisesAreOneChain
  <2> SUFFICES ASSUME losses = 0 /\ expired = 0, NEW g \in given, NEW h \in given
               PROVE  IsPrefix(g, h) \/ IsPrefix(h, g)
    BY DEF PromisesAreOneChain
  <2>1. PICK p \in Hash : \A x \in given : Before(x, p)
    BY <1>1, InvParts
  <2>2. g \in Hash /\ h \in Hash /\ Len(g) \in Nat /\ Len(h) \in Nat
    BY <1>1, InvParts, LenHash
  <2>3. Before(g, h) \/ Before(h, g)
    BY <2>1, <2>2, BeforeTotal
  <2> QED BY <2>2, <2>3, PrefixIsBefore
<1> QED BY <1>1, AlwaysNodeInv, PTL

\* A node that starts has as posted what its file had, or what L1 has if that
\* is less (`__init__`, `unpost`).
THEOREM StartKeepsPosted == Spec => RestartKeepsPosted
<1>1. ASSUME NodeInv, [Next]_vars
      PROVE  [~Running /\ Running' => \/ node'.posted >= PostedNumber(disk)
                                      \/ node'.posted >= Number(rollup)]_vars
  <2> SUFFICES ASSUME ~Running, Running'
               PROVE  node'.posted >= PostedNumber(disk) \/ node'.posted >= Number(rollup)
    OBVIOUS
  <2>1. PICK l1Answers \in BOOLEAN : Restart(l1Answers)
    BY <1>1 DEF Next, Running, Preconfirm, CrashAfterStoring, OperatorPosts, L1Includes, L1Loses,
          ReadHead, ExitOnLoss, Exits, FollowHead, DropExpired, DropConflicting, CatchUp, Derive,
          Crash, Crashes, CrashWhileUnposting, CrashWhileMarking, CrashWhileDeriving, vars
  <2> DEFINE lost == l1Answers /\ MustUnpost
             r == Number(rollup)
             saved == IF lost THEN Unposted(disk, r) ELSE disk
  <2>2. /\ lost => CanUnpost
        /\ node' = IF Loads(saved)
                   THEN [chain |-> StoredChain(saved), posted |-> Number(PostedChain(saved)),
                         postedState |-> PostedChain(saved)]
                   ELSE Down
    BY <2>1 DEF Restart
  <2>3. node' # Down
    BY DEF Running
  <2>4. Loads(saved) /\ node'.posted = Number(PostedChain(saved))
    BY <2>2, <2>3
  <2>5. PICK p \in Hash : \E n \in 0..Len(p) : DiskIs(disk, p, n) /\ AtNumber(p, n) \in had
    BY <1>1, InvParts
  <2>6. PICK n \in 0..Len(p) : DiskIs(disk, p, n) /\ AtNumber(p, n) \in had
    BY <2>5
  <2>7. PostedNumber(disk) = n /\ n \in Nat
    BY <2>6, PostedNumberIs, LenHash
  <2>8. CASE lost
    <3>1. r < n /\ CanUnpost
      BY <1>1, <2>2, <2>6, <2>8, LostMeansLosses
    <3>2. r \in Nat /\ r \in 0..n /\ r \in 0..Len(p)
      BY <1>1, <2>7, <3>1, InvParts, LenHash DEF Number
    <3>3. disk.snapshots # <<>> => Remaining(disk, r) # <<>>
      BY <3>1 DEF CanUnpost
    <3> HIDE DEF r
    <3>4. DiskIs(Unposted(disk, r), AtNumber(p, r), r) /\ saved = Unposted(disk, r)
      BY <2>6, <2>8, <3>2, <3>3, UnpostedIs
    <3>5. /\ AtNumber(p, r) \in Hash /\ Len(AtNumber(p, r)) = r
          /\ AtNumber(AtNumber(p, r), r) = AtNumber(p, r) /\ r \in 0..Len(AtNumber(p, r))
      BY <3>2, AtNumberIs, PartOfPart
    <3> HIDE DEF saved
    <3>6. PostedChain(saved) = AtNumber(p, r)
      BY <2>4, <3>4, <3>5, ReadBack
    <3> QED BY <2>4, <3>2, <3>5, <3>6 DEF Number, r
  <2>9. CASE ~ lost
    <3>1. PostedChain(disk) = AtNumber(p, n)
      BY <2>4, <2>6, <2>9, ReadBack
    <3>2. node'.posted = n
      BY <2>4, <2>9, <3>1, AtNumberIs DEF Number
    <3> QED BY <2>7, <3>2
  <2> QED BY <2>8, <2>9
<1> QED BY <1>1, AlwaysNodeInv, PTL DEF Spec, RestartKeepsPosted

\* The snapshots hold the state of their block (`snapshot`).
THEOREM SnapshotsAreExact == Spec => []SnapshotExact
<1>1. NodeInv => SnapshotExact
  BY InvParts DEF DiskIs, FilesIn, SnapshotExact
<1> QED BY <1>1, AlwaysNodeInv, PTL

\* The stored blocks always execute one on the other (`save`, `replay`).
THEOREM StoredBlocksReplay == Spec => []StoredReplays
<1>1. ASSUME NodeInv PROVE StoredReplays
  <2>1. PICK p \in Hash : \E n \in 0..Len(p) : DiskIs(disk, p, n)
    BY <1>1, InvParts
  <2>2. PICK n \in 0..Len(p) : DiskIs(disk, p, n)
    BY <2>1
  <2> DEFINE low == Oldest(disk)
             s == Blocks(p, low, Len(p))
  <2>3. Len(p) \in Nat /\ n \in Nat /\ Len(p) \in 0..Len(p) /\ low \in 0..n
    BY <2>2, LenHash, SnapshotFacts DEF DiskIs
  <2> HIDE DEF low
  <2>4. disk.blocks \o disk.preconfirmed = s
    BY <2>2, <2>3, BlocksConcat DEF DiskIs, low
  <2>5. low \in 0..Len(p)
    BY <2>3
  <2>6. Len(s) = Len(p) - low /\ \A i \in 1..(Len(p) - low) : s[i] = AtNumber(p, low + i)
    BY <2>3, <2>5, BlocksAre
  <2> HIDE DEF s
  <2>7. ASSUME NEW i \in 2..Len(s) PROVE s[i - 1] = Front(s[i])
    <3> DEFINE k == low + i
    <3>1. i \in 1..(Len(p) - low) /\ i - 1 \in 1..(Len(p) - low) /\ k \in 0..Len(p) /\ k \in Nat
      BY <2>3, <2>5, <2>6
    <3>2. low + (i - 1) = k - 1 /\ k - 1 \in 0..k
      BY <2>3, <2>5, <3>1
    <3> HIDE DEF k
    <3>3. s[i] = AtNumber(p, k) /\ s[i - 1] = AtNumber(p, k - 1)
      <4>1. s[i] = AtNumber(p, low + i)
        BY <2>6, <3>1
      <4>2. s[i - 1] = AtNumber(p, low + (i - 1))
        BY <2>6, <3>1
      <4> QED BY <3>2, <4>1, <4>2 DEF k
    <3>4. Len(AtNumber(p, k)) = k /\ AtNumber(AtNumber(p, k), k - 1) = AtNumber(p, k - 1)
      BY <3>1, <3>2, AtNumberIs, PartOfPart
    <3>5. Front(AtNumber(p, k)) = AtNumber(AtNumber(p, k), k - 1)
      BY <3>4 DEF Front, AtNumber
    <3> QED BY <3>3, <3>4, <3>5
  <2> QED BY <2>4, <2>7 DEF StoredReplays
<1> QED BY <1>1, AlwaysNodeInv, PTL
=============================================================================
