---------------------------- MODULE DemoProofs ----------------------------
(***************************************************************************)
(* The processes around the rollup, for every value of the constants.      *)
(***************************************************************************)
EXTENDS Demo, PoolFollowerClaimsProofs, InductionLemmas, NaturalsInduction, SequenceTheorems

-----------------------------------------------------------------------------
(* Withdrawals: the rollup contract after each L1 block                    *)

Deployed == [posted |-> <<>>, claimed |-> {}]

\* The rollup contract after the first `n` transactions of `s`.
RollupWalk(s) == CHOOSE g : g = [n \in Nat |-> IF n = 0 THEN Deployed ELSE Apply(g[n - 1], s[n])]
RollupAt(s, n) == RollupWalk(s)[n]

\* The contract starts as deployed, and each transaction changes it.
LEMMA RollupAtNext ==
    ASSUME NEW s, NEW n \in Nat
    PROVE  /\ RollupAt(s, 0) = Deployed
           /\ RollupAt(s, n + 1) = Apply(RollupAt(s, n), s[n + 1])
<1> DEFINE Def(st, k) == Apply(st, s[k])
<1> DEFINE g == RollupWalk(s)
<1>1. NatInductiveDefHypothesis(g, Deployed, Def)
  BY DEF NatInductiveDefHypothesis, RollupWalk
<1>2. NatInductiveDefConclusion(g, Deployed, Def)
  BY <1>1, NatInductiveDef
<1> HIDE DEF g
<1>3. g = [k \in Nat |-> IF k = 0 THEN Deployed ELSE Apply(g[k - 1], s[k])]
  BY <1>2 DEF NatInductiveDefConclusion
<1>4. g[n + 1] = Apply(g[n], s[n + 1]) /\ g[0] = Deployed
  <2>1. n + 1 \in Nat /\ n + 1 # 0 /\ (n + 1) - 1 = n
    OBVIOUS
  <2>2. g[n + 1] = Apply(g[(n + 1) - 1], s[n + 1])
    BY <1>3, <2>1
  <2> QED BY <1>3, <2>1, <2>2
<1> QED BY <1>4 DEF g, RollupAt

\* The contract that the model folds from L1's transactions is the last one.
LEMMA RollupIsAt ==
    ASSUME NEW S, NEW s \in Seq(S)
    PROVE  FoldLeft(Apply, Deployed, s) = RollupAt(s, Len(s))
<1> DEFINE r == FoldLeft(Apply, Deployed, s)
<1>1. FoldIs(r, Apply, Deployed, s)
  BY DEF FoldIs
<1>2. FoldSteps(r, Apply, Deployed, s)
  BY <1>1, FoldLeftSteps
<1> HIDE DEF r
<1>3. PICK g : /\ g[0] = Deployed
               /\ \A k \in 1..Len(s) : g[k] = Apply(g[k - 1], s[k])
               /\ r = g[Len(s)]
  BY <1>2 DEF FoldSteps
<1> DEFINE T == {k \in Nat : k <= Len(s) => g[k] = RollupAt(s, k)}
<1>4. 0 \in T
  BY <1>3, RollupAtNext
<1>5. ASSUME NEW k \in Nat, k \in T PROVE k + 1 \in T
  <2> SUFFICES ASSUME k + 1 <= Len(s) PROVE g[k + 1] = RollupAt(s, k + 1)
    OBVIOUS
  <2>1. k + 1 \in 1..Len(s) /\ (k + 1) - 1 = k /\ g[k] = RollupAt(s, k)
    BY <1>5
  <2> QED BY <1>3, <2>1, RollupAtNext
<1> HIDE DEF T
<1>6. Nat \subseteq T
  BY <1>4, <1>5, SetInduction
<1>7. Len(s) \in Nat
  OBVIOUS
<1> QED BY <1>3, <1>6, <1>7 DEF T, r

-----------------------------------------------------------------------------
(* What the contract has, it keeps                                         *)

\* Transactions and states, for whatever indices `X` there are.
L1Txs(X) == [kind : {"post", "claim"}, index : X, root : Seq(Nat)]
RollupStates(X) == [posted : Seq(Nat), claimed : SUBSET X]

Begins(r, s) == Len(r) <= Len(s) /\ \A k \in 1..Len(r) : r[k] = s[k]

\* IsPrefix, entry by entry.
LEMMA PrefixBegins ==
    ASSUME NEW r \in Seq(Nat), NEW s \in Seq(Nat)
    PROVE  IsPrefix(r, s) <=> Begins(r, s)
<1>1. SubSeq(r, 1, Len(r)) = r
  BY SubSeqFull
<1>2. ASSUME Len(r) <= Len(s)
      PROVE  r = SubSeq(s, 1, Len(r)) <=> \A k \in 1..Len(r) : r[k] = s[k]
  <2> DEFINE u == SubSeq(s, 1, Len(r))
  <2>1. /\ u \in Seq(Nat) /\ Len(u) = Len(r)
        /\ \A k \in 1..Len(r) : u[k] = s[k]
    BY <1>2
  <2> HIDE DEF u
  <2>2. r = u <=> \A k \in 1..Len(r) : r[k] = u[k]
    BY <2>1, SeqEqual
  <2> QED BY <2>1, <2>2 DEF u
<1> QED BY <1>1, <1>2 DEF IsPrefix, Begins

\* A beginning of a beginning is one.
LEMMA BeginsBegins ==
    ASSUME NEW a \in Seq(Nat), NEW b \in Seq(Nat), NEW c \in Seq(Nat), Begins(a, b), Begins(b, c)
    PROVE  Begins(a, c)
<1>1. Len(a) \in Nat /\ Len(b) \in Nat /\ Len(c) \in Nat
  OBVIOUS
<1>2. Len(a) <= Len(b) /\ Len(b) <= Len(c)
  BY DEF Begins
<1>3. ASSUME NEW k \in 1..Len(a) PROVE a[k] = c[k]
  <2>1. k \in 1..Len(b)
    BY <1>1, <1>2
  <2> QED BY <2>1 DEF Begins
<1> QED BY <1>1, <1>2, <1>3 DEF Begins

\* A transaction takes nothing back.
LEMMA ApplyKeeps ==
    ASSUME NEW X, NEW st \in RollupStates(X), NEW tx \in L1Txs(X)
    PROVE  /\ Apply(st, tx) \in RollupStates(X)
           /\ st.claimed \subseteq Apply(st, tx).claimed
           /\ Begins(st.posted, Apply(st, tx).posted)
<1>1. Begins(st.posted, st.posted)
  BY DEF Begins, RollupStates
<1>2. CASE tx.kind = "post"
  <2> DEFINE p == st.posted
  <2> DEFINE q == p \o tx.root
  <2>1. p \in Seq(Nat) /\ tx.root \in Seq(Nat)
    BY DEF RollupStates, L1Txs
  <2>2. q \in Seq(Nat) /\ Begins(p, q)
    <3> HIDE DEF p
    <3> DEFINE r == tx.root
    <3> HIDE DEF r
    <3>1. p \in Seq(Nat) /\ r \in Seq(Nat)
      BY <2>1 DEF r
    <3>2. /\ p \o r \in Seq(Nat) /\ Len(p \o r) = Len(p) + Len(r)
          /\ \A k \in 1..(Len(p) + Len(r)) : (p \o r)[k] = IF k <= Len(p) THEN p[k] ELSE r[k - Len(p)]
      BY <3>1, ConcatProperties
    <3>3. Len(p) \in Nat /\ Len(r) \in Nat
      BY <3>1
    <3>4. Begins(p, p \o r)
      BY <3>2, <3>3 DEF Begins
    <3> QED BY <3>2, <3>4 DEF r
  <2>3. Apply(st, tx) = [posted |-> q, claimed |-> st.claimed]
    <3>1. Apply(st, tx) = [st EXCEPT !.posted = st.posted \o tx.root]
      BY <1>2 DEF Apply
    <3> DEFINE longer == st.posted \o tx.root
    <3> HIDE DEF longer
    <3>2. [st EXCEPT !.posted = longer] = [posted |-> longer, claimed |-> st.claimed]
      BY DEF RollupStates
    <3> QED BY <3>1, <3>2 DEF longer
  <2> QED BY <2>2, <2>3 DEF RollupStates
<1>3. CASE tx.kind # "post" /\ tx.index \notin st.claimed /\ IsPrefix(tx.root, st.posted)
  <2>1. Apply(st, tx) = [posted |-> st.posted, claimed |-> st.claimed \cup {tx.index}]
    BY <1>3 DEF Apply, RollupStates
  <2> QED BY <2>1, <1>1 DEF RollupStates, L1Txs
<1>4. CASE tx.kind # "post" /\ ~(tx.index \notin st.claimed /\ IsPrefix(tx.root, st.posted))
  <2>1. Apply(st, tx) = st
    BY <1>4 DEF Apply
  <2> QED BY <2>1, <1>1
<1> QED BY <1>2, <1>3, <1>4

\* A claim against a root that the contract has leaves the message claimed,
\* also when it reverts.
LEMMA ApplyClaims ==
    ASSUME NEW X, NEW st \in RollupStates(X), NEW tx \in L1Txs(X),
           tx.kind = "claim", IsPrefix(tx.root, st.posted)
    PROVE  tx.index \in Apply(st, tx).claimed
BY DEF Apply, RollupStates

\* What the contract has posted and claimed, it keeps as L1 adds blocks.
LEMMA RollupKeeps ==
    ASSUME NEW X, NEW s \in Seq(L1Txs(X)), NEW n \in 0..Len(s), NEW m \in 0..n
    PROVE  /\ RollupAt(s, n) \in RollupStates(X)
           /\ RollupAt(s, m).claimed \subseteq RollupAt(s, n).claimed
           /\ Begins(RollupAt(s, m).posted, RollupAt(s, n).posted)
<1> DEFINE Good(k) ==
      k <= Len(s) =>
        \A j \in 0..k : /\ RollupAt(s, j) \in RollupStates(X)
                           /\ RollupAt(s, j).claimed \subseteq RollupAt(s, k).claimed
                           /\ Begins(RollupAt(s, j).posted, RollupAt(s, k).posted)
<1> DEFINE T == {k \in Nat : Good(k)}
<1>1. Good(0)
  <2>1. RollupAt(s, 0) = Deployed
    BY RollupAtNext
  <2>2. Deployed \in RollupStates(X) /\ Begins(<<>>, <<>>)
    BY DEF Deployed, RollupStates, Begins
  <2>3. Deployed.posted = <<>>
    BY DEF Deployed
  <2> SUFFICES ASSUME NEW j \in 0..0
               PROVE  /\ RollupAt(s, j) \in RollupStates(X)
                      /\ RollupAt(s, j).claimed \subseteq RollupAt(s, 0).claimed
                      /\ Begins(RollupAt(s, j).posted, RollupAt(s, 0).posted)
    OBVIOUS
  <2>4. j = 0
    OBVIOUS
  <2> QED BY <2>1, <2>2, <2>3, <2>4
<1>2. ASSUME NEW k \in Nat, Good(k) PROVE Good(k + 1)
  <2> SUFFICES ASSUME k + 1 <= Len(s)
               PROVE  \A j \in 0..(k + 1) :
                           /\ RollupAt(s, j) \in RollupStates(X)
                           /\ RollupAt(s, j).claimed \subseteq RollupAt(s, k + 1).claimed
                           /\ Begins(RollupAt(s, j).posted, RollupAt(s, k + 1).posted)
    OBVIOUS
  <2>1. k + 1 \in 1..Len(s) /\ k <= Len(s)
    OBVIOUS
  <2>2. s[k + 1] \in L1Txs(X)
    BY <2>1, ElementOfSeq
  <2>3. RollupAt(s, k + 1) = Apply(RollupAt(s, k), s[k + 1])
    BY RollupAtNext
  <2>4. RollupAt(s, k) \in RollupStates(X)
    BY <1>2, <2>1
  <2>5. /\ RollupAt(s, k + 1) \in RollupStates(X)
        /\ RollupAt(s, k).claimed \subseteq RollupAt(s, k + 1).claimed
        /\ Begins(RollupAt(s, k).posted, RollupAt(s, k + 1).posted)
    BY <2>2, <2>3, <2>4, ApplyKeeps
  <2>6. ASSUME NEW j \in 0..(k + 1)
        PROVE  /\ RollupAt(s, j) \in RollupStates(X)
               /\ RollupAt(s, j).claimed \subseteq RollupAt(s, k + 1).claimed
               /\ Begins(RollupAt(s, j).posted, RollupAt(s, k + 1).posted)
    <3>1. CASE j = k + 1
      BY <3>1, <2>5 DEF Begins, RollupStates
    <3>2. CASE j # k + 1
      <4>1. j \in 0..k
        BY <3>2
      <4>2. /\ RollupAt(s, j) \in RollupStates(X)
            /\ RollupAt(s, j).claimed \subseteq RollupAt(s, k).claimed
            /\ Begins(RollupAt(s, j).posted, RollupAt(s, k).posted)
        BY <1>2, <2>1, <4>1
      <4>3. Begins(RollupAt(s, j).posted, RollupAt(s, k + 1).posted)
        <5> DEFINE a == RollupAt(s, j).posted
        <5> DEFINE b == RollupAt(s, k).posted
        <5> DEFINE c == RollupAt(s, k + 1).posted
        <5>1. Begins(a, b) /\ Begins(b, c)
          BY <4>2, <2>5
        <5>2. a \in Seq(Nat) /\ b \in Seq(Nat) /\ c \in Seq(Nat)
          BY <4>2, <2>4, <2>5 DEF RollupStates
        <5> HIDE DEF a, b, c
        <5>3. Begins(a, c)
          BY <5>1, <5>2, BeginsBegins
        <5> QED BY <5>3 DEF a, c
      <4> QED BY <4>2, <4>3, <2>5
    <3> QED BY <3>1, <3>2
  <2> QED BY <2>5, <2>6
<1> HIDE DEF Good
<1>3. 0 \in T /\ \A k \in Nat : k \in T => k + 1 \in T
  BY <1>1, <1>2
<1> HIDE DEF T
<1>4. n \in T
  BY <1>3, SetInduction
<1>5. Good(n)
  BY <1>4 DEF T
<1> QED BY <1>5 DEF Good

\* A contract's history depends on no transaction after it.
LEMMA RollupAtSame ==
    ASSUME NEW r, NEW s, NEW n \in Nat, \A k \in 1..n : r[k] = s[k]
    PROVE  RollupAt(r, n) = RollupAt(s, n)
<1> DEFINE Good(k) == k <= n => RollupAt(r, k) = RollupAt(s, k)
<1> DEFINE T == {k \in Nat : Good(k)}
<1>1. Good(0)
  BY RollupAtNext
<1>2. ASSUME NEW k \in Nat, Good(k) PROVE Good(k + 1)
  <2> SUFFICES ASSUME k + 1 <= n PROVE RollupAt(r, k + 1) = RollupAt(s, k + 1)
    OBVIOUS
  <2>1. r[k + 1] = s[k + 1] /\ RollupAt(r, k) = RollupAt(s, k)
    BY <1>2
  <2>2. RollupAt(r, k + 1) = Apply(RollupAt(r, k), r[k + 1])
    BY RollupAtNext
  <2>3. RollupAt(s, k + 1) = Apply(RollupAt(s, k), s[k + 1])
    BY RollupAtNext
  <2> QED BY <2>1, <2>2, <2>3
<1> HIDE DEF Good
<1>3. 0 \in T /\ \A k \in Nat : k \in T => k + 1 \in T
  BY <1>1, <1>2
<1> HIDE DEF T
<1>4. n \in T
  BY <1>3, SetInduction
<1>5. Good(n)
  BY <1>4 DEF T
<1> QED BY <1>5 DEF Good

\* The same, for a chain that got one more transaction.
LEMMA RollupAppends ==
    ASSUME NEW X, NEW s \in Seq(L1Txs(X)), NEW tx \in L1Txs(X)
    PROVE  /\ \A n \in 0..Len(s) : RollupAt(Append(s, tx), n) = RollupAt(s, n)
           /\ FoldLeft(Apply, Deployed, s).claimed \subseteq FoldLeft(Apply, Deployed, Append(s, tx)).claimed
<1> DEFINE r == Append(s, tx)
<1>1. /\ r \in Seq(L1Txs(X)) /\ Len(r) = Len(s) + 1 /\ Len(s) \in Nat
      /\ \A k \in 1..Len(s) : r[k] = s[k]
  BY AppendProperties
<1> HIDE DEF r
<1>2. ASSUME NEW n \in 0..Len(s) PROVE RollupAt(r, n) = RollupAt(s, n)
  <2>1. n \in Nat /\ \A k \in 1..n : r[k] = s[k]
    BY <1>1
  <2> QED BY <2>1, RollupAtSame
<1>3. Len(s) \in 0..Len(r) /\ Len(r) \in 0..Len(r) /\ Len(s) \in 0..Len(s)
  BY <1>1
<1>4. RollupAt(r, Len(s)).claimed \subseteq RollupAt(r, Len(r)).claimed
  BY <1>1, <1>3, RollupKeeps
<1>5. RollupAt(r, Len(s)) = RollupAt(s, Len(s))
  BY <1>2, <1>3
<1>6. FoldLeft(Apply, Deployed, s) = RollupAt(s, Len(s))
  BY RollupIsAt
<1>7. FoldLeft(Apply, Deployed, r) = RollupAt(r, Len(r))
  BY <1>1, RollupIsAt
<1> QED BY <1>2, <1>4, <1>5, <1>6, <1>7 DEF r

-----------------------------------------------------------------------------
(* The inductive invariant of the withdrawals                              *)

Places == {"idle", "check", "prove", "send", "receipt"}

\* A thread, whose list is one of `X`.
ThreadStates(X) == [at : Places, todo : X, root : Seq(Nat), since : Nat]

\* What the variables are made of; `X` has the messages' indices and what is
\* left of each thread's list.
Shape(X) ==
    /\ l1Chain \in Seq(L1Txs(X))
    /\ claimTxs \subseteq L1Txs(X)
    /\ safe \in Seq(Nat)
    /\ claimers \in [Threads -> ThreadStates(X)]
    /\ disturbances \in Nat

\* A claim that waits for its receipt was sent when the contract had its root.
Awaits(c) ==
    c.at = "receipt" => /\ c.since \in 0..Len(l1Chain)
                        /\ IsPrefix(c.root, RollupAt(l1Chain, c.since).posted)

\* What the episode takes for claimed is claimed, unless L1 lost the claim or what
\* it is proven against.
EpisodeSound ==
    /\ known \ unpaid \subseteq Rollup.claimed
    /\ \A t \in Threads \ strays : Awaits(claimers[t])

WithdrawalsInv == (\E X : Shape(X)) /\ EpisodeSound

\* L1's next block takes nothing from the episode.
LEMMA L1BlockSound ==
    ASSUME NEW X, Shape(X), EpisodeSound, NEW tx \in L1Txs(X),
           l1Chain' = Append(l1Chain, tx), UNCHANGED <<known, claimers, unpaid, strays>>
    PROVE  l1Chain' \in Seq(L1Txs(X)) /\ EpisodeSound'
<1>1. /\ l1Chain' \in Seq(L1Txs(X)) /\ Len(l1Chain') = Len(l1Chain) + 1 /\ Len(l1Chain) \in Nat
  BY AppendProperties DEF Shape
<1>2. /\ \A n \in 0..Len(l1Chain) : RollupAt(l1Chain', n) = RollupAt(l1Chain, n)
      /\ Rollup.claimed \subseteq Rollup'.claimed
  BY RollupAppends DEF Shape, Rollup, Deployed
<1>3. ASSUME NEW t \in Threads \ strays PROVE Awaits(claimers[t])'
  BY <1>1, <1>2, <1>3 DEF EpisodeSound, Awaits
<1> QED BY <1>1, <1>2, <1>3 DEF EpisodeSound

\* A post is of the shape.
LEMMA PostIsTx ==
    ASSUME NEW X, NEW d \in Nat
    PROVE  Post(d) \in L1Txs(X \cup {0})
BY DEF Post, L1Txs

\* Shapes with more indices are shapes.
LEMMA ShapeGrows ==
    ASSUME NEW X, NEW Y, Shape(X), X \subseteq Y
    PROVE  Shape(Y)
<1>1. L1Txs(X) \subseteq L1Txs(Y)
  BY DEF L1Txs
<1>2. l1Chain \in Seq(L1Txs(Y))
  BY <1>1, SeqMonotonic DEF Shape
<1>3. claimers \in [Threads -> ThreadStates(Y)]
  BY DEF Shape, ThreadStates
<1> QED BY <1>1, <1>2, <1>3 DEF Shape

\* A thread goes to another place, for one message or the next.
LEMMA ThreadMoves ==
    ASSUME NEW X, NEW th \in ThreadStates(X), NEW place \in Places
    PROVE  [th EXCEPT !.at = place] \in ThreadStates(X) /\ [th EXCEPT !.at = place].at = place
BY DEF ThreadStates

\* A thread gets the root of the node.
Proving(th, r) == [th EXCEPT !.at = "send", !.root = r]

\* It stays a thread, and sends next.
LEMMA ThreadProves ==
    ASSUME NEW X, NEW th \in ThreadStates(X), NEW r \in Seq(Nat)
    PROVE  Proving(th, r) \in ThreadStates(X) /\ Proving(th, r).at = "send"
BY DEF ThreadStates, Proving, Places

\* A thread sends its claim when L1 has `n` blocks.
Sending(th, n) == [th EXCEPT !.at = "receipt", !.since = n]

\* It stays a thread, and awaits the receipt from then on.
LEMMA ThreadSends ==
    ASSUME NEW X, NEW th \in ThreadStates(X), NEW n \in Nat
    PROVE  /\ Sending(th, n) \in ThreadStates(X) /\ Sending(th, n).at = "receipt"
           /\ Sending(th, n).since = n /\ Sending(th, n).root = th.root
BY DEF ThreadStates, Sending, Places

\* A thread has another list.
Listing(th, place, rest) == [th EXCEPT !.todo = rest, !.at = place]

\* It stays a thread, at that place.
LEMMA ThreadLists ==
    ASSUME NEW X, NEW th \in ThreadStates(X), NEW place \in Places, NEW rest \in X
    PROVE  Listing(th, place, rest) \in ThreadStates(X) /\ Listing(th, place, rest).at = place
BY DEF ThreadStates, Listing

\* A thread that starts on a list awaits no receipt.
LEMMA IdleShape ==
    ASSUME NEW X, <<>> \in X, NEW rest \in X, NEW th
    PROVE  /\ Onwards(th, rest) \in ThreadStates(X) /\ Onwards(th, rest).at # "receipt"
           /\ Idle \in ThreadStates(X) /\ Idle.at # "receipt"
<1>1. "idle" \in Places /\ "check" \in Places
  BY DEF Places
<1>2. Idle \in ThreadStates(X) /\ Idle.at # "receipt"
  BY <1>1, EmptySeq DEF Idle, ThreadStates
<1>3. CASE rest = <<>>
  <2>1. Onwards(th, rest) = Listing(Idle, "idle", rest)
    BY ONLY <1>3 DEF Onwards, Listing
  <2> QED BY <1>1, <1>2, <2>1, ThreadLists
<1>4. CASE rest # <<>>
  <2>1. Onwards(th, rest) = Listing(Idle, "check", rest)
    BY ONLY <1>4 DEF Onwards, Listing
  <2> QED BY <1>1, <1>2, <2>1, ThreadLists
<1> QED BY <1>2, <1>3, <1>4

\* The initial state.
LEMMA WithdrawalsInitInv == ASSUME WithdrawalsInit PROVE WithdrawalsInv
<1>1. Idle \in ThreadStates({<<>>}) /\ Idle.at # "receipt"
  BY IdleShape
<1>2. Shape({<<>>})
  <2>1. <<>> \in Seq(Nat) /\ <<>> \in Seq(L1Txs({<<>>}))
    BY EmptySeq
  <2> QED BY <1>1, <2>1 DEF WithdrawalsInit, Shape
<1>3. EpisodeSound
  BY <1>1 DEF WithdrawalsInit, EpisodeSound, Awaits
<1> QED BY <1>2, <1>3 DEF WithdrawalsInv

\* The contract that the chain adds up to is well typed.
LEMMA RollupShape ==
    ASSUME NEW X, Shape(X)
    PROVE  /\ Rollup \in RollupStates(X)
           /\ Rollup = RollupAt(l1Chain, Len(l1Chain))
           /\ Len(l1Chain) \in Nat
<1>1. Len(l1Chain) \in Nat
  BY DEF Shape
<1>2. Len(l1Chain) \in 0..Len(l1Chain)
  BY <1>1
<1>3. RollupAt(l1Chain, Len(l1Chain)) \in RollupStates(X)
  BY <1>2, RollupKeeps DEF Shape
<1>4. Rollup = RollupAt(l1Chain, Len(l1Chain))
  BY RollupIsAt DEF Rollup, Deployed, Shape
<1> QED BY <1>1, <1>3, <1>4

\* A new post.
LEMMA NewPostStep ==
    ASSUME NEW X, Shape(X), EpisodeSound, NewPost
    PROVE  WithdrawalsInv'
<1> DEFINE Y == X \cup {0}
<1>1. Shape(Y)
  BY ShapeGrows
<1>2. Post(disturbances) \in L1Txs(Y)
  BY PostIsTx DEF Shape
<1>3. l1Chain' \in Seq(L1Txs(Y)) /\ EpisodeSound'
  BY <1>1, <1>2, L1BlockSound DEF NewPost
<1> HIDE DEF Y
<1>4. Shape(Y)'
  BY <1>1, <1>3 DEF Shape, NewPost
<1> QED BY <1>3, <1>4 DEF WithdrawalsInv

\* L1 includes a claim of the runner's.
LEMMA IncludeClaimStep ==
    ASSUME NEW X, Shape(X), EpisodeSound, IncludeClaim
    PROVE  WithdrawalsInv'
<1>1. PICK c \in claimTxs : l1Chain' = Append(l1Chain, c) /\ claimTxs' = claimTxs \ {c}
  BY DEF IncludeClaim
<1>2. c \in L1Txs(X)
  BY DEF Shape
<1>3. l1Chain' \in Seq(L1Txs(X)) /\ EpisodeSound'
  BY <1>1, <1>2, L1BlockSound DEF IncludeClaim
<1>4. Shape(X)'
  BY <1>1, <1>3 DEF Shape, IncludeClaim
<1> QED BY <1>3, <1>4 DEF WithdrawalsInv

\* Somebody else claims.
LEMMA ClaimByOthersStep ==
    ASSUME NEW X, Shape(X), EpisodeSound, ClaimByOthers
    PROVE  WithdrawalsInv'
<1>1. PICK i \in DOMAIN Rollup.posted \ Rollup.claimed : l1Chain' = Append(l1Chain, Claim(i, Rollup.posted))
  BY DEF ClaimByOthers
<1> DEFINE Y == X \cup {i}
<1>2. Shape(Y)
  BY ShapeGrows
<1>3. Rollup.posted \in Seq(Nat)
  BY RollupShape DEF RollupStates
<1>4. Claim(i, Rollup.posted) \in L1Txs(Y)
  BY <1>3 DEF Claim, L1Txs
<1>5. l1Chain' \in Seq(L1Txs(Y)) /\ EpisodeSound'
  BY <1>1, <1>2, <1>4, L1BlockSound DEF ClaimByOthers
<1> HIDE DEF Y
<1>6. Shape(Y)'
  BY <1>2, <1>5 DEF Shape, ClaimByOthers
<1> QED BY <1>5, <1>6 DEF WithdrawalsInv

\* L1 loses blocks, and what was known by a claim in them, or waits for a receipt
\* with a root in them, is left out from then on.
LEMMA LoseClaimsStep ==
    ASSUME NEW X, Shape(X), EpisodeSound, LoseClaims
    PROVE  WithdrawalsInv'
<1>1. PICK n \in 0..(Len(l1Chain) - 1) :
        /\ l1Chain' = SubSeq(l1Chain, 1, n)
        /\ claimTxs' = claimTxs \cup {c \in {l1Chain[k] : k \in (n + 1)..Len(l1Chain)} : c.kind = "claim"}
        /\ claimers' = [t \in Threads |-> [claimers[t] EXCEPT !.since = IF @ > n THEN n ELSE @]]
  BY DEF LoseClaims
<1>2. Len(l1Chain) \in Nat /\ \A k \in 1..Len(l1Chain) : l1Chain[k] \in L1Txs(X)
  BY DEF Shape
<1>3. l1Chain' \in Seq(L1Txs(X))
  BY <1>1, <1>2, SubSeqProperties
<1>4. claimTxs' \subseteq L1Txs(X)
  BY <1>1, <1>2 DEF Shape
<1>5. claimers' \in [Threads -> ThreadStates(X)]
  <2>1. ASSUME NEW c \in ThreadStates(X)
        PROVE  [c EXCEPT !.since = IF @ > n THEN n ELSE @] \in ThreadStates(X)
    <3>1. n \in Nat
      BY <1>2
    <3> QED BY <3>1 DEF ThreadStates, Places
  <2>2. \A t \in Threads : claimers[t] \in ThreadStates(X)
    BY DEF Shape
  <2> QED BY <1>1, <2>1, <2>2
<1>6. Shape(X)'
  BY <1>3, <1>4, <1>5 DEF Shape, LoseClaims
<1>7. known' = known /\ unpaid' = unpaid \cup (known \ Rollup'.claimed)
  BY DEF LoseClaims
<1>8. n \in 0..Len(l1Chain) /\ Len(l1Chain') = n
  BY <1>1, <1>2, SubSeqProperties
<1>9. ASSUME NEW t \in Threads \ strays' PROVE Awaits(claimers[t])'
  <2> DEFINE c == claimers[t]
  <2>1. t \notin strays /\ (c.at = "receipt" => IsPrefix(c.root, Rollup'.posted))
    BY <1>9 DEF LoseClaims
  <2>2. /\ claimers'[t].at = c.at /\ claimers'[t].root = c.root
        /\ claimers'[t].since = IF c.since > n THEN n ELSE c.since
    BY <1>1 DEF Shape, ThreadStates
  <2>3. Awaits(c)
    BY <2>1 DEF EpisodeSound
  <2>4. Rollup' = RollupAt(l1Chain', n)
    BY <1>3, <1>8, RollupIsAt DEF Rollup, Deployed
  <2> HIDE DEF c
  <2> SUFFICES ASSUME c.at = "receipt"
               PROVE  /\ claimers'[t].since \in 0..n
                      /\ IsPrefix(c.root, RollupAt(l1Chain', claimers'[t].since).posted)
    BY <1>8, <2>2 DEF Awaits
  <2>5. c.since \in 0..Len(l1Chain) /\ IsPrefix(c.root, RollupAt(l1Chain, c.since).posted)
    BY <2>3 DEF Awaits
  <2>6. CASE c.since > n
    <3>1. claimers'[t].since = n /\ n \in 0..n
      BY <1>8, <2>2, <2>6
    <3> QED BY <2>1, <2>4, <3>1
  <2>7. CASE ~(c.since > n)
    <3>1. claimers'[t].since = c.since /\ c.since \in 0..n /\ c.since \in Nat
      BY <1>2, <1>8, <2>2, <2>5, <2>7
    <3>2. \A k \in 1..c.since : l1Chain'[k] = l1Chain[k]
      <4>1. \A k \in 1..n : SubSeq(l1Chain, 1, n)[k] = l1Chain[k]
        BY <1>2, <1>8
      <4> QED BY <1>1, <1>8, <3>1, <4>1
    <3>3. RollupAt(l1Chain', c.since) = RollupAt(l1Chain, c.since)
      BY <3>1, <3>2, RollupAtSame
    <3> QED BY <2>5, <3>1, <3>3
  <2> QED BY <2>6, <2>7
<1>10. EpisodeSound'
  BY <1>7, <1>9 DEF EpisodeSound
<1> QED BY <1>6, <1>10 DEF WithdrawalsInv

\* The node follows the posts.
LEMMA FollowPostsStep ==
    ASSUME NEW X, Shape(X), EpisodeSound, FollowPosts
    PROVE  WithdrawalsInv'
<1>1. Rollup.posted \in Seq(Nat)
  BY RollupShape DEF RollupStates
<1>2. Shape(X)'
  BY <1>1 DEF Shape, FollowPosts
<1>3. EpisodeSound'
  BY DEF FollowPosts, EpisodeSound, Awaits, Rollup
<1> QED BY <1>2, <1>3 DEF WithdrawalsInv

\* The next episode takes nothing for claimed.
LEMMA NextEpisodeStep ==
    ASSUME NEW X, Shape(X), NextEpisode
    PROVE  WithdrawalsInv'
<1> DEFINE Y == X \cup {<<>>}
<1>1. Shape(Y)
  BY ShapeGrows
<1>2. safe' \in Seq(Nat)
  <2>1. Rollup.posted \in Seq(Nat) /\ safe \in Seq(Nat)
    BY RollupShape DEF RollupStates, Shape
  <2> DEFINE n == Len(Rollup.posted)
  <2>2. n \in Nat
    BY <2>1
  <2>3. safe' \in {safe, IF n < Len(safe) THEN SubSeq(safe, 1, n) ELSE safe}
    BY DEF NextEpisode
  <2> HIDE DEF n
  <2>4. CASE safe' = safe
    BY <2>1, <2>4
  <2>5. CASE n < Len(safe) /\ safe' = SubSeq(safe, 1, n)
    <3>1. \A k \in 1..n : safe[k] \in Nat
      BY <2>1, <2>2, <2>5
    <3> QED BY <3>1, <2>2, <2>5, SubSeqProperties
  <2> QED BY <2>3, <2>4, <2>5
<1>3. Idle \in ThreadStates(Y) /\ Idle.at # "receipt"
  BY IdleShape
<1>4. claimers' = [t \in Threads |-> Idle] /\ known' = {} /\ UNCHANGED <<l1Chain, claimTxs>>
  BY DEF NextEpisode
<1>5. disturbances' \in Nat
  BY DEF Shape, NextEpisode
<1> HIDE DEF Y
<1>6. Shape(Y)'
  BY <1>1, <1>2, <1>3, <1>4, <1>5 DEF Shape
<1>7. EpisodeSound'
  BY <1>3, <1>4 DEF EpisodeSound, Awaits
<1> QED BY <1>6, <1>7 DEF WithdrawalsInv

\* A step of a thread leaves L1 and the other thread alone.
LEMMA ThreadStep ==
    ASSUME NEW X, Shape(X), EpisodeSound, NEW t \in Threads, NEW c \in ThreadStates(X),
           UNCHANGED <<l1Chain, safe, disturbances>>, claimTxs' \subseteq L1Txs(X),
           claimers' = [claimers EXCEPT ![t] = c], strays \ {t} \subseteq strays',
           known' \ unpaid' \subseteq Rollup.claimed, t \in strays' \/ Awaits(c)
    PROVE  WithdrawalsInv'
<1>1. Shape(X)'
  BY DEF Shape
<1>2. ASSUME NEW u \in Threads \ strays' PROVE Awaits(claimers[u])'
  <2>1. u # t => Awaits(claimers[u])
    BY <1>2 DEF EpisodeSound
  <2>2. u = t => claimers'[u] = c
    BY DEF Shape
  <2>3. u # t => claimers'[u] = claimers[u]
    BY DEF Shape
  <2> QED BY <1>2, <2>1, <2>2, <2>3 DEF Awaits
<1>3. EpisodeSound'
  BY <1>2 DEF EpisodeSound, Rollup
<1> QED BY <1>1, <1>3 DEF WithdrawalsInv

\* A thread that goes on with another message.
LEMMA OnwardsStep ==
    ASSUME NEW X, Shape(X), EpisodeSound, NEW t \in Threads, NEW rest,
           UNCHANGED <<l1Chain, safe, strays, disturbances, claimTxs>>,
           claimers' = [claimers EXCEPT ![t] = Onwards(claimers[t], rest)],
           known' \ unpaid' \subseteq Rollup.claimed
    PROVE  WithdrawalsInv'
<1> DEFINE Y == X \cup {rest, <<>>}
<1> DEFINE c == Onwards(claimers[t], rest)
<1>1. Shape(Y)
  BY ShapeGrows
<1>2. rest \in Y /\ <<>> \in Y
  OBVIOUS
<1> HIDE DEF Y
<1>3. c \in ThreadStates(Y) /\ c.at # "receipt"
  BY <1>2, IdleShape
<1>4. Awaits(c)
  BY <1>3 DEF Awaits
<1>5. claimTxs' \subseteq L1Txs(Y)
  BY <1>1 DEF Shape
<1> HIDE DEF c
<1>6. claimers' = [claimers EXCEPT ![t] = c]
  BY DEF c
<1> QED BY <1>1, <1>3, <1>4, <1>5, <1>6, ThreadStep

\* A thread lists what is due.
LEMMA ListStep ==
    ASSUME NEW X, Shape(X), EpisodeSound, NEW t \in Threads, List(t)
    PROVE  WithdrawalsInv'
<1>1. known' \subseteq known \cup Rollup.claimed
  BY DEF List
<1>2. known' \ unpaid' \subseteq Rollup.claimed
  BY <1>1 DEF EpisodeSound, List
<1> DEFINE due == {i \in DOMAIN safe : (t = "story" <=> i \in UserMessages) /\ i \notin known}
<1> DEFINE rest == InBlockOrder(due \ known', Len(safe))
<1>3. claimers' = [claimers EXCEPT ![t] = Onwards(claimers[t], rest)]
  BY DEF List
<1> HIDE DEF rest, due
<1> QED BY <1>2, <1>3, OnwardsStep DEF List, At

\* A thread checks whether the message is claimed.
LEMMA CheckStep ==
    ASSUME NEW X, Shape(X), EpisodeSound, NEW t \in Threads, Check(t)
    PROVE  WithdrawalsInv'
<1>1. CASE Message(t) \in Rollup.claimed
  <2>1. known' \ unpaid' \subseteq Rollup.claimed
    BY <1>1 DEF Check, EpisodeSound
  <2> DEFINE rest == Tail(claimers[t].todo)
  <2>2. claimers' = [claimers EXCEPT ![t] = Onwards(claimers[t], rest)]
    BY <1>1 DEF Check, Done
  <2> HIDE DEF rest
  <2> QED BY <2>1, <2>2, OnwardsStep DEF Check, At
<1>2. CASE Message(t) \notin Rollup.claimed
  <2> DEFINE c == [claimers[t] EXCEPT !.at = "prove"]
  <2>1. c \in ThreadStates(X) /\ c.at = "prove"
    <3>1. claimers[t] \in ThreadStates(X) /\ "prove" \in Places
      BY DEF Shape, Places
    <3> QED BY <3>1, ThreadMoves
  <2>2. claimers' = [claimers EXCEPT ![t] = c]
    BY <1>2 DEF Check
  <2> HIDE DEF c
  <2>3. Awaits(c) /\ claimTxs' \subseteq L1Txs(X)
    BY <2>1 DEF Awaits, Check, Shape
  <2>4. known' \ unpaid' \subseteq Rollup.claimed
    BY <1>2 DEF Check, EpisodeSound
  <2> QED BY <2>1, <2>2, <2>3, <2>4, ThreadStep DEF Check, At
<1> QED BY <1>1, <1>2

\* The node proves the message.
LEMMA ProveStep ==
    ASSUME NEW X, Shape(X), EpisodeSound, NEW t \in Threads, Prove(t)
    PROVE  WithdrawalsInv'
<1> DEFINE c == [claimers[t] EXCEPT !.at = "send", !.root = safe]
<1>1. c \in ThreadStates(X) /\ c.at = "send"
  <2>1. claimers[t] \in ThreadStates(X) /\ safe \in Seq(Nat)
    BY DEF Shape, Places
  <2>2. c = Proving(claimers[t], safe)
    BY DEF Proving
  <2> HIDE DEF c
  <2> QED BY <2>1, <2>2, ThreadProves
<1>2. claimers' = [claimers EXCEPT ![t] = c]
  BY DEF Prove, Shape, ThreadStates
<1> HIDE DEF c
<1>3. Awaits(c) /\ claimTxs' \subseteq L1Txs(X)
  BY <1>1 DEF Awaits, Prove, Shape
<1>4. known' \ unpaid' \subseteq Rollup.claimed
  BY DEF Prove, EpisodeSound
<1> QED BY <1>1, <1>2, <1>3, <1>4, ThreadStep DEF Prove, At

\* A claim is sent, when the contract has its root.
LEMMA SendWithdrawalStep ==
    ASSUME NEW X, Shape(X), EpisodeSound, NEW t \in Threads, SendWithdrawal(t)
    PROVE  WithdrawalsInv'
<1>1. known' \ unpaid' \subseteq Rollup.claimed
  BY DEF SendWithdrawal, EpisodeSound
<1>2. CASE HasRoot(claimers[t].root)
  <2> DEFINE Y == X \cup {Message(t)}
  <2> DEFINE c == [claimers[t] EXCEPT !.at = "receipt", !.since = Len(l1Chain)]
  <2>1. Shape(Y)
    BY ShapeGrows
  <2>2. Len(l1Chain) \in Nat /\ Rollup = RollupAt(l1Chain, Len(l1Chain))
    BY RollupShape
  <2>3. claimers[t] \in ThreadStates(Y)
    BY <2>1 DEF Shape
  <2>4. Claim(Message(t), claimers[t].root) \in L1Txs(Y)
    BY <2>3 DEF Claim, L1Txs, ThreadStates
  <2>5. c \in ThreadStates(Y) /\ c.at = "receipt" /\ c.since = Len(l1Chain) /\ c.root = claimers[t].root
    <3>1. c = Sending(claimers[t], Len(l1Chain))
      BY DEF Sending
    <3> HIDE DEF c
    <3> QED BY <2>2, <2>3, <3>1, ThreadSends
  <2>6. claimers' = [claimers EXCEPT ![t] = c]
    BY <1>2 DEF SendWithdrawal
  <2>7. claimTxs' = claimTxs \cup {Claim(Message(t), claimers[t].root)}
    BY <1>2 DEF SendWithdrawal
  <2> HIDE DEF c, Y
  <2>8. Awaits(c)
    BY <1>2, <2>2, <2>5 DEF Awaits, HasRoot
  <2>9. claimTxs' \subseteq L1Txs(Y)
    BY <2>1, <2>4, <2>7 DEF Shape
  <2> QED BY <1>1, <2>1, <2>5, <2>6, <2>8, <2>9, ThreadStep DEF SendWithdrawal, At
<1>3. CASE ~HasRoot(claimers[t].root)
  <2> DEFINE rest == Tail(claimers[t].todo)
  <2>1. claimers' = [claimers EXCEPT ![t] = Onwards(claimers[t], rest)]
    BY <1>3 DEF SendWithdrawal, Done
  <2> HIDE DEF rest
  <2> QED BY <1>1, <1>3, <2>1, OnwardsStep DEF SendWithdrawal, At
<1> QED BY <1>2, <1>3

\* The receipt of a claim, whatever its status, says that the message is
\* claimed: since the claim was sent the contract has kept its root.
LEMMA ReceiptStep ==
    ASSUME NEW X, Shape(X), EpisodeSound, NEW t \in Threads, Receipt(t)
    PROVE  WithdrawalsInv'
<1> DEFINE c == claimers[t]
<1> DEFINE tx == Claim(Message(t), c.root)
<1>1. PICK k \in (c.since + 1)..Len(l1Chain) : l1Chain[k] = tx
  BY DEF Receipt
<1>2. c \in ThreadStates(X) /\ c.at = "receipt"
  BY DEF Shape, Receipt, At
<1>3. /\ Rollup = RollupAt(l1Chain, Len(l1Chain)) /\ Len(l1Chain) \in Nat
      /\ l1Chain \in Seq(L1Txs(X))
  BY RollupShape DEF Shape
<1>4. tx.index = Message(t) /\ tx.kind = "claim" /\ tx.root = c.root
  BY DEF Claim
<1> HIDE DEF c, tx
<1>5. ASSUME t \notin strays PROVE Message(t) \in Rollup.claimed
  <2>1. c.since \in 0..Len(l1Chain) /\ IsPrefix(c.root, RollupAt(l1Chain, c.since).posted)
    BY <1>2, <1>5 DEF EpisodeSound, Awaits, c
  <2>2. PICK j \in Nat : k = j + 1 /\ c.since \in 0..j /\ j \in 0..Len(l1Chain)
    <3>1. c.since \in Nat /\ k \in Nat /\ k - 1 \in Nat /\ c.since <= k - 1
      BY <1>3, <2>1
    <3> QED BY <1>3, <3>1
  <2>3. /\ RollupAt(l1Chain, c.since) \in RollupStates(X)
        /\ RollupAt(l1Chain, j) \in RollupStates(X)
        /\ Begins(RollupAt(l1Chain, c.since).posted, RollupAt(l1Chain, j).posted)
    BY <1>3, <2>1, <2>2, RollupKeeps
  <2>4. IsPrefix(c.root, RollupAt(l1Chain, j).posted)
    <3> DEFINE a == RollupAt(l1Chain, c.since).posted
    <3> DEFINE b == RollupAt(l1Chain, j).posted
    <3>1. c.root \in Seq(Nat) /\ a \in Seq(Nat) /\ b \in Seq(Nat)
      BY <1>2, <2>3 DEF ThreadStates, Places, RollupStates
    <3>2. IsPrefix(c.root, a) /\ Begins(a, b)
      BY <2>1, <2>3
    <3> HIDE DEF a, b
    <3>3. Begins(c.root, a)
      BY <3>1, <3>2, PrefixBegins
    <3>4. Begins(c.root, b)
      BY <3>1, <3>2, <3>3, BeginsBegins
    <3>5. IsPrefix(c.root, b)
      BY <3>1, <3>4, PrefixBegins
    <3> QED BY <3>5 DEF b
  <2>5. k \in 1..Len(l1Chain) /\ tx \in L1Txs(X)
    <3>1. k \in 1..Len(l1Chain)
      BY <1>3, <2>2
    <3> QED BY <1>1, <1>3, <3>1, ElementOfSeq
  <2>6. RollupAt(l1Chain, k) = Apply(RollupAt(l1Chain, j), tx)
    BY <1>1, <2>2, RollupAtNext
  <2>7. Message(t) \in RollupAt(l1Chain, k).claimed
    BY <1>4, <2>3, <2>4, <2>5, <2>6, ApplyClaims
  <2>8. k \in 0..Len(l1Chain) /\ Len(l1Chain) \in 0..Len(l1Chain)
    BY <1>3, <2>5
  <2>9. RollupAt(l1Chain, k).claimed \subseteq RollupAt(l1Chain, Len(l1Chain)).claimed
    BY <1>3, <2>8, RollupKeeps
  <2> QED BY <1>3, <2>7, <2>9
<1>6. known' \ unpaid' \subseteq Rollup.claimed
  BY <1>5 DEF Receipt, EpisodeSound
<1> DEFINE rest == Tail(claimers[t].todo)
<1>7. claimers' = [claimers EXCEPT ![t] = Onwards(claimers[t], rest)]
  BY DEF Receipt, Done
<1> HIDE DEF rest
<1> QED BY <1>6, <1>7, OnwardsStep DEF Receipt, At

\* A claim ends without a receipt.
LEMMA GiveUpStep ==
    ASSUME NEW X, Shape(X), EpisodeSound, NEW t \in Threads, GiveUp(t)
    PROVE  WithdrawalsInv'
<1>1. known' \ unpaid' \subseteq Rollup.claimed
  BY DEF GiveUp, EpisodeSound
<1> DEFINE rest == Tail(claimers[t].todo)
<1>2. claimers' = [claimers EXCEPT ![t] = Onwards(claimers[t], rest)]
  BY DEF GiveUp, Done
<1> HIDE DEF rest
<1> QED BY <1>1, <1>2, OnwardsStep DEF GiveUp

\* Every step of the withdrawals.
LEMMA WithdrawalsStep == ASSUME WithdrawalsInv, WithdrawalsNext PROVE WithdrawalsInv'
<1>1. PICK X : Shape(X)
  BY DEF WithdrawalsInv
<1>2. EpisodeSound
  BY DEF WithdrawalsInv
<1>3. CASE NewPost
  BY <1>1, <1>2, <1>3, NewPostStep
<1>4. CASE IncludeClaim
  BY <1>1, <1>2, <1>4, IncludeClaimStep
<1>5. CASE ClaimByOthers
  BY <1>1, <1>2, <1>5, ClaimByOthersStep
<1>6. CASE LoseClaims
  BY <1>1, <1>2, <1>6, LoseClaimsStep
<1>7. CASE FollowPosts
  BY <1>1, <1>2, <1>7, FollowPostsStep
<1>8. CASE NextEpisode
  BY <1>1, <1>8, NextEpisodeStep
<1>9. ASSUME NEW t \in Threads,
             List(t) \/ Check(t) \/ Prove(t) \/ SendWithdrawal(t) \/ Receipt(t) \/ GiveUp(t)
      PROVE  WithdrawalsInv'
  BY <1>1, <1>2, <1>9, ListStep, CheckStep, ProveStep, SendWithdrawalStep, ReceiptStep, GiveUpStep
<1> QED BY <1>3, <1>4, <1>5, <1>6, <1>7, <1>8, <1>9 DEF WithdrawalsNext

\* A step that leaves the variables of the withdrawals alone.
LEMMA WithdrawalsStutter ==
    ASSUME WithdrawalsInv, UNCHANGED withdrawalsVars
    PROVE  WithdrawalsInv'
<1>1. PICK X : Shape(X)
  BY DEF WithdrawalsInv
<1>2. Shape(X)'
  BY <1>1 DEF Shape, withdrawalsVars
<1>3. EpisodeSound'
  BY DEF WithdrawalsInv, EpisodeSound, Awaits, Rollup, withdrawalsVars
<1> QED BY <1>2, <1>3 DEF WithdrawalsInv

\* What an episode takes for claimed, and never claims again, is claimed on
\* L1, for any number of messages, blocks, reorgs and episodes: the claim of
\* which the runner has a receipt either claimed the message or found it
\* claimed (demo/runner.py, Episode.claim; claim_l2_message of
\* frames_operator.py).  This leaves out the messages whose claim L1 lost after
\* the episode knew of it, and those whose claim waited for its receipt while L1
\* lost the block it is proven against: `unpaid`.
THEOREM KnownIsAlwaysClaimed == DemoSpec => []KnownIsClaimed
<1>1. DemoInit => WithdrawalsInv
  BY WithdrawalsInitInv DEF DemoInit
<1>2. WithdrawalsInv /\ [DemoNext]_demoVars => WithdrawalsInv'
  <2> SUFFICES ASSUME WithdrawalsInv, [DemoNext]_demoVars PROVE WithdrawalsInv'
    OBVIOUS
  <2>1. CASE WithdrawalsNext
    BY <2>1, WithdrawalsStep
  <2>2. CASE UNCHANGED withdrawalsVars
    BY <2>2, WithdrawalsStutter
  <2> QED BY <2>1, <2>2 DEF DemoNext, demoVars
<1>3. WithdrawalsInv => KnownIsClaimed
  BY DEF WithdrawalsInv, EpisodeSound, KnownIsClaimed
<1> QED BY <1>1, <1>2, <1>3, PTL DEF DemoSpec

-----------------------------------------------------------------------------
(* The pool: pending transactions, and what a block takes of them          *)

\* The pool's invariant, in any run of the parts.
LEMMA PoolInvariant == DemoSpec => []PoolInv
<1>1. DemoInit => PoolInv
  BY PoolInitInv DEF DemoInit
<1>2. PoolInv /\ [DemoNext]_demoVars => PoolInv'
  <2> SUFFICES ASSUME PoolInv, [DemoNext]_demoVars PROVE PoolInv'
    OBVIOUS
  <2>1. CASE PoolNext
    BY <2>1, PoolStep
  <2>2. CASE UNCHANGED poolVars
    BY <2>2, PoolStutter
  <2> QED BY <2>1, <2>2 DEF DemoNext, demoVars
<1> QED BY <1>1, <1>2, PTL DEF DemoSpec

\* A message has one claim on its way and a nonce one transaction, for any
\* traffic: after any mix of replacements, blocks that were built or derived,
\* drops, crashes and restarts that offer dropped transactions again
\* (l2_node.py, send_raw_transaction, added, drop_preconfirmed, unpost).
THEOREM OnePendingClaimEver == DemoSpec => []OnePendingClaim
<1>1. PoolInv => OnePendingClaim
  <2> SUFFICES ASSUME PoolInv PROVE OnePendingClaim
    OBVIOUS
  <2>1. DOMAIN pool = 1..Len(pool)
    BY LenProperties DEF PoolInv, PoolShape
  <2> QED BY <2>1 DEF PoolInv, OnePendingClaim, Apart, Ahead, Compatible
<1> QED BY <1>1, PoolInvariant, PTL

\* A block that the node builds has every transaction that is ready, for any
\* number of senders and transactions, in whatever order they arrived and
\* whatever was replaced, dropped or claimed before, unless the block is full
\* (l2_node.py, preconfirm, execute).
THEOREM BlocksAlwaysTakeTheReady == DemoSpec => BlockTakesTheReady
<1>1. PoolInv /\ [DemoNext]_demoVars =>
        [\A t \in ToSet(pool) :
            Len(chain') > Len(chain) /\ posted' = posted /\ Len(pool) <= MAX_BLOCK_TXS /\ Ready(t) =>
                \/ t \in ToSet(Last(chain').txs)
                \/ Len(Last(chain').txs) = BlockGas]_poolVars
  <2>1. ASSUME PoolInv, PoolNext, NEW t \in ToSet(pool), Len(chain') > Len(chain), posted' = posted,
               Len(pool) <= MAX_BLOCK_TXS, Ready(t)
        PROVE  t \in ToSet(Last(chain').txs) \/ Len(Last(chain').txs) = BlockGas
    BY <2>1, BlocksTakeTheReady
  <2> QED BY <2>1 DEF DemoNext, demoVars
<1> QED BY <1>1, PoolInvariant, PTL DEF DemoSpec, BlockTakesTheReady

-----------------------------------------------------------------------------
(* Posting: what was sent, while nothing is lost                           *)

\* The chain up to a block, the post of the block that follows it, and the
\* posts of the blocks that follow the first `m` and no more than `n - 1`.
ChainTo(s, n) == SubSeq(s, 1, n)
PostOf(s, n) == [block |-> ChainTo(s, n + 1), nonce |-> n]
PostsOf(s, m, n) == {PostOf(s, k) : k \in m..(n - 1)}

\* The blocks of a chain, one by one.
LEMMA ChainIs ==
    ASSUME NEW s \in Seq(Nat), NEW n \in Nat, n <= Len(s)
    PROVE  /\ ChainTo(s, n) \in Seq(Nat)
           /\ Len(ChainTo(s, n)) = n
           /\ \A i \in 1..n : ChainTo(s, n)[i] = s[i]
<1>1. Len(s) \in Nat /\ \A i \in 1..n : s[i] \in Nat
  BY LenProperties, ElementOfSeq
<1> QED BY <1>1, SubSeqProperties DEF ChainTo

\* Two chains with the same blocks are the same.
LEMMA ChainsEqual ==
    ASSUME NEW r \in Seq(Nat), NEW s \in Seq(Nat), Len(r) = Len(s),
           \A i \in 1..Len(r) : r[i] = s[i]
    PROVE  r = s
BY SeqEqual

\* The parent of a block, and the chain it is on.
LEMMA ParentIs ==
    ASSUME NEW s \in Seq(Nat), NEW n \in Nat, n + 1 <= Len(s)
    PROVE  ChainTo(s, n + 1) # <<>> /\ Front(ChainTo(s, n + 1)) = ChainTo(s, n)
<1> DEFINE c == ChainTo(s, n + 1)
<1>0. n + 1 \in Nat /\ Len(s) \in Nat /\ n <= Len(s)
  BY LenProperties
<1>1. c \in Seq(Nat) /\ Len(c) = n + 1 /\ \A i \in 1..(n + 1) : c[i] = s[i]
  BY <1>0, ChainIs
<1>2. /\ ChainTo(s, n) \in Seq(Nat) /\ Len(ChainTo(s, n)) = n
      /\ \A i \in 1..n : ChainTo(s, n)[i] = s[i]
  BY <1>0, ChainIs
<1> HIDE DEF c
<1>3. /\ ChainTo(c, n) \in Seq(Nat) /\ Len(ChainTo(c, n)) = n
      /\ \A i \in 1..n : ChainTo(c, n)[i] = c[i]
  <2>1. n <= Len(c)
    BY <1>1
  <2> QED BY <1>1, <2>1, ChainIs
<1>4. ChainTo(c, n) = ChainTo(s, n)
  <2>1. \A i \in 1..n : c[i] = s[i]
    BY <1>1
  <2> QED BY <1>2, <1>3, <2>1, ChainsEqual
<1>5. Front(c) = ChainTo(c, n)
  <2>1. Len(c) - 1 = n
    BY <1>1
  <2> QED BY <2>1 DEF Front, ChainTo
<1>6. c # <<>>
  BY <1>1
<1> QED BY <1>4, <1>5, <1>6 DEF c

\* The chain is a beginning of the node's.
LEMMA ChainIsPrefix ==
    ASSUME NEW s \in Seq(Nat), NEW n \in Nat, n <= Len(s)
    PROVE  IsPrefix(ChainTo(s, n), s)
<1> DEFINE c == ChainTo(s, n)
<1>1. c \in Seq(Nat) /\ Len(c) = n
  BY ChainIs
<1>2. SubSeq(c, 1, Len(c)) = c
  BY <1>1, SubSeqFull
<1> QED BY <1>1, <1>2 DEF IsPrefix, ChainTo

\* A block more leaves the chains before it as they are.
LEMMA ChainGrows ==
    ASSUME NEW s \in Seq(Nat), NEW x \in Nat, NEW n \in Nat, n <= Len(s)
    PROVE  ChainTo(Append(s, x), n) = ChainTo(s, n)
<1> DEFINE t == Append(s, x)
<1>1. t \in Seq(Nat) /\ Len(t) = Len(s) + 1 /\ \A i \in 1..Len(s) : t[i] = s[i]
  BY AppendProperties
<1> HIDE DEF t
<1>2. /\ ChainTo(t, n) \in Seq(Nat) /\ Len(ChainTo(t, n)) = n
      /\ \A i \in 1..n : ChainTo(t, n)[i] = t[i]
  <2>1. n <= Len(t)
    BY <1>1, LenProperties
  <2> QED BY <1>1, <2>1, ChainIs
<1>3. /\ ChainTo(s, n) \in Seq(Nat) /\ Len(ChainTo(s, n)) = n
      /\ \A i \in 1..n : ChainTo(s, n)[i] = s[i]
  BY ChainIs
<1>4. \A i \in 1..n : t[i] = s[i]
  <2>1. Len(s) \in Nat
    BY LenProperties
  <2>2. \A i \in 1..n : i \in 1..Len(s)
    BY <2>1
  <2> QED BY <1>1, <2>2
<1>5. ChainTo(t, n) = ChainTo(s, n)
  BY <1>2, <1>3, <1>4, ChainsEqual
<1> QED BY <1>5 DEF t

\* So the posts of its blocks stay the same.
LEMMA PostsGrow ==
    ASSUME NEW s \in Seq(Nat), NEW x \in Nat, NEW m \in Nat, NEW n \in Nat, n <= Len(s)
    PROVE  PostsOf(Append(s, x), m, n) = PostsOf(s, m, n)
<1> DEFINE t == Append(s, x)
<1>1. ASSUME NEW k \in m..(n - 1) PROVE PostOf(t, k) = PostOf(s, k)
  <2>1. k + 1 \in Nat /\ k + 1 <= Len(s)
    BY LenProperties
  <2> QED BY <2>1, ChainGrows DEF PostOf
<1> HIDE DEF t
<1>2. PostsOf(t, m, n) = PostsOf(s, m, n)
  BY <1>1 DEF PostsOf
<1> QED BY <1>2 DEF t

\* The posts have different nonces, and there are as many as blocks.
LEMMA PostsCount ==
    ASSUME NEW s, NEW m \in Nat, NEW n \in Nat, m <= n
    PROVE  IsFiniteSet(PostsOf(s, m, n)) /\ Cardinality(PostsOf(s, m, n)) = n - m
<1> DEFINE I == m..(n - 1)
<1> DEFINE f == [k \in I |-> PostOf(s, k)]
<1>1. IsFiniteSet(I) /\ Cardinality(I) = n - m
  <2>1. m \in Int /\ n - 1 \in Int /\ (IF m > n - 1 THEN 0 ELSE n - 1 - m + 1) = n - m
    OBVIOUS
  <2> QED BY <2>1, FS_Interval
<1>2. f \in Injection(I, PostsOf(s, m, n))
  <2>1. f \in [I -> PostsOf(s, m, n)]
    BY DEF PostsOf
  <2>2. ASSUME NEW a \in I, NEW b \in I, f[a] = f[b] PROVE a = b
    <3>1. PostOf(s, a).nonce = a /\ PostOf(s, b).nonce = b
      BY DEF PostOf
    <3> QED BY <2>2, <3>1
  <2> QED BY <2>1, <2>2 DEF Injection, IsInjective
<1>3. f \in Surjection(I, PostsOf(s, m, n))
  <2>1. f \in [I -> PostsOf(s, m, n)]
    BY DEF PostsOf
  <2>2. ASSUME NEW p \in PostsOf(s, m, n) PROVE \E k \in I : f[k] = p
    BY DEF PostsOf
  <2> QED BY <2>1, <2>2 DEF Surjection
<1>4. ExistsBijection(I, PostsOf(s, m, n))
  BY <1>2, <1>3 DEF ExistsBijection, Bijection
<1> QED BY <1>1, <1>4, FS_Bijection

\* The posts by their nonces.
LEMMA NonceOfPosts ==
    ASSUME NEW s, NEW m \in Nat, NEW n \in Nat
    PROVE  /\ \A k \in m..(n - 1) : PostOf(s, k) \in PostsOf(s, m, n) /\ PostOf(s, k).nonce = k
           /\ \A p \in PostsOf(s, m, n) : p.nonce \in m..(n - 1) /\ p = PostOf(s, p.nonce)
<1>1. \A k \in m..(n - 1) : PostOf(s, k) \in PostsOf(s, m, n)
  BY DEF PostsOf
<1>2. \A k : PostOf(s, k).nonce = k
  BY DEF PostOf
<1>3. ASSUME NEW p \in PostsOf(s, m, n) PROVE p.nonce \in m..(n - 1) /\ p = PostOf(s, p.nonce)
  <2>1. PICK k \in m..(n - 1) : p = PostOf(s, k)
    BY DEF PostsOf
  <2> QED BY <1>2, <2>1
<1> QED BY <1>1, <1>2, <1>3

\* A set's greatest number.
LEMMA MaxIs ==
    ASSUME NEW T \in SUBSET Nat, NEW m \in T, \A k \in T : k <= m
    PROVE  Max(T) = m
<1>1. \E x \in T : \A y \in T : x >= y
  OBVIOUS
<1>2. Max(T) \in T /\ \A y \in T : Max(T) >= y
  BY <1>1 DEF Max
<1>3. Max(T) \in Nat /\ m \in Nat /\ Max(T) >= m /\ Max(T) <= m
  BY <1>2
<1> QED BY <1>3

\* A post more.
LEMMA OneMorePost ==
    ASSUME NEW s, NEW m \in Nat, NEW n \in Nat, m <= n
    PROVE  PostsOf(s, m, n) \cup {PostOf(s, n)} = PostsOf(s, m, n + 1)
<1>1. m..(n + 1 - 1) = m..(n - 1) \cup {n}
  OBVIOUS
<1> QED BY <1>1 DEF PostsOf

\* The posts after the next one.
LEMMA OnePostLess ==
    ASSUME NEW s, NEW m \in Nat, NEW n \in Nat
    PROVE  {p \in PostsOf(s, m, n) : p.nonce > m} = PostsOf(s, m + 1, n)
<1>1. \A k : PostOf(s, k).nonce = k
  BY DEF PostOf
<1>2. \A k \in m..(n - 1) : k > m <=> k \in (m + 1)..(n - 1)
  OBVIOUS
<1>3. \A k \in (m + 1)..(n - 1) : k \in m..(n - 1)
  OBVIOUS
<1> QED BY <1>1, <1>2, <1>3 DEF PostsOf

-----------------------------------------------------------------------------
(* The inductive invariant of the posting loop, while faults = 0.          *)

PostingShape ==
    /\ l1 \in Seq([block : Seq(Nat), ok : BOOLEAN])
    /\ l2 \in Seq(Nat)
    /\ builders \subseteq Clients
    /\ final \in Nat /\ confirmed \in Nat

\* A client's pool `P` holds the next posts up to the one with nonce `h - 1`,
\* of the `K` that were sent, when `n` are on L1.
PoolIs(c, P, s, n, K) ==
    \E h \in n..K :
        /\ P = PostsOf(s, n, h)
        /\ c \in OnePerSender => h <= n + 1
        /\ c \notin OnePerSender \/ Clients = OnePerSender => h = K

InRound == {"offer", "fetch", "send"}

\* The posts with nonces below `K`, of the first `K` blocks, were sent, and
\* none other.
Counts(K) ==
    /\ final <= Len(l1) /\ confirmed <= Len(l1)
    /\ Len(l1) <= K /\ K <= Len(l2) /\ K <= Len(l1) + MAX_POSTS
Landed == \A i \in 1..Len(l1) : l1[i].ok /\ l1[i].block = ChainTo(l2, i)
InPools(K) == \A c \in Clients : PoolIs(c, pools[c], l2, Len(l1), K)
Remembers(K) ==
    /\ inFlight \subseteq PostsOf(l2, 0, K)
    /\ inFlight # {} /\ K > Len(l1) => PostOf(l2, K - 1) \in inFlight
    /\ pc \in InRound => pending = K /\ (inFlight # {} \/ K = Len(l1))
Follows(K, rest) ==
    /\ rest \in Seq(Seq(Nat))
    /\ K + Len(rest) <= Len(l2) /\ K + Len(rest) <= Len(l1) + MAX_POSTS
    /\ \A j \in 1..Len(rest) : rest[j] = ChainTo(l2, K + j)
ToSend(K) == pc = "send" => Follows(K, ready)
AllSent(K) == Counts(K) /\ Landed /\ InPools(K) /\ Remembers(K) /\ ToSend(K)

PostingInv == faults \in Nat /\ (faults = 0 => PostingShape /\ \E K \in Nat : AllSent(K))

-----------------------------------------------------------------------------
(* What the contract, the clients and the loop then see.                   *)

\* The lengths are numbers.
LEMMA Lengths ==
    ASSUME PostingShape
    PROVE  Len(l1) \in Nat /\ Len(l2) \in Nat /\ DOMAIN l1 = 1..Len(l1)
BY LenProperties DEF PostingShape

\* The contract's head is the last block on L1.
LEMMA HeadIs ==
    ASSUME PostingShape, Landed, Len(l1) <= Len(l2)
    PROVE  RollupHead = ChainTo(l2, Len(l1))
<1>1. Len(l1) \in Nat /\ DOMAIN l1 = 1..Len(l1)
  BY Lengths
<1> DEFINE ok == {i \in DOMAIN l1 : l1[i].ok}
<1>2. ok = 1..Len(l1)
  BY <1>1 DEF Landed
<1>3. CASE Len(l1) = 0
  <2>1. ok = {}
    BY <1>2, <1>3
  <2>2. ChainTo(l2, 0) = <<>>
    <3>1. 0 \in Int /\ 1 \in Int /\ 0 < 1
      OBVIOUS
    <3> QED BY <3>1, SubSeqEmpty DEF ChainTo
  <2> QED BY <1>3, <2>1, <2>2 DEF RollupHead, HeadOf
<1>4. CASE Len(l1) # 0
  <2>1. Len(l1) \in 1..Len(l1) /\ 1..Len(l1) \in SUBSET Nat
    BY <1>1, <1>4
  <2>2. Max(1..Len(l1)) = Len(l1)
    <3>1. \A k \in 1..Len(l1) : k <= Len(l1)
      BY <1>1
    <3> QED BY <2>1, <3>1, MaxIs
  <2>3. l1[Len(l1)].block = ChainTo(l2, Len(l1))
    BY <2>1 DEF Landed
  <2>4. ok # {} /\ Max(ok) = Len(l1)
    BY <1>2, <2>1, <2>2
  <2> QED BY <2>3, <2>4 DEF RollupHead, HeadOf
<1> QED BY <1>3, <1>4

\* A client counts the posts it has.
LEMMA PendingIs ==
    ASSUME PostingShape, NEW c \in Clients, NEW h \in Nat, Len(l1) <= h,
           pools[c] = PostsOf(l2, Len(l1), h)
    PROVE  PendingNonce(c) = h
<1>1. PICK n \in Nat : n = Len(l1)
  BY Lengths
<1> DEFINE Q(k) == \E p \in pools[c] : p.nonce = k
<1>2. Nonce = n /\ n + Cardinality(pools[c]) = h
  <2>1. Cardinality(pools[c]) = h - n
    BY <1>1, PostsCount
  <2> QED BY <1>1, <2>1 DEF Nonce
<1>3. \A k \in Nat : Q(k) <=> k \in n..(h - 1)
  <2>1. pools[c] = PostsOf(l2, n, h)
    BY <1>1
  <2>2. /\ \A k \in n..(h - 1) : PostOf(l2, k) \in PostsOf(l2, n, h) /\ PostOf(l2, k).nonce = k
        /\ \A p \in PostsOf(l2, n, h) : p.nonce \in n..(h - 1)
    BY NonceOfPosts
  <2> QED BY <2>1, <2>2
<1> HIDE DEF Q
<1>4. (\A k \in n..(h - 1) : Q(k)) /\ ~Q(h) /\ h \in n..h
  <2>1. (\A k \in n..(h - 1) : k \in Nat) /\ h \notin n..(h - 1) /\ h \in n..h
    BY <1>1
  <2> QED BY <1>3, <2>1
<1>5. ASSUME NEW m \in n..h, \A k \in n..(m - 1) : Q(k), ~Q(m) PROVE m = h
  <2>1. m \in Nat /\ n <= m /\ m <= h
    BY <1>1
  <2>2. m \notin n..(h - 1)
    BY <1>3, <1>5, <2>1
  <2> QED BY <1>1, <2>1, <2>2
<1>6. PendingNonce(c) = CHOOSE m \in n..h : (\A k \in n..(m - 1) : Q(k)) /\ ~Q(m)
  BY <1>2 DEF PendingNonce, Q
<1> QED BY <1>4, <1>5, <1>6

\* Together, the clients count every post that was sent.
LEMMA SeenIs ==
    ASSUME PostingShape, NEW K \in Nat, Counts(K), InPools(K)
    PROVE  Max({PendingNonce(c) : c \in Clients}) = K
<1>1. Len(l1) \in Nat /\ Len(l1) <= K
  BY Lengths DEF Counts
<1>2. ASSUME NEW c \in Clients
      PROVE  /\ PendingNonce(c) \in Nat /\ PendingNonce(c) <= K
             /\ c \notin OnePerSender \/ Clients = OnePerSender => PendingNonce(c) = K
  <2>1. PICK h \in Len(l1)..K :
            /\ pools[c] = PostsOf(l2, Len(l1), h)
            /\ c \notin OnePerSender \/ Clients = OnePerSender => h = K
    BY DEF InPools, PoolIs
  <2>2. h \in Nat /\ Len(l1) <= h /\ h <= K
    BY <1>1
  <2>3. PendingNonce(c) = h
    BY <2>1, <2>2, PendingIs
  <2> QED BY <2>1, <2>2, <2>3
<1>3. PICK c \in Clients : c \notin OnePerSender \/ Clients = OnePerSender
  BY PostingAssumption
<1>4. PendingNonce(c) = K
  BY <1>2, <1>3
<1> DEFINE T == {PendingNonce(d) : d \in Clients}
<1>5. T \in SUBSET Nat /\ K \in T /\ \A k \in T : k <= K
  BY <1>2, <1>4
<1> HIDE DEF T
<1>6. Max(T) = K
  BY <1>5, MaxIs
<1> QED BY <1>6 DEF T

\* Which clients take a post that was sent or is the next to be.
LEMMA TakesIs ==
    ASSUME PostingShape, NEW K \in Nat, Counts(K), NEW c \in Clients, NEW h \in Len(l1)..K,
           pools[c] = PostsOf(l2, Len(l1), h), NEW k \in Nat
    PROVE  Takes(c, PostOf(l2, k)) <=> /\ k >= h
                                       /\ c \in OnePerSender => h = Len(l1) /\ k = Len(l1)
<1>1. PICK n \in Nat : n = Len(l1)
  BY Lengths
<1>2. h \in Nat /\ n <= h
  BY <1>1
<1>3. PostOf(l2, k).nonce = k
  BY DEF PostOf
<1>4. pools[c] = PostsOf(l2, n, h)
  BY <1>1
<1>5. /\ \A i \in n..(h - 1) : PostOf(l2, i) \in PostsOf(l2, n, h) /\ PostOf(l2, i).nonce = i
      /\ \A p \in PostsOf(l2, n, h) : p.nonce \in n..(h - 1)
  BY <1>2, NonceOfPosts
<1>6. (\A q \in pools[c] : q.nonce # k) <=> k \notin n..(h - 1)
  BY <1>4, <1>5
<1>7. pools[c] = {} <=> h = n
  <2>1. h = n => n..(h - 1) = {}
    OBVIOUS
  <2>2. h # n => n \in n..(h - 1)
    BY <1>2
  <2> QED BY <1>4, <1>5, <2>1, <2>2
<1>8. k >= n /\ k \notin n..(h - 1) <=> k >= h
  BY <1>2
<1> QED BY <1>1, <1>3, <1>6, <1>7, <1>8 DEF Takes, Nonce

\* Offered again, a post gets to clients that did not have it.
LEMMA SubmitAgain ==
    ASSUME PostingShape, NEW K \in Nat, Counts(K), InPools(K), NEW k \in Nat, k < K,
           NEW c \in Clients
    PROVE  PoolIs(c, Submitted(PostOf(l2, k))[c], l2, Len(l1), K)
<1>1. PICK n \in Nat : n = Len(l1)
  BY Lengths
<1>2. PICK h \in n..K :
          /\ pools[c] = PostsOf(l2, n, h)
          /\ c \in OnePerSender => h <= n + 1
          /\ c \notin OnePerSender \/ Clients = OnePerSender => h = K
  BY <1>1 DEF InPools, PoolIs
<1> DEFINE p == PostOf(l2, k)
<1>3. Takes(c, p) <=> k >= h /\ (c \in OnePerSender => h = n /\ k = n)
  BY <1>1, <1>2, TakesIs
<1> HIDE DEF p
<1>4. CASE Takes(c, p)
  <2>1. h = n /\ k = n /\ h \in Nat /\ n + 1 \in n..K
    BY <1>1, <1>2, <1>3, <1>4
  <2>2. Submitted(p)[c] = PostsOf(l2, n, n) \cup {PostOf(l2, n)}
    BY <1>2, <1>4, <2>1 DEF Submitted, p
  <2>3. Submitted(p)[c] = PostsOf(l2, n, n + 1)
    BY <2>2, OneMorePost
  <2>4. ~(c \notin OnePerSender \/ Clients = OnePerSender) /\ n + 1 <= n + 1
    BY <1>2, <2>1
  <2> QED BY <1>1, <2>1, <2>3, <2>4 DEF PoolIs, p
<1>5. CASE ~Takes(c, p)
  <2>1. Submitted(p)[c] = pools[c]
    BY <1>5 DEF Submitted
  <2> QED BY <1>1, <1>2, <2>1 DEF PoolIs, p
<1> QED BY <1>4, <1>5

\* The next post gets to every client that takes it; if there are only
\* clients with one transaction per sender, to all of them or none.
LEMMA SubmitNext ==
    ASSUME PostingShape, NEW K \in Nat, Counts(K), InPools(K), ~Refused(PostOf(l2, K)),
           NEW c \in Clients
    PROVE  PoolIs(c, Submitted(PostOf(l2, K))[c], l2, Len(l1), K + 1)
<1>1. PICK n \in Nat : n = Len(l1)
  BY Lengths
<1>2. \A d \in Clients : \E h \in n..K :
          /\ pools[d] = PostsOf(l2, n, h)
          /\ d \in OnePerSender => h <= n + 1
          /\ d \notin OnePerSender \/ Clients = OnePerSender => h = K
  BY <1>1 DEF InPools, PoolIs
<1> DEFINE p == PostOf(l2, K)
<1>3. ASSUME NEW d \in Clients, NEW h \in n..K, pools[d] = PostsOf(l2, n, h)
      PROVE  Takes(d, p) <=> (d \in OnePerSender => h = n /\ K = n)
  <2>1. Takes(d, p) <=> K >= h /\ (d \in OnePerSender => h = n /\ K = n)
    BY <1>1, <1>3, TakesIs
  <2>2. K >= h
    OBVIOUS
  <2> QED BY <2>1, <2>2
<1>4. ~Refused(p)
  OBVIOUS
<1> HIDE DEF p
<1>5. PICK h \in n..K :
          /\ pools[c] = PostsOf(l2, n, h)
          /\ c \in OnePerSender => h <= n + 1
          /\ c \notin OnePerSender \/ Clients = OnePerSender => h = K
  BY <1>2
<1>6. CASE Takes(c, p)
  <2>1. h = K
    BY <1>3, <1>5, <1>6
  <2>2. Submitted(p)[c] = PostsOf(l2, n, K) \cup {PostOf(l2, K)}
    BY <1>5, <1>6, <2>1 DEF Submitted, p
  <2>3. n <= K /\ K + 1 \in n..(K + 1)
    BY <1>1 DEF Counts
  <2>4. Submitted(p)[c] = PostsOf(l2, n, K + 1)
    BY <2>2, <2>3, OneMorePost
  <2>5. c \in OnePerSender => K + 1 <= n + 1
    BY <1>3, <1>5, <1>6
  <2> QED BY <1>1, <2>3, <2>4, <2>5 DEF PoolIs, p
<1>7. CASE ~Takes(c, p)
  <2>1. Submitted(p)[c] = pools[c] /\ h \in n..(K + 1)
    BY <1>1, <1>7 DEF Submitted
  <2>2. c \in OnePerSender /\ ~(h = n /\ K = n)
    BY <1>3, <1>5, <1>7
  <2>3. Clients # OnePerSender
    <3>1. SUFFICES ASSUME Clients = OnePerSender PROVE FALSE
      OBVIOUS
    <3>2. PICK d \in Clients : Takes(d, p)
      BY <1>4 DEF Refused
    <3>3. K = n
      BY <1>2, <1>3, <3>1, <3>2
    <3> QED BY <1>5, <2>2, <3>1, <3>3
  <2> QED BY <1>1, <1>5, <2>1, <2>2, <2>3 DEF PoolIs, p
<1> QED BY <1>6, <1>7

\* In a round, the loop knows the last block it sent or that L1 has.
LEMMA HighestIs ==
    ASSUME PostingShape, NEW K \in Nat, Counts(K), Remembers(K), pc \in InRound
    PROVE  Max({Len(l1), Highest}) = K
<1>1. Len(l1) \in Nat /\ Len(l2) \in Nat /\ Len(l1) <= K /\ K <= Len(l2) /\ l2 \in Seq(Nat)
  BY Lengths DEF Counts, PostingShape
<1> DEFINE T == {0} \cup {Number(p) : p \in inFlight}
<1>2. ASSUME NEW k \in 0..(K - 1) PROVE Number(PostOf(l2, k)) = k + 1
  <2>1. k + 1 \in Nat /\ k + 1 <= Len(l2)
    BY <1>1
  <2>2. Len(ChainTo(l2, k + 1)) = k + 1
    BY <1>1, <2>1, ChainIs
  <2> QED BY <2>2 DEF Number, PostOf
<1>3. \A p \in inFlight : \E k \in 0..(K - 1) : p = PostOf(l2, k)
  BY DEF Remembers, PostsOf
<1>4. T \in SUBSET (0..K) /\ T # {}
  <2>1. ASSUME NEW p \in inFlight PROVE Number(p) \in 0..K
    <3>1. PICK k \in 0..(K - 1) : p = PostOf(l2, k)
      BY <1>3
    <3>2. Number(p) = k + 1
      BY <1>2, <3>1
    <3> QED BY <3>2
  <2>2. 0 \in 0..K
    OBVIOUS
  <2> QED BY <2>1, <2>2
<1> HIDE DEF T
<1>5. Highest \in 0..K /\ \A k \in T : k <= Highest
  <2>1. Max(T) \in T /\ \A k \in T : k <= Max(T)
    BY <1>4, MaxOfNumbers
  <2>2. Highest = Max(T)
    BY DEF Highest, T
  <2> QED BY <1>4, <2>1, <2>2
<1>6. CASE K = Len(l1)
  <2> DEFINE U == {Len(l1), Highest}
  <2>1. U \in SUBSET Nat /\ K \in U /\ \A k \in U : k <= K
    BY <1>1, <1>5, <1>6
  <2> HIDE DEF U
  <2>2. Max(U) = K
    BY <2>1, MaxIs
  <2> QED BY <2>2 DEF U
<1>7. CASE K # Len(l1)
  <2>1. PostOf(l2, K - 1) \in inFlight /\ K - 1 \in 0..(K - 1)
    BY <1>1, <1>7 DEF Remembers
  <2>2. Number(PostOf(l2, K - 1)) = K
    BY <1>2, <2>1
  <2>3. K \in T
    BY <2>1, <2>2 DEF T
  <2>4. Highest = K
    BY <1>5, <2>3
  <2> DEFINE U == {Len(l1), Highest}
  <2>5. U \in SUBSET Nat /\ K \in U /\ \A k \in U : k <= K
    BY <1>1, <2>4
  <2> HIDE DEF U
  <2>6. Max(U) = K
    BY <2>5, MaxIs
  <2> QED BY <2>6 DEF U
<1> QED BY <1>6, <1>7

\* The node hands out the blocks that were not sent yet, and not too many.
LEMMA WaitingIs ==
    ASSUME PostingShape, NEW K \in Nat, Counts(K), Landed, Remembers(K), pc \in InRound
    PROVE  Follows(K, WaitingPosts(RollupHead))
<1>1. /\ Len(l1) \in Nat /\ Len(l2) \in Nat /\ Len(l1) <= K /\ K <= Len(l2) /\ l2 \in Seq(Nat)
      /\ final \in Nat /\ final <= Len(l1) /\ K <= Len(l1) + MAX_POSTS /\ MAX_POSTS \in Nat
  BY Lengths, PostingAssumption DEF Counts, PostingShape
<1>2. Len(RollupHead) = Len(l1)
  <2>1. RollupHead = ChainTo(l2, Len(l1)) /\ Len(l1) <= Len(l2)
    BY <1>1, HeadIs
  <2> QED BY <1>1, <2>1, ChainIs
<1>3. Max({Len(l1), Highest}) = K
  BY HighestIs
<1>4. Cardinality(inFlight) \in Nat
  <2>1. IsFiniteSet(PostsOf(l2, 0, K))
    BY PostsCount
  <2>2. IsFiniteSet(inFlight)
    BY <2>1, FS_Subset DEF Remembers
  <2> QED BY <2>2, FS_CardinalityType
<1> DEFINE to   == IF Len(l2) < Len(l1) + MAX_POSTS THEN Len(l2) ELSE Len(l1) + MAX_POSTS
           some == IF K < to THEN to - K ELSE 0
           room == MAX_POSTS - Cardinality(inFlight)
           m    == IF some < room THEN some ELSE room
           w    == [i \in 1..m |-> SubSeq(l2, 1, K + i)]
<1>5. ~(final > Len(l1))
  BY <1>1
<1>6. WaitingPosts(RollupHead) = w
  BY <1>2, <1>3, <1>5 DEF WaitingPosts
<1>7. some \in Nat /\ K + some <= Len(l2) /\ K + some <= Len(l1) + MAX_POSTS
  BY <1>1
<1>8. room \in Int
  BY <1>1, <1>4
<1> HIDE DEF some, room
<1>9. m \in Int /\ m <= some
  BY <1>7, <1>8
<1> HIDE DEF m
<1>10. PICK n \in Nat : n <= some /\ 1..m = 1..n
  <2>1. CASE m < 0
    <3>1. 0 \in Nat /\ 0 <= some /\ 1..m = 1..0
      BY <1>7, <1>9, <2>1
    <3> QED BY <3>1
  <2>2. CASE ~(m < 0)
    BY <1>9, <2>2
  <2> QED BY <2>1, <2>2
<1>11. w = [i \in 1..n |-> ChainTo(l2, K + i)]
  BY <1>10 DEF ChainTo
<1> HIDE DEF w
<1>12. ASSUME NEW i \in 1..n PROVE ChainTo(l2, K + i) \in Seq(Nat)
  <2>1. K + i \in Nat /\ K + i <= Len(l2)
    BY <1>1, <1>7, <1>10
  <2> QED BY <1>1, <2>1, ChainIs
<1>13. w \in Seq(Seq(Nat)) /\ Len(w) = n /\ \A i \in 1..n : w[i] = ChainTo(l2, K + i)
  <2>1. w \in [1..n -> Seq(Nat)]
    BY <1>11, <1>12
  <2>2. w \in Seq(Seq(Nat)) /\ DOMAIN w = 1..n
    BY <2>1, SeqDef
  <2>3. Len(w) = n
    BY <2>2, LenProperties
  <2> QED BY <1>11, <2>2, <2>3
<1>14. K + n <= Len(l2) /\ K + n <= Len(l1) + MAX_POSTS
  BY <1>1, <1>7, <1>10
<1> QED BY <1>6, <1>13, <1>14 DEF Follows

-----------------------------------------------------------------------------
(* The steps                                                               *)

\* At the start nothing was sent.
LEMMA PostingInitInv == ASSUME PostingInit PROVE PostingInv
<1>1. PostingShape /\ Len(l1) = 0 /\ Len(l2) = 0
  BY PostingAssumption DEF PostingInit, PostingShape
<1>2. Counts(0) /\ Landed
  BY <1>1, PostingAssumption DEF Counts, Landed, PostingInit
<1>3. InPools(0)
  <2>1. ASSUME NEW c \in Clients PROVE PoolIs(c, pools[c], l2, 0, 0)
    <3>1. PostsOf(l2, 0, 0) = {} /\ 0 \in 0..0 /\ 0 <= 0 + 1
      BY DEF PostsOf
    <3> QED BY <3>1 DEF PostingInit, PoolIs
  <2> QED BY <1>1, <2>1 DEF InPools
<1>4. Remembers(0) /\ ToSend(0)
  BY DEF Remembers, ToSend, PostingInit, InRound
<1> QED BY <1>1, <1>2, <1>3, <1>4 DEF PostingInv, PostingInit, AllSent

\* The next post lands, on its parent.
LEMMA IncludeStep ==
    ASSUME PostingShape, NEW K \in Nat, AllSent(K), Include
    PROVE  PostingShape' /\ AllSent(K)'
<1>1. PICK n \in Nat : n = Len(l1)
  BY Lengths
<1>2. /\ Len(l2) \in Nat /\ n <= K /\ K <= Len(l2) /\ K <= n + MAX_POSTS /\ MAX_POSTS \in Nat
      /\ final \in Nat /\ final <= n /\ confirmed \in Nat /\ confirmed <= n /\ l2 \in Seq(Nat)
  BY <1>1, Lengths, PostingAssumption DEF AllSent, Counts, PostingShape
<1>30. PICK c \in builders : \E p \in pools[c] :
          /\ p.nonce = Nonce
          /\ l1' = Append(l1, [block |-> p.block, ok |-> p.block # <<>> /\ Front(p.block) = RollupHead])
  BY DEF Include
<1>3. PICK p \in pools[c] :
          /\ p.nonce = Nonce
          /\ l1' = Append(l1, [block |-> p.block, ok |-> p.block # <<>> /\ Front(p.block) = RollupHead])
  BY <1>30
<1>4. UNCHANGED <<builders, l2, final, pc, inFlight, confirmed, pending, ready>>
  BY DEF Include, nodeVars, operatorVars
<1>5. n < K /\ p.block = ChainTo(l2, n + 1)
  <2>1. c \in Clients
    BY <1>3 DEF PostingShape
  <2>2. PICK h \in n..K : pools[c] = PostsOf(l2, n, h)
    BY <1>1, <2>1 DEF AllSent, InPools, PoolIs
  <2>3. p.nonce \in n..(h - 1) /\ p = PostOf(l2, p.nonce)
    <3>1. p \in PostsOf(l2, n, h) /\ h \in Nat
      BY <1>3, <2>2
    <3>2. \A q \in PostsOf(l2, n, h) : q.nonce \in n..(h - 1) /\ q = PostOf(l2, q.nonce)
      BY <3>1, NonceOfPosts
    <3> QED BY <3>1, <3>2
  <2>4. p.nonce = n
    BY <1>1, <1>3 DEF Nonce
  <2>5. n < K
    BY <1>2, <2>2, <2>3, <2>4
  <2> QED BY <2>3, <2>4, <2>5 DEF PostOf
<1>6. RollupHead = ChainTo(l2, n)
  <2>1. Len(l1) <= Len(l2)
    BY <1>1, <1>2
  <2> QED BY <1>1, <2>1, HeadIs DEF AllSent
<1>7. p.block \in Seq(Nat) /\ p.block # <<>> /\ Front(p.block) = RollupHead
  <2>1. n + 1 \in Nat /\ n + 1 <= Len(l2)
    BY <1>2, <1>5
  <2> QED BY <1>2, <1>5, <1>6, <2>1, ChainIs, ParentIs
<1> DEFINE t == [block |-> p.block, ok |-> TRUE]
<1>8. l1' = Append(l1, t) /\ t \in [block : Seq(Nat), ok : BOOLEAN]
  BY <1>3, <1>7
<1>9. /\ l1' \in Seq([block : Seq(Nat), ok : BOOLEAN]) /\ Len(l1') = n + 1
      /\ \A i \in 1..n : l1'[i] = l1[i]
      /\ l1'[n + 1] = t
  <2>1. l1 \in Seq([block : Seq(Nat), ok : BOOLEAN])
    BY DEF PostingShape
  <2> HIDE DEF t
  <2> QED BY <1>1, <1>8, <2>1, AppendProperties
<1>10. PostingShape'
  BY <1>4, <1>9 DEF PostingShape
<1>11. Counts(K)'
  BY <1>2, <1>4, <1>5, <1>9 DEF Counts
<1>12. Landed'
  <2>1. ASSUME NEW i \in 1..(n + 1) PROVE l1'[i].ok /\ l1'[i].block = ChainTo(l2, i)
    <3>1. CASE i \in 1..n
      BY <1>1, <1>9, <3>1 DEF AllSent, Landed
    <3>2. CASE i = n + 1
      BY <1>5, <1>9, <3>2
    <3> QED BY <3>1, <3>2
  <2> QED BY <1>4, <1>9, <2>1 DEF Landed
<1>13. InPools(K)'
  <2>1. ASSUME NEW d \in Clients PROVE PoolIs(d, pools'[d], l2, n + 1, K)
    <3>1. PICK h \in n..K :
              /\ pools[d] = PostsOf(l2, n, h)
              /\ d \in OnePerSender => h <= n + 1
              /\ d \notin OnePerSender \/ Clients = OnePerSender => h = K
      BY <1>1 DEF AllSent, InPools, PoolIs
    <3>2. pools'[d] = PostsOf(l2, n + 1, h)
      <4>1. pools'[d] = {q \in pools[d] : q.nonce > n}
        BY <1>1 DEF Include, Nonce
      <4> QED BY <3>1, <4>1, OnePostLess
    <3>3. CASE h = n
      <4>1. (n + 1)..(h - 1) = {} /\ (n + 1)..(n + 1 - 1) = {}
        BY <3>3
      <4>2. pools'[d] = PostsOf(l2, n + 1, n + 1)
        BY <3>2, <4>1 DEF PostsOf
      <4>3. n + 1 \in (n + 1)..K /\ n + 1 <= n + 1 + 1 /\ h # K
        BY <1>2, <1>5, <3>3
      <4> QED BY <3>1, <4>2, <4>3 DEF PoolIs
    <3>4. CASE h # n
      <4>1. h \in (n + 1)..K /\ (h <= n + 1 => h <= n + 1 + 1)
        BY <3>4
      <4> QED BY <3>1, <3>2, <4>1 DEF PoolIs
    <3> QED BY <3>3, <3>4
  <2> QED BY <1>4, <1>9, <2>1 DEF InPools
<1>14. Remembers(K)'
  <2>1. K > n + 1 => K > n
    BY <1>2
  <2>2. K = n => K = n + 1
    BY <1>5
  <2> QED BY <1>1, <1>4, <1>9, <2>1, <2>2 DEF AllSent, Remembers
<1>15. ToSend(K)'
  <2>1. ASSUME pc = "send" PROVE Follows(K, ready)'
    <3>1. Follows(K, ready)
      BY <2>1 DEF AllSent, ToSend
    <3>2. Len(ready) \in Nat
      BY <3>1, LenProperties DEF Follows
    <3>3. K + Len(ready) <= n + MAX_POSTS => K + Len(ready) <= n + 1 + MAX_POSTS
      BY <1>2, <3>2
    <3> QED BY <1>1, <1>4, <1>9, <3>1, <3>3 DEF Follows
  <2> QED BY <1>4, <2>1 DEF ToSend
<1> QED BY <1>10, <1>11, <1>12, <1>13, <1>14, <1>15 DEF AllSent

\* The node's chain grows by a block.
LEMMA ProduceStep ==
    ASSUME PostingShape, NEW K \in Nat, AllSent(K), faults = 0, Produce
    PROVE  PostingShape' /\ AllSent(K)'
<1>1. PICK n \in Nat : n = Len(l1)
  BY Lengths
<1>2. PICK s \in Seq(Nat) : s = l2
  BY DEF PostingShape
<1>3. /\ Len(s) \in Nat /\ n <= K /\ K <= Len(s)
  BY <1>1, <1>2, Lengths DEF AllSent, Counts
<1>4. UNCHANGED <<l1, pools, builders, final, pc, inFlight, confirmed, pending, ready>>
  BY DEF Produce, operatorVars
<1>5. l2' = Append(s, 0)
  BY <1>2 DEF Produce
<1>6. l2' \in Seq(Nat) /\ Len(l2') = Len(s) + 1
  BY <1>5, AppendProperties
<1>7. \A k \in Nat : k <= Len(s) => ChainTo(l2', k) = ChainTo(s, k)
  BY <1>5, ChainGrows
<1>8. \A i, k \in Nat : k <= Len(s) => PostsOf(l2', i, k) = PostsOf(s, i, k)
  BY <1>5, PostsGrow
<1>9. \A k \in Nat : k < Len(s) => PostOf(l2', k) = PostOf(s, k)
  BY <1>3, <1>7 DEF PostOf
<1>10. PostingShape'
  BY <1>4, <1>6 DEF PostingShape
<1>11. Counts(K)'
  BY <1>2, <1>3, <1>4, <1>6 DEF AllSent, Counts
<1>12. Landed'
  <2>1. ASSUME NEW i \in 1..n PROVE ChainTo(l2', i) = ChainTo(s, i)
    BY <1>3, <1>7
  <2> QED BY <1>1, <1>2, <1>4, <2>1 DEF AllSent, Landed
<1>13. InPools(K)'
  <2>1. ASSUME NEW d \in Clients PROVE PoolIs(d, pools[d], l2', n, K)
    <3>1. PICK h \in n..K :
              /\ pools[d] = PostsOf(s, n, h)
              /\ d \in OnePerSender => h <= n + 1
              /\ d \notin OnePerSender \/ Clients = OnePerSender => h = K
      BY <1>1, <1>2 DEF AllSent, InPools, PoolIs
    <3>2. h \in Nat /\ h <= Len(s)
      BY <1>3
    <3>3. PostsOf(l2', n, h) = PostsOf(s, n, h)
      BY <1>8, <3>2
    <3> QED BY <3>1, <3>3 DEF PoolIs
  <2> QED BY <1>1, <1>4, <2>1 DEF InPools
<1>14. Remembers(K)'
  <2>1. PostsOf(l2', 0, K) = PostsOf(s, 0, K)
    BY <1>3, <1>8
  <2>2. K > n => PostOf(l2', K - 1) = PostOf(s, K - 1)
    BY <1>3, <1>9
  <2> QED BY <1>1, <1>2, <1>4, <2>1, <2>2 DEF AllSent, Remembers
<1>15. ToSend(K)'
  <2>1. ASSUME pc = "send" PROVE Follows(K, ready)'
    <3>1. Follows(K, ready)
      BY <2>1 DEF AllSent, ToSend
    <3>2. Len(ready) \in Nat /\ K + Len(ready) <= Len(s)
      BY <1>2, <3>1, LenProperties DEF Follows
    <3>3. ASSUME NEW j \in 1..Len(ready) PROVE ChainTo(l2', K + j) = ChainTo(s, K + j)
      <4>1. K + j \in Nat /\ K + j <= Len(s)
        BY <1>3, <3>2
      <4> QED BY <1>7, <4>1
    <3>4. K + Len(ready) <= Len(l2')
      BY <1>3, <1>6, <3>2
    <3> QED BY <1>2, <1>4, <3>1, <3>3, <3>4 DEF Follows
  <2> QED BY <1>4, <2>1 DEF ToSend
<1> QED BY <1>10, <1>11, <1>12, <1>13, <1>14, <1>15 DEF AllSent

\* The node marks posted what L1 has.
LEMMA FollowStep ==
    ASSUME PostingShape, NEW K \in Nat, AllSent(K), Follow
    PROVE  PostingShape' /\ AllSent(K)'
<1>1. PICK n \in Nat : n = Len(l1)
  BY Lengths
<1>2. /\ Len(l2) \in Nat /\ n <= K /\ K <= Len(l2) /\ l2 \in Seq(Nat)
      /\ final \in Nat /\ final <= n
  BY <1>1, Lengths DEF AllSent, Counts, PostingShape
<1>3. RollupHead = ChainTo(l2, n)
  <2>1. Len(l1) <= Len(l2)
    BY <1>1, <1>2
  <2> QED BY <1>1, <2>1, HeadIs DEF AllSent
<1>4. Len(RollupHead) = n /\ IsPrefix(RollupHead, l2)
  BY <1>2, <1>3, ChainIs, ChainIsPrefix
<1>5. n # final
  BY <1>3 DEF Follow, ChainTo
<1>6. final' = n /\ l2' = l2
  <2>1. n > final
    BY <1>2, <1>5
  <2> QED BY <1>4, <2>1 DEF Follow
<1>7. UNCHANGED <<l1, pools, builders, pc, inFlight, confirmed, pending, ready>>
  BY DEF Follow, operatorVars
<1>8. PostingShape' /\ Counts(K)'
  BY <1>1, <1>6, <1>7 DEF AllSent, PostingShape, Counts
<1>9. Landed' /\ InPools(K)' /\ Remembers(K)' /\ ToSend(K)'
  BY <1>6, <1>7 DEF AllSent, Landed, InPools, Remembers, ToSend, Follows
<1> QED BY <1>8, <1>9 DEF AllSent

\* What the loop forgets has a receipt, and so a nonce below those pending.
LEMMA ReceiptsStep ==
    ASSUME PostingShape, NEW K \in Nat, AllSent(K), Receipts
    PROVE  PostingShape' /\ AllSent(K)'
<1>1. PICK n \in Nat : n = Len(l1)
  BY Lengths
<1>2. UNCHANGED <<l1, pools, builders, l2, final, confirmed, pending, ready>> /\ pc' = "confirmed"
  BY DEF Receipts, nodeVars
<1>3. PICK landed : inFlight' = inFlight \ landed /\ \A p \in landed : p.nonce < n
  <2> DEFINE landed == {p \in inFlight : p.nonce < Nonce /\ l1[p.nonce + 1].block = p.block}
  <2>1. inFlight' = inFlight \ landed /\ \A p \in landed : p.nonce < n
    BY <1>1 DEF Receipts, Nonce
  <2> QED BY <2>1
<1>4. Remembers(K)'
  <2>1. inFlight' \subseteq PostsOf(l2, 0, K)
    BY <1>3 DEF AllSent, Remembers
  <2>2. ASSUME inFlight' # {}, K > n PROVE PostOf(l2, K - 1) \in inFlight'
    <3>1. PostOf(l2, K - 1) \in inFlight
      BY <1>1, <1>3, <2>2 DEF AllSent, Remembers
    <3>2. PostOf(l2, K - 1).nonce = K - 1 /\ ~(K - 1 < n)
      BY <2>2 DEF PostOf
    <3> QED BY <1>3, <3>1, <3>2
  <2> QED BY <1>1, <1>2, <2>1, <2>2 DEF Remembers, InRound
<1>5. PostingShape' /\ Counts(K)' /\ Landed' /\ InPools(K)' /\ ToSend(K)'
  BY <1>2 DEF AllSent, PostingShape, Counts, Landed, InPools, ToSend
<1> QED BY <1>4, <1>5 DEF AllSent

\* The number of posts on L1 is read.
LEMMA ReadConfirmedStep ==
    ASSUME PostingShape, NEW K \in Nat, AllSent(K), ReadConfirmed
    PROVE  PostingShape' /\ AllSent(K)'
<1>1. UNCHANGED <<l1, pools, builders, l2, final, inFlight, pending, ready>> /\ pc' = "pending"
  BY DEF ReadConfirmed, nodeVars
<1>2. confirmed' = Len(l1) /\ Len(l1) \in Nat /\ Len(l1) <= Len(l1)
  BY Lengths DEF ReadConfirmed, Nonce
<1>3. PostingShape' /\ Counts(K)'
  BY <1>1, <1>2 DEF AllSent, PostingShape, Counts
<1>4. Landed' /\ InPools(K)' /\ Remembers(K)' /\ ToSend(K)'
  BY <1>1 DEF AllSent, Landed, InPools, Remembers, ToSend, InRound
<1> QED BY <1>3, <1>4 DEF AllSent

\* The number of posts the clients know of is that of the posts sent,
\* whatever landed since the other one was read.
LEMMA ReadPendingStep ==
    ASSUME PostingShape, NEW K \in Nat, AllSent(K), ReadPending
    PROVE  PostingShape' /\ AllSent(K)'
<1>1. PICK n \in Nat : n = Len(l1)
  BY Lengths
<1>2. n <= K /\ confirmed \in Nat /\ confirmed <= n
  BY <1>1 DEF AllSent, Counts, PostingShape
<1>3. UNCHANGED <<l1, pools, builders, l2, final, ready>>
  BY DEF ReadPending, nodeVars
<1>4. \/ /\ K = confirmed
         /\ inFlight' = {}
         /\ pc' = "fetch" /\ pending' = K /\ confirmed' = 0
      \/ /\ inFlight # {}
         /\ pc' = "offer" /\ pending' = K
         /\ UNCHANGED <<inFlight, confirmed>>
      \/ /\ pc' = "receipts" /\ confirmed' = 0
         /\ UNCHANGED <<inFlight, pending>>
  <2>1. Max({PendingNonce(c) : c \in Clients}) = K
    BY SeenIs DEF AllSent
  <2> QED BY <2>1 DEF ReadPending, KnowsInFlight
<1>5. confirmed' \in Nat /\ confirmed' <= n
  BY <1>2, <1>4
<1>6. PostingShape' /\ Counts(K)'
  BY <1>1, <1>3, <1>5 DEF AllSent, PostingShape, Counts
<1>7. Remembers(K)'
  <2>1. CASE K = confirmed /\ inFlight' = {} /\ pc' = "fetch" /\ pending' = K
    <3>1. K = n
      BY <1>2, <2>1
    <3> QED BY <1>1, <1>3, <2>1, <3>1 DEF Remembers
  <2>2. CASE inFlight # {} /\ pc' = "offer" /\ pending' = K /\ inFlight' = inFlight
    BY <1>3, <2>2 DEF AllSent, Remembers
  <2>3. CASE pc' = "receipts" /\ inFlight' = inFlight
    BY <1>3, <2>3 DEF AllSent, Remembers, InRound
  <2> QED BY <1>4, <2>1, <2>2, <2>3
<1>8. Landed' /\ InPools(K)' /\ ToSend(K)'
  BY <1>3, <1>4 DEF AllSent, Landed, InPools, ToSend
<1> QED BY <1>6, <1>7, <1>8 DEF AllSent

\* A post is offered again, to clients that have it or may still have it.
LEMMA OfferStep ==
    ASSUME PostingShape, NEW K \in Nat, AllSent(K), Offer
    PROVE  PostingShape' /\ AllSent(K)'
<1>1. /\ UNCHANGED <<l1, builders, l2, final, inFlight, pending, ready>>
      /\ pc = "offer" /\ pc' = "fetch" /\ confirmed' = 0
  BY DEF Offer, nodeVars
<1>2. Len(l1) \in Nat
  BY Lengths
<1>3. PostingShape' /\ Counts(K)'
  BY <1>1, <1>2 DEF AllSent, PostingShape, Counts
<1>4. InPools(K)'
  <2>1. CASE Again = {}
    <3>1. pools' = pools
      BY <2>1 DEF Offer
    <3> QED BY <1>1, <3>1 DEF AllSent, InPools
  <2>2. CASE Again # {}
    <3>1. PICK p \in Again : pools' = Submitted(p)
      BY <2>2 DEF Offer
    <3>2. PICK k \in 0..(K - 1) : p = PostOf(l2, k)
      BY <3>1 DEF Again, AllSent, Remembers, PostsOf
    <3>3. k \in Nat /\ k < K
      OBVIOUS
    <3>4. ASSUME NEW c \in Clients PROVE PoolIs(c, pools'[c], l2, Len(l1), K)
      BY <3>1, <3>2, <3>3, SubmitAgain DEF AllSent
    <3> QED BY <1>1, <3>4 DEF InPools
  <2> QED BY <2>1, <2>2
<1>5. Landed' /\ Remembers(K)' /\ ToSend(K)'
  BY <1>1 DEF AllSent, Landed, Remembers, ToSend, InRound
<1> QED BY <1>3, <1>4, <1>5 DEF AllSent

\* The blocks to send are those after the last one sent.
LEMMA FetchStep ==
    ASSUME PostingShape, NEW K \in Nat, AllSent(K), Fetch
    PROVE  PostingShape' /\ AllSent(K)'
<1>1. PICK n \in Nat : n = Len(l1)
  BY Lengths
<1>2. /\ Len(l2) \in Nat /\ n <= K /\ K <= Len(l2) /\ l2 \in Seq(Nat)
      /\ final \in Nat /\ final <= n
  BY <1>1, Lengths DEF AllSent, Counts, PostingShape
<1>3. Len(RollupHead) = n /\ IsPrefix(RollupHead, l2)
  <2>1. RollupHead = ChainTo(l2, n)
    <3>1. Len(l1) <= Len(l2)
      BY <1>1, <1>2
    <3> QED BY <1>1, <3>1, HeadIs DEF AllSent
  <2> QED BY <1>2, <2>1, ChainIs, ChainIsPrefix
<1>4. /\ UNCHANGED <<l1, pools, builders, l2, inFlight, confirmed, pending>>
      /\ pc = "fetch" /\ pc' = "send"
      /\ ready' = WaitingPosts(RollupHead)
      /\ final' = Max({final, Len(RollupHead)})
  BY <1>3 DEF Fetch
<1>5. final' = n
  <2>1. {final, n} \in SUBSET Nat /\ n \in {final, n} /\ \A k \in {final, n} : k <= n
    BY <1>2
  <2>2. Max({final, n}) = n
    BY <2>1, MaxIs
  <2> QED BY <1>3, <1>4, <2>2
<1>6. Follows(K, ready)'
  <2>1. Follows(K, WaitingPosts(RollupHead))
    BY <1>4, WaitingIs DEF AllSent, InRound
  <2> QED BY <1>4, <2>1 DEF Follows
<1>7. PostingShape' /\ Counts(K)'
  BY <1>1, <1>4, <1>5 DEF AllSent, PostingShape, Counts
<1>8. Landed' /\ InPools(K)' /\ Remembers(K)' /\ ToSend(K)'
  BY <1>4, <1>6 DEF AllSent, Landed, InPools, Remembers, ToSend, InRound
<1> QED BY <1>7, <1>8 DEF AllSent

\* The next post is the next block's, with its nonce; or the round ends.
LEMMA SendPostStep ==
    ASSUME PostingShape, NEW K \in Nat, AllSent(K), SendPost
    PROVE  PostingShape' /\ \E J \in Nat : AllSent(J)'
<1>1. PICK n \in Nat : n = Len(l1)
  BY Lengths
<1>2. /\ Len(l2) \in Nat /\ n <= K /\ K <= Len(l2) /\ l2 \in Seq(Nat) /\ MAX_POSTS \in Nat
  BY <1>1, Lengths, PostingAssumption DEF AllSent, Counts, PostingShape
<1>3. UNCHANGED <<l1, builders, l2, final, confirmed>> /\ pc = "send"
  BY DEF SendPost, nodeVars
<1>4. pending = K /\ Follows(K, ready)
  BY <1>3 DEF AllSent, Remembers, ToSend, InRound
<1>5. PostingShape' /\ Landed'
  BY <1>3 DEF AllSent, PostingShape, Landed
<1> DEFINE q == [block |-> Head(ready), nonce |-> pending]
<1>6. CASE ready = <<>> \/ Refused(q)
  <2>1. UNCHANGED <<pools, inFlight>> /\ pc' = "receipts"
    BY <1>6 DEF SendPost
  <2>2. Counts(K)' /\ InPools(K)' /\ Remembers(K)' /\ ToSend(K)'
    BY <1>3, <2>1 DEF AllSent, Counts, InPools, Remembers, ToSend, InRound
  <2> QED BY <1>5, <2>2 DEF AllSent
<1>7. CASE ~(ready = <<>> \/ Refused(q))
  <2>1. /\ ready \in Seq(Seq(Nat)) /\ ready # <<>>
        /\ K + Len(ready) <= Len(l2) /\ K + Len(ready) <= n + MAX_POSTS
        /\ \A j \in 1..Len(ready) : ready[j] = ChainTo(l2, K + j)
    BY <1>1, <1>4, <1>7 DEF Follows
  <2>2. PICK m \in Nat : m = Len(ready) /\ m >= 1
    BY <2>1, EmptySeq, LenProperties
  <2>3. q = PostOf(l2, K)
    <3>1. Head(ready) = ready[1] /\ 1 \in 1..Len(ready)
      BY <2>1, <2>2
    <3>2. Head(ready) = ChainTo(l2, K + 1)
      BY <2>1, <3>1
    <3> QED BY <1>4, <3>2 DEF PostOf
  <2> HIDE DEF q
  <2>4. /\ pools' = Submitted(q) /\ pc' = pc
        /\ inFlight' = {p \in inFlight : Number(p) # Number(q)} \cup {q}
        /\ pending' = K + 1
        /\ ready' = Tail(ready)
    BY <1>4, <1>7 DEF SendPost, q
  <2>5. K + 1 <= Len(l2) /\ K + 1 <= n + MAX_POSTS /\ n <= K + 1 /\ K + 1 \in Nat
    BY <1>2, <2>1, <2>2
  <2>6. Counts(K + 1)'
    BY <1>1, <1>3, <2>5 DEF AllSent, Counts
  <2>7. InPools(K + 1)'
    <3>1. ASSUME NEW c \in Clients PROVE PoolIs(c, pools'[c], l2, Len(l1), K + 1)
      BY <1>7, <2>3, <2>4, SubmitNext DEF AllSent
    <3> QED BY <1>3, <3>1 DEF InPools
  <2>8. Remembers(K + 1)'
    <3>1. PostsOf(l2, 0, K + 1) = PostsOf(l2, 0, K) \cup {q}
      BY <1>2, <2>3, OneMorePost
    <3>2. inFlight' \subseteq PostsOf(l2, 0, K + 1)
      BY <2>4, <3>1 DEF AllSent, Remembers
    <3>3. q \in inFlight' /\ K + 1 - 1 = K
      BY <2>4
    <3> QED BY <1>3, <2>3, <2>4, <3>2, <3>3 DEF Remembers
  <2>9. ToSend(K + 1)'
    <3>1. /\ Tail(ready) \in Seq(Seq(Nat)) /\ Len(Tail(ready)) = m - 1
          /\ \A j \in 1..(m - 1) : Tail(ready)[j] = ready[j + 1]
      BY <2>1, <2>2, HeadTailProperties
    <3>2. ASSUME NEW j \in 1..(m - 1) PROVE Tail(ready)[j] = ChainTo(l2, K + 1 + j)
      <4>1. j + 1 \in 1..m /\ K + (j + 1) = K + 1 + j
        BY <2>2
      <4> QED BY <2>1, <2>2, <3>1, <4>1
    <3>3. K + 1 + (m - 1) = K + m
      BY <2>2
    <3>4. Follows(K + 1, Tail(ready))
      BY <1>1, <2>1, <2>2, <3>1, <3>2, <3>3 DEF Follows
    <3> QED BY <1>3, <2>4, <3>4 DEF ToSend, Follows
  <2> QED BY <1>5, <2>5, <2>6, <2>7, <2>8, <2>9 DEF AllSent
<1> QED BY <1>6, <1>7

\* The operator starts again and knows of no post.
LEMMA RestartStep ==
    ASSUME PostingShape, NEW K \in Nat, AllSent(K), Restart
    PROVE  PostingShape' /\ AllSent(K)'
<1>1. /\ UNCHANGED <<l1, pools, builders, l2, final>>
      /\ pc' = "receipts" /\ inFlight' = {} /\ confirmed' = 0
  BY DEF Restart, nodeVars
<1>2. Len(l1) \in Nat
  BY Lengths
<1>3. PostingShape' /\ Counts(K)'
  BY <1>1, <1>2 DEF AllSent, PostingShape, Counts
<1>4. Landed' /\ InPools(K)' /\ Remembers(K)' /\ ToSend(K)'
  BY <1>1 DEF AllSent, Landed, InPools, Remembers, ToSend, InRound
<1> QED BY <1>3, <1>4 DEF AllSent

\* Every step of the operator's part.
LEMMA PostingStepInv == ASSUME PostingInv, PostingNext PROVE PostingInv'
<1>1. faults \in Nat
  BY DEF PostingInv
<1>2. CASE Evict \/ Reorg \/ Expire
  <2>1. faults' = faults + 1
    BY <1>2 DEF Evict, Reorg, Expire
  <2> QED BY <1>1, <2>1 DEF PostingInv
<1>3. CASE Include \/ Produce \/ Follow \/ Loop \/ Restart
  <2>1. faults' = faults
    BY <1>3 DEF Include, Produce, Follow, Loop, Restart,
                Receipts, ReadConfirmed, ReadPending, Offer, Fetch, SendPost
  <2>2. ASSUME faults = 0 PROVE PostingShape' /\ \E J \in Nat : AllSent(J)'
    <3>1. PICK K \in Nat : PostingShape /\ AllSent(K)
      BY <2>2 DEF PostingInv
    <3>2. CASE Include
      BY <3>1, <3>2, IncludeStep
    <3>3. CASE Produce
      BY <2>2, <3>1, <3>3, ProduceStep
    <3>4. CASE Follow
      BY <3>1, <3>4, FollowStep
    <3>5. CASE Loop
      BY <3>1, <3>5, ReceiptsStep, ReadConfirmedStep, ReadPendingStep, OfferStep, FetchStep,
         SendPostStep DEF Loop
    <3>6. CASE Restart
      BY <3>1, <3>6, RestartStep
    <3> QED BY <1>3, <3>2, <3>3, <3>4, <3>5, <3>6
  <2> QED BY <1>1, <2>1, <2>2 DEF PostingInv
<1> QED BY <1>2, <1>3 DEF PostingNext, Faults

\* A step that leaves the operator's part alone.
LEMMA PostingStutter == ASSUME PostingInv, UNCHANGED postingVars PROVE PostingInv'
<1>1. UNCHANGED <<l1, pools, builders, l2, final, pc, inFlight, offered, confirmed, pending, ready, faults>>
  BY DEF postingVars, nodeVars, operatorVars
<1>2. ASSUME faults = 0 PROVE PostingShape' /\ \E J \in Nat : AllSent(J)'
  <2>1. PICK K \in Nat : PostingShape /\ AllSent(K)
    BY <1>2 DEF PostingInv
  <2>2. PostingShape' /\ AllSent(K)'
    BY <1>1, <2>1 DEF AllSent, PostingShape, Counts, Landed, InPools, Remembers, ToSend, Follows
  <2> QED BY <2>2
<1> QED BY <1>1, <1>2 DEF PostingInv

\* While nothing is lost, every post adds its block and no more than MAX_POSTS
\* are pending, for any clients, chain, and restarts: the nonces that the loop
\* reads one after the other tell it which block is next (frames_operator.py,
\* sequence; l2_node.py, nr_waitingPosts).
THEOREM NoPostIsWasted == DemoSpec => []NoWastedPosts
<1>1. DemoInit => PostingInv
  BY PostingInitInv DEF DemoInit
<1>2. PostingInv /\ [DemoNext]_demoVars => PostingInv'
  <2> SUFFICES ASSUME PostingInv, [DemoNext]_demoVars PROVE PostingInv'
    OBVIOUS
  <2>1. CASE PostingNext
    BY <2>1, PostingStepInv
  <2>2. CASE UNCHANGED postingVars
    BY <2>2, PostingStutter
  <2> QED BY <2>1, <2>2 DEF DemoNext, demoVars
<1>3. PostingInv => NoWastedPosts
  <2> SUFFICES ASSUME PostingInv, faults = 0
               PROVE  /\ \A i \in DOMAIN l1 : l1[i].ok
                      /\ \A c \in Clients : Cardinality(pools[c]) <= MAX_POSTS
    BY DEF NoWastedPosts
  <2>1. PICK K \in Nat : PostingShape /\ AllSent(K)
    BY DEF PostingInv
  <2>2. PICK n \in Nat : n = Len(l1) /\ DOMAIN l1 = 1..n
    BY <2>1, Lengths
  <2>3. ASSUME NEW c \in Clients PROVE Cardinality(pools[c]) <= MAX_POSTS
    <3>1. PICK h \in n..K : pools[c] = PostsOf(l2, n, h)
      BY <2>1, <2>2 DEF AllSent, InPools, PoolIs
    <3>2. Cardinality(pools[c]) = h - n
      BY <3>1, PostsCount
    <3>3. K <= n + MAX_POSTS /\ MAX_POSTS \in Nat
      BY <2>1, <2>2, PostingAssumption DEF AllSent, Counts
    <3> QED BY <3>2, <3>3
  <2> QED BY <2>1, <2>2, <2>3 DEF AllSent, Landed
<1> QED BY <1>1, <1>2, <1>3, PTL DEF DemoSpec

-----------------------------------------------------------------------------
(* The runner: one rollup at a time                                        *)

\* The rollup was resumed with the genesis of the next one (see OneRollup).
Forgotten == "--new forgotten" \in mishaps

\* The rollup that the files would have the runner resume, if there is a genesis.
Resumable == session.rollup # NoRollup /\ proverOf = session.rollup /\ session.rollup \in rollupsOnL1

\* The processes that run work for the session's rollup.
Agreed ==
    /\ Resumable
    /\ episode.rollup = session.rollup
    /\ stateOf = session.rollup \/ Forgotten

\* A rollup is resumed only with its own genesis: while there is a newer
\* genesis than the prover's key, the runner deploys again, or has to, if no
\* restart made it forget that.
OwnGenesis ==
    /\ stateOf = NoRollup => session.rollup = NoRollup
    /\ stateOf # proverOf => new \/ ~Resumable \/ Forgotten

\* The threads of ended episodes relay for the rollup that the runner goes on with.
RelaysInv ==
    relays # {} =>
        /\ ~new /\ Resumable /\ stateOf # NoRollup
        /\ phase \in {"idle", "node", "operator", "step"}
        /\ \A s \in relays : "rollup" \in DOMAIN s /\ s.rollup = session.rollup

RunnerInv ==
    /\ "rollup" \in DOMAIN session /\ "rollup" \in DOMAIN episode
    /\ "on" \in DOMAIN filer /\ "held" \in DOMAIN filer
    /\ deploys \in Nat /\ new \in BOOLEAN
    /\ filer.held => filer.on
    /\ filer.on => phase \in {"idle", "step"} /\ episode.rollup = session.rollup
    /\ nodeUp => phase \in {"operator", "step"}
    /\ phase \in {"node", "operator", "step"} => Agreed
    /\ phase = "step" => ~new
    /\ phase \in {"contracts", "prover", "blocks", "session"} => stateOf # NoRollup
    /\ phase = "prover" => stateOf \in rollupsOnL1
    /\ phase \in {"blocks", "session"} => stateOf = proverOf /\ stateOf \in rollupsOnL1
    /\ OwnGenesis /\ RelaysInv

\* What filing a line leaves alone.
LEMMA SummarizeKeeps ==
    ASSUME NEW s, "rollup" \in DOMAIN s, NEW line, NEW n, NEW o
    PROVE  LET t == [Summarize(s, line) EXCEPT !.filed = n, !.of = o]
           IN  "rollup" \in DOMAIN t /\ t.rollup = s.rollup
<1> DEFINE u == Summarize(s, line)
<1>1. "rollup" \in DOMAIN u /\ u.rollup = s.rollup
  BY DEF Summarize
<1> HIDE DEF u
<1>2. /\ "rollup" \in DOMAIN [u EXCEPT !.filed = n, !.of = o]
      /\ [u EXCEPT !.filed = n, !.of = o].rollup = u.rollup
  BY <1>1
<1> QED BY <1>1, <1>2 DEF u

\* At the start there is no rollup.
LEMMA RunnerInitInv == ASSUME RunnerInit PROVE RunnerInv
BY DEF RunnerInit, RunnerInv, OwnGenesis, Resumable, RelaysInv, EmptySession, NoRollup, FilerOff

\* What leaves the rollups alone leaves the runner's choice of one alone.
LEMMA RollupsStay ==
    ASSUME RunnerInv, UNCHANGED <<phase, new, proverOf, stateOf, relays, rollupsOnL1>>,
           Forgotten => Forgotten',
           "rollup" \in DOMAIN session', session'.rollup = session.rollup,
           "rollup" \in DOMAIN episode', episode'.rollup = episode.rollup
    PROVE  /\ OwnGenesis' /\ RelaysInv'
           /\ phase' \in {"node", "operator", "step"} => Agreed'
<1>1. OwnGenesis' /\ (Resumable <=> Resumable')
  BY DEF RunnerInv, OwnGenesis, Resumable
<1>2. RelaysInv'
  BY <1>1 DEF RunnerInv, RelaysInv
<1> QED BY <1>1, <1>2 DEF RunnerInv, Agreed

\* Filing, a thread of its own, also after its episode ended.
LEMMA FilingKeeps ==
    ASSUME RunnerInv, FileLine \/ SaveFiled \/ NoticeRotation \/ FilerStops \/ FilerDies
    PROVE  RunnerInv'
<1>1. UNCHANGED <<phase, new, proverOf, stateOf, nodeUp, relays, rollupsOnL1, deploys>>
  BY DEF FileLine, SaveFiled, NoticeRotation, FilerStops, FilerDies
<1>2. Forgotten => Forgotten'
  BY DEF FileLine, SaveFiled, NoticeRotation, FilerStops, FilerDies, Befalls, Forgotten
<1>3. /\ "rollup" \in DOMAIN session' /\ session'.rollup = session.rollup
      /\ "rollup" \in DOMAIN episode' /\ episode'.rollup = episode.rollup
  <2>1. CASE SaveFiled
    <3>1. /\ episode' = [Summarize(episode, filer.line) EXCEPT !.filed = filer.place + 1, !.of = filer.of]
          /\ session' = episode' /\ filer.held
      BY <2>1 DEF SaveFiled
    <3>2. "rollup" \in DOMAIN episode' /\ episode'.rollup = episode.rollup
      BY <3>1, SummarizeKeeps DEF RunnerInv
    <3> QED BY <3>1, <3>2 DEF RunnerInv
  <2>2. CASE ~SaveFiled
    BY <2>2 DEF FileLine, NoticeRotation, FilerStops, FilerDies, RunnerInv
  <2> QED BY <2>1, <2>2
<1>4. /\ "on" \in DOMAIN filer' /\ "held" \in DOMAIN filer'
      /\ (filer'.held => filer'.on) /\ (filer'.on => filer.on)
  <2>1. CASE FileLine
    BY <2>1 DEF FileLine, RunnerInv
  <2>2. CASE NoticeRotation
    BY <2>2 DEF NoticeRotation, RunnerInv
  <2>3. CASE FilerStops \/ FilerDies
    <3>1. filer' = FilerOff
      BY <2>3 DEF FilerStops, FilerDies
    <3> QED BY <3>1 DEF FilerOff
  <2>4. CASE SaveFiled
    BY <2>4 DEF SaveFiled, RunnerInv
  <2> QED BY <2>1, <2>2, <2>3, <2>4
<1>5. OwnGenesis' /\ RelaysInv' /\ (phase' \in {"node", "operator", "step"} => Agreed')
  BY <1>1, <1>2, <1>3, RollupsStay
<1> QED BY <1>1, <1>3, <1>4, <1>5 DEF RunnerInv

\* A session is picked up with its own genesis.
LEMMA ResumeKeeps == ASSUME RunnerInv, Resume PROVE RunnerInv'
<1>1. /\ stateOf = proverOf \/ Forgotten
      /\ Resumable /\ stateOf # NoRollup
  BY DEF RunnerInv, OwnGenesis, Resumable, Resume, MayResume
<1>2. Forgotten => Forgotten'
  BY DEF Resume, Befalls, Forgotten
<1>3. /\ UNCHANGED <<new, session, proverOf, stateOf, filer, relays, nodeUp, rollupsOnL1, deploys>>
      /\ ~filer.on /\ phase = "idle" /\ phase' = "node" /\ ~new /\ episode' = session
  BY DEF Resume
<1>4. OwnGenesis' /\ RelaysInv'
  BY <1>1, <1>2, <1>3 DEF RunnerInv, OwnGenesis, Resumable, RelaysInv
<1>5. Agreed'
  BY <1>1, <1>2, <1>3 DEF Agreed, Resumable
<1> QED BY <1>3, <1>4, <1>5 DEF RunnerInv

\* A new genesis replaces the last one's only if that one's rollup is not to
\* be resumed, or cannot be.
LEMMA WriteGenesisKeeps == ASSUME RunnerInv, WriteGenesis PROVE RunnerInv'
<1>1. stateOf' = deploys + 1 /\ deploys + 1 \in Nat /\ deploys + 1 # NoRollup
  BY DEF WriteGenesis, RunnerInv, NoRollup
<1>2. new \/ ~Resumable
  BY DEF WriteGenesis, RunnerInv, OwnGenesis, Resumable, MayResume
<1>3. /\ UNCHANGED <<new, episode, session, proverOf, filer, relays, nodeUp, rollupsOnL1, mishaps>>
      /\ phase = "idle" /\ phase' = "contracts" /\ deploys' = deploys + 1 /\ ~filer.on
      /\ new \/ ~MayResume
  BY DEF WriteGenesis
<1>4. ~nodeUp
  BY <1>3 DEF RunnerInv
<1>5. relays = {}
  BY <1>3 DEF RunnerInv, RelaysInv, Resumable, MayResume
<1>6. OwnGenesis' /\ RelaysInv'
  BY <1>1, <1>2, <1>3, <1>5 DEF RunnerInv, OwnGenesis, Resumable, RelaysInv
<1> QED BY <1>1, <1>3, <1>4, <1>6 DEF RunnerInv

\* The rest of a deployment.
LEMMA DeployKeeps ==
    ASSUME RunnerInv, DeployContracts \/ SaveProver \/ ClearBlocks \/ SaveSession
    PROVE  RunnerInv'
<1>1. relays = {} /\ relays' = {}
  BY DEF DeployContracts, SaveProver, ClearBlocks, SaveSession, RunnerInv, RelaysInv
<1>2. CASE DeployContracts
  BY <1>1, <1>2 DEF DeployContracts, RunnerInv, OwnGenesis, Resumable, RelaysInv, Forgotten
<1>3. CASE SaveProver
  BY <1>1, <1>3 DEF SaveProver, RunnerInv, OwnGenesis, Resumable, RelaysInv
<1>4. CASE ClearBlocks
  BY <1>1, <1>4 DEF ClearBlocks, RunnerInv, OwnGenesis, Resumable, RelaysInv
<1>5. CASE SaveSession
  <2>1. "rollup" \in DOMAIN episode' /\ episode'.rollup = stateOf /\ session' = episode'
    BY <1>5 DEF SaveSession, EmptySession
  <2> QED BY <1>1, <1>5, <2>1 DEF SaveSession, RunnerInv, OwnGenesis, Resumable, Agreed, RelaysInv
<1> QED BY <1>2, <1>3, <1>4, <1>5

\* An episode, from its start to its end.
LEMMA EpisodeKeeps ==
    ASSUME RunnerInv,
           \/ StartNode \/ StartOperator \/ (\E fails \in BOOLEAN : Step(fails))
           \/ (\E claiming \in BOOLEAN : EndEpisode(claiming)) \/ StartFails
    PROVE  RunnerInv'
<1>1. CASE StartNode
  BY <1>1 DEF StartNode, RunnerInv, OwnGenesis, Resumable, Agreed, RelaysInv, Forgotten
<1>2. CASE StartOperator
  <2>1. /\ UNCHANGED <<episode, session, proverOf, stateOf, relays, nodeUp, rollupsOnL1, deploys>>
        /\ phase = "operator" /\ phase' = "step" /\ new' = FALSE
        /\ filer' = [FilerOff EXCEPT !.on = TRUE, !.place = StartOf(episode), !.of = LogOf(episode)]
    BY <1>2 DEF StartOperator
  <2>2. Forgotten => Forgotten'
    BY <1>2 DEF StartOperator, Befalls, Forgotten
  <2>3. "on" \in DOMAIN filer' /\ "held" \in DOMAIN filer' /\ ~filer'.held
    BY <2>1 DEF FilerOff
  <2>4. Agreed /\ Agreed' /\ episode.rollup = session.rollup
    BY <2>1, <2>2 DEF RunnerInv, Agreed, Resumable
  <2>5. OwnGenesis' /\ RelaysInv'
    BY <2>1, <2>2, <2>4 DEF RunnerInv, OwnGenesis, Resumable, Agreed, RelaysInv
  <2> QED BY <2>1, <2>3, <2>4, <2>5 DEF RunnerInv
<1>3. ASSUME NEW fails \in BOOLEAN, Step(fails) PROVE RunnerInv'
  <2>1. /\ phase = "step"
        /\ UNCHANGED <<phase, new, proverOf, stateOf, nodeUp, filer, relays, rollupsOnL1, deploys, mishaps>>
        /\ episode' = IF fails THEN episode ELSE [episode EXCEPT !.step = storyStep]
        /\ session' = episode'
    BY <1>3 DEF Step
  <2>2. "rollup" \in DOMAIN episode' /\ episode'.rollup = episode.rollup /\ episode.rollup = session.rollup
    BY <2>1 DEF RunnerInv, Agreed
  <2>3. OwnGenesis' /\ RelaysInv' /\ (phase' \in {"node", "operator", "step"} => Agreed')
    BY <2>1, <2>2, RollupsStay DEF Forgotten
  <2> QED BY <2>1, <2>2, <2>3 DEF RunnerInv
<1>4. ASSUME NEW claiming \in BOOLEAN, EndEpisode(claiming) PROVE RunnerInv'
  <2>1. /\ UNCHANGED <<episode, session, new, proverOf, stateOf, filer, rollupsOnL1, deploys, mishaps>>
        /\ phase = "step" /\ phase' = "idle" /\ ~nodeUp'
        /\ relays' = IF claiming THEN relays \cup {episode} ELSE relays
    BY <1>4 DEF EndEpisode
  <2>2. Agreed /\ OwnGenesis /\ OwnGenesis' /\ (Resumable <=> Resumable')
    BY <2>1 DEF RunnerInv, OwnGenesis, Resumable, Forgotten
  <2>3. relays' # {} => ~new' /\ Resumable' /\ stateOf' # NoRollup
    BY <2>1, <2>2 DEF RunnerInv, Agreed, OwnGenesis, Resumable
  <2>4. \A s \in relays' : "rollup" \in DOMAIN s /\ s.rollup = session.rollup
    <3>1. \A s \in relays : "rollup" \in DOMAIN s /\ s.rollup = session.rollup
      BY DEF RunnerInv, RelaysInv
    <3>2. "rollup" \in DOMAIN episode /\ episode.rollup = session.rollup
      BY <2>2 DEF RunnerInv, Agreed
    <3> QED BY <2>1, <3>1, <3>2
  <2> QED BY <2>1, <2>2, <2>3, <2>4 DEF RunnerInv, RelaysInv
<1>5. CASE StartFails
  BY <1>5 DEF StartFails, RunnerInv, OwnGenesis, Resumable, Agreed, RelaysInv, Forgotten
<1> QED BY <1>1, <1>2, <1>3, <1>4, <1>5

\* A withdrawal is claimed, in the episode that runs or after its own.
LEMMA RelayKeeps == ASSUME RunnerInv, NEW s \in relays \cup {episode}, RelaySaves(s) PROVE RunnerInv'
<1>1. /\ session' = s
      /\ UNCHANGED <<new, phase, episode, proverOf, stateOf, filer, relays, nodeUp, rollupsOnL1, deploys, mishaps>>
  BY DEF RelaySaves
<1>2. "rollup" \in DOMAIN s /\ s.rollup = session.rollup
  BY DEF RelaySaves, RunnerInv, RelaysInv, Agreed
<1>3. OwnGenesis' /\ RelaysInv' /\ (phase' \in {"node", "operator", "step"} => Agreed')
  BY <1>1, <1>2, RollupsStay DEF Forgotten, RunnerInv
<1> QED BY <1>1, <1>2, <1>3 DEF RunnerInv

\* What the operator and the node do, and the processes' stops.
LEMMA ProcessesKeep ==
    ASSUME RunnerInv, PreconfirmsNext \/ PostsNext \/ Drops \/ ProcessStops
    PROVE  RunnerInv'
<1>1. UNCHANGED <<phase, new, proverOf, stateOf, session, episode, filer, relays, rollupsOnL1, deploys, mishaps>>
  BY DEF PreconfirmsNext, PostsNext, Drops, ProcessStops
<1>2. nodeUp' => nodeUp
  BY DEF PreconfirmsNext, PostsNext, Drops, ProcessStops
<1>3. OwnGenesis' /\ RelaysInv' /\ (phase' \in {"node", "operator", "step"} => Agreed')
  BY <1>1, RollupsStay DEF Forgotten, RunnerInv
<1> QED BY <1>1, <1>2, <1>3 DEF RunnerInv

\* A kill of the runner, an emptied log, a new L1.
LEMMA DisturbancesKeep ==
    ASSUME RunnerInv, RunnerCrash \/ Rotate \/ NewDevnet
    PROVE  RunnerInv'
<1>1. CASE RunnerCrash
  <2>1. /\ "rollup" \in DOMAIN episode' /\ new' \in BOOLEAN
        /\ Forgotten => Forgotten'
        /\ new /\ ~new' /\ stateOf # proverOf => Forgotten'
    BY <1>1 DEF RunnerCrash, EmptySession, Befalls, Forgotten
  <2>2. UNCHANGED <<proverOf, stateOf, session, rollupsOnL1, deploys>>
        /\ phase' = "idle" /\ ~nodeUp' /\ ~filer'.on /\ ~filer'.held /\ relays' = {}
        /\ "on" \in DOMAIN filer' /\ "held" \in DOMAIN filer'
    BY <1>1 DEF RunnerCrash, FilerOff
  <2> QED BY <2>1, <2>2 DEF RunnerInv, OwnGenesis, Resumable, RelaysInv
<1>2. CASE Rotate
  <2>1. /\ UNCHANGED <<phase, new, proverOf, stateOf, session, episode, filer, relays, nodeUp, rollupsOnL1, deploys>>
        /\ Forgotten => Forgotten'
    BY <1>2 DEF Rotate, Befalls, Forgotten
  <2>2. OwnGenesis' /\ RelaysInv' /\ (phase' \in {"node", "operator", "step"} => Agreed')
    BY <2>1, RollupsStay DEF RunnerInv
  <2> QED BY <2>1, <2>2 DEF RunnerInv
<1>3. CASE NewDevnet
  BY <1>3 DEF NewDevnet, RunnerInv, OwnGenesis, Resumable, RelaysInv, Forgotten
<1> QED BY <1>1, <1>2, <1>3

\* A step that leaves the runner's variables alone.
LEMMA RunnerStutter == ASSUME RunnerInv, UNCHANGED runnerVars PROVE RunnerInv'
BY DEF RunnerInv, OwnGenesis, Resumable, Agreed, RelaysInv, Forgotten, runnerVars

\* Every step of the demo keeps the runner's invariant.
LEMMA RunnerStep == ASSUME RunnerInv, [DemoNext]_demoVars PROVE RunnerInv'
<1>1. CASE RunnerNext
  BY <1>1, FilingKeeps, ResumeKeeps, WriteGenesisKeeps, DeployKeeps, EpisodeKeeps, RelayKeeps, ProcessesKeep,
     DisturbancesKeep DEF RunnerNext
<1>2. CASE UNCHANGED runnerVars
  BY <1>2, RunnerStutter
<1> QED BY <1>1, <1>2 DEF DemoNext, demoVars

\* What runs, runs for the session's rollup.
LEMMA RunnerIsOneRollup == ASSUME RunnerInv PROVE OneRollup
BY DEF RunnerInv, Agreed, Resumable, Forgotten, OneRollup

\* For any number of deployments and stops, whenever the runner, the node or
\* the operator stops and whenever L1 is replaced, the node and the operator
\* work for the rollup of the session, which L1 has, with its prover's key
\* (demo/runner.py, resume, deploy); and with its genesis, unless the runner
\* started without --new after one with --new had written a genesis and not yet
\* kept its prover's key, of which the theorem says nothing more than that.
THEOREM OneRollupAtATime == DemoSpec => []OneRollup
<1>1. DemoInit => RunnerInv
  BY RunnerInitInv DEF DemoInit
<1>2. RunnerInv /\ [DemoNext]_demoVars => RunnerInv'
  BY RunnerStep
<1> QED BY <1>1, <1>2, RunnerIsOneRollup, PTL DEF DemoSpec

-----------------------------------------------------------------------------
(* The runner: the inductive invariant of what is filed                    *)

\* The lines the operator writes.
Lines == [type : {"preconfirm", "advance"}, number : Numbers, version : Nat \ {0}]
WaitingBlocks == [number : Numbers, version : Nat \ {0}]
Sessions == [rollup : Nat, step : Int, filed : Nat \cup {NotSaved}, of : Nat,
             preconfirmed : Nat, posted : Nat, waiting : Seq(WaitingBlocks)]
Filers == [on : BOOLEAN, place : Nat, of : Nat, held : BOOLEAN, line : Lines \cup {NoLine}]

\* The sessions that are in memory, on disk or kept.
AllSessions == {episode, session, kept} \cup relays

\* What the runner's variables are made of.
RunnerShape ==
    /\ AllSessions \subseteq Sessions
    /\ storyStep \in Int
    /\ filer \in Filers
    /\ files \in [Numbers -> [version : Nat, broken : Seq(Nat)]]
    /\ log \in Seq(Lines) /\ told \in Seq(Lines)
    /\ built \in Seq(Nat \ {0}) /\ Len(built) <= MaxReports
    /\ onRollup \in 0..Len(built)
    /\ {deploys, drops, stateOf, emptied} \subseteq Nat

\* An offset into this log is in it.  In this log, an offset into an earlier one
\* stands for its beginning.
InLog(n, of) == of <= emptied /\ (of = emptied => n <= Len(log))
StartsAt(n, of) == IF of = emptied THEN n ELSE 0
PlaceInv ==
    /\ Len(log) <= MaxLines
    /\ InLog(filer.place, filer.of)
    /\ \A s \in AllSessions : InLog(s.filed, s.of)
    /\ filer.on /\ kept.filed # NotSaved =>
            StartsAt(kept.filed, kept.of) = StartsAt(filer.place, filer.of)
    /\ filer.held =>
            /\ filer.on /\ filer.place < MaxLines /\ filer.line \in Lines
            /\ filer.of = emptied => filer.place < Len(log) /\ filer.line = log[filer.place + 1]

\* The files are of the rollup of the session that is kept.
Current == stateOf = kept.rollup

\* An episode works on the session that is kept.
EpisodeInv ==
    /\ kept.rollup = session.rollup
    /\ kept.rollup <= deploys /\ stateOf <= deploys
    /\ operatorUp => phase = "step"
    /\ filer.on => phase \in {"idle", "step"}
    /\ phase \in {"node", "operator", "step"} \/ filer.on => episode = kept
    /\ phase \in {"contracts", "prover", "blocks", "session"} => ~Current /\ built = <<>>
    /\ phase = "session" => told = <<>> /\ files = NoFiles
    /\ \A s \in AllSessions : s.filed = NotSaved => s.waiting = <<>> /\ s.posted = 0

\* Versions that the next block at a height is above.
UpTo(n, v) == IF n <= Len(built) THEN v <= built[n] ELSE v <= drops
BuiltInv == \A n \in 1..Len(built) : built[n] <= drops + 1

\* The lines at one height are of later and later versions, and those after a
\* post are of higher blocks.
LinesInv ==
    /\ \A i \in 1..Len(told) : UpTo(told[i].number, told[i].version)
    /\ \A i \in 1..Len(told) : told[i].type = "advance" => told[i].number <= onRollup
    /\ \A j \in 1..Len(told) : \A i \in 1..(j - 1) :
         /\ told[i].number = told[j].number =>
              /\ told[i].version <= told[j].version
              /\ told[j].type = "preconfirm" => told[i].version < told[j].version
         /\ told[i].type = "advance" => told[i].number < told[j].number

\* A block's file has each version once, and the latest is not broken.
Tidy(page) ==
    /\ \A i \in 1..Len(page.broken) : page.broken[i] < page.version
    /\ IsInjective(page.broken)
Held(page, v) == v = page.version \/ \E k \in 1..Len(page.broken) : v = page.broken[k]
FilesInv ==
    \A n \in Numbers :
        /\ UpTo(n, files[n].version)
        /\ Tidy(files[n])

\* Of the lines, the first `f` are filed, and the first `g` are in the files.
OverBy(i, j) ==
    /\ told[j].type = "advance" /\ told[j].number = told[i].number
    /\ \A k \in 1..(j - 1) :
         told[k].type = "preconfirm" /\ told[k].number = told[j].number =>
            told[k].version # told[j].version
InFiles(f, g) ==
    /\ \A k \in 1..g : told[k].version <= files[told[k].number].version
    /\ \A k \in (f + 1)..Len(told) : files[told[k].number].version <= told[k].version
    /\ \A i \in 1..g : told[i].type = "preconfirm" =>
         \/ Held(files[told[i].number], told[i].version)
         \/ \E j \in (i + 1)..g : OverBy(i, j)

StillWaits(f, i) ==
    /\ told[i].type = "preconfirm"
    /\ \A j \in (i + 1)..f : told[j].type = "preconfirm" => told[j].number > told[i].number
    /\ told[i].number > kept.posted
WaitingLines(f) == {k \in 1..f : StillWaits(f, k)}
BlockOf(i) == [number |-> told[i].number, version |-> told[i].version]
InSummary(f) ==
    /\ \A j \in 1..f : told[j].type = "advance" => told[j].number <= kept.posted
    /\ kept.posted # 0 => \E j \in 1..f : told[j].type = "advance" /\ told[j].number = kept.posted
    /\ ToSet(kept.waiting) = {BlockOf(i) : i \in WaitingLines(f)}

FiledTo(f, g, p) ==
    /\ g <= Len(told) /\ g \in {f, f + 1}
    /\ Len(told) - f = Len(log) - p
    /\ \A k \in (f + 1)..Len(told) : told[k] = log[p + (k - f)]
    /\ InFiles(f, g) /\ InSummary(f)

\* The place in the log of what is not filed, if it was not emptied before its
\* lines were.
Place == IF filer.on THEN StartsAt(filer.place, filer.of) ELSE StartsAt(kept.filed, kept.of)
Filed ==
    /\ BuiltInv /\ LinesInv /\ FilesInv
    /\ filer.on \/ kept.filed # NotSaved =>
         \E f \in 0..Len(told) : \E g \in 0..Len(told) :
            FiledTo(f, g, Place) /\ (filer.held => g = f + 1)

\* What holds as long as nothing befell the rollup that the code does not handle:
\* the processes report when the filer runs, and what they report gets filed.
Unhindered ==
    /\ phase = "step" /\ nodeUp => filer.on
    /\ filer.on => Current
    /\ filer.held => filer.of = emptied
    /\ Current => Filed

FiledInv == RunnerShape /\ PlaceInv /\ EpisodeInv /\ (mishaps = {} => Unhindered)

-----------------------------------------------------------------------------
(* The runner: what is filed                                               *)

\* The bounds are numbers.
LEMMA MaxLinesIs == MaxLines \in Nat /\ MaxReports \in Nat
<1>1. MaxReports \in Nat /\ MaxDeploys \in Nat
  BY RunnerAssumption
<1>2. MaxReports * MaxDeploys \in Nat
  BY <1>1
<1> QED BY <1>1, <1>2 DEF MaxLines

\* The blocks that still wait.
LEMMA WaitingFromIs ==
    ASSUME NEW s \in Seq(WaitingBlocks), NEW a \in Int, NEW b \in Int
    PROVE  /\ WaitingFrom(s, a, b) \in Seq(WaitingBlocks)
           /\ ToSet(WaitingFrom(s, a, b)) = {w \in ToSet(s) : w.number \in a..b}
<1> DEFINE op(r, w) == IF w.number \in a..b THEN Append(r, w) ELSE r
<1> DEFINE r == WaitingFrom(s, a, b)
<1> DEFINE n == Len(s)
<1>1. FoldIs(r, op, <<>>, s)
  BY DEF FoldIs, WaitingFrom
<1>2. FoldSteps(r, op, <<>>, s)
  BY <1>1, FoldLeftSteps
<1> HIDE DEF r
<1>3. PICK g : g[0] = <<>> /\ (\A k \in 1..n : g[k] = op(g[k - 1], s[k])) /\ r = g[n]
  BY <1>2 DEF FoldSteps
<1>4. n \in Nat /\ (\A k \in 1..n : s[k] \in WaitingBlocks) /\ ToSet(s) = {s[k] : k \in 1..n}
  BY ElementOfSeq, LenProperties DEF ToSet
<1> HIDE DEF n
<1> DEFINE In(k) == {w \in {s[i] : i \in 1..k} : w.number \in a..b}
<1> DEFINE T == {k \in Nat : k <= n => g[k] \in Seq(WaitingBlocks) /\ ToSet(g[k]) = In(k)}
<1>5. 0 \in T
  <2>1. <<>> \in Seq(WaitingBlocks) /\ ToSet(<<>>) = {}
    BY EmptySeq DEF ToSet
  <2>2. In(0) = {}
    OBVIOUS
  <2> HIDE DEF In
  <2> QED BY <1>3, <2>1, <2>2
<1>6. ASSUME NEW k \in Nat, k \in T PROVE k + 1 \in T
  <2> SUFFICES ASSUME k + 1 <= n PROVE g[k + 1] \in Seq(WaitingBlocks) /\ ToSet(g[k + 1]) = In(k + 1)
    OBVIOUS
  <2>1. k + 1 \in 1..n /\ (k + 1) - 1 = k /\ k <= n
    BY <1>4
  <2> DEFINE w == s[k + 1]
  <2>2. w \in WaitingBlocks /\ g[k] \in Seq(WaitingBlocks) /\ ToSet(g[k]) = In(k)
    BY <1>4, <1>6, <2>1
  <2>3. g[k + 1] = op(g[k], w)
    BY <1>3, <2>1
  <2>4. {s[i] : i \in 1..(k + 1)} = {s[i] : i \in 1..k} \cup {w}
    <3>1. 1..(k + 1) = (1..k) \cup {k + 1}
      OBVIOUS
    <3> QED BY <3>1
  <2> HIDE DEF w
  <2>5. In(k + 1) = IF w.number \in a..b THEN In(k) \cup {w} ELSE In(k)
    BY <2>4
  <2> HIDE DEF In
  <2>6. CASE w.number \in a..b
    <3>1. g[k + 1] = Append(g[k], w)
      BY <2>3, <2>6
    <3>2. Append(g[k], w) \in Seq(WaitingBlocks) /\ ToSet(Append(g[k], w)) = ToSet(g[k]) \cup {w}
      BY <2>2, ToSetAppend, AppendProperties
    <3> QED BY <2>2, <2>5, <2>6, <3>1, <3>2
  <2>7. CASE w.number \notin a..b
    BY <2>2, <2>3, <2>5, <2>7
  <2> QED BY <2>6, <2>7
<1> HIDE DEF T
<1>7. Nat \subseteq T
  BY <1>5, <1>6, SetInduction
<1>8. n \in T
  BY <1>4, <1>7
<1> QED BY <1>3, <1>4, <1>8 DEF T, r

\* What a line changes of the session.
AfterLine(s, line, n, o) == [Summarize(s, line) EXCEPT !.filed = n, !.of = o]
HasLine(t, s, line, n, o) ==
    /\ t \in Sessions /\ t.rollup = s.rollup /\ t.step = s.step /\ t.filed = n /\ t.of = o
    /\ line.type = "preconfirm" =>
         /\ t.posted = s.posted
         /\ ToSet(t.waiting) = {w \in ToSet(s.waiting) : w.number < line.number}
                                  \cup {[number |-> line.number, version |-> line.version]}
    /\ line.type = "advance" =>
         /\ t.posted = IF line.number > s.posted THEN line.number ELSE s.posted
         /\ ToSet(t.waiting) = {w \in ToSet(s.waiting) : w.number > t.posted}

LEMMA SummaryIs ==
    ASSUME NEW s \in Sessions, NEW line \in Lines, NEW n \in Nat, NEW o \in Nat
    PROVE  HasLine(AfterLine(s, line, n, o), s, line, n, o)
<1>1. s.waiting \in Seq(WaitingBlocks) /\ s.posted \in Nat /\ s.rollup \in Nat /\ s.step \in Int
      /\ s.preconfirmed \in Nat /\ DOMAIN s = {"rollup", "step", "filed", "of", "preconfirmed", "posted", "waiting"}
  BY DEF Sessions
<1>2. line.number \in Numbers /\ line.version \in Nat \ {0} /\ line.type \in {"preconfirm", "advance"}
      /\ line.number \in Nat /\ line.number \in 1..MaxReports /\ MaxReports \in Nat
  BY MaxLinesIs DEF Lines, Numbers
<1>3. \A w \in ToSet(s.waiting) : w.number \in 1..MaxReports
  <2>1. \A k \in 1..Len(s.waiting) : s.waiting[k] \in WaitingBlocks
    BY <1>1, ElementOfSeq
  <2>2. ToSet(s.waiting) = {s.waiting[k] : k \in 1..Len(s.waiting)}
    BY <1>1, LenProperties DEF ToSet
  <2> QED BY <2>1, <2>2 DEF WaitingBlocks, Numbers
<1>4. CASE line.type = "preconfirm"
  <2> DEFINE e == [number |-> line.number, version |-> line.version]
  <2> DEFINE ws == WaitingFrom(s.waiting, 1, line.number - 1)
  <2>1. ws \in Seq(WaitingBlocks) /\ ToSet(ws) = {w \in ToSet(s.waiting) : w.number \in 1..(line.number - 1)}
    BY <1>1, <1>2, WaitingFromIs
  <2>2. e \in WaitingBlocks
    BY <1>2 DEF WaitingBlocks
  <2> HIDE DEF ws
  <2>3. Append(ws, e) \in Seq(WaitingBlocks) /\ ToSet(Append(ws, e)) = ToSet(ws) \cup {e}
    BY <2>1, <2>2, ToSetAppend, AppendProperties
  <2>4. ToSet(ws) = {w \in ToSet(s.waiting) : w.number < line.number}
    BY <1>2, <1>3, <2>1
  <2> DEFINE u == [s EXCEPT !.preconfirmed = line.number, !.waiting = Append(ws, e)]
  <2> DEFINE t == [u EXCEPT !.filed = n, !.of = o]
  <2>5. Summarize(s, line) = u
    BY <1>4 DEF Summarize, ws
  <2> HIDE DEF e
  <2>6. /\ t \in Sessions /\ t.rollup = s.rollup /\ t.step = s.step /\ t.filed = n /\ t.of = o /\ t.posted = s.posted
        /\ t.waiting = Append(ws, e)
    BY <1>1, <1>2, <2>3 DEF Sessions
  <2> HIDE DEF u
  <2>7. AfterLine(s, line, n, o) = t
    BY <2>5 DEF AfterLine
  <2> HIDE DEF t
  <2> QED BY <1>4, <2>3, <2>4, <2>6, <2>7 DEF e, HasLine
<1>5. CASE line.type = "advance"
  <2> DEFINE p == IF line.number > s.posted THEN line.number ELSE s.posted
  <2> DEFINE ws == WaitingFrom(s.waiting, p + 1, MaxReports)
  <2>1. p \in Nat
    BY <1>1, <1>2
  <2> HIDE DEF p
  <2>2. ws \in Seq(WaitingBlocks) /\ ToSet(ws) = {w \in ToSet(s.waiting) : w.number \in (p + 1)..MaxReports}
    BY <1>1, <1>2, <2>1, WaitingFromIs
  <2>3. ToSet(ws) = {w \in ToSet(s.waiting) : w.number > p}
    BY <1>2, <1>3, <2>1, <2>2
  <2> DEFINE u == [s EXCEPT !.posted = p, !.waiting = ws]
  <2> DEFINE t == [u EXCEPT !.filed = n, !.of = o]
  <2>4. Summarize(s, line) = u
    BY <1>5 DEF Summarize, p
  <2> HIDE DEF ws
  <2>5. t \in Sessions /\ t.rollup = s.rollup /\ t.step = s.step /\ t.filed = n /\ t.of = o /\ t.posted = p /\ t.waiting = ws
    BY <1>1, <2>1, <2>2 DEF Sessions
  <2> HIDE DEF u
  <2>6. AfterLine(s, line, n, o) = t
    BY <2>4 DEF AfterLine
  <2> HIDE DEF t
  <2>7. ToSet(t.waiting) = {w \in ToSet(s.waiting) : w.number > t.posted}
    BY <2>3, <2>5
  <2>8. t.posted = IF line.number > s.posted THEN line.number ELSE s.posted
    BY <2>5 DEF p
  <2>9. line.type # "preconfirm"
    BY <1>5
  <2> QED BY <2>5, <2>6, <2>7, <2>8, <2>9 DEF HasLine
<1> QED BY <1>2, <1>4, <1>5


\* All the versions of a block in its file are different.
LEMMA TidyInjective ==
    ASSUME NEW page \in [version : Nat, broken : Seq(Nat)], Tidy(page)
    PROVE  IsInjective(Append(page.broken, page.version))
<1> DEFINE s == Append(page.broken, page.version)
<1> DEFINE n == Len(page.broken)
<1>1. page.version \in Nat /\ page.broken \in Seq(Nat)
  OBVIOUS
<1>2. n \in Nat /\ (\A i \in 1..n : page.broken[i] \in Nat) /\ DOMAIN page.broken = 1..n
  BY <1>1, ElementOfSeq, LenProperties
<1>3. /\ s \in Seq(Nat) /\ Len(s) = n + 1
      /\ \A i \in 1..n : s[i] = page.broken[i]
      /\ s[n + 1] = page.version
  BY <1>1, AppendProperties
<1>4. DOMAIN s = 1..(n + 1)
  BY <1>3, LenProperties
<1> HIDE DEF s
<1>5. ASSUME NEW i \in 1..n PROVE s[i] # s[n + 1]
  <2>1. page.broken[i] < page.version /\ page.broken[i] \in Nat
    BY <1>2 DEF Tidy
  <2> QED BY <1>1, <1>3, <2>1
<1>6. ASSUME NEW i \in 1..(n + 1), NEW j \in 1..(n + 1), s[i] = s[j] PROVE i = j
  <2>1. (i \in 1..n \/ i = n + 1) /\ (j \in 1..n \/ j = n + 1)
    BY <1>2
  <2>2. CASE i \in 1..n /\ j \in 1..n
    <3>1. page.broken[i] = page.broken[j]
      BY <1>3, <1>6, <2>2
    <3> QED BY <1>2, <2>2, <3>1 DEF Tidy, IsInjective
  <2> QED BY <1>5, <1>6, <2>1, <2>2
<1>7. IsInjective(s)
  BY <1>4, <1>6 DEF IsInjective
<1> QED BY <1>7 DEF s

\* What a line changes of its block's file, whose version is not above its own.
LEMMA MergeIs ==
    ASSUME NEW page \in [version : Nat, broken : Seq(Nat)], NEW line \in Lines, Tidy(page),
           page.version <= line.version
    PROVE  LET r == MergeLine(page, line)
           IN  /\ r \in [version : Nat, broken : Seq(Nat)] /\ Tidy(r) /\ r.version = line.version
               /\ \A v \in Nat \ {0} : Held(page, v) => Held(r, v) \/ (line.type = "advance" /\ v = page.version)
<1>1. page.version \in Nat /\ page.broken \in Seq(Nat) /\ line.version \in Nat \ {0}
      /\ line.type \in {"preconfirm", "advance"}
  BY DEF Lines
<1> DEFINE r == MergeLine(page, line)
<1> DEFINE n == Len(page.broken)
<1>2. n \in Nat /\ (\A i \in 1..n : page.broken[i] \in Nat) /\ DOMAIN page.broken = 1..n
  BY <1>1, ElementOfSeq, LenProperties
<1>3. r.version = line.version /\ DOMAIN r = {"version", "broken"}
      /\ r = [version |-> line.version, broken |-> r.broken]
  BY DEF MergeLine
<1>4. CASE line.type = "preconfirm" /\ page.version \notin {0, line.version}
  <2> DEFINE s == Append(page.broken, page.version)
  <2>1. r.broken = s
    BY <1>4 DEF MergeLine
  <2>2. /\ s \in Seq(Nat) /\ Len(s) = n + 1
        /\ \A i \in 1..n : s[i] = page.broken[i]
        /\ s[n + 1] = page.version
    BY <1>1, AppendProperties
  <2> HIDE DEF s, r
  <2>3. page.version < line.version
    BY <1>1, <1>4
  <2>4. \A i \in 1..n : page.broken[i] < page.version
    BY DEF Tidy
  <2>5. \A i \in 1..(n + 1) : s[i] < line.version
    <3> TAKE i \in 1..(n + 1)
    <3>1. CASE i \in 1..n
      <4>1. PICK x \in Nat : x = page.broken[i]
        BY <1>2, <3>1
      <4>2. x < page.version /\ s[i] = x
        BY <2>2, <2>4, <3>1, <4>1
      <4> QED BY <1>1, <2>3, <4>2
    <3>2. CASE i = n + 1
      BY <2>2, <2>3, <3>2
    <3> QED BY <1>2, <3>1, <3>2
  <2>6. IsInjective(s)
    BY TidyInjective DEF s
  <2>7. Tidy(r)
    BY <1>3, <2>1, <2>2, <2>5, <2>6 DEF Tidy
  <2>8. ASSUME NEW v \in Nat \ {0}, Held(page, v) PROVE Held(r, v)
    <3>1. CASE v = page.version
      <4>1. n + 1 \in 1..Len(s)
        BY <1>2, <2>2
      <4> QED BY <2>1, <2>2, <3>1, <4>1 DEF Held
    <3>2. CASE v # page.version
      <4>1. PICK k \in 1..n : v = page.broken[k]
        BY <2>8, <3>2 DEF Held
      <4>2. k \in 1..Len(s)
        BY <1>2, <2>2
      <4> QED BY <2>1, <2>2, <4>1, <4>2 DEF Held
    <3> QED BY <3>1, <3>2
  <2>9. r \in [version : Nat, broken : Seq(Nat)]
    BY <1>1, <1>3, <2>1, <2>2
  <2> QED BY <1>3, <2>7, <2>8, <2>9 DEF r
<1>5. CASE ~(line.type = "preconfirm" /\ page.version \notin {0, line.version})
  <2>1. r.broken = page.broken
    BY <1>5 DEF MergeLine
  <2> HIDE DEF r
  <2>2. Tidy(r)
    <3>1. \A i \in 1..n : page.broken[i] < line.version
      <4> TAKE i \in 1..n
      <4>1. page.broken[i] < page.version
        BY DEF Tidy
      <4> QED BY <1>1, <1>2, <4>1
    <3> QED BY <1>3, <2>1, <3>1 DEF Tidy
  <2>3. ASSUME NEW v \in Nat \ {0}, Held(page, v), ~(line.type = "advance" /\ v = page.version)
        PROVE  Held(r, v)
    <3>1. CASE v = page.version
      <4>1. line.type = "preconfirm" /\ page.version = line.version
        BY <1>1, <1>5, <2>3, <3>1
      <4> QED BY <1>3, <3>1, <4>1 DEF Held
    <3>2. CASE v # page.version
      BY <2>1, <2>3, <3>2 DEF Held
    <3> QED BY <3>1, <3>2
  <2>4. r \in [version : Nat, broken : Seq(Nat)]
    BY <1>1, <1>3, <2>1
  <2> QED BY <1>3, <2>2, <2>3, <2>4 DEF r
<1> QED BY <1>4, <1>5

\* A filed line is of a block, and its version is known.
LEMMA LineIs ==
    ASSUME RunnerShape, NEW i \in 1..Len(told)
    PROVE  /\ told[i] \in Lines /\ told[i].number \in Numbers /\ told[i].version \in Nat \ {0}
           /\ told[i].type \in {"preconfirm", "advance"}
           /\ files[told[i].number] \in [version : Nat, broken : Seq(Nat)]
<1>1. told[i] \in Lines
  BY ElementOfSeq DEF RunnerShape
<1>2. told[i].number \in Numbers
  BY <1>1 DEF Lines
<1> QED BY <1>1, <1>2 DEF Lines, RunnerShape

\* The summary depends on its lines only.
LEMMA InSummarySame ==
    ASSUME NEW f \in Nat, InSummary(f), \A i \in 1..f : told'[i] = told[i],
           kept'.posted = kept.posted, kept'.waiting = kept.waiting
    PROVE  InSummary(f)'
<1>1. ASSUME NEW i \in 1..f PROVE StillWaits(f, i)' <=> StillWaits(f, i)
  <2>1. \A j \in (i + 1)..f : j \in 1..f
    OBVIOUS
  <2> QED BY <2>1 DEF StillWaits
<1>2. WaitingLines(f)' = WaitingLines(f) /\ WaitingLines(f) \subseteq 1..f
  BY <1>1 DEF WaitingLines
<1>3. {BlockOf(i) : i \in WaitingLines(f)}' = {BlockOf(i) : i \in WaitingLines(f)}
  <2>1. \A i \in WaitingLines(f) : BlockOf(i)' = BlockOf(i)
    BY <1>2 DEF BlockOf
  <2> QED BY <1>2, <2>1
<1>4. ToSet(kept.waiting)' = ToSet(kept.waiting)
  OBVIOUS
<1> QED BY <1>3, <1>4 DEF InSummary

\* A step that leaves the lines, the files and the places alone.
LEMMA FiledSame ==
    ASSUME Filed, UNCHANGED <<files, told, built, onRollup, drops, log>>,
           kept'.posted = kept.posted, kept'.waiting = kept.waiting,
           filer'.on \/ kept'.filed # NotSaved =>
                (filer.on \/ kept.filed # NotSaved) /\ Place' = Place,
           filer'.held => filer.held
    PROVE  Filed'
<1>1. BuiltInv' /\ LinesInv' /\ FilesInv'
  BY DEF Filed, BuiltInv, LinesInv, FilesInv, UpTo
<1>2. ASSUME filer'.on \/ kept'.filed # NotSaved
      PROVE  \E f \in 0..Len(told') : \E g \in 0..Len(told') :
               FiledTo(f, g, Place)' /\ (filer'.held => g = f + 1)
  <2>1. PICK f \in 0..Len(told), g \in 0..Len(told) : FiledTo(f, g, Place) /\ (filer.held => g = f + 1)
    BY <1>2 DEF Filed
  <2>2. InFiles(f, g)'
    BY <2>1 DEF FiledTo, InFiles, OverBy
  <2>3. InSummary(f)'
    BY <2>1, InSummarySame DEF FiledTo
  <2>4. FiledTo(f, g, Place)'
    BY <1>2, <2>1, <2>2, <2>3 DEF FiledTo
  <2> QED BY <2>1, <2>4
<1> QED BY <1>1, <1>2 DEF Filed

\* What the versions of the node's blocks are not below stays that.
Grows == \A n \in Numbers : \A v \in Nat : UpTo(n, v) => UpTo(n, v)'

\* The node goes on, and the operator writes nothing.
LEMMA LineLost ==
    ASSUME RunnerShape, Filed, Grows, BuiltInv', onRollup' \in Nat, onRollup <= onRollup',
           UNCHANGED <<files, told, log, kept, filer, emptied>>
    PROVE  Filed'
<1>1. LinesInv'
  <2>1. ASSUME NEW i \in 1..Len(told) PROVE UpTo(told[i].number, told[i].version)'
    <3>1. UpTo(told[i].number, told[i].version)
      BY DEF Filed, LinesInv
    <3>2. PICK l \in Lines : l = told[i] /\ l = told'[i]
      BY LineIs
    <3>3. UpTo(l.number, l.version)'
      BY <3>1, <3>2 DEF Grows, Lines
    <3> QED BY <3>2, <3>3 DEF UpTo
  <2>2. ASSUME NEW i \in 1..Len(told), told[i].type = "advance" PROVE told[i].number <= onRollup'
    <3>1. told[i].number <= onRollup /\ told[i].number \in Nat /\ onRollup \in Nat
      <4>1. told[i].number \in Nat
        BY LineIs DEF Numbers
      <4>2. onRollup \in Nat
        BY LenProperties DEF RunnerShape
      <4> QED BY <2>2, <4>1, <4>2 DEF Filed, LinesInv
    <3> QED BY <3>1
  <2> QED BY <2>1, <2>2 DEF Filed, LinesInv
<1>2. FilesInv'
  <2>1. ASSUME NEW n \in Numbers PROVE UpTo(n, files[n].version)'
    <3>1. PICK v \in Nat : v = files[n].version /\ v = files'[n].version
      BY DEF RunnerShape
    <3>2. UpTo(n, v)'
      BY <3>1 DEF Grows, Filed, FilesInv
    <3> QED BY <3>1, <3>2 DEF UpTo
  <2> QED BY <2>1 DEF Filed, FilesInv
<1>3. ASSUME filer.on \/ kept.filed # NotSaved
      PROVE  \E f \in 0..Len(told') : \E g \in 0..Len(told') :
               FiledTo(f, g, Place)' /\ (filer'.held => g = f + 1)
  <2>1. PICK f \in 0..Len(told), g \in 0..Len(told) : FiledTo(f, g, Place) /\ (filer.held => g = f + 1)
    BY <1>3 DEF Filed
  <2>2. InFiles(f, g)'
    BY <2>1 DEF FiledTo, InFiles, OverBy
  <2>3. InSummary(f)'
    BY <2>1, InSummarySame DEF FiledTo
  <2>4. Place' = Place
    BY DEF Place, StartsAt
  <2>5. FiledTo(f, g, Place)'
    BY <2>1, <2>2, <2>3, <2>4 DEF FiledTo
  <2> QED BY <2>1, <2>5
<1> QED BY <1>1, <1>2, <1>3 DEF Filed

\* The operator writes a line of a block that is new, or that is posted.
LEMMA LineWritten ==
    ASSUME RunnerShape, PlaceInv, Filed, Grows, BuiltInv', filer.on,
           NEW line \in Lines, told' = Append(told, line), log' = Append(log, line),
           UNCHANGED <<files, kept, filer, emptied>>,
           onRollup' \in Nat, onRollup <= onRollup', UpTo(line.number, line.version)',
           \A v \in Nat : UpTo(line.number, v) =>
                v <= line.version /\ (line.type = "preconfirm" => v < line.version),
           line.type = "advance" => line.number <= onRollup',
           line.number > onRollup
    PROVE  Filed'
<1> DEFINE n == Len(told)
<1>1. /\ n \in Nat /\ Len(told') = n + 1 /\ told' \in Seq(Lines)
      /\ \A i \in 1..n : told'[i] = told[i]
      /\ told'[n + 1] = line
  BY AppendProperties DEF RunnerShape
<1>2. /\ Len(log) \in Nat /\ Len(log') = Len(log) + 1
      /\ \A i \in 1..Len(log) : log'[i] = log[i]
      /\ log'[Len(log) + 1] = line
  BY AppendProperties DEF RunnerShape
<1>3. \A i \in 1..n : /\ told[i] \in Lines /\ told[i].number \in Numbers /\ told[i].version \in Nat
                      /\ told[i].number \in Nat
  <2>1. \A k \in Numbers : k \in Nat
    BY DEF Numbers
  <2> QED BY <2>1, LineIs
<1>4. onRollup \in Nat
  BY LenProperties DEF RunnerShape
<1>5. line.number \in Numbers /\ line.number \in Nat /\ line.version \in Nat
  BY DEF Lines, Numbers
<1>6. LinesInv'
  <2>1. ASSUME NEW i \in 1..(n + 1) PROVE UpTo(told[i].number, told[i].version)'
    <3>1. CASE i \in 1..n
      <4>1. UpTo(told[i].number, told[i].version)
        BY <3>1 DEF Filed, LinesInv
      <4>2. PICK l \in Lines : l = told[i] /\ l = told'[i] /\ l.number \in Numbers /\ l.version \in Nat
        BY <1>1, <1>3, <3>1
      <4>3. UpTo(l.number, l.version)'
        BY <4>1, <4>2 DEF Grows
      <4> QED BY <4>2, <4>3 DEF UpTo
    <3>2. CASE i = n + 1
      <4>1. told'[i] = line
        BY <1>1, <3>2
      <4> QED BY <4>1 DEF UpTo
    <3> QED BY <1>1, <3>1, <3>2
  <2>2. ASSUME NEW i \in 1..(n + 1), told'[i].type = "advance" PROVE told'[i].number <= onRollup'
    <3>1. CASE i \in 1..n
      <4>1. told[i].number <= onRollup
        BY <1>1, <2>2, <3>1 DEF Filed, LinesInv
      <4> QED BY <1>1, <1>3, <1>4, <3>1, <4>1
    <3>2. CASE i = n + 1
      BY <1>1, <2>2, <3>2
    <3> QED BY <1>1, <3>1, <3>2
  <2>3. ASSUME NEW j \in 1..(n + 1), NEW i \in 1..(j - 1)
        PROVE  /\ told'[i].number = told'[j].number =>
                    /\ told'[i].version <= told'[j].version
                    /\ told'[j].type = "preconfirm" => told'[i].version < told'[j].version
               /\ told'[i].type = "advance" => told'[i].number < told'[j].number
    <3>1. i \in 1..n /\ told'[i] = told[i]
      BY <1>1
    <3>2. CASE j \in 1..n
      <4>1. told'[j] = told[j]
        BY <1>1, <3>2
      <4> QED BY <3>1, <3>2, <4>1 DEF Filed, LinesInv
    <3>3. CASE j = n + 1
      <4>1. told'[j] = line
        BY <1>1, <3>3
      <4>2. UpTo(told[i].number, told[i].version) /\ told[i].version \in Nat /\ told[i].number \in Nat
        BY <1>3, <3>1 DEF Filed, LinesInv
      <4>3. told[i].type = "advance" => told[i].number <= onRollup
        BY <3>1 DEF Filed, LinesInv
      <4>4. told[i].type = "advance" => told[i].number < line.number
        BY <1>4, <1>5, <4>2, <4>3
      <4> QED BY <3>1, <4>1, <4>2, <4>4
    <3> QED BY <1>1, <3>2, <3>3
  <2>4. Len(told') = n + 1
    BY <1>1
  <2> HIDE DEF n
  <2> QED BY <2>1, <2>2, <2>3, <2>4 DEF LinesInv
<1>7. FilesInv'
  <2>1. ASSUME NEW k \in Numbers PROVE UpTo(k, files[k].version)'
    <3>1. PICK v \in Nat : v = files[k].version /\ v = files'[k].version
      BY DEF RunnerShape
    <3>2. UpTo(k, v)'
      BY <3>1 DEF Grows, Filed, FilesInv
    <3> QED BY <3>1, <3>2 DEF UpTo
  <2> QED BY <2>1 DEF Filed, FilesInv
<1>8. Place' = Place /\ Place \in 0..Len(log)
  <2>1. filer.place \in Nat /\ (filer.of = emptied => filer.place <= Len(log))
    BY DEF RunnerShape, Filers, PlaceInv, InLog
  <2>2. StartsAt(filer.place, filer.of) \in 0..Len(log)
    BY <1>2, <2>1 DEF StartsAt
  <2> QED BY <2>2 DEF Place, StartsAt
<1>9. PICK p \in 0..Len(log) : p = Place
  BY <1>8
<1>10. PICK f \in 0..n, g \in 0..n : FiledTo(f, g, p) /\ (filer.held => g = f + 1)
  BY <1>9 DEF Filed
<1>11. InFiles(f, g)'
  <2>1. ASSUME NEW k \in 1..g PROVE told'[k] = told[k] /\ told[k].version <= files[told[k].number].version
    BY <1>1, <1>10 DEF FiledTo, InFiles
  <2>2. ASSUME NEW k \in (f + 1)..(n + 1) PROVE files[told'[k].number].version <= told'[k].version
    <3>1. CASE k \in 1..n
      <4>1. told'[k] = told[k] /\ k \in (f + 1)..n
        BY <1>1, <3>1
      <4> QED BY <1>10, <4>1 DEF FiledTo, InFiles
    <3>2. CASE k = n + 1
      <4>1. UpTo(line.number, files[line.number].version) /\ files[line.number].version \in Nat
        BY <1>5 DEF Filed, FilesInv, RunnerShape
      <4> QED BY <1>1, <3>2, <4>1
    <3>3. k \in 1..n \/ k = n + 1
      BY <1>1
    <3> QED BY <3>1, <3>2, <3>3
  <2>3. ASSUME NEW i \in 1..g, told[i].type = "preconfirm",
               ~Held(files[told[i].number], told[i].version)
        PROVE  \E j \in (i + 1)..g : OverBy(i, j)'
    <3>1. PICK j \in (i + 1)..g : OverBy(i, j)
      BY <1>10, <2>3 DEF FiledTo, InFiles
    <3>2. told'[j] = told[j] /\ told'[i] = told[i] /\ \A k \in 1..(j - 1) : told'[k] = told[k]
      BY <1>1
    <3>3. OverBy(i, j)'
      BY <3>1, <3>2 DEF OverBy
    <3> QED BY <3>3
  <2>4. Len(told') = n + 1
    BY <1>1
  <2> HIDE DEF n
  <2> QED BY <2>1, <2>2, <2>3, <2>4 DEF InFiles
<1>12. InSummary(f)'
  <2>1. \A i \in 1..f : told'[i] = told[i]
    BY <1>1
  <2> QED BY <1>10, <2>1, InSummarySame DEF FiledTo
<1>13. \A k \in (f + 1)..(n + 1) : told'[k] = log'[p + (k - f)]
  <2> TAKE k \in (f + 1)..(n + 1)
  <2>1. n - f = Len(log) - p
    BY <1>10 DEF FiledTo
  <2>2. CASE k \in 1..n
    <3>1. k \in (f + 1)..n /\ p + (k - f) \in 1..Len(log)
      BY <1>2, <2>1, <2>2
    <3>2. told[k] = log[p + (k - f)]
      BY <1>10, <3>1 DEF FiledTo
    <3> QED BY <1>1, <1>2, <2>2, <3>1, <3>2
  <2>3. CASE k = n + 1
    <3>1. p + (k - f) = Len(log) + 1
      <4>1. PICK a \in Nat : a = n
        BY <1>1
      <4>2. PICK b \in Nat : b = Len(log)
        BY <1>2
      <4>3. a - f = b - p /\ k = a + 1
        BY <2>1, <2>3, <4>1, <4>2
      <4>4. f \in Int /\ p \in Int
        OBVIOUS
      <4>5. p + (k - f) = b + 1
        BY <4>3, <4>4
      <4> QED BY <4>2, <4>5
    <3> QED BY <1>1, <1>2, <2>3, <3>1
  <2>4. k \in 1..n \/ k = n + 1
    BY <1>1
  <2> QED BY <2>2, <2>3, <2>4
<1>14. FiledTo(f, g, p)'
  <2>1. g <= Len(told') /\ g \in {f, f + 1} /\ Len(told') - f = Len(log') - p
    BY <1>1, <1>2, <1>10 DEF FiledTo
  <2> QED BY <1>1, <1>11, <1>12, <1>13, <2>1 DEF FiledTo
<1>15. f \in 0..Len(told') /\ g \in 0..Len(told')
  BY <1>1
<1>16. FiledTo(f, g, Place)'
  BY <1>8, <1>9, <1>14
<1> QED BY <1>6, <1>7, <1>10, <1>15, <1>16 DEF Filed

\* The next line to file is the next one that was told.
LEMMA NextLineIs ==
    ASSUME RunnerShape, NEW f \in 0..Len(told), NEW g \in 0..Len(told), filer.on,
           filer.of = emptied, filer.place < Len(log), FiledTo(f, g, Place)
    PROVE  /\ Place = filer.place /\ f + 1 \in 1..Len(told)
           /\ log[filer.place + 1] = told[f + 1]
<1>1. filer.place \in Nat /\ Len(log) \in Nat /\ Len(told) \in Nat
  BY LenProperties DEF RunnerShape, Filers
<1>2. Place = filer.place
  BY <1>1 DEF Place, StartsAt
<1>3. PICK p \in Nat : p = filer.place
  BY <1>1
<1>4. Len(told) - f = Len(log) - p /\ \A k \in (f + 1)..Len(told) : told[k] = log[p + (k - f)]
  BY <1>2, <1>3 DEF FiledTo
<1>5. p < Len(log)
  BY <1>3
<1>6. f + 1 \in (f + 1)..Len(told) /\ f + 1 \in 1..Len(told) /\ p + ((f + 1) - f) = p + 1
  BY <1>1, <1>4, <1>5
<1>7. told[f + 1] = log[p + ((f + 1) - f)]
  BY <1>4, <1>6
<1>8. told[f + 1] = log[p + 1]
  BY <1>6, <1>7
<1> QED BY <1>2, <1>3, <1>6, <1>8

\* A line is merged into its block's file, which a stop may repeat.
LEMMA FileLineFiled ==
    ASSUME RunnerShape, Filed, FileLine, filer.of = emptied
    PROVE  Filed' /\ files' \in [Numbers -> [version : Nat, broken : Seq(Nat)]]
<1>1. /\ filer.on /\ ~filer.held /\ filer.place < Len(log)
      /\ UNCHANGED <<kept, told, log, built, onRollup, drops, emptied>>
      /\ filer'.on = filer.on /\ filer'.place = filer.place /\ filer'.of = filer.of
  BY DEF FileLine, RunnerShape, Filers
<1>2. PICK f \in 0..Len(told), g \in 0..Len(told) : FiledTo(f, g, Place)
  BY <1>1 DEF Filed
<1>3. Place = filer.place /\ f + 1 \in 1..Len(told) /\ log[filer.place + 1] = told[f + 1]
  BY <1>1, <1>2, NextLineIs
<1>4. PICK line \in Lines : line = told[f + 1]
  BY <1>3, LineIs
<1>5. PICK n \in Numbers : n = line.number
  BY DEF Lines
<1>6. /\ files[n] \in [version : Nat, broken : Seq(Nat)] /\ files[n].version <= line.version
      /\ Tidy(files[n]) /\ line.version \in Nat \ {0} /\ UpTo(n, line.version)
  <2>1. f + 1 \in (f + 1)..Len(told)
    BY <1>3
  <2>2. files[told[f + 1].number].version <= told[f + 1].version
    BY <1>2, <2>1 DEF FiledTo, InFiles
  <2>3. UpTo(told[f + 1].number, told[f + 1].version)
    BY <1>3 DEF Filed, LinesInv
  <2> QED BY <1>4, <1>5, <2>2, <2>3 DEF Filed, FilesInv, RunnerShape, Lines
<1> DEFINE r == MergeLine(files[n], line)
<1>7. /\ r \in [version : Nat, broken : Seq(Nat)] /\ Tidy(r) /\ r.version = line.version
      /\ \A v \in Nat \ {0} : Held(files[n], v) => Held(r, v) \/ (line.type = "advance" /\ v = files[n].version)
  BY <1>6, MergeIs
<1>8. files' = [files EXCEPT ![n] = r]
  BY <1>3, <1>4, <1>5 DEF FileLine
<1> HIDE DEF r
<1>9. PICK q : q = r
  OBVIOUS
<1>10. /\ files' \in [Numbers -> [version : Nat, broken : Seq(Nat)]]
       /\ files'[n] = q /\ \A k \in Numbers : k # n => files'[k] = files[k]
  BY <1>7, <1>8, <1>9 DEF RunnerShape
<1>11. FilesInv'
  <2>1. ASSUME NEW k \in Numbers PROVE UpTo(k, files[k].version)' /\ Tidy(files[k])'
    <3>1. CASE k = n
      <4>1. q.version = line.version /\ Tidy(q)
        BY <1>7, <1>9
      <4> QED BY <1>1, <1>6, <1>10, <3>1, <4>1 DEF UpTo, Tidy
    <3>2. CASE k # n
      BY <1>1, <1>10, <3>2 DEF Filed, FilesInv, UpTo, Tidy
    <3> QED BY <3>1, <3>2
  <2> QED BY <2>1 DEF FilesInv
<1>12. BuiltInv' /\ LinesInv'
  BY <1>1 DEF Filed, BuiltInv, LinesInv, UpTo
<1>13. \A i \in 1..Len(told) : told[i].number \in Numbers /\ told[i].version \in Nat \ {0}
  BY LineIs
<1>14. f \in 0..Len(told) /\ g \in {f, f + 1} /\ Len(told) \in Nat /\ f + 1 <= Len(told) /\ f \in Nat
  BY <1>2, <1>3, LenProperties DEF FiledTo, RunnerShape
<1>15. ASSUME NEW i \in 1..Len(told), NEW j \in 1..Len(told), i < j, told[i].number = told[j].number
       PROVE  told[i].version <= told[j].version
  <2>1. i \in Int /\ j \in Int /\ 1 <= i
    OBVIOUS
  <2>2. i \in 1..(j - 1)
    BY <1>15, <2>1
  <2> QED BY <1>15, <2>2 DEF Filed, LinesInv
<1>16. InFiles(f, f + 1)'
  <2>1. ASSUME NEW k \in 1..(f + 1) PROVE told[k].version <= files'[told[k].number].version
    <3>1. k \in 1..Len(told)
      BY <1>14
    <3>2. CASE k = f + 1
      BY <1>4, <1>5, <1>6, <1>7, <1>9, <1>10, <3>2
    <3>3. CASE k # f + 1 /\ told[k].number = n
      <4>1. k < f + 1 /\ told[k].number = told[f + 1].number
        BY <1>4, <1>5, <1>14, <3>3
      <4>2. told[k].version <= line.version
        BY <1>3, <1>4, <1>15, <3>1, <4>1
      <4> QED BY <1>7, <1>9, <1>10, <3>3, <4>2
    <3>4. CASE k # f + 1 /\ told[k].number # n
      <4>1. k \in 1..g
        BY <1>14, <3>4
      <4>2. told[k].version <= files[told[k].number].version
        BY <1>2, <4>1 DEF FiledTo, InFiles
      <4> QED BY <1>10, <1>13, <3>1, <3>4, <4>2
    <3> QED BY <3>2, <3>3, <3>4
  <2>2. ASSUME NEW k \in (f + 1)..Len(told) PROVE files'[told[k].number].version <= told[k].version
    <3>1. k \in 1..Len(told)
      BY <1>14
    <3>2. CASE k = f + 1
      BY <1>4, <1>5, <1>6, <1>7, <1>9, <1>10, <3>2
    <3>3. CASE k # f + 1 /\ told[k].number = n
      <4>1. f + 1 < k /\ told[k].number = told[f + 1].number
        BY <1>4, <1>5, <1>14, <3>3
      <4>2. line.version <= told[k].version
        BY <1>3, <1>4, <1>15, <3>1, <4>1
      <4> QED BY <1>7, <1>9, <1>10, <3>3, <4>2
    <3>4. CASE k # f + 1 /\ told[k].number # n
      <4>2. files[told[k].number].version <= told[k].version
        BY <1>2 DEF FiledTo, InFiles
      <4> QED BY <1>10, <1>13, <3>1, <3>4, <4>2
    <3> QED BY <3>2, <3>3, <3>4
  <2>3. ASSUME NEW i \in 1..(f + 1), told[i].type = "preconfirm"
        PROVE  Held(files'[told[i].number], told[i].version) \/ \E j \in (i + 1)..(f + 1) : OverBy(i, j)
    <3>1. i \in 1..Len(told)
      BY <1>14
    <3>2. CASE i = f + 1
      <4>1. Held(q, line.version)
        BY <1>7, <1>9 DEF Held
      <4> QED BY <1>4, <1>5, <1>10, <3>2, <4>1
    <3>3. CASE i # f + 1
      <4>1. i \in 1..g /\ i \in 1..f
        BY <1>14, <3>3
      <4>2. Held(files[told[i].number], told[i].version) \/ \E j \in (i + 1)..g : OverBy(i, j)
        BY <1>2, <2>3, <4>1 DEF FiledTo, InFiles
      <4>3. CASE \E j \in (i + 1)..g : OverBy(i, j)
        <5>1. \A j \in (i + 1)..g : j \in (i + 1)..(f + 1)
          BY <1>14
        <5> QED BY <4>3, <5>1
      <4>4. CASE Held(files[told[i].number], told[i].version) /\ told[i].number # n
        BY <1>10, <1>13, <3>1, <4>4
      <4>5. CASE Held(files[told[i].number], told[i].version) /\ told[i].number = n
        <5>1. Held(q, told[i].version) \/ (line.type = "advance" /\ told[i].version = files[n].version)
          BY <1>7, <1>9, <1>13, <3>1, <4>5
        <5>2. CASE Held(q, told[i].version)
          BY <1>10, <4>5, <5>2
        <5>3. CASE line.type = "advance" /\ told[i].version = files[n].version /\ ~Held(q, told[i].version)
          <6>1. told[i].version # line.version
            BY <1>7, <1>9, <5>3 DEF Held
          <6>2. files[n].version < line.version
            BY <1>6, <5>3, <6>1
          <6>3. ASSUME NEW k \in 1..((f + 1) - 1), told[k].number = n PROVE told[k].version # line.version
            <7>1. k \in 1..g /\ k \in 1..Len(told)
              BY <1>14
            <7>2. told[k].version <= files[n].version
              BY <1>2, <6>3, <7>1 DEF FiledTo, InFiles
            <7>3. told[k].version \in Nat
              BY <1>13, <7>1
            <7> QED BY <1>6, <6>2, <7>2, <7>3
          <6>4. OverBy(i, f + 1)
            BY <1>4, <1>5, <4>5, <5>3, <6>3 DEF OverBy
          <6>5. f + 1 \in (i + 1)..(f + 1)
            BY <1>14, <4>1
          <6> QED BY <6>4, <6>5
        <5> QED BY <5>1, <5>2, <5>3
      <4> QED BY <4>2, <4>3, <4>4, <4>5
    <3> QED BY <3>2, <3>3
  <2>4. \A i \in 1..(f + 1) : \A j \in (i + 1)..(f + 1) : OverBy(i, j) => OverBy(i, j)'
    BY <1>1 DEF OverBy
  <2>5. \A i \in 1..(f + 1) : Held(files'[told[i].number], told[i].version) => Held(files[told[i].number], told[i].version)'
    BY <1>1 DEF Held
  <2>6. ASSUME NEW i \in 1..(f + 1), told[i].type = "preconfirm"
        PROVE  Held(files[told[i].number], told[i].version)' \/ \E j \in (i + 1)..(f + 1) : OverBy(i, j)'
    <3>1. CASE Held(files'[told[i].number], told[i].version)
      BY <2>5, <3>1
    <3>2. CASE ~Held(files'[told[i].number], told[i].version)
      <4>1. PICK j \in (i + 1)..(f + 1) : OverBy(i, j)
        BY <2>3, <2>6, <3>2
      <4>2. OverBy(i, j)'
        BY <2>4, <4>1
      <4> QED BY <4>2
    <3> QED BY <3>1, <3>2
  <2> QED BY <1>1, <2>1, <2>2, <2>6 DEF InFiles
<1>17. InSummary(f)'
  BY <1>1, <1>2, <1>14, InSummarySame DEF FiledTo
<1>18. Place' = Place /\ filer'.on
  BY <1>1 DEF Place, StartsAt
<1>19. FiledTo(f, f + 1, Place)'
  BY <1>1, <1>2, <1>14, <1>16, <1>17, <1>18 DEF FiledTo
<1>20. f + 1 \in 0..Len(told)
  BY <1>14
<1> QED BY <1>1, <1>10, <1>11, <1>12, <1>19, <1>20 DEF Filed

\* The summary after one line more.
LEMMA InSummaryNext ==
    ASSUME RunnerShape, LinesInv, NEW f \in Nat, f + 1 \in 1..Len(told), InSummary(f),
           kept' = [Summarize(kept, told[f + 1]) EXCEPT !.filed = filer.place + 1, !.of = filer.of],
           UNCHANGED told
    PROVE  InSummary(f + 1)' /\ kept' \in Sessions /\ kept'.rollup = kept.rollup
           /\ kept'.filed = filer.place + 1 /\ kept'.of = filer.of
<1>1. PICK line \in Lines : line = told[f + 1]
  BY LineIs
<1>2. PICK t : t = kept'
  OBVIOUS
<1>3. /\ t \in Sessions /\ t.rollup = kept.rollup /\ t.filed = filer.place + 1 /\ t.of = filer.of
      /\ line.type = "preconfirm" =>
           /\ t.posted = kept.posted
           /\ ToSet(t.waiting) = {w \in ToSet(kept.waiting) : w.number < line.number} \cup {BlockOf(f + 1)}
      /\ line.type = "advance" =>
           /\ t.posted = IF line.number > kept.posted THEN line.number ELSE kept.posted
           /\ ToSet(t.waiting) = {w \in ToSet(kept.waiting) : w.number > t.posted}
  <2>1. kept \in Sessions /\ filer.place + 1 \in Nat /\ filer.of \in Nat
    BY DEF RunnerShape, AllSessions, Filers
  <2>2. PICK n \in Nat, o \in Nat : n = filer.place + 1 /\ o = filer.of
    BY <2>1
  <2>3. t = [Summarize(kept, line) EXCEPT !.filed = n, !.of = o]
    BY <1>1, <1>2, <2>2
  <2>4. BlockOf(f + 1) = [number |-> line.number, version |-> line.version]
    BY <1>1 DEF BlockOf
  <2>5. t = AfterLine(kept, line, n, o)
    BY <2>3 DEF AfterLine
  <2>6. HasLine(t, kept, line, n, o)
    BY <1>1, <2>1, <2>2, <2>5, SummaryIs
  <2> QED BY <2>2, <2>4, <2>6 DEF HasLine
<1>4. \A i \in 1..(f + 1) : i \in 1..Len(told) /\ told[i].number \in Nat /\ told[i].type \in {"preconfirm", "advance"}
  <2>1. \A k \in Numbers : k \in Nat
    BY DEF Numbers
  <2>2. \A i \in 1..(f + 1) : i \in 1..Len(told)
    OBVIOUS
  <2> QED BY <2>1, <2>2, LineIs
<1>5. kept.posted \in Nat /\ t.posted \in Nat
  BY <1>3 DEF RunnerShape, AllSessions, Sessions
<1>6. line.number > kept.posted
  <2>1. CASE kept.posted = 0
    <3>1. line.number \in Nat /\ line.number # 0
      BY DEF Lines, Numbers
    <3> QED BY <2>1, <3>1
  <2>2. CASE kept.posted # 0
    <3>1. PICK j \in 1..f : told[j].type = "advance" /\ told[j].number = kept.posted
      BY <2>2 DEF InSummary
    <3>2. j \in 1..((f + 1) - 1)
      OBVIOUS
    <3>3. told[j].number < told[f + 1].number
      BY <3>1, <3>2 DEF LinesInv
    <3>4. told[f + 1].number \in Nat /\ f + 1 \in 1..(f + 1)
      BY <1>4
    <3> QED BY <1>1, <1>5, <3>1, <3>3, <3>4
  <2> QED BY <2>1, <2>2
<1>7. \A i \in 1..f : i \in 1..(f + 1) /\ i # f + 1
  OBVIOUS
<1>8. \A i \in 1..(f + 1) : i \in 1..f \/ i = f + 1
  OBVIOUS
<1>9. \A i \in 1..(f + 1) : StillWaits(f + 1, i)' <=>
         /\ told[i].type = "preconfirm"
         /\ \A j \in (i + 1)..(f + 1) : told[j].type = "preconfirm" => told[j].number > told[i].number
         /\ told[i].number > t.posted
  BY <1>2 DEF StillWaits
<1>10. WaitingLines(f + 1)' = {i \in 1..(f + 1) : StillWaits(f + 1, i)'}
  BY DEF WaitingLines
<1>11. \A i \in WaitingLines(f) : BlockOf(i).number = told[i].number
  BY DEF BlockOf
<1>12. ToSet(kept.waiting) = {BlockOf(i) : i \in WaitingLines(f)}
  BY DEF InSummary
<1>13. CASE line.type = "preconfirm"
  <2>1. WaitingLines(f + 1)' = {i \in WaitingLines(f) : told[i].number < line.number} \cup {f + 1}
    <3>1. ASSUME NEW i \in 1..f
          PROVE  StillWaits(f + 1, i)' <=> StillWaits(f, i) /\ told[i].number < line.number
      <4>1. \A j \in (i + 1)..(f + 1) : j \in (i + 1)..f \/ j = f + 1
        OBVIOUS
      <4>2. f + 1 \in (i + 1)..(f + 1) /\ \A j \in (i + 1)..f : j \in (i + 1)..(f + 1)
        OBVIOUS
      <4>3. told[i].number < line.number <=> line.number > told[i].number
        BY <1>4, <1>7 DEF Lines, Numbers
      <4> QED BY <1>1, <1>3, <1>7, <1>9, <1>13, <4>1, <4>2, <4>3 DEF StillWaits
    <3>2. StillWaits(f + 1, f + 1)'
      <4>1. f + 1 \in 1..(f + 1) /\ ((f + 1) + 1)..(f + 1) = {}
        OBVIOUS
      <4>2. told[f + 1].number > t.posted
        BY <1>1, <1>3, <1>6, <1>13
      <4> QED BY <1>1, <1>9, <1>13, <4>1, <4>2
    <3>3. f + 1 \in 1..(f + 1)
      OBVIOUS
    <3> QED BY <1>7, <1>8, <1>10, <3>1, <3>2, <3>3 DEF WaitingLines
  <2>2. ToSet(t.waiting) = {BlockOf(i) : i \in {j \in WaitingLines(f) : told[j].number < line.number}} \cup {BlockOf(f + 1)}
    BY <1>3, <1>11, <1>12, <1>13
  <2>3. \A i \in 1..(f + 1) : BlockOf(i)' = BlockOf(i)
    BY DEF BlockOf
  <2>4. ToSet(t.waiting) = {BlockOf(i) : i \in {j \in WaitingLines(f) : told[j].number < line.number} \cup {f + 1}}
    BY <2>2
  <2>5. {BlockOf(i) : i \in WaitingLines(f + 1)}' = {BlockOf(i) : i \in {j \in WaitingLines(f) : told[j].number < line.number} \cup {f + 1}}
    <3>1. \A i : BlockOf(i)' = BlockOf(i)
      BY DEF BlockOf
    <3> QED BY <2>1, <3>1
  <2>6. ToSet(kept.waiting)' = ToSet(t.waiting)
    BY <1>2
  <2>7. \A j \in 1..(f + 1) : told'[j].type = "advance" => told'[j].number <= kept'.posted
    <3>1. kept'.posted = kept.posted
      BY <1>2, <1>3, <1>13
    <3>2. \A j \in 1..f : told[j].type = "advance" => told[j].number <= kept.posted
      BY DEF InSummary
    <3> QED BY <1>1, <1>8, <1>13, <3>1, <3>2
  <2>8. kept'.posted # 0 => \E j \in 1..(f + 1) : told'[j].type = "advance" /\ told'[j].number = kept'.posted
    BY <1>2, <1>3, <1>7, <1>13 DEF InSummary
  <2>9. InSummary(f + 1)'
    BY <2>4, <2>5, <2>6, <2>7, <2>8 DEF InSummary
  <2> QED BY <1>2, <1>3, <2>9
<1>14. CASE line.type = "advance"
  <2>1. t.posted = line.number /\ line.number \in Nat
    BY <1>3, <1>6, <1>14 DEF Lines, Numbers
  <2>2. WaitingLines(f + 1)' = {i \in WaitingLines(f) : told[i].number > t.posted}
    <3>1. ASSUME NEW i \in 1..f
          PROVE  StillWaits(f + 1, i)' <=> StillWaits(f, i) /\ told[i].number > t.posted
      <4>1. \A j \in (i + 1)..(f + 1) : j \in (i + 1)..f \/ j = f + 1
        OBVIOUS
      <4>2. \A j \in (i + 1)..f : j \in (i + 1)..(f + 1)
        OBVIOUS
      <4>3. told[i].number > t.posted => told[i].number > kept.posted
        BY <1>4, <1>5, <1>6, <1>7, <2>1
      <4> QED BY <1>1, <1>7, <1>9, <1>14, <4>1, <4>2, <4>3 DEF StillWaits
    <3>2. ~StillWaits(f + 1, f + 1)'
      <4>1. f + 1 \in 1..(f + 1)
        OBVIOUS
      <4> QED BY <1>1, <1>9, <1>14, <4>1
    <3> QED BY <1>7, <1>8, <1>10, <3>1, <3>2 DEF WaitingLines
  <2>3. ToSet(t.waiting) = {BlockOf(i) : i \in {j \in WaitingLines(f) : told[j].number > t.posted}}
    BY <1>3, <1>11, <1>12, <1>14
  <2>4. {BlockOf(i) : i \in WaitingLines(f + 1)}' = {BlockOf(i) : i \in {j \in WaitingLines(f) : told[j].number > t.posted}}
    <3>1. \A i : BlockOf(i)' = BlockOf(i)
      BY DEF BlockOf
    <3> QED BY <2>2, <3>1
  <2>5. ToSet(kept.waiting)' = ToSet(t.waiting)
    BY <1>2
  <2>6. \A j \in 1..(f + 1) : told'[j].type = "advance" => told'[j].number <= kept'.posted
    <3>1. ASSUME NEW j \in 1..f, told[j].type = "advance" PROVE told[j].number <= t.posted
      <4>1. told[j].number <= kept.posted /\ told[j].number \in Nat
        BY <1>4, <1>7, <3>1 DEF InSummary
      <4> QED BY <1>5, <1>6, <2>1, <4>1
    <3>2. told[f + 1].number <= t.posted
      BY <1>1, <2>1
    <3> QED BY <1>2, <1>8, <3>1, <3>2
  <2>7. \E j \in 1..(f + 1) : told'[j].type = "advance" /\ told'[j].number = kept'.posted
    <3>1. f + 1 \in 1..(f + 1)
      OBVIOUS
    <3> QED BY <1>1, <1>2, <1>14, <2>1, <3>1
  <2>8. InSummary(f + 1)'
    BY <2>3, <2>4, <2>5, <2>6, <2>7 DEF InSummary
  <2> QED BY <1>2, <1>3, <2>8
<1> QED BY <1>13, <1>14 DEF Lines

\* What the sessions, and the filer's parts, are made of.
LEMMA SessionIs ==
    ASSUME RunnerShape
    PROVE  /\ session \in Sessions /\ episode \in Sessions /\ kept \in Sessions
           /\ \A s \in AllSessions :
                /\ s \in Sessions /\ s.filed \in Nat \cup {NotSaved} /\ s.of \in Nat /\ s.posted \in Nat
                /\ s.rollup \in Nat
           /\ filer \in Filers /\ filer.on \in BOOLEAN /\ filer.held \in BOOLEAN
           /\ filer.place \in Nat /\ filer.of \in Nat
           /\ Len(log) \in Nat /\ Len(told) \in Nat /\ emptied \in Nat
BY LenProperties DEF RunnerShape, AllSessions, Sessions, Filers

\* A filer that is off.
LEMMA OffIs ==
    /\ FilerOff \in Filers /\ ~FilerOff.on /\ ~FilerOff.held
    /\ FilerOff.place = 0 /\ FilerOff.of = 0
BY DEF FilerOff, Filers

\* An empty session says nothing, of no log.
LEMMA EmptyIs ==
    /\ EmptySession \in Sessions /\ EmptySession.filed = NotSaved /\ EmptySession.of = 0
    /\ EmptySession.rollup = NoRollup /\ EmptySession.waiting = <<>> /\ EmptySession.posted = 0
<1>1. <<>> \in Seq(WaitingBlocks) /\ -1 \in Int /\ NoRollup \in Nat
  BY EmptySeq DEF NoRollup
<1> QED BY <1>1 DEF EmptySession, Sessions, NotSaved

\* What is in no log is in none that comes after it, and what is in a log stays
\* in it when it grows.
LEMMA InLogGrows ==
    ASSUME NEW n \in Int, NEW o \in Nat, InLog(n, o), emptied \in Nat, emptied' = emptied,
           Len(log) \in Nat, Len(log') \in Nat, Len(log) <= Len(log')
    PROVE  InLog(n, o)'
BY DEF InLog

\* The sessions stay in the log, and say as little as they did, if they are from
\* among the ones there were.
LEMMA SameSessions ==
    ASSUME RunnerShape, PlaceInv, EpisodeInv, AllSessions' \subseteq AllSessions \cup {EmptySession},
           emptied' = emptied, Len(log') \in Nat, Len(log) <= Len(log')
    PROVE  /\ AllSessions' \subseteq Sessions
           /\ \A s \in AllSessions' : InLog(s.filed, s.of)'
           /\ \A s \in AllSessions' : s.filed = NotSaved => s.waiting = <<>> /\ s.posted = 0
<1>1. emptied \in Nat /\ Len(log) \in Nat /\ AllSessions \subseteq Sessions
  BY LenProperties DEF RunnerShape
<1>2. ASSUME NEW s \in AllSessions \cup {EmptySession}
      PROVE  /\ s \in Sessions /\ InLog(s.filed, s.of)'
             /\ s.filed = NotSaved => s.waiting = <<>> /\ s.posted = 0
  <2>1. CASE s \in AllSessions
    <3>1. s \in Sessions /\ s.filed \in Int /\ s.of \in Nat
      BY <1>1, <2>1 DEF Sessions, NotSaved
    <3>2. PICK n \in Int, o \in Nat : n = s.filed /\ o = s.of
      BY <3>1
    <3>3. InLog(n, o)
      BY <2>1, <3>2 DEF PlaceInv
    <3>4. InLog(n, o)'
      BY <1>1, <3>3, InLogGrows
    <3> QED BY <2>1, <3>1, <3>2, <3>4 DEF EpisodeInv
  <2>2. CASE s = EmptySession
    <3>1. 0 <= emptied' /\ NotSaved <= Len(log')
      BY <1>1 DEF NotSaved
    <3> QED BY <2>2, <3>1, EmptyIs DEF InLog
  <2> QED BY <2>1, <2>2
<1> QED BY <1>2

\* What holds of the lines to file depends on the place where filing starts.
LEMMA PlaceSame ==
    ASSUME UNCHANGED <<filer, emptied>>, kept'.filed = kept.filed, kept'.of = kept.of
    PROVE  Place' = Place
BY DEF Place, StartsAt

\* A filer that does not move stays in a log that does not shrink.
LEMMA FilerStays ==
    ASSUME RunnerShape, PlaceInv, UNCHANGED <<filer, log, emptied>>,
           kept'.filed = kept.filed, kept'.of = kept.of,
           \A s \in AllSessions' : InLog(s.filed, s.of)'
    PROVE  PlaceInv'
<1>1. InLog(filer.place, filer.of)'
  BY DEF PlaceInv, InLog
<1> QED BY <1>1 DEF PlaceInv, StartsAt

\* An episode that starts or ends, a withdrawal that is claimed, and the rest of
\* a deployment, file nothing.
LEMMA QuietFiles ==
    ASSUME RunnerInv, FiledInv,
           \/ DeployContracts \/ SaveProver \/ StartNode
           \/ (\E claiming \in BOOLEAN : EndEpisode(claiming))
           \/ (\E s \in relays \cup {episode} : RelaySaves(s))
           \/ StartFails \/ ProcessStops \/ NewDevnet
    PROVE  FiledInv'
<1>1. /\ UNCHANGED <<kept, episode, storyStep, filer, files, told, log, built, onRollup, drops, stateOf, deploys,
                     emptied, mishaps>>
      /\ RunnerShape /\ PlaceInv /\ EpisodeInv
  BY DEF DeployContracts, SaveProver, StartNode, EndEpisode, RelaySaves, StartFails, ProcessStops, NewDevnet,
         FiledInv
<1>2. AllSessions' \subseteq AllSessions
  <2>1. session' \in {session, episode} \cup relays
    BY DEF DeployContracts, SaveProver, StartNode, EndEpisode, RelaySaves, StartFails, ProcessStops, NewDevnet
  <2>2. relays' \subseteq relays \cup {episode}
    BY DEF DeployContracts, SaveProver, StartNode, EndEpisode, RelaySaves, StartFails, ProcessStops, NewDevnet
  <2> QED BY <1>1, <2>1, <2>2 DEF AllSessions
<1>3. /\ AllSessions' \subseteq Sessions
      /\ \A s \in AllSessions' : InLog(s.filed, s.of)'
      /\ \A s \in AllSessions' : s.filed = NotSaved => s.waiting = <<>> /\ s.posted = 0
  BY <1>1, <1>2, SameSessions, SessionIs
<1>4. RunnerShape'
  BY <1>1, <1>3 DEF RunnerShape
<1>5. PlaceInv'
  BY <1>1, <1>3, FilerStays
<1>6. session'.rollup = session.rollup
  <2>1. ASSUME NEW s \in relays \cup {episode}, RelaySaves(s) PROVE s.rollup = session.rollup
    BY <2>1 DEF RelaySaves, RunnerInv, RelaysInv, Agreed
  <2> QED BY <2>1 DEF DeployContracts, SaveProver, StartNode, EndEpisode, RelaySaves, StartFails, ProcessStops, NewDevnet
<1>7. /\ operatorUp' => phase' = "step"
      /\ filer.on => phase' \in {"idle", "step"}
      /\ phase' \in {"node", "operator", "step"} \/ filer.on => phase \in {"node", "operator", "step"} \/ filer.on
      /\ phase' \in {"contracts", "prover", "blocks", "session"} => phase \in {"contracts", "prover", "blocks", "session"}
      /\ phase' = "session" => phase = "session"
      /\ phase' = "step" /\ nodeUp' => phase = "step" /\ nodeUp
  BY <1>1 DEF DeployContracts, SaveProver, StartNode, EndEpisode, RelaySaves, StartFails, ProcessStops, NewDevnet,
              EpisodeInv
<1>8. EpisodeInv'
  BY <1>1, <1>3, <1>6, <1>7 DEF EpisodeInv, Current
<1>9. ASSUME mishaps' = {} PROVE Unhindered'
  <2>1. Unhindered
    BY <1>1, <1>9 DEF FiledInv
  <2>2. Current' => Filed'
    <3> SUFFICES ASSUME Current PROVE Filed'
      BY <1>1 DEF Current
    <3>1. Filed /\ Place' = Place
      BY <1>1, <2>1, PlaceSame DEF Unhindered
    <3> QED BY <1>1, <3>1, FiledSame
  <2> QED BY <1>1, <1>7, <2>1, <2>2 DEF Unhindered, Current
<1> QED BY <1>4, <1>5, <1>8, <1>9 DEF FiledInv

\* A session is picked up, which says where filing stopped if no thread saved an
\* older one over it.
LEMMA ResumeFiles == ASSUME RunnerInv, FiledInv, Resume PROVE FiledInv'
<1>1. /\ UNCHANGED <<session, filer, relays, files, told, log, built, onRollup, drops, stateOf, deploys, emptied,
                     operatorUp>>
      /\ phase = "idle" /\ phase' = "node" /\ ~filer.on /\ episode' = session /\ kept' = session
      /\ storyStep' = session.step + 1
      /\ mishaps' = {} => mishaps = {} /\ session = kept
      /\ RunnerShape /\ PlaceInv /\ EpisodeInv
  BY DEF Resume, Befalls, FiledInv
<1>2. AllSessions' \subseteq AllSessions
  BY <1>1 DEF AllSessions
<1>3. /\ AllSessions' \subseteq Sessions
      /\ \A s \in AllSessions' : InLog(s.filed, s.of)'
      /\ \A s \in AllSessions' : s.filed = NotSaved => s.waiting = <<>> /\ s.posted = 0
  BY <1>1, <1>2, SameSessions, SessionIs
<1>4. RunnerShape'
  <2>1. session.step + 1 \in Int
    <3>1. session.step \in Int
      BY <1>1, SessionIs DEF Sessions
    <3> QED BY <3>1
  <2> QED BY <1>1, <1>3, <2>1 DEF RunnerShape
<1>5. PlaceInv'
  <2>1. InLog(filer.place, filer.of)'
    BY <1>1 DEF PlaceInv, InLog
  <2> QED BY <1>1, <1>3, <2>1 DEF PlaceInv
<1>6. EpisodeInv'
  BY <1>1, <1>3 DEF EpisodeInv, Current
<1>7. ASSUME mishaps' = {} PROVE Unhindered'
  <2>1. Unhindered /\ kept' = kept
    BY <1>1, <1>7 DEF FiledInv
  <2>2. Current' => Filed'
    <3> SUFFICES ASSUME Current PROVE Filed'
      BY <1>1, <2>1 DEF Current
    <3>1. Filed /\ Place' = Place
      BY <1>1, <2>1, PlaceSame DEF Unhindered
    <3> QED BY <1>1, <2>1, <3>1, FiledSame
  <2>3. ~filer'.held
    BY <1>1 DEF RunnerInv
  <2> QED BY <1>1, <2>2, <2>3 DEF Unhindered
<1> QED BY <1>4, <1>5, <1>6, <1>7 DEF FiledInv

\* A new genesis: the files are of no session until there is a new one.
LEMMA DeployFiles ==
    ASSUME RunnerInv, FiledInv, WriteGenesis \/ ClearBlocks \/ SaveSession
    PROVE  FiledInv'
<1>1. RunnerShape /\ PlaceInv /\ EpisodeInv /\ deploys \in Nat /\ kept.rollup \in Nat /\ emptied \in Nat
      /\ Len(log) \in Nat
  BY SessionIs DEF FiledInv, RunnerShape, AllSessions
<1>2. CASE WriteGenesis
  <2>1. /\ UNCHANGED <<session, episode, kept, relays, storyStep, filer, files, told, log, drops, nodeUp,
                       operatorUp, emptied, mishaps>>
        /\ built' = <<>> /\ onRollup' = 0 /\ stateOf' = deploys + 1 /\ deploys' = deploys + 1
        /\ phase = "idle" /\ phase' = "contracts" /\ ~filer.on
    BY <1>2 DEF WriteGenesis
  <2>2. RunnerShape'
    <3>1. built' \in Seq(Nat \ {0}) /\ Len(built') <= MaxReports /\ onRollup' \in 0..Len(built')
      <4>1. <<>> \in Seq(Nat \ {0}) /\ Len(<<>>) = 0
        BY EmptySeq
      <4> QED BY <2>1, <4>1, MaxLinesIs
    <3>2. deploys' \in Nat /\ stateOf' \in Nat
      BY <1>1, <2>1
    <3> QED BY <1>1, <2>1, <3>1, <3>2 DEF RunnerShape, AllSessions
  <2>3. ~Current'
    <3>1. kept.rollup <= deploys
      BY <1>1 DEF EpisodeInv
    <3>2. deploys + 1 # kept.rollup
      BY <1>1, <3>1
    <3> QED BY <2>1, <3>2 DEF Current
  <2>4. PlaceInv'
    <3>1. \A s \in AllSessions' : InLog(s.filed, s.of)'
      BY <1>1, <2>1 DEF PlaceInv, InLog, AllSessions
    <3> QED BY <1>1, <2>1, <3>1, FilerStays
  <2>5. EpisodeInv'
    <3>1. kept'.rollup <= deploys' /\ stateOf' <= deploys'
      BY <1>1, <2>1 DEF EpisodeInv
    <3>2. ~operatorUp
      BY <1>1, <2>1 DEF EpisodeInv
    <3> QED BY <1>1, <2>1, <2>3, <3>1, <3>2 DEF EpisodeInv, AllSessions
  <2>6. ~filer'.on /\ ~filer'.held
    BY <2>1 DEF RunnerInv
  <2> QED BY <2>1, <2>2, <2>3, <2>4, <2>5, <2>6 DEF FiledInv, Unhindered
<1>3. CASE ClearBlocks
  <2>1. /\ UNCHANGED <<session, episode, kept, relays, storyStep, filer, log, built, onRollup, drops, deploys,
                       stateOf, nodeUp, operatorUp, emptied>>
        /\ files' = NoFiles /\ told' = <<>> /\ phase = "blocks" /\ phase' = "session"
    BY <1>3 DEF ClearBlocks
  <2>2. ~Current' /\ ~Current
    BY <1>1, <2>1 DEF EpisodeInv, Current
  <2>3. RunnerShape'
    <3>1. <<>> \in Seq(Lines) /\ <<>> \in Seq(Nat)
      BY EmptySeq
    <3>2. NoFiles \in [Numbers -> [version : Nat, broken : Seq(Nat)]]
      BY <3>1 DEF NoFiles
    <3> QED BY <1>1, <2>1, <3>1, <3>2 DEF RunnerShape, AllSessions
  <2>4. PlaceInv'
    <3>1. \A s \in AllSessions' : InLog(s.filed, s.of)'
      BY <1>1, <2>1 DEF PlaceInv, InLog, AllSessions
    <3> QED BY <1>1, <2>1, <3>1, FilerStays
  <2>5. EpisodeInv'
    BY <1>1, <2>1, <2>2 DEF EpisodeInv, AllSessions
  <2>6. ~filer'.on /\ ~filer'.held
    BY <2>1 DEF RunnerInv
  <2> QED BY <2>1, <2>2, <2>3, <2>4, <2>5, <2>6 DEF FiledInv, Unhindered
<1>4. CASE SaveSession
  <2>1. /\ UNCHANGED <<filer, relays, files, told, log, built, onRollup, drops, deploys, stateOf, nodeUp,
                       operatorUp, emptied, mishaps>>
        /\ episode' = [EmptySession EXCEPT !.rollup = stateOf] /\ session' = episode' /\ kept' = episode'
        /\ storyStep' = 0 /\ phase = "session" /\ phase' = "node"
    BY <1>4 DEF SaveSession
  <2>2. told = <<>> /\ files = NoFiles /\ built = <<>> /\ ~filer.on /\ ~filer.held /\ ~operatorUp
        /\ stateOf \in Nat /\ stateOf <= deploys /\ drops \in Nat
    BY <1>1, <2>1 DEF EpisodeInv, RunnerShape, RunnerInv
  <2>3. /\ kept' \in Sessions /\ kept'.rollup = stateOf /\ kept'.filed = NotSaved /\ kept'.of = 0
        /\ kept'.waiting = <<>> /\ kept'.posted = 0
    <3>1. <<>> \in Seq(WaitingBlocks)
      BY EmptySeq
    <3>2. kept' = [rollup |-> stateOf, step |-> -1, filed |-> NotSaved, of |-> 0, preconfirmed |-> 0,
                   posted |-> 0, waiting |-> <<>>]
      BY <2>1 DEF EmptySession
    <3>3. -1 \in Int
      OBVIOUS
    <3> QED BY <2>2, <3>1, <3>2, <3>3 DEF Sessions
  <2>4. AllSessions' \subseteq AllSessions \cup {kept'}
    BY <2>1 DEF AllSessions
  <2>5. RunnerShape'
    <3>1. AllSessions' \subseteq Sessions
      <4>1. AllSessions \subseteq Sessions
        BY <1>1 DEF RunnerShape
      <4> QED BY <2>3, <2>4, <4>1
    <3>2. storyStep' \in Int
      BY <2>1
    <3> QED BY <1>1, <2>1, <3>1, <3>2 DEF RunnerShape
  <2>6. PlaceInv'
    <3>1. \A s \in AllSessions : InLog(s.filed, s.of)'
      BY <1>1, <2>1 DEF PlaceInv, InLog
    <3>2. 0 <= emptied /\ NotSaved <= Len(log)
      BY <1>1 DEF NotSaved
    <3>3. InLog(NotSaved, 0)'
      BY <2>1, <3>2 DEF InLog, NotSaved
    <3>4. \A s \in AllSessions' : InLog(s.filed, s.of)'
      BY <2>3, <2>4, <3>1, <3>3
    <3>5. InLog(filer.place, filer.of)'
      BY <1>1, <2>1 DEF PlaceInv, InLog
    <3> QED BY <1>1, <2>1, <2>2, <3>4, <3>5 DEF PlaceInv
  <2>7. EpisodeInv'
    <3>1. \A s \in AllSessions' : s.filed = NotSaved => s.waiting = <<>> /\ s.posted = 0
      BY <1>1, <2>3, <2>4 DEF EpisodeInv
    <3> QED BY <2>1, <2>2, <2>3, <3>1 DEF EpisodeInv
  <2>8. Len(<<>>) = 0
    BY EmptySeq
  <2>9. BuiltInv' /\ LinesInv'
    BY <2>1, <2>2, <2>8 DEF BuiltInv, LinesInv
  <2>10. FilesInv'
    <3> SUFFICES ASSUME NEW n \in Numbers PROVE UpTo(n, files[n].version)' /\ Tidy(files[n])'
      BY DEF FilesInv
    <3>1. files[n] = [version |-> 0, broken |-> <<>>] /\ n \in Nat /\ n # 0
      BY <2>2 DEF NoFiles, Numbers
    <3>2. UpTo(n, files[n].version)'
      BY <2>1, <2>2, <2>8, <3>1 DEF UpTo
    <3>3. IsInjective(<<>>)
      BY DEF IsInjective
    <3> QED BY <2>1, <2>8, <3>1, <3>2, <3>3 DEF Tidy
  <2>11. Filed'
    BY <2>1, <2>2, <2>3, <2>9, <2>10 DEF Filed
  <2> QED BY <2>1, <2>2, <2>5, <2>6, <2>7, <2>11 DEF FiledInv, Unhindered
<1> QED BY <1>2, <1>3, <1>4

\* A step of the story saves the session, which files nothing.
LEMMA StepFiles == ASSUME RunnerInv, FiledInv, NEW fails \in BOOLEAN, Step(fails) PROVE FiledInv'
<1>1. /\ UNCHANGED <<phase, stateOf, files, filer, relays, nodeUp, operatorUp, log, built, onRollup, deploys,
                     drops, told, emptied, mishaps>>
      /\ phase = "step" /\ storyStep' = storyStep + 1
      /\ episode' = IF fails THEN episode ELSE [episode EXCEPT !.step = storyStep]
      /\ session' = episode' /\ kept' = episode'
      /\ RunnerShape /\ PlaceInv /\ EpisodeInv
  BY DEF Step, FiledInv
<1>2. episode = kept /\ kept \in Sessions /\ storyStep \in Int /\ kept \in AllSessions
  BY <1>1, SessionIs DEF EpisodeInv, RunnerShape, AllSessions
<1>3. /\ kept' \in Sessions /\ kept'.rollup = kept.rollup /\ kept'.filed = kept.filed /\ kept'.of = kept.of
      /\ kept'.posted = kept.posted /\ kept'.waiting = kept.waiting
  BY <1>1, <1>2 DEF Sessions
<1>4. AllSessions' \subseteq AllSessions \cup {kept'}
  BY <1>1 DEF AllSessions
<1>5. \A s \in AllSessions' : /\ s \in Sessions /\ InLog(s.filed, s.of)'
                              /\ s.filed = NotSaved => s.waiting = <<>> /\ s.posted = 0
  <2>1. ASSUME NEW s \in AllSessions
        PROVE  /\ s \in Sessions /\ InLog(s.filed, s.of)'
               /\ s.filed = NotSaved => s.waiting = <<>> /\ s.posted = 0
    BY <1>1 DEF RunnerShape, PlaceInv, EpisodeInv, InLog
  <2>2. ASSUME NEW s \in AllSessions', s \notin AllSessions
        PROVE  /\ s \in Sessions /\ InLog(s.filed, s.of)'
               /\ s.filed = NotSaved => s.waiting = <<>> /\ s.posted = 0
    <3>1. s = kept' /\ s.filed = kept.filed /\ s.of = kept.of
      BY <1>3, <1>4, <2>2
    <3>2. InLog(kept.filed, kept.of) /\ (kept.filed = NotSaved => kept.waiting = <<>> /\ kept.posted = 0)
      BY <1>1, <1>2 DEF PlaceInv, EpisodeInv
    <3>3. UNCHANGED <<log, emptied>>
      BY <1>1
    <3> QED BY <1>3, <3>1, <3>2, <3>3 DEF InLog
  <2> QED BY <2>1, <2>2
<1>6. RunnerShape'
  <2>1. storyStep' \in Int
    BY <1>1, <1>2
  <2> QED BY <1>1, <1>5, <2>1 DEF RunnerShape
<1>7. PlaceInv'
  BY <1>1, <1>3, <1>5, FilerStays
<1>8. EpisodeInv'
  <2>1. kept.rollup = session.rollup
    BY <1>1 DEF EpisodeInv
  <2> QED BY <1>1, <1>3, <1>5, <2>1 DEF EpisodeInv, Current
<1>9. ASSUME mishaps' = {} PROVE Unhindered'
  <2>1. Unhindered
    BY <1>1, <1>9 DEF FiledInv
  <2>2. Current' => Filed'
    <3> SUFFICES ASSUME Current PROVE Filed'
      BY <1>1, <1>3 DEF Current
    <3>1. Filed /\ Place' = Place
      BY <1>1, <1>3, <2>1, PlaceSame DEF Unhindered
    <3> QED BY <1>1, <1>3, <3>1, FiledSame
  <2> QED BY <1>1, <1>3, <2>1, <2>2 DEF Unhindered, Current
<1> QED BY <1>6, <1>7, <1>8, <1>9 DEF FiledInv

\* A filer that starts goes on where the session says that filing stopped, or
\* nothing is reported yet.
LEMMA StartOperatorFiles == ASSUME RunnerInv, FiledInv, StartOperator PROVE FiledInv'
<1>1. /\ UNCHANGED <<episode, storyStep, session, kept, relays, stateOf, files, nodeUp, log, built, onRollup,
                     deploys, drops, told, emptied>>
      /\ filer' = [FilerOff EXCEPT !.on = TRUE, !.place = StartOf(episode), !.of = LogOf(episode)]
      /\ phase = "operator" /\ phase' = "step"
      /\ mishaps' = {} => mishaps = {} /\ (kept.filed = NotSaved => told = <<>>)
      /\ RunnerShape /\ PlaceInv /\ EpisodeInv /\ episode = kept
  BY DEF StartOperator, Befalls, FiledInv, EpisodeInv
<1>2. ~filer.on /\ ~filer.held /\ Agreed
  BY <1>1 DEF RunnerInv
<1>3. /\ kept \in Sessions /\ kept \in AllSessions /\ kept.filed \in Nat \cup {NotSaved} /\ kept.of \in Nat
      /\ Len(log) \in Nat /\ emptied \in Nat /\ NotSaved \notin Nat
      /\ kept.of <= emptied /\ (kept.of = emptied => kept.filed <= Len(log))
  BY <1>1, SessionIs DEF AllSessions, PlaceInv, InLog, NotSaved
<1>4. PICK p \in Nat, o \in Nat :
        /\ p = StartOf(episode) /\ o = LogOf(episode)
        /\ o <= emptied /\ (o = emptied => p <= Len(log))
        /\ kept.filed # NotSaved => StartsAt(p, o) = StartsAt(kept.filed, kept.of)
        /\ kept.filed = NotSaved => p = Len(log) /\ o = emptied
  <2>1. /\ StartOf(episode) \in Nat /\ LogOf(episode) \in Nat
        /\ LogOf(episode) <= emptied /\ (LogOf(episode) = emptied => StartOf(episode) <= Len(log))
        /\ kept.filed # NotSaved => StartsAt(StartOf(episode), LogOf(episode)) = StartsAt(kept.filed, kept.of)
        /\ kept.filed = NotSaved => StartOf(episode) = Len(log) /\ LogOf(episode) = emptied
    BY <1>1, <1>3 DEF StartOf, LogOf, StartsAt
  <2> QED BY <2>1
<1>5. /\ filer' \in Filers /\ filer'.on /\ ~filer'.held /\ filer'.place = p /\ filer'.of = o
  <2>1. filer' = [FilerOff EXCEPT !.on = TRUE, !.place = p, !.of = o]
    BY <1>1, <1>4
  <2> QED BY <1>4, <2>1 DEF FilerOff, Filers
<1>6. AllSessions' = AllSessions
  BY <1>1 DEF AllSessions
<1>7. RunnerShape'
  BY <1>1, <1>5, <1>6 DEF RunnerShape
<1>8. PlaceInv'
  <2>1. InLog(filer.place, filer.of)'
    BY <1>1, <1>4, <1>5 DEF InLog
  <2>2. \A s \in AllSessions' : InLog(s.filed, s.of)'
    BY <1>1, <1>6 DEF PlaceInv, InLog
  <2>3. kept.filed # NotSaved => StartsAt(kept.filed, kept.of)' = StartsAt(filer.place, filer.of)'
    BY <1>1, <1>4, <1>5 DEF StartsAt
  <2> QED BY <1>1, <1>5, <2>1, <2>2, <2>3 DEF PlaceInv
<1>9. EpisodeInv'
  BY <1>1, <1>5, <1>6 DEF EpisodeInv, Current
<1>10. ASSUME mishaps' = {} PROVE Unhindered'
  <2>1. Unhindered /\ mishaps = {}
    BY <1>1, <1>10 DEF FiledInv
  <2>2. Current /\ Current'
    BY <1>1, <1>2, <2>1 DEF Agreed, Forgotten, Current, EpisodeInv
  <2>3. Filed
    BY <2>1, <2>2 DEF Unhindered
  <2>4. CASE kept.filed # NotSaved
    <3>1. Place' = Place
      <4>1. Place' = StartsAt(p, o)
        BY <1>1, <1>5 DEF Place, StartsAt
      <4> QED BY <1>2, <1>4, <2>4, <4>1 DEF Place
    <3>2. Filed'
      BY <1>1, <1>2, <1>5, <2>3, <2>4, <3>1, FiledSame
    <3> QED BY <1>5, <2>2, <3>2 DEF Unhindered
  <2>5. CASE kept.filed = NotSaved
    <3>1. told' = <<>> /\ Len(told') = 0 /\ Place' = Len(log)
      <4>1. told' = <<>>
        BY <1>1, <1>10, <2>5
      <4>2. Place' = Len(log)
        BY <1>1, <1>4, <1>5, <2>5 DEF Place, StartsAt
      <4> QED BY <4>1, <4>2, EmptySeq
    <3>2. LinesInv'
      BY <3>1 DEF LinesInv
    <3>3. BuiltInv' /\ FilesInv'
      BY <1>1, <2>3 DEF Filed, BuiltInv, FilesInv, UpTo
    <3>4. InFiles(0, 0)'
      BY <3>1 DEF InFiles
    <3>5. InSummary(0)'
      <4>1. kept'.waiting = <<>> /\ kept'.posted = 0
        BY <1>1, <1>3, <2>5 DEF EpisodeInv
      <4>2. ToSet(<<>>) = {}
        BY EmptySeq DEF ToSet
      <4>3. WaitingLines(0)' = {}
        BY DEF WaitingLines
      <4> QED BY <4>1, <4>2, <4>3 DEF InSummary
    <3>6. FiledTo(0, 0, Place)'
      BY <1>1, <1>3, <3>1, <3>4, <3>5 DEF FiledTo
    <3>7. Filed'
      BY <1>5, <3>1, <3>2, <3>3, <3>6 DEF Filed
    <3> QED BY <1>5, <2>2, <3>7 DEF Unhindered
  <2> QED BY <2>4, <2>5
<1> QED BY <1>7, <1>8, <1>9, <1>10 DEF FiledInv

\* The filer notices that the log was emptied, or it ends, or the runner does.
LEMMA FilerEnds ==
    ASSUME RunnerInv, FiledInv, NoticeRotation \/ FilerStops \/ FilerDies \/ RunnerCrash
    PROVE  FiledInv'
<1>1. /\ UNCHANGED <<session, kept, files, told, log, built, onRollup, drops, deploys, stateOf, emptied>>
      /\ mishaps' = {} => mishaps = {}
      /\ RunnerShape /\ PlaceInv /\ EpisodeInv
  BY DEF NoticeRotation, FilerStops, FilerDies, RunnerCrash, Befalls, FiledInv
<1>2. /\ filer \in Filers /\ Len(log) \in Nat /\ emptied \in Nat
      /\ filer.place \in Nat /\ filer.of \in Nat
      /\ filer.of <= emptied /\ (filer.of = emptied => filer.place <= Len(log))
  BY <1>1, SessionIs DEF PlaceInv, InLog
<1>3. /\ filer' \in Filers /\ (filer'.on => filer.on) /\ ~filer'.held
      /\ InLog(filer.place, filer.of)'
      /\ filer'.on => StartsAt(filer.place, filer.of)' = StartsAt(filer.place, filer.of)
      /\ filer'.on <=> NoticeRotation
  <2>1. CASE NoticeRotation
    <3>1. filer' = [filer EXCEPT !.place = 0, !.of = emptied] /\ filer.place > Len(log) /\ filer.on
          /\ ~filer.held
      BY <2>1 DEF NoticeRotation
    <3>2. filer' \in Filers /\ filer'.on /\ ~filer'.held /\ filer'.place = 0 /\ filer'.of = emptied
      BY <1>2, <3>1 DEF Filers
    <3>3. filer.of # emptied
      BY <1>2, <3>1
    <3>4. StartsAt(filer.place, filer.of)' = 0 /\ StartsAt(filer.place, filer.of) = 0
      BY <1>1, <3>2, <3>3 DEF StartsAt
    <3>5. InLog(filer.place, filer.of)'
      BY <1>1, <1>2, <3>2 DEF InLog
    <3> QED BY <2>1, <3>1, <3>2, <3>4, <3>5
  <2>2. CASE ~NoticeRotation
    <3>1. filer' = FilerOff
      BY <2>2 DEF FilerStops, FilerDies, RunnerCrash
    <3>2. InLog(filer.place, filer.of)'
      BY <1>1, <1>2, <3>1, OffIs DEF InLog
    <3> QED BY <2>2, <3>1, <3>2, OffIs
  <2> QED BY <2>1, <2>2
<1>4. AllSessions' \subseteq AllSessions \cup {EmptySession}
  BY DEF NoticeRotation, FilerStops, FilerDies, RunnerCrash, AllSessions
<1>5. /\ AllSessions' \subseteq Sessions
      /\ \A s \in AllSessions' : InLog(s.filed, s.of)'
      /\ \A s \in AllSessions' : s.filed = NotSaved => s.waiting = <<>> /\ s.posted = 0
  BY <1>1, <1>2, <1>4, SameSessions
<1>6. RunnerShape'
  <2>1. storyStep' \in Int
    <3>1. storyStep \in Int /\ 0 \in Int
      BY <1>1 DEF RunnerShape
    <3>2. storyStep' = storyStep \/ storyStep' = 0
      BY DEF NoticeRotation, FilerStops, FilerDies, RunnerCrash
    <3> QED BY <3>1, <3>2
  <2> QED BY <1>1, <1>3, <1>5, <2>1 DEF RunnerShape
<1>7. PlaceInv'
  <2>1. filer'.on /\ kept'.filed # NotSaved => StartsAt(kept.filed, kept.of)' = StartsAt(filer.place, filer.of)'
    BY <1>1, <1>3 DEF PlaceInv, StartsAt
  <2> QED BY <1>1, <1>3, <1>5, <2>1 DEF PlaceInv
<1>8. EpisodeInv'
  <2>1. CASE RunnerCrash
    <3>1. phase' = "idle" /\ operatorUp' = FALSE /\ ~filer'.on
      BY <2>1, OffIs DEF RunnerCrash
    <3> QED BY <1>1, <1>5, <3>1 DEF EpisodeInv, Current
  <2>2. CASE ~RunnerCrash
    <3>1. UNCHANGED <<phase, operatorUp, episode>>
      BY <2>2 DEF NoticeRotation, FilerStops, FilerDies
    <3> QED BY <1>1, <1>3, <1>5, <3>1 DEF EpisodeInv, Current
  <2> QED BY <2>1, <2>2
<1>9. ASSUME mishaps' = {} PROVE Unhindered'
  <2>1. Unhindered
    BY <1>1, <1>9 DEF FiledInv
  <2>2. phase' = "step" /\ nodeUp' => filer'.on
    <3>1. CASE NoticeRotation
      BY <1>3, <2>1, <3>1 DEF Unhindered
    <3>2. CASE FilerStops
      BY <3>2 DEF FilerStops
    <3>3. CASE FilerDies
      BY <1>9, <3>3 DEF FilerDies, Befalls
    <3>4. CASE RunnerCrash
      BY <3>4 DEF RunnerCrash
    <3> QED BY <3>1, <3>2, <3>3, <3>4
  <2>3. Current' => Filed'
    <3> SUFFICES ASSUME Current PROVE Filed'
      BY <1>1 DEF Current
    <3>1. Filed
      BY <2>1 DEF Unhindered
    <3>2. filer'.on \/ kept'.filed # NotSaved => (filer.on \/ kept.filed # NotSaved) /\ Place' = Place
      <4> SUFFICES ASSUME filer'.on \/ kept'.filed # NotSaved
                   PROVE  (filer.on \/ kept.filed # NotSaved) /\ Place' = Place
        OBVIOUS
      <4>1. CASE filer'.on
        BY <1>3, <4>1 DEF Place
      <4>2. CASE ~filer'.on
        <5>1. kept.filed # NotSaved /\ Place' = StartsAt(kept.filed, kept.of)
          BY <1>1, <4>2 DEF Place, StartsAt
        <5>2. filer.on => StartsAt(kept.filed, kept.of) = StartsAt(filer.place, filer.of)
          BY <1>1, <5>1 DEF PlaceInv
        <5> QED BY <5>1, <5>2 DEF Place
      <4> QED BY <4>1, <4>2
    <3> QED BY <1>1, <1>3, <3>1, <3>2, FiledSame
  <2>4. filer'.on => Current'
    BY <1>1, <1>3, <2>1 DEF Unhindered, Current
  <2> QED BY <1>3, <2>2, <2>3, <2>4 DEF Unhindered
<1> QED BY <1>6, <1>7, <1>8, <1>9 DEF FiledInv

\* A block's file stays one, whatever line is merged into it.
LEMMA MergeShape ==
    ASSUME NEW page \in [version : Nat, broken : Seq(Nat)], NEW line \in Lines
    PROVE  MergeLine(page, line) \in [version : Nat, broken : Seq(Nat)]
<1>1. page.version \in Nat /\ page.broken \in Seq(Nat) /\ line.version \in Nat
  BY DEF Lines
<1>2. Append(page.broken, page.version) \in Seq(Nat)
  BY <1>1, AppendProperties
<1> QED BY <1>1, <1>2 DEF MergeLine

\* A line's file is written first, ...
LEMMA FileLineFiles == ASSUME RunnerInv, FiledInv, FileLine PROVE FiledInv'
<1>1. /\ UNCHANGED <<phase, episode, storyStep, session, kept, relays, stateOf, nodeUp, operatorUp, log, built,
                     onRollup, deploys, drops, told, emptied>>
      /\ filer.on /\ ~filer.held /\ filer.place < Len(log)
      /\ filer' = [filer EXCEPT !.held = TRUE, !.line = log[filer.place + 1]]
      /\ files' = [files EXCEPT ![log[filer.place + 1].number] = MergeLine(@, log[filer.place + 1])]
      /\ mishaps' = {} => mishaps = {} /\ filer.of = emptied
      /\ RunnerShape /\ PlaceInv /\ EpisodeInv
  BY DEF FileLine, Befalls, FiledInv
<1>2. filer \in Filers /\ filer.place \in Nat /\ Len(log) \in Nat /\ Len(log) <= MaxLines /\ MaxLines \in Nat
  BY <1>1, SessionIs, MaxLinesIs DEF PlaceInv
<1>3. PICK line \in Lines : line = log[filer.place + 1]
  <2>1. filer.place + 1 \in 1..Len(log)
    BY <1>1, <1>2
  <2>2. log \in Seq(Lines)
    BY <1>1 DEF RunnerShape
  <2> QED BY <2>1, <2>2, ElementOfSeq
<1>4. files' \in [Numbers -> [version : Nat, broken : Seq(Nat)]]
  <2>1. PICK n \in Numbers : n = line.number
    BY DEF Lines
  <2>2. files \in [Numbers -> [version : Nat, broken : Seq(Nat)]]
    BY <1>1 DEF RunnerShape
  <2>3. PICK page : page = MergeLine(files[n], line) /\ page \in [version : Nat, broken : Seq(Nat)]
    BY <2>2, MergeShape
  <2>4. files' = [files EXCEPT ![n] = page]
    BY <1>1, <1>3, <2>1, <2>3
  <2> QED BY <2>2, <2>3, <2>4
<1>5. /\ filer' \in Filers /\ filer'.on = filer.on /\ filer'.place = filer.place /\ filer'.of = filer.of
      /\ filer'.held /\ filer'.line = line
  <2>1. filer' = [filer EXCEPT !.held = TRUE, !.line = line]
    BY <1>1, <1>3
  <2> QED BY <1>2, <2>1 DEF Filers
<1>6. AllSessions' = AllSessions
  BY <1>1 DEF AllSessions
<1>7. RunnerShape'
  BY <1>1, <1>4, <1>5, <1>6 DEF RunnerShape
<1>8. PlaceInv'
  <2>1. filer'.place < MaxLines
    BY <1>1, <1>2, <1>5
  <2>2. InLog(filer.place, filer.of)' /\ \A s \in AllSessions' : InLog(s.filed, s.of)'
    BY <1>1, <1>5, <1>6 DEF PlaceInv, InLog
  <2>3. filer'.on /\ kept'.filed # NotSaved => StartsAt(kept.filed, kept.of)' = StartsAt(filer.place, filer.of)'
    BY <1>1, <1>5 DEF PlaceInv, StartsAt
  <2>4. filer'.line = log'[filer'.place + 1]
    BY <1>1, <1>3, <1>5
  <2> QED BY <1>1, <1>5, <2>1, <2>2, <2>3, <2>4 DEF PlaceInv
<1>9. EpisodeInv'
  BY <1>1, <1>5, <1>6 DEF EpisodeInv, Current
<1>10. phase # "session"
  BY <1>1 DEF EpisodeInv
<1>11. EpisodeInv' /\ filer'.on
  BY <1>1, <1>5, <1>9
<1>12. ASSUME mishaps' = {} PROVE Unhindered'
  <2>1. Unhindered /\ filer.of = emptied
    BY <1>1, <1>12 DEF FiledInv
  <2>2. Current /\ Filed
    BY <1>1, <2>1 DEF Unhindered
  <2>3. Filed'
    BY <1>1, <2>1, <2>2, FileLineFiled
  <2> QED BY <1>1, <1>5, <2>1, <2>2, <2>3 DEF Unhindered, Current
<1> QED BY <1>7, <1>8, <1>9, <1>12 DEF FiledInv

\* ... then the session.
LEMMA SaveFiledFiles == ASSUME RunnerInv, FiledInv, SaveFiled PROVE FiledInv'
<1>1. /\ UNCHANGED <<phase, storyStep, relays, stateOf, files, nodeUp, operatorUp, log, built, onRollup,
                     deploys, drops, told, emptied, mishaps>>
      /\ filer.held /\ filer' = [filer EXCEPT !.place = filer.place + 1, !.held = FALSE, !.line = NoLine]
      /\ episode' = [Summarize(episode, filer.line) EXCEPT !.filed = filer.place + 1, !.of = filer.of]
      /\ session' = episode' /\ kept' = episode'
      /\ RunnerShape /\ PlaceInv /\ EpisodeInv
  BY DEF SaveFiled, FiledInv
<1>2. /\ filer.on /\ filer.place < MaxLines /\ filer.line \in Lines /\ phase \in {"idle", "step"}
      /\ filer.of = emptied => filer.place < Len(log) /\ filer.line = log[filer.place + 1]
      /\ filer.of <= emptied /\ episode = kept /\ kept.rollup = session.rollup
  BY <1>1 DEF PlaceInv, EpisodeInv, InLog
<1>3. /\ filer.place \in Nat /\ filer.of \in Nat /\ Len(log) \in Nat /\ Len(told) \in Nat /\ emptied \in Nat
      /\ kept \in Sessions /\ filer \in Filers /\ kept \in AllSessions
  BY <1>1, SessionIs DEF AllSessions
<1>4. PICK p \in Nat, o \in Nat, q \in Nat : p = filer.place /\ o = filer.of /\ q = p + 1
  BY <1>3
<1>5. /\ kept' \in Sessions /\ kept'.rollup = kept.rollup /\ kept'.filed = q /\ kept'.of = o
  <2>1. PICK line \in Lines : line = filer.line
    BY <1>2
  <2>2. kept' = AfterLine(kept, line, q, o)
    BY <1>1, <1>2, <1>4, <2>1 DEF AfterLine
  <2>3. HasLine(AfterLine(kept, line, q, o), kept, line, q, o)
    BY <1>3, SummaryIs
  <2> QED BY <2>2, <2>3 DEF HasLine
<1>6. /\ filer' \in Filers /\ filer'.on /\ filer'.place = q /\ filer'.of = o /\ ~filer'.held
  <2>1. filer' = [filer EXCEPT !.place = q, !.held = FALSE, !.line = NoLine]
    BY <1>1, <1>4
  <2> QED BY <1>2, <1>3, <1>4, <2>1 DEF Filers
<1>7. q # NotSaved /\ o <= emptied /\ (o = emptied => q <= Len(log))
  BY <1>2, <1>3, <1>4 DEF NotSaved
<1>8. InLog(q, o)'
  BY <1>1, <1>7 DEF InLog
<1>9. \A s \in AllSessions' : /\ s \in Sessions /\ InLog(s.filed, s.of)'
                              /\ s.filed = NotSaved => s.waiting = <<>> /\ s.posted = 0
  <2>1. AllSessions' \subseteq AllSessions \cup {kept'}
    BY <1>1 DEF AllSessions
  <2>2. ASSUME NEW s \in AllSessions
        PROVE  /\ s \in Sessions /\ InLog(s.filed, s.of)'
               /\ s.filed = NotSaved => s.waiting = <<>> /\ s.posted = 0
    BY <1>1 DEF RunnerShape, PlaceInv, EpisodeInv, InLog
  <2> QED BY <1>5, <1>7, <1>8, <2>1, <2>2
<1>10. RunnerShape'
  BY <1>1, <1>6, <1>9 DEF RunnerShape
<1>11. PlaceInv'
  <2>1. InLog(filer.place, filer.of)'
    BY <1>6, <1>8 DEF InLog
  <2>2. StartsAt(kept.filed, kept.of)' = StartsAt(filer.place, filer.of)'
    BY <1>5, <1>6 DEF StartsAt
  <2> QED BY <1>1, <1>6, <1>9, <2>1, <2>2 DEF PlaceInv
<1>12. EpisodeInv'
  BY <1>1, <1>2, <1>5, <1>6, <1>9 DEF EpisodeInv, Current
<1>13. ASSUME mishaps' = {} PROVE Unhindered'
  <2>1. Unhindered
    BY <1>1, <1>13 DEF FiledInv
  <2>2. Current /\ Filed /\ filer.of = emptied
    BY <1>1, <1>2, <2>1 DEF Unhindered
  <2>3. PICK f \in 0..Len(told), g \in 0..Len(told) : FiledTo(f, g, Place) /\ (filer.held => g = f + 1)
    BY <1>2, <2>2 DEF Filed
  <2>4. Place = filer.place /\ f + 1 \in 1..Len(told) /\ log[filer.place + 1] = told[f + 1] /\ g = f + 1
    BY <1>1, <1>2, <2>2, <2>3, NextLineIs
  <2>5. kept' = [Summarize(kept, told[f + 1]) EXCEPT !.filed = filer.place + 1, !.of = filer.of]
    BY <1>1, <1>2, <2>2, <2>4
  <2>6. InSummary(f + 1)'
    <3>1. InSummary(f) /\ LinesInv
      BY <2>2, <2>3 DEF FiledTo, Filed
    <3>2. f \in Nat /\ UNCHANGED told
      BY <1>1, <1>3
    <3> QED BY <1>1, <2>4, <2>5, <3>1, <3>2, InSummaryNext
  <2>7. BuiltInv' /\ LinesInv' /\ FilesInv'
    BY <1>1, <2>2 DEF Filed, BuiltInv, LinesInv, FilesInv, UpTo
  <2>8. Place' = q /\ Place = p
    BY <1>1, <1>4, <1>6, <2>2, <2>4 DEF Place, StartsAt
  <2>9. InFiles(f + 1, f + 1)'
    <3>1. InFiles(f, f + 1)
      BY <2>3, <2>4 DEF FiledTo
    <3>2. \A k \in ((f + 1) + 1)..Len(told) : k \in (f + 1)..Len(told)
      OBVIOUS
    <3>3. InFiles(f + 1, f + 1)
      BY <3>1, <3>2 DEF InFiles
    <3> QED BY <1>1, <3>3 DEF InFiles, OverBy
  <2>10. /\ Len(told) - f = Len(log) - p
         /\ \A k \in (f + 1)..Len(told) : told[k] = log[p + (k - f)]
    BY <2>3, <2>8 DEF FiledTo
  <2>11. Len(told) - (f + 1) = Len(log) - q
    <3>1. PICK a \in Nat, b \in Nat : a = Len(told) /\ b = Len(log)
      BY <1>3
    <3>2. PICK j \in Int : j = f
      OBVIOUS
    <3>3. a - j = b - p
      BY <2>10, <3>1, <3>2
    <3>4. q = p + 1
      BY <1>4
    <3>5. a - (j + 1) = b - q
      BY <3>3, <3>4
    <3> QED BY <3>1, <3>2, <3>5
  <2>12. ASSUME NEW k \in ((f + 1) + 1)..Len(told) PROVE told[k] = log[q + (k - (f + 1))]
    <3>1. k \in (f + 1)..Len(told)
      BY <1>3
    <3>2. PICK i \in Int, j \in Int : i = k /\ j = f
      OBVIOUS
    <3>3. q = p + 1
      BY <1>4
    <3>4. q + (i - (j + 1)) = p + (i - j)
      BY <3>3
    <3> QED BY <2>10, <3>1, <3>2, <3>4
  <2>13. f + 1 \in 0..Len(told) /\ f + 1 <= Len(told)
    BY <1>3, <2>4
  <2>14. FiledTo(f + 1, f + 1, q)'
    BY <1>1, <2>6, <2>9, <2>11, <2>12, <2>13 DEF FiledTo
  <2>15. FiledTo(f + 1, f + 1, Place)'
    BY <2>8, <2>14
  <2>16. Filed'
    BY <1>1, <1>6, <2>7, <2>13, <2>15 DEF Filed
  <2> QED BY <1>1, <1>2, <1>5, <1>6, <2>2, <2>16 DEF Unhindered, Current
<1> QED BY <1>10, <1>11, <1>12, <1>13 DEF FiledInv

\* The log is emptied: the filer, or the next one, starts at the beginning of
\* the new log, with nothing left to file of the old one.
LEMMA RotateFiles == ASSUME RunnerInv, FiledInv, Rotate PROVE FiledInv'
<1>1. /\ UNCHANGED <<phase, episode, storyStep, session, kept, relays, stateOf, files, filer, nodeUp, operatorUp,
                     built, onRollup, deploys, drops, told>>
      /\ log' = <<>> /\ emptied' = emptied + 1
      /\ mishaps' = {} => mishaps = {} /\ ~Unfiled
      /\ RunnerShape /\ PlaceInv /\ EpisodeInv
  BY DEF Rotate, Befalls, FiledInv
<1>2. /\ emptied \in Nat /\ filer.place \in Nat /\ filer.of \in Nat /\ filer \in Filers
      /\ Len(log) \in Nat /\ Len(told) \in Nat
      /\ \A s \in AllSessions : s.of \in Nat /\ s.of <= emptied
      /\ filer.of <= emptied /\ kept \in AllSessions
  BY <1>1, SessionIs DEF PlaceInv, InLog, AllSessions
<1>3. filer.of < emptied' /\ \A s \in AllSessions : s.of < emptied'
  BY <1>1, <1>2
<1>4. AllSessions' = AllSessions
  BY <1>1 DEF AllSessions
<1>5. log' \in Seq(Lines) /\ Len(log') = 0 /\ Len(log') <= MaxLines /\ emptied' \in Nat
  BY <1>1, <1>2, EmptySeq, MaxLinesIs
<1>6. RunnerShape'
  BY <1>1, <1>4, <1>5 DEF RunnerShape
<1>7. \A n, o : o \in Nat /\ o < emptied' => InLog(n, o)' /\ StartsAt(n, o)' = 0
  BY <1>5 DEF InLog, StartsAt
<1>8. filer'.of # emptied' /\ StartsAt(filer.place, filer.of)' = 0 /\ StartsAt(kept.filed, kept.of)' = 0
  BY <1>1, <1>2, <1>3, <1>5 DEF StartsAt
<1>9. PlaceInv'
  <2>1. InLog(filer.place, filer.of)'
    BY <1>1, <1>2, <1>3, <1>5 DEF InLog
  <2>2. \A s \in AllSessions' : InLog(s.filed, s.of)'
    BY <1>2, <1>3, <1>4, <1>7
  <2> QED BY <1>1, <1>5, <1>8, <2>1, <2>2 DEF PlaceInv
<1>10. EpisodeInv'
  BY <1>1, <1>4 DEF EpisodeInv, Current
<1>11. ASSUME mishaps' = {} PROVE Unhindered'
  <2>1. Unhindered /\ ~Unfiled
    BY <1>1, <1>11 DEF FiledInv
  <2>2. ~filer'.held
    <3> SUFFICES ASSUME filer.held PROVE FALSE
      BY <1>1
    <3>1. filer.on /\ filer.of = emptied /\ filer.place < Len(log)
      BY <1>1, <2>1 DEF Unhindered, PlaceInv
    <3>2. told = <<>>
      BY <2>1, <3>1 DEF Unfiled
    <3>3. Filed
      BY <2>1, <3>1 DEF Unhindered
    <3>4. PICK f \in 0..Len(told), g \in 0..Len(told) : FiledTo(f, g, Place)
      BY <3>1, <3>3 DEF Filed
    <3>5. f + 1 \in 1..Len(told)
      BY <1>1, <3>1, <3>4, NextLineIs
    <3>6. Len(told) = 0
      BY <3>2, EmptySeq
    <3> QED BY <3>5, <3>6
  <2>3. ASSUME Current PROVE Filed'
    <3>1. Filed
      BY <2>1, <2>3 DEF Unhindered
    <3>2. BuiltInv' /\ LinesInv' /\ FilesInv'
      BY <1>1, <3>1 DEF Filed, BuiltInv, LinesInv, FilesInv, UpTo
    <3>3. ASSUME filer.on \/ kept.filed # NotSaved
          PROVE  \E f \in 0..Len(told') : \E g \in 0..Len(told') : FiledTo(f, g, Place)'
      <4>1. PICK f \in 0..Len(told), g \in 0..Len(told) : FiledTo(f, g, Place)
        BY <3>1, <3>3 DEF Filed
      <4>2. Len(told) - f = Len(log) - Place /\ g <= Len(told) /\ g \in {f, f + 1}
        BY <4>1 DEF FiledTo
      <4>3. told = <<>> \/ Place = Len(log)
        <5> SUFFICES ASSUME told # <<>> PROVE Place = Len(log)
          OBVIOUS
        <5>1. CASE filer.on
          <6>1. filer.of = emptied /\ ~(filer.place < Len(log)) /\ filer.place <= Len(log)
            BY <1>1, <2>1, <5>1 DEF Unfiled, PlaceInv, InLog
          <6> QED BY <1>2, <5>1, <6>1 DEF Place, StartsAt
        <5>2. CASE ~filer.on
          <6>1. kept.of = emptied /\ ~(kept.filed < Len(log)) /\ kept.filed <= Len(log)
            BY <1>1, <1>2, <2>1, <3>3, <5>2 DEF Unfiled, PlaceInv, InLog
          <6>2. kept.filed \in Nat
            BY <1>1, <1>2, <3>3, <5>2, SessionIs
          <6> QED BY <1>2, <5>2, <6>1, <6>2 DEF Place, StartsAt
        <5> QED BY <5>1, <5>2
      <4>4. f = Len(told) /\ g = f
        <5>1. CASE told = <<>>
          <6>1. Len(told) = 0
            BY <5>1, EmptySeq
          <6> QED BY <4>2, <6>1
        <5>2. CASE Place = Len(log)
          <6>1. PICK a \in Nat, b \in Nat : a = Len(told) /\ b = Len(log)
            BY <1>2
          <6>2. a - f = b - b /\ f \in Int /\ g \in Int
            BY <4>2, <5>2, <6>1
          <6>3. f = a
            BY <6>1, <6>2
          <6> QED BY <4>2, <6>1, <6>3
        <5> QED BY <4>3, <5>1, <5>2
      <4>5. Place' = 0
        BY <1>8 DEF Place
      <4>6. InFiles(f, g)'
        BY <1>1, <4>1 DEF FiledTo, InFiles, OverBy
      <4>7. InSummary(f)'
        <5>1. f \in Nat /\ InSummary(f) /\ \A i \in 1..f : told'[i] = told[i]
          BY <1>1, <4>1 DEF FiledTo
        <5> QED BY <1>1, <5>1, InSummarySame
      <4>8. FiledTo(f, g, 0)'
        <5>1. Len(told') - f = Len(log') - 0
          <6>1. PICK a \in Nat : a = Len(told')
            BY <1>1, <1>2
          <6>2. f = a
            BY <1>1, <4>4, <6>1
          <6> QED BY <1>5, <6>1, <6>2
        <5>2. \A k \in (f + 1)..Len(told') : FALSE
          BY <1>1, <1>2, <4>4
        <5>3. g <= Len(told') /\ g \in {f, f + 1}
          BY <1>1, <4>2
        <5> QED BY <4>6, <4>7, <5>1, <5>2, <5>3 DEF FiledTo
      <4>9. FiledTo(f, g, Place)'
        BY <4>5, <4>8
      <4>10. f \in 0..Len(told') /\ g \in 0..Len(told')
        BY <1>1
      <4> QED BY <4>9, <4>10
    <3> QED BY <1>1, <2>2, <3>2, <3>3 DEF Filed
  <2> QED BY <1>1, <2>1, <2>2, <2>3 DEF Unhindered, Current
<1> QED BY <1>6, <1>9, <1>10, <1>11 DEF FiledInv

\* The places stay in a log that grows.
LEMMA PlacesInLongerLog ==
    ASSUME RunnerShape, PlaceInv, NEW line \in Lines, log' = Append(log, line), Len(log) < MaxLines,
           UNCHANGED <<episode, session, kept, relays, filer, emptied>>
    PROVE  PlaceInv' /\ log' \in Seq(Lines)
<1>1. /\ log' \in Seq(Lines) /\ Len(log') = Len(log) + 1 /\ Len(log) \in Nat /\ MaxLines \in Nat
      /\ \A i \in 1..Len(log) : log'[i] = log[i]
  BY AppendProperties, LenProperties, MaxLinesIs DEF RunnerShape
<1>2. Len(log) <= Len(log') /\ Len(log') <= MaxLines
  BY <1>1
<1>3. /\ filer.place \in Nat /\ filer.of \in Nat /\ emptied \in Nat /\ kept \in AllSessions
      /\ \A s \in AllSessions : s.filed \in Int /\ s.of \in Nat
  BY SessionIs DEF AllSessions, NotSaved
<1>4. \A n \in Int, o \in Nat : InLog(n, o) => InLog(n, o)'
  BY <1>1, <1>2, <1>3 DEF InLog
<1>5. InLog(filer.place, filer.of)'
  <2>1. InLog(filer.place, filer.of)
    BY DEF PlaceInv
  <2> QED BY <1>1, <1>2, <1>3, <2>1 DEF InLog
<1>6. \A s \in AllSessions' : InLog(s.filed, s.of)'
  <2>1. AllSessions' = AllSessions
    BY DEF AllSessions
  <2> SUFFICES ASSUME NEW s \in AllSessions PROVE InLog(s.filed, s.of)'
    BY <2>1
  <2>2. PICK n \in Int, o \in Nat : n = s.filed /\ o = s.of
    BY <1>3
  <2>3. InLog(n, o)
    BY <2>2 DEF PlaceInv
  <2> QED BY <1>4, <2>2, <2>3
<1>7. filer.on /\ kept.filed # NotSaved => StartsAt(kept.filed, kept.of)' = StartsAt(filer.place, filer.of)'
  BY DEF PlaceInv, StartsAt
<1>8. filer.held =>
        /\ filer.on /\ filer.place < MaxLines /\ filer.line \in Lines
        /\ filer.of = emptied => filer.place < Len(log') /\ filer.line = log'[filer.place + 1]
  <2>1. ASSUME filer.held, filer.of = emptied
        PROVE  filer.place < Len(log') /\ filer.line = log'[filer.place + 1]
    <3>1. filer.place < Len(log) /\ filer.line = log[filer.place + 1]
      BY <2>1 DEF PlaceInv
    <3>2. PICK k \in Nat : k = filer.place
      BY <1>3
    <3>3. k + 1 \in 1..Len(log) /\ k < Len(log')
      BY <1>1, <3>1, <3>2
    <3> QED BY <1>1, <3>1, <3>2, <3>3
  <2> QED BY <2>1 DEF PlaceInv
<1> QED BY <1>1, <1>2, <1>5, <1>6, <1>7, <1>8 DEF PlaceInv

\* What the operator reports is filed later, unless it stops before it writes it.
LEMMA ReportStays ==
    ASSUME RunnerShape, PlaceInv, NEW line \in Lines, Report(line),
           UNCHANGED <<episode, session, kept, relays, filer, emptied>>
    PROVE  /\ PlaceInv' /\ log' \in Seq(Lines) /\ told' \in Seq(Lines)
           /\ operatorUp' => operatorUp
<1>1. CASE /\ Len(told) < MaxReports /\ Len(log) < MaxLines
           /\ log' = Append(log, line)
           /\ told' = Append(told, line)
           /\ UNCHANGED <<operatorUp, halts>>
  <2>1. PlaceInv' /\ log' \in Seq(Lines)
    BY <1>1, PlacesInLongerLog
  <2>2. told' \in Seq(Lines)
    BY <1>1, AppendProperties DEF RunnerShape
  <2> QED BY <1>1, <2>1, <2>2
<1>2. CASE operatorUp' = FALSE /\ UNCHANGED <<log, told>>
  <2>1. \A s \in AllSessions' : InLog(s.filed, s.of)'
    BY <1>2 DEF PlaceInv, InLog, AllSessions
  <2>2. PlaceInv'
    BY <1>2, <2>1, FilerStays
  <2> QED BY <1>2, <2>2 DEF RunnerShape
<1> QED BY <1>1, <1>2 DEF Report

LEMMA ReportFiled ==
    ASSUME RunnerShape, PlaceInv, Filed, Grows, BuiltInv', filer.on, NEW line \in Lines, Report(line),
           UNCHANGED <<files, kept, filer, emptied>>,
           onRollup' \in Nat, onRollup <= onRollup', UpTo(line.number, line.version)',
           \A v \in Nat : UpTo(line.number, v) =>
                v <= line.version /\ (line.type = "preconfirm" => v < line.version),
           line.type = "advance" => line.number <= onRollup',
           line.number > onRollup
    PROVE  Filed'
<1>1. CASE /\ Len(told) < MaxReports /\ Len(log) < MaxLines
           /\ log' = Append(log, line)
           /\ told' = Append(told, line)
           /\ UNCHANGED <<operatorUp, halts>>
  BY <1>1, LineWritten
<1>2. CASE operatorUp' = FALSE /\ UNCHANGED <<log, told>>
  BY <1>2, LineLost
<1> QED BY <1>1, <1>2 DEF Report

\* The node preconfirms a block: a new version, if one was dropped at its height.
LEMMA PreconfirmsFiles == ASSUME RunnerInv, FiledInv, PreconfirmsNext PROVE FiledInv'
<1> DEFINE next == [type |-> "preconfirm", number |-> Len(built) + 1, version |-> drops + 1]
<1>1. /\ nodeUp /\ operatorUp /\ Len(built) < MaxReports
      /\ built' = Append(built, drops + 1) /\ Report(next)
      /\ UNCHANGED <<phase, episode, storyStep, session, kept, relays, stateOf, files, filer, nodeUp,
                     onRollup, deploys, drops, emptied, mishaps>>
  BY DEF PreconfirmsNext
<1>2. /\ RunnerShape /\ PlaceInv /\ EpisodeInv /\ phase = "step"
      /\ Len(built) \in Nat /\ drops \in Nat /\ onRollup \in 0..Len(built) /\ MaxReports \in Nat
  BY <1>1, LenProperties, MaxLinesIs DEF FiledInv, EpisodeInv, RunnerShape
<1>3. PICK line \in Lines : line = next /\ line.number = Len(built) + 1 /\ line.version = drops + 1
                              /\ line.type = "preconfirm" /\ Report(line)
  <2>1. next \in Lines
    BY <1>1, <1>2 DEF Lines, Numbers
  <2> QED BY <1>1, <2>1
<1> HIDE DEF next
<1>4. /\ built' \in Seq(Nat \ {0}) /\ Len(built') = Len(built) + 1
      /\ \A n \in 1..Len(built) : built'[n] = built[n]
      /\ built'[Len(built) + 1] = drops + 1
  <2>1. built \in Seq(Nat \ {0}) /\ drops + 1 \in Nat \ {0}
    BY <1>2 DEF RunnerShape
  <2> QED BY <1>1, <2>1, AppendProperties
<1>5. PICK n \in Nat, d \in Nat : n = Len(built) /\ d = drops /\ d = drops' /\ Len(built') = n + 1
  BY <1>1, <1>2, <1>4
<1>6. \A k \in Nat : \A v \in Nat : UpTo(k, v)' <=> IF k <= n + 1 THEN v <= built'[k] ELSE v <= d
  BY <1>5 DEF UpTo
<1>7. \A k \in Nat : \A v \in Nat : UpTo(k, v) <=> IF k <= n THEN v <= built[k] ELSE v <= d
  BY <1>5 DEF UpTo
<1>8. \A k \in Numbers : k \in Nat /\ 1 <= k
  BY DEF Numbers
<1>9. Grows
  <2> SUFFICES ASSUME NEW k \in Numbers, NEW v \in Nat, UpTo(k, v) PROVE UpTo(k, v)'
    BY DEF Grows
  <2>1. CASE k <= n
    <3>1. k \in 1..Len(built) /\ k <= n + 1
      BY <1>5, <1>8, <2>1
    <3>2. v <= built[k] /\ built'[k] = built[k]
      BY <1>4, <1>7, <1>8, <2>1, <3>1
    <3> QED BY <1>6, <1>8, <3>1, <3>2
  <2>2. CASE k = n + 1
    <3>1. v <= d /\ built'[k] = d + 1
      BY <1>4, <1>5, <1>7, <1>8, <2>2
    <3>2. v <= built'[k]
      BY <3>1
    <3> QED BY <1>6, <1>8, <2>2, <3>2
  <2>3. CASE ~(k <= n) /\ k # n + 1
    <3>1. ~(k <= n + 1)
      BY <1>8, <2>3
    <3> QED BY <1>6, <1>7, <1>8, <2>3, <3>1
  <2> QED BY <2>1, <2>2, <2>3
<1>10. ASSUME Filed PROVE BuiltInv'
  <2> SUFFICES ASSUME NEW k \in 1..(n + 1) PROVE built'[k] <= d + 1
    BY <1>5 DEF BuiltInv
  <2>1. CASE k \in 1..n
    BY <1>4, <1>5, <1>10, <2>1 DEF Filed, BuiltInv
  <2>2. CASE k = n + 1
    BY <1>4, <1>5, <2>2
  <2> QED BY <2>1, <2>2
<1>11. UpTo(line.number, line.version)'
  <2>1. line.number = n + 1 /\ line.version = d + 1
    BY <1>3, <1>5
  <2>2. n + 1 \in Nat /\ d + 1 \in Nat /\ n + 1 <= n + 1 /\ d + 1 <= d + 1
    OBVIOUS
  <2>3. UpTo(n + 1, d + 1)'
    BY <1>4, <1>5, <1>6, <2>2
  <2> QED BY <2>1, <2>3
<1>12. \A v \in Nat : UpTo(line.number, v) => v <= line.version /\ (line.type = "preconfirm" => v < line.version)
  <2>1. \A v \in Nat : UpTo(n + 1, v) => v <= d + 1 /\ v < d + 1
    BY <1>7
  <2> QED BY <1>3, <1>5, <2>1
<1>13. line.number > onRollup /\ onRollup' = onRollup /\ onRollup \in Nat /\ onRollup <= onRollup' /\ line.type # "advance"
  BY <1>1, <1>2, <1>3
<1>14. /\ PlaceInv' /\ log' \in Seq(Lines) /\ told' \in Seq(Lines)
       /\ operatorUp' => operatorUp
  BY <1>1, <1>2, <1>3, ReportStays
<1>15. AllSessions' = AllSessions
  BY <1>1 DEF AllSessions
<1>16. RunnerShape'
  <2>1. Len(built') <= MaxReports /\ onRollup' \in 0..Len(built')
    BY <1>1, <1>2, <1>4
  <2> QED BY <1>1, <1>2, <1>4, <1>14, <1>15, <2>1 DEF RunnerShape
<1>17. EpisodeInv'
  BY <1>1, <1>2, <1>14, <1>15 DEF EpisodeInv, Current
<1>18. ASSUME mishaps' = {} PROVE Unhindered'
  <2>1. Unhindered /\ filer.on /\ Current /\ Filed
    BY <1>1, <1>2, <1>18 DEF FiledInv, Unhindered
  <2>2. Filed'
    BY <1>1, <1>2, <1>3, <1>9, <1>10, <1>11, <1>12, <1>13, <2>1, ReportFiled
  <2> QED BY <1>1, <2>1, <2>2 DEF Unhindered, Current
<1> QED BY <1>14, <1>16, <1>17, <1>18 DEF FiledInv

\* The node posts the next block.
LEMMA PostsFiles == ASSUME RunnerInv, FiledInv, PostsNext PROVE FiledInv'
<1> DEFINE next == [type |-> "advance", number |-> onRollup + 1, version |-> built[onRollup + 1]]
<1>1. /\ nodeUp /\ operatorUp /\ onRollup < Len(built) /\ onRollup' = onRollup + 1 /\ Report(next)
      /\ UNCHANGED <<phase, episode, storyStep, session, kept, relays, stateOf, files, filer, nodeUp,
                     built, deploys, drops, emptied, mishaps>>
  BY DEF PostsNext
<1>2. /\ RunnerShape /\ PlaceInv /\ EpisodeInv /\ phase = "step"
      /\ Len(built) \in Nat /\ Len(built) <= MaxReports /\ onRollup \in 0..Len(built) /\ MaxReports \in Nat
  BY <1>1, LenProperties, MaxLinesIs DEF FiledInv, EpisodeInv, RunnerShape
<1>3. PICK b \in Nat : b = onRollup + 1 /\ b \in 1..Len(built) /\ b > onRollup
  BY <1>1, <1>2
<1>4. PICK v \in Nat \ {0} : v = built[b] /\ v = built'[b]
  <2>1. built \in Seq(Nat \ {0})
    BY <1>2 DEF RunnerShape
  <2> QED BY <1>1, <1>3, <2>1, ElementOfSeq
<1>5. PICK line \in Lines : line = next /\ line.number = b /\ line.version = v
                              /\ line.type = "advance" /\ Report(line)
  <2>1. next = [type |-> "advance", number |-> b, version |-> v]
    BY <1>3, <1>4
  <2>2. b \in Numbers
    BY <1>2, <1>3 DEF Numbers
  <2>3. next \in Lines
    BY <2>1, <2>2 DEF Lines
  <2> QED BY <1>1, <2>1, <2>3
<1> HIDE DEF next
<1>6. Grows /\ (Filed => BuiltInv')
  BY <1>1, <1>2 DEF Grows, UpTo, Filed, BuiltInv
<1>7. UpTo(b, v)' /\ \A w \in Nat : UpTo(b, w) => w <= v
  <2>1. b <= Len(built) /\ v <= v
    BY <1>2, <1>3
  <2> QED BY <1>1, <1>4, <2>1 DEF UpTo
<1>8. UpTo(line.number, line.version)' /\ line.type # "preconfirm" /\ line.number > onRollup
  BY <1>3, <1>5, <1>7
<1>9. onRollup' \in Nat /\ onRollup <= onRollup' /\ (line.type = "advance" => line.number <= onRollup')
  <2>1. onRollup' = b /\ onRollup <= b /\ b <= b
    BY <1>1, <1>2, <1>3
  <2> QED BY <1>5, <2>1
<1>10. \A w \in Nat : UpTo(line.number, w) => w <= line.version /\ (line.type = "preconfirm" => w < line.version)
  BY <1>5, <1>7, <1>8
<1>11. /\ PlaceInv' /\ log' \in Seq(Lines) /\ told' \in Seq(Lines)
       /\ operatorUp' => operatorUp
  BY <1>1, <1>2, <1>5, ReportStays
<1>12. AllSessions' = AllSessions
  BY <1>1 DEF AllSessions
<1>13. RunnerShape'
  <2>1. onRollup' \in 0..Len(built')
    BY <1>1, <1>2
  <2> QED BY <1>1, <1>2, <1>11, <1>12, <2>1 DEF RunnerShape
<1>14. EpisodeInv'
  BY <1>1, <1>2, <1>11, <1>12 DEF EpisodeInv, Current
<1>15. ASSUME mishaps' = {} PROVE Unhindered'
  <2>1. Unhindered /\ filer.on /\ Current /\ Filed
    BY <1>1, <1>2, <1>15 DEF FiledInv, Unhindered
  <2>2. Filed'
    BY <1>1, <1>2, <1>5, <1>6, <1>8, <1>9, <1>10, <2>1, ReportFiled
  <2> QED BY <1>1, <2>1, <2>2 DEF Unhindered, Current
<1> QED BY <1>11, <1>13, <1>14, <1>15 DEF FiledInv

\* The node drops blocks: the ones it builds next at their heights are of a
\* later version.
LEMMA DropsFiles == ASSUME RunnerInv, FiledInv, Drops PROVE FiledInv'
<1>1. /\ nodeUp /\ onRollup < Len(built) /\ drops' = drops + 1 /\ built' = SubSeq(built, 1, onRollup)
      /\ UNCHANGED <<phase, episode, storyStep, session, kept, relays, stateOf, files, filer, nodeUp,
                     operatorUp, log, onRollup, deploys, told, emptied, mishaps>>
  BY DEF Drops
<1>2. /\ RunnerShape /\ PlaceInv /\ EpisodeInv /\ phase \in {"operator", "step"} /\ Agreed
      /\ Len(built) \in Nat /\ Len(built) <= MaxReports /\ onRollup \in 0..Len(built) /\ MaxReports \in Nat
      /\ built \in Seq(Nat \ {0}) /\ drops \in Nat
  BY <1>1, LenProperties, MaxLinesIs DEF FiledInv, EpisodeInv, RunnerShape, RunnerInv
<1>3. PICK m \in Nat, n \in Nat, d \in Nat : m = onRollup /\ n = Len(built) /\ d = drops /\ drops' = d + 1 /\ m <= n
  <2>1. onRollup \in Nat /\ onRollup <= Len(built)
    BY <1>2
  <2> QED BY <1>1, <1>2, <2>1
<1>4. built' \in Seq(Nat \ {0}) /\ Len(built') = m /\ \A k \in 1..m : built'[k] = built[k]
  <2>1. \A k \in 1..m : built[k] \in Nat \ {0}
    <3>1. \A k \in 1..m : k \in 1..Len(built)
      BY <1>3
    <3> QED BY <1>2, <3>1, ElementOfSeq
  <2>2. built' = [k \in 1..m |-> built[k]]
    <3>1. \A k \in 1..m : 1 + k - 1 = k
      OBVIOUS
    <3>2. SubSeq(built, 1, m) \in Seq(Nat \ {0}) /\ Len(SubSeq(built, 1, m)) = m
          /\ \A k \in 1..m : SubSeq(built, 1, m)[k] = built[k]
      <4>1. 1 \in 1..(n + 1) /\ m \in 0..n
        BY <1>3
      <4> QED BY <1>2, <1>3, <3>1, <4>1, SubSeqProperties
    <3>3. built' = SubSeq(built, 1, m)
      BY <1>1, <1>3
    <3> QED BY <3>2, <3>3, LenProperties
  <2> QED BY <2>1, <2>2, IsASeq
<1>5. \A k \in Nat : \A v \in Nat : UpTo(k, v)' <=> IF k <= m THEN v <= built'[k] ELSE v <= d + 1
  BY <1>3, <1>4 DEF UpTo
<1>6. \A k \in Nat : \A v \in Nat : UpTo(k, v) <=> IF k <= n THEN v <= built[k] ELSE v <= d
  BY <1>3 DEF UpTo
<1>7. \A k \in Numbers : k \in Nat /\ 1 <= k
  BY DEF Numbers
<1>8. ASSUME Filed PROVE \A k \in 1..n : built[k] \in Nat /\ built[k] <= d + 1
  <2>1. \A k \in 1..n : built[k] \in Nat
    BY <1>2, <1>3, ElementOfSeq
  <2> QED BY <1>3, <1>8, <2>1 DEF Filed, BuiltInv
<1>9. ASSUME Filed PROVE Grows
  <2> SUFFICES ASSUME NEW k \in Numbers, NEW v \in Nat, UpTo(k, v) PROVE UpTo(k, v)'
    BY DEF Grows
  <2>1. CASE k <= m
    <3>1. k \in 1..m /\ k <= n
      BY <1>3, <1>7, <2>1
    <3> QED BY <1>4, <1>5, <1>6, <1>7, <2>1, <3>1
  <2>2. CASE ~(k <= m) /\ k <= n
    <3>1. k \in 1..n /\ v <= built[k]
      BY <1>3, <1>6, <1>7, <2>2
    <3>2. v <= d + 1
      BY <1>8, <1>9, <3>1
    <3> QED BY <1>5, <1>7, <2>2, <3>2
  <2>3. CASE ~(k <= m) /\ ~(k <= n)
    <3>1. v <= d
      BY <1>6, <1>7, <2>3
    <3>2. v <= d + 1
      BY <3>1
    <3> QED BY <1>5, <1>7, <2>3, <3>2
  <2> QED BY <2>1, <2>2, <2>3
<1>10. ASSUME Filed PROVE BuiltInv'
  <2> SUFFICES ASSUME NEW k \in 1..m PROVE built'[k] <= drops' + 1
    BY <1>4 DEF BuiltInv
  <2>1. k \in 1..n
    BY <1>3
  <2>2. PICK x \in Nat : x = built[k] /\ x <= d + 1
    BY <1>8, <1>10, <2>1
  <2>3. x <= (d + 1) + 1
    BY <2>2
  <2> QED BY <1>3, <1>4, <2>2, <2>3
<1>11. ASSUME Filed PROVE Filed'
  <2>1. onRollup' \in Nat /\ onRollup <= onRollup'
    BY <1>1, <1>3
  <2> QED BY <1>1, <1>2, <1>9, <1>10, <1>11, <2>1, LineLost
<1>12. AllSessions' = AllSessions
  BY <1>1 DEF AllSessions
<1>13. RunnerShape'
  <2>1. Len(built') <= MaxReports /\ onRollup' \in 0..Len(built') /\ drops' \in Nat
    BY <1>1, <1>2, <1>3, <1>4
  <2> QED BY <1>1, <1>2, <1>4, <1>12, <2>1 DEF RunnerShape
<1>14. PlaceInv'
  <2>1. \A s \in AllSessions' : InLog(s.filed, s.of)'
    BY <1>1, <1>2, <1>12 DEF PlaceInv, InLog
  <2> QED BY <1>1, <1>2, <2>1, FilerStays
<1>15. EpisodeInv'
  BY <1>1, <1>2, <1>12 DEF EpisodeInv, Current
<1>16. ASSUME mishaps' = {} PROVE Unhindered'
  <2>1. Unhindered
    BY <1>1, <1>16 DEF FiledInv
  <2>2. Current
    BY <1>1, <1>2, <1>16 DEF Agreed, Forgotten, Current, EpisodeInv
  <2>3. Filed'
    BY <1>11, <2>1, <2>2 DEF Unhindered
  <2> QED BY <1>1, <2>1, <2>2, <2>3 DEF Unhindered, Current
<1> QED BY <1>13, <1>14, <1>15, <1>16 DEF FiledInv

\* At the start nothing is reported.
LEMMA FiledInit == ASSUME RunnerInit PROVE FiledInv
<1>1. /\ phase = "idle" /\ episode = EmptySession /\ session = EmptySession /\ kept = EmptySession /\ relays = {}
      /\ storyStep = 0 /\ stateOf = NoRollup /\ files = NoFiles /\ filer = FilerOff /\ nodeUp = FALSE
      /\ operatorUp = FALSE /\ log = <<>> /\ built = <<>> /\ onRollup = 0 /\ deploys = 0 /\ drops = 0
      /\ told = <<>> /\ emptied = 0
  BY DEF RunnerInit
<1>2. /\ <<>> \in Seq(Lines) /\ <<>> \in Seq(Nat \ {0}) /\ <<>> \in Seq(Nat) /\ Len(<<>>) = 0
  BY EmptySeq
<1>3. AllSessions = {EmptySession} /\ NoRollup = 0 /\ 0 # NotSaved
  BY <1>1 DEF AllSessions, NoRollup, NotSaved
<1>4. NoFiles \in [Numbers -> [version : Nat, broken : Seq(Nat)]]
  BY <1>2 DEF NoFiles
<1>5. RunnerShape
  <2>1. Len(built) <= MaxReports /\ onRollup \in 0..Len(built)
    BY <1>1, <1>2, MaxLinesIs
  <2> QED BY <1>1, <1>2, <1>3, <1>4, <2>1, EmptyIs, OffIs DEF RunnerShape
<1>6. PlaceInv
  <2>1. Len(log) <= MaxLines /\ NotSaved <= Len(log) /\ 0 <= Len(log) /\ 0 <= emptied
    BY <1>1, <1>2, MaxLinesIs DEF NotSaved
  <2> QED BY <1>1, <1>3, <2>1, EmptyIs, OffIs DEF PlaceInv, InLog
<1>7. EpisodeInv
  BY <1>1, <1>3, EmptyIs, OffIs DEF EpisodeInv
<1>8. Filed
  <2>1. BuiltInv /\ LinesInv
    BY <1>1, <1>2 DEF BuiltInv, LinesInv
  <2>2. FilesInv
    <3> SUFFICES ASSUME NEW n \in Numbers PROVE UpTo(n, files[n].version) /\ Tidy(files[n])
      BY DEF FilesInv
    <3>1. files[n] = [version |-> 0, broken |-> <<>>] /\ n \in Nat /\ n # 0
      BY <1>1 DEF NoFiles, Numbers
    <3>2. IsInjective(<<>>)
      BY DEF IsInjective
    <3> QED BY <1>1, <1>2, <3>1, <3>2 DEF UpTo, Tidy
  <2> QED BY <1>1, <2>1, <2>2, EmptyIs, OffIs DEF Filed
<1> QED BY <1>1, <1>5, <1>6, <1>7, <1>8, OffIs DEF FiledInv, Unhindered

\* Nothing the runner knows changes.
LEMMA FiledStutter == ASSUME FiledInv, UNCHANGED runnerVars PROVE FiledInv'
<1>1. UNCHANGED <<phase, new, episode, storyStep, session, proverOf, stateOf, files, filer, relays, nodeUp,
                  operatorUp, log, rollupsOnL1, built, onRollup, deploys, drops, halts, told, emptied, kept,
                  mishaps>>
  BY DEF runnerVars
<1>2. AllSessions' = AllSessions
  BY <1>1 DEF AllSessions
<1>3. RunnerShape'
  BY <1>1, <1>2 DEF FiledInv, RunnerShape
<1>4. PlaceInv'
  <2>1. \A s \in AllSessions' : InLog(s.filed, s.of)'
    BY <1>1, <1>2 DEF FiledInv, PlaceInv, InLog
  <2> QED BY <1>1, <2>1, FilerStays DEF FiledInv
<1>5. EpisodeInv'
  BY <1>1, <1>2 DEF FiledInv, EpisodeInv, Current
<1>6. ASSUME mishaps' = {} PROVE Unhindered'
  <2>1. Unhindered
    BY <1>1, <1>6 DEF FiledInv
  <2>2. Current' => Filed'
    <3> SUFFICES ASSUME Current PROVE Filed'
      BY <1>1 DEF Current
    <3>1. Filed /\ Place' = Place
      BY <1>1, <2>1, PlaceSame DEF Unhindered
    <3> QED BY <1>1, <3>1, FiledSame
  <2> QED BY <1>1, <2>1, <2>2 DEF Unhindered, Current
<1> QED BY <1>3, <1>4, <1>5, <1>6 DEF FiledInv

\* A filer at the end of the log has filed every line.
LEMMA FiledIsEveryReport == ASSUME FiledInv PROVE EveryReportFiled
<1> SUFFICES ASSUME mishaps = {}, filer.on, filer.of = emptied, filer.place = Len(log) PROVE EveryReportFiled
  BY DEF EveryReportFiled
<1> DEFINE n == Len(told)
<1> DEFINE Confirms == {i \in DOMAIN told : told[i].type = "preconfirm"}
<1> DEFINE Covered(b) == \E i \in DOMAIN told : told[i].type = "advance" /\ told[i].number >= b
<1> DEFINE Replaced(i) == \E j \in Confirms : j > i /\ told[j].number <= told[i].number
<1> DEFINE Overwritten(i) ==
      \E j \in DOMAIN told :
          /\ j > i /\ told[j].type = "advance" /\ told[j].number = told[i].number
          /\ \A k \in Confirms :
               told[k].number = told[j].number => told[k].version # told[j].version
<1>1. RunnerShape /\ Current /\ Filed /\ n \in Nat /\ DOMAIN told = 1..n /\ Len(log) \in Nat
  BY LenProperties DEF FiledInv, Unhindered, RunnerShape
<1>2. PICK f \in 0..n, g \in 0..n : FiledTo(f, g, Place)
  BY <1>1 DEF Filed
<1>3. f = n /\ g = n
  <2>1. Place = Len(log)
    BY <1>1 DEF Place, StartsAt
  <2>2. n - f = Len(log) - Len(log) /\ g <= n /\ g \in {f, f + 1}
    BY <1>2, <2>1 DEF FiledTo
  <2>3. PICK a \in Nat, b \in Nat : a = n /\ b = Len(log)
    BY <1>1
  <2>4. a - f = b - b /\ f \in Int /\ g \in Int
    BY <2>2, <2>3
  <2>5. f = a
    BY <2>3, <2>4
  <2> QED BY <2>2, <2>3, <2>5
<1>4. LinesInv /\ InFiles(n, n) /\ InSummary(n) /\ FilesInv
  BY <1>1, <1>2, <1>3 DEF FiledTo, Filed
<1>5. \A i \in 1..n : /\ told[i].number \in Nat \ {0} /\ told[i].number \in Numbers
                      /\ files[told[i].number] \in [version : Nat, broken : Seq(Nat)]
  BY <1>1, LineIs DEF Numbers
<1> HIDE DEF n
<1>6. ASSUME NEW i \in Confirms, ~Overwritten(i)
      PROVE  told[i].version \in {files[told[i].number].version} \cup ToSet(files[told[i].number].broken)
  <2>1. i \in 1..n /\ told[i].type = "preconfirm"
    BY <1>1
  <2>2. CASE Held(files[told[i].number], told[i].version)
    <3>1. PICK b : b = files[told[i].number].broken /\ b \in Seq(Nat)
      BY <1>5, <2>1
    <3>2. ToSet(b) = {b[k] : k \in 1..Len(b)}
      BY <3>1, LenProperties DEF ToSet
    <3> QED BY <2>2, <3>1, <3>2 DEF Held
  <2>3. ASSUME NEW j \in (i + 1)..n, OverBy(i, j) PROVE FALSE
    <3>1. j \in 1..n /\ j > i
      BY <1>1, <2>1
    <3>2. told[j].type = "advance" /\ told[j].number = told[i].number
      BY <2>3 DEF OverBy
    <3>3. ASSUME NEW k \in Confirms, told[k].number = told[j].number PROVE told[k].version # told[j].version
      <4>1. k \in 1..n /\ told[k].type = "preconfirm"
        BY <1>1
      <4>2. k # j
        BY <3>2, <4>1
      <4>3. ~(j < k)
        <5>1. j < k => j \in 1..(k - 1)
          BY <3>1, <4>1
        <5>2. j < k => told[j].number < told[k].number
          BY <1>4, <3>2, <4>1, <5>1 DEF LinesInv, n
        <5> QED BY <1>5, <3>1, <3>3, <5>2
      <4>4. k \in 1..(j - 1)
        BY <3>1, <4>1, <4>2, <4>3
      <4> QED BY <2>3, <3>3, <4>1, <4>4 DEF OverBy
    <3> QED BY <1>1, <1>6, <3>1, <3>2, <3>3
  <2>4. Held(files[told[i].number], told[i].version) \/ \E j \in (i + 1)..n : OverBy(i, j)
    BY <1>4, <2>1 DEF InFiles
  <2> QED BY <2>2, <2>3, <2>4
<1>7. ASSUME NEW b \in Numbers PROVE IsInjective(Append(files[b].broken, files[b].version))
  <2>1. files[b] \in [version : Nat, broken : Seq(Nat)] /\ Tidy(files[b])
    BY <1>1, <1>4 DEF RunnerShape, FilesInv
  <2> QED BY <2>1, TidyInjective
<1>8. WaitingLines(n) = {k \in Confirms : ~Replaced(k) /\ ~Covered(told[k].number)}
  <2>1. ASSUME NEW i \in 1..n
        PROVE  told[i].number > kept.posted <=> ~Covered(told[i].number)
    <3>1. kept.posted \in Nat
      BY <1>1 DEF RunnerShape, AllSessions, Sessions
    <3>2. ASSUME told[i].number > kept.posted, NEW j \in 1..n, told[j].type = "advance"
          PROVE  ~(told[j].number >= told[i].number)
      <4>1. told[j].number <= kept.posted
        BY <1>4, <3>2 DEF InSummary
      <4> QED BY <1>5, <3>1, <3>2, <4>1
    <3>3. ASSUME ~(told[i].number > kept.posted) PROVE Covered(told[i].number)
      <4>1. kept.posted # 0
        BY <1>5, <3>1, <3>3
      <4>2. PICK j \in 1..n : told[j].type = "advance" /\ told[j].number = kept.posted
        BY <1>4, <4>1 DEF InSummary
      <4>3. told[j].number >= told[i].number
        BY <1>5, <3>1, <3>3, <4>2
      <4> QED BY <1>1, <4>2, <4>3
    <3> QED BY <1>1, <3>2, <3>3
  <2>2. ASSUME NEW i \in 1..n
        PROVE  (\A j \in (i + 1)..n : told[j].type = "preconfirm" => told[j].number > told[i].number)
                  <=> ~Replaced(i)
    <3>1. \A j \in 1..n : j > i <=> j \in (i + 1)..n
      BY <1>1
    <3>2. \A j \in (i + 1)..n : j \in 1..n
      BY <1>1
    <3>3. \A j \in 1..n : told[j].number > told[i].number <=> ~(told[j].number <= told[i].number)
      BY <1>5
    <3> QED BY <1>1, <3>1, <3>2, <3>3
  <2>3. ASSUME NEW i \in 1..n
        PROVE  StillWaits(n, i) <=> i \in Confirms /\ ~Replaced(i) /\ ~Covered(told[i].number)
    <3>1. i \in Confirms <=> told[i].type = "preconfirm"
      BY <1>1
    <3> HIDE DEF Confirms, Replaced, Posted
    <3> QED BY <2>1, <2>2, <3>1 DEF StillWaits
  <2>4. \A i \in Confirms : i \in 1..n
    BY <1>1
  <2> HIDE DEF Confirms, Replaced, Posted
  <2> QED BY <2>3, <2>4 DEF WaitingLines
<1>9. ToSet(kept.waiting) = {[number |-> told[i].number, version |-> told[i].version] : i \in WaitingLines(n)}
  BY <1>4 DEF InSummary, BlockOf
<1>10. ToSet(episode.waiting) =
         {[number |-> told[i].number, version |-> told[i].version] :
            i \in {k \in Confirms : ~Replaced(k) /\ ~Covered(told[k].number)}}
  <2>1. episode = kept
    BY DEF FiledInv, EpisodeInv
  <2> QED BY <1>8, <1>9, <2>1
<1> QED BY <1>6, <1>7, <1>10 DEF EveryReportFiled

\* Every step of the demo keeps what is filed.
LEMMA FiledStep == ASSUME RunnerInv, FiledInv, [DemoNext]_demoVars PROVE FiledInv'
<1>1. CASE RunnerNext
  BY <1>1, ResumeFiles, QuietFiles, DeployFiles, StepFiles, StartOperatorFiles, FilerEnds, FileLineFiles,
     SaveFiledFiles, RotateFiles, PreconfirmsFiles, PostsFiles, DropsFiles DEF RunnerNext
<1>2. CASE UNCHANGED runnerVars
  BY <1>2, FiledStutter
<1> QED BY <1>1, <1>2 DEF DemoNext, demoVars

\* The runner's invariants, in any run of the parts.
LEMMA RunnerInvariant == DemoSpec => [](RunnerInv /\ FiledInv)
<1>1. DemoInit => RunnerInv /\ FiledInv
  BY RunnerInitInv, FiledInit DEF DemoInit
<1>2. RunnerInv /\ FiledInv /\ [DemoNext]_demoVars => RunnerInv' /\ FiledInv'
  BY RunnerStep, FiledStep
<1> QED BY <1>1, <1>2, PTL DEF DemoSpec

\* For any number of rollups, reports and stops of any process, as long as none
\* of the Mishaps befell the rollup, a filer that got to the end of the log it
\* is in has filed every report of the session's rollup, and each once, wherever
\* the last episode stopped (runner.py, resume, start_operator, file_blocks),
\* but for a preconfirmation that a later version's post replaced when that
\* version's own report was lost.  The Mishaps, all of which can happen, are
\* listed at EveryReportFiled: a restart that forgets --new, reports made
\* before the session has an offset, lines that logrotate empties unfiled,
\* lines that a stale offset passes over, and a session saved over by the
\* thread of an earlier episode.  And OneRollup holds, with its own exception.
THEOREM EpisodesPickUp == DemoSpec => []PicksUpWhereItStopped
<1>1. RunnerInv /\ FiledInv => PicksUpWhereItStopped
  BY RunnerIsOneRollup, FiledIsEveryReport DEF PicksUpWhereItStopped
<1> QED BY <1>1, RunnerInvariant, PTL

-----------------------------------------------------------------------------
(* The RPC: what the chain's blocks sent                                   *)

\* A sequence more.
LEMMA FlatAppend ==
    ASSUME NEW X, NEW ss \in Seq(Seq(X)), NEW tt \in Seq(Seq(X)), Len(tt) = Len(ss) + 1,
           \A k \in 1..Len(ss) : tt[k] = ss[k]
    PROVE  FlattenSeq(tt) = FlattenSeq(ss) \o tt[Len(tt)]
<1> DEFINE n == Len(ss)
<1>1. n \in Nat
  BY LenProperties
<1>2. FlatSteps(FlattenSeq(ss), ss) /\ FlatSteps(FlattenSeq(tt), tt)
  BY FlatIs
<1>3. PICK g : g[0] = <<>> /\ (\A k \in 1..n : g[k] = g[k - 1] \o ss[k]) /\ FlattenSeq(ss) = g[n]
  BY <1>2 DEF FlatSteps
<1>4. PICK h : h[0] = <<>> /\ (\A k \in 1..(n + 1) : h[k] = h[k - 1] \o tt[k]) /\ FlattenSeq(tt) = h[n + 1]
  BY <1>2 DEF FlatSteps
<1>5. \A k \in 1..n : tt[k] = ss[k]
  OBVIOUS
<1>6. Len(tt) = n + 1
  OBVIOUS
<1> HIDE DEF n
<1> DEFINE T == {k \in Nat : k <= n => g[k] = h[k]}
<1>7. 0 \in T
  BY <1>3, <1>4
<1>8. ASSUME NEW k \in Nat, k \in T PROVE k + 1 \in T
  <2> SUFFICES ASSUME k + 1 <= n PROVE g[k + 1] = h[k + 1]
    OBVIOUS
  <2>1. k + 1 \in 1..n /\ k + 1 \in 1..(n + 1) /\ (k + 1) - 1 = k /\ k <= n
    BY <1>1
  <2>2. g[k] = h[k]
    BY <1>8, <2>1
  <2>3. g[k + 1] = g[k] \o ss[k + 1]
    BY <1>3, <2>1
  <2>4. h[k + 1] = h[k] \o tt[k + 1]
    BY <1>4, <2>1
  <2> QED BY <1>5, <2>1, <2>2, <2>3, <2>4
<1> HIDE DEF T
<1>9. Nat \subseteq T
  BY <1>7, <1>8, SetInduction
<1>10. g[n] = h[n]
  BY <1>1, <1>9 DEF T
<1>11. n + 1 \in 1..(n + 1) /\ (n + 1) - 1 = n
  BY <1>1
<1>12. h[n + 1] = h[n] \o tt[n + 1]
  BY <1>4, <1>11
<1> QED BY <1>3, <1>4, <1>6, <1>10, <1>12

\* Blocks, and the messages they send.
Blks == [sends : BOOLEAN, after : Nat]
Logs == [block : Nat, of : Blks]

\* The messages that blocks `m` to `n` of the chain `s` sent.
Told(s, m, n) == FlattenSeq([k \in 1..(n - m + 1) |-> SentIn(s, m + k - 1)])

\* A block sends a message or none.
LEMMA SentIs ==
    ASSUME NEW s \in Seq(Blks), NEW n \in 0..Len(s)
    PROVE  /\ SentIn(s, n) \in Seq(Logs)
           /\ \/ SentIn(s, n) = <<>>
              \/ SentIn(s, n) = <<Log(n, s[n])>> /\ Log(n, s[n]) \in Logs /\ Log(n, s[n]).block = n
<1>1. Len(s) \in Nat /\ n \in Nat
  BY LenProperties
<1>2. n # 0 => s[n] \in Blks
  BY <1>1, ElementOfSeq
<1>3. n # 0 => Log(n, s[n]) \in Logs /\ Log(n, s[n]).block = n
  BY <1>1, <1>2 DEF Log, Logs
<1>4. \A e \in Logs : <<e>> \in Seq(Logs)
  OBVIOUS
<1> QED BY <1>3, <1>4, EmptySeq DEF SentIn, LogsOf

\* What no block sent.
LEMMA ToldNothing == ASSUME NEW s, NEW m \in Int PROVE Told(s, m, m - 1) = <<>>
<1>1. (m - 1) - m + 1 = 0
  OBVIOUS
<1>2. [k \in 1..0 |-> SentIn(s, m + k - 1)] = <<>>
  OBVIOUS
<1>3. FlattenSeq(<<>>) = <<>>
  BY EmptySeq DEF FlattenSeq
<1> QED BY <1>1, <1>2, <1>3 DEF Told

\* What one more block sends.
LEMMA ToldNext ==
    ASSUME NEW s \in Seq(Blks), NEW m \in Nat, NEW n \in Int, m - 1 <= n, n + 1 <= Len(s)
    PROVE  Told(s, m, n + 1) = Told(s, m, n) \o SentIn(s, n + 1)
<1>1. Len(s) \in Nat
  BY LenProperties
<1> DEFINE a == n - m + 1
<1> DEFINE ss == [k \in 1..a |-> SentIn(s, m + k - 1)]
<1> DEFINE tt == [k \in 1..(a + 1) |-> SentIn(s, m + k - 1)]
<1>3. a \in Nat /\ (n + 1) - m + 1 = a + 1
  OBVIOUS
<1>4. \A k \in 1..(a + 1) : m + k - 1 \in 0..Len(s)
  BY <1>1
<1>5. \A k \in 1..(a + 1) : SentIn(s, m + k - 1) \in Seq(Logs)
  BY <1>4, SentIs
<1>6. m + (a + 1) - 1 = n + 1
  OBVIOUS
<1> HIDE DEF a
<1>7. ss \in Seq(Seq(Logs)) /\ tt \in Seq(Seq(Logs)) /\ Len(ss) = a /\ Len(tt) = a + 1
  <2> DEFINE S == Seq(Logs)
  <2>1. \A k \in 1..(a + 1) : SentIn(s, m + k - 1) \in S
    BY <1>5
  <2>2. \A k \in 1..a : k \in 1..(a + 1)
    BY <1>3
  <2> HIDE DEF S
  <2>3. ss \in Seq(S) /\ Len(ss) = a
    <3>1. \A k \in 1..a : SentIn(s, m + k - 1) \in S
      BY <2>1, <2>2
    <3> QED BY <1>3, <3>1
  <2>4. tt \in Seq(S) /\ Len(tt) = a + 1
    <3>1. a + 1 \in Nat
      BY <1>3
    <3> QED BY <2>1, <3>1
  <2> QED BY <2>3, <2>4 DEF S
<1>8. (\A k \in 1..Len(ss) : tt[k] = ss[k]) /\ tt[a + 1] = SentIn(s, n + 1)
  <2>1. \A k \in 1..a : k \in 1..(a + 1)
    BY <1>3
  <2>2. a + 1 \in 1..(a + 1)
    BY <1>3
  <2> QED BY <1>6, <1>7, <2>1, <2>2
<1>9. Told(s, m, n) = FlattenSeq(ss) /\ Told(s, m, n + 1) = FlattenSeq(tt)
  BY <1>3 DEF Told, a
<1> HIDE DEF ss, tt
<1>10. FlattenSeq(tt) = FlattenSeq(ss) \o tt[Len(tt)]
  BY <1>7, <1>8, FlatAppend
<1> QED BY <1>7, <1>8, <1>9, <1>10

\* The genesis sent nothing.
LEMMA ToldGenesis == ASSUME NEW s \in Seq(Blks) PROVE Told(s, 0, 0) = <<>>
<1>1. -1 \in Int /\ 0 - 1 <= -1 /\ -1 + 1 = 0 /\ -1 = 0 - 1 /\ Len(s) \in Nat
  BY LenProperties
<1>2. -1 + 1 <= Len(s)
  BY <1>1
<1>3. Told(s, 0, 0) = Told(s, 0, -1) \o SentIn(s, 0)
  BY <1>1, <1>2, ToldNext
<1>4. Told(s, 0, 0 - 1) = <<>>
  BY ToldNothing
<1>5. SentIn(s, 0) = <<>> /\ <<>> \o <<>> = <<>>
  BY EmptySeq, ConcatEmptySeq DEF SentIn
<1> QED BY <1>1, <1>3, <1>4, <1>5

\* Messages are messages.
LEMMA ToldIsSeq ==
    ASSUME NEW s \in Seq(Blks), NEW m \in Nat, NEW n \in Int, m - 1 <= n, n <= Len(s)
    PROVE  Told(s, m, n) \in Seq(Logs)
<1>1. Len(s) \in Nat
  BY LenProperties
<1> DEFINE T == {k \in Nat : m - 1 + k <= Len(s) => Told(s, m, m - 1 + k) \in Seq(Logs)}
<1>2. 0 \in T
  <2>1. m - 1 + 0 = m - 1
    OBVIOUS
  <2>2. Told(s, m, m - 1) = <<>> /\ <<>> \in Seq(Logs)
    BY ToldNothing, EmptySeq
  <2> QED BY <2>1, <2>2
<1>3. ASSUME NEW k \in Nat, k \in T PROVE k + 1 \in T
  <2> SUFFICES ASSUME m - 1 + (k + 1) <= Len(s) PROVE Told(s, m, m - 1 + (k + 1)) \in Seq(Logs)
    OBVIOUS
  <2> DEFINE j == m - 1 + k
  <2>1. /\ j \in Int /\ m - 1 <= j /\ j + 1 <= Len(s) /\ j + 1 \in 0..Len(s)
        /\ m - 1 + (k + 1) = j + 1 /\ j <= Len(s)
    BY <1>1
  <2>2. Told(s, m, j) \in Seq(Logs)
    BY <1>3, <2>1
  <2> HIDE DEF j
  <2>3. Told(s, m, j + 1) = Told(s, m, j) \o SentIn(s, j + 1)
    BY <2>1, ToldNext
  <2>4. SentIn(s, j + 1) \in Seq(Logs)
    BY <2>1, SentIs
  <2>5. Told(s, m, j) \o SentIn(s, j + 1) \in Seq(Logs)
    BY <2>2, <2>4, ConcatProperties
  <2> QED BY <2>1, <2>3, <2>5
<1> HIDE DEF T
<1>4. Nat \subseteq T
  BY <1>2, <1>3, SetInduction
<1>5. n - (m - 1) \in Nat /\ m - 1 + (n - (m - 1)) = n
  OBVIOUS
<1>6. n - (m - 1) \in T
  BY <1>4, <1>5
<1> QED BY <1>5, <1>6 DEF T

\* Logs put after each other, in whichever order that is done.
LEMMA LogsAssociate ==
    ASSUME NEW A \in Seq(Logs), NEW B \in Seq(Logs), NEW C \in Seq(Logs)
    PROVE  (A \o B) \o C = A \o (B \o C)
BY ConcatAssociative, SMTT(60)

\* The messages of some blocks, and of those after them.
LEMMA ToldConcat ==
    ASSUME NEW s \in Seq(Blks), NEW m \in Nat, NEW n \in Int, NEW p \in Int,
           m - 1 <= n, n <= p, p <= Len(s)
    PROVE  Told(s, m, n) \o Told(s, n + 1, p) = Told(s, m, p)
<1>1. Len(s) \in Nat
  BY LenProperties
<1> DEFINE T == {k \in Nat : n + k <= Len(s) => Told(s, m, n) \o Told(s, n + 1, n + k) = Told(s, m, n + k)}
<1>2. Told(s, m, n) \in Seq(Logs)
  <2>1. n <= Len(s)
    BY <1>1
  <2> QED BY <2>1, ToldIsSeq
<1>3. 0 \in T
  <2>1. n + 1 \in Int /\ (n + 1) - 1 = n /\ n + 0 = n
    OBVIOUS
  <2>2. Told(s, n + 1, n) = <<>>
    BY <2>1, ToldNothing
  <2>3. Told(s, m, n) \o <<>> = Told(s, m, n)
    BY <1>2, ConcatEmptySeq
  <2> QED BY <2>1, <2>2, <2>3
<1>4. ASSUME NEW k \in Nat, k \in T PROVE k + 1 \in T
  <2> SUFFICES ASSUME n + (k + 1) <= Len(s)
               PROVE  Told(s, m, n) \o Told(s, n + 1, n + (k + 1)) = Told(s, m, n + (k + 1))
    OBVIOUS
  <2> DEFINE j == n + k
  <2>1. /\ j \in Int /\ m - 1 <= j /\ (n + 1) - 1 <= j /\ j + 1 <= Len(s) /\ j <= Len(s)
        /\ n + (k + 1) = j + 1 /\ j + 1 \in 0..Len(s) /\ n + 1 \in Nat
    BY <1>1
  <2>2. Told(s, m, n) \o Told(s, n + 1, j) = Told(s, m, j)
    BY <1>4, <2>1
  <2> HIDE DEF j
  <2>3. Told(s, m, j + 1) = Told(s, m, j) \o SentIn(s, j + 1)
    BY <2>1, ToldNext
  <2>4. Told(s, n + 1, j + 1) = Told(s, n + 1, j) \o SentIn(s, j + 1)
    BY <2>1, ToldNext
  <2>5. SentIn(s, j + 1) \in Seq(Logs) /\ Told(s, n + 1, j) \in Seq(Logs)
    BY <2>1, SentIs, ToldIsSeq
  <2>6. (Told(s, m, n) \o Told(s, n + 1, j)) \o SentIn(s, j + 1)
          = Told(s, m, n) \o (Told(s, n + 1, j) \o SentIn(s, j + 1))
    BY <1>2, <2>5, LogsAssociate
  <2> QED BY <2>1, <2>2, <2>3, <2>4, <2>6
<1> HIDE DEF T
<1>5. Nat \subseteq T
  BY <1>3, <1>4, SetInduction
<1>6. p - n \in Nat /\ n + (p - n) = p
  OBVIOUS
<1>7. p - n \in T
  BY <1>5, <1>6
<1> QED BY <1>6, <1>7 DEF T

\* The same blocks send the same.
LEMMA ToldSame ==
    ASSUME NEW s, NEW t, NEW n \in Nat, NEW m \in Nat, \A k \in 1..n : s[k] = t[k]
    PROVE  Told(s, m, n) = Told(t, m, n)
<1>1. ASSUME NEW k \in 1..(n - m + 1) PROVE SentIn(s, m + k - 1) = SentIn(t, m + k - 1)
  <2>1. m + k - 1 = 0 \/ m + k - 1 \in 1..n
    OBVIOUS
  <2> QED BY <2>1 DEF SentIn
<1> QED BY <1>1 DEF Told

\* Choosing messages: from none, and from one more.
LEMMA WithinNext ==
    ASSUME NEW a, NEW b, NEW ms \in Seq(Logs), NEW l \in Logs
    PROVE  /\ Within(<<>>, a, b) = <<>>
           /\ Within(Append(ms, l), a, b) =
                IF l.block \in a..b THEN Append(Within(ms, a, b), l) ELSE Within(ms, a, b)
<1> DEFINE op(r, e) == IF e.block \in a..b THEN Append(r, e) ELSE r
<1>1. FoldIs(Within(<<>>, a, b), op, <<>>, <<>>)
  BY DEF FoldIs, Within
<1>2. FoldIs(Within(ms, a, b), op, <<>>, ms) /\ FoldIs(Within(Append(ms, l), a, b), op, <<>>, Append(ms, l))
  BY DEF FoldIs, Within
<1>3. FoldSteps(Within(<<>>, a, b), op, <<>>, <<>>)
  <2>1. <<>> \in Seq(Logs)
    BY EmptySeq
  <2> QED BY <1>1, <2>1, FoldLeftSteps
<1>4. Within(<<>>, a, b) = <<>>
  <2>1. Len(<<>>) = 0
    BY EmptySeq
  <2> QED BY <1>3, <2>1 DEF FoldSteps
<1>5. FoldAdds(Within(Append(ms, l), a, b), op, Within(ms, a, b), l)
  BY <1>2, FoldLeftAppend
<1> QED BY <1>4, <1>5 DEF FoldAdds

\* The messages of some of the blocks.
LEMMA WithinTold ==
    ASSUME NEW s \in Seq(Blks), NEW n \in 0..Len(s), NEW a \in Nat, NEW b \in Int
    PROVE  Within(Told(s, 0, n), a, b) =
             IF n < a \/ b < a THEN <<>> ELSE Told(s, a, IF b < n THEN b ELSE n)
<1>1. Len(s) \in Nat
  BY LenProperties
<1> DEFINE Right(k) == IF k < a \/ b < a THEN <<>> ELSE Told(s, a, IF b < k THEN b ELSE k)
<1> DEFINE T == {k \in Nat : k <= Len(s) => Within(Told(s, 0, k), a, b) = Right(k)}
<1>3. ASSUME NEW k \in Int PROVE Told(s, k + 1, k) = <<>>
  <2>1. k + 1 \in Int /\ (k + 1) - 1 = k
    OBVIOUS
  <2>2. Told(s, k + 1, (k + 1) - 1) = <<>>
    BY <2>1, ToldNothing
  <2> QED BY <2>1, <2>2
<1>4. 0 \in T
  <2>1. Told(s, 0, 0) = <<>>
    BY ToldGenesis
  <2>2. Within(<<>>, a, b) = <<>>
    <3>1. [block |-> 0, of |-> [sends |-> TRUE, after |-> 0]] \in Logs
      BY DEF Logs, Blks
    <3>2. <<>> \in Seq(Logs)
      BY EmptySeq
    <3> QED BY <3>1, <3>2, WithinNext
  <2>3. Right(0) = <<>>
    <3>1. ~(0 < a \/ b < a) => a = 0 /\ (IF b < 0 THEN b ELSE 0) = 0
      OBVIOUS
    <3> QED BY <2>1, <3>1
  <2> HIDE DEF Right
  <2> QED BY <2>1, <2>2, <2>3
<1>5. ASSUME NEW k \in Nat, k \in T PROVE k + 1 \in T
  <2> SUFFICES ASSUME k + 1 <= Len(s) PROVE Within(Told(s, 0, k + 1), a, b) = Right(k + 1)
    OBVIOUS
  <2>1. k \in Int /\ 0 - 1 <= k /\ k <= Len(s) /\ k + 1 \in 0..Len(s)
    BY <1>1
  <2>2. Within(Told(s, 0, k), a, b) = Right(k)
    BY <1>5, <2>1
  <2>3. Told(s, 0, k + 1) = Told(s, 0, k) \o SentIn(s, k + 1)
    BY <2>1, ToldNext
  <2>4. Told(s, 0, k) \in Seq(Logs)
    BY <2>1, ToldIsSeq
  <2> DEFINE x == SentIn(s, k + 1)
  <2>5. Within(Told(s, 0, k + 1), a, b) = IF k + 1 \in a..b THEN Right(k) \o x ELSE Right(k)
    <3>1. Right(k) \in Seq(Logs)
      <4>1. CASE k < a \/ b < a
        BY <4>1, EmptySeq
      <4>2. CASE ~(k < a \/ b < a)
        <5> DEFINE e == IF b < k THEN b ELSE k
        <5>1. e \in Int /\ a - 1 <= e /\ e <= Len(s)
          BY <2>1, <4>2
        <5> HIDE DEF e
        <5>2. Told(s, a, e) \in Seq(Logs)
          BY <5>1, ToldIsSeq
        <5> QED BY <4>2, <5>2 DEF e
      <4> QED BY <4>1, <4>2
    <3> HIDE DEF Right
    <3>2. CASE x = <<>>
      <4>1. Told(s, 0, k) \o <<>> = Told(s, 0, k) /\ Right(k) \o <<>> = Right(k)
        BY <2>4, <3>1, ConcatEmptySeq
      <4> QED BY <2>2, <2>3, <3>2, <4>1
    <3>3. CASE x # <<>>
      <4> DEFINE l == Log(k + 1, s[k + 1])
      <4>1. x = <<l>> /\ l \in Logs /\ l.block = k + 1
        BY <2>1, <3>3, SentIs
      <4> HIDE DEF l, x
      <4>2. Told(s, 0, k) \o <<l>> = Append(Told(s, 0, k), l)
        BY <2>4, <4>1, AppendIsConcat
      <4>3. Right(k) \o <<l>> = Append(Right(k), l)
        BY <3>1, <4>1, AppendIsConcat
      <4>4. Within(Append(Told(s, 0, k), l), a, b) =
              IF l.block \in a..b THEN Append(Right(k), l) ELSE Right(k)
        <5>1. PICK ms \in Seq(Logs) : ms = Told(s, 0, k)
          BY <2>4
        <5>2. Within(Append(ms, l), a, b) =
                IF l.block \in a..b THEN Append(Within(ms, a, b), l) ELSE Within(ms, a, b)
          <6>1. l \in Logs
            BY <4>1
          <6> QED BY <5>1, <6>1, WithinNext
        <5> QED BY <2>2, <5>1, <5>2
      <4>5. Told(s, 0, k + 1) = Told(s, 0, k) \o x
        BY <2>3 DEF x
      <4> QED BY <4>1, <4>2, <4>3, <4>4, <4>5
    <3> QED BY <3>2, <3>3
  <2>6. CASE k + 1 < a \/ b < a \/ b < k + 1
    <3>1. Right(k + 1) = Right(k)
      <4>1. (k + 1 < a \/ b < a) => (k < a \/ b < a)
        OBVIOUS
      <4>2. ~(k + 1 < a \/ b < a) => ~(k < a \/ b < a) /\ (IF b < k + 1 THEN b ELSE k + 1) = (IF b < k THEN b ELSE k)
        BY <2>6
      <4> QED BY <4>1, <4>2
    <3>2. ~(k + 1 \in a..b)
      BY <2>6
    <3> HIDE DEF Right
    <3> QED BY <2>5, <3>1, <3>2
  <2>7. CASE ~(k + 1 < a \/ b < a \/ b < k + 1)
    <3>1. k + 1 \in a..b
      BY <2>7
    <3>2. Right(k + 1) = Told(s, a, k + 1)
      BY <2>7
    <3>3. a - 1 <= k
      BY <2>7
    <3>4. Told(s, a, k + 1) = Told(s, a, k) \o x
      BY <2>1, <3>3, ToldNext
    <3>5. Right(k) = Told(s, a, k)
      <4>1. CASE a = k + 1
        <5>1. k < a
          BY <4>1
        <5> QED BY <1>3, <4>1, <5>1
      <4>2. CASE a # k + 1
        <5>1. ~(k < a \/ b < a) /\ (IF b < k THEN b ELSE k) = k
          BY <2>7, <3>3, <4>2
        <5> QED BY <5>1
      <4> QED BY <4>1, <4>2
    <3> HIDE DEF Right, x
    <3> QED BY <2>5, <3>1, <3>2, <3>4, <3>5
  <2> QED BY <2>6, <2>7
<1> HIDE DEF T
<1>6. Nat \subseteq T
  BY <1>4, <1>5, SetInduction
<1>7. n \in T /\ n <= Len(s)
  BY <1>1, <1>6
<1> QED BY <1>7 DEF T

-----------------------------------------------------------------------------
(* The RPC: its memory                                                     *)

\* A transaction of a block, in memory.
Entries == [hash : [number : Nat, sends : BOOLEAN], logs : Seq(Logs)]

\* The block `n` of the chain `s`, with its logs.
Full(s, n) == IF n = 0 THEN <<>> ELSE <<[hash |-> TxHash(n, s[n]), logs |-> LogsOf(n, s[n])]>>

MemoryFields == {"first", "blocks", "logsFrom", "messages", "transactions"}

\* The memory `m` is of the first `n` blocks of the chain `s`: all blocks
\* from the first with logs on, all messages, and of the transactions at
\* most those of these blocks.
MemoryOf(m, s, n) ==
    /\ DOMAIN m = MemoryFields
    /\ m.first \in 0..n /\ m.logsFrom \in m.first..(n + 1)
    /\ m.blocks \in Seq(Seq(Entries)) /\ Len(m.blocks) = n - m.first + 1
    /\ \A k \in m.logsFrom..n : m.blocks[k - m.first + 1] = Full(s, k)
    /\ m.messages = Told(s, 0, n)
    /\ \A t \in m.transactions :
          /\ t.number \in m.logsFrom..n /\ t.number # 0
          /\ t.hash = TxHash(t.number, s[t.number])

\* A block as the memory has it.
LEMMA FullIs ==
    ASSUME NEW s \in Seq(Blks), NEW n \in 0..Len(s)
    PROVE  Full(s, n) \in Seq(Entries)
<1>1. Len(s) \in Nat /\ n \in Nat
  BY LenProperties
<1>2. CASE n = 0
  BY <1>2, EmptySeq DEF Full
<1>3. CASE n # 0
  <2>1. s[n] \in Blks
    BY <1>1, <1>3, ElementOfSeq
  <2>2. TxHash(n, s[n]) \in [number : Nat, sends : BOOLEAN]
    BY <1>1, <2>1 DEF TxHash, Blks
  <2>3. LogsOf(n, s[n]) \in Seq(Logs)
    BY <1>3, SentIs DEF SentIn
  <2>4. [hash |-> TxHash(n, s[n]), logs |-> LogsOf(n, s[n])] \in Entries
    BY <2>2, <2>3 DEF Entries
  <2> QED BY <1>3, <2>4 DEF Full
<1> QED BY <1>2, <1>3

\* The same chain up to block `n`.
LEMMA MemorySame ==
    ASSUME NEW s, NEW t, NEW n \in Nat, \A k \in 1..n : s[k] = t[k], NEW m, MemoryOf(m, s, n)
    PROVE  MemoryOf(m, t, n)
<1>1. Told(s, 0, n) = Told(t, 0, n)
  BY ToldSame
<1>2. m.first \in Nat /\ m.logsFrom \in Nat
  BY DEF MemoryOf
<1>3. ASSUME NEW k \in m.logsFrom..n PROVE Full(s, k) = Full(t, k) /\ (k # 0 => s[k] = t[k])
  <2>1. k = 0 \/ k \in 1..n
    BY <1>2
  <2> QED BY <2>1 DEF Full
<1> QED BY <1>1, <1>3 DEF MemoryOf

\* At the genesis.
LEMMA GenesisMemory ==
    ASSUME NEW s \in Seq(Blks)
    PROVE  MemoryOf(IndexHeader(EmptyMemory), s, 0) /\ IndexHeader(EmptyMemory).first = 0
<1> DEFINE m == IndexHeader(EmptyMemory)
<1>1. Append(<<>>, <<>>) = << <<>> >>
  OBVIOUS
<1>2. /\ DOMAIN m = MemoryFields
      /\ m.first = 0 /\ m.logsFrom = 0 /\ m.blocks = << <<>> >> /\ m.messages = <<>> /\ m.transactions = {}
  BY <1>1 DEF IndexHeader, EmptyMemory, MemoryFields
<1>3. << <<>> >> \in Seq(Seq(Entries)) /\ Len(<< <<>> >>) = 1
  <2>1. <<>> \in Seq(Entries)
    BY EmptySeq
  <2> QED BY <2>1
<1>4. Told(s, 0, 0) = <<>>
  BY ToldGenesis
<1>5. Full(s, 0) = <<>>
  BY DEF Full
<1> HIDE DEF m
<1> QED BY <1>2, <1>3, <1>4, <1>5 DEF MemoryOf, m

\* A memory with one more block.
LEMMA IndexIs ==
    ASSUME NEW s \in Seq(Blks), NEW n \in Nat, n + 1 <= Len(s), NEW m, MemoryOf(m, s, n)
    PROVE  MemoryOf(Index(m, n + 1, s[n + 1]), s, n + 1) /\ Index(m, n + 1, s[n + 1]).first = m.first
<1> DEFINE b == s[n + 1]
<1> DEFINE r == Index(m, n + 1, b)
<1> DEFINE e == [hash |-> TxHash(n + 1, b), logs |-> LogsOf(n + 1, b)]
<1>1. n + 1 \in 0..Len(s) /\ n + 1 # 0 /\ Len(s) \in Nat
  BY LenProperties
<1>2. Full(s, n + 1) = <<e>> /\ SentIn(s, n + 1) = LogsOf(n + 1, b)
  BY <1>1 DEF Full, SentIn
<1>3. /\ DOMAIN r = MemoryFields
      /\ r.first = m.first /\ r.logsFrom = m.logsFrom
      /\ r.blocks = Append(m.blocks, <<e>>)
      /\ r.messages = m.messages \o LogsOf(n + 1, b)
      /\ r.transactions = {t \in m.transactions : t.hash # TxHash(n + 1, b)}
                             \cup {[hash |-> TxHash(n + 1, b), number |-> n + 1]}
  BY DEF Index, MemoryOf, MemoryFields
<1> HIDE DEF r, e
<1>4. m.first \in 0..n /\ m.logsFrom \in m.first..(n + 1) /\ m.blocks \in Seq(Seq(Entries))
      /\ Len(m.blocks) = n - m.first + 1
  BY DEF MemoryOf
<1>5. <<e>> \in Seq(Entries)
  BY <1>1, <1>2, FullIs
<1>13. r.first = m.first /\ r.logsFrom = m.logsFrom /\ r.blocks = Append(m.blocks, <<e>>)
  BY <1>3
<1>14. m.first \in Int /\ m.logsFrom \in Int /\ m.first <= m.logsFrom
      /\ Len(m.blocks) = n - m.first + 1 /\ Len(m.blocks) + 1 = (n + 1) - m.first + 1
  <2>1. PICK o \in 0..n : o = m.first
    BY <1>4
  <2>2. PICK f \in o..(n + 1) : f = m.logsFrom
    BY <1>4, <2>1
  <2>3. Len(m.blocks) = n - o + 1
    BY <1>4, <2>1
  <2>4. o \in Int /\ f \in Int /\ o <= f /\ (n - o + 1) + 1 = (n + 1) - o + 1
    OBVIOUS
  <2> QED BY <2>1, <2>2, <2>3, <2>4
<1>6. /\ r.blocks \in Seq(Seq(Entries)) /\ Len(r.blocks) = (n + 1) - r.first + 1
      /\ \A k \in 1..Len(m.blocks) : r.blocks[k] = m.blocks[k]
      /\ r.blocks[Len(m.blocks) + 1] = <<e>>
  <2> DEFINE S == Seq(Entries)
  <2>1. <<e>> \in S /\ m.blocks \in Seq(S)
    BY <1>4, <1>5
  <2> HIDE DEF S
  <2>2. /\ Append(m.blocks, <<e>>) \in Seq(S) /\ Len(Append(m.blocks, <<e>>)) = Len(m.blocks) + 1
        /\ \A k \in 1..Len(m.blocks) : Append(m.blocks, <<e>>)[k] = m.blocks[k]
        /\ Append(m.blocks, <<e>>)[Len(m.blocks) + 1] = <<e>>
    BY <2>1, AppendProperties
  <2>3. Len(r.blocks) = (n + 1) - r.first + 1
    BY <1>13, <1>14, <2>2
  <2>4. r.blocks \in Seq(S)
    BY <1>13, <2>2
  <2> QED BY <1>13, <2>2, <2>3, <2>4 DEF S
<1>7. ASSUME NEW k \in r.logsFrom..(n + 1) PROVE r.blocks[k - r.first + 1] = Full(s, k)
  <2>1. CASE k = n + 1
    <3>1. k - r.first + 1 = Len(m.blocks) + 1
      BY <1>13, <1>14, <2>1
    <3> QED BY <1>2, <1>6, <2>1, <3>1
  <2>2. CASE k # n + 1
    <3>1. k \in m.logsFrom..n /\ k - m.first + 1 \in 1..Len(m.blocks) /\ r.first = m.first
      <4>1. k \in m.logsFrom..(n + 1)
        BY <1>13
      <4>2. k \in Int /\ m.logsFrom <= k /\ k <= n
        BY <1>14, <2>2, <4>1
      <4>3. PICK o \in Int : o = m.first
        BY <1>14
      <4>4. o <= k
        BY <1>14, <4>2, <4>3
      <4>5. k - o + 1 \in 1..(n - o + 1)
        BY <4>2, <4>4
      <4> QED BY <1>13, <1>14, <4>2, <4>3, <4>5
    <3>2. m.blocks[k - m.first + 1] = Full(s, k)
      BY <3>1 DEF MemoryOf
    <3> QED BY <1>6, <3>1, <3>2
  <2> QED BY <2>1, <2>2
<1>8. r.messages = Told(s, 0, n + 1)
  <2>1. n \in Int /\ 0 - 1 <= n
    OBVIOUS
  <2>2. Told(s, 0, n + 1) = Told(s, 0, n) \o SentIn(s, n + 1)
    BY <2>1, ToldNext
  <2>3. m.messages = Told(s, 0, n)
    BY DEF MemoryOf
  <2> QED BY <1>2, <1>3, <2>2, <2>3
<1>9. ASSUME NEW t \in r.transactions
      PROVE  t.number \in r.logsFrom..(n + 1) /\ t.number # 0 /\ t.hash = TxHash(t.number, s[t.number])
  <2>1. CASE t \in m.transactions
    <3>1. t.number \in m.logsFrom..n /\ t.number # 0 /\ t.hash = TxHash(t.number, s[t.number])
      BY <2>1 DEF MemoryOf
    <3> QED BY <1>3, <1>4, <3>1
  <2>2. CASE t = [hash |-> TxHash(n + 1, b), number |-> n + 1]
    BY <1>1, <1>3, <1>4, <2>2
  <2> QED BY <1>3, <2>1, <2>2
<1>10. r.first \in 0..(n + 1) /\ r.logsFrom \in r.first..((n + 1) + 1) /\ r.first = m.first
  BY <1>3, <1>4
<1>11. MemoryOf(r, s, n + 1)
  BY <1>3, <1>6, <1>7, <1>8, <1>9, <1>10 DEF MemoryOf
<1> QED BY <1>10, <1>11 DEF r

\* The smaller of two numbers.
LEMMA MinOfTwo == ASSUME NEW a \in Int, NEW b \in Int PROVE Min({a, b}) = IF b < a THEN b ELSE a
<1>1. \E x \in {a, b} : \A y \in {a, b} : x <= y
  OBVIOUS
<1>2. Min({a, b}) \in {a, b} /\ \A y \in {a, b} : Min({a, b}) <= y
  BY <1>1 DEF Min
<1> QED BY <1>2

\* The oldest blocks leave the memory.
LEMMA PruneIs ==
    ASSUME NEW s, NEW n \in Nat, NEW m, MemoryOf(m, s, n), NEW drop \in 0..(n - m.first)
    PROVE  MemoryOf(Prune(m, drop), s, n) /\ Prune(m, drop).first = m.first + drop
<1> DEFINE r == Prune(m, drop)
<1>1. /\ m.first \in Nat /\ m.first <= n /\ m.logsFrom \in Nat /\ m.first <= m.logsFrom /\ m.logsFrom <= n + 1
  BY DEF MemoryOf
<1>11. m.blocks \in Seq(Seq(Entries)) /\ Len(m.blocks) = n - m.first + 1
  BY DEF MemoryOf
<1>2. /\ DOMAIN r = MemoryFields
      /\ r.first = m.first + drop
      /\ r.logsFrom = Max({m.logsFrom, m.first + drop})
      /\ r.blocks = SubSeq(m.blocks, drop + 1, Len(m.blocks))
      /\ r.messages = m.messages
      /\ r.transactions = {t \in m.transactions : \A i \in 1..drop : \A e \in ToSet(m.blocks[i]) : e.hash # t.hash}
  BY DEF Prune, MemoryOf, MemoryFields
<1> HIDE DEF r
<1>3. r.first = m.first + drop /\ r.first \in 0..n /\ drop \in Nat
  BY <1>1, <1>2
<1>4. r.logsFrom = IF m.logsFrom < m.first + drop THEN m.first + drop ELSE m.logsFrom
  <2>1. m.first + drop \in Int /\ m.logsFrom \in Int
    BY <1>1
  <2>2. Max({m.logsFrom, m.first + drop}) = IF m.logsFrom < m.first + drop THEN m.first + drop ELSE m.logsFrom
    BY <2>1, MaxOfTwo
  <2> QED BY <1>2, <2>2
<1>5. r.logsFrom \in r.first..(n + 1)
  BY <1>1, <1>3, <1>4
<1>6. /\ r.blocks \in Seq(Seq(Entries)) /\ Len(r.blocks) = n - r.first + 1
      /\ \A i \in 1..(n - r.first + 1) : r.blocks[i] = m.blocks[drop + i]
  <2> DEFINE S == Seq(Entries)
  <2> DEFINE bs == m.blocks
  <2> DEFINE l == Len(bs)
  <2>1. l \in Nat /\ drop + 1 \in Int /\ drop + 1 <= l /\ l - (drop + 1) + 1 = n - r.first + 1
    <3>1. l = n - m.first + 1
      BY <1>11
    <3> HIDE DEF l
    <3> QED BY <1>1, <1>3, <3>1
  <2>2. \A i \in 1..l : bs[i] \in S
    BY <1>11, ElementOfSeq
  <2>3. \A i \in (drop + 1)..l : bs[i] \in S
    BY <1>3, <2>2
  <2>4. r.blocks = SubSeq(bs, drop + 1, l)
    BY <1>2
  <2> HIDE DEF S, bs, l
  <2>5. /\ SubSeq(bs, drop + 1, l) \in Seq(S)
        /\ Len(SubSeq(bs, drop + 1, l)) = l - (drop + 1) + 1
        /\ \A i \in 1..(l - (drop + 1) + 1) : SubSeq(bs, drop + 1, l)[i] = bs[(drop + 1) + i - 1]
    BY <2>1, <2>3, SubSeqProperties
  <2>6. \A i \in Int : (drop + 1) + i - 1 = drop + i
    BY <1>3
  <2>7. \A i \in 1..(n - r.first + 1) : r.blocks[i] = bs[drop + i]
    BY <2>1, <2>4, <2>5, <2>6
  <2> QED BY <2>1, <2>4, <2>5, <2>7 DEF S, bs
<1>7. ASSUME NEW k \in r.logsFrom..n PROVE r.blocks[k - r.first + 1] = Full(s, k)
  <2>1. k \in Int /\ m.logsFrom <= k /\ r.first <= k /\ k <= n
    BY <1>1, <1>3, <1>4
  <2>2. k \in m.logsFrom..n
    BY <1>1, <2>1
  <2>3. k - r.first + 1 \in 1..(n - r.first + 1) /\ drop + (k - r.first + 1) = k - m.first + 1
    <3> DEFINE f == r.first
    <3> DEFINE o == m.first
    <3>1. f = o + drop /\ o \in Int /\ drop \in Int /\ f <= k /\ k <= n
      BY <1>1, <1>3, <2>1
    <3> HIDE DEF f, o
    <3>2. k - f + 1 \in 1..(n - f + 1) /\ drop + (k - f + 1) = k - o + 1
      BY <2>1, <3>1
    <3> QED BY <3>2 DEF f, o
  <2>4. m.blocks[k - m.first + 1] = Full(s, k)
    BY <2>2 DEF MemoryOf
  <2> QED BY <1>6, <2>3, <2>4
<1>8. ASSUME NEW t \in r.transactions
      PROVE  t.number \in r.logsFrom..n /\ t.number # 0 /\ t.hash = TxHash(t.number, s[t.number])
  <2>1. t \in m.transactions /\ \A i \in 1..drop : \A e \in ToSet(m.blocks[i]) : e.hash # t.hash
    BY <1>2
  <2>2. t.number \in m.logsFrom..n /\ t.number # 0 /\ t.hash = TxHash(t.number, s[t.number])
    BY <2>1 DEF MemoryOf
  <2>3. m.first + drop <= t.number
    <3> SUFFICES ASSUME t.number < m.first + drop PROVE FALSE
      BY <1>1, <2>2
    <3> DEFINE i == t.number - m.first + 1
    <3> DEFINE e == [hash |-> TxHash(t.number, s[t.number]), logs |-> LogsOf(t.number, s[t.number])]
    <3>1. i \in 1..drop
      BY <1>1, <1>3, <2>2
    <3>2. m.blocks[i] = <<e>>
      <4>1. m.blocks[i] = Full(s, t.number)
        BY <2>2 DEF MemoryOf
      <4> QED BY <2>2, <4>1 DEF Full
    <3>3. e.hash = t.hash
      BY <2>2
    <3> HIDE DEF e, i
    <3>4. e \in ToSet(m.blocks[i])
      <4>1. DOMAIN <<e>> = {1} /\ <<e>>[1] = e
        OBVIOUS
      <4> QED BY <3>2, <4>1 DEF ToSet
    <3> QED BY <2>1, <3>1, <3>3, <3>4
  <2> QED BY <1>1, <1>4, <2>2, <2>3
<1>9. r.messages = Told(s, 0, n)
  BY <1>2 DEF MemoryOf
<1>10. MemoryOf(r, s, n)
  <2>1. DOMAIN r = MemoryFields
    BY <1>2
  <2> QED BY <1>3, <1>5, <1>6, <1>7, <1>8, <1>9, <2>1 DEF MemoryOf
<1> QED BY <1>3, <1>10 DEF r

\* What a snapshot has of the chain `s`.
SnapshotOf(sn, s) ==
    /\ sn.number \in 1..Len(s)
    /\ sn.first \in 0..sn.number
    /\ sn.messages = Told(s, 0, sn.number)

\* A memory with headers only.
HeadersOnly(m, first, n) ==
    /\ DOMAIN m = MemoryFields
    /\ m.first = first /\ m.transactions = {}
    /\ m.blocks \in Seq(Seq(Entries)) /\ Len(m.blocks) = n

\* A header more.
LEMMA IndexHeaderIs ==
    ASSUME NEW m, NEW first, NEW n \in Nat, HeadersOnly(m, first, n)
    PROVE  HeadersOnly(IndexHeader(m), first, n + 1)
<1> DEFINE S == Seq(Entries)
<1>1. <<>> \in S
  BY EmptySeq
<1>2. m.blocks \in Seq(S) /\ Len(m.blocks) = n
  BY DEF HeadersOnly
<1> HIDE DEF S
<1>3. Append(m.blocks, <<>>) \in Seq(S) /\ Len(Append(m.blocks, <<>>)) = n + 1
  BY <1>1, <1>2, AppendProperties
<1>4. /\ DOMAIN IndexHeader(m) = MemoryFields /\ IndexHeader(m).first = first
      /\ IndexHeader(m).transactions = {} /\ IndexHeader(m).blocks = Append(m.blocks, <<>>)
  BY DEF IndexHeader, HeadersOnly, MemoryFields
<1> QED BY <1>3, <1>4 DEF HeadersOnly, S

\* What the node starts from is the chain up to its snapshot.
LEMMA LoadIs ==
    ASSUME NEW s \in Seq(Blks), NEW sn, SnapshotOf(sn, s)
    PROVE  MemoryOf(LoadSnapshot(sn), s, sn.number) /\ LoadSnapshot(sn).first = sn.first
<1>1. /\ Len(s) \in Nat /\ sn.number \in Nat /\ sn.number # 0 /\ sn.number <= Len(s)
      /\ sn.first \in Nat /\ sn.first <= sn.number
  BY LenProperties DEF SnapshotOf
<1> DEFINE c == sn.number - sn.first + 1
<1> DEFINE op(m, k) == IndexHeader(m)
<1> DEFINE base == [EmptyMemory EXCEPT !.first = sn.first]
<1> DEFINE ks == [k \in 1..c |-> k]
<1> DEFINE r == FoldLeft(op, base, ks)
<1>2. c \in Nat
  BY <1>1
<1>3. HeadersOnly(base, sn.first, 0)
  <2>1. <<>> \in Seq(Seq(Entries)) /\ Len(<<>>) = 0
    BY EmptySeq
  <2>2. /\ DOMAIN base = MemoryFields /\ base.first = sn.first
        /\ base.transactions = {} /\ base.blocks = <<>>
    BY DEF EmptyMemory, MemoryFields
  <2> QED BY <2>1, <2>2 DEF HeadersOnly
<1>4. ks \in Seq(Nat) /\ Len(ks) = c
  <2> HIDE DEF c
  <2> QED BY <1>2
<1>5. FoldIs(r, op, base, ks)
  BY DEF FoldIs
<1>6. LoadSnapshot(sn) = [r EXCEPT !.messages = sn.messages, !.logsFrom = sn.number + 1]
  BY DEF LoadSnapshot
<1> HIDE DEF base, ks, r
<1>7. FoldSteps(r, op, base, ks)
  BY <1>4, <1>5, FoldLeftSteps
<1>8. PICK g : g[0] = base /\ (\A k \in 1..c : g[k] = IndexHeader(g[k - 1])) /\ r = g[c]
  BY <1>4, <1>7 DEF FoldSteps
<1> HIDE DEF c
<1> DEFINE T == {k \in Nat : k <= c => HeadersOnly(g[k], sn.first, k)}
<1>9. 0 \in T
  BY <1>3, <1>8
<1>10. ASSUME NEW k \in Nat, k \in T PROVE k + 1 \in T
  <2> SUFFICES ASSUME k + 1 <= c PROVE HeadersOnly(g[k + 1], sn.first, k + 1)
    OBVIOUS
  <2>1. k <= c /\ k + 1 \in 1..c /\ (k + 1) - 1 = k
    BY <1>2
  <2>2. HeadersOnly(g[k], sn.first, k)
    BY <1>10, <2>1
  <2>3. g[k + 1] = IndexHeader(g[k])
    BY <1>8, <2>1
  <2> QED BY <2>2, <2>3, IndexHeaderIs
<1> HIDE DEF T
<1>11. Nat \subseteq T
  BY <1>9, <1>10, SetInduction
<1>12. HeadersOnly(r, sn.first, c)
  BY <1>2, <1>8, <1>11 DEF T
<1> DEFINE m == LoadSnapshot(sn)
<1>13. /\ DOMAIN m = MemoryFields /\ m.first = sn.first /\ m.logsFrom = sn.number + 1
       /\ m.blocks = r.blocks /\ m.messages = sn.messages /\ m.transactions = {}
  BY <1>6, <1>12 DEF HeadersOnly, MemoryFields
<1> HIDE DEF m
<1>14. m.blocks \in Seq(Seq(Entries)) /\ Len(m.blocks) = sn.number - m.first + 1
  BY <1>12, <1>13 DEF HeadersOnly, c
<1>15. m.first \in 0..sn.number /\ m.logsFrom \in m.first..(sn.number + 1)
  BY <1>1, <1>13
<1>16. m.logsFrom..sn.number = {}
  BY <1>1, <1>13
<1>17. m.messages = Told(s, 0, sn.number)
  BY <1>13 DEF SnapshotOf
<1>18. MemoryOf(m, s, sn.number)
  BY <1>13, <1>14, <1>15, <1>16, <1>17 DEF MemoryOf
<1> QED BY <1>13, <1>18 DEF m

\* The blocks after a snapshot are added one by one.
LEMMA ReplayIs ==
    ASSUME NEW s \in Seq(Blks), NEW from \in 0..Len(s), NEW start, MemoryOf(start, s, from)
    PROVE  MemoryOf(Replayed(s, start, from), s, Len(s)) /\ Replayed(s, start, from).first = start.first
<1> DEFINE r == Replayed(s, start, from)
<1> DEFINE c == Len(s) - from
<1> DEFINE ks == [k \in 1..c |-> from + k]
<1> DEFINE op(m, k) == Index(m, k, s[k])
<1>1. Len(s) \in Nat /\ from \in Nat /\ c \in Nat /\ from + c = Len(s)
  BY LenProperties
<1>2. FoldIs(r, op, start, ks)
  BY DEF FoldIs, Replayed
<1> HIDE DEF c, r
<1>3. ks \in Seq(Nat) /\ Len(ks) = c /\ \A k \in 1..c : ks[k] = from + k
  <2>1. \A k \in 1..c : from + k \in Nat
    BY <1>1
  <2> QED BY <1>1, <2>1
<1> HIDE DEF ks
<1>4. FoldSteps(r, op, start, ks)
  BY <1>2, <1>3, FoldLeftSteps
<1>5. PICK g : g[0] = start /\ (\A k \in 1..c : g[k] = Index(g[k - 1], ks[k], s[ks[k]])) /\ r = g[c]
  BY <1>3, <1>4 DEF FoldSteps
<1> DEFINE T == {k \in Nat : k <= c => MemoryOf(g[k], s, from + k) /\ g[k].first = start.first}
<1>6. 0 \in T
  <2>1. from + 0 = from
    BY <1>1
  <2> QED BY <1>5, <2>1
<1>7. ASSUME NEW k \in Nat, k \in T PROVE k + 1 \in T
  <2> SUFFICES ASSUME k + 1 <= c PROVE MemoryOf(g[k + 1], s, from + (k + 1)) /\ g[k + 1].first = start.first
    OBVIOUS
  <2> DEFINE n == from + k
  <2>1. /\ k <= c /\ k + 1 \in 1..c /\ (k + 1) - 1 = k /\ from + (k + 1) = n + 1
        /\ n \in Nat /\ n + 1 <= Len(s)
    BY <1>1
  <2>2. MemoryOf(g[k], s, n) /\ g[k].first = start.first
    BY <1>7, <2>1
  <2>3. g[k + 1] = Index(g[k], n + 1, s[n + 1])
    BY <1>3, <1>5, <2>1
  <2> HIDE DEF n
  <2>4. MemoryOf(Index(g[k], n + 1, s[n + 1]), s, n + 1) /\ Index(g[k], n + 1, s[n + 1]).first = g[k].first
    BY <2>1, <2>2, IndexIs
  <2> QED BY <2>1, <2>2, <2>3, <2>4
<1> HIDE DEF T
<1>8. Nat \subseteq T
  BY <1>6, <1>7, SetInduction
<1>9. MemoryOf(g[c], s, from + c) /\ g[c].first = start.first
  BY <1>1, <1>8 DEF T
<1> QED BY <1>1, <1>5, <1>9 DEF r

-----------------------------------------------------------------------------
(* The RPC: its answers                                                    *)

\* The logs of blocks one after the other.
LogsIn(bs) == FlattenSeq([i \in DOMAIN bs |-> FlattenSeq([j \in DOMAIN bs[i] |-> bs[i][j].logs])])

\* The blocks in memory from `start` on, one after the other, answer with
\* what the chain sent.
LEMMA RecentAre ==
    ASSUME NEW s \in Seq(Blks), NEW m, MemoryOf(m, s, Len(s)),
           NEW start \in m.logsFrom..Len(s), NEW to \in start..Len(s)
    PROVE  LogsIn(SubSeq(m.blocks, start - m.first + 1, to - m.first + 1)) = Told(s, start, to)
<1> DEFINE recent == SubSeq(m.blocks, start - m.first + 1, to - m.first + 1)
<1> DEFINE o == m.first
<1> DEFINE n == to - start + 1
<1>1. /\ Len(s) \in Nat /\ o \in Nat /\ m.logsFrom \in Nat /\ o <= m.logsFrom
      /\ start \in Nat /\ to \in Nat /\ m.logsFrom <= start /\ start <= to /\ to <= Len(s)
  BY LenProperties DEF MemoryOf
<1>2. Len(m.blocks) = Len(s) - o + 1 /\ m.blocks \in Seq(Seq(Entries))
  BY DEF MemoryOf
<1>3. /\ recent \in Seq(Seq(Entries)) /\ Len(recent) = n
      /\ \A i \in 1..n : recent[i] = m.blocks[start - o + i]
  <2> DEFINE S == Seq(Entries)
  <2> DEFINE bs == m.blocks
  <2> DEFINE a == start - o + 1
  <2> DEFINE b == to - o + 1
  <2>1. \A i \in 1..(Len(s) - o + 1) : bs[i] \in S
    BY <1>2, ElementOfSeq
  <2>2. a \in Int /\ b \in Int /\ a <= b /\ b - a + 1 = n /\ 1 <= a /\ b <= Len(s) - o + 1
    <3> DEFINE l == Len(s)
    <3> DEFINE f == m.logsFrom
    <3> HIDE DEF o, l, f
    <3>1. /\ l \in Nat /\ o \in Nat /\ f \in Nat /\ o <= f
          /\ start \in Nat /\ to \in Nat /\ f <= start /\ start <= to /\ to <= l
      BY <1>1 DEF o, l, f
    <3>2. a \in Int /\ b \in Int /\ a <= b /\ b - a + 1 = n /\ 1 <= a /\ b <= l - o + 1
      BY <3>1
    <3> QED BY <3>2 DEF l
  <2>3. \A i \in 1..n : a + i - 1 = start - o + i
    BY <1>1
  <2>4. recent = SubSeq(bs, a, b)
    OBVIOUS
  <2> HIDE DEF S, bs, a, b, n, recent
  <2>5. \A i \in a..b : bs[i] \in S
    BY <1>1, <2>1, <2>2
  <2>6. /\ SubSeq(bs, a, b) \in Seq(S) /\ Len(SubSeq(bs, a, b)) = b - a + 1
        /\ \A i \in 1..(b - a + 1) : SubSeq(bs, a, b)[i] = bs[a + i - 1]
    BY <2>2, <2>5, SubSeqProperties
  <2> QED BY <2>2, <2>3, <2>4, <2>6 DEF S, bs
<1> HIDE DEF recent
<1>4. DOMAIN recent = 1..n
  BY <1>3, LenProperties
<1>5. ASSUME NEW i \in 1..n
      PROVE  FlattenSeq([j \in DOMAIN recent[i] |-> recent[i][j].logs]) = SentIn(s, start + i - 1)
  <2> DEFINE k == start + i - 1
  <2>1. k \in m.logsFrom..Len(s) /\ k - o + 1 = start - o + i /\ k \in 0..Len(s)
    BY <1>1
  <2>2. recent[i] = Full(s, k)
    <3>1. m.blocks[k - o + 1] = Full(s, k)
      BY <2>1 DEF MemoryOf
    <3> QED BY <1>3, <2>1, <3>1
  <2> HIDE DEF k
  <2>3. CASE k = 0
    <3>1. recent[i] = <<>> /\ SentIn(s, k) = <<>>
      BY <2>2, <2>3 DEF Full, SentIn
    <3>2. [j \in DOMAIN <<>> |-> <<>>[j].logs] = <<>>
      OBVIOUS
    <3>3. FlattenSeq(<<>>) = <<>>
      BY EmptySeq DEF FlattenSeq
    <3> QED BY <3>1, <3>2, <3>3 DEF k
  <2>4. CASE k # 0
    <3> DEFINE ls == LogsOf(k, s[k])
    <3> DEFINE e == [hash |-> TxHash(k, s[k]), logs |-> ls]
    <3>1. recent[i] = <<e>> /\ SentIn(s, k) = ls /\ e.logs = ls
      BY <2>2, <2>4 DEF Full, SentIn
    <3>2. ls \in Seq(Logs)
      BY <2>1, <3>1, SentIs
    <3> HIDE DEF ls, e
    <3>3. [j \in DOMAIN <<e>> |-> <<e>>[j].logs] = <<ls>>
      <4>1. DOMAIN <<e>> = 1..1 /\ <<e>>[1].logs = ls
        BY <3>1
      <4>2. [j \in DOMAIN <<e>> |-> <<e>>[j].logs] = [j \in 1..1 |-> ls]
        BY <4>1
      <4>3. [j \in 1..1 |-> ls] = <<ls>>
        OBVIOUS
      <4> QED BY <4>2, <4>3
    <3>4. FlattenSeq(<<ls>>) = ls
      BY DEF FlattenSeq
    <3> QED BY <3>1, <3>3, <3>4 DEF k
  <2> QED BY <2>3, <2>4
<1>6. [i \in DOMAIN recent |-> FlattenSeq([j \in DOMAIN recent[i] |-> recent[i][j].logs])]
        = [i \in 1..n |-> SentIn(s, start + i - 1)]
  BY <1>4, <1>5
<1> QED BY <1>6 DEF Told, LogsIn, recent

\* The answer to any range of blocks.
LEMMA LogsAre ==
    ASSUME NEW s \in Seq(Blks), MemoryOf(memory, s, Len(s)), NEW from \in 0..Len(s), NEW to \in from..Len(s)
    PROVE  GetLogs(from, to) = Told(s, from, to)
<1> DEFINE f == memory.logsFrom
<1> DEFINE o == memory.first
<1> DEFINE l == Len(s)
<1> DEFINE start == Max({from, f})
<1> DEFINE recent == SubSeq(memory.blocks, Max({0, start - o}) + 1, Max({0, to - o + 1}))
<1> DEFINE older == Within(memory.messages, from, Min({f, to + 1}) - 1)
<1> DEFINE flat == LogsIn(recent)
<1>1. GetLogs(from, to) = older \o flat
  BY DEF GetLogs, LogsIn
<1>2. /\ l \in Nat /\ o \in Nat /\ f \in Nat /\ o <= f /\ f <= l + 1
      /\ from \in Nat /\ to \in Nat /\ from <= to /\ to <= l
  BY LenProperties DEF MemoryOf
<1>3. MemoryOf(memory, s, l) /\ memory.messages = Told(s, 0, l)
  BY DEF MemoryOf
<1>4. start = IF from < f THEN f ELSE from
  <2> HIDE DEF f
  <2> QED BY <1>2, MaxOfTwo
<1>5. Min({f, to + 1}) = IF to + 1 < f THEN to + 1 ELSE f
  <2>1. to + 1 \in Int /\ f \in Int
    BY <1>2
  <2> HIDE DEF f
  <2> QED BY <2>1, MinOfTwo
<1>6. Max({0, start - o}) + 1 = start - o + 1
  <2> HIDE DEF f, o, start
  <2>1. start - o \in Nat /\ 0 \in Int
    BY <1>2, <1>4
  <2>2. Max({0, start - o}) = start - o
    BY <2>1, MaxOfTwo
  <2> QED BY <2>2
<1>7. Max({0, to - o + 1}) = IF to - o + 1 < 0 THEN 0 ELSE to - o + 1
  <2> HIDE DEF o
  <2>1. to - o + 1 \in Int /\ 0 \in Int
    BY <1>2
  <2>2. Max({0, to - o + 1}) = IF 0 < to - o + 1 THEN to - o + 1 ELSE 0
    BY <2>1, MaxOfTwo
  <2> QED BY <2>1, <2>2
<1> DEFINE b == Min({f, to + 1}) - 1
<1>8. older = IF l < from \/ b < from THEN <<>> ELSE Told(s, from, IF b < l THEN b ELSE l)
  <2>1. b \in Int /\ l \in 0..Len(s)
    <3> HIDE DEF f
    <3> QED BY <1>2, <1>5
  <2> HIDE DEF b
  <2>2. Within(Told(s, 0, l), from, b) = IF l < from \/ b < from THEN <<>> ELSE Told(s, from, IF b < l THEN b ELSE l)
    BY <1>2, <2>1, WithinTold
  <2> QED BY <1>3, <2>2 DEF b
<1> HIDE DEF older
<1>9. CASE to < start
  \* All of it is older.
  <2>1. from < f /\ start = f /\ to < f /\ b = to
    <3> HIDE DEF f, start
    <3> QED BY <1>2, <1>4, <1>5, <1>9
  <2>2. older = Told(s, from, to)
    <3> HIDE DEF b
    <3> QED BY <1>2, <1>8, <2>1
  <2>3. recent = <<>>
    <3> DEFINE x == Max({0, start - o}) + 1
    <3> DEFINE y == Max({0, to - o + 1})
    <3>1. x \in Int /\ y \in Int /\ y < x
      <4> HIDE DEF f, o, start
      <4> QED BY <1>2, <1>6, <1>7, <2>1
    <3> HIDE DEF x, y
    <3>2. SubSeq(memory.blocks, x, y) = <<>>
      BY <3>1, SubSeqEmpty
    <3> QED BY <3>2 DEF x, y
  <2>4. flat = <<>>
    <3> HIDE DEF recent
    <3>1. [i \in DOMAIN recent |-> FlattenSeq([j \in DOMAIN recent[i] |-> recent[i][j].logs])] = <<>>
      BY <2>3
    <3>2. FlattenSeq(<<>>) = <<>>
      BY EmptySeq DEF FlattenSeq
    <3> QED BY <3>1, <3>2 DEF LogsIn
  <2>5. Told(s, from, to) \in Seq(Logs)
    BY <1>2, ToldIsSeq
  <2>6. Told(s, from, to) \o <<>> = Told(s, from, to)
    BY <2>5, ConcatEmptySeq
  <2> HIDE DEF flat
  <2> QED BY <1>1, <2>2, <2>4, <2>6
<1>10. CASE ~(to < start)
  <2>1. start \in f..Len(s) /\ to \in start..Len(s) /\ start \in Nat /\ start <= to
    <3> HIDE DEF f, start
    <3> QED BY <1>2, <1>4, <1>10
  <2>2. Max({0, to - o + 1}) = to - o + 1
    <3> HIDE DEF f, o, start
    <3> QED BY <1>2, <1>4, <1>7, <2>1
  <2>3. recent = SubSeq(memory.blocks, start - o + 1, to - o + 1)
    BY <1>6, <2>2
  <2>4. flat = Told(s, start, to)
    <3>1. MemoryOf(memory, s, Len(s)) /\ start \in memory.logsFrom..Len(s) /\ to \in start..Len(s)
      BY <1>3, <2>1
    <3>2. recent = SubSeq(memory.blocks, start - memory.first + 1, to - memory.first + 1)
      BY <2>3
    <3> HIDE DEF recent, start
    <3> QED BY <3>1, <3>2, RecentAre
  <2> HIDE DEF flat
  <2>5. CASE from < f
    <3>1. start = f /\ b = f - 1 /\ from <= b /\ b < l /\ b + 1 = start /\ b \in Int /\ from - 1 <= b /\ b <= to
      <4> HIDE DEF f, start
      <4> QED BY <1>2, <1>4, <1>5, <1>10, <2>5
    <3> HIDE DEF b, start
    <3>2. older = Told(s, from, b)
      BY <1>2, <1>8, <3>1
    <3>3. Told(s, from, b) \o Told(s, b + 1, to) = Told(s, from, to)
      <4>1. from \in Nat /\ b \in Int /\ to \in Int /\ from - 1 <= b /\ b <= to /\ to <= Len(s)
        BY <1>2, <3>1
      <4> QED BY <4>1, ToldConcat
    <3> QED BY <1>1, <2>4, <3>1, <3>2, <3>3
  <2>6. CASE ~(from < f)
    <3>1. start = from /\ b < from
      <4> HIDE DEF f, start
      <4> QED BY <1>2, <1>4, <1>5, <2>6
    <3>2. older = <<>>
      <4> HIDE DEF b
      <4> QED BY <1>8, <3>1
    <3>3. Told(s, from, to) \in Seq(Logs)
      BY <1>2, ToldIsSeq
    <3>4. <<>> \o Told(s, from, to) = Told(s, from, to)
      BY <3>3, ConcatEmptySeq
    <3> HIDE DEF start
    <3> QED BY <1>1, <2>4, <3>1, <3>2, <3>4
  <2> QED BY <2>5, <2>6
<1> QED BY <1>9, <1>10

-----------------------------------------------------------------------------
(* The RPC: its inductive invariant                                        *)

RpcShape ==
    /\ stored \in Seq(Blks)
    /\ onL1 \in 0..Len(stored) /\ exits \in Nat
    /\ Len(stored) - onL1 <= MaxWaiting
    /\ \E X : snapshots \in Seq(X)

\* A snapshot, of a chain whose first `n` blocks L1 has.
Loads(sn, s, n) == SnapshotOf(sn, s) /\ sn.number <= n

RpcInv ==
    /\ RpcShape
    /\ \A i \in 1..Len(snapshots) : Loads(snapshots[i], stored, onL1)
    /\ serving => MemoryOf(memory, stored, Len(stored)) /\ memory.first <= onL1

\* A snapshot of a chain is one of any chain with the same blocks.
LEMMA LoadsSame ==
    ASSUME NEW s \in Seq(Blks), NEW t \in Seq(Blks), NEW n \in Nat, n <= Len(t),
           \A k \in 1..n : s[k] = t[k], NEW sn, SnapshotOf(sn, s), sn.number <= n
    PROVE  SnapshotOf(sn, t)
<1>1. Len(s) \in Nat /\ Len(t) \in Nat /\ sn.number \in Nat /\ sn.number # 0
  BY LenProperties DEF SnapshotOf
<1>2. \A k \in 1..sn.number : s[k] = t[k]
  BY <1>1
<1>3. Told(s, 0, sn.number) = Told(t, 0, sn.number)
  BY <1>1, <1>2, ToldSame
<1>4. sn.number \in 1..Len(t)
  BY <1>1
<1> QED BY <1>3, <1>4 DEF SnapshotOf

\* The snapshots kept are some of those there were, up to block `n`.
LEMMA KeptAre ==
    ASSUME NEW X, snapshots \in Seq(X), NEW n
    PROVE  /\ KeptSnapshots(n) \in Seq(X)
           /\ Len(KeptSnapshots(n)) <= Len(snapshots)
           /\ \A i \in 1..Len(KeptSnapshots(n)) :
                /\ KeptSnapshots(n)[i].number <= n
                /\ \E j \in 1..Len(snapshots) : KeptSnapshots(n)[i] = snapshots[j]
<1> DEFINE op(r, s) == IF s.number <= n THEN Append(r, s) ELSE r
<1> DEFINE r == KeptSnapshots(n)
<1>1. FoldIs(r, op, <<>>, snapshots)
  BY DEF FoldIs, KeptSnapshots
<1>2. FoldSteps(r, op, <<>>, snapshots)
  BY <1>1, FoldLeftSteps
<1> HIDE DEF r
<1>3. PICK g : /\ g[0] = <<>>
               /\ \A k \in 1..Len(snapshots) :
                    g[k] = IF snapshots[k].number <= n THEN Append(g[k - 1], snapshots[k]) ELSE g[k - 1]
               /\ r = g[Len(snapshots)]
  BY <1>2 DEF FoldSteps
<1>4. PICK l \in Nat : l = Len(snapshots)
  BY LenProperties
<1>5. PICK ss : ss = snapshots
  OBVIOUS
<1> DEFINE Good(s) == s \in Seq(X) /\ \A i \in 1..Len(s) : s[i].number <= n /\ \E j \in 1..l : s[i] = ss[j]
<1> DEFINE T == {k \in Nat : k <= l => Good(g[k]) /\ Len(g[k]) <= k}
<1>6. 0 \in T
  <2>1. <<>> \in Seq(X) /\ Len(<<>>) = 0
    BY EmptySeq
  <2>2. Good(<<>>)
    BY <2>1
  <2>3. g[0] = <<>>
    BY <1>3
  <2> HIDE DEF Good
  <2> QED BY <2>2, <2>3
<1>7. ASSUME NEW k \in Nat, k \in T PROVE k + 1 \in T
  <2> SUFFICES ASSUME k + 1 <= l PROVE Good(g[k + 1]) /\ Len(g[k + 1]) <= k + 1
    OBVIOUS
  <2>1. k + 1 \in 1..l /\ (k + 1) - 1 = k /\ k <= l
    BY <1>4
  <2>2. Good(g[k]) /\ Len(g[k]) <= k /\ Len(g[k]) \in Nat
    BY <1>7, <2>1, LenProperties
  <2>3. g[k + 1] = IF ss[k + 1].number <= n THEN Append(g[k], ss[k + 1]) ELSE g[k]
    BY <1>3, <1>4, <1>5, <2>1
  <2>4. ss[k + 1] \in X
    BY <1>4, <1>5, <2>1, ElementOfSeq
  <2>5. CASE ss[k + 1].number <= n
    <3> DEFINE t == Append(g[k], ss[k + 1])
    <3>1. /\ t \in Seq(X) /\ Len(t) = Len(g[k]) + 1 /\ Len(g[k]) \in Nat
          /\ \A i \in 1..Len(g[k]) : t[i] = g[k][i]
          /\ t[Len(g[k]) + 1] = ss[k + 1]
      BY <2>2, <2>4, AppendProperties
    <3>2. g[k + 1] = t
      BY <2>3, <2>5
    <3> HIDE DEF t
    <3>3. ASSUME NEW i \in 1..Len(t) PROVE t[i].number <= n /\ \E j \in 1..l : t[i] = ss[j]
      <4>1. CASE i \in 1..Len(g[k])
        BY <2>2, <3>1, <4>1
      <4>2. CASE i = Len(g[k]) + 1
        BY <2>1, <2>5, <3>1, <4>2
      <4> QED BY <3>1, <4>1, <4>2
    <3>4. Len(t) <= k + 1
      BY <2>2, <3>1
    <3>5. Good(t)
      <4> HIDE DEF op
      <4> QED BY <3>1, <3>3
    <3> HIDE DEF Good
    <3> QED BY <3>2, <3>4, <3>5
  <2>6. CASE ~(ss[k + 1].number <= n)
    BY <2>2, <2>3, <2>6
  <2> QED BY <2>5, <2>6
<1> HIDE DEF T
<1>8. Nat \subseteq T
  BY <1>6, <1>7, SetInduction
<1>9. Good(r) /\ Len(r) <= l
  BY <1>3, <1>4, <1>8 DEF T
<1> QED BY <1>4, <1>5, <1>9 DEF r

\* At the start.
LEMMA NodeRpcInitInv == ASSUME NodeRpcInit PROVE RpcInv
<1>1. stored = <<>> /\ onL1 = 0 /\ snapshots = <<>> /\ memory = IndexHeader(EmptyMemory) /\ exits = 0
  BY DEF NodeRpcInit
<1>2. stored \in Seq(Blks) /\ Len(stored) = 0 /\ Len(snapshots) = 0 /\ snapshots \in Seq(Nat)
  BY <1>1, EmptySeq
<1>3. MaxWaiting \in Nat
  BY NodeRpcAssumption
<1>4. RpcShape
  BY <1>1, <1>2, <1>3 DEF RpcShape
<1>5. MemoryOf(memory, stored, 0) /\ memory.first = 0
  BY <1>1, <1>2, GenesisMemory
<1>6. \A i \in 1..Len(snapshots) : Loads(snapshots[i], stored, onL1)
  BY <1>2
<1> QED BY <1>1, <1>2, <1>4, <1>5, <1>6 DEF RpcInv

\* A block is added.
LEMMA AddBlockKeeps == ASSUME RpcInv, AddBlock PROVE RpcInv'
<1>1. serving /\ UNCHANGED <<snapshots, serving, exits>>
  BY DEF AddBlock
<1>2. PICK sends \in BOOLEAN :
        LET b == [sends |-> sends, after |-> exits]
        IN stored' = Append(stored, b) /\ memory' = Index(memory, Len(stored'), b)
  BY DEF AddBlock
<1> DEFINE b == [sends |-> sends, after |-> exits]
<1>3. PICK l \in Nat : l = Len(stored)
  BY LenProperties DEF RpcInv, RpcShape
<1>4. b \in Blks
  BY DEF RpcInv, RpcShape, Blks
<1>5. stored' = Append(stored, b) /\ memory' = Index(memory, Len(stored'), b)
  BY <1>2
<1> HIDE DEF b
<1>6. /\ stored' \in Seq(Blks) /\ Len(stored') = l + 1
      /\ \A k \in 1..l : stored'[k] = stored[k]
      /\ stored'[l + 1] = b
  BY <1>3, <1>4, <1>5, AppendProperties DEF RpcInv, RpcShape
<1>7. PICK s : s = stored'
  OBVIOUS
<1>8. MemoryOf(memory, stored, l) /\ memory.first <= onL1
  BY <1>1, <1>3 DEF RpcInv
<1>9. MemoryOf(memory, s, l)
  BY <1>6, <1>7, <1>8, MemorySame
<1>10. MemoryOf(Index(memory, l + 1, s[l + 1]), s, l + 1) /\ Index(memory, l + 1, s[l + 1]).first = memory.first
  BY <1>6, <1>7, <1>9, IndexIs
<1>11. memory' = Index(memory, l + 1, s[l + 1])
  BY <1>5, <1>6, <1>7
<1>12. /\ onL1 \in 0..l /\ l - onL1 <= MaxWaiting /\ MaxWaiting \in Nat
       /\ (l - onL1 < MaxWaiting /\ onL1' = onL1) \/ (onL1 = l /\ onL1' = l + 1)
  <2>1. onL1 \in 0..l /\ l - onL1 <= MaxWaiting
    BY <1>3 DEF RpcInv, RpcShape
  <2>2. (l - onL1 < MaxWaiting /\ onL1' = onL1) \/ (onL1 = l /\ onL1' = l + 1)
    BY <1>3, <1>6 DEF AddBlock
  <2>3. MaxWaiting \in Nat
    BY NodeRpcAssumption
  <2> QED BY <2>1, <2>2, <2>3
<1>13. onL1' \in 0..(l + 1) /\ (l + 1) - onL1' <= MaxWaiting /\ onL1 <= onL1'
  BY <1>12
<1>14. RpcShape'
  BY <1>1, <1>6, <1>13 DEF RpcShape, RpcInv
<1>15. ASSUME NEW i \in 1..Len(snapshots) PROVE Loads(snapshots[i], s, onL1')
  <2>1. SnapshotOf(snapshots[i], stored) /\ snapshots[i].number <= onL1 /\ snapshots[i].number \in Nat
    BY DEF RpcInv, Loads, SnapshotOf
  <2>2. snapshots[i].number <= l /\ snapshots[i].number <= onL1'
    BY <1>12, <1>13, <2>1
  <2>3. l <= Len(s) /\ s \in Seq(Blks) /\ stored \in Seq(Blks) /\ \A k \in 1..l : stored[k] = s[k]
    BY <1>6, <1>7 DEF RpcInv, RpcShape
  <2>4. SnapshotOf(snapshots[i], s)
    BY <2>1, <2>2, <2>3, LoadsSame
  <2> QED BY <2>2, <2>4 DEF Loads
<1>16. memory'.first <= onL1'
  <2>1. memory.first \in Nat
    BY <1>8 DEF MemoryOf
  <2> QED BY <1>8, <1>10, <1>11, <1>12, <1>13, <2>1
<1>17. MemoryOf(memory', stored', Len(stored'))
  BY <1>6, <1>7, <1>10, <1>11
<1>18. \A i \in 1..Len(snapshots') : Loads(snapshots'[i], stored', onL1')
  BY <1>1, <1>7, <1>15
<1> QED BY <1>14, <1>16, <1>17, <1>18 DEF RpcInv

\* A snapshot of the chain posted up to block `n`.
LEMMA TakeSnapshotKeeps ==
    ASSUME RpcInv, serving, NEW n, n = onL1 + 1, n <= Len(stored), TakeSnapshot(n)
    PROVE  /\ \E X : snapshots' \in Seq(X)
           /\ \A i \in 1..Len(snapshots') : Loads(snapshots'[i], stored, n)
           /\ MemoryOf(memory', stored, Len(stored)) /\ memory'.first <= n
<1> DEFINE sn == [number |-> n, first |-> Max({memory.first, n - HEADERS + 1}), messages |-> Within(memory.messages, 0, n)]
<1> DEFINE all == Append(snapshots, sn)
<1> DEFINE drop == Max({0, Len(memory.blocks) - KEEP_BLOCKS})
<1>1. /\ snapshots' = SubSeq(all, Max({1, Len(all) - 1}), Len(all))
      /\ memory' = Prune(memory, drop)
  BY DEF TakeSnapshot
<1>2. PICK l \in Nat : l = Len(stored)
  BY LenProperties DEF RpcInv, RpcShape
<1>3. MemoryOf(memory, stored, l) /\ stored \in Seq(Blks)
  BY <1>2 DEF RpcInv, RpcShape
<1>4. PICK o \in Nat : o = memory.first
  BY <1>3 DEF MemoryOf
<1>5. /\ onL1 \in Nat /\ n \in Nat /\ n = onL1 + 1 /\ n <= l /\ o <= onL1 /\ l - onL1 <= MaxWaiting
  BY <1>2, <1>4 DEF RpcInv, RpcShape
<1>6. /\ HEADERS \in Nat /\ HEADERS # 0 /\ KEEP_BLOCKS \in Nat /\ KEEP_BLOCKS # 0
      /\ MaxWaiting \in Nat /\ MaxWaiting <= KEEP_BLOCKS - 1
  BY NodeRpcAssumption
<1>7. Loads(sn, stored, n)
  <2>1. sn.first = IF o < n - HEADERS + 1 THEN n - HEADERS + 1 ELSE o
    <3>1. o \in Int /\ n - HEADERS + 1 \in Int
      BY <1>5, <1>6
    <3>2. Max({o, n - HEADERS + 1}) = IF o < n - HEADERS + 1 THEN n - HEADERS + 1 ELSE o
      BY <3>1, MaxOfTwo
    <3> QED BY <1>4, <3>2
  <2>2. sn.number = n /\ sn.messages = Within(memory.messages, 0, n)
    OBVIOUS
  <2> HIDE DEF sn
  <2>3. sn.first \in 0..n
    BY <1>5, <1>6, <2>1
  <2>4. sn.messages = Told(stored, 0, n)
    <3>1. memory.messages = Told(stored, 0, l)
      BY <1>3 DEF MemoryOf
    <3>2. l \in 0..Len(stored) /\ 0 \in Nat /\ n \in Int
      BY <1>2, <1>5
    <3>3. Within(Told(stored, 0, l), 0, n) =
            IF l < 0 \/ n < 0 THEN <<>> ELSE Told(stored, 0, IF n < l THEN n ELSE l)
      BY <1>3, <3>2, WithinTold
    <3>4. ~(l < 0 \/ n < 0) /\ (IF n < l THEN n ELSE l) = n
      BY <1>5
    <3> QED BY <2>2, <3>1, <3>3, <3>4
  <2>5. n \in 1..Len(stored)
    BY <1>2, <1>5
  <2> QED BY <1>5, <2>2, <2>3, <2>4, <2>5 DEF Loads, SnapshotOf
<1> HIDE DEF sn
<1>8. PICK X : snapshots \in Seq(X)
  BY DEF RpcInv, RpcShape
<1>9. snapshots \in Seq(X \cup {sn}) /\ sn \in X \cup {sn}
  BY <1>8, SeqMonotonic
<1>10. /\ all \in Seq(X \cup {sn}) /\ Len(all) = Len(snapshots) + 1 /\ Len(snapshots) \in Nat
       /\ \A i \in 1..Len(snapshots) : all[i] = snapshots[i]
       /\ all[Len(snapshots) + 1] = sn
  BY <1>9, AppendProperties
<1> HIDE DEF all
<1>11. ASSUME NEW i \in 1..Len(all) PROVE all[i] \in X \cup {sn} /\ Loads(all[i], stored, n)
  <2>1. all[i] \in X \cup {sn}
    BY <1>10, ElementOfSeq
  <2>2. CASE i \in 1..Len(snapshots)
    <3>1. Loads(snapshots[i], stored, onL1)
      BY <2>2 DEF RpcInv
    <3>2. snapshots[i].number \in Nat
      BY <3>1 DEF Loads, SnapshotOf
    <3> QED BY <1>5, <1>10, <2>1, <2>2, <3>1, <3>2 DEF Loads
  <2>3. CASE i = Len(snapshots) + 1
    BY <1>7, <1>10, <2>1, <2>3
  <2> QED BY <1>10, <2>2, <2>3
<1>12. /\ snapshots' \in Seq(X \cup {sn})
       /\ \A i \in 1..Len(snapshots') : Loads(snapshots'[i], stored, n)
  <2> DEFINE x == Max({1, Len(all) - 1})
  <2> DEFINE y == Len(all)
  <2>1. x \in Int /\ y \in Int /\ 1 <= x
    <3>1. 1 \in Int /\ Len(all) - 1 \in Int
      BY <1>10
    <3>2. x = IF 1 < Len(all) - 1 THEN Len(all) - 1 ELSE 1
      BY <3>1, MaxOfTwo
    <3> HIDE DEF x
    <3> QED BY <1>10, <3>1, <3>2
  <2>2. snapshots' = SubSeq(all, x, y)
    BY <1>1
  <2>3. \A i \in 1..y : all[i] \in X \cup {sn} /\ Loads(all[i], stored, n)
    BY <1>11
  <2> HIDE DEF x, y
  <2>4. \A i \in x..y : i \in 1..y
    BY <2>1
  <2>5. /\ SubSeq(all, x, y) \in Seq(X \cup {sn})
        /\ Len(SubSeq(all, x, y)) = IF x <= y THEN y - x + 1 ELSE 0
        /\ \A i \in 1..(y - x + 1) : SubSeq(all, x, y)[i] = all[x + i - 1]
    BY <2>1, <2>3, <2>4, SubSeqProperties
  <2>6. ASSUME NEW i \in 1..Len(SubSeq(all, x, y)) PROVE Loads(SubSeq(all, x, y)[i], stored, n)
    <3>1. i \in 1..(y - x + 1) /\ x + i - 1 \in 1..y
      BY <2>1, <2>5
    <3> QED BY <2>3, <2>5, <3>1
  <2> QED BY <2>2, <2>5, <2>6
<1>13. Len(memory.blocks) = l - o + 1
  BY <1>3, <1>4 DEF MemoryOf
<1>14. drop = IF 0 < l - o + 1 - KEEP_BLOCKS THEN l - o + 1 - KEEP_BLOCKS ELSE 0
  <2>1. PICK x : x = Len(memory.blocks) - KEEP_BLOCKS
    OBVIOUS
  <2>2. drop = Max({0, x})
    BY <2>1
  <2> HIDE DEF drop
  <2>3. x = l - o + 1 - KEEP_BLOCKS
    BY <1>6, <1>13, <2>1
  <2>4. 0 \in Int /\ x \in Int
    BY <1>6, <2>3
  <2>5. Max({0, x}) = IF 0 < x THEN x ELSE 0
    BY <2>4, MaxOfTwo
  <2> QED BY <2>2, <2>3, <2>5
<1> HIDE DEF drop
<1>15. drop \in 0..(l - o) /\ o + drop <= n
  BY <1>5, <1>6, <1>14
<1>16. MemoryOf(Prune(memory, drop), stored, l) /\ Prune(memory, drop).first = o + drop
  <2>1. drop \in 0..(l - memory.first)
    BY <1>4, <1>15
  <2>2. MemoryOf(Prune(memory, drop), stored, l) /\ Prune(memory, drop).first = memory.first + drop
    BY <1>3, <2>1, PruneIs
  <2> QED BY <1>4, <2>2
<1> QED BY <1>1, <1>2, <1>12, <1>15, <1>16

\* A block is posted.
LEMMA PostedKeeps == ASSUME RpcInv, Posted PROVE RpcInv'
<1>1. /\ serving /\ onL1 < Len(stored) /\ onL1' = onL1 + 1
      /\ UNCHANGED <<stored, serving, exits>>
  BY DEF Posted
<1>2. PICK l \in Nat : l = Len(stored)
  BY LenProperties DEF RpcInv, RpcShape
<1>3. onL1 \in Nat /\ onL1 < l /\ l - onL1 <= MaxWaiting /\ MaxWaiting \in Nat
  <2>1. MaxWaiting \in Nat
    BY NodeRpcAssumption
  <2> QED BY <1>1, <1>2, <2>1 DEF RpcInv, RpcShape
<1>4. onL1' \in 0..l /\ l - onL1' <= MaxWaiting /\ onL1 + 1 <= l
  BY <1>1, <1>3
<1>5. /\ \E X : snapshots' \in Seq(X)
      /\ \A i \in 1..Len(snapshots') : Loads(snapshots'[i], stored, onL1 + 1)
      /\ MemoryOf(memory', stored, Len(stored)) /\ memory'.first <= onL1 + 1
  <2>1. CASE TakeSnapshot(onL1')
    <3>1. PICK n : n = onL1 + 1
      OBVIOUS
    <3>2. TakeSnapshot(n) /\ n <= Len(stored)
      BY <1>1, <1>2, <1>4, <2>1, <3>1
    <3> QED BY <1>1, <3>1, <3>2, TakeSnapshotKeeps
  <2>2. CASE UNCHANGED <<snapshots, memory>>
    <3>1. MemoryOf(memory, stored, Len(stored)) /\ memory.first <= onL1 /\ \E X : snapshots \in Seq(X)
      BY <1>1 DEF RpcInv, RpcShape
    <3>2. memory.first <= onL1 + 1
      <4>1. memory.first \in Nat
        BY <3>1 DEF MemoryOf
      <4> QED BY <1>3, <3>1, <4>1
    <3>3. ASSUME NEW i \in 1..Len(snapshots) PROVE Loads(snapshots[i], stored, onL1 + 1)
      <4>1. Loads(snapshots[i], stored, onL1) /\ snapshots[i].number \in Nat
        BY DEF RpcInv, Loads, SnapshotOf
      <4> QED BY <1>3, <4>1 DEF Loads
    <3> QED BY <2>2, <3>1, <3>2, <3>3
  <2> QED BY <2>1, <2>2 DEF Posted
<1> QED BY <1>1, <1>2, <1>4, <1>5 DEF RpcInv, RpcShape

\* The chain cut after block `n`.
LEMMA CutIs ==
    ASSUME NEW s \in Seq(Blks), NEW n \in 0..Len(s)
    PROVE  /\ SubSeq(s, 1, n) \in Seq(Blks) /\ Len(SubSeq(s, 1, n)) = n
           /\ \A k \in 1..n : s[k] = SubSeq(s, 1, n)[k]
<1>1. Len(s) \in Nat /\ n \in Nat /\ n <= Len(s) /\ n - 1 + 1 = n
  BY LenProperties
<1>2. \A k \in 1..n : s[k] \in Blks
  BY <1>1, ElementOfSeq
<1>3. /\ SubSeq(s, 1, n) \in Seq(Blks)
      /\ Len(SubSeq(s, 1, n)) = IF 1 <= n THEN n - 1 + 1 ELSE 0
      /\ \A k \in 1..(n - 1 + 1) : SubSeq(s, 1, n)[k] = s[1 + k - 1]
  BY <1>1, <1>2, SubSeqProperties
<1>4. \A k \in 1..n : 1 + k - 1 = k
  OBVIOUS
<1> QED BY <1>1, <1>3, <1>4

\* The process ends.
LEMMA ExitKeeps == ASSUME RpcInv, Exit PROVE RpcInv'
<1>1. /\ ~serving' /\ exits' = exits + 1 /\ UNCHANGED <<onL1, snapshots>>
      /\ stored' = stored \/ stored' = SubSeq(stored, 1, onL1)
  BY DEF Exit
<1>2. PICK s : s = stored'
  OBVIOUS
<1>3. stored \in Seq(Blks) /\ onL1 \in 0..Len(stored) /\ Len(stored) \in Nat /\ exits \in Nat
      /\ Len(stored) - onL1 <= MaxWaiting /\ MaxWaiting \in Nat
  <2>1. MaxWaiting \in Nat
    BY NodeRpcAssumption
  <2> QED BY <2>1, LenProperties DEF RpcInv, RpcShape
<1>4. /\ s \in Seq(Blks) /\ onL1 \in 0..Len(s) /\ Len(s) - onL1 <= MaxWaiting
      /\ \A k \in 1..onL1 : stored[k] = s[k]
  <2>1. CASE s = stored
    BY <1>3, <2>1
  <2>2. CASE s = SubSeq(stored, 1, onL1)
    <3>1. s \in Seq(Blks) /\ Len(s) = onL1 /\ \A k \in 1..onL1 : stored[k] = s[k]
      BY <1>3, <2>2, CutIs
    <3>2. onL1 - onL1 <= MaxWaiting /\ onL1 \in 0..onL1
      BY <1>3
    <3> QED BY <3>1, <3>2
  <2> QED BY <1>1, <1>2, <2>1, <2>2
<1>5. ASSUME NEW i \in 1..Len(snapshots) PROVE Loads(snapshots[i], s, onL1)
  <2>1. SnapshotOf(snapshots[i], stored) /\ snapshots[i].number <= onL1
    BY DEF RpcInv, Loads
  <2>2. onL1 \in Nat /\ onL1 <= Len(s)
    BY <1>3, <1>4, LenProperties
  <2>3. SnapshotOf(snapshots[i], s)
    BY <1>3, <1>4, <2>1, <2>2, LoadsSame
  <2> QED BY <2>1, <2>3 DEF Loads
<1>6. exits' \in Nat
  BY <1>1, <1>3
<1> QED BY <1>1, <1>2, <1>4, <1>5, <1>6 DEF RpcInv, RpcShape

\* The node starts, from a snapshot or from the genesis, when L1 has `n` of
\* the blocks it had.
LEMMA StartServingKeeps == ASSUME RpcInv, StartServing PROVE RpcInv'
<1>1. PICK n \in 0..onL1 :
         LET keptOnes == KeptSnapshots(n)
             from == IF keptOnes = <<>> THEN 0 ELSE Last(keptOnes).number
             start == IF keptOnes = <<>> THEN IndexHeader(EmptyMemory) ELSE LoadSnapshot(Last(keptOnes))
         IN /\ snapshots # <<>> => keptOnes # <<>>
            /\ snapshots' = keptOnes
            /\ stored' = IF n = onL1 THEN stored ELSE SubSeq(stored, 1, n)
            /\ onL1' = n
            /\ memory' = Replayed(stored', start, from)
  BY DEF StartServing
<1> DEFINE keptOnes == KeptSnapshots(n)
<1> DEFINE from == IF keptOnes = <<>> THEN 0 ELSE Last(keptOnes).number
<1> DEFINE start == IF keptOnes = <<>> THEN IndexHeader(EmptyMemory) ELSE LoadSnapshot(Last(keptOnes))
<1>2. PICK s : s = stored'
  OBVIOUS
<1>3. /\ snapshots' = keptOnes /\ onL1' = n
      /\ s = IF n = onL1 THEN stored ELSE SubSeq(stored, 1, n)
  BY <1>1, <1>2
<1>4. memory' = Replayed(s, start, from)
  BY <1>1, <1>2
<1>5. exits' = exits
  BY DEF StartServing
<1>6. stored \in Seq(Blks) /\ onL1 \in 0..Len(stored) /\ Len(stored) \in Nat /\ exits \in Nat /\ n \in Nat
      /\ Len(stored) - onL1 <= MaxWaiting /\ MaxWaiting \in Nat /\ n \in 0..Len(stored)
  <2>1. MaxWaiting \in Nat
    BY NodeRpcAssumption
  <2> QED BY <2>1, LenProperties DEF RpcInv, RpcShape
<1>7. /\ s \in Seq(Blks) /\ n \in 0..Len(s) /\ Len(s) - n <= MaxWaiting
      /\ \A k \in 1..n : stored[k] = s[k]
  <2>1. CASE n = onL1
    BY <1>3, <1>6, <2>1
  <2>2. CASE n # onL1
    <3>1. s = SubSeq(stored, 1, n)
      BY <1>3, <2>2
    <3>2. s \in Seq(Blks) /\ Len(s) = n /\ \A k \in 1..n : stored[k] = s[k]
      BY <1>6, <3>1, CutIs
    <3>3. n - n <= MaxWaiting /\ n \in 0..n
      BY <1>6
    <3> QED BY <3>2, <3>3
  <2> QED BY <2>1, <2>2
<1>8. PICK X : snapshots \in Seq(X)
  BY DEF RpcInv, RpcShape
<1>9. /\ keptOnes \in Seq(X)
      /\ \A i \in 1..Len(keptOnes) : keptOnes[i].number <= n /\ \E j \in 1..Len(snapshots) : keptOnes[i] = snapshots[j]
  BY <1>8, KeptAre
<1> HIDE DEF keptOnes
<1>10. ASSUME NEW i \in 1..Len(keptOnes) PROVE Loads(keptOnes[i], s, n)
  <2>1. PICK j \in 1..Len(snapshots) : keptOnes[i] = snapshots[j]
    BY <1>9
  <2>2. SnapshotOf(keptOnes[i], stored) /\ keptOnes[i].number <= n
    BY <1>9, <2>1 DEF RpcInv, Loads
  <2>3. n <= Len(s)
    BY <1>6, <1>7, LenProperties
  <2>4. SnapshotOf(keptOnes[i], s)
    BY <1>6, <1>7, <2>2, <2>3, LoadsSame
  <2> QED BY <2>2, <2>4 DEF Loads
<1>11. from \in 0..Len(s) /\ MemoryOf(start, s, from) /\ start.first <= n
  <2>1. CASE keptOnes = <<>>
    <3>1. from = 0 /\ start = IndexHeader(EmptyMemory)
      BY <2>1
    <3>2. MemoryOf(start, s, 0) /\ start.first = 0
      BY <1>7, <3>1, GenesisMemory
    <3>3. Len(s) \in Nat
      BY <1>7, LenProperties
    <3> HIDE DEF from, start
    <3> QED BY <1>6, <3>1, <3>2, <3>3
  <2>2. CASE keptOnes # <<>>
    <3> DEFINE sn == Last(keptOnes)
    <3>1. from = sn.number /\ start = LoadSnapshot(sn)
      BY <2>2
    <3>2. Len(keptOnes) \in Nat \ {0}
      BY <1>9, <2>2, EmptySeq
    <3>3. Loads(sn, s, n)
      <4>1. Len(keptOnes) \in 1..Len(keptOnes)
        BY <3>2
      <4> QED BY <1>10, <4>1 DEF Last
    <3> HIDE DEF sn, from, start
    <3>4. SnapshotOf(sn, s) /\ sn.number <= n
      BY <3>3 DEF Loads
    <3>5. MemoryOf(start, s, sn.number) /\ start.first = sn.first
      BY <1>7, <3>1, <3>4, LoadIs
    <3>6. sn.number \in 1..Len(s) /\ sn.first \in 0..sn.number /\ Len(s) \in Nat
      BY <1>7, <3>4, LenProperties DEF SnapshotOf
    <3> QED BY <1>6, <3>1, <3>4, <3>5, <3>6
  <2> QED BY <2>1, <2>2
<1> HIDE DEF from, start
<1>12. MemoryOf(Replayed(s, start, from), s, Len(s)) /\ Replayed(s, start, from).first = start.first
  BY <1>7, <1>11, ReplayIs
<1>13. RpcShape'
  BY <1>2, <1>3, <1>5, <1>6, <1>7, <1>9 DEF RpcShape
<1>14. \A i \in 1..Len(snapshots') : Loads(snapshots'[i], stored', onL1')
  BY <1>2, <1>3, <1>10
<1>15. MemoryOf(memory', stored', Len(stored')) /\ memory'.first <= onL1'
  BY <1>2, <1>3, <1>4, <1>11, <1>12
<1> QED BY <1>13, <1>14, <1>15 DEF RpcInv

\* With the invariant, the answers are the chain's.
LEMMA RpcAnswers == ASSUME RpcInv PROVE AnswersAreTheChains
<1> SUFFICES ASSUME serving PROVE
      /\ \A from \in 0..Len(stored) : \A to \in from..Len(stored) :
           GetLogs(from, to) = FlattenSeq([k \in 1..(to - from + 1) |-> SentIn(stored, from + k - 1)])
      /\ \A t \in memory.transactions :
            /\ Has(t.number) /\ TxHash(t.number, stored[t.number]) = t.hash
            /\ BlockReceipts(t.number) # <<>> /\ TransactionReceipt(t).hash = t.hash
      /\ Has(Len(stored)) /\ Has(onL1)
  BY DEF AnswersAreTheChains
<1>1. PICK l \in Nat : l = Len(stored)
  BY LenProperties DEF RpcInv, RpcShape
<1>2. stored \in Seq(Blks) /\ MemoryOf(memory, stored, l) /\ onL1 \in 0..l /\ memory.first <= onL1
  BY <1>1 DEF RpcInv, RpcShape
<1>3. PICK o \in Nat : o = memory.first
  BY <1>2 DEF MemoryOf
<1>4. PICK f \in Nat : f = memory.logsFrom /\ o <= f
  BY <1>2, <1>3 DEF MemoryOf
<1>5. DOMAIN memory.blocks = 1..(l - o + 1)
  BY <1>2, <1>3, LenProperties DEF MemoryOf
<1>6. ASSUME NEW n \in o..l PROVE Has(n)
  <2>1. n - o + 1 \in 1..(l - o + 1)
    BY <1>3
  <2> QED BY <1>3, <1>5, <2>1 DEF Has
<1>7. ASSUME NEW from \in 0..Len(stored), NEW to \in from..Len(stored)
      PROVE  GetLogs(from, to) = FlattenSeq([k \in 1..(to - from + 1) |-> SentIn(stored, from + k - 1)])
  <2>1. GetLogs(from, to) = Told(stored, from, to)
    BY <1>1, <1>2, LogsAre
  <2> QED BY <2>1 DEF Told
<1>8. ASSUME NEW t \in memory.transactions
      PROVE  /\ Has(t.number) /\ TxHash(t.number, stored[t.number]) = t.hash
             /\ BlockReceipts(t.number) # <<>> /\ TransactionReceipt(t).hash = t.hash
  <2> DEFINE n == t.number
  <2>1. n \in f..l /\ n # 0 /\ t.hash = TxHash(n, stored[n])
    BY <1>2, <1>4 DEF MemoryOf
  <2>2. n \in o..l
    <3> HIDE DEF n
    <3> QED BY <1>3, <1>4, <2>1
  <2>3. memory.blocks[n - o + 1] = Full(stored, n)
    BY <1>2, <1>3, <1>4, <2>1 DEF MemoryOf
  <2> DEFINE e == [hash |-> TxHash(n, stored[n]), logs |-> LogsOf(n, stored[n])]
  <2>4. BlockByNumber(n) = <<e>>
    BY <1>3, <2>1, <2>3 DEF BlockByNumber, Full
  <2>5. e.hash = TxHash(n, stored[n])
    OBVIOUS
  <2> HIDE DEF e
  <2>6. <<e>> # <<>> /\ <<e>>[1] = e
    OBVIOUS
  <2> QED BY <1>6, <2>1, <2>2, <2>4, <2>5, <2>6 DEF BlockReceipts, TransactionReceipt
<1>9. Has(l) /\ Has(onL1)
  <2>1. l \in o..l /\ onL1 \in o..l
    BY <1>2, <1>3
  <2> QED BY <1>6, <2>1
<1> QED BY <1>1, <1>7, <1>8, <1>9

\* A step that leaves the node's RPC alone.
LEMMA RpcStutter == ASSUME RpcInv, UNCHANGED rpcVars PROVE RpcInv'
BY DEF RpcInv, RpcShape, rpcVars

\* The RPC's invariant, in any run of the parts.
LEMMA RpcInvariant == DemoSpec => []RpcInv
<1>1. DemoInit => RpcInv
  BY NodeRpcInitInv DEF DemoInit
<1>2. RpcInv /\ [DemoNext]_demoVars => RpcInv'
  <2> SUFFICES ASSUME RpcInv, [DemoNext]_demoVars PROVE RpcInv'
    OBVIOUS
  <2>1. CASE NodeRpcNext
    BY <2>1, AddBlockKeeps, PostedKeeps, ExitKeeps, StartServingKeeps DEF NodeRpcNext
  <2>2. CASE UNCHANGED rpcVars
    BY <2>2, RpcStutter
  <2> QED BY <2>1, <2>2 DEF DemoNext, demoVars
<1> QED BY <1>1, <1>2, PTL DEF DemoSpec

\* For any number of blocks, snapshots, exits and starts, any range of blocks
\* answers with every message the chain sent in it, once and in order, and a
\* transaction's receipt is the one of the block that has it (l2_node.py,
\* index, snapshot, load_snapshot, unpost, logs, receipt).
THEOREM AnswersAlwaysAreTheChains == DemoSpec => []AnswersAreTheChains
<1> QED BY RpcInvariant, RpcAnswers, PTL

-----------------------------------------------------------------------------
(* The claims: what a run leaves                                           *)

\* The claims' invariant, in any run of the parts.
LEMMA ClaimsInvariant == DemoSpec => []ClaimsInv
<1>1. DemoInit => ClaimsInv
  BY ClaimsInitInv DEF DemoInit
<1>2. ClaimsInv /\ [DemoNext]_demoVars => ClaimsInv'
  <2> SUFFICES ASSUME ClaimsInv, [DemoNext]_demoVars PROVE ClaimsInv'
    OBVIOUS
  <2>1. CASE ClaimsNext
    BY <2>1, ClaimsStep
  <2>2. CASE UNCHANGED claimsVars
    BY <2>2, ClaimsStutter
  <2> QED BY <2>1, <2>2 DEF DemoNext, demoVars
<1> QED BY <1>1, <1>2, PTL DEF DemoSpec

\* For any number of claimers, blocks, rollbacks and runs, a claimer's run that
\* nothing overlaps on L2 leaves no message unclaimed that it could claim
\* (l2_claims.py, MessageCache, claim_messages): by the messages that the file
\* keeps, as no reorg here reaches below them, and by bits that it keeps, if they
\* were read on the chain of the head that they are kept with.  This leaves out
\* the runs that find bits read before a rollback and kept with a head read after
\* it (`rolled`).
THEOREM EveryRunClaimsWhatIsLeft == DemoSpec => []RunsClaimWhatIsLeft
<1>1. ClaimsInv => RunsClaimWhatIsLeft
  BY ClaimsAreLeft
<1> QED BY <1>1, ClaimsInvariant, PTL

-----------------------------------------------------------------------------
(* The follower: what the explorer shows                                   *)

\* The follower's invariant, in any run of the parts.
LEMMA FollowerInvariant == DemoSpec => []FollowerInv
<1>1. DemoInit => FollowerInv
  BY FollowerInvInit DEF DemoInit
<1>2. FollowerInv /\ [DemoNext]_demoVars => FollowerInv'
  <2> SUFFICES ASSUME FollowerInv, [DemoNext]_demoVars PROVE FollowerInv'
    OBVIOUS
  <2>1. CASE FollowerNext
    BY <2>1, FollowerInvNext
  <2>2. CASE UNCHANGED followerVars
    BY <2>2, FollowerStutter
  <2> QED BY <2>1, <2>2 DEF DemoNext, demoVars
<1> QED BY <1>1, <1>2, PTL DEF DemoSpec

\* For any number of blocks, losses of L1 blocks and crashes, and any finality
\* lag that indexing again covers: a follower that has read all that L1 has
\* shows exactly that, the transactions, the L2 blocks, both sides of every
\* message and the state of every account, if L1 lost no block since it
\* started and none of its starts was on a database that the code does not
\* recover (l2_follower.py, `follow`; explorer.py, `Explorer`).
THEOREM ExplorerAlwaysShowsL1 == DemoSpec => []ExplorerShowsL1
<1>1. FollowerInv => ExplorerShowsL1
  BY ShowsL1
<1> QED BY <1>1, FollowerInvariant, PTL

-----------------------------------------------------------------------------
(* The types: the withdrawals                                              *)

Versions == 0..MaxDisturbances
BoundedTxs == [kind : {"post", "claim"}, index : 0..MaxPosted, root : Seq(Versions)]
BoundedThreads == [at : Places, todo : Seq(Indices), root : Seq(Versions), since : 0..MaxL1Chain]

\* The types with their bounds, and what they need of the next step: a thread
\* that is not idle has a message.
WithdrawalsTypes ==
    /\ l1Chain \in Seq(BoundedTxs) /\ Len(l1Chain) <= MaxL1Chain
    /\ Len(Rollup.posted) <= MaxPosted
    /\ claimTxs \subseteq BoundedTxs /\ \A c \in claimTxs : c.kind = "claim"
    /\ safe \in Seq(Versions) /\ Len(safe) <= MaxPosted
    /\ known \subseteq Indices
    /\ claimers \in [Threads -> BoundedThreads]
    /\ \A t \in Threads : claimers[t].at # "idle" => claimers[t].todo # <<>>
    /\ unpaid \subseteq known /\ strays \subseteq Threads /\ disturbances \in Versions

\* A list of messages in the order of their blocks.
LEMMA InBlockOrderIs ==
    ASSUME NEW s, s \subseteq Indices, NEW n \in Nat
    PROVE  InBlockOrder(s, n) \in Seq(Indices)
<1> DEFINE op(r, i) == IF i \in s THEN Append(r, i) ELSE r
<1> DEFINE ns == [i \in 1..n |-> i]
<1> DEFINE r == InBlockOrder(s, n)
<1>1. ns \in Seq(Nat) /\ Len(ns) = n /\ \A k \in 1..n : ns[k] = k
  BY IsASeq
<1>2. FoldIs(r, op, <<>>, ns)
  BY DEF FoldIs, InBlockOrder
<1> HIDE DEF r, ns
<1>3. FoldSteps(r, op, <<>>, ns)
  BY <1>1, <1>2, FoldLeftSteps
<1>4. PICK g : g[0] = <<>> /\ (\A k \in 1..n : g[k] = op(g[k - 1], ns[k])) /\ r = g[n]
  BY <1>1, <1>3 DEF FoldSteps
<1> DEFINE T == {k \in Nat : k <= n => g[k] \in Seq(Indices)}
<1>5. 0 \in T
  BY <1>4, EmptySeq
<1>6. ASSUME NEW k \in Nat, k \in T PROVE k + 1 \in T
  <2> SUFFICES ASSUME k + 1 <= n PROVE g[k + 1] \in Seq(Indices)
    OBVIOUS
  <2>1. k + 1 \in 1..n /\ (k + 1) - 1 = k /\ k <= n
    OBVIOUS
  <2>2. g[k] \in Seq(Indices)
    BY <1>6, <2>1
  <2>3. g[k + 1] = IF k + 1 \in s THEN Append(g[k], k + 1) ELSE g[k]
    BY <1>1, <1>4, <2>1
  <2>4. k + 1 \in s => Append(g[k], k + 1) \in Seq(Indices)
    BY <2>2, AppendProperties
  <2> QED BY <2>2, <2>3, <2>4
<1> HIDE DEF T
<1>7. Nat \subseteq T
  BY <1>5, <1>6, SetInduction
<1>8. r \in Seq(Indices)
  BY <1>4, <1>7 DEF T
<1> QED BY <1>8 DEF r

\* The contract has versions and messages within the bounds.
LEMMA RollupTyped ==
    ASSUME NEW s \in Seq(BoundedTxs), NEW n \in 0..Len(s)
    PROVE  /\ RollupAt(s, n).posted \in Seq(Versions)
           /\ RollupAt(s, n).claimed \subseteq 0..MaxPosted
           /\ Len(RollupAt(s, n).posted) <= Len(RollupAt(s, Len(s)).posted)
<1> DEFINE Good(st) == /\ DOMAIN st = {"posted", "claimed"}
                       /\ st.posted \in Seq(Versions) /\ st.claimed \subseteq 0..MaxPosted
<1> DEFINE T == {k \in Nat : k <= Len(s) => Good(RollupAt(s, k))}
<1>1. Len(s) \in Nat
  BY LenProperties
<1>2. 0 \in T
  <2>1. Good(Deployed)
    BY EmptySeq DEF Deployed
  <2>2. RollupAt(s, 0) = Deployed
    BY RollupAtNext
  <2> HIDE DEF Good
  <2> QED BY <2>1, <2>2
<1>3. ASSUME NEW k \in Nat, k \in T PROVE k + 1 \in T
  <2> SUFFICES ASSUME k + 1 <= Len(s) PROVE Good(RollupAt(s, k + 1))
    OBVIOUS
  <2>1. PICK st, tx : st = RollupAt(s, k) /\ tx = s[k + 1]
    OBVIOUS
  <2>2. Good(st) /\ tx \in BoundedTxs /\ RollupAt(s, k + 1) = Apply(st, tx)
    <3>1. k <= Len(s) /\ k + 1 \in 1..Len(s)
      BY <1>1
    <3>2. Good(st)
      BY <1>3, <2>1, <3>1
    <3>3. tx \in BoundedTxs
      BY <2>1, <3>1, ElementOfSeq
    <3> HIDE DEF Good
    <3> QED BY <2>1, <3>2, <3>3, RollupAtNext
  <2>3. st.posted \o tx.root \in Seq(Versions) /\ tx.index \in 0..MaxPosted
    BY <2>2, ConcatProperties DEF BoundedTxs
  <2>4. Good(Apply(st, tx))
    BY <2>2, <2>3 DEF Apply
  <2> HIDE DEF Good
  <2> QED BY <2>2, <2>4
<1> HIDE DEF T
<1>4. Nat \subseteq T
  BY <1>2, <1>3, SetInduction
<1>5. n \in Nat /\ n <= Len(s)
  BY <1>1
<1>6. Good(RollupAt(s, n))
  BY <1>4, <1>5 DEF T
<1>7. s \in Seq(L1Txs(0..MaxPosted))
  <2>1. Seq(Versions) \subseteq Seq(Nat)
    <3>1. Versions \subseteq Nat
      BY DEF Versions
    <3> QED BY <3>1, SeqMonotonic
  <2>2. BoundedTxs \subseteq L1Txs(0..MaxPosted)
    BY <2>1 DEF BoundedTxs, L1Txs
  <2> QED BY <2>2, SeqMonotonic
<1>8. Begins(RollupAt(s, n).posted, RollupAt(s, Len(s)).posted)
  <2>1. Len(s) \in 0..Len(s) /\ n \in 0..Len(s)
    BY <1>1
  <2> QED BY <1>7, <2>1, RollupKeeps
<1> QED BY <1>6, <1>8 DEF Begins

\* The types of the contract, after all of L1.
LEMMA RollupNow ==
    ASSUME WithdrawalsTypes
    PROVE  /\ Rollup = RollupAt(l1Chain, Len(l1Chain)) /\ Len(l1Chain) \in Nat
           /\ Rollup.posted \in Seq(Versions) /\ Rollup.claimed \subseteq 0..MaxPosted
           /\ Len(Rollup.posted) \in Nat /\ Len(Rollup.posted) <= MaxPosted /\ DOMAIN Rollup.posted \subseteq Indices
<1>1. l1Chain \in Seq(BoundedTxs) /\ Len(l1Chain) \in Nat
  BY LenProperties DEF WithdrawalsTypes
<1>2. Rollup = RollupAt(l1Chain, Len(l1Chain))
  BY <1>1, RollupIsAt DEF Rollup, Deployed
<1>3. Rollup.posted \in Seq(Versions) /\ Rollup.claimed \subseteq 0..MaxPosted
  <2>1. Len(l1Chain) \in 0..Len(l1Chain)
    BY <1>1
  <2> QED BY <1>1, <1>2, <2>1, RollupTyped
<1>4. Len(Rollup.posted) \in Nat /\ DOMAIN Rollup.posted = 1..Len(Rollup.posted)
  BY <1>3, LenProperties
<1>5. Len(Rollup.posted) <= MaxPosted /\ MaxPosted \in Nat
  BY WithdrawalsAssumption DEF WithdrawalsTypes
<1>6. DOMAIN Rollup.posted \subseteq Indices
  BY <1>4, <1>5 DEF Indices
<1> QED BY <1>1, <1>2, <1>3, <1>4, <1>5, <1>6

\* L1's next block, a post that has room or a claim.
LEMMA NextBlockTypes ==
    ASSUME WithdrawalsTypes, NEW tx \in BoundedTxs, l1Chain' = Append(l1Chain, tx), Len(l1Chain) < MaxL1Chain,
           \/ tx.kind = "claim"
           \/ tx.kind = "post" /\ Len(tx.root) = 1 /\ Len(Rollup.posted) < MaxPosted
    PROVE  /\ l1Chain' \in Seq(BoundedTxs) /\ Len(l1Chain') <= MaxL1Chain
           /\ Len(Rollup'.posted) <= MaxPosted
<1>1. PICK l \in Nat : l = Len(l1Chain)
  BY LenProperties DEF WithdrawalsTypes
<1>2. /\ l1Chain' \in Seq(BoundedTxs) /\ Len(l1Chain') = l + 1
      /\ (\A k \in 1..l : l1Chain'[k] = l1Chain[k]) /\ l1Chain'[l + 1] = tx
  BY <1>1, AppendProperties DEF WithdrawalsTypes
<1>3. Rollup = RollupAt(l1Chain, l) /\ Rollup.posted \in Seq(Versions)
      /\ Len(Rollup.posted) \in Nat /\ Len(Rollup.posted) <= MaxPosted
  BY <1>1, RollupNow
<1>4. Rollup' = Apply(Rollup, tx)
  <2>1. Rollup' = RollupAt(l1Chain', l + 1)
    BY <1>2, RollupIsAt DEF Rollup, Deployed
  <2>2. PICK c : c = l1Chain'
    OBVIOUS
  <2>3. RollupAt(c, l) = RollupAt(l1Chain, l)
    BY <1>2, <2>2, RollupAtSame
  <2>4. RollupAt(c, l + 1) = Apply(RollupAt(c, l), c[l + 1])
    BY RollupAtNext
  <2> QED BY <1>2, <1>3, <2>1, <2>2, <2>3, <2>4
<1>5. PICK r : r = Rollup
  OBVIOUS
<1>6. Len(Apply(r, tx).posted) <= MaxPosted
  <2>1. CASE tx.kind = "claim"
    <3>1. Apply(r, tx).posted = r.posted
      BY <2>1 DEF Apply
    <3> QED BY <1>3, <1>5, <3>1
  <2>2. CASE tx.kind = "post" /\ Len(tx.root) = 1 /\ Len(Rollup.posted) < MaxPosted
    <3>1. r \in [posted : Seq(Nat), claimed : SUBSET (0..MaxPosted)]
      <4>1. Seq(Versions) \subseteq Seq(Nat)
        <5>1. Versions \subseteq Nat
          BY DEF Versions
        <5> QED BY <5>1, SeqMonotonic
      <4>2. BoundedTxs \subseteq L1Txs(0..MaxPosted)
        BY <4>1 DEF BoundedTxs, L1Txs
      <4>3. l1Chain \in Seq(L1Txs(0..MaxPosted)) /\ l \in 0..Len(l1Chain)
        BY <1>1, <4>2, SeqMonotonic DEF WithdrawalsTypes
      <4>4. RollupAt(l1Chain, l) \in RollupStates(0..MaxPosted)
        BY <4>3, RollupKeeps
      <4> QED BY <1>3, <1>5, <4>4 DEF RollupStates
    <3>2. Apply(r, tx).posted = r.posted \o tx.root
      BY <2>2, <3>1 DEF Apply
    <3>3. tx.root \in Seq(Versions)
      BY DEF BoundedTxs
    <3>4. Len(r.posted \o tx.root) = Len(r.posted) + Len(tx.root)
      BY <1>3, <1>5, <3>3, ConcatProperties
    <3>5. MaxPosted \in Nat
      BY WithdrawalsAssumption
    <3> QED BY <1>3, <1>5, <2>2, <3>2, <3>4, <3>5
  <2> QED BY <2>1, <2>2
<1>7. Len(l1Chain') <= MaxL1Chain
  <2>1. MaxL1Chain \in Nat
    BY WithdrawalsAssumption
  <2> QED BY <1>1, <1>2, <2>1
<1> QED BY <1>2, <1>4, <1>5, <1>6, <1>7

\* With the bounds, they are the types.
LEMMA WithdrawalsTyped == ASSUME WithdrawalsTypes PROVE WithdrawalsTypeOK
BY DEF WithdrawalsTypes, WithdrawalsTypeOK, BoundedTxs, BoundedThreads, Places, Versions

\* At the start.
LEMMA WithdrawalsTypesInit == ASSUME WithdrawalsInit PROVE WithdrawalsTypes
<1>1. /\ <<>> \in Seq(Versions) /\ <<>> \in Seq(Indices) /\ <<>> \in Seq(BoundedTxs) /\ Len(<<>>) = 0
  BY EmptySeq
<1>2. MaxPosted \in Nat /\ MaxL1Chain \in Nat /\ MaxDisturbances \in Nat
  BY WithdrawalsAssumption
<1>3. Idle \in BoundedThreads /\ Idle.at = "idle"
  BY <1>1, <1>2 DEF Idle, BoundedThreads, Places
<1>4. Len(Rollup.posted) = 0
  <2>1. Rollup = RollupAt(l1Chain, 0)
    BY <1>1, RollupIsAt DEF WithdrawalsInit, Rollup, Deployed
  <2>2. RollupAt(l1Chain, 0) = Deployed
    BY RollupAtNext
  <2> QED BY <1>1, <2>1, <2>2 DEF Deployed
<1>5. 0 \in Versions
  BY <1>2 DEF Versions
<1> QED BY <1>1, <1>2, <1>3, <1>4, <1>5 DEF WithdrawalsInit, WithdrawalsTypes

\* A thread's step, to a state with a message if it is not idle.
LEMMA ThreadTypes ==
    ASSUME WithdrawalsTypes, NEW t \in Threads, NEW c \in BoundedThreads, c.at # "idle" => c.todo # <<>>,
           UNCHANGED <<l1Chain, safe, disturbances>>, claimers' = [claimers EXCEPT ![t] = c],
           claimTxs' \subseteq BoundedTxs, \A d \in claimTxs' : d.kind = "claim", known' \subseteq Indices,
           unpaid' \subseteq known', strays' \subseteq Threads
    PROVE  WithdrawalsTypes'
<1>1. claimers' \in [Threads -> BoundedThreads] /\ \A u \in Threads : claimers'[u].at # "idle" => claimers'[u].todo # <<>>
  BY DEF WithdrawalsTypes
<1>2. Rollup' = Rollup
  BY DEF Rollup
<1> QED BY <1>1, <1>2 DEF WithdrawalsTypes

\* A thread goes on with a list.
LEMMA OnwardsTypes ==
    ASSUME NEW th, NEW rest \in Seq(Indices)
    PROVE  Onwards(th, rest) \in BoundedThreads /\ (Onwards(th, rest).at # "idle" => Onwards(th, rest).todo # <<>>)
<1>1. /\ <<>> \in Seq(Versions) /\ <<>> \in Seq(Indices) /\ 0 \in 0..MaxL1Chain
  BY EmptySeq, WithdrawalsAssumption
<1> DEFINE place == IF rest = <<>> THEN "idle" ELSE "check"
<1>2. Idle \in BoundedThreads
  BY <1>1 DEF Idle, BoundedThreads, Places
<1>3. Onwards(th, rest) = [Idle EXCEPT !.todo = rest, !.at = place]
  BY DEF Onwards
<1>4. place \in Places /\ (place # "idle" => rest # <<>>)
  BY DEF Places
<1> HIDE DEF place
<1>5. ASSUME NEW c \in BoundedThreads
      PROVE  [c EXCEPT !.todo = rest, !.at = place] \in BoundedThreads
             /\ [c EXCEPT !.todo = rest, !.at = place].at = place /\ [c EXCEPT !.todo = rest, !.at = place].todo = rest
  BY <1>4 DEF BoundedThreads
<1> QED BY <1>2, <1>3, <1>4, <1>5

\* What a thread at work has.
LEMMA MessageIs ==
    ASSUME WithdrawalsTypes, NEW t \in Threads
    PROVE  /\ claimers[t] \in BoundedThreads
           /\ claimers[t].at # "idle" => /\ Message(t) \in Indices /\ Tail(claimers[t].todo) \in Seq(Indices)
                                         /\ claimers[t].todo # <<>>
<1>1. claimers[t] \in BoundedThreads /\ claimers[t].todo \in Seq(Indices)
      /\ (claimers[t].at # "idle" => claimers[t].todo # <<>>)
  BY DEF WithdrawalsTypes, BoundedThreads
<1>2. ASSUME NEW s \in Seq(Indices), s # <<>> PROVE Head(s) \in Indices /\ Tail(s) \in Seq(Indices)
  BY <1>2, HeadTailProperties
<1> QED BY <1>1, <1>2 DEF Message

\* A thread is done with its message.
LEMMA DoneTypes ==
    ASSUME WithdrawalsTypes, NEW t \in Threads, claimers[t].at # "idle", Done(t), UNCHANGED claimTxs,
           UNCHANGED <<l1Chain, safe, strays, disturbances>>, known' \subseteq known \cup {Message(t)},
           unpaid' \subseteq known'
    PROVE  WithdrawalsTypes'
<1> DEFINE rest == Tail(claimers[t].todo)
<1> DEFINE c == Onwards(claimers[t], rest)
<1>1. rest \in Seq(Indices) /\ Message(t) \in Indices
  BY MessageIs
<1>2. claimers' = [claimers EXCEPT ![t] = c]
  BY DEF Done
<1> HIDE DEF rest
<1>3. c \in BoundedThreads /\ (c.at # "idle" => c.todo # <<>>)
  BY <1>1, OnwardsTypes
<1> HIDE DEF c
<1>4. claimTxs' \subseteq BoundedTxs /\ (\A d \in claimTxs' : d.kind = "claim") /\ known' \subseteq Indices
      /\ strays' \subseteq Threads
  BY <1>1 DEF WithdrawalsTypes
<1> QED BY <1>2, <1>3, <1>4, ThreadTypes

\* And after each step.
LEMMA WithdrawalsTypesStep == ASSUME WithdrawalsTypes, WithdrawalsNext PROVE WithdrawalsTypes'
<1>1. /\ MaxPosted \in Nat /\ MaxL1Chain \in Nat /\ MaxDisturbances \in Nat /\ disturbances \in Versions
      /\ Len(l1Chain) \in Nat /\ Len(safe) \in Nat /\ Len(safe) <= MaxPosted /\ DOMAIN safe \subseteq Indices
  <2>1. MaxPosted \in Nat /\ MaxL1Chain \in Nat /\ MaxDisturbances \in Nat
    BY WithdrawalsAssumption
  <2>2. disturbances \in Versions /\ Len(l1Chain) \in Nat /\ Len(safe) \in Nat /\ Len(safe) <= MaxPosted
        /\ DOMAIN safe = 1..Len(safe)
    BY LenProperties DEF WithdrawalsTypes
  <2>3. 1..Len(safe) \subseteq Indices
    BY <2>1, <2>2 DEF Indices
  <2> QED BY <2>1, <2>2, <2>3
<1>2. CASE NewPost
  <2>1. Post(disturbances) \in BoundedTxs /\ Post(disturbances).kind = "post" /\ Len(Post(disturbances).root) = 1
    <3>1. <<disturbances>> \in Seq(Versions) /\ Len(<<disturbances>>) = 1
      BY <1>1
    <3> QED BY <1>1, <3>1 DEF Post, BoundedTxs
  <2>2. l1Chain' \in Seq(BoundedTxs) /\ Len(l1Chain') <= MaxL1Chain /\ Len(Rollup'.posted) <= MaxPosted
    BY <1>2, <2>1, NextBlockTypes DEF NewPost
  <2> QED BY <1>2, <2>2 DEF NewPost, WithdrawalsTypes
<1>3. CASE IncludeClaim
  <2>1. PICK c \in claimTxs : l1Chain' = Append(l1Chain, c) /\ claimTxs' = claimTxs \ {c}
    BY <1>3 DEF IncludeClaim
  <2>2. c \in BoundedTxs /\ c.kind = "claim"
    BY DEF WithdrawalsTypes
  <2>3. l1Chain' \in Seq(BoundedTxs) /\ Len(l1Chain') <= MaxL1Chain /\ Len(Rollup'.posted) <= MaxPosted
    BY <1>3, <2>1, <2>2, NextBlockTypes DEF IncludeClaim
  <2>4. claimTxs' \subseteq claimTxs
    BY <2>1
  <2> QED BY <1>3, <2>3, <2>4 DEF IncludeClaim, WithdrawalsTypes
<1>4. CASE ClaimByOthers
  <2>1. PICK i \in DOMAIN Rollup.posted \ Rollup.claimed : l1Chain' = Append(l1Chain, Claim(i, Rollup.posted))
    BY <1>4 DEF ClaimByOthers
  <2>2. Claim(i, Rollup.posted) \in BoundedTxs /\ Claim(i, Rollup.posted).kind = "claim"
    BY <1>1, RollupNow DEF Claim, BoundedTxs, Indices
  <2>3. l1Chain' \in Seq(BoundedTxs) /\ Len(l1Chain') <= MaxL1Chain /\ Len(Rollup'.posted) <= MaxPosted
    BY <1>4, <2>1, <2>2, NextBlockTypes DEF ClaimByOthers
  <2> QED BY <1>4, <2>3 DEF ClaimByOthers, WithdrawalsTypes
<1>5. CASE LoseClaims
  <2>1. PICK n \in 0..(Len(l1Chain) - 1) :
          /\ l1Chain' = SubSeq(l1Chain, 1, n)
          /\ claimTxs' = claimTxs \cup {c \in {l1Chain[k] : k \in (n + 1)..Len(l1Chain)} : c.kind = "claim"}
          /\ claimers' = [t \in Threads |-> [claimers[t] EXCEPT !.since = IF @ > n THEN n ELSE @]]
    BY <1>5 DEF LoseClaims
  <2>2. n \in Nat /\ n <= Len(l1Chain) /\ n <= MaxL1Chain /\ n \in 0..Len(l1Chain)
    BY <1>1 DEF WithdrawalsTypes
  <2>3. l1Chain' \in Seq(BoundedTxs) /\ Len(l1Chain') = n /\ \A k \in 1..n : l1Chain'[k] = l1Chain[k]
    BY <2>1, <2>2, FirstOf DEF WithdrawalsTypes
  <2>4. Len(Rollup'.posted) <= MaxPosted
    <3>1. PICK c : c = l1Chain'
      OBVIOUS
    <3>2. Rollup' = RollupAt(c, n)
      BY <2>3, <3>1, RollupIsAt DEF Rollup, Deployed
    <3>3. RollupAt(c, n) = RollupAt(l1Chain, n)
      BY <2>2, <2>3, <3>1, RollupAtSame
    <3>4. l1Chain \in Seq(BoundedTxs)
      BY DEF WithdrawalsTypes
    <3>5. /\ RollupAt(l1Chain, n).posted \in Seq(Versions)
          /\ Len(RollupAt(l1Chain, n).posted) <= Len(RollupAt(l1Chain, Len(l1Chain)).posted)
      BY <2>2, <3>4, RollupTyped
    <3>6. Len(RollupAt(l1Chain, n).posted) \in Nat
      BY <3>5, LenProperties
    <3> QED BY <1>1, <3>2, <3>3, <3>5, <3>6, RollupNow
  <2>5. claimTxs' \subseteq BoundedTxs /\ \A c \in claimTxs' : c.kind = "claim"
    <3>1. \A k \in (n + 1)..Len(l1Chain) : l1Chain[k] \in BoundedTxs
      <4>1. \A k \in (n + 1)..Len(l1Chain) : k \in 1..Len(l1Chain)
        BY <1>1, <2>2
      <4> QED BY <4>1, ElementOfSeq DEF WithdrawalsTypes
    <3> QED BY <2>1, <3>1 DEF WithdrawalsTypes
  <2>6. claimers' \in [Threads -> BoundedThreads] /\ \A t \in Threads : claimers'[t].at # "idle" => claimers'[t].todo # <<>>
    <3>1. ASSUME NEW c \in BoundedThreads, NEW r, r = [c EXCEPT !.since = IF @ > n THEN n ELSE @]
          PROVE  r \in BoundedThreads /\ r.at = c.at /\ r.todo = c.todo
      BY <2>2, <3>1 DEF BoundedThreads
    <3>2. \A t \in Threads : claimers[t] \in BoundedThreads /\ (claimers[t].at # "idle" => claimers[t].todo # <<>>)
      BY DEF WithdrawalsTypes
    <3>3. \A t \in Threads : claimers'[t] \in BoundedThreads /\ claimers'[t].at = claimers[t].at
                              /\ claimers'[t].todo = claimers[t].todo
      BY <2>1, <3>1, <3>2
    <3>4. claimers' = [t \in Threads |-> claimers'[t]]
      BY <2>1
    <3> QED BY <3>2, <3>3, <3>4
  <2>7. disturbances' \in Versions
    BY <1>1, <1>5 DEF LoseClaims, Versions
  <2>8. Len(l1Chain') <= MaxL1Chain
    BY <2>2, <2>3
  <2> QED BY <1>5, <2>3, <2>4, <2>5, <2>6, <2>7, <2>8 DEF LoseClaims, WithdrawalsTypes
<1>6. CASE FollowPosts
  <2>1. Rollup' = Rollup
    BY <1>6 DEF FollowPosts, Rollup
  <2> QED BY <1>6, <2>1, RollupNow DEF FollowPosts, WithdrawalsTypes
<1>7. CASE NextEpisode
  <2>1. Rollup' = Rollup
    BY <1>7 DEF NextEpisode, Rollup
  <2>2. safe' \in Seq(Versions) /\ Len(safe') <= MaxPosted
    <3>1. PICK n : n = Len(Rollup.posted)
      OBVIOUS
    <3>2. safe' = safe \/ (n < Len(safe) /\ safe' = SubSeq(safe, 1, n))
      BY <1>7, <3>1 DEF NextEpisode
    <3>3. CASE n < Len(safe) /\ safe' = SubSeq(safe, 1, n)
      <4>1. n \in Nat /\ n <= Len(safe)
        BY <1>1, <3>1, <3>3, RollupNow
      <4>2. safe' \in Seq(Versions) /\ Len(safe') = n
        BY <3>3, <4>1, FirstOf DEF WithdrawalsTypes
      <4> QED BY <1>1, <4>1, <4>2
    <3>4. CASE safe' = safe
      BY <3>4 DEF WithdrawalsTypes
    <3> QED BY <3>2, <3>3, <3>4
  <2>3. Idle \in BoundedThreads /\ Idle.at = "idle"
    <3>1. <<>> \in Seq(Versions) /\ <<>> \in Seq(Indices)
      BY EmptySeq
    <3> QED BY <1>1, <3>1 DEF Idle, BoundedThreads, Places
  <2>4. disturbances' \in Versions
    BY <1>1, <1>7 DEF NextEpisode, Versions
  <2> QED BY <1>7, <2>1, <2>2, <2>3, <2>4 DEF NextEpisode, WithdrawalsTypes
<1>8. ASSUME NEW t \in Threads, List(t) PROVE WithdrawalsTypes'
  <2> DEFINE due == {i \in DOMAIN safe : (t = "story" <=> i \in UserMessages) /\ i \notin known}
  <2> DEFINE rest == InBlockOrder(due \ known', Len(safe))
  <2> DEFINE c == Onwards(claimers[t], rest)
  <2>1. due \subseteq Indices
    BY <1>1
  <2>2. claimers' = [claimers EXCEPT ![t] = c] /\ known' \subseteq known \cup due
    BY <1>8 DEF List
  <2> HIDE DEF due
  <2>3. due \ known' \subseteq Indices
    BY <2>1
  <2>4. rest \in Seq(Indices)
    BY <1>1, <2>3, InBlockOrderIs
  <2> HIDE DEF rest
  <2>5. c \in BoundedThreads /\ (c.at # "idle" => c.todo # <<>>)
    BY <2>4, OnwardsTypes
  <2> HIDE DEF c
  <2>6. known' \subseteq Indices
    BY <2>1, <2>2 DEF WithdrawalsTypes
  <2> QED BY <1>8, <2>2, <2>5, <2>6, ThreadTypes DEF List, At, WithdrawalsTypes
<1>9. ASSUME NEW t \in Threads, Check(t) PROVE WithdrawalsTypes'
  <2>1. CASE Message(t) \in Rollup.claimed
    <3>1. unpaid' \subseteq known' /\ known' \subseteq known \cup {Message(t)}
      BY <1>9, <2>1 DEF Check, WithdrawalsTypes
    <3> QED BY <1>9, <2>1, <3>1, DoneTypes DEF Check, At
  <2>2. CASE Message(t) \notin Rollup.claimed
    <3>1. PICK c : c = [claimers[t] EXCEPT !.at = "prove"]
      OBVIOUS
    <3>2. c \in BoundedThreads /\ (c.at # "idle" => c.todo # <<>>)
      <4>1. claimers[t] \in BoundedThreads /\ claimers[t].todo # <<>>
        BY <1>9, MessageIs DEF Check, At
      <4> QED BY <3>1, <4>1 DEF BoundedThreads, Places
    <3>3. claimers' = [claimers EXCEPT ![t] = c]
      BY <1>9, <2>2, <3>1 DEF Check
    <3> QED BY <1>9, <2>2, <3>2, <3>3, ThreadTypes DEF Check, At, WithdrawalsTypes
  <2> QED BY <2>1, <2>2
<1>10. ASSUME NEW t \in Threads, Prove(t) PROVE WithdrawalsTypes'
  <2>1. PICK c : c = Proving(claimers[t], safe)
    OBVIOUS
  <2>2. claimers[t] \in BoundedThreads /\ claimers[t].todo # <<>>
    BY <1>10, MessageIs DEF Prove, At
  <2>3. c \in BoundedThreads /\ (c.at # "idle" => c.todo # <<>>)
    BY <2>1, <2>2 DEF Proving, BoundedThreads, Places, WithdrawalsTypes
  <2>4. claimers' = [claimers EXCEPT ![t] = c]
    BY <1>10, <2>1, <2>2 DEF Prove, Proving, WithdrawalsTypes, BoundedThreads
  <2> QED BY <1>10, <2>3, <2>4, ThreadTypes DEF Prove, At, WithdrawalsTypes
<1>11. ASSUME NEW t \in Threads, SendWithdrawal(t) PROVE WithdrawalsTypes'
  <2>1. CASE HasRoot(claimers[t].root)
    <3>1. PICK c : c = Sending(claimers[t], Len(l1Chain))
      OBVIOUS
    <3>2. claimers[t] \in BoundedThreads /\ claimers[t].todo # <<>> /\ Message(t) \in Indices
      BY <1>11, MessageIs DEF SendWithdrawal, At
    <3>3. Len(l1Chain) \in 0..MaxL1Chain
      BY <1>1 DEF WithdrawalsTypes
    <3>4. c \in BoundedThreads /\ (c.at # "idle" => c.todo # <<>>)
      BY <3>1, <3>2, <3>3 DEF Sending, BoundedThreads, Places
    <3>5. claimers' = [claimers EXCEPT ![t] = c]
      BY <1>11, <2>1, <3>1, <3>2 DEF SendWithdrawal, Sending, WithdrawalsTypes, BoundedThreads
    <3>6. Claim(Message(t), claimers[t].root) \in BoundedTxs /\ Claim(Message(t), claimers[t].root).kind = "claim"
      BY <1>1, <3>2 DEF Claim, BoundedTxs, BoundedThreads, Indices
    <3>7. claimTxs' = claimTxs \cup {Claim(Message(t), claimers[t].root)}
      BY <1>11, <2>1 DEF SendWithdrawal
    <3>8. claimTxs' \subseteq BoundedTxs /\ (\A d \in claimTxs' : d.kind = "claim") /\ known' \subseteq Indices
      BY <1>11, <3>6, <3>7 DEF WithdrawalsTypes, SendWithdrawal
    <3>9. unpaid' \subseteq known' /\ strays' \subseteq Threads
      BY <1>11, <2>1 DEF SendWithdrawal, WithdrawalsTypes
    <3> QED BY <1>11, <3>4, <3>5, <3>8, <3>9, ThreadTypes DEF SendWithdrawal, At
  <2>2. CASE ~HasRoot(claimers[t].root)
    <3>1. unpaid' \subseteq known' /\ known' = known
      BY <1>11 DEF SendWithdrawal, WithdrawalsTypes
    <3> QED BY <1>11, <2>2, <3>1, DoneTypes DEF SendWithdrawal, At
  <2> QED BY <2>1, <2>2
<1>12. ASSUME NEW t \in Threads, Receipt(t) PROVE WithdrawalsTypes'
  <2>1. unpaid' \subseteq known' /\ known' \subseteq known \cup {Message(t)}
    BY <1>12 DEF Receipt, WithdrawalsTypes
  <2> QED BY <1>12, <2>1, DoneTypes DEF Receipt, At
<1>13. ASSUME NEW t \in Threads, GiveUp(t) PROVE WithdrawalsTypes'
  BY <1>13, DoneTypes DEF GiveUp, WithdrawalsTypes
<1> QED BY <1>2, <1>3, <1>4, <1>5, <1>6, <1>7, <1>8, <1>9, <1>10, <1>11, <1>12, <1>13 DEF WithdrawalsNext

\* A step that leaves the withdrawals alone.
LEMMA WithdrawalsTypesStutter == ASSUME WithdrawalsTypes, UNCHANGED withdrawalsVars PROVE WithdrawalsTypes'
BY DEF WithdrawalsTypes, withdrawalsVars, Rollup

-----------------------------------------------------------------------------
(* The types: the posting loop                                             *)

\* The chains up to the bounds, the blocks (those with something in them),
\* and the posts of them.
BoundedChains == {s \in Seq(0..MaxFaults) : Len(s) <= MaxHeight}
BoundedBlocks == {s \in BoundedChains : s # <<>>}
BoundedPosts == [block : BoundedBlocks, nonce : Nat]

\* No client has a post with nonce `K` or more.
NoncesBelow(ps, K) == \A c \in Clients : \A p \in ps[c] : p.nonce < K

PoolsTyped(ps) ==
    /\ ps \in [Clients -> SUBSET BoundedPosts]
    /\ \A c \in Clients : IsFiniteSet(ps[c])
    /\ \E K \in Nat : NoncesBelow(ps, K)

L1Typed == l1 \in Seq([block : BoundedBlocks, ok : BOOLEAN])

PostingTypes ==
    /\ L1Typed
    /\ PoolsTyped(pools)
    /\ builders \subseteq Clients
    /\ l2 \in BoundedChains /\ final \in 0..Len(l2)
    /\ pc \in {"receipts", "confirmed", "pending", "offer", "fetch", "send"}
    /\ inFlight \in SUBSET BoundedPosts /\ IsFiniteSet(inFlight)
    /\ offered \subseteq 1..MaxHeight
    /\ confirmed \in Nat /\ pending \in Nat
    /\ ready \in Seq(BoundedBlocks)
    /\ faults \in 0..MaxFaults /\ restarts \in 0..MaxRestarts

\* They are the types, and more.
LEMMA PostingTyped == ASSUME PostingTypes PROVE PostingTypeOK
<1>1. BoundedBlocks \subseteq Blocks /\ BoundedChains \subseteq Blocks
  BY DEF BoundedBlocks, BoundedChains, Blocks
<1>2. BoundedPosts \subseteq Posts
  BY <1>1 DEF BoundedPosts, Posts
<1>3. \A i \in DOMAIN l1 : l1[i].block \in Blocks /\ l1[i].ok \in BOOLEAN
  <2>1. DOMAIN l1 = 1..Len(l1)
    BY LenProperties DEF PostingTypes, L1Typed
  <2>2. \A i \in 1..Len(l1) : l1[i] \in [block : BoundedBlocks, ok : BOOLEAN]
    BY ElementOfSeq DEF PostingTypes, L1Typed
  <2> QED BY <1>1, <2>1, <2>2
<1>4. \A c \in Clients : \A p \in pools[c] : p \in Posts
  BY <1>2 DEF PostingTypes, PoolsTyped
<1>5. ready \in Seq(Blocks)
  BY <1>1, SeqMonotonic DEF PostingTypes
<1> QED BY <1>1, <1>2, <1>3, <1>4, <1>5 DEF PostingTypes, PostingTypeOK

\* A beginning of a chain is a chain.
LEMMA BeginningOfChain ==
    ASSUME NEW s \in BoundedChains, NEW n \in 0..Len(s)
    PROVE  SubSeq(s, 1, n) \in BoundedChains /\ Len(SubSeq(s, 1, n)) = n
<1>1. s \in Seq(0..MaxFaults) /\ Len(s) \in Nat /\ Len(s) <= MaxHeight /\ n \in Nat /\ n <= Len(s)
  BY LenProperties DEF BoundedChains
<1>2. SubSeq(s, 1, n) \in Seq(0..MaxFaults) /\ Len(SubSeq(s, 1, n)) = n
  BY <1>1, FirstOf
<1>3. MaxHeight \in Nat
  BY PostingAssumption
<1>4. n <= MaxHeight
  BY <1>1, <1>3
<1> QED BY <1>2, <1>4 DEF BoundedChains

\* A block's number.
LEMMA NumberIs ==
    ASSUME NEW b \in BoundedBlocks
    PROVE  b \in BoundedChains /\ Len(b) \in 1..MaxHeight
<1>1. b \in Seq(0..MaxFaults) /\ Len(b) \in Nat /\ Len(b) <= MaxHeight /\ b # <<>> /\ MaxHeight \in Nat
  BY LenProperties, PostingAssumption DEF BoundedBlocks, BoundedChains
<1>2. Len(b) # 0
  BY <1>1, EmptySeq
<1> QED BY <1>1, <1>2 DEF BoundedBlocks

\* The empty chain is one.
LEMMA EmptyChain == <<>> \in BoundedChains
<1>1. <<>> \in Seq(0..MaxFaults) /\ Len(<<>>) = 0 /\ MaxHeight \in Nat
  BY EmptySeq, PostingAssumption
<1> QED BY <1>1 DEF BoundedChains

\* The rollup's head is a chain.
LEMMA HeadTyped == ASSUME L1Typed PROVE RollupHead \in BoundedChains
<1>1. Len(l1) \in Nat /\ DOMAIN l1 = 1..Len(l1)
  BY LenProperties DEF L1Typed
<1>2. \A i \in 1..Len(l1) : l1[i].block \in BoundedBlocks
  <2>1. \A i \in 1..Len(l1) : l1[i] \in [block : BoundedBlocks, ok : BOOLEAN]
    BY ElementOfSeq DEF L1Typed
  <2> QED BY <2>1
<1> DEFINE good == {i \in DOMAIN l1 : l1[i].ok}
<1>3. CASE good = {}
  BY <1>3, EmptyChain DEF RollupHead, HeadOf
<1>4. CASE good # {}
  <2>1. good \in SUBSET (0..Len(l1)) /\ good \subseteq 1..Len(l1)
    BY <1>1
  <2>2. RollupHead = l1[Max(good)].block
    BY <1>4 DEF RollupHead, HeadOf
  <2> HIDE DEF good
  <2>3. Max(good) \in good
    BY <1>1, <1>4, <2>1, MaxOfNumbers
  <2>4. RollupHead \in BoundedBlocks
    BY <1>2, <2>1, <2>2, <2>3
  <2> QED BY <2>4 DEF BoundedBlocks
<1> QED BY <1>3, <1>4

\* A client's nonce is past pending posts only.
LEMMA PendingTyped ==
    ASSUME PostingTypes, NEW c \in Clients, NEW K \in Nat, NoncesBelow(pools, K), Len(l1) <= K
    PROVE  PendingNonce(c) \in 0..K
<1> DEFINE P == pools[c]
<1> DEFINE N == Len(l1)
<1> DEFINE C == Cardinality(P)
<1> DEFINE Used(k) == \E p \in P : p.nonce = k
<1>1. N \in Nat /\ C \in Nat /\ IsFiniteSet(P) /\ N <= K
  BY LenProperties, FS_CardinalityType DEF PostingTypes, L1Typed, PoolsTyped
<1>2. PendingNonce(c) = CHOOSE n \in N..(N + C) : (\A k \in N..(n - 1) : Used(k)) /\ ~Used(n)
  BY DEF PendingNonce, Nonce
<1>3. \A k \in Nat : Used(k) => k < K
  BY DEF NoncesBelow
<1>4. \E m \in N..(N + C) : ~Used(m)
  <2> SUFFICES ASSUME \A m \in N..(N + C) : Used(m) PROVE FALSE
    OBVIOUS
  <2> DEFINE I == N..(N + C)
  <2> DEFINE f == [m \in I |-> CHOOSE p \in P : p.nonce = m]
  <2>1. ASSUME NEW m \in I PROVE f[m] \in P /\ f[m].nonce = m
    <3>1. \E p \in P : p.nonce = m
      OBVIOUS
    <3> QED BY <3>1
  <2>2. f \in [I -> P]
    BY <2>1
  <2> HIDE DEF f
  <2>3. f \in Injection(I, P)
    <3>1. ASSUME NEW a \in I, NEW b \in I, f[a] = f[b] PROVE a = b
      BY <2>1, <3>1
    <3> HIDE DEF I, P
    <3> QED BY <2>2, <3>1 DEF Injection, IsInjective
  <2> HIDE DEF I, P, C, N
  <2>4. Cardinality(I) <= C
    BY <1>1, <2>3, FS_Injection DEF C
  <2>5. Cardinality(I) = C + 1
    <3>1. N \in Int /\ N + C \in Int /\ ~(N > N + C) /\ (N + C) - N + 1 = C + 1
      BY <1>1
    <3> QED BY <3>1, FS_Interval DEF I
  <2> QED BY <1>1, <2>4, <2>5
<1> HIDE DEF Used, C, N
<1>5. \E n \in N..(N + C) : (\A k \in N..(n - 1) : Used(k)) /\ ~Used(n)
  <2> DEFINE Free == {m \in N..(N + C) : ~Used(m)}
  <2>1. Free \in SUBSET Nat /\ Free # {}
    BY <1>1, <1>4
  <2>2. PICK n \in Free : \A m \in Free : n <= m
    <3> HIDE DEF Free
    <3> QED BY <2>1, LeastNatural
  <2>3. ASSUME NEW k \in N..(n - 1) PROVE Used(k)
    <3>1. k \in N..(N + C) /\ ~(n <= k)
      BY <1>1
    <3> QED BY <2>2, <3>1
  <2> QED BY <2>3
<1>6. PICK n : n = PendingNonce(c)
  OBVIOUS
<1>7. n \in N..(N + C) /\ \A k \in N..(n - 1) : Used(k)
  BY <1>2, <1>5, <1>6
<1>8. n \in 0..K
  <2>1. CASE n = N
    BY <1>1, <2>1
  <2>2. CASE n # N
    <3>1. n - 1 \in N..(n - 1) /\ n - 1 \in Nat /\ n \in Nat
      BY <1>1, <1>7, <2>2
    <3>2. n - 1 < K
      BY <1>3, <1>7, <3>1
    <3> QED BY <3>1, <3>2
  <2> QED BY <2>1, <2>2
<1> QED BY <1>6, <1>8

\* The nonce the loop reads.
LEMMA SeenTyped == ASSUME PostingTypes PROVE Max({PendingNonce(c) : c \in Clients}) \in Nat
<1>1. PICK K \in Nat : NoncesBelow(pools, K)
  BY DEF PostingTypes, PoolsTyped
<1>2. Len(l1) \in Nat
  BY LenProperties DEF PostingTypes, L1Typed
<1> DEFINE M == K + Len(l1)
<1>3. M \in Nat /\ Len(l1) <= M /\ K <= M
  BY <1>1, <1>2
<1> HIDE DEF M
<1>4. NoncesBelow(pools, M)
  <2> SUFFICES ASSUME NEW c \in Clients, NEW p \in pools[c] PROVE p.nonce < M
    BY DEF NoncesBelow
  <2>1. p.nonce \in Nat /\ p.nonce < K
    BY <1>1 DEF NoncesBelow, PostingTypes, PoolsTyped, BoundedPosts
  <2> QED BY <1>3, <2>1
<1> DEFINE T == {PendingNonce(c) : c \in Clients}
<1>5. T \in SUBSET (0..M) /\ T # {}
  <2>1. Clients # {}
    BY PostingAssumption
  <2> QED BY <1>3, <1>4, <2>1, PendingTyped
<1> HIDE DEF T
<1>6. Max(T) \in 0..M
  BY <1>3, <1>5, MaxOfNumbers
<1> QED BY <1>3, <1>6 DEF T

\* The clients' pools with a post more.
LEMMA SubmittedTyped ==
    ASSUME PoolsTyped(pools), NEW p \in BoundedPosts
    PROVE  PoolsTyped(Submitted(p))
<1> DEFINE ps == Submitted(p)
<1>1. \A c \in Clients : ps[c] = pools[c] \/ ps[c] = pools[c] \cup {p}
  BY DEF Submitted
<1>2. ps \in [Clients -> SUBSET BoundedPosts]
  BY DEF Submitted, PoolsTyped
<1> HIDE DEF ps
<1>3. ASSUME NEW c \in Clients PROVE IsFiniteSet(ps[c])
  <2>1. IsFiniteSet(pools[c])
    BY DEF PoolsTyped
  <2>2. IsFiniteSet(pools[c] \cup {p})
    BY <2>1, FS_AddElement
  <2> QED BY <1>1, <2>1, <2>2
<1>4. PICK K \in Nat : NoncesBelow(pools, K)
  BY DEF PoolsTyped
<1>5. p.nonce \in Nat
  BY DEF BoundedPosts
<1> DEFINE M == K + p.nonce + 1
<1>6. M \in Nat /\ K <= M /\ p.nonce < M
  BY <1>4, <1>5
<1> HIDE DEF M
<1>7. NoncesBelow(ps, M)
  <2> SUFFICES ASSUME NEW c \in Clients, NEW q \in ps[c] PROVE q.nonce < M
    BY DEF NoncesBelow
  <2>1. CASE q = p
    BY <1>6, <2>1
  <2>2. CASE q # p
    <3>1. q \in pools[c]
      BY <1>1, <2>2
    <3>2. q.nonce \in Nat /\ q.nonce < K
      BY <1>4, <3>1 DEF NoncesBelow, PoolsTyped, BoundedPosts
    <3> QED BY <1>6, <3>2
  <2> QED BY <2>1, <2>2
<1> QED BY <1>2, <1>3, <1>6, <1>7 DEF PoolsTyped, ps

\* The clients' pools with fewer posts.
LEMMA LessTyped ==
    ASSUME PoolsTyped(pools), NEW ps \in [Clients -> SUBSET BoundedPosts],
           \A c \in Clients : ps[c] \subseteq pools[c]
    PROVE  PoolsTyped(ps)
<1>1. ASSUME NEW c \in Clients PROVE IsFiniteSet(ps[c])
  BY FS_Subset DEF PoolsTyped
<1>2. PICK K \in Nat : NoncesBelow(pools, K)
  BY DEF PoolsTyped
<1>3. NoncesBelow(ps, K)
  BY <1>2 DEF NoncesBelow
<1> QED BY <1>1, <1>2, <1>3 DEF PoolsTyped

\* The blocks the node hands out.
LEMMA WaitingTyped ==
    ASSUME PostingTypes
    PROVE  WaitingPosts(RollupHead) \in Seq(BoundedBlocks)
<1>1. /\ l2 \in BoundedChains /\ Len(l2) \in Nat /\ final \in Nat /\ MAX_POSTS \in Nat
  BY LenProperties, PostingAssumption DEF PostingTypes, BoundedChains
<1>2. PICK g \in Nat : g = Len(RollupHead)
  <2>1. RollupHead \in BoundedChains
    BY HeadTyped DEF PostingTypes
  <2> QED BY <2>1, LenProperties DEF BoundedChains
<1>3. PICK room \in Int : room = MAX_POSTS - Cardinality(inFlight)
  <2>1. Cardinality(inFlight) \in Nat
    BY FS_CardinalityType DEF PostingTypes
  <2> QED BY <1>1, <2>1
<1>4. PICK high \in Nat : high = Highest
  <2> DEFINE T == {0} \cup {Number(p) : p \in inFlight}
  <2>1. MaxHeight \in Nat
    BY PostingAssumption
  <2>2. ASSUME NEW p \in inFlight PROVE Number(p) \in 0..MaxHeight
    <3>1. p.block \in BoundedBlocks
      BY DEF PostingTypes, BoundedPosts
    <3>2. Len(p.block) \in 1..MaxHeight
      BY <3>1, NumberIs
    <3> QED BY <2>1, <3>2 DEF Number
  <2>3. T \in SUBSET (0..MaxHeight) /\ T # {}
    BY <2>1, <2>2
  <2> HIDE DEF T
  <2>4. Max(T) \in 0..MaxHeight
    BY <2>1, <2>3, MaxOfNumbers
  <2> QED BY <2>4 DEF Highest, T
<1> DEFINE from == IF final > g THEN final ELSE g
<1> DEFINE to   == IF Len(l2) < from + MAX_POSTS THEN Len(l2) ELSE from + MAX_POSTS
<1> DEFINE low  == Max({from, high})
<1> DEFINE some == IF low < to THEN to - low ELSE 0
<1> DEFINE m    == IF some < room THEN some ELSE room
<1> DEFINE w    == [i \in 1..m |-> SubSeq(l2, 1, low + i)]
<1>5. WaitingPosts(RollupHead) = w
  BY <1>2, <1>3, <1>4 DEF WaitingPosts
<1>6. from \in Nat
  BY <1>1, <1>2
<1> HIDE DEF from
<1>7. to \in Nat /\ to <= Len(l2)
  BY <1>1, <1>6
<1>8. low \in Nat
  <2>1. low = IF from < high THEN high ELSE from
    BY <1>4, <1>6, MaxOfTwo
  <2> HIDE DEF low
  <2> QED BY <1>4, <1>6, <2>1
<1> HIDE DEF to, low
<1>9. some \in Nat /\ (some # 0 => low + some <= Len(l2))
  BY <1>1, <1>7, <1>8
<1> HIDE DEF some
<1>10. m \in Int /\ m <= some
  BY <1>3, <1>9
<1> HIDE DEF m
<1>11. ASSUME NEW i \in 1..m PROVE SubSeq(l2, 1, low + i) \in BoundedBlocks
  <2>1. low + i \in 0..Len(l2) /\ low + i # 0
    BY <1>1, <1>8, <1>9, <1>10
  <2> DEFINE b == SubSeq(l2, 1, low + i)
  <2>2. b \in BoundedChains /\ Len(b) = low + i
    BY <1>1, <2>1, BeginningOfChain
  <2>3. Len(<<>>) = 0
    OBVIOUS
  <2> HIDE DEF b
  <2>4. b # <<>>
    BY <2>1, <2>2, <2>3
  <2> QED BY <2>2, <2>4 DEF BoundedBlocks, b
<1>12. PICK n \in Nat : 1..m = 1..n
  <2>1. CASE m < 0
    <3>1. 0 \in Nat /\ 1..m = 1..0
      BY <1>10, <2>1
    <3> QED BY <3>1
  <2>2. CASE ~(m < 0)
    BY <1>10, <2>2
  <2> QED BY <2>1, <2>2
<1>13. w \in [1..n -> BoundedBlocks]
  BY <1>11, <1>12
<1> HIDE DEF w
<1>14. w \in Seq(BoundedBlocks)
  BY <1>13, SeqDef
<1> QED BY <1>5, <1>14

\* At the start.
LEMMA PostingTypesInit == ASSUME PostingInit PROVE PostingTypes
<1>1. l1 = <<>> /\ <<>> \in Seq([block : BoundedBlocks, ok : BOOLEAN])
  BY EmptySeq DEF PostingInit
<1>2. PoolsTyped(pools)
  <2>1. pools = [c \in Clients |-> {}]
    BY DEF PostingInit
  <2>2. IsFiniteSet({})
    BY FS_EmptySet
  <2>3. NoncesBelow(pools, 0) /\ 0 \in Nat
    BY <2>1 DEF NoncesBelow
  <2> QED BY <2>1, <2>2, <2>3 DEF PoolsTyped
<1>3. {} \in SUBSET BoundedPosts /\ IsFiniteSet({}) /\ <<>> \in Seq(BoundedBlocks) /\ Len(<<>>) = 0
  BY FS_EmptySet, EmptySeq
<1>4. builders \subseteq Clients /\ MaxFaults \in Nat /\ MaxRestarts \in Nat
  BY PostingAssumption DEF PostingInit
<1> QED BY <1>1, <1>2, <1>3, <1>4, EmptyChain DEF PostingInit, PostingTypes, L1Typed

\* L1 includes a post.
LEMMA IncludeTypes == ASSUME PostingTypes, Include PROVE PostingTypes'
<1>1. PICK c \in builders : \E p \in pools[c] :
        l1' = Append(l1, [block |-> p.block, ok |-> p.block # <<>> /\ Front(p.block) = RollupHead])
  BY DEF Include
<1>2. PICK p, o : p \in pools[c] /\ o \in BOOLEAN /\ l1' = Append(l1, [block |-> p.block, ok |-> o])
  BY <1>1
<1>3. p \in BoundedPosts /\ o \in BOOLEAN
  BY <1>2 DEF PostingTypes, PoolsTyped
<1>4. [block |-> p.block, ok |-> o] \in [block : BoundedBlocks, ok : BOOLEAN]
  BY <1>3 DEF BoundedPosts
<1>5. L1Typed'
  BY <1>2, <1>4, AppendProperties DEF PostingTypes, L1Typed
<1>6. PoolsTyped(pools)'
  <2>1. PICK ps : ps = pools' /\ ps = [d \in Clients |-> {q \in pools[d] : q.nonce > Nonce}]
    BY DEF Include
  <2>2. ps \in [Clients -> SUBSET BoundedPosts] /\ \A d \in Clients : ps[d] \subseteq pools[d]
    BY <2>1 DEF PostingTypes, PoolsTyped
  <2>3. PoolsTyped(ps)
    BY <2>2, LessTyped DEF PostingTypes
  <2> QED BY <2>1, <2>3 DEF PoolsTyped, NoncesBelow
<1> QED BY <1>5, <1>6 DEF Include, PostingTypes, nodeVars, operatorVars

\* A client drops a post.
LEMMA EvictTypes == ASSUME PostingTypes, Evict PROVE PostingTypes'
<1>1. PICK c, p : c \in Clients /\ p \in pools[c] /\ pools' = [pools EXCEPT ![c] = @ \ {p}]
  BY DEF Evict
<1>2. PICK ps : ps = pools' /\ ps = [pools EXCEPT ![c] = @ \ {p}]
  BY <1>1
<1>3. ps \in [Clients -> SUBSET BoundedPosts] /\ \A d \in Clients : ps[d] \subseteq pools[d]
  BY <1>2 DEF PostingTypes, PoolsTyped
<1>4. PoolsTyped(ps)
  BY <1>3, LessTyped DEF PostingTypes
<1>5. PoolsTyped(pools)'
  BY <1>2, <1>4 DEF PoolsTyped, NoncesBelow
<1>6. faults' \in 0..MaxFaults
  BY PostingAssumption DEF Evict, PostingTypes
<1> QED BY <1>5, <1>6 DEF Evict, PostingTypes, L1Typed, nodeVars, operatorVars

\* L1 loses a post.
LEMMA ReorgTypes == ASSUME PostingTypes, Reorg PROVE PostingTypes'
<1>1. PICK n \in Nat : n = Len(l1)
  BY LenProperties DEF PostingTypes, L1Typed
<1>2. n # 0 /\ l1 \in Seq([block : BoundedBlocks, ok : BOOLEAN])
  BY <1>1, EmptySeq DEF Reorg, PostingTypes, L1Typed
<1>3. L1Typed'
  <2>1. l1' = SubSeq(l1, 1, n - 1)
    BY <1>1 DEF Reorg, Front
  <2>2. n - 1 \in Nat /\ n - 1 <= Len(l1)
    BY <1>1, <1>2
  <2> QED BY <1>2, <2>1, <2>2, FirstOf DEF L1Typed
<1> DEFINE e == [block |-> Last(l1).block, nonce |-> Nonce - 1]
<1>4. e \in BoundedPosts /\ e.nonce = n - 1
  <2>1. n \in 1..Len(l1)
    BY <1>1, <1>2
  <2>2. Last(l1) \in [block : BoundedBlocks, ok : BOOLEAN]
    BY <1>1, <1>2, <2>1, ElementOfSeq DEF Last
  <2>3. Nonce - 1 = n - 1 /\ n - 1 \in Nat
    BY <1>1, <1>2 DEF Nonce
  <2> QED BY <2>2, <2>3 DEF BoundedPosts
<1>5. PICK cs \in SUBSET Clients :
        pools' = [c \in Clients |-> (IF c \in OnePerSender /\ c \in cs THEN {} ELSE pools[c])
                                      \cup (IF c \in cs THEN {e} ELSE {})]
  BY DEF Reorg
<1> HIDE DEF e
<1>6. PICK ps : ps = pools'
  OBVIOUS
<1>7. \A c \in Clients : ps[c] \subseteq pools[c] \cup {e}
  BY <1>5, <1>6
<1>8. ps \in [Clients -> SUBSET BoundedPosts]
  <2>1. \A c \in Clients : pools[c] \subseteq BoundedPosts
    BY DEF PostingTypes, PoolsTyped
  <2> QED BY <1>4, <1>5, <1>6, <2>1
<1>9. \A c \in Clients : IsFiniteSet(ps[c])
  <2> SUFFICES ASSUME NEW c \in Clients PROVE IsFiniteSet(ps[c])
    OBVIOUS
  <2>1. IsFiniteSet(pools[c])
    BY DEF PostingTypes, PoolsTyped
  <2>2. IsFiniteSet(pools[c] \cup {e})
    BY <2>1, FS_AddElement
  <2> QED BY <1>7, <2>2, FS_Subset
<1>10. PICK K \in Nat : NoncesBelow(pools, K)
  BY DEF PostingTypes, PoolsTyped
<1>11. NoncesBelow(ps, K + n)
  <2> SUFFICES ASSUME NEW c \in Clients, NEW q \in ps[c] PROVE q.nonce < K + n
    BY DEF NoncesBelow
  <2>1. CASE q = e
    BY <1>1, <1>4, <1>10, <2>1
  <2>2. CASE q # e
    <3>1. q \in pools[c]
      BY <1>7, <2>2
    <3>2. q.nonce \in Nat /\ q.nonce < K
      BY <1>10, <3>1 DEF NoncesBelow, PostingTypes, PoolsTyped, BoundedPosts
    <3> QED BY <1>1, <1>10, <3>2
  <2> QED BY <2>1, <2>2
<1>12. PoolsTyped(ps)
  <2>1. K + n \in Nat
    BY <1>1, <1>10
  <2> QED BY <1>8, <1>9, <1>11, <2>1 DEF PoolsTyped
<1>13. PoolsTyped(pools)'
  BY <1>6, <1>12 DEF PoolsTyped, NoncesBelow
<1>14. faults' \in 0..MaxFaults
  BY PostingAssumption DEF Reorg, PostingTypes
<1> QED BY <1>3, <1>13, <1>14 DEF Reorg, PostingTypes, nodeVars, operatorVars

\* The node's blocks: a new one, those of the rollup, fewer.
LEMMA NodeBlocksTypes ==
    ASSUME PostingTypes, Produce \/ Follow \/ Expire
    PROVE  PostingTypes'
<1>1. /\ l2 \in Seq(0..MaxFaults) /\ Len(l2) \in Nat /\ Len(l2) <= MaxHeight /\ MaxHeight \in Nat
      /\ faults \in 0..MaxFaults /\ final \in 0..Len(l2) /\ l2 \in BoundedChains
  BY LenProperties, PostingAssumption DEF PostingTypes, BoundedChains
<1>2. RollupHead \in BoundedChains /\ Len(RollupHead) \in Nat
  <2>1. RollupHead \in BoundedChains
    BY HeadTyped DEF PostingTypes
  <2> QED BY <2>1, LenProperties DEF BoundedChains
<1>3. l2' \in BoundedChains /\ final' \in 0..Len(l2')
  <2>1. CASE Produce
    <3>1. l2' = Append(l2, faults) /\ Len(l2) < MaxHeight /\ final' = final
      BY <2>1 DEF Produce
    <3>2. l2' \in Seq(0..MaxFaults) /\ Len(l2') = Len(l2) + 1
      BY <1>1, <3>1, AppendProperties
    <3>3. Len(l2) + 1 <= MaxHeight /\ final \in 0..(Len(l2) + 1)
      BY <1>1, <3>1
    <3> QED BY <3>1, <3>2, <3>3 DEF BoundedChains
  <2>2. CASE Follow
    <3>1. CASE IsPrefix(RollupHead, l2) /\ Len(RollupHead) > final
      <4>1. l2' = l2 /\ final' = Len(RollupHead) /\ Len(RollupHead) <= Len(l2)
        BY <2>2, <3>1 DEF Follow, IsPrefix
      <4> QED BY <1>1, <1>2, <4>1
    <3>2. CASE ~(IsPrefix(RollupHead, l2) /\ Len(RollupHead) > final)
      <4>1. l2' = RollupHead /\ final' = Len(RollupHead)
        BY <2>2, <3>2 DEF Follow, OnlyPosted
      <4>2. Len(RollupHead) \in 0..Len(RollupHead)
        BY <1>2
      <4> QED BY <1>2, <4>1, <4>2
    <3> QED BY <3>1, <3>2
  <2>3. CASE Expire
    <3>1. l2' = SubSeq(l2, 1, final) /\ final' = Len(SubSeq(l2, 1, final))
      BY <2>3 DEF Expire, OnlyPosted
    <3>2. l2' \in BoundedChains /\ Len(l2') = final /\ final' = final
      BY <1>1, <3>1, BeginningOfChain
    <3>3. final \in 0..final
      BY <1>1
    <3> QED BY <3>2, <3>3
  <2> QED BY <2>1, <2>2, <2>3
<1>4. faults' \in 0..MaxFaults
  BY <1>1, PostingAssumption DEF Produce, Follow, Expire
<1>5. UNCHANGED <<l1, pools, builders, operatorVars, restarts>>
  BY DEF Produce, Follow, Expire
<1> QED BY <1>3, <1>4, <1>5 DEF PostingTypes, L1Typed, PoolsTyped, NoncesBelow, operatorVars

\* The loop's steps that read.
LEMMA ReadTypes ==
    ASSUME PostingTypes, Receipts \/ ReadConfirmed \/ ReadPending \/ Restart
    PROVE  PostingTypes'
<1>1. UNCHANGED <<l1, pools, builders, nodeVars, faults>>
  BY DEF Receipts, ReadConfirmed, ReadPending, Restart
<1>2. L1Typed' /\ PoolsTyped(pools)'
  BY <1>1 DEF PostingTypes, L1Typed, PoolsTyped, NoncesBelow
<1>3. /\ inFlight' \subseteq inFlight /\ offered' \subseteq offered
      /\ confirmed' \in Nat /\ pending' \in Nat /\ ready' \in Seq(BoundedBlocks)
      /\ pc' \in {"receipts", "confirmed", "pending", "offer", "fetch", "send"}
      /\ restarts' \in 0..MaxRestarts
  <2>1. CASE Receipts
    BY <2>1 DEF Receipts, PostingTypes
  <2>2. CASE ReadConfirmed
    <3>1. Nonce \in Nat
      BY LenProperties DEF Nonce, PostingTypes, L1Typed
    <3> QED BY <2>2, <3>1 DEF ReadConfirmed, PostingTypes
  <2>3. CASE ReadPending
    <3>1. Max({PendingNonce(c) : c \in Clients}) \in Nat
      BY SeenTyped
    <3>2. PICK seen \in Nat : seen = Max({PendingNonce(c) : c \in Clients})
      BY <3>1
    <3>3. /\ \/ inFlight' = {} /\ offered' = {} /\ pc' = "fetch" /\ pending' = seen /\ confirmed' = 0
             \/ pc' = "offer" /\ pending' = seen /\ UNCHANGED <<inFlight, offered, confirmed>>
             \/ pc' = "receipts" /\ confirmed' = 0 /\ UNCHANGED <<inFlight, offered, pending>>
          /\ UNCHANGED <<ready, restarts>>
      BY <2>3, <3>2 DEF ReadPending
    <3> QED BY <3>2, <3>3 DEF PostingTypes
  <2>4. CASE Restart
    <3>1. <<>> \in Seq(BoundedBlocks) /\ MaxRestarts \in Nat
      BY EmptySeq, PostingAssumption
    <3> QED BY <2>4, <3>1 DEF Restart, PostingTypes
  <2> QED BY <2>1, <2>2, <2>3, <2>4
<1>4. inFlight' \in SUBSET BoundedPosts /\ IsFiniteSet(inFlight')
  BY <1>3, FS_Subset DEF PostingTypes
<1> QED BY <1>1, <1>2, <1>3, <1>4 DEF PostingTypes, nodeVars

\* A post is offered again.
LEMMA OfferTypes == ASSUME PostingTypes, Offer PROVE PostingTypes'
<1>1. PICK ps : ps = pools'
  OBVIOUS
<1>2. PoolsTyped(ps)
  <2>1. CASE Again = {}
    BY <1>1, <2>1 DEF Offer, PostingTypes
  <2>2. CASE Again # {}
    <3>1. PICK p \in Again : ps = Submitted(p)
      BY <1>1, <2>2 DEF Offer
    <3>2. p \in BoundedPosts
      BY DEF Again, PostingTypes
    <3>3. PoolsTyped(Submitted(p))
      BY <3>2, SubmittedTyped DEF PostingTypes
    <3> QED BY <3>1, <3>3
  <2> QED BY <2>1, <2>2
<1>3. PoolsTyped(pools)'
  BY <1>1, <1>2 DEF PoolsTyped, NoncesBelow
<1>4. offered' \subseteq 1..MaxHeight
  <2>1. ASSUME NEW p \in Again PROVE Number(p) \in 1..MaxHeight
    <3>1. p.block \in BoundedBlocks
      BY DEF Again, PostingTypes, BoundedPosts
    <3> QED BY <3>1, NumberIs DEF Number
  <2> QED BY <2>1 DEF Offer, PostingTypes
<1> QED BY <1>3, <1>4 DEF Offer, PostingTypes, L1Typed, nodeVars

\* The blocks to send are read.
LEMMA FetchTypes == ASSUME PostingTypes, Fetch PROVE PostingTypes'
<1>1. ready' \in Seq(BoundedBlocks) /\ final' \in 0..Len(l2)
  <2>1. CASE IsPrefix(RollupHead, l2)
    <3>1. ready' = WaitingPosts(RollupHead) /\ final' = Max({final, Len(RollupHead)})
      BY <2>1 DEF Fetch
    <3>2. Len(RollupHead) \in Nat /\ Len(RollupHead) <= Len(l2) /\ Len(l2) \in Nat /\ final \in 0..Len(l2)
      <4>1. RollupHead \in BoundedChains /\ l2 \in BoundedChains
        BY HeadTyped DEF PostingTypes
      <4> QED BY <2>1, <4>1, LenProperties DEF IsPrefix, BoundedChains, PostingTypes
    <3>3. PICK a \in Int, b \in Int : a = final /\ b = Len(RollupHead)
      BY <3>2
    <3>4. Max({a, b}) = IF a < b THEN b ELSE a
      BY MaxOfTwo
    <3>5. final' \in {final, Len(RollupHead)}
      BY <3>1, <3>3, <3>4
    <3> QED BY <3>1, <3>2, <3>5, WaitingTyped
  <2>2. CASE ~IsPrefix(RollupHead, l2)
    BY <2>2 DEF Fetch, PostingTypes
  <2> QED BY <2>1, <2>2
<1>2. pending' \in Nat /\ pc' \in {"receipts", "send"}
  BY DEF Fetch, PostingTypes
<1> QED BY <1>1, <1>2 DEF Fetch, PostingTypes, L1Typed, PoolsTyped, NoncesBelow

\* A post is sent.
LEMMA SendPostTypes == ASSUME PostingTypes, SendPost PROVE PostingTypes'
<1>1. PICK ps : ps = pools'
  OBVIOUS
<1>2. /\ PoolsTyped(ps) /\ inFlight' \in SUBSET BoundedPosts /\ IsFiniteSet(inFlight')
      /\ pending' \in Nat /\ ready' \in Seq(BoundedBlocks) /\ pc' \in {"receipts", "send"}
  <2>1. CASE ready = <<>> \/ Refused([block |-> Head(ready), nonce |-> pending])
    <3>1. <<>> \in Seq(BoundedBlocks) /\ 0 \in Nat
      BY EmptySeq
    <3>2. /\ ready' = <<>> /\ pending' = 0 /\ pc' = "receipts"
          /\ ps = pools /\ inFlight' = inFlight
      BY <1>1, <2>1 DEF SendPost
    <3> QED BY <3>1, <3>2 DEF PostingTypes
  <2>2. CASE ~(ready = <<>> \/ Refused([block |-> Head(ready), nonce |-> pending]))
    <3>1. PICK p : p = [block |-> Head(ready), nonce |-> pending]
      OBVIOUS
    <3>2. /\ ps = Submitted(p) /\ pending' = pending + 1 /\ ready' = Tail(ready) /\ pc' = "send"
          /\ inFlight' = {q \in inFlight : Number(q) # Number(p)} \cup {p}
      BY <1>1, <2>2, <3>1 DEF SendPost
    <3>3. Head(ready) \in BoundedBlocks /\ Tail(ready) \in Seq(BoundedBlocks)
      BY <2>2, HeadTailProperties DEF PostingTypes
    <3>4. p \in BoundedPosts
      BY <3>1, <3>3 DEF PostingTypes, BoundedPosts
    <3>5. PoolsTyped(ps)
      BY <3>2, <3>4, SubmittedTyped DEF PostingTypes
    <3>6. IsFiniteSet({q \in inFlight : Number(q) # Number(p)} \cup {p})
      <4>1. IsFiniteSet({q \in inFlight : Number(q) # Number(p)})
        BY FS_Subset DEF PostingTypes
      <4> QED BY <4>1, FS_AddElement
    <3> QED BY <3>2, <3>3, <3>4, <3>5, <3>6 DEF PostingTypes
  <2> QED BY <2>1, <2>2
<1>3. PoolsTyped(pools)'
  BY <1>1, <1>2 DEF PoolsTyped, NoncesBelow
<1> QED BY <1>2, <1>3 DEF SendPost, PostingTypes, L1Typed, nodeVars

\* And after each step.
LEMMA PostingTypesStep == ASSUME PostingTypes, PostingNext PROVE PostingTypes'
BY IncludeTypes, EvictTypes, ReorgTypes, NodeBlocksTypes, ReadTypes, OfferTypes, FetchTypes, SendPostTypes
   DEF PostingNext, Loop, Faults

\* A step that leaves the posting loop alone.
LEMMA PostingTypesStutter == ASSUME PostingTypes, UNCHANGED postingVars PROVE PostingTypes'
BY DEF PostingTypes, L1Typed, PoolsTyped, NoncesBelow, postingVars, nodeVars, operatorVars

-----------------------------------------------------------------------------
(* The types: the RPC                                                      *)

\* Messages are of the blocks of the chain.
LEMMA ToldBlocks ==
    ASSUME NEW s \in Seq(Blks), NEW n \in 0..Len(s)
    PROVE  \A i \in DOMAIN Told(s, 0, n) : Told(s, 0, n)[i].block \in 1..n
<1>1. Len(s) \in Nat /\ n \in Nat /\ n <= Len(s)
  BY LenProperties
<1> DEFINE Good(r, k) == r \in Seq(Logs) /\ \A i \in 1..Len(r) : r[i].block \in 1..k
<1> DEFINE T == {k \in Nat : k <= Len(s) => Good(Told(s, 0, k), k)}
<1>2. 0 \in T
  <2>1. Told(s, 0, 0) = <<>>
    BY ToldGenesis
  <2>2. <<>> \in Seq(Logs) /\ Len(<<>>) = 0
    BY EmptySeq
  <2>3. Good(<<>>, 0)
    BY <2>2
  <2> HIDE DEF Good
  <2> QED BY <2>1, <2>3
<1>3. ASSUME NEW k \in Nat, k \in T PROVE k + 1 \in T
  <2> SUFFICES ASSUME k + 1 <= Len(s) PROVE Good(Told(s, 0, k + 1), k + 1)
    OBVIOUS
  <2>1. k <= Len(s) /\ k \in Int /\ k + 1 \in 0..Len(s) /\ k + 1 # 0 /\ 0 - 1 <= k /\ k + 1 <= Len(s)
    BY <1>1
  <2>2. Good(Told(s, 0, k), k)
    BY <1>3, <2>1
  <2> DEFINE a == Told(s, 0, k)
  <2> DEFINE b == SentIn(s, k + 1)
  <2>3. Told(s, 0, k + 1) = a \o b
    BY <2>1, ToldNext
  <2>4. b \in Seq(Logs) /\ \A i \in 1..Len(b) : b[i].block = k + 1
    <3>1. b \in Seq(Logs)
      BY <2>1, SentIs
    <3>2. b = IF s[k + 1].sends THEN <<Log(k + 1, s[k + 1])>> ELSE <<>>
      BY <2>1 DEF SentIn, LogsOf
    <3> HIDE DEF b
    <3>3. ASSUME NEW i \in 1..Len(b) PROVE b[i].block = k + 1
      <4>1. CASE s[k + 1].sends
        <5>1. b = <<Log(k + 1, s[k + 1])>> /\ Len(b) = 1
          BY <3>2, <4>1
        <5>2. i = 1
          BY <5>1
        <5> QED BY <5>1, <5>2 DEF Log
      <4>2. CASE ~s[k + 1].sends
        <5>1. Len(b) = 0
          BY <3>2, <4>2
        <5> QED BY <5>1
      <4> QED BY <4>1, <4>2
    <3> QED BY <3>1, <3>3
  <2>5. a \in Seq(Logs) /\ \A i \in 1..Len(a) : a[i].block \in 1..k
    BY <2>2
  <2> HIDE DEF a, b
  <2> DEFINE c == a \o b
  <2>6. /\ c \in Seq(Logs) /\ Len(c) = Len(a) + Len(b) /\ Len(a) \in Nat /\ Len(b) \in Nat
        /\ \A i \in 1..(Len(a) + Len(b)) : c[i] = IF i <= Len(a) THEN a[i] ELSE b[i - Len(a)]
    BY <2>4, <2>5, ConcatProperties, LenProperties
  <2> HIDE DEF c
  <2>7. ASSUME NEW i \in 1..Len(c) PROVE c[i].block \in 1..(k + 1)
    <3>1. CASE i <= Len(a)
      <4>1. i \in 1..Len(a) /\ c[i] = a[i]
        BY <2>6, <3>1
      <4>2. a[i].block \in 1..k
        BY <2>5, <4>1
      <4> QED BY <4>1, <4>2
    <3>2. CASE ~(i <= Len(a))
      <4>1. i - Len(a) \in 1..Len(b) /\ c[i] = b[i - Len(a)]
        BY <2>6, <3>2
      <4>2. c[i].block = k + 1
        BY <2>4, <4>1
      <4> QED BY <4>2
    <3> QED BY <3>1, <3>2
  <2> QED BY <2>3, <2>6, <2>7 DEF c
<1> HIDE DEF T
<1>4. Nat \subseteq T
  BY <1>2, <1>3, SetInduction
<1>5. Good(Told(s, 0, n), n)
  BY <1>1, <1>4 DEF T
<1>6. DOMAIN Told(s, 0, n) = 1..Len(Told(s, 0, n))
  BY <1>5, LenProperties
<1> QED BY <1>5, <1>6

\* What the bounds add.
RpcTypes ==
    /\ stored \in Seq(StoredBlocks) /\ Len(stored) <= MaxStored
    /\ exits \in 0..MaxExits
    /\ Len(snapshots) <= 2
    /\ serving \in BOOLEAN /\ (~serving => memory = EmptyMemory)

\* With the invariant, they are the types.
LEMMA RpcTyped == ASSUME RpcInv, RpcTypes PROVE NodeRpcTypeOK
<1>1. stored \in Seq(Blks) /\ onL1 \in 0..Len(stored) /\ Len(stored) \in Nat
  BY LenProperties DEF RpcInv, RpcShape
<1>2. DOMAIN snapshots = 1..Len(snapshots)
  BY LenProperties DEF RpcInv, RpcShape
<1>3. ASSUME NEW i \in 1..Len(snapshots) PROVE snapshots[i].number \in 1..onL1
  BY <1>1 DEF RpcInv, Loads, SnapshotOf
<1>4. MaxStored \in Nat /\ Len(stored) <= MaxStored
  BY NodeRpcAssumption DEF RpcTypes
<1>5. /\ memory.logsFrom \in 0..(MaxStored + 1)
      /\ \A i \in DOMAIN memory.messages : memory.messages[i].block \in 1..MaxStored
  <2>1. CASE serving
    <3>1. MemoryOf(memory, stored, Len(stored))
      BY <2>1 DEF RpcInv
    <3>2. memory.first \in 0..Len(stored) /\ memory.logsFrom \in memory.first..(Len(stored) + 1)
          /\ memory.messages = Told(stored, 0, Len(stored))
      BY <3>1 DEF MemoryOf
    <3>3. \A i \in DOMAIN memory.messages : memory.messages[i].block \in 1..Len(stored)
      BY <1>1, <3>2, ToldBlocks
    <3>4. memory.logsFrom \in 0..(MaxStored + 1)
      BY <1>1, <1>4, <3>2
    <3>5. \A i \in 1..Len(stored) : i \in 1..MaxStored
      BY <1>1, <1>4
    <3> QED BY <3>3, <3>4, <3>5
  <2>2. CASE ~serving
    <3>1. memory.logsFrom = 0 /\ memory.messages = <<>>
      BY <2>2 DEF RpcTypes, EmptyMemory
    <3> QED BY <1>4, <3>1
  <2> QED BY <2>1, <2>2
<1> QED BY <1>1, <1>2, <1>3, <1>5 DEF RpcTypes, NodeRpcTypeOK

\* At the start.
LEMMA RpcTypesInit == ASSUME NodeRpcInit PROVE RpcTypes
<1>1. <<>> \in Seq(StoredBlocks) /\ Len(<<>>) = 0
  BY EmptySeq
<1>2. MaxStored \in Nat /\ MaxExits \in Nat
  BY NodeRpcAssumption
<1> QED BY <1>1, <1>2 DEF NodeRpcInit, RpcTypes

\* And after each step.
LEMMA RpcTypesStep == ASSUME RpcInv, RpcTypes, NodeRpcNext PROVE RpcTypes'
<1>1. /\ stored \in Seq(StoredBlocks) /\ Len(stored) \in Nat /\ onL1 \in 0..Len(stored)
      /\ Len(stored) <= MaxStored /\ MaxStored \in Nat /\ MaxExits \in Nat /\ exits \in 0..MaxExits
  BY LenProperties, NodeRpcAssumption DEF RpcTypes, RpcInv, RpcShape
<1>2. PICK X : snapshots \in Seq(X)
  BY DEF RpcInv, RpcShape
<1>3. ASSUME NEW n \in 0..onL1
      PROVE  SubSeq(stored, 1, n) \in Seq(StoredBlocks) /\ Len(SubSeq(stored, 1, n)) <= MaxStored
  <2>1. n \in Nat /\ n <= Len(stored) /\ n <= MaxStored
    BY <1>1
  <2> QED BY <1>1, <2>1, FirstOf
<1>4. CASE AddBlock
  <2>1. PICK b : stored' = Append(stored, b) /\ \E sends \in BOOLEAN : b = [sends |-> sends, after |-> exits]
    BY <1>4 DEF AddBlock
  <2>2. b \in StoredBlocks
    BY <1>1, <2>1 DEF StoredBlocks
  <2>3. stored' \in Seq(StoredBlocks) /\ Len(stored') = Len(stored) + 1
    BY <1>1, <2>1, <2>2, AppendProperties
  <2>4. Len(stored') <= MaxStored
    <3>1. Len(stored) < MaxStored
      BY <1>4 DEF AddBlock
    <3> QED BY <1>1, <2>3, <3>1
  <2> QED BY <1>4, <2>3, <2>4 DEF AddBlock, RpcTypes
<1>5. CASE Posted
  <2>1. Len(snapshots') <= 2
    <3>1. CASE TakeSnapshot(onL1')
      <4>1. PICK all, sn : all = Append(snapshots, sn) /\ snapshots' = SubSeq(all, Max({1, Len(all) - 1}), Len(all))
        BY <3>1 DEF TakeSnapshot
      <4>2. PICK m \in Nat : m = Len(snapshots)
        BY <1>2, LenProperties
      <4>3. snapshots \in Seq(X \cup {sn}) /\ sn \in X \cup {sn}
        BY <1>2, SeqMonotonic
      <4>4. all \in Seq(X \cup {sn}) /\ Len(all) = m + 1
        BY <4>1, <4>2, <4>3, AppendProperties
      <4>5. Max({1, m}) = IF 1 < m THEN m ELSE 1
        BY MaxOfTwo
      <4>6. PICK k \in Nat : k = Max({1, Len(all) - 1}) /\ k >= m /\ k >= 1 /\ k <= m + 1
        <5>1. Len(all) - 1 = m
          BY <4>4
        <5>2. Max({1, m}) \in Nat /\ Max({1, m}) >= m /\ Max({1, m}) >= 1 /\ Max({1, m}) <= m + 1
          BY <4>5
        <5> QED BY <5>1, <5>2
      <4>7. snapshots' = SubSeq(all, k, m + 1)
        BY <4>1, <4>4, <4>6
      <4>8. Len(SubSeq(all, k, m + 1)) = (m + 1) - k + 1
        <5>1. \A i \in k..(m + 1) : all[i] \in X \cup {sn}
          <6>1. \A i \in k..(m + 1) : i \in 1..Len(all)
            BY <4>4, <4>6
          <6> QED BY <4>4, <6>1, ElementOfSeq
        <5>2. k \in Int /\ m + 1 \in Int /\ k <= m + 1
          BY <4>6
        <5> QED BY <5>1, <5>2, SubSeqProperties
      <4> QED BY <4>6, <4>7, <4>8
    <3>2. CASE UNCHANGED <<snapshots, memory>>
      BY <3>2 DEF RpcTypes
    <3> QED BY <1>5, <3>1, <3>2 DEF Posted
  <2> QED BY <1>5, <2>1 DEF Posted, RpcTypes
<1>6. CASE Exit
  <2>1. onL1 \in 0..onL1
    BY <1>1
  <2>2. stored' \in Seq(StoredBlocks) /\ Len(stored') <= MaxStored
    BY <1>1, <1>3, <1>6, <2>1 DEF Exit
  <2>3. exits' \in 0..MaxExits
    BY <1>1, <1>6 DEF Exit
  <2> QED BY <1>6, <2>2, <2>3 DEF Exit, RpcTypes
<1>7. CASE StartServing
  <2>1. PICK n \in 0..onL1 :
          snapshots' = KeptSnapshots(n) /\ stored' = IF n = onL1 THEN stored ELSE SubSeq(stored, 1, n)
    BY <1>7 DEF StartServing
  <2>2. stored' \in Seq(StoredBlocks) /\ Len(stored') <= MaxStored
    BY <1>1, <1>3, <2>1
  <2>3. Len(snapshots') <= 2
    <3>1. KeptSnapshots(n) \in Seq(X) /\ Len(KeptSnapshots(n)) <= Len(snapshots)
      BY <1>2, KeptAre
    <3>2. Len(KeptSnapshots(n)) \in Nat /\ Len(snapshots) \in Nat /\ Len(snapshots) <= 2
      BY <1>2, <3>1, LenProperties DEF RpcTypes
    <3> QED BY <2>1, <3>1, <3>2
  <2> QED BY <1>7, <2>2, <2>3 DEF StartServing, RpcTypes
<1> QED BY <1>4, <1>5, <1>6, <1>7 DEF NodeRpcNext

\* A step that leaves the RPC alone.
LEMMA RpcTypesStutter == ASSUME RpcTypes, UNCHANGED rpcVars PROVE RpcTypes'
BY DEF RpcTypes, rpcVars

-----------------------------------------------------------------------------
(* The types: the runner                                                   *)

\* What the bounds add to what the runner's variables are made of.
WellKept(s) == s.filed \in NotSaved..MaxLines /\ s.step \in -1..MaxStep
RunnerTypes ==
    /\ phase \in {"idle", "contracts", "prover", "blocks", "session", "node", "operator", "step"}
    /\ storyStep \in 0..(MaxStep + 1)
    /\ deploys \in 0..MaxDeploys /\ proverOf \in 0..MaxDeploys /\ stateOf \in 0..MaxDeploys
    /\ filer.place \in 0..MaxLines
    /\ \A s \in AllSessions : WellKept(s)
    /\ mishaps \subseteq Mishaps

LEMMA RunnerTyped == ASSUME FiledInv, RunnerTypes PROVE RunnerTypeOK
<1>1. \A s \in {episode, session, kept} \cup relays : s.filed \in NotSaved..MaxLines
  BY DEF RunnerTypes, AllSessions, WellKept
<1> QED BY <1>1 DEF FiledInv, RunnerShape, RunnerTypes, RunnerTypeOK

\* The values that the bounds are about.
LEMMA BoundsAre ==
    /\ MaxLines \in Nat /\ MaxDeploys \in Nat /\ MaxStep \in Nat
    /\ WellKept(EmptySession) /\ FilerOff.place = 0 /\ 0 \in 0..MaxLines /\ 0 \in 0..(MaxStep + 1)
    /\ \A n \in 0..MaxLines : n \in NotSaved..MaxLines
<1>1. MaxLines \in Nat /\ MaxDeploys \in Nat /\ MaxStep \in Nat
  BY MaxLinesIs, RunnerAssumption
<1>2. EmptySession.filed = NotSaved /\ EmptySession.step = -1 /\ FilerOff.place = 0
  BY DEF EmptySession, FilerOff
<1>3. NotSaved \in NotSaved..MaxLines /\ -1 \in -1..MaxStep /\ \A n \in 0..MaxLines : n \in NotSaved..MaxLines
  BY <1>1 DEF NotSaved
<1> QED BY <1>1, <1>2, <1>3 DEF WellKept

LEMMA RunnerTypesInit == ASSUME RunnerInit PROVE RunnerTypes
<1>1. AllSessions = {EmptySession}
  BY DEF RunnerInit, AllSessions
<1> QED BY <1>1, BoundsAre DEF RunnerInit, RunnerTypes, NoRollup

\* The names of what may befall a rollup.
LEMMA MishapsNamed ==
    ASSUME RunnerTypes, RunnerNext
    PROVE  mishaps' \subseteq Mishaps
<1>1. CASE Resume \/ StartOperator \/ FileLine \/ FilerDies \/ RunnerCrash \/ Rotate
  BY <1>1 DEF Resume, StartOperator, FileLine, FilerDies, RunnerCrash, Rotate, Befalls, RunnerTypes, Mishaps
<1>2. CASE mishaps' \subseteq mishaps
  BY <1>2 DEF RunnerTypes
<1>3. CASE WriteGenesis \/ DeployContracts \/ SaveProver \/ SaveSession \/ StartNode \/ StartFails \/ SaveFiled
           \/ NoticeRotation \/ FilerStops
  BY <1>2, <1>3 DEF WriteGenesis, DeployContracts, SaveProver, SaveSession, StartNode, StartFails, SaveFiled,
                    NoticeRotation, FilerStops
<1>4. CASE ClearBlocks \/ PreconfirmsNext \/ PostsNext \/ Drops \/ ProcessStops \/ NewDevnet
  BY <1>2, <1>4 DEF ClearBlocks, PreconfirmsNext, PostsNext, Drops, ProcessStops, NewDevnet
<1>5. CASE \/ \E fails \in BOOLEAN : Step(fails)
           \/ \E claiming \in BOOLEAN : EndEpisode(claiming)
           \/ \E s \in relays \cup {episode} : RelaySaves(s)
  BY <1>2, <1>5 DEF Step, EndEpisode, RelaySaves
<1> QED BY <1>1, <1>3, <1>4, <1>5 DEF RunnerNext

LEMMA RunnerTypesStep == ASSUME FiledInv, RunnerTypes, RunnerNext PROVE RunnerTypes'
<1>1. /\ MaxLines \in Nat /\ MaxDeploys \in Nat /\ MaxStep \in Nat
      /\ Len(log) \in Nat /\ Len(log) <= MaxLines
      /\ filer \in Filers /\ episode \in Sessions /\ {episode, session} \subseteq AllSessions
      /\ filer.held => filer.place < MaxLines
  BY BoundsAre, SessionIs DEF FiledInv, PlaceInv, AllSessions
<1>2. mishaps' \subseteq Mishaps
  BY MishapsNamed
<1>3. WellKept(session) /\ WellKept(episode)
  BY <1>1 DEF RunnerTypes
<1>4. CASE Resume
  <2>1. session.step + 1 \in 0..(MaxStep + 1)
    BY <1>1, <1>3 DEF WellKept
  <2>2. AllSessions' \subseteq AllSessions
    BY <1>4 DEF Resume, AllSessions
  <2> QED BY <1>2, <1>4, <2>1, <2>2 DEF Resume, RunnerTypes
<1>5. CASE WriteGenesis
  <2>1. deploys + 1 \in 0..MaxDeploys
    BY <1>1, <1>5 DEF WriteGenesis, RunnerTypes
  <2> QED BY <1>2, <1>5, <2>1 DEF WriteGenesis, RunnerTypes, AllSessions
<1>6. CASE DeployContracts \/ SaveProver \/ ClearBlocks \/ StartNode \/ StartFails
  BY <1>2, <1>6 DEF DeployContracts, SaveProver, ClearBlocks, StartNode, StartFails, RunnerTypes, AllSessions
<1>7. CASE SaveSession
  <2>1. /\ episode' = [EmptySession EXCEPT !.rollup = stateOf] /\ session' = episode' /\ kept' = episode'
        /\ storyStep' = 0 /\ phase' = "node" /\ UNCHANGED <<deploys, proverOf, stateOf, filer, relays>>
    BY <1>7 DEF SaveSession
  <2>2. WellKept(episode')
    BY <2>1, BoundsAre DEF EmptySession, WellKept
  <2>3. AllSessions' \subseteq AllSessions \cup {episode'}
    BY <2>1 DEF AllSessions
  <2>4. \A s \in AllSessions' : WellKept(s)
    BY <2>2, <2>3 DEF RunnerTypes
  <2> QED BY <1>2, <2>1, <2>4, BoundsAre DEF RunnerTypes
<1>8. CASE StartOperator
  <2>1. StartOf(episode) \in 0..MaxLines
    BY <1>1, <1>3 DEF StartOf, NotSaved, WellKept
  <2>2. filer'.place = StartOf(episode) /\ AllSessions' = AllSessions
    BY <1>8 DEF StartOperator, FilerOff, AllSessions
  <2> QED BY <1>2, <1>8, <2>1, <2>2 DEF StartOperator, RunnerTypes
<1>9. ASSUME NEW fails \in BOOLEAN, Step(fails) PROVE RunnerTypes'
  <2>1. storyStep \in 0..MaxStep /\ storyStep \in -1..MaxStep /\ storyStep + 1 \in 0..(MaxStep + 1)
    BY <1>1, <1>9 DEF Step, RunnerTypes
  <2>2. /\ episode' = episode \/ episode' = [episode EXCEPT !.step = storyStep]
        /\ session' = episode' /\ kept' = episode'
        /\ storyStep' = storyStep + 1 /\ UNCHANGED <<phase, deploys, proverOf, stateOf, filer, relays>>
    BY <1>9 DEF Step
  <2>3. WellKept(episode')
    BY <1>1, <1>3, <2>1, <2>2 DEF Sessions, WellKept
  <2>4. AllSessions' \subseteq AllSessions \cup {episode'}
    BY <2>2 DEF AllSessions
  <2>5. \A s \in AllSessions' : WellKept(s)
    BY <2>3, <2>4 DEF RunnerTypes
  <2> QED BY <1>2, <2>1, <2>2, <2>5 DEF RunnerTypes
<1>10. CASE FileLine \/ NoticeRotation \/ FilerStops \/ FilerDies
  <2>1. filer'.place \in 0..MaxLines
    <3>1. filer'.place = filer.place \/ filer'.place = 0
      BY <1>1, <1>10, BoundsAre DEF FileLine, NoticeRotation, FilerStops, FilerDies, Filers
    <3> QED BY <3>1, BoundsAre DEF RunnerTypes
  <2>2. AllSessions' = AllSessions /\ UNCHANGED <<phase, storyStep, deploys, proverOf, stateOf>>
    BY <1>10 DEF FileLine, NoticeRotation, FilerStops, FilerDies, AllSessions
  <2> QED BY <1>2, <2>1, <2>2 DEF RunnerTypes
<1>11. CASE SaveFiled
  <2> DEFINE s == Summarize(episode, filer.line)
  <2>1. s.step = episode.step /\ "filed" \in DOMAIN s /\ "step" \in DOMAIN s
    BY <1>1 DEF Summarize, Sessions
  <2>2. /\ episode' = [s EXCEPT !.filed = filer.place + 1, !.of = filer.of]
        /\ session' = episode' /\ kept' = episode'
        /\ UNCHANGED <<phase, storyStep, deploys, proverOf, stateOf, relays>>
    BY <1>11 DEF SaveFiled
  <2> HIDE DEF s
  <2>3. episode'.filed = filer.place + 1 /\ episode'.step = episode.step
    BY <2>1, <2>2
  <2>4. filer.place + 1 \in 0..MaxLines /\ filer.place + 1 \in NotSaved..MaxLines
    BY <1>1, <1>11, BoundsAre DEF SaveFiled, Filers
  <2>5. filer'.place = filer.place + 1
    BY <1>1, <1>11 DEF SaveFiled, Filers
  <2>6. AllSessions' \subseteq AllSessions \cup {episode'}
    BY <2>2 DEF AllSessions
  <2>7. WellKept(episode')
    BY <1>3, <2>1, <2>3, <2>4 DEF WellKept
  <2>8. \A t \in AllSessions' : WellKept(t)
    BY <2>6, <2>7 DEF RunnerTypes
  <2> QED BY <1>2, <2>2, <2>4, <2>5, <2>8 DEF RunnerTypes
<1>12. CASE PreconfirmsNext \/ PostsNext \/ Drops \/ ProcessStops \/ NewDevnet
  <2>1. AllSessions' \subseteq AllSessions /\ UNCHANGED <<phase, storyStep, deploys, proverOf, stateOf, filer>>
    BY <1>12 DEF PreconfirmsNext, PostsNext, Drops, ProcessStops, NewDevnet, AllSessions
  <2> QED BY <1>2, <2>1 DEF RunnerTypes
<1>13. CASE RunnerCrash
  <2>1. AllSessions' \subseteq AllSessions \cup {EmptySession} /\ UNCHANGED <<deploys, proverOf, stateOf>>
        /\ phase' = "idle" /\ storyStep' = 0 /\ filer' = FilerOff
    BY <1>13 DEF RunnerCrash, AllSessions
  <2> QED BY <1>2, <2>1, BoundsAre DEF RunnerTypes
<1>14. CASE Rotate
  <2>1. AllSessions' = AllSessions /\ UNCHANGED <<phase, storyStep, deploys, proverOf, stateOf, filer>>
    BY <1>14 DEF Rotate, AllSessions
  <2> QED BY <1>2, <2>1 DEF RunnerTypes
<1>15. ASSUME NEW claiming \in BOOLEAN, EndEpisode(claiming) PROVE RunnerTypes'
  <2>1. AllSessions' = AllSessions /\ UNCHANGED <<storyStep, deploys, proverOf, stateOf, filer>> /\ phase' = "idle"
    BY <1>15 DEF EndEpisode, AllSessions
  <2> QED BY <1>2, <2>1 DEF RunnerTypes
<1>16. ASSUME NEW s \in relays \cup {episode}, RelaySaves(s) PROVE RunnerTypes'
  <2>1. AllSessions' \subseteq AllSessions /\ UNCHANGED <<phase, storyStep, deploys, proverOf, stateOf, filer>>
    BY <1>16 DEF RelaySaves, AllSessions
  <2> QED BY <1>2, <2>1 DEF RunnerTypes
<1> QED BY <1>4, <1>5, <1>6, <1>7, <1>8, <1>9, <1>10, <1>11, <1>12, <1>13, <1>14, <1>15, <1>16 DEF RunnerNext

LEMMA RunnerTypesStutter == ASSUME RunnerTypes, UNCHANGED runnerVars PROVE RunnerTypes'
BY DEF RunnerTypes, AllSessions, runnerVars

-----------------------------------------------------------------------------
(* The types of all parts                                                  *)

\* What the parts' own invariants say, and what their bounds add.
PartsInv == PoolInv /\ FollowerInv /\ RpcInv /\ ClaimsInv /\ FiledInv
PartsTypes ==
    /\ PostingTypes /\ FollowerTypes /\ RpcTypes
    /\ ClaimsTypes /\ WithdrawalsTypes /\ RunnerTypes

LEMMA PartsTypesStep ==
    ASSUME PartsInv, PartsTypes, [DemoNext]_demoVars
    PROVE  PartsTypes'
<1>1. PostingTypes'
  BY PostingTypesStep, PostingTypesStutter DEF PartsTypes, DemoNext, demoVars
<1>2. FollowerTypes'
  BY FollowerTypesStep, FollowerTypesStutter DEF PartsTypes, DemoNext, demoVars
<1>3. RpcTypes'
  BY RpcTypesStep, RpcTypesStutter DEF PartsInv, PartsTypes, DemoNext, demoVars
<1>4. ClaimsTypes'
  BY ClaimsTypesStep, ClaimsTypesStutter DEF PartsInv, PartsTypes, DemoNext, demoVars
<1>5. WithdrawalsTypes'
  BY WithdrawalsTypesStep, WithdrawalsTypesStutter DEF PartsTypes, DemoNext, demoVars
<1>6. RunnerTypes'
  BY RunnerTypesStep, RunnerTypesStutter DEF PartsInv, PartsTypes, DemoNext, demoVars
<1> QED BY <1>1, <1>2, <1>3, <1>4, <1>5, <1>6 DEF PartsTypes

\* Every part's state stays what it is made of and within the bounds, for any
\* of them: the lists of posts and messages hold posts and messages, every
\* place in a chain, a log or a cache is one it has, and every choice the code
\* makes of one (the next nonce, a snapshot, a head) is there to be made.
THEOREM TypesCorrect == DemoSpec => []DemoTypeOK
<1>1. DemoInit => PartsTypes
  BY PostingTypesInit, FollowerTypesInit, RpcTypesInit, ClaimsTypesInit, WithdrawalsTypesInit, RunnerTypesInit
     DEF DemoInit, PartsTypes
<1>2. PartsInv /\ PartsTypes /\ [DemoNext]_demoVars => PartsTypes'
  BY PartsTypesStep
<1>3. PartsInv /\ PartsTypes => DemoTypeOK
  BY PoolTyped, PostingTyped, FollowerTyped, RpcTyped, ClaimsTyped, WithdrawalsTyped, RunnerTyped
     DEF PartsInv, PartsTypes, DemoTypeOK
<1>4. DemoSpec => []PartsInv
  <2>1. PoolInv /\ FollowerInv /\ RpcInv /\ ClaimsInv /\ RunnerInv /\ FiledInv => PartsInv
    BY DEF PartsInv
  <2> QED BY <2>1, PoolInvariant, FollowerInvariant, RpcInvariant, ClaimsInvariant, RunnerInvariant, PTL
<1> QED BY <1>1, <1>2, <1>3, <1>4, PTL DEF DemoSpec
=============================================================================
