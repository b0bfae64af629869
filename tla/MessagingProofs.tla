-------------------------- MODULE MessagingProofs --------------------------
(***************************************************************************)
(* Proofs about Messaging, for every bound: no L1 message that L2 could    *)
(* prove is lost, neither chain claims what the other did not send, the    *)
(* escrow covers what it owes, and both chains implement TwoWayPeg.        *)
(***************************************************************************)
EXTENDS Messaging, SequenceTheorems, InductionLemmas, TLAPS

\* IsPrefix, read over the positions.
Prefix(s, t) == Len(s) <= Len(t) /\ \A i \in 1..Len(s) : s[i] = t[i]

\* The message tree only grows.
RootsGrow ==
    /\ \A i, j \in 1..Len(l1Roots) : i <= j => Prefix(l1Roots[i], l1Roots[j])
    /\ \A i \in 1..Len(l1Roots) : Prefix(l1Roots[i], l1Messages)

\* What an L2 state proved and claimed, it saw at one of its anchors.
Seen(state) ==
    /\ \A k \in 1..Len(state.anchors) : state.anchors[k] \in 1..Len(l1Roots)
    /\ state.provenAnchor \in 0..Len(state.anchors)
    /\ state.provenL1MessageRoot =
          IF state.provenAnchor = 0 THEN <<>> ELSE l1Roots[state.anchors[state.provenAnchor]]
    /\ \A i \in state.claimed :
          \E k \in 1..Len(state.anchors) : i \in 1..Len(l1Roots[state.anchors[k]])

AnchorsSorted(state) ==
    \A j, k \in 1..Len(state.anchors) : j <= k => state.anchors[j] <= state.anchors[k]

Later(s, t) ==
    /\ Prefix(s.anchors, t.anchors)
    /\ s.provenAnchor <= t.provenAnchor
    /\ Prefix(s.sentMessages, t.sentMessages)

\* The posted chain.
ChainInv ==
    /\ \A n \in 1..Len(blocks) : Seen(blocks[n]) /\ AnchorsSorted(blocks[n])
    /\ \A i, j \in 1..Len(blocks) : i <= j => Later(blocks[i], blocks[j])

\* The block being built, whose own anchor may still be any.
BuildingInv ==
    /\ Seen(l2)
    /\ Later(Posted, l2)
    /\ building => Len(l2.anchors) = Len(Posted.anchors) + 1
    /\ ~building => l2 = Posted

PaidWasSent == claimedOnL1 \subseteq DOMAIN Posted.sentMessages

MessagingInv == TypeOK /\ RootsGrow /\ ChainInv /\ BuildingInv /\ PaidWasSent

\* The order of roots by their elements.
LEMMA PrefixIs ==
    ASSUME NEW S, NEW s \in Seq(S), NEW t \in Seq(S)
    PROVE  IsPrefix(s, t) <=> Prefix(s, t)
<1>1. Len(s) \in Nat /\ Len(t) \in Nat /\ (\A i \in 1..Len(s) : s[i] \in S) /\ (\A i \in 1..Len(t) : t[i] \in S)
  BY ElementOfSeq, LenProperties
<1>2. CASE Len(s) <= Len(t)
  <2>1. \A i \in 1..Len(s) : t[i] \in S
    BY <1>1, <1>2
  <2>2. /\ SubSeq(s, 1, Len(s)) \in Seq(S) /\ Len(SubSeq(s, 1, Len(s))) = Len(s)
        /\ \A i \in 1..Len(s) : SubSeq(s, 1, Len(s))[i] = s[i]
    BY <1>1, SubSeqProperties
  <2>3. /\ SubSeq(t, 1, Len(s)) \in Seq(S) /\ Len(SubSeq(t, 1, Len(s))) = Len(s)
        /\ \A i \in 1..Len(s) : SubSeq(t, 1, Len(s))[i] = t[i]
    BY <1>1, <2>1, SubSeqProperties
  <2>4. SubSeq(s, 1, Len(s)) = SubSeq(t, 1, Len(s)) <=> \A i \in 1..Len(s) : s[i] = t[i]
    BY <2>2, <2>3, SeqEqual
  <2> QED
    BY <1>2, <2>4 DEF IsPrefix, Prefix
<1>3. CASE ~(Len(s) <= Len(t))
  BY <1>3 DEF IsPrefix, Prefix
<1> QED
  BY <1>2, <1>3

\* A root is a prefix of itself.
LEMMA PrefixReflexive ==
    ASSUME NEW s, Len(s) \in Nat
    PROVE  Prefix(s, s)
  BY DEF Prefix

\* Prefixes of prefixes are prefixes.
LEMMA PrefixTransitive ==
    ASSUME NEW s, NEW t, NEW u, Len(s) \in Nat, Len(t) \in Nat, Len(u) \in Nat, Prefix(s, t), Prefix(t, u)
    PROVE  Prefix(s, u)
<1>1. Len(s) <= Len(u)
  BY DEF Prefix
<1>2. ASSUME NEW i \in 1..Len(s) PROVE s[i] = u[i]
  <2>1. i \in 1..Len(t) /\ s[i] = t[i]
    BY DEF Prefix
  <2> QED
    BY <2>1 DEF Prefix
<1> QED
  BY <1>1, <1>2 DEF Prefix

\* What a message is added to keeps its prefixes.
LEMMA PrefixAppend ==
    ASSUME NEW S, NEW s \in Seq(S), NEW t \in Seq(S), NEW e \in S, Prefix(s, t)
    PROVE  Prefix(s, Append(t, e))
<1>1. Len(s) \in Nat /\ Len(t) \in Nat
  BY LenProperties
<1>2. Len(Append(t, e)) = Len(t) + 1 /\ \A i \in 1..Len(t) : Append(t, e)[i] = t[i]
  BY AppendProperties
<1>3. ASSUME NEW i \in 1..Len(s) PROVE s[i] = Append(t, e)[i]
  <2>1. i \in 1..Len(t) /\ s[i] = t[i]
    BY <1>1 DEF Prefix
  <2> QED
    BY <1>2, <2>1
<1> QED
  BY <1>1, <1>2, <1>3 DEF Prefix

\* The types of an L2 state.
LEMMA StateTypes ==
    ASSUME NEW state \in L2State
    PROVE  /\ state.anchors \in Seq(Nat) /\ Len(state.anchors) \in Nat
           /\ state.provenAnchor \in Nat
           /\ state.provenL1MessageRoot \in Seq(Messages)
           /\ state.sentMessages \in Seq(Messages) /\ Len(state.sentMessages) \in Nat
           /\ state.claimed \subseteq Nat
  BY LenProperties DEF L2State

\* The types of the variables, and of what they hold.
LEMMA MessagingTypes ==
    ASSUME TypeOK
    PROVE  /\ l1Messages \in Seq(Messages) /\ Len(l1Messages) \in Nat
           /\ l1Roots \in Seq(Seq(Messages)) /\ Len(l1Roots) \in Nat
           /\ \A i \in 1..Len(l1Roots) : l1Roots[i] \in Seq(Messages) /\ Len(l1Roots[i]) \in Nat
           /\ blocks \in Seq(L2State) /\ Len(blocks) \in Nat \ {0}
           /\ \A n \in 1..Len(blocks) : blocks[n] \in L2State
           /\ Posted \in L2State /\ l2 \in L2State
<1>1. /\ l1Messages \in Seq(Messages) /\ Len(l1Messages) \in Nat
      /\ l1Roots \in Seq(Seq(Messages)) /\ Len(l1Roots) \in Nat
      /\ blocks \in Seq(L2State) /\ Len(blocks) \in Nat \ {0}
      /\ l2 \in L2State
  BY EmptySeq, LenProperties DEF TypeOK
<1>2. ASSUME NEW i \in 1..Len(l1Roots) PROVE l1Roots[i] \in Seq(Messages) /\ Len(l1Roots[i]) \in Nat
  BY <1>1, ElementOfSeq, LenProperties
<1>3. \A n \in 1..Len(blocks) : blocks[n] \in L2State
  BY <1>1, ElementOfSeq
<1>4. Posted \in L2State
  BY <1>1, <1>3 DEF Posted
<1> QED
  BY <1>1, <1>2, <1>3, <1>4

\* Later than a later state is later.
LEMMA LaterTransitive ==
    ASSUME NEW s \in L2State, NEW t \in L2State, NEW u \in L2State, Later(s, t), Later(t, u)
    PROVE  Later(s, u)
<1>1. /\ Len(s.anchors) \in Nat /\ Len(t.anchors) \in Nat /\ Len(u.anchors) \in Nat
      /\ Len(s.sentMessages) \in Nat /\ Len(t.sentMessages) \in Nat /\ Len(u.sentMessages) \in Nat
      /\ s.provenAnchor \in Nat /\ t.provenAnchor \in Nat /\ u.provenAnchor \in Nat
  BY StateTypes
<1>2. Prefix(s.anchors, u.anchors)
  <2>1. Prefix(s.anchors, t.anchors) /\ Prefix(t.anchors, u.anchors)
    BY DEF Later
  <2> QED
    BY <1>1, <2>1, PrefixTransitive
<1>3. Prefix(s.sentMessages, u.sentMessages)
  <2>1. Prefix(s.sentMessages, t.sentMessages) /\ Prefix(t.sentMessages, u.sentMessages)
    BY DEF Later
  <2> QED
    BY <1>1, <2>1, PrefixTransitive
<1>4. s.provenAnchor <= u.provenAnchor
  BY <1>1 DEF Later
<1> QED
  BY <1>2, <1>3, <1>4 DEF Later

\* A message moves a natural amount.
LEMMA AmountIsNat ==
    ASSUME NEW m \in Messages
    PROVE  Amount(m) \in Nat
  BY MessagingAssumption DEF Amount
-----------------------------------------------------------------------------
\* Before the first message nothing is claimed or proven.
LEMMA MessagingInit == Init => MessagingInv
<1> SUFFICES ASSUME Init PROVE MessagingInv
  OBVIOUS
<1>1. Genesis \in L2State
  BY MessagingAssumption, EmptySeq DEF Genesis, L2State
<1>2. /\ l1Messages = <<>> /\ l1Roots = << <<>> >> /\ claimedOnL1 = {} /\ blocks = <<Genesis>>
      /\ l2 = Genesis /\ building = FALSE /\ Posted = Genesis
  BY DEF Init, Posted
<1>3. /\ Len(l1Roots) = 1 /\ l1Roots[1] = <<>> /\ Len(blocks) = 1 /\ blocks[1] = Genesis
      /\ Len(l1Messages) = 0
  BY <1>2
<1>4. TypeOK
  <2>1. l1Roots \in Seq(Seq(Messages)) /\ blocks \in Seq(L2State) \ {<<>>}
    BY <1>1, <1>2, <1>3
  <2>2. l1Messages \in Seq(Messages)
    BY <1>2
  <2>3. escrow \in Nat /\ claimedOnL1 \subseteq Nat /\ building \in BOOLEAN
    BY <1>2 DEF Init
  <2>4. l2 \in L2State
    BY <1>1, <1>2
  <2> QED
    BY <2>1, <2>2, <2>3, <2>4 DEF TypeOK
<1>5. RootsGrow
  BY <1>2, <1>3 DEF RootsGrow, Prefix
<1>6. Seen(Genesis) /\ AnchorsSorted(Genesis) /\ Later(Genesis, Genesis)
  BY DEF Genesis, Seen, AnchorsSorted, Later, Prefix
<1> QED
  BY <1>2, <1>3, <1>4, <1>5, <1>6 DEF MessagingInv, ChainInv, BuildingInv, PaidWasSent

\* A message sent on L1 extends the tree that later anchors show.
LEMMA SentOnL1 ==
    ASSUME MessagingInv, NEW m \in Messages, L1SendMessage(m)
    PROVE  MessagingInv'
<1>1. TypeOK /\ RootsGrow /\ ChainInv /\ BuildingInv /\ PaidWasSent
  BY DEF MessagingInv
<1>2. /\ l1Messages' = Append(l1Messages, m) /\ escrow' = escrow + Amount(m)
      /\ UNCHANGED <<l1Roots, claimedOnL1, blocks, l2, building>>
  BY DEF L1SendMessage
<1>3. TypeOK'
  <2>1. l1Messages' \in Seq(Messages)
    BY <1>1, <1>2, AppendProperties DEF TypeOK
  <2>2. escrow' \in Nat
    BY <1>1, <1>2, AmountIsNat DEF TypeOK
  <2> QED
    BY <1>1, <1>2, <2>1, <2>2 DEF TypeOK
<1>4. RootsGrow'
  <2>1. ASSUME NEW i \in 1..Len(l1Roots) PROVE Prefix(l1Roots[i], l1Messages')
    <3>1. Prefix(l1Roots[i], l1Messages) /\ l1Roots[i] \in Seq(Messages) /\ l1Messages \in Seq(Messages)
      BY <1>1, MessagingTypes DEF RootsGrow
    <3> QED
      BY <1>2, <3>1, PrefixAppend
  <2> QED
    BY <1>1, <1>2, <2>1 DEF RootsGrow
<1> QED
  BY <1>1, <1>2, <1>3, <1>4 DEF MessagingInv, ChainInv, BuildingInv, PaidWasSent, Seen, Posted

\* A closed L1 block records the root.
LEMMA ClosedOnL1 == MessagingInv /\ L1Block => MessagingInv'
<1> SUFFICES ASSUME MessagingInv, L1Block PROVE MessagingInv'
  OBVIOUS
<1> DEFINE n == Len(l1Roots)
<1>1. TypeOK /\ RootsGrow /\ ChainInv /\ BuildingInv /\ PaidWasSent
  BY DEF MessagingInv
<1>2. /\ l1Roots' = Append(l1Roots, l1Messages)
      /\ UNCHANGED <<l1Messages, escrow, claimedOnL1, blocks, l2, building>>
  BY DEF L1Block
<1>3. /\ l1Roots' \in Seq(Seq(Messages)) /\ n \in Nat /\ Len(l1Roots') = n + 1
      /\ \A i \in 1..n : l1Roots'[i] = l1Roots[i]
      /\ l1Roots'[n + 1] = l1Messages
  BY <1>1, <1>2, MessagingTypes, AppendProperties
<1>4. TypeOK'
  BY <1>1, <1>2, <1>3 DEF TypeOK
<1>5. RootsGrow'
  <2>1. ASSUME NEW i \in 1..(n + 1) PROVE Prefix(l1Roots'[i], l1Messages)
    <3>1. CASE i \in 1..n
      BY <1>1, <1>3, <3>1 DEF RootsGrow
    <3>2. CASE i = n + 1
      BY <1>1, <1>3, <3>2, MessagingTypes, PrefixReflexive
    <3> QED
      BY <1>3, <3>1, <3>2
  <2>2. ASSUME NEW i \in 1..(n + 1), NEW j \in 1..(n + 1), i <= j PROVE Prefix(l1Roots'[i], l1Roots'[j])
    <3>1. CASE j = n + 1
      BY <1>3, <2>1, <3>1
    <3>2. CASE j \in 1..n
      <4>1. i \in 1..n
        BY <1>3, <2>2, <3>2
      <4> QED
        BY <1>1, <1>3, <2>2, <3>2, <4>1 DEF RootsGrow
    <3> QED
      BY <1>3, <3>1, <3>2
  <2> QED
    BY <1>2, <1>3, <2>1, <2>2 DEF RootsGrow
<1>6. ASSUME NEW state \in L2State, Seen(state) PROVE Seen(state)'
  <2>1. \A k \in 1..Len(state.anchors) :
           /\ state.anchors[k] \in 1..n /\ state.anchors[k] \in 1..(n + 1)
           /\ l1Roots'[state.anchors[k]] = l1Roots[state.anchors[k]]
    BY <1>3, <1>6 DEF Seen
  <2>2. Len(state.anchors) \in Nat /\ state.provenAnchor \in 0..Len(state.anchors)
    BY <1>6, StateTypes DEF Seen
  <2>3. state.provenAnchor # 0 => state.provenAnchor \in 1..Len(state.anchors)
    BY <2>2
  <2> QED
    BY <1>3, <1>6, <2>1, <2>2, <2>3 DEF Seen
<1>7. ChainInv'
  BY <1>1, <1>2, <1>6, MessagingTypes DEF ChainInv
<1>8. BuildingInv'
  BY <1>1, <1>2, <1>6, MessagingTypes DEF BuildingInv, Posted
<1> QED
  BY <1>1, <1>2, <1>4, <1>5, <1>7, <1>8 DEF MessagingInv, PaidWasSent, Posted

\* A claim on L1 is of a message in the posted chain.
LEMMA ClaimedOnL1 ==
    ASSUME MessagingInv, NEW i \in 1..MaxSent, ClaimL2Message(i)
    PROVE  MessagingInv'
<1>1. TypeOK /\ RootsGrow /\ ChainInv /\ BuildingInv /\ PaidWasSent
  BY DEF MessagingInv
<1>2. /\ claimedOnL1' = claimedOnL1 \cup {i}
      /\ UNCHANGED <<l1Messages, l1Roots, blocks, l2, building>>
  BY DEF ClaimL2Message
<1>3. PICK state \in ProvableStates :
          /\ i \in DOMAIN state.sentMessages
          /\ escrow >= Amount(state.sentMessages[i])
          /\ escrow' = escrow - Amount(state.sentMessages[i])
  BY DEF ClaimL2Message
<1>4. PICK n \in 0..blockNumber : state = blocks[n + 1]
  BY <1>3 DEF ProvableStates
<1>5. n + 1 \in 1..Len(blocks) /\ n + 1 <= Len(blocks) /\ Len(blocks) \in 1..Len(blocks)
  BY <1>1, MessagingTypes DEF blockNumber
<1>6. state \in L2State /\ Posted \in L2State /\ Later(state, Posted)
  BY <1>1, <1>4, <1>5, MessagingTypes DEF ChainInv, Posted
<1>7. i \in 1..Len(state.sentMessages) /\ state.sentMessages[i] \in Messages
  BY <1>3, <1>6, StateTypes, LenProperties, ElementOfSeq
<1>8. i \in DOMAIN Posted.sentMessages
  <2>1. Len(state.sentMessages) <= Len(Posted.sentMessages) /\ Len(Posted.sentMessages) \in Nat
    BY <1>6, StateTypes DEF Later, Prefix
  <2>2. i \in 1..Len(Posted.sentMessages) /\ DOMAIN Posted.sentMessages = 1..Len(Posted.sentMessages)
    BY <1>6, <1>7, <2>1, StateTypes, LenProperties
  <2> QED
    BY <2>2
<1>9. TypeOK'
  <2>1. escrow' \in Nat
    BY <1>1, <1>3, <1>7, AmountIsNat DEF TypeOK
  <2>2. claimedOnL1' \subseteq Nat
    BY <1>1, <1>2 DEF TypeOK
  <2> QED
    BY <1>1, <1>2, <2>1, <2>2 DEF TypeOK
<1>10. PaidWasSent'
  BY <1>1, <1>2, <1>8 DEF PaidWasSent, Posted
<1> QED
  BY <1>1, <1>2, <1>9, <1>10
  DEF MessagingInv, RootsGrow, ChainInv, BuildingInv, Seen, Posted
-----------------------------------------------------------------------------
(* L2 *)

\* A change to the block being built alone.
LEMMA BuiltOn ==
    ASSUME MessagingInv, UNCHANGED <<l1Vars, blocks>>, l2' \in L2State, building' \in BOOLEAN,
           Seen(l2)', Later(Posted, l2'),
           building' => Len(l2'.anchors) = Len(Posted.anchors) + 1, ~building' => l2' = Posted
    PROVE  MessagingInv'
<1>1. TypeOK /\ RootsGrow /\ ChainInv /\ BuildingInv /\ PaidWasSent
  BY DEF MessagingInv
<1>2. UNCHANGED <<l1Messages, l1Roots, escrow, claimedOnL1, blocks>> /\ Posted' = Posted
  BY DEF l1Vars, Posted
<1>3. TypeOK'
  BY <1>1, <1>2 DEF TypeOK
<1>4. ChainInv' /\ RootsGrow' /\ PaidWasSent'
  BY <1>1, <1>2 DEF ChainInv, Seen, RootsGrow, PaidWasSent
<1>5. BuildingInv'
  BY <1>2 DEF BuildingInv
<1> QED
  BY <1>3, <1>4, <1>5 DEF MessagingInv

\* A new block builds on the posted one, with a newer anchor.
LEMMA Started ==
    ASSUME MessagingInv, NEW anchor \in DOMAIN l1Roots, StartBlock(anchor)
    PROVE  MessagingInv'
<1> DEFINE n == Len(l2.anchors)
<1>1. TypeOK /\ BuildingInv
  BY DEF MessagingInv
<1>2. /\ ~building /\ building' = TRUE
      /\ l2' = [l2 EXCEPT !.anchors = Append(@, anchor)]
      /\ UNCHANGED <<l1Vars, blocks>>
  BY DEF StartBlock
<1>3. anchor \in Nat /\ anchor \in 1..Len(l1Roots)
  BY <1>1, MessagingTypes, LenProperties
<1>4. /\ Append(l2.anchors, anchor) \in Seq(Nat) /\ n \in Nat
      /\ Len(Append(l2.anchors, anchor)) = n + 1
      /\ \A k \in 1..n : Append(l2.anchors, anchor)[k] = l2.anchors[k]
      /\ Append(l2.anchors, anchor)[n + 1] = anchor
  <2>1. l2.anchors \in Seq(Nat) /\ n \in Nat
    BY <1>1, MessagingTypes, StateTypes
  <2> QED
    BY <1>3, <2>1, AppendProperties
<1>5. /\ l2' \in L2State
      /\ l2'.anchors = Append(l2.anchors, anchor)
      /\ l2'.provenAnchor = l2.provenAnchor
      /\ l2'.provenL1MessageRoot = l2.provenL1MessageRoot
      /\ l2'.claimed = l2.claimed /\ l2'.sentMessages = l2.sentMessages
  BY <1>1, <1>2, <1>4, MessagingTypes DEF L2State
<1>6. l1Roots' = l1Roots
  BY <1>2 DEF l1Vars
<1>7. Seen(l2)'
  <2>1. Seen(l2)
    BY <1>1 DEF BuildingInv
  <2>2. \A k \in 1..(n + 1) : l2'.anchors[k] \in 1..Len(l1Roots)
    <3>1. \A k \in 1..(n + 1) : k \in 1..n \/ k = n + 1
      BY <1>4
    <3> QED
      BY <1>3, <1>4, <1>5, <2>1, <3>1 DEF Seen
  <2>3. l2.provenAnchor \in 0..n /\ l2.provenAnchor \in 0..(n + 1)
    BY <1>4, <2>1 DEF Seen
  <2>4. l2.provenL1MessageRoot =
           IF l2.provenAnchor = 0 THEN <<>> ELSE l1Roots[l2'.anchors[l2.provenAnchor]]
    <3>1. l2.provenAnchor # 0 => l2.provenAnchor \in 1..n
      BY <1>4, <2>3
    <3> QED
      BY <1>4, <1>5, <2>1, <3>1 DEF Seen
  <2>5. ASSUME NEW i \in l2.claimed
        PROVE  \E k \in 1..(n + 1) : i \in 1..Len(l1Roots[l2'.anchors[k]])
    <3>1. PICK k \in 1..n : i \in 1..Len(l1Roots[l2.anchors[k]])
      BY <2>1 DEF Seen
    <3>2. k \in 1..(n + 1) /\ l2'.anchors[k] = l2.anchors[k]
      BY <1>4, <1>5
    <3> QED
      BY <3>1, <3>2
  <2> QED
    BY <1>4, <1>5, <1>6, <2>2, <2>3, <2>4, <2>5 DEF Seen
<1>8. Later(Posted, l2')
  <2>1. Prefix(Posted.anchors, Append(l2.anchors, anchor))
    <3>1. /\ Prefix(Posted.anchors, l2.anchors)
          /\ Posted.anchors \in Seq(Nat) /\ l2.anchors \in Seq(Nat)
      BY <1>1, MessagingTypes, StateTypes DEF BuildingInv, Later
    <3> QED
      BY <1>3, <3>1, PrefixAppend
  <2> QED
    BY <1>1, <1>5, <2>1 DEF BuildingInv, Later
<1>9. Len(l2'.anchors) = Len(Posted.anchors) + 1
  BY <1>1, <1>2, <1>4, <1>5 DEF BuildingInv
<1> QED
  BY <1>2, <1>5, <1>7, <1>8, <1>9, BuiltOn

\* A root is proven from the block's anchor, and replaces a shorter one.
LEMMA Proved ==
    ASSUME MessagingInv, NEW n \in 1..(MaxL2Blocks + 1), ProveL1MessageRoot(n)
    PROVE  MessagingInv'
<1>1. TypeOK /\ BuildingInv /\ Seen(l2)
  BY DEF MessagingInv, BuildingInv
<1>2. /\ building /\ building' = building
      /\ n \in DOMAIN l2.anchors /\ n >= l2.provenAnchor
      /\ l2' = [l2 EXCEPT !.provenAnchor = n, !.provenL1MessageRoot = l1Roots[l2.anchors[n]]]
      /\ UNCHANGED <<l1Vars, blocks>>
  BY DEF ProveL1MessageRoot, NewAnchor
<1>3. n \in 1..Len(l2.anchors) /\ n \in Nat \ {0} /\ n \in 0..Len(l2.anchors)
  <2>1. Len(l2.anchors) \in Nat /\ DOMAIN l2.anchors = 1..Len(l2.anchors)
    BY <1>1, MessagingTypes, StateTypes, LenProperties
  <2> QED
    BY <1>2, <2>1
<1>4. l1Roots[l2.anchors[n]] \in Seq(Messages)
  BY <1>1, <1>3, MessagingTypes DEF Seen
<1>5. /\ l2' \in L2State
      /\ l2'.anchors = l2.anchors
      /\ l2'.provenAnchor = n
      /\ l2'.provenL1MessageRoot = l1Roots[l2.anchors[n]]
      /\ l2'.claimed = l2.claimed /\ l2'.sentMessages = l2.sentMessages
  BY <1>1, <1>2, <1>3, <1>4, MessagingTypes DEF L2State
<1>6. l1Roots' = l1Roots
  BY <1>2 DEF l1Vars
<1>7. Seen(l2)'
  BY <1>1, <1>3, <1>5, <1>6 DEF Seen
<1>8. Later(Posted, l2')
  <2>1. Later(Posted, l2) /\ Posted.provenAnchor \in Nat /\ l2.provenAnchor \in Nat
    BY <1>1, MessagingTypes, StateTypes DEF BuildingInv
  <2>2. Posted.provenAnchor <= n
    BY <1>2, <1>3, <2>1 DEF Later
  <2> QED
    BY <1>5, <2>1, <2>2 DEF Later
<1> QED
  BY <1>1, <1>2, <1>5, <1>7, <1>8, BuiltOn DEF BuildingInv

\* A claim on L2 is of a message under the proven root.
LEMMA ClaimedOnL2 ==
    ASSUME MessagingInv, NEW i \in 1..MaxSent, ClaimL1Message(i)
    PROVE  MessagingInv'
<1> DEFINE amount == Amount(l2.provenL1MessageRoot[i])
<1>1. TypeOK /\ BuildingInv /\ Seen(l2)
  BY DEF MessagingInv, BuildingInv
<1>2. /\ building /\ building' = building
      /\ i \in DOMAIN l2.provenL1MessageRoot
      /\ l2.supply >= amount
      /\ l2' = [l2 EXCEPT !.claimed = @ \cup {i}, !.supply = @ - amount, !.held = @ + amount]
      /\ UNCHANGED <<l1Vars, blocks>>
  BY DEF ClaimL1Message
<1>3. i \in 1..Len(l2.provenL1MessageRoot) /\ l2.provenL1MessageRoot[i] \in Messages /\ i \in Nat
  <2>1. l2.provenL1MessageRoot \in Seq(Messages)
    BY <1>1, MessagingTypes, StateTypes
  <2> QED
    BY <1>2, <2>1, LenProperties, ElementOfSeq
<1>4. amount \in Nat
  BY <1>3, AmountIsNat
<1> HIDE DEF amount
<1>5. /\ l2' \in L2State
      /\ l2'.anchors = l2.anchors
      /\ l2'.provenAnchor = l2.provenAnchor
      /\ l2'.provenL1MessageRoot = l2.provenL1MessageRoot
      /\ l2'.claimed = l2.claimed \cup {i} /\ l2'.sentMessages = l2.sentMessages
  <2>1. l2.supply \in Nat /\ l2.held \in Nat /\ l2.claimed \subseteq Nat /\ l2 \in L2State
    BY <1>1, MessagingTypes DEF L2State
  <2>2. l2.supply - amount \in Nat /\ l2.held + amount \in Nat /\ l2.claimed \cup {i} \subseteq Nat
    BY <1>2, <1>3, <1>4, <2>1
  <2> QED
    BY <1>2, <2>1, <2>2 DEF L2State
<1>6. l1Roots' = l1Roots
  BY <1>2 DEF l1Vars
<1>7. Seen(l2)'
  <2>1. l2.provenAnchor # 0
    BY <1>1, <1>2 DEF Seen
  <2>2. /\ l2.provenAnchor \in 1..Len(l2.anchors)
        /\ l2.provenL1MessageRoot = l1Roots[l2.anchors[l2.provenAnchor]]
    <3>1. Len(l2.anchors) \in Nat /\ l2.provenAnchor \in 0..Len(l2.anchors)
      BY <1>1, MessagingTypes, StateTypes DEF Seen
    <3> QED
      BY <1>1, <2>1, <3>1 DEF Seen
  <2> QED
    BY <1>1, <1>3, <1>5, <1>6, <2>2 DEF Seen
<1>8. Later(Posted, l2')
  BY <1>1, <1>5 DEF BuildingInv, Later
<1> QED
  BY <1>1, <1>2, <1>5, <1>7, <1>8, BuiltOn DEF BuildingInv

\* A message sent on L2 joins the block being built.
LEMMA SentOnL2 ==
    ASSUME MessagingInv, NEW m \in Messages, L2SendMessage(m)
    PROVE  MessagingInv'
<1> DEFINE amount == Locked(m)
<1>1. TypeOK /\ BuildingInv /\ Seen(l2)
  BY DEF MessagingInv, BuildingInv
<1>2. /\ building /\ building' = building
      /\ l2.held >= amount
      /\ l2' = [l2 EXCEPT !.sentMessages = Append(@, m), !.supply = @ + amount, !.held = @ - amount]
      /\ UNCHANGED <<l1Vars, blocks>>
  BY DEF L2SendMessage
<1>3. amount \in Nat
  BY AmountIsNat DEF Locked
<1> HIDE DEF amount
<1>4. /\ l2' \in L2State
      /\ l2'.anchors = l2.anchors
      /\ l2'.provenAnchor = l2.provenAnchor
      /\ l2'.provenL1MessageRoot = l2.provenL1MessageRoot
      /\ l2'.claimed = l2.claimed /\ l2'.sentMessages = Append(l2.sentMessages, m)
  <2>1. l2.supply \in Nat /\ l2.held \in Nat /\ l2.sentMessages \in Seq(Messages) /\ l2 \in L2State
    BY <1>1, MessagingTypes DEF L2State
  <2>2. l2.supply + amount \in Nat /\ l2.held - amount \in Nat
    BY <1>2, <1>3, <2>1
  <2>3. Append(l2.sentMessages, m) \in Seq(Messages)
    BY <2>1, AppendProperties
  <2> QED
    BY <1>2, <2>1, <2>2, <2>3 DEF L2State
<1>5. Seen(l2)'
  <2>1. l1Roots' = l1Roots
    BY <1>2 DEF l1Vars
  <2> QED
    BY <1>1, <1>4, <2>1 DEF Seen
<1>6. Later(Posted, l2')
  <2>1. Prefix(Posted.sentMessages, Append(l2.sentMessages, m))
    <3>1. /\ Prefix(Posted.sentMessages, l2.sentMessages)
          /\ Posted.sentMessages \in Seq(Messages) /\ l2.sentMessages \in Seq(Messages)
      BY <1>1, MessagingTypes, StateTypes DEF BuildingInv, Later
    <3> QED
      BY <3>1, PrefixAppend
  <2> QED
    BY <1>1, <1>4, <2>1 DEF BuildingInv, Later
<1> QED
  BY <1>1, <1>2, <1>4, <1>5, <1>6, BuiltOn DEF BuildingInv

\* A burned fee changes what accounts hold only.
LEMMA Burned == MessagingInv /\ BurnBaseFee => MessagingInv'
<1> SUFFICES ASSUME MessagingInv, BurnBaseFee PROVE MessagingInv'
  OBVIOUS
<1>1. TypeOK /\ BuildingInv /\ Seen(l2)
  BY DEF MessagingInv, BuildingInv
<1>2. /\ building /\ building' = building /\ l2.held > 0
      /\ l2' = [l2 EXCEPT !.held = @ - 1]
      /\ UNCHANGED <<l1Vars, blocks>>
  BY DEF BurnBaseFee
<1>3. /\ l2' \in L2State
      /\ l2'.anchors = l2.anchors
      /\ l2'.provenAnchor = l2.provenAnchor
      /\ l2'.provenL1MessageRoot = l2.provenL1MessageRoot
      /\ l2'.claimed = l2.claimed /\ l2'.sentMessages = l2.sentMessages
  <2>1. l2.held \in Nat /\ l2 \in L2State
    BY <1>1, MessagingTypes DEF L2State
  <2>2. l2.held - 1 \in Nat
    BY <1>2, <2>1
  <2> QED
    BY <1>2, <2>1, <2>2 DEF L2State
<1>4. Seen(l2)'
  <2>1. l1Roots' = l1Roots
    BY <1>2 DEF l1Vars
  <2> QED
    BY <1>1, <1>3, <2>1 DEF Seen
<1>5. Later(Posted, l2')
  BY <1>1, <1>3 DEF BuildingInv, Later
<1> QED
  BY <1>1, <1>2, <1>3, <1>4, <1>5, BuiltOn DEF BuildingInv

\* A dropped block leaves the posted chain as it is.
LEMMA Dropped == MessagingInv /\ Drop => MessagingInv'
<1> SUFFICES ASSUME MessagingInv, Drop PROVE MessagingInv'
  OBVIOUS
<1>1. TypeOK /\ ChainInv
  BY DEF MessagingInv
<1>2. building' = FALSE /\ l2' = Posted /\ UNCHANGED <<l1Vars, blocks>>
  BY DEF Drop
<1>3. Len(blocks) \in 1..Len(blocks) /\ Posted \in L2State
  BY <1>1, MessagingTypes
<1>4. Seen(Posted) /\ Later(Posted, Posted)
  BY <1>1, <1>3 DEF ChainInv, Posted
<1>5. Seen(l2)'
  <2>1. l1Roots' = l1Roots
    BY <1>2 DEF l1Vars
  <2> QED
    BY <1>2, <1>4, <2>1 DEF Seen
<1> QED
  BY <1>2, <1>3, <1>4, <1>5, BuiltOn
-----------------------------------------------------------------------------
\* A block is posted: its anchor is not older than its parent's, so all of its
\* chain's are in order.
LEMMA PostedInv == MessagingInv /\ Advance => MessagingInv'
<1> SUFFICES ASSUME MessagingInv, Advance PROVE MessagingInv'
  OBVIOUS
<1> DEFINE n == Len(blocks)
           k == Len(Posted.anchors)
<1>1. TypeOK /\ RootsGrow /\ ChainInv /\ BuildingInv /\ PaidWasSent
  BY DEF MessagingInv
<1>2. /\ building /\ AnchorAllowed(AnchorOf(l2))
      /\ blocks' = Append(blocks, l2) /\ building' = FALSE
      /\ UNCHANGED <<l1Messages, l1Roots, escrow, claimedOnL1, l2>>
  BY DEF Advance, l1Vars
<1>3. l2 \in L2State /\ Posted \in L2State /\ blocks \in Seq(L2State) /\ n \in Nat \ {0} /\ k \in Nat
  BY <1>1, MessagingTypes, StateTypes
<1>4. /\ blocks' \in Seq(L2State) /\ blocks' # <<>> /\ Len(blocks') = n + 1
      /\ \A i \in 1..n : blocks'[i] = blocks[i]
      /\ blocks'[n + 1] = l2
  BY <1>2, <1>3, AppendProperties
<1>5. Posted' = l2
  BY <1>4 DEF Posted
<1>6. TypeOK'
  BY <1>1, <1>2, <1>4 DEF TypeOK
<1>7. Seen(l2) /\ Later(Posted, l2) /\ Len(l2.anchors) = k + 1
  BY <1>1, <1>2 DEF BuildingInv
<1>8. AnchorsSorted(l2)
  <2>1. /\ \A i \in 1..k : l2.anchors[i] = Posted.anchors[i]
        /\ \A i \in 1..k : Posted.anchors[i] \in Nat
        /\ l2.anchors[k + 1] \in Nat
    <3>1. l2.anchors \in Seq(Nat) /\ Posted.anchors \in Seq(Nat) /\ k + 1 \in 1..(k + 1)
      BY <1>3, StateTypes
    <3>2. \A i \in 1..k : l2.anchors[i] = Posted.anchors[i]
      BY <1>7 DEF Later, Prefix
    <3>3. \A i \in 1..k : Posted.anchors[i] \in Nat
      BY <3>1, ElementOfSeq
    <3>4. l2.anchors[k + 1] \in Nat
      BY <1>7, <3>1, ElementOfSeq
    <3> QED
      BY <3>2, <3>3, <3>4
  <2>2. AnchorsSorted(Posted)
    BY <1>1, <1>3 DEF ChainInv, Posted
  <2>3. k # 0 => Posted.anchors[k] <= l2.anchors[k + 1]
    <3>1. SUFFICES ASSUME k # 0 PROVE Posted.anchors[k] <= l2.anchors[k + 1]
      OBVIOUS
    <3>2. Posted.anchors # <<>> /\ l2.anchors # <<>>
      BY <1>3, <1>7, <3>1
    <3>3. AnchorOf(Posted) = Posted.anchors[k] /\ AnchorOf(l2) = l2.anchors[k + 1]
      BY <1>7, <3>2 DEF AnchorOf, Last
    <3>4. AnchorOf(l2) >= AnchorOf(Posted)
      BY <1>2 DEF AnchorAllowed
    <3>5. k \in 1..k
      BY <1>3, <3>1
    <3> QED
      BY <2>1, <3>3, <3>4, <3>5
  <2>4. ASSUME NEW i \in 1..(k + 1), NEW j \in 1..(k + 1), i <= j
        PROVE  l2.anchors[i] <= l2.anchors[j]
    <3>1. CASE j \in 1..k
      <4>1. i \in 1..k
        BY <1>3, <2>4, <3>1
      <4> QED
        BY <2>1, <2>2, <2>4, <3>1, <4>1 DEF AnchorsSorted
    <3>2. CASE j = k + 1 /\ i \in 1..k
      <4>1. k # 0 /\ k \in 1..k /\ i <= k
        BY <1>3, <3>2
      <4>2. Posted.anchors[i] <= Posted.anchors[k] /\ Posted.anchors[k] <= l2.anchors[k + 1]
        BY <2>2, <2>3, <3>2, <4>1 DEF AnchorsSorted
      <4>3. Posted.anchors[i] \in Nat /\ Posted.anchors[k] \in Nat /\ l2.anchors[i] = Posted.anchors[i]
        BY <2>1, <3>2, <4>1
      <4> QED
        BY <2>1, <3>2, <4>2, <4>3
    <3>3. CASE j = k + 1 /\ i = k + 1
      BY <2>1, <3>3
    <3> QED
      BY <1>3, <3>1, <3>2, <3>3
  <2> QED
    BY <1>7, <2>4 DEF AnchorsSorted
<1>9. ChainInv'
  <2>1. ASSUME NEW i \in 1..(n + 1) PROVE Seen(blocks'[i]) /\ AnchorsSorted(blocks'[i])
    <3>1. i \in 1..n \/ i = n + 1
      BY <1>3
    <3> QED
      BY <1>1, <1>4, <1>7, <1>8, <3>1 DEF ChainInv
  <2>2. ASSUME NEW i \in 1..(n + 1), NEW j \in 1..(n + 1), i <= j PROVE Later(blocks'[i], blocks'[j])
    <3>1. CASE j \in 1..n
      <4>1. i \in 1..n
        BY <1>3, <2>2, <3>1
      <4> QED
        BY <1>1, <1>4, <2>2, <3>1, <4>1 DEF ChainInv
    <3>2. CASE j = n + 1 /\ i \in 1..n
      <4>1. n \in 1..n /\ i <= n /\ blocks[i] \in L2State
        BY <1>1, <1>3, <3>2, MessagingTypes
      <4>2. Later(blocks[i], Posted) /\ Later(Posted, l2)
        BY <1>1, <1>7, <3>2, <4>1 DEF ChainInv, Posted
      <4>3. Later(blocks[i], l2)
        BY <1>3, <4>1, <4>2, LaterTransitive
      <4> QED
        BY <1>4, <3>2, <4>3
    <3>3. CASE j = n + 1 /\ i = n + 1
      BY <1>3, <1>4, <3>3, StateTypes, PrefixReflexive DEF Later
    <3> QED
      BY <1>3, <3>1, <3>2, <3>3
  <2>3. l1Roots' = l1Roots /\ Len(blocks') = n + 1
    BY <1>2, <1>4
  <2>4. ASSUME NEW i \in 1..(n + 1) PROVE (Seen(blocks[i]) /\ AnchorsSorted(blocks[i]))'
    BY <2>1, <2>3 DEF Seen, AnchorsSorted
  <2> QED
    BY <2>2, <2>3, <2>4 DEF ChainInv
<1>10. BuildingInv'
  <2>1. Later(l2, l2)
    BY <1>3, StateTypes, PrefixReflexive DEF Later
  <2> QED
    BY <1>2, <1>5, <1>7, <2>1 DEF BuildingInv, Seen
<1>11. PaidWasSent'
  <2>1. DOMAIN Posted.sentMessages \subseteq DOMAIN l2.sentMessages
    <3>1. /\ DOMAIN Posted.sentMessages = 1..Len(Posted.sentMessages)
          /\ DOMAIN l2.sentMessages = 1..Len(l2.sentMessages)
          /\ Len(Posted.sentMessages) \in Nat /\ Len(l2.sentMessages) \in Nat
      BY <1>3, StateTypes, LenProperties
    <3>2. Len(Posted.sentMessages) <= Len(l2.sentMessages)
      BY <1>7 DEF Later, Prefix
    <3> QED
      BY <3>1, <3>2
  <2> QED
    BY <1>1, <1>2, <1>5, <2>1 DEF PaidWasSent
<1> QED
  BY <1>1, <1>2, <1>6, <1>9, <1>10, <1>11 DEF MessagingInv, RootsGrow

\* Every step keeps the invariant.
LEMMA MessagingStep == MessagingInv /\ [Next]_vars => MessagingInv'
<1> SUFFICES ASSUME MessagingInv, [Next]_vars PROVE MessagingInv'
  OBVIOUS
<1>1. CASE UNCHANGED vars
  BY <1>1 DEF vars, MessagingInv, TypeOK, RootsGrow, ChainInv, BuildingInv, PaidWasSent, Seen, Posted
<1> QED
  BY <1>1, SentOnL1, ClosedOnL1, ClaimedOnL1, Started, Proved, ClaimedOnL2, SentOnL2, Burned, Dropped,
     PostedInv DEF Next

\* The invariant holds in every state.
LEMMA MessagingInvariant == Spec => []MessagingInv
<1> QED
  BY MessagingInit, MessagingStep, PTL DEF Spec
-----------------------------------------------------------------------------
\* Every variable keeps its type: above all, no account, nor the escrow, pays
\* what it does not have.
THEOREM MessagingTypeCorrect == Spec => []TypeOK
<1>1. MessagingInv => TypeOK
  BY DEF MessagingInv
<1> QED
  BY <1>1, MessagingInvariant, PTL

\* The proven root only moves forward along the posted chain, whatever anchors
\* its blocks choose and prove.
THEOREM NoMessageLost == Spec => []RootMovesForward
<1>1. MessagingInv => RootMovesForward
  <2>1. SUFFICES ASSUME MessagingInv, NEW i \in DOMAIN blocks, NEW j \in DOMAIN blocks, i <= j
                 PROVE  IsPrefix(blocks[i].provenL1MessageRoot, blocks[j].provenL1MessageRoot)
    BY DEF RootMovesForward
  <2> DEFINE s == blocks[i]
             t == blocks[j]
  <2>2. TypeOK /\ RootsGrow /\ ChainInv
    BY <2>1 DEF MessagingInv
  <2>3. i \in 1..Len(blocks) /\ j \in 1..Len(blocks) /\ s \in L2State /\ t \in L2State
    BY <2>2, MessagingTypes, LenProperties
  <2>4. Seen(s) /\ Seen(t) /\ AnchorsSorted(t) /\ Later(s, t)
    BY <2>1, <2>2, <2>3 DEF ChainInv
  <2> HIDE DEF s, t
  <2>5. s.provenL1MessageRoot \in Seq(Messages) /\ t.provenL1MessageRoot \in Seq(Messages)
    BY <2>3, StateTypes
  <2>6. SUFFICES Prefix(s.provenL1MessageRoot, t.provenL1MessageRoot)
    BY <2>5, PrefixIs DEF s, t
  <2>7. CASE s.provenAnchor = 0
    <3>1. s.provenL1MessageRoot = <<>>
      BY <2>4, <2>7 DEF Seen
    <3> QED
      BY <2>5, <3>1, LenProperties DEF Prefix
  <2>8. CASE s.provenAnchor # 0
    <3> DEFINE p == s.provenAnchor
               q == t.provenAnchor
    <3>1. /\ Len(s.anchors) \in Nat /\ Len(t.anchors) \in Nat
          /\ p \in 0..Len(s.anchors) /\ q \in 0..Len(t.anchors)
          /\ p <= q /\ Len(s.anchors) <= Len(t.anchors)
      BY <2>3, <2>4, StateTypes DEF Seen, Later, Prefix
    <3>2. p \in 1..Len(s.anchors) /\ p \in 1..Len(t.anchors) /\ q \in 1..Len(t.anchors) /\ q # 0
      BY <2>8, <3>1
    <3>3. /\ s.provenL1MessageRoot = l1Roots[s.anchors[p]]
          /\ t.provenL1MessageRoot = l1Roots[t.anchors[q]]
          /\ s.anchors[p] = t.anchors[p]
          /\ t.anchors[p] <= t.anchors[q]
          /\ t.anchors[p] \in 1..Len(l1Roots) /\ t.anchors[q] \in 1..Len(l1Roots)
      BY <2>4, <2>8, <3>1, <3>2 DEF Seen, AnchorsSorted, Later, Prefix
    <3> QED
      BY <2>2, <3>3 DEF RootsGrow
  <2> QED
    BY <2>7, <2>8
<1> QED
  BY <1>1, MessagingInvariant, PTL

\* Neither chain claims what the other did not send.
THEOREM ClaimsWereSent == Spec => []OnlySentIsClaimed
<1>1. MessagingInv => OnlySentIsClaimed
  <2> SUFFICES ASSUME MessagingInv PROVE OnlySentIsClaimed
    OBVIOUS
  <2>1. TypeOK /\ RootsGrow /\ ChainInv /\ PaidWasSent
    BY DEF MessagingInv
  <2>2. ASSUME NEW n \in 1..Len(blocks), NEW i \in blocks[n].claimed
        PROVE  /\ i <= Len(l1Roots[AnchorOf(blocks[n])])
               /\ IsPrefix(l1Roots[AnchorOf(blocks[n])], l1Messages)
    <3> DEFINE b == blocks[n]
               m == Len(b.anchors)
    <3>1. b \in L2State /\ Seen(b) /\ AnchorsSorted(b) /\ m \in Nat
      BY <2>1, MessagingTypes, StateTypes DEF ChainInv
    <3>2. PICK k \in 1..m : i \in 1..Len(l1Roots[b.anchors[k]])
      BY <3>1 DEF Seen
    <3>3. m \in 1..m /\ k <= m /\ b.anchors # <<>>
      BY <3>1, <3>2
    <3>4. AnchorOf(b) = b.anchors[m]
      BY <3>3 DEF AnchorOf, Last
    <3>5. /\ b.anchors[k] \in 1..Len(l1Roots) /\ b.anchors[m] \in 1..Len(l1Roots)
          /\ b.anchors[k] <= b.anchors[m]
      BY <3>1, <3>2, <3>3 DEF Seen, AnchorsSorted
    <3>6. /\ Prefix(l1Roots[b.anchors[k]], l1Roots[b.anchors[m]])
          /\ Prefix(l1Roots[b.anchors[m]], l1Messages)
      BY <2>1, <3>5 DEF RootsGrow
    <3> HIDE DEF b, m
    <3>7. l1Roots[b.anchors[k]] \in Seq(Messages) /\ l1Roots[b.anchors[m]] \in Seq(Messages)
      BY <2>1, <3>5, MessagingTypes
    <3>8. Len(l1Roots[b.anchors[k]]) \in Nat /\ Len(l1Roots[b.anchors[m]]) \in Nat
      BY <2>1, <3>5, MessagingTypes
    <3>9. i <= Len(l1Roots[b.anchors[m]])
      BY <3>2, <3>6, <3>8 DEF Prefix
    <3>10. IsPrefix(l1Roots[b.anchors[m]], l1Messages)
      BY <2>1, <3>6, <3>7, MessagingTypes, PrefixIs
    <3> QED
      BY <3>4, <3>9, <3>10 DEF b
  <2>3. ASSUME NEW b \in Range(blocks) PROVE \E n \in 1..Len(blocks) : b = blocks[n]
    BY <2>1, MessagingTypes, LenProperties DEF Range
  <2> QED
    BY <2>1, <2>2, <2>3 DEF OnlySentIsClaimed, PaidWasSent
<1> QED
  BY <1>1, MessagingInvariant, PTL
-----------------------------------------------------------------------------
(* The sums of what messages move.                                         *)

\* What the messages S of a queue move.
AmountIn(queue, S) == [i \in S |-> Amount(queue[i])]

\* Sums of amounts are natural.
LEMMA AmountsTypes ==
    ASSUME NEW queue \in Seq(Messages), NEW S \in SUBSET (1..Len(queue))
    PROVE  /\ IsFiniteSet(S)
           /\ \A i \in S : Amount(queue[i]) \in Nat /\ AmountIn(queue, S)[i] = Amount(queue[i])
           /\ Amounts(queue, S) \in Nat
<1>1. Len(queue) \in Nat /\ \A i \in S : queue[i] \in Messages
  BY LenProperties, ElementOfSeq
<1>2. IsFiniteSet(S)
  <2>1. IsFiniteSet(1..Len(queue))
    BY <1>1, FS_Interval
  <2> QED
    BY <2>1, FS_Subset
<1>3. \A i \in S : Amount(queue[i]) \in Nat /\ AmountIn(queue, S)[i] = Amount(queue[i])
  BY <1>1, AmountIsNat DEF AmountIn
<1>4. SumFunctionOnSet(AmountIn(queue, S), S) \in Nat
  BY <1>2, <1>3, SumNat
<1> QED
  BY <1>2, <1>3, <1>4 DEF Amounts, AmountIn

\* No message moves nothing.
LEMMA AmountsEmpty == ASSUME NEW queue PROVE Amounts(queue, {}) = 0
  BY SumEmpty DEF Amounts

\* They depend on the messages summed alone.
LEMMA AmountsSame ==
    ASSUME NEW s, NEW t, NEW S, \A i \in S : s[i] = t[i]
    PROVE  Amounts(s, S) = Amounts(t, S)
<1>1. AmountIn(s, S) = AmountIn(t, S)
  BY DEF AmountIn
<1> QED
  BY <1>1 DEF Amounts, AmountIn

\* A set of messages split in two.
LEMMA AmountsUnion ==
    ASSUME NEW queue \in Seq(Messages), NEW S \in SUBSET (1..Len(queue)),
           NEW R \in SUBSET (1..Len(queue)), S \cap R = {}
    PROVE  Amounts(queue, S \cup R) = Amounts(queue, S) + Amounts(queue, R)
<1> DEFINE f == AmountIn(queue, S \cup R)
<1>1. IsFiniteSet(S) /\ IsFiniteSet(R) /\ S \cup R \in SUBSET (1..Len(queue))
  BY AmountsTypes
<1>2. \A i \in S \cup R : f[i] \in Nat /\ f[i] = Amount(queue[i])
  BY <1>1, AmountsTypes
<1>3. (\A i \in S : f[i] = AmountIn(queue, S)[i]) /\ \A i \in R : f[i] = AmountIn(queue, R)[i]
  BY <1>2, AmountsTypes
<1> HIDE DEF f
<1>4. SumFunctionOnSet(f, S \cup R) = SumFunctionOnSet(f, S) + SumFunctionOnSet(f, R)
  BY <1>1, <1>2, SumUnion
<1>5. SumFunctionOnSet(f, S) = SumFunctionOnSet(AmountIn(queue, S), S)
  BY <1>1, <1>3, SumSame
<1>6. SumFunctionOnSet(f, R) = SumFunctionOnSet(AmountIn(queue, R), R)
  BY <1>1, <1>3, SumSame
<1> QED
  BY <1>4, <1>5, <1>6 DEF f, Amounts, AmountIn

\* One message more.
LEMMA AmountsAdd ==
    ASSUME NEW queue \in Seq(Messages), NEW S \in SUBSET (1..Len(queue)),
           NEW i \in 1..Len(queue), i \notin S
    PROVE  Amounts(queue, S \cup {i}) = Amounts(queue, S) + Amount(queue[i])
<1>1. {i} \in SUBSET (1..Len(queue)) /\ {} \in SUBSET (1..Len(queue)) /\ S \cap {i} = {}
  OBVIOUS
<1>2. Amounts(queue, S \cup {i}) = Amounts(queue, S) + Amounts(queue, {i})
  BY <1>1, AmountsUnion
<1>3. Amount(queue[i]) \in Nat /\ AmountIn(queue, {i})[i] = Amount(queue[i])
  BY <1>1, AmountsTypes
<1>4. SumFunctionOnSet(AmountIn(queue, {i}), {} \cup {i})
         = SumFunctionOnSet(AmountIn(queue, {i}), {}) + AmountIn(queue, {i})[i]
  BY <1>3, SumAdd, FS_EmptySet
<1>5. {} \cup {i} = {i} /\ SumFunctionOnSet(AmountIn(queue, {i}), {}) = 0
  BY SumEmpty
<1>6. SumFunctionOnSet(AmountIn(queue, {i}), {i}) = Amount(queue[i])
  BY <1>3, <1>4, <1>5
<1> QED
  BY <1>2, <1>6 DEF Amounts, AmountIn
-----------------------------------------------------------------------------
(* The escrow covers what it may have to pay.                              *)

\* What the escrow may have to pay if L2 goes on from a state.
InFlight(state) == DOMAIN l1Messages \ state.claimed
Unpaid(state)   == DOMAIN state.sentMessages \ claimedOnL1
Owes(state) == Amounts(l1Messages, InFlight(state)) + state.held
                 + Amounts(state.sentMessages, Unpaid(state))

\* What accounts hold in the state t and sent since s, they held or claimed.
SentSince(s, t) == DOMAIN t.sentMessages \ DOMAIN s.sentMessages
Flow(s, t) ==
    /\ s.claimed \subseteq t.claimed
    /\ t.held + Amounts(t.sentMessages, SentSince(s, t))
         <= s.held + Amounts(l1Messages, t.claimed \ s.claimed)

\* The block being built creates nothing, and the escrow covers the posted
\* chain; so it covers the block.
Balanced == escrow >= Owes(Posted) /\ Flow(Posted, l2)

\* What L2 proved and claimed is in the message tree.
LEMMA InTheTree ==
    ASSUME TypeOK, RootsGrow, NEW state \in L2State, Seen(state)
    PROVE  /\ state.claimed \subseteq 1..Len(l1Messages)
           /\ \A i \in 1..Len(state.provenL1MessageRoot) :
                 /\ i \in 1..Len(l1Messages)
                 /\ state.provenL1MessageRoot[i] = l1Messages[i]
<1>1. /\ Len(l1Messages) \in Nat
      /\ \A k \in 1..Len(l1Roots) : Len(l1Roots[k]) \in Nat /\ Prefix(l1Roots[k], l1Messages)
  BY MessagingTypes DEF RootsGrow
<1>2. ASSUME NEW k \in 1..Len(l1Roots), NEW i \in 1..Len(l1Roots[k])
      PROVE  i \in 1..Len(l1Messages) /\ l1Roots[k][i] = l1Messages[i]
  BY <1>1 DEF Prefix
<1>3. ASSUME NEW i \in state.claimed PROVE i \in 1..Len(l1Messages)
  BY <1>2 DEF Seen
<1>4. ASSUME NEW i \in 1..Len(state.provenL1MessageRoot)
      PROVE  i \in 1..Len(l1Messages) /\ state.provenL1MessageRoot[i] = l1Messages[i]
  <2>1. CASE state.provenAnchor = 0
    <3>1. Len(state.provenL1MessageRoot) = 0
      BY <2>1 DEF Seen
    <3> QED
      BY <3>1
  <2>2. CASE state.provenAnchor # 0
    <3>1. state.provenAnchor \in 1..Len(state.anchors)
      BY <2>2, StateTypes DEF Seen
    <3>2. state.anchors[state.provenAnchor] \in 1..Len(l1Roots)
      BY <3>1 DEF Seen
    <3>3. state.provenL1MessageRoot = l1Roots[state.anchors[state.provenAnchor]]
      BY <2>2 DEF Seen
    <3> QED
      BY <1>2, <3>2, <3>3
  <2> QED
    BY <2>1, <2>2
<1> QED
  BY <1>3, <1>4

\* The facts about the posted chain and the block on it that sums need.
LEMMA SumTypes ==
    ASSUME MessagingInv
    PROVE  /\ l1Messages \in Seq(Messages) /\ DOMAIN l1Messages = 1..Len(l1Messages)
           /\ Len(l1Messages) \in Nat /\ escrow \in Nat
           /\ \A state \in {l2, Posted} :
                 /\ state \in L2State
                 /\ state.sentMessages \in Seq(Messages) /\ state.held \in Nat
                 /\ Len(state.sentMessages) \in Nat
                 /\ DOMAIN state.sentMessages = 1..Len(state.sentMessages)
                 /\ state.claimed \subseteq 1..Len(l1Messages)
                 /\ claimedOnL1 \subseteq DOMAIN state.sentMessages
           /\ Prefix(Posted.sentMessages, l2.sentMessages)
<1>1. TypeOK /\ RootsGrow /\ ChainInv /\ BuildingInv /\ PaidWasSent
  BY DEF MessagingInv
<1>2. /\ l1Messages \in Seq(Messages) /\ DOMAIN l1Messages = 1..Len(l1Messages)
      /\ Len(l1Messages) \in Nat /\ escrow \in Nat
      /\ l2 \in L2State /\ Posted \in L2State /\ Len(blocks) \in 1..Len(blocks)
  BY <1>1, MessagingTypes, LenProperties DEF TypeOK
<1>3. Seen(Posted) /\ Seen(l2) /\ Later(Posted, l2)
  BY <1>1, <1>2 DEF ChainInv, BuildingInv, Posted
<1>4. ASSUME NEW state \in {l2, Posted}
      PROVE  /\ state \in L2State
             /\ state.sentMessages \in Seq(Messages) /\ state.held \in Nat
             /\ Len(state.sentMessages) \in Nat
             /\ DOMAIN state.sentMessages = 1..Len(state.sentMessages)
             /\ state.claimed \subseteq 1..Len(l1Messages)
  <2>1. state \in L2State /\ Seen(state)
    BY <1>2, <1>3
  <2>2. state.sentMessages \in Seq(Messages) /\ state.held \in Nat
    BY <2>1 DEF L2State
  <2> QED
    BY <1>1, <2>1, <2>2, LenProperties, InTheTree
<1>5. Prefix(Posted.sentMessages, l2.sentMessages)
  BY <1>3 DEF Later
<1>6. claimedOnL1 \subseteq DOMAIN Posted.sentMessages
  BY <1>1 DEF PaidWasSent
<1>7. DOMAIN Posted.sentMessages \subseteq DOMAIN l2.sentMessages
  BY <1>4, <1>5 DEF Prefix
<1> QED
  BY <1>2, <1>4, <1>5, <1>6, <1>7

\* A state that came from another as Flow says needs no more of the escrow.
LEMMA OwesNoMore ==
    ASSUME MessagingInv, Balanced
    PROVE  escrow >= Owes(l2)
<1> DEFINE D == 1..Len(l1Messages)
           new == l2.claimed \ Posted.claimed
           P == DOMAIN Posted.sentMessages
           Q == DOMAIN l2.sentMessages
<1>1. /\ l1Messages \in Seq(Messages) /\ DOMAIN l1Messages = D
      /\ l2.claimed \subseteq D /\ Posted.claimed \subseteq D
      /\ Posted.claimed \subseteq l2.claimed
  BY SumTypes DEF Balanced, Flow
<1>2. /\ l2.sentMessages \in Seq(Messages) /\ Q = 1..Len(l2.sentMessages)
      /\ Posted.sentMessages \in Seq(Messages) /\ P = 1..Len(Posted.sentMessages)
      /\ P \subseteq Q /\ claimedOnL1 \subseteq P
      /\ \A i \in P : Posted.sentMessages[i] = l2.sentMessages[i]
  <2>1. Prefix(Posted.sentMessages, l2.sentMessages)
    BY SumTypes
  <2>2. /\ l2.sentMessages \in Seq(Messages) /\ Q = 1..Len(l2.sentMessages)
        /\ Posted.sentMessages \in Seq(Messages) /\ P = 1..Len(Posted.sentMessages)
        /\ Len(Posted.sentMessages) \in Nat /\ Len(l2.sentMessages) \in Nat
        /\ claimedOnL1 \subseteq P
    BY SumTypes
  <2> QED
    BY <2>1, <2>2 DEF Prefix
<1>3. /\ Amounts(l1Messages, InFlight(Posted))
            = Amounts(l1Messages, InFlight(l2)) + Amounts(l1Messages, new)
      /\ Amounts(l1Messages, InFlight(l2)) \in Nat
      /\ Amounts(l1Messages, new) \in Nat
  <2>1. /\ InFlight(Posted) = (D \ l2.claimed) \cup new /\ InFlight(l2) = D \ l2.claimed
        /\ (D \ l2.claimed) \cap new = {}
        /\ D \ l2.claimed \in SUBSET D /\ new \in SUBSET D
    BY <1>1 DEF InFlight
  <2> HIDE DEF new
  <2>2. Amounts(l1Messages, (D \ l2.claimed) \cup new)
           = Amounts(l1Messages, D \ l2.claimed) + Amounts(l1Messages, new)
    BY <1>1, <2>1, AmountsUnion
  <2>3. Amounts(l1Messages, D \ l2.claimed) \in Nat /\ Amounts(l1Messages, new) \in Nat
    BY <1>1, <2>1, AmountsTypes
  <2> QED
    BY <2>1, <2>2, <2>3
<1>4. /\ Amounts(l2.sentMessages, Unpaid(l2))
            = Amounts(Posted.sentMessages, Unpaid(Posted))
                + Amounts(l2.sentMessages, SentSince(Posted, l2))
      /\ Amounts(Posted.sentMessages, Unpaid(Posted)) \in Nat
      /\ Amounts(l2.sentMessages, SentSince(Posted, l2)) \in Nat
  <2>1. /\ Unpaid(l2) = (P \ claimedOnL1) \cup (Q \ P) /\ (P \ claimedOnL1) \cap (Q \ P) = {}
        /\ Unpaid(Posted) = P \ claimedOnL1 /\ SentSince(Posted, l2) = Q \ P
        /\ P \ claimedOnL1 \in SUBSET Q /\ Q \ P \in SUBSET Q
        /\ P \ claimedOnL1 \in SUBSET P
    BY <1>2 DEF Unpaid, SentSince
  <2> HIDE DEF P, Q
  <2>2. Amounts(l2.sentMessages, (P \ claimedOnL1) \cup (Q \ P))
           = Amounts(l2.sentMessages, P \ claimedOnL1) + Amounts(l2.sentMessages, Q \ P)
    BY <1>2, <2>1, AmountsUnion
  <2>3. Amounts(l2.sentMessages, P \ claimedOnL1) = Amounts(Posted.sentMessages, P \ claimedOnL1)
    BY <1>2, AmountsSame
  <2>4. /\ Amounts(Posted.sentMessages, P \ claimedOnL1) \in Nat
        /\ Amounts(l2.sentMessages, Q \ P) \in Nat
    BY <1>2, <2>1, AmountsTypes
  <2> QED
    BY <2>1, <2>2, <2>3, <2>4
<1> DEFINE flight == Amounts(l1Messages, InFlight(l2))
           claims == Amounts(l1Messages, new)
           unpaid == Amounts(Posted.sentMessages, Unpaid(Posted))
           sent == Amounts(l2.sentMessages, SentSince(Posted, l2))
           held == l2.held
           before == Posted.held
<1>5. /\ flight \in Nat /\ claims \in Nat /\ unpaid \in Nat /\ sent \in Nat
      /\ held \in Nat /\ before \in Nat /\ escrow \in Nat
  BY <1>3, <1>4, SumTypes
<1>6. held + sent <= before + claims
  BY DEF Balanced, Flow
<1>7. escrow >= (flight + claims) + before + unpaid
  BY <1>3 DEF Balanced, Owes
<1>8. Owes(l2) = flight + held + (unpaid + sent)
  BY <1>4 DEF Owes
<1> HIDE DEF flight, claims, unpaid, sent, held, before
<1>9. flight + held + (unpaid + sent) <= escrow
  BY <1>5, <1>6, <1>7
<1> QED
  BY <1>5, <1>8, <1>9

\* The balance covers what the property asks for, posted or dropped.
LEMMA SolventIs == MessagingInv /\ Balanced => Solvent
  BY OwesNoMore DEF Solvent, Balanced, Owes, InFlight, Unpaid

\* A state came from itself.
LEMMA FlowReflexive ==
    ASSUME MessagingInv, NEW state \in {l2, Posted}
    PROVE  Flow(state, state)
<1>1. state.claimed \ state.claimed = {} /\ SentSince(state, state) = {}
  BY DEF SentSince
<1>2. Amounts(l1Messages, {}) = 0 /\ Amounts(state.sentMessages, {}) = 0
  BY AmountsEmpty
<1>3. state.held \in Nat
  BY SumTypes
<1>4. state.held + 0 <= state.held + 0
  BY <1>3
<1> QED
  BY <1>1, <1>2, <1>4 DEF Flow

\* At first nothing is owed.
LEMMA BalancedInit == Init => Balanced
<1> SUFFICES ASSUME Init PROVE Balanced
  OBVIOUS
<1>1. MessagingInv
  BY MessagingInit
<1>2. /\ l1Messages = <<>> /\ escrow = 0 /\ Posted = l2 /\ l2.sentMessages = <<>> /\ l2.held = 0
  BY DEF Init, Posted, Genesis
<1>3. InFlight(l2) = {} /\ Unpaid(l2) = {}
  BY <1>2 DEF InFlight, Unpaid
<1>4. Owes(l2) = 0
  BY <1>2, <1>3, AmountsEmpty DEF Owes
<1> QED
  BY <1>1, <1>2, <1>4, FlowReflexive DEF Balanced

\* What L1 pays is a message of the posted chain, also when it was proven
\* against an older block.
LEMMA PaidIsPosted ==
    ASSUME MessagingInv, NEW i \in 1..MaxSent, ClaimL2Message(i)
    PROVE  /\ i \in DOMAIN Posted.sentMessages \ claimedOnL1
           /\ escrow' = escrow - Amount(Posted.sentMessages[i])
           /\ claimedOnL1' = claimedOnL1 \cup {i}
           /\ UNCHANGED <<l1Messages, l1Roots, blocks, l2, building>>
<1>1. TypeOK /\ ChainInv
  BY DEF MessagingInv
<1>2. PICK state \in ProvableStates :
          /\ i \in DOMAIN state.sentMessages
          /\ escrow' = escrow - Amount(state.sentMessages[i])
  BY DEF ClaimL2Message
<1>3. PICK n \in 0..blockNumber : state = blocks[n + 1]
  BY <1>2 DEF ProvableStates
<1>4. n + 1 \in 1..Len(blocks) /\ n + 1 <= Len(blocks) /\ Len(blocks) \in 1..Len(blocks)
  BY <1>1, MessagingTypes DEF blockNumber
<1>5. state \in L2State /\ Posted \in L2State /\ Later(state, Posted)
  BY <1>1, <1>3, <1>4, MessagingTypes DEF ChainInv, Posted
<1>6. /\ DOMAIN state.sentMessages = 1..Len(state.sentMessages)
      /\ DOMAIN Posted.sentMessages = 1..Len(Posted.sentMessages)
      /\ Len(state.sentMessages) \in Nat /\ Len(Posted.sentMessages) \in Nat
  BY <1>5, StateTypes, LenProperties
<1>7. i \in DOMAIN Posted.sentMessages /\ state.sentMessages[i] = Posted.sentMessages[i]
  BY <1>2, <1>5, <1>6 DEF Later, Prefix
<1> QED
  BY <1>2, <1>7 DEF ClaimL2Message

\* ETH sent on L1 joins the escrow and what is on its way.
LEMMA BalancedSentOnL1 ==
    ASSUME MessagingInv, Balanced, NEW m \in Messages, L1SendMessage(m)
    PROVE  Balanced'
<1> DEFINE n == Len(l1Messages)
           q == Append(l1Messages, m)
           new == l2.claimed \ Posted.claimed
           S == InFlight(Posted)
<1>1. /\ l1Messages' = q /\ escrow' = escrow + Amount(m) /\ Posted' = Posted
      /\ l2' = l2 /\ claimedOnL1' = claimedOnL1
  BY DEF L1SendMessage, Posted
<1>2. /\ l1Messages \in Seq(Messages) /\ n \in Nat /\ escrow \in Nat
      /\ DOMAIN l1Messages = 1..n /\ l2.claimed \subseteq 1..n
      /\ Posted.claimed \subseteq 1..n
  BY SumTypes
<1>3. /\ q \in Seq(Messages) /\ Len(q) = n + 1 /\ DOMAIN q = 1..(n + 1)
      /\ \A i \in 1..n : q[i] = l1Messages[i]
      /\ q[n + 1] = m
  BY <1>2, AppendProperties, LenProperties
<1>4. S \in SUBSET (1..n) /\ new \in SUBSET (1..n)
  BY <1>2 DEF InFlight
<1>5. InFlight(Posted)' = S \cup {n + 1}
  BY <1>1, <1>2, <1>3 DEF InFlight
<1> HIDE DEF q, new, S, n
<1>6. S \in SUBSET (1..Len(q)) /\ n + 1 \in 1..Len(q) /\ n + 1 \notin S
  BY <1>2, <1>3, <1>4
<1>7. Amounts(q, S \cup {n + 1}) = Amounts(q, S) + Amount(m)
  BY <1>3, <1>6, AmountsAdd
<1>8. Amounts(q, S) = Amounts(l1Messages, S) /\ Amounts(q, new) = Amounts(l1Messages, new)
  BY <1>3, <1>4, AmountsSame
<1>9. /\ Amounts(l1Messages, S) \in Nat /\ Amount(m) \in Nat /\ Posted.held \in Nat
      /\ Amounts(Posted.sentMessages, Unpaid(Posted)) \in Nat
  <2>1. Unpaid(Posted) \in SUBSET (1..Len(Posted.sentMessages))
    BY SumTypes DEF Unpaid
  <2>2. S \in SUBSET (1..Len(l1Messages))
    BY <1>4 DEF n
  <2> QED
    BY <1>2, <2>1, <2>2, SumTypes, AmountsTypes, AmountIsNat
<1>10. Owes(Posted)' = Amounts(q, S \cup {n + 1}) + Posted.held
                          + Amounts(Posted.sentMessages, Unpaid(Posted))
  BY <1>1, <1>5 DEF Owes, Unpaid
<1>11. escrow >= Amounts(l1Messages, S) + Posted.held
                    + Amounts(Posted.sentMessages, Unpaid(Posted))
  BY DEF Balanced, Owes, S
<1>12. (escrow >= Owes(Posted))'
  <2> DEFINE flight == Amounts(l1Messages, S)
             unpaid == Amounts(Posted.sentMessages, Unpaid(Posted))
             held == Posted.held
             amount == Amount(m)
  <2>1. /\ flight \in Nat /\ amount \in Nat /\ held \in Nat /\ unpaid \in Nat
        /\ escrow >= flight + held + unpaid
        /\ Owes(Posted)' = (flight + amount) + held + unpaid
    BY <1>7, <1>8, <1>9, <1>10, <1>11
  <2> HIDE DEF flight, unpaid, held, amount
  <2>2. escrow + amount >= (flight + amount) + held + unpaid
    BY <1>2, <2>1
  <2> QED
    BY <1>1, <2>1, <2>2 DEF amount
<1>13. Flow(Posted, l2)'
  BY <1>1, <1>8 DEF Balanced, Flow, SentSince, new
<1> QED
  BY <1>12, <1>13 DEF Balanced

\* The escrow pays what it then no longer owes.
LEMMA BalancedPaid ==
    ASSUME MessagingInv, Balanced, NEW i \in 1..MaxSent, ClaimL2Message(i)
    PROVE  Balanced'
<1> DEFINE q == Posted.sentMessages
           S == Unpaid(Posted)'
<1>1. /\ i \in DOMAIN q \ claimedOnL1 /\ escrow' = escrow - Amount(q[i])
      /\ claimedOnL1' = claimedOnL1 \cup {i}
      /\ l1Messages' = l1Messages /\ l2' = l2 /\ Posted' = Posted
  BY PaidIsPosted DEF Posted
<1>2. /\ q \in Seq(Messages) /\ DOMAIN q = 1..Len(q) /\ escrow \in Nat
      /\ l1Messages \in Seq(Messages) /\ Posted.held \in Nat
  BY SumTypes
<1>3. /\ S \in SUBSET (1..Len(q)) /\ i \in 1..Len(q) /\ i \notin S
      /\ Unpaid(Posted) = S \cup {i}
  BY <1>1, <1>2 DEF Unpaid
<1>4. InFlight(Posted) \in SUBSET (1..Len(l1Messages))
  BY SumTypes DEF InFlight
<1>5. Owes(Posted)' = Amounts(l1Messages, InFlight(Posted)) + Posted.held + Amounts(q, S)
  BY <1>1 DEF Owes, InFlight
<1> HIDE DEF q, S
<1>6. Amounts(q, S \cup {i}) = Amounts(q, S) + Amount(q[i])
  BY <1>2, <1>3, AmountsAdd
<1>7. /\ Amounts(q, S) \in Nat /\ Amount(q[i]) \in Nat
      /\ Amounts(l1Messages, InFlight(Posted)) \in Nat
  <2>1. q[i] \in Messages
    BY <1>2, <1>3, ElementOfSeq
  <2> QED
    BY <1>2, <1>3, <1>4, <2>1, AmountsTypes, AmountIsNat
<1>8. escrow >= Amounts(l1Messages, InFlight(Posted)) + Posted.held + Amounts(q, S \cup {i})
  BY <1>3 DEF Balanced, Owes, q
<1>9. (escrow >= Owes(Posted))'
  <2> DEFINE flight == Amounts(l1Messages, InFlight(Posted))
             unpaid == Amounts(q, S)
             held == Posted.held
             amount == Amount(q[i])
  <2>1. /\ flight \in Nat /\ amount \in Nat /\ held \in Nat /\ unpaid \in Nat
        /\ escrow >= flight + held + (unpaid + amount)
        /\ Owes(Posted)' = flight + held + unpaid
    BY <1>2, <1>5, <1>6, <1>7, <1>8
  <2> HIDE DEF flight, unpaid, held, amount
  <2>2. escrow - amount >= flight + held + unpaid
    BY <1>2, <2>1
  <2> QED
    BY <1>1, <2>1, <2>2 DEF amount
<1>10. Flow(Posted, l2)'
  BY <1>1 DEF Balanced, Flow, SentSince
<1> QED
  BY <1>9, <1>10 DEF Balanced

\* A step of the block being built owes L1 nothing yet.
LEMMA BalancedBuilding ==
    ASSUME Balanced, UNCHANGED <<l1Vars, blocks>>, Flow(Posted, l2)'
    PROVE  Balanced'
<1>1. escrow' = escrow /\ Owes(Posted)' = Owes(Posted)
  BY DEF l1Vars, Owes, InFlight, Unpaid, Posted
<1> QED
  BY <1>1 DEF Balanced

\* A claim on L2 pays to an account what was on its way.
LEMMA BalancedClaimed ==
    ASSUME MessagingInv, Balanced, NEW i \in 1..MaxSent, ClaimL1Message(i)
    PROVE  Balanced'
<1> DEFINE amount == Amount(l2.provenL1MessageRoot[i])
           new == l2.claimed \ Posted.claimed
<1>1. /\ i \in DOMAIN l2.provenL1MessageRoot /\ i \notin l2.claimed
      /\ l2' = [l2 EXCEPT !.claimed = @ \cup {i}, !.supply = @ - amount, !.held = @ + amount]
      /\ UNCHANGED <<l1Vars, blocks>>
  BY DEF ClaimL1Message
<1>2. /\ l1Messages \in Seq(Messages) /\ l2 \in L2State /\ l2.held \in Nat
      /\ l2.claimed \subseteq 1..Len(l1Messages)
      /\ Posted.held \in Nat
      /\ Flow(Posted, l2) /\ Posted.claimed \subseteq l2.claimed
  BY SumTypes DEF Balanced, Flow
<1>3. i \in 1..Len(l1Messages) /\ l2.provenL1MessageRoot[i] = l1Messages[i]
  <2>1. i \in 1..Len(l2.provenL1MessageRoot)
    BY <1>1, <1>2, StateTypes, LenProperties
  <2>2. TypeOK /\ RootsGrow /\ Seen(l2)
    BY DEF MessagingInv, BuildingInv
  <2> QED
    BY <1>2, <2>1, <2>2, InTheTree
<1>4. amount \in Nat /\ amount = Amount(l1Messages[i])
  BY <1>2, <1>3, ElementOfSeq, AmountIsNat
<1> HIDE DEF amount
<1>5. /\ l2'.claimed = l2.claimed \cup {i} /\ l2'.held = l2.held + amount
      /\ l2'.sentMessages = l2.sentMessages /\ Posted' = Posted /\ l1Messages' = l1Messages
  BY <1>1, <1>2 DEF L2State, l1Vars, Posted
<1>6. /\ new \in SUBSET (1..Len(l1Messages)) /\ i \notin new
      /\ l2'.claimed \ Posted.claimed = new \cup {i}
  BY <1>1, <1>2, <1>5
<1> HIDE DEF new
<1>7. /\ Amounts(l1Messages, new \cup {i}) = Amounts(l1Messages, new) + amount
      /\ Amounts(l1Messages, new) \in Nat
  BY <1>2, <1>3, <1>4, <1>6, AmountsAdd, AmountsTypes
<1>8. /\ SentSince(Posted, l2)' = SentSince(Posted, l2)
      /\ Amounts(l2.sentMessages, SentSince(Posted, l2)) \in Nat
  <2>1. SentSince(Posted, l2) \in SUBSET (1..Len(l2.sentMessages))
    BY SumTypes DEF SentSince
  <2> QED
    BY <1>5, <2>1, SumTypes, AmountsTypes DEF SentSince
<1>9. l2.held + Amounts(l2.sentMessages, SentSince(Posted, l2))
         <= Posted.held + Amounts(l1Messages, new)
  BY <1>2 DEF Flow, new
<1>10. (l2.held + amount) + Amounts(l2.sentMessages, SentSince(Posted, l2))
          <= Posted.held + (Amounts(l1Messages, new) + amount)
  <2> DEFINE sent == Amounts(l2.sentMessages, SentSince(Posted, l2))
             claims == Amounts(l1Messages, new)
             held == l2.held
             before == Posted.held
  <2>1. /\ sent \in Nat /\ claims \in Nat /\ held \in Nat /\ before \in Nat
        /\ held + sent <= before + claims
    BY <1>2, <1>7, <1>8, <1>9
  <2> HIDE DEF sent, claims, held, before
  <2>2. (held + amount) + sent <= before + (claims + amount)
    BY <1>4, <2>1
  <2> QED
    BY <2>2 DEF sent, claims, held, before
<1>11. Flow(Posted, l2)'
  <2>1. Posted.claimed \subseteq l2'.claimed
    BY <1>2, <1>5
  <2> QED
    BY <1>5, <1>6, <1>7, <1>8, <1>10, <2>1 DEF Flow
<1> QED
  BY <1>1, <1>11, BalancedBuilding

\* ETH sent on L2 leaves an account for the way back.
LEMMA BalancedSentOnL2 ==
    ASSUME MessagingInv, Balanced, NEW m \in Messages, L2SendMessage(m)
    PROVE  Balanced'
<1> DEFINE amount == Amount(m)
           n == Len(l2.sentMessages)
           q == Append(l2.sentMessages, m)
           S == SentSince(Posted, l2)
<1>1. /\ l2.held >= amount
      /\ l2' = [l2 EXCEPT !.sentMessages = Append(@, m), !.supply = @ + amount,
                          !.held = @ - amount]
      /\ UNCHANGED <<l1Vars, blocks>>
  BY DEF L2SendMessage, Locked
<1>2. /\ l2 \in L2State /\ l2.held \in Nat /\ Posted.held \in Nat
      /\ l2.sentMessages \in Seq(Messages) /\ n \in Nat
      /\ DOMAIN l2.sentMessages = 1..n
      /\ DOMAIN Posted.sentMessages \subseteq 1..n
      /\ l1Messages \in Seq(Messages) /\ l2.claimed \subseteq 1..Len(l1Messages)
  <2>1. /\ Prefix(Posted.sentMessages, l2.sentMessages)
        /\ DOMAIN Posted.sentMessages = 1..Len(Posted.sentMessages)
        /\ Len(Posted.sentMessages) \in Nat /\ n \in Nat
    BY SumTypes
  <2>2. DOMAIN Posted.sentMessages \subseteq 1..n
    BY <2>1 DEF Prefix
  <2> QED
    BY <2>2, SumTypes
<1>3. amount \in Nat
  BY AmountIsNat
<1>4. /\ l2'.claimed = l2.claimed /\ l2'.held = l2.held - amount
      /\ l2'.sentMessages = q /\ Posted' = Posted /\ l1Messages' = l1Messages
  BY <1>1, <1>2 DEF L2State, l1Vars, Posted
<1>5. /\ q \in Seq(Messages) /\ Len(q) = n + 1 /\ DOMAIN q = 1..(n + 1)
      /\ \A i \in 1..n : q[i] = l2.sentMessages[i]
      /\ q[n + 1] = m
  BY <1>2, AppendProperties, LenProperties
<1>6. S \in SUBSET (1..n)
  BY <1>2 DEF SentSince
<1>7. SentSince(Posted, l2)' = S \cup {n + 1}
  BY <1>2, <1>4, <1>5 DEF SentSince
<1>8. Amounts(l1Messages, l2.claimed \ Posted.claimed) \in Nat
  BY <1>2, AmountsTypes
<1>9. l2.held + Amounts(l2.sentMessages, S)
         <= Posted.held + Amounts(l1Messages, l2.claimed \ Posted.claimed)
  BY DEF Balanced, Flow
<1>10. Amounts(l2.sentMessages, S) \in Nat
  BY <1>2, <1>6, AmountsTypes
<1> HIDE DEF amount, n, q, S
<1>11. S \in SUBSET (1..Len(q)) /\ n + 1 \in 1..Len(q) /\ n + 1 \notin S
  BY <1>2, <1>5, <1>6
<1>12. Amounts(q, S \cup {n + 1}) = Amounts(q, S) + amount
  BY <1>5, <1>11, AmountsAdd DEF amount
<1>13. Amounts(q, S) = Amounts(l2.sentMessages, S)
  BY <1>5, <1>6, AmountsSame
<1>14. (l2.held - amount) + (Amounts(l2.sentMessages, S) + amount)
          <= Posted.held + Amounts(l1Messages, l2.claimed \ Posted.claimed)
  <2> DEFINE sent == Amounts(l2.sentMessages, S)
             claims == Amounts(l1Messages, l2.claimed \ Posted.claimed)
             held == l2.held
             before == Posted.held
  <2>1. /\ sent \in Nat /\ claims \in Nat /\ held \in Nat /\ before \in Nat
        /\ held + sent <= before + claims /\ held >= amount
    BY <1>1, <1>2, <1>8, <1>9, <1>10
  <2> HIDE DEF sent, claims, held, before
  <2>2. (held - amount) + (sent + amount) <= before + claims
    BY <1>3, <2>1
  <2> QED
    BY <2>2 DEF sent, claims, held, before
<1>15. Flow(Posted, l2)'
  <2>1. Posted.claimed \subseteq l2.claimed
    BY DEF Balanced, Flow
  <2> QED
    BY <1>4, <1>7, <1>12, <1>13, <1>14, <2>1 DEF Flow
<1> QED
  BY <1>1, <1>15, BalancedBuilding

\* Every step keeps the escrow in balance.
LEMMA BalancedStep == MessagingInv /\ Balanced /\ [Next]_vars => Balanced'
<1> SUFFICES ASSUME MessagingInv, Balanced, [Next]_vars PROVE Balanced'
  OBVIOUS
<1>0. /\ l2 \in L2State /\ Flow(Posted, l2) /\ l2.held \in Nat
      /\ Posted.held \in Nat
  BY SumTypes DEF Balanced
<1>1. ASSUME NEW m \in Messages, L1SendMessage(m) PROVE Balanced'
  BY <1>1, BalancedSentOnL1
<1>2. CASE L1Block
  BY <1>2 DEF L1Block, Balanced, Owes, InFlight, Unpaid, Flow, SentSince, Posted
<1>3. ASSUME NEW i \in 1..MaxSent, ClaimL2Message(i) PROVE Balanced'
  BY <1>3, BalancedPaid
<1>4. ASSUME NEW anchor \in DOMAIN l1Roots, StartBlock(anchor) PROVE Balanced'
  <2>1. /\ l2' = [l2 EXCEPT !.anchors = Append(@, anchor)]
        /\ UNCHANGED <<l1Vars, blocks>>
    BY <1>4 DEF StartBlock
  <2>2. /\ l2'.claimed = l2.claimed /\ l2'.held = l2.held
        /\ l2'.sentMessages = l2.sentMessages /\ Posted' = Posted /\ l1Messages' = l1Messages
    BY <1>0, <2>1 DEF L2State, l1Vars, Posted
  <2>3. Flow(Posted, l2)'
    BY <1>0, <2>2 DEF Flow, SentSince
  <2> QED
    BY <2>1, <2>3, BalancedBuilding
<1>5. ASSUME NEW n \in 1..(MaxL2Blocks + 1), ProveL1MessageRoot(n) PROVE Balanced'
  <2>1. /\ l2' = [l2 EXCEPT !.provenAnchor = n, !.provenL1MessageRoot = l1Roots[l2.anchors[n]]]
        /\ UNCHANGED <<l1Vars, blocks>>
    BY <1>5 DEF ProveL1MessageRoot
  <2>2. /\ l2'.claimed = l2.claimed /\ l2'.held = l2.held
        /\ l2'.sentMessages = l2.sentMessages /\ Posted' = Posted /\ l1Messages' = l1Messages
    BY <1>0, <2>1 DEF L2State, l1Vars, Posted
  <2>3. Flow(Posted, l2)'
    BY <1>0, <2>2 DEF Flow, SentSince
  <2> QED
    BY <2>1, <2>3, BalancedBuilding
<1>6. ASSUME NEW i \in 1..MaxSent, ClaimL1Message(i) PROVE Balanced'
  BY <1>6, BalancedClaimed
<1>7. ASSUME NEW m \in Messages, L2SendMessage(m) PROVE Balanced'
  BY <1>7, BalancedSentOnL2
<1>8. CASE BurnBaseFee
  <2>1. l2.held > 0 /\ l2' = [l2 EXCEPT !.held = @ - 1] /\ UNCHANGED <<l1Vars, blocks>>
    BY <1>8 DEF BurnBaseFee
  <2>2. /\ l2'.claimed = l2.claimed /\ l2'.held = l2.held - 1
        /\ l2'.sentMessages = l2.sentMessages /\ Posted' = Posted /\ l1Messages' = l1Messages
    BY <1>0, <2>1 DEF L2State, l1Vars, Posted
  <2>3. Flow(Posted, l2)'
    <3> DEFINE sent == Amounts(l2.sentMessages, SentSince(Posted, l2))
               claims == Amounts(l1Messages, l2.claimed \ Posted.claimed)
               held == l2.held
               before == Posted.held
    <3>1. sent \in Nat /\ claims \in Nat
      <4>1. /\ SentSince(Posted, l2) \in SUBSET (1..Len(l2.sentMessages))
            /\ l2.claimed \ Posted.claimed \in SUBSET (1..Len(l1Messages))
            /\ l1Messages \in Seq(Messages) /\ l2.sentMessages \in Seq(Messages)
        BY SumTypes DEF SentSince
      <4> QED
        BY <4>1, AmountsTypes
    <3>2. held + sent <= before + claims /\ held \in Nat /\ before \in Nat
      BY <1>0 DEF Flow
    <3>3. SentSince(Posted, l2)' = SentSince(Posted, l2)
      BY <2>2 DEF SentSince
    <3> HIDE DEF sent, claims, held, before
    <3>4. (held - 1) + sent <= before + claims
      BY <3>1, <3>2
    <3> QED
      BY <1>0, <2>2, <3>3, <3>4 DEF Flow, sent, claims, held, before
  <2> QED
    BY <2>1, <2>3, BalancedBuilding
<1>9. CASE Advance
  <2>1. Posted' = l2 /\ l2' = l2 /\ UNCHANGED l1Vars
    <3>1. blocks \in Seq(L2State) /\ Len(blocks) \in Nat
      BY MessagingTypes DEF MessagingInv
    <3> QED
      BY <1>0, <1>9, <3>1, AppendProperties DEF Advance, Posted
  <2>2. Owes(Posted)' = Owes(l2) /\ escrow' = escrow
    BY <2>1 DEF Owes, InFlight, Unpaid, l1Vars
  <2>3. Flow(l2, l2)
    BY FlowReflexive
  <2>4. Flow(Posted, l2)'
    BY <2>1, <2>3 DEF Flow, SentSince, l1Vars
  <2> QED
    BY <2>2, <2>4, OwesNoMore DEF Balanced
<1>10. CASE Drop
  <2>1. Posted' = Posted /\ l2' = Posted /\ UNCHANGED <<l1Vars, blocks>>
    BY <1>10 DEF Drop, Posted
  <2>2. Flow(Posted, Posted)
    BY FlowReflexive
  <2>3. Flow(Posted, l2)'
    BY <2>1, <2>2 DEF Flow, SentSince, l1Vars
  <2> QED
    BY <2>1, <2>3, BalancedBuilding
<1>11. CASE UNCHANGED vars
  BY <1>11 DEF vars, Balanced, Owes, InFlight, Unpaid, Flow, SentSince, Posted
<1> QED
  BY <1>1, <1>2, <1>3, <1>4, <1>5, <1>6, <1>7, <1>8, <1>9, <1>10, <1>11 DEF Next

\* The escrow is in balance in every state.
LEMMA BalancedInvariant == Spec => [](MessagingInv /\ Balanced)
<1>1. Init => MessagingInv /\ Balanced
  BY MessagingInit, BalancedInit
<1>2. MessagingInv /\ Balanced /\ [Next]_vars => (MessagingInv /\ Balanced)'
  BY MessagingStep, BalancedStep
<1> QED
  BY <1>1, <1>2, PTL DEF Spec

\* The escrow covers the messages on their way and all that accounts on L2
\* hold, whether the block being built is posted or dropped.
THEOREM EscrowCovers == Spec => []Solvent
<1> QED
  BY BalancedInvariant, SolventIs, PTL
-----------------------------------------------------------------------------
(* Both messengers and the rollup implement the two-way peg.               *)

\* The messengers start as the peg does.
LEMMA PegInit == Init => Peg!Init
  BY DEF Init, Posted, Genesis, Peg!Init

\* The two modules sum amounts alike.
LEMMA PegAmounts == ASSUME NEW queue, NEW S PROVE Peg!Amounts(queue, S) = Amounts(queue, S)
<1>1. ASSUME NEW f, NEW R PROVE Peg!SumFunctionOnSet(f, R) = SumFunctionOnSet(f, R)
  BY DEF Peg!SumFunctionOnSet, Peg!FoldFunctionOnSet, Peg!MapThenFoldSet,
         SumFunctionOnSet, FoldFunctionOnSet, MapThenFoldSet
<1>2. \A m : Peg!Amount(m) = Amount(m)
  BY DEF Peg!Amount, Amount
<1>3. [i \in S |-> Peg!Amount(queue[i])] = [i \in S |-> Amount(queue[i])]
  BY <1>2
<1> QED
  BY <1>1, <1>3 DEF Peg!Amounts, Amounts

\* What a posted block does to the peg: a block's claims and messages together.
LEMMA PegBlock ==
    ASSUME MessagingInv, Balanced, Advance
    PROVE  Peg!Block
<1>1. Posted' = l2 /\ l2' = l2 /\ UNCHANGED <<l1Messages, escrow, claimedOnL1>>
  <2>1. blocks \in Seq(L2State) /\ Len(blocks) \in Nat /\ l2 \in L2State
    BY MessagingTypes DEF MessagingInv
  <2> QED
    BY <2>1, AppendProperties DEF Advance, Posted, l1Vars
<1>2. /\ Posted.sentMessages \in Seq(Messages) /\ l2.sentMessages \in Seq(Messages)
      /\ l2.held \in Nat /\ l2.claimed \subseteq DOMAIN l1Messages
      /\ Prefix(Posted.sentMessages, l2.sentMessages)
      /\ DOMAIN l2.sentMessages = 1..Len(l2.sentMessages)
  BY SumTypes
<1>3. Peg!IsPrefix(Posted.sentMessages, l2.sentMessages)
  <2>1. IsPrefix(Posted.sentMessages, l2.sentMessages)
    BY <1>2, PrefixIs
  <2> QED
    BY <2>1 DEF IsPrefix, Peg!IsPrefix
<1>4. Peg!Range(l2.sentMessages) \subseteq Messages
  BY <1>2, ElementOfSeq DEF Peg!Range
<1>5. Flow(Posted, l2)
  BY DEF Balanced
<1>6. \A q, S : Peg!Amounts(q, S) = Amounts(q, S)
  BY PegAmounts
<1>7. l2.held + Peg!Amounts(l2.sentMessages, DOMAIN l2.sentMessages \ DOMAIN Posted.sentMessages)
         <= Posted.held + Peg!Amounts(l1Messages, l2.claimed \ Posted.claimed)
  BY <1>5, <1>6 DEF Flow, SentSince
<1> QED
  BY <1>1, <1>2, <1>3, <1>4, <1>5, <1>7 DEF Peg!Block, Flow

\* Every step of the messengers is one of the peg, or nothing to it.
LEMMA PegStep == MessagingInv /\ Balanced /\ [Next]_vars => [Peg!Next]_(Peg!vars)
<1> SUFFICES ASSUME MessagingInv, Balanced, [Next]_vars PROVE [Peg!Next]_(Peg!vars)
  OBVIOUS
<1>1. ASSUME NEW m \in Messages, L1SendMessage(m) PROVE Peg!Deposit
  BY <1>1 DEF L1SendMessage, Peg!Deposit, Posted, Amount, Peg!Amount
<1>2. CASE L1Block
  BY <1>2 DEF L1Block, Posted, Peg!vars
<1>3. ASSUME NEW i \in 1..MaxSent, ClaimL2Message(i) PROVE Peg!Withdraw
  BY <1>3, PaidIsPosted DEF Peg!Withdraw, Posted, Amount, Peg!Amount
<1>4. CASE UNCHANGED <<l1Vars, blocks>>
  BY <1>4 DEF l1Vars, Posted, Peg!vars
<1>5. CASE Advance
  BY <1>5, PegBlock DEF Peg!Next
<1>6. CASE UNCHANGED vars
  BY <1>6 DEF vars, Posted, Peg!vars
<1>7. ASSUME NEW anchor \in DOMAIN l1Roots, StartBlock(anchor) PROVE UNCHANGED <<l1Vars, blocks>>
  BY <1>7 DEF StartBlock
<1>8. ASSUME NEW n \in 1..(MaxL2Blocks + 1), ProveL1MessageRoot(n)
      PROVE  UNCHANGED <<l1Vars, blocks>>
  BY <1>8 DEF ProveL1MessageRoot
<1>9. ASSUME NEW i \in 1..MaxSent, ClaimL1Message(i) PROVE UNCHANGED <<l1Vars, blocks>>
  BY <1>9 DEF ClaimL1Message
<1>10. ASSUME NEW m \in Messages, L2SendMessage(m) PROVE UNCHANGED <<l1Vars, blocks>>
  BY <1>10 DEF L2SendMessage
<1>11. BurnBaseFee \/ Drop => UNCHANGED <<l1Vars, blocks>>
  BY DEF BurnBaseFee, Drop
<1> QED
  BY <1>1, <1>2, <1>3, <1>4, <1>5, <1>6, <1>7, <1>8, <1>9, <1>10, <1>11 DEF Next, Peg!Next

\* The two chains together, blocks built ahead, dropped and proven late
\* included, implement the peg: ETH sent either way is paid once, out of what
\* was escrowed for it.
THEOREM PegImplemented == Spec => ImplementsPeg
<1> QED
  BY BalancedInvariant, PegInit, PegStep, PTL DEF Spec, ImplementsPeg, Peg!Spec
=============================================================================
