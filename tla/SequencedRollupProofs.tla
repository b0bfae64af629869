----------------------- MODULE SequencedRollupProofs -----------------------
(***************************************************************************)
(* Proofs about NativeRollup and SequencedRollup, for every size of the    *)
(* ring buffer, every lag, timeout, delay and window.  Of both rollups:    *)
(* the state root history is exact, no block halts the rollup, and the L2  *)
(* chain follows L1.  Of the sequenced one: no bond leaves before what it  *)
(* backs is decided, whatever the sequencer signs, and a sequencer that is *)
(* never idle for too long is never slashed.                               *)
(***************************************************************************)
EXTENDS SequencedRollup, SequenceTheorems, TLAPS

-----------------------------------------------------------------------------
(* The rollup contract                                                     *)

Slots == 0..(STATE_ROOT_HISTORY - 1)

\* The ring buffer read over the block numbers, with no reference to
\* `blockNumber`: what is preserved from step to step.
RingHolds ==
    \A n \in 0..(Len(blockHash) - 1) :
        Len(blockHash) - 1 - n < STATE_ROOT_HISTORY =>
            stateRootHistory[n % STATE_ROOT_HISTORY] = blockHash[n + 1].stateRoot

IInv == TypeOK /\ HeadConsistent /\ RingHolds /\ ChainFollowsL1

\* Two block numbers less than a buffer apart have different slots.
LEMMA SlotsDiffer ==
    ASSUME NEW a \in Nat, NEW b \in Nat, a < b, b - a < STATE_ROOT_HISTORY,
           STATE_ROOT_HISTORY \in Nat \ {0}
    PROVE  a % STATE_ROOT_HISTORY # b % STATE_ROOT_HISTORY
<1> DEFINE H == STATE_ROOT_HISTORY
           qa == a \div H
           qb == b \div H
<1>1. a = H * qa + (a % H) /\ b = H * qb + (b % H)
  OBVIOUS
<1>2. qa \in Nat /\ qb \in Nat
  OBVIOUS
<1>3. SUFFICES ASSUME a % H = b % H PROVE FALSE
  OBVIOUS
<1>4. b - a = H * (qb - qa)
  <2> DEFINE r == a % H
  <2>1. r \in Nat
    OBVIOUS
  <2>2. a = H * qa + r /\ b = H * qb + r
    BY <1>1, <1>3
  <2>3. H * qa \in Nat /\ H * qb \in Nat /\ H * (qb - qa) = H * qb - H * qa
    BY <1>2
  <2> HIDE DEF r, qa, qb
  <2> QED
    BY <2>1, <2>2, <2>3
<1> HIDE DEF qa, qb
<1>5. CASE qb - qa <= 0
  <2>1. H * (qb - qa) <= 0
    BY <1>2, <1>5
  <2> QED
    BY <2>1, <1>4
<1>6. CASE qb - qa >= 1
  <2>1. H * (qb - qa) >= H
    BY <1>2, <1>6
  <2> QED
    BY <2>1, <1>4
<1> QED
  BY <1>2, <1>5, <1>6

\* The slot of a block is one of the ring buffer.
LEMMA SlotInRange ==
    ASSUME NEW n \in Nat, STATE_ROOT_HISTORY \in Nat \ {0}
    PROVE  n % STATE_ROOT_HISTORY \in Slots
  BY DEF Slots

\* The head has a timestamp, and so has L1.
LEMMA HeadIsBlock ==
    ASSUME TypeOK
    PROVE  /\ blockHash[Len(blockHash)].timestamp \in Nat
           /\ l1Time \in Nat
<1>1. blockHash \in Seq(Block) /\ Len(blockHash) \in 1..Len(blockHash)
  BY DEF TypeOK
<1>2. blockHash[Len(blockHash)] \in Block
  BY <1>1
<1> QED
  BY <1>2 DEF Block, TypeOK
-----------------------------------------------------------------------------
\* Genesis satisfies the invariant.
LEMMA InitInv == Init => IInv
<1> SUFFICES ASSUME Init PROVE IInv
  OBVIOUS
<1> USE RollupAssumption
<1>1. Genesis \in Block
  BY DEF Genesis, Block
<1>2. blockHash \in Seq(Block) /\ Len(blockHash) = 1 /\ blockHash[1] = Genesis
  BY <1>1 DEF Init
<1>3. l1Blocks \in Seq(Nat) /\ Len(l1Blocks) = 1 /\ l1Blocks[1] = 1
  BY DEF Init
<1>4. TypeOK
  BY <1>2, <1>3 DEF Init, TypeOK
<1>5. HeadConsistent
  BY <1>2, <1>3 DEF Init, HeadConsistent, Genesis
<1>6. RingHolds
  <2>1. SUFFICES stateRootHistory[0 % STATE_ROOT_HISTORY] = blockHash[1].stateRoot
    BY <1>2 DEF RingHolds
  <2>2. 0 % STATE_ROOT_HISTORY = 0
    OBVIOUS
  <2> QED
    BY <1>2, <2>2 DEF Init, Genesis
<1>7. ChainFollowsL1
  BY <1>2 DEF ChainFollowsL1
<1> QED
  BY <1>4, <1>5, <1>6, <1>7 DEF IInv

\* L1 moves on: the rollup is not touched, and the L1 blocks it refers to stay.
LEMMA L1BlockInv == IInv /\ L1Block => IInv'
<1> SUFFICES ASSUME IInv, L1Block PROVE IInv'
  OBVIOUS
<1> USE RollupAssumption DEF IInv
<1>1. PICK d \in SlotTimes : l1Time' = l1Time + d
  BY DEF L1Block
<1>2. d \in Nat /\ d > 0
  BY <1>1
<1>3. /\ l1Blocks' = Append(l1Blocks, l1Time)
      /\ blockHash' = blockHash
      /\ blockNumber' = blockNumber
      /\ anchorBlockNumber' = anchorBlockNumber
      /\ stateRootHistory' = stateRootHistory
      /\ currentVkHash' \in VkHashes
  BY DEF L1Block, rollupVars
<1>4. l1Blocks \in Seq(Nat) /\ l1Time \in Nat /\ l1Time' \in Nat /\ l1Time' > l1Time
  BY <1>1, <1>2 DEF TypeOK
<1>5. /\ l1Blocks' \in Seq(Nat)
      /\ Len(l1Blocks') = Len(l1Blocks) + 1
      /\ \A k \in 1..Len(l1Blocks) : l1Blocks'[k] = l1Blocks[k]
      /\ l1Blocks'[Len(l1Blocks) + 1] = l1Time
  BY <1>3, <1>4
<1>6. TypeOK'
  BY <1>3, <1>4, <1>5 DEF TypeOK
<1>7. HeadConsistent'
  <2>1. blockHash[Len(blockHash)].timestamp \in Nat
    BY HeadIsBlock
  <2>2. blockHash[Len(blockHash)].timestamp <= l1Time'
    BY <1>4, <2>1 DEF HeadConsistent
  <2>3. anchorBlockNumber \in Nat /\ anchorBlockNumber <= Len(l1Blocks')
    BY <1>4, <1>5 DEF HeadConsistent, TypeOK
  <2>4. ASSUME NEW k \in 1..Len(l1Blocks') PROVE l1Blocks'[k] < l1Time'
    <3>1. k = Len(l1Blocks) + 1 \/ k \in 1..Len(l1Blocks)
      BY <1>4, <1>5
    <3>2. CASE k = Len(l1Blocks) + 1
      BY <1>4, <1>5, <3>2
    <3>3. CASE k \in 1..Len(l1Blocks)
      <4>1. l1Blocks[k] < l1Time /\ l1Blocks[k] \in Nat
        BY <1>4, <3>3 DEF HeadConsistent
      <4>2. l1Blocks'[k] = l1Blocks[k]
        BY <1>5, <3>3
      <4> QED
        BY <1>4, <4>1, <4>2
    <3> QED
      BY <3>1, <3>2, <3>3
  <2> QED
    BY <1>3, <2>2, <2>3, <2>4 DEF HeadConsistent
<1>8. RingHolds'
  BY <1>3 DEF RingHolds
<1>9. ChainFollowsL1'
  <2>1. SUFFICES ASSUME NEW i \in 2..Len(blockHash)
                 PROVE  /\ blockHash[i - 1].timestamp < blockHash[i].timestamp
                        /\ blockHash[i - 1].anchor <= blockHash[i].anchor
                        /\ blockHash[i].anchor \in 1..Len(l1Blocks')
                        /\ blockHash[i].timestamp + MAX_TIMESTAMP_LAG
                             > l1Blocks'[blockHash[i].anchor]
    BY <1>3 DEF ChainFollowsL1
  <2>2. /\ blockHash[i - 1].timestamp < blockHash[i].timestamp
        /\ blockHash[i - 1].anchor <= blockHash[i].anchor
        /\ blockHash[i].anchor \in 1..Len(l1Blocks)
        /\ blockHash[i].timestamp + MAX_TIMESTAMP_LAG > l1Blocks[blockHash[i].anchor]
    BY DEF ChainFollowsL1
  <2>3. blockHash[i].anchor \in 1..Len(l1Blocks')
    <3>1. Len(l1Blocks) \in Nat /\ Len(l1Blocks') = Len(l1Blocks) + 1
      BY <1>4, <1>5
    <3> QED
      BY <2>2, <3>1
  <2> QED
    BY <1>5, <2>2, <2>3
<1> QED
  BY <1>6, <1>7, <1>8, <1>9

\* A block is added: it takes the slot of the oldest one, which leaves the history.
LEMMA AdvanceInv ==
    ASSUME IInv, NEW b \in Block, NEW vk \in VkHashes, Advance(b, vk)
    PROVE  IInv'
<1> USE RollupAssumption DEF IInv
<1> DEFINE L == Len(blockHash)
           H == STATE_ROOT_HISTORY
<1>1. blockHash \in Seq(Block) /\ L \in Nat /\ L > 0 /\ blockNumber = L - 1
  BY DEF TypeOK, HeadConsistent
<1>2. /\ blockHash' = Append(blockHash, b)
      /\ blockNumber' = blockNumber + 1
      /\ anchorBlockNumber' = b.anchor
      /\ stateRootHistory' = [stateRootHistory EXCEPT ![(blockNumber + 1) % H] = b.stateRoot]
      /\ l1Blocks' = l1Blocks /\ l1Time' = l1Time /\ currentVkHash' = currentVkHash
  BY DEF Advance, l1Vars
<1>3. /\ blockHash' \in Seq(Block)
      /\ Len(blockHash') = L + 1
      /\ \A i \in 1..L : blockHash'[i] = blockHash[i]
      /\ blockHash'[L + 1] = b
  BY <1>1, <1>2
<1>4. b.stateRoot \in StateRoots /\ b.timestamp \in Nat /\ b.anchor \in Nat
  BY DEF Block
<1>5. /\ l1Time \in Nat
      /\ b.timestamp <= l1Time
      /\ b.timestamp + MAX_TIMESTAMP_LAG >= l1Time
  BY DEF Advance, TimestampAllowed, TypeOK
<1>6. /\ b.anchor >= anchorBlockNumber
      /\ b.anchor \in 1..Len(l1Blocks)
  BY DEF Advance, AnchorAllowed, Anchorable
<1>7. b.timestamp > blockHash[L].timestamp
  BY DEF Advance, Provable
<1>8. TypeOK'
  BY <1>1, <1>2, <1>3, <1>4 DEF TypeOK
<1>9. HeadConsistent'
  <2>1. l1Blocks \in Seq(Nat) /\ b.anchor <= Len(l1Blocks)
    BY <1>6 DEF TypeOK
  <2> QED
    BY <1>1, <1>2, <1>3, <1>5, <2>1 DEF HeadConsistent
<1>10. RingHolds'
  <2>1. SUFFICES ASSUME NEW n \in 0..L, L - n < H
                 PROVE  stateRootHistory'[n % H] = blockHash'[n + 1].stateRoot
    BY <1>1, <1>3 DEF RingHolds
  <2>2. stateRootHistory' = [stateRootHistory EXCEPT ![L % H] = b.stateRoot]
    BY <1>1, <1>2
  <2>3. stateRootHistory \in [Slots -> StateRoots \cup {0}] /\ n % H \in Slots /\ L % H \in Slots
    <3>1. stateRootHistory \in [Slots -> StateRoots \cup {0}]
      BY DEF TypeOK, Slots
    <3>2. n \in Nat /\ L \in Nat
      BY <1>1
    <3> HIDE DEF L
    <3> QED
      BY <3>1, <3>2, SlotInRange
  <2>4. CASE n = L
    BY <1>3, <2>2, <2>3, <2>4
  <2>5. CASE n < L
    <3>1. n \in 0..(L - 1) /\ n \in Nat /\ L - 1 - n < H
      <4>1. L \in Nat /\ n \in 0..L /\ L - n < H /\ H \in Nat
        BY <1>1, <2>1
      <4> HIDE DEF L
      <4> QED
        BY <4>1, <2>5
    <3>2. stateRootHistory[n % H] = blockHash[n + 1].stateRoot
      BY <3>1 DEF RingHolds
    <3>3. n % H # L % H
      BY <1>1, <2>1, <2>5, <3>1, SlotsDiffer
    <3>4. blockHash'[n + 1] = blockHash[n + 1]
      BY <1>1, <1>3, <3>1
    <3> QED
      BY <2>2, <2>3, <3>2, <3>3, <3>4
  <2> QED
    BY <1>1, <2>4, <2>5
<1>11. ChainFollowsL1'
  <2>1. SUFFICES ASSUME NEW i \in 2..(L + 1)
                 PROVE  /\ blockHash'[i - 1].timestamp < blockHash'[i].timestamp
                        /\ blockHash'[i - 1].anchor <= blockHash'[i].anchor
                        /\ blockHash'[i].anchor \in 1..Len(l1Blocks)
                        /\ blockHash'[i].timestamp + MAX_TIMESTAMP_LAG
                             > l1Blocks[blockHash'[i].anchor]
    BY <1>2, <1>3 DEF ChainFollowsL1
  <2>2. CASE i = L + 1
    <3>1. blockHash'[i] = b /\ blockHash'[i - 1] = blockHash[L]
      BY <1>1, <1>3, <2>2
    <3>2. blockHash[L].anchor <= b.anchor
      BY <1>1, <1>6 DEF HeadConsistent
    <3>3. l1Blocks[b.anchor] < l1Time /\ l1Blocks[b.anchor] \in Nat
      <4>1. l1Blocks \in Seq(Nat)
        BY DEF TypeOK
      <4>2. l1Blocks[b.anchor] \in Nat
        BY <1>6, <4>1
      <4> QED
        BY <1>6, <4>2 DEF HeadConsistent
    <3>4. b.timestamp + MAX_TIMESTAMP_LAG > l1Blocks[b.anchor]
      BY <1>4, <1>5, <3>3
    <3> QED
      BY <1>6, <1>7, <3>1, <3>2, <3>4
  <2>3. CASE i # L + 1
    <3>1. i \in 2..L /\ blockHash'[i] = blockHash[i] /\ blockHash'[i - 1] = blockHash[i - 1]
      BY <1>1, <1>3, <2>3
    <3> QED
      BY <3>1 DEF ChainFollowsL1
  <2> QED
    BY <2>2, <2>3
<1> QED
  BY <1>8, <1>9, <1>10, <1>11

\* Every step keeps the invariant.
LEMMA NextInv == IInv /\ [Next]_vars => IInv'
<1> SUFFICES ASSUME IInv, [Next]_vars PROVE IInv'
  OBVIOUS
<1>1. CASE L1Block
  BY <1>1, L1BlockInv
<1>2. ASSUME NEW stateRoot \in StateRoots, NEW timestamp \in 1..(l1Time + 1),
             NEW anchor \in 1..Len(l1Blocks), NEW vk \in VkHashes,
             Advance([stateRoot |-> stateRoot, timestamp |-> timestamp, anchor |-> anchor], vk)
      PROVE  IInv'
  <2> DEFINE b == [stateRoot |-> stateRoot, timestamp |-> timestamp, anchor |-> anchor]
  <2>1. b \in Block
    BY DEF Block
  <2>2. Advance(b, vk)
    BY <1>2
  <2> HIDE DEF b
  <2> QED
    BY <2>1, <2>2, AdvanceInv
<1>3. CASE UNCHANGED vars
  BY <1>3 DEF vars, IInv, TypeOK, HeadConsistent, RingHolds, ChainFollowsL1
<1> QED
  BY <1>1, <1>2, <1>3 DEF Next

\* The invariant holds in every state.
LEMMA InductiveInv == Spec => []IInv
<1> QED
  BY InitInv, NextInv, PTL DEF Spec
-----------------------------------------------------------------------------
\* Every variable keeps its type.
THEOREM TypeCorrect == Spec => []TypeOK
<1>1. IInv => TypeOK
  BY DEF IInv
<1> QED
  BY <1>1, InductiveInv, PTL

\* `stateRootAt` returns the root of the block asked for, for the last
\* STATE_ROOT_HISTORY blocks, however often the ring buffer has wrapped.
THEOREM HistoryCorrect == Spec => []HistoryExact
<1>1. IInv => HistoryExact
  BY DEF IInv, HeadConsistent, RingHolds, HistoryExact, InHistory, StateRootAt
<1> QED
  BY <1>1, InductiveInv, PTL

\* Timestamps rise, anchors do not fall, and L2 time is at most
\* MAX_TIMESTAMP_LAG behind the anchored L1 block.
THEOREM L1Followed == Spec => []ChainFollowsL1
<1>1. IInv => ChainFollowsL1
  BY DEF IInv
<1> QED
  BY <1>1, InductiveInv, PTL

\* No accepted block can halt the rollup.
THEOREM NoHalt == Spec => []NeverHalts
<1>1. IInv => NeverHalts
  <2> SUFFICES ASSUME IInv PROVE NeverHalts
    OBVIOUS
  <2> USE RollupAssumption DEF IInv
  <2>1. blockHash[Len(blockHash)].timestamp \in Nat /\ l1Time \in Nat
    BY HeadIsBlock
  <2>2. Provable(blockHash, [stateRoot |-> GenesisRoot, timestamp |-> l1Time + 1, anchor |-> 0])
    BY <2>1 DEF Provable, HeadConsistent
  <2>3. Len(l1Blocks) \in Nat /\ Len(l1Blocks) > 0
    BY DEF TypeOK
  <2>4. AnchorAllowed(Len(l1Blocks)) /\ Len(l1Blocks) \in 1..Len(l1Blocks)
    BY <2>3 DEF AnchorAllowed, Anchorable, HeadConsistent, TypeOK
  <2> QED
    BY <2>2, <2>4 DEF NeverHalts
<1> QED
  BY <1>1, InductiveInv, PTL

-----------------------------------------------------------------------------
(* The sequencer and its bond.  The contract's own invariant is the one    *)
(* above, which every block that `advance` accepts preserves.              *)

\* L1 closes blocks fast enough: BLOCKHASH_WINDOW of them within a delay.
TimePasses ==
    \A k \in 1..Len(l1Blocks) :
        BLOCKHASH_WINDOW * (l1Time - l1Blocks[k]) <= (Len(l1Blocks) + 1 - k) * BOND_WITHDRAWAL_DELAY

\* A block that was signed is anchored to an L1 block that was closed by then.
SignedAnchored ==
    \A p \in signed :
        /\ Signed(p).anchor \in 1..Len(l1Blocks)
        /\ l1Blocks[Signed(p).anchor] < p.signedAt

BondInv == SequencedTypeOK /\ IInv /\ TimePasses /\ SignedAnchored

\* The block that ends a chain is the one signed.
LEMMA SignedIsLast ==
    ASSUME NEW parent \in Seq(Block), NEW b \in Block, NEW t \in Nat
    PROVE  /\ [blockHash |-> Append(parent, b), signedAt |-> t] \in Preconfirmation
           /\ Signed([blockHash |-> Append(parent, b), signedAt |-> t]) = b
<1>1. /\ Append(parent, b) \in Seq(Block)
      /\ Len(Append(parent, b)) = Len(parent) + 1
      /\ Append(parent, b)[Len(parent) + 1] = b
  OBVIOUS
<1> QED
  BY <1>1 DEF Preconfirmation, Signed

\* What both specifications do to the contract.
LEMMA ContractInit == SequencedInit => SequencedTypeOK /\ IInv
<1> SUFFICES ASSUME SequencedInit PROVE SequencedTypeOK /\ IInv
  OBVIOUS
<1>1. IInv
  BY InitInv DEF SequencedInit
<1>2. bond \in Nat /\ lastAdvance \in Nat
  BY SequencedAssumption DEF SequencedInit, Init
<1> QED
  BY <1>1, <1>2 DEF SequencedInit, SequencedTypeOK, IInv

\* A post, by whomever, keeps the rollup's invariant.
LEMMA PostInv ==
    ASSUME IInv, NEW bySequencer \in BOOLEAN, NEW b \in Block, SequencedAdvance(bySequencer, b)
    PROVE  IInv' /\ lastAdvance' \in Nat
<1>1. ExpectedVkHash \in VkHashes
  BY RollupAssumption DEF IInv, TypeOK, ExpectedVkHash
<1>2. Advance(b, ExpectedVkHash)
  BY DEF SequencedAdvance
<1>3. IInv'
  BY <1>1, <1>2, AdvanceInv
<1>4. lastAdvance' = l1Time
  BY DEF SequencedAdvance, LastAdvance
<1> QED
  BY <1>3, <1>4 DEF IInv, TypeOK

\* L1 grows by the block that was being built.
LEMMA L1Grows ==
    ASSUME IInv, L1Block
    PROVE  /\ IInv'
           /\ l1Blocks' = Append(l1Blocks, l1Time)
           /\ l1Blocks \in Seq(Nat) /\ l1Time \in Nat
           /\ Len(l1Blocks') = Len(l1Blocks) + 1
           /\ \A k \in 1..Len(l1Blocks) : l1Blocks'[k] = l1Blocks[k]
           /\ l1Blocks'[Len(l1Blocks) + 1] = l1Time
           /\ \E d \in SlotTimes : l1Time' = l1Time + d
           /\ rollupVars' = rollupVars
<1>1. l1Blocks \in Seq(Nat) /\ l1Time \in Nat
  BY DEF IInv, TypeOK
<1>2. /\ l1Blocks' = Append(l1Blocks, l1Time)
      /\ \E d \in SlotTimes : l1Time' = l1Time + d
      /\ rollupVars' = rollupVars
  BY DEF L1Block
<1>3. IInv'
  BY L1BlockInv
<1> QED
  BY <1>1, <1>2, <1>3
-----------------------------------------------------------------------------
(* The bond *)

\* At first nothing is signed or withdrawn.
LEMMA BondInit == SequencedInit => BondInv
<1> SUFFICES ASSUME SequencedInit PROVE BondInv
  OBVIOUS
<1>1. l1Blocks = <<1>> /\ l1Time = 2 /\ signed = {}
  BY DEF SequencedInit, Init
<1>2. BLOCKHASH_WINDOW * 1 <= BOND_WITHDRAWAL_DELAY
  BY DelayAssumption
<1>3. BLOCKHASH_WINDOW \in Nat /\ BOND_WITHDRAWAL_DELAY \in Nat
  BY RollupAssumption, SequencedAssumption
<1>4. TimePasses
  BY <1>1, <1>2, <1>3 DEF TimePasses
<1> QED
  BY <1>1, <1>4, ContractInit DEF BondInv, SignedAnchored

\* The sum of what L1 took before and of one more slot.
LEMMA OneMoreSlot ==
    ASSUME NEW w \in Nat, NEW D \in Nat, NEW n \in Nat, NEW t \in Int, NEW d \in Nat,
           w * t <= n * D, w * d <= D
    PROVE  w * (t + d) <= (n + 1) * D
<1>1. w * (t + d) = w * t + w * d
  OBVIOUS
<1>2. (n + 1) * D = n * D + D
  OBVIOUS
<1>3. w * t \in Int /\ w * d \in Int /\ n * D \in Int
  OBVIOUS
<1> QED
  BY <1>1, <1>2, <1>3

\* An L1 block only lets time pass.
LEMMA L1BlockBond ==
    ASSUME BondInv, L1Block, UNCHANGED <<lastAdvance, bondVars, signed, waiting>>
    PROVE  BondInv'
<1> DEFINE n == Len(l1Blocks)
<1>1. SequencedTypeOK /\ IInv /\ TimePasses /\ SignedAnchored
  BY DEF BondInv
<1>2. /\ IInv' /\ l1Blocks \in Seq(Nat) /\ l1Time \in Nat
      /\ Len(l1Blocks') = n + 1
      /\ \A k \in 1..n : l1Blocks'[k] = l1Blocks[k]
      /\ l1Blocks'[n + 1] = l1Time
  BY <1>1, L1Grows
<1>3. PICK d \in SlotTimes : l1Time' = l1Time + d
  BY <1>1, L1Grows
<1>4. d \in Nat /\ n \in Nat
  BY <1>2, <1>3, RollupAssumption
<1>5. BLOCKHASH_WINDOW * d <= BOND_WITHDRAWAL_DELAY
  BY DelayAssumption
<1>6. BLOCKHASH_WINDOW \in Nat /\ BOND_WITHDRAWAL_DELAY \in Nat
  BY RollupAssumption, SequencedAssumption
<1>7. SequencedTypeOK'
  BY <1>1, <1>2 DEF SequencedTypeOK, IInv, bondVars
<1>8. TimePasses'
  <2>1. SUFFICES ASSUME NEW k \in 1..(n + 1)
                 PROVE  BLOCKHASH_WINDOW * (l1Time' - l1Blocks'[k])
                          <= (n + 1 + 1 - k) * BOND_WITHDRAWAL_DELAY
    BY <1>2 DEF TimePasses
  <2>2. CASE k = n + 1
    <3>1. l1Time' - l1Blocks'[k] = d /\ n + 1 + 1 - k = 1
      BY <1>2, <1>3, <1>4, <2>2
    <3> QED
      BY <1>5, <1>6, <3>1
  <2>3. CASE k \in 1..n
    <3> DEFINE t == l1Time - l1Blocks[k]
    <3>1. l1Blocks[k] \in Nat /\ n + 1 - k \in Nat
      BY <1>2, <1>4, <2>3
    <3>2. t \in Int
      BY <1>2, <3>1
    <3>3. BLOCKHASH_WINDOW * t <= (n + 1 - k) * BOND_WITHDRAWAL_DELAY
      BY <1>1, <2>3 DEF TimePasses
    <3>4. l1Time' - l1Blocks'[k] = t + d
      BY <1>2, <1>3, <1>4, <2>3, <3>1
    <3>5. n + 1 + 1 - k = (n + 1 - k) + 1
      BY <1>4
    <3> HIDE DEF n, t
    <3> QED
      BY <1>4, <1>5, <1>6, <3>1, <3>2, <3>3, <3>4, <3>5, OneMoreSlot
  <2> QED
    BY <1>4, <2>2, <2>3
<1>9. SignedAnchored'
  BY <1>1, <1>2 DEF SignedAnchored, Signed
<1> QED
  BY <1>2, <1>7, <1>8, <1>9 DEF BondInv

\* What is signed is anchored before it, so that its window counts from then.
LEMMA SignBond ==
    ASSUME BondInv, SignAnything
    PROVE  BondInv'
<1>1. SequencedTypeOK /\ IInv /\ TimePasses /\ SignedAnchored
  BY DEF BondInv
<1>2. PICK parent \in Parents, timestamp \in 1..(l1Time + 1), anchor \in 1..Len(l1Blocks) :
          signed' = signed \cup
             {[blockHash |-> Append(parent, [stateRoot |-> GenesisRoot, timestamp |-> timestamp,
                                             anchor |-> anchor]), signedAt |-> l1Time]}
  BY DEF SignAnything
<1> DEFINE b == [stateRoot |-> GenesisRoot, timestamp |-> timestamp, anchor |-> anchor]
           p == [blockHash |-> Append(parent, b), signedAt |-> l1Time]
<1>3. l1Blocks \in Seq(Nat) /\ l1Time \in Nat /\ \A k \in 1..Len(l1Blocks) : l1Blocks[k] < l1Time
  BY <1>1 DEF IInv, TypeOK, HeadConsistent
<1>4. b \in Block /\ b.anchor = anchor
  BY <1>3, RollupAssumption DEF Block
<1>5. parent \in Seq(Block)
  BY <1>1 DEF Parents, SequencedTypeOK, TypeOK, Preconfirmation
<1>6. p \in Preconfirmation /\ Signed(p) = b /\ p.signedAt = l1Time
  BY <1>3, <1>4, <1>5, SignedIsLast
<1>7. UNCHANGED <<vars, lastAdvance, bondVars, waiting>> /\ signed' = signed \cup {p}
  BY <1>2 DEF SignAnything
<1> HIDE DEF b, p
<1>8. /\ l1Blocks' = l1Blocks /\ l1Time' = l1Time /\ IInv'
      /\ TypeOK'
  BY <1>1, <1>7 DEF vars, IInv, TypeOK, HeadConsistent, RingHolds, ChainFollowsL1
<1>9. SequencedTypeOK'
  BY <1>1, <1>6, <1>7, <1>8 DEF SequencedTypeOK, bondVars
<1>10. SignedAnchored'
  <2>1. SUFFICES ASSUME NEW q \in signed \cup {p}
                 PROVE  /\ Signed(q).anchor \in 1..Len(l1Blocks)
                        /\ l1Blocks[Signed(q).anchor] < q.signedAt
    BY <1>7, <1>8 DEF SignedAnchored, Signed
  <2>2. CASE q \in signed
    BY <1>1, <2>2 DEF SignedAnchored
  <2>3. CASE q = p
    BY <1>3, <1>4, <1>6, <2>3
  <2> QED
    BY <2>2, <2>3
<1> QED
  BY <1>1, <1>8, <1>9, <1>10 DEF BondInv, TimePasses

\* A posted block leaves L1 and the signatures alone.
LEMMA PostBond ==
    ASSUME BondInv, NEW bySequencer \in BOOLEAN, NEW b \in Block, SequencedAdvance(bySequencer, b),
           waiting' \in Seq(Block)
    PROVE  BondInv'
<1>1. SequencedTypeOK /\ IInv /\ TimePasses /\ SignedAnchored
  BY DEF BondInv
<1>2. IInv' /\ lastAdvance' \in Nat
  BY <1>1, PostInv
<1>3. UNCHANGED <<l1Blocks, l1Time, bond, withdrawalAmount, withdrawalTime, signed>>
  BY DEF SequencedAdvance, Advance, l1Vars, bondVars
<1>4. SequencedTypeOK'
  BY <1>1, <1>2, <1>3 DEF SequencedTypeOK, IInv
<1> QED
  BY <1>1, <1>2, <1>3, <1>4 DEF BondInv, TimePasses, SignedAnchored, Signed

\* Actions on the bond alone.
LEMMA BondOnly ==
    ASSUME BondInv, UNCHANGED <<vars, lastAdvance, signed, waiting>>,
           bond' \in Nat, withdrawalAmount' \in Nat, withdrawalTime' \in Nat
    PROVE  BondInv'
<1>1. SequencedTypeOK /\ IInv /\ TimePasses /\ SignedAnchored
  BY DEF BondInv
<1>2. IInv'
  BY <1>1 DEF vars, IInv, TypeOK, HeadConsistent, RingHolds, ChainFollowsL1
<1>3. SequencedTypeOK'
  BY <1>1, <1>2 DEF SequencedTypeOK, IInv
<1>4. UNCHANGED <<l1Blocks, l1Time, signed>>
  BY DEF vars
<1> QED
  BY <1>1, <1>2, <1>3, <1>4 DEF BondInv, TimePasses, SignedAnchored, Signed

\* Every step keeps the bond behind what it backs.
LEMMA BondNext == BondInv /\ [SequencedNext]_sequencedVars => BondInv'
<1> SUFFICES ASSUME BondInv, [SequencedNext]_sequencedVars PROVE BondInv'
  OBVIOUS
<1>1. SequencedTypeOK /\ IInv /\ l1Time \in Nat
  BY DEF BondInv, IInv, TypeOK
<1>2. CASE L1Block /\ UNCHANGED <<lastAdvance, bondVars, signed, waiting>>
  BY <1>2, L1BlockBond
<1>3. ASSUME NEW bySequencer \in BOOLEAN, NEW timestamp \in 1..l1Time, NEW anchor \in 1..Len(l1Blocks),
             SequencedAdvance(bySequencer, [stateRoot |-> GenesisRoot, timestamp |-> timestamp,
                                            anchor |-> anchor]),
             waiting' = waiting \/ waiting' = <<>>
      PROVE  BondInv'
  <2> DEFINE b == [stateRoot |-> GenesisRoot, timestamp |-> timestamp, anchor |-> anchor]
  <2>1. b \in Block
    BY <1>1, RollupAssumption DEF Block
  <2>2. waiting \in Seq(Block) /\ <<>> \in Seq(Block)
    BY <1>1 DEF SequencedTypeOK
  <2>3. waiting' \in Seq(Block)
    BY <1>3, <2>2
  <2> HIDE DEF b
  <2> QED
    BY <1>3, <2>1, <2>3, PostBond DEF b
<1>4. CASE OtherPosts
  BY <1>3, <1>4 DEF OtherPosts
<1>5. CASE DepositBond
  BY <1>1, <1>5, BondOnly DEF DepositBond, SequencedTypeOK
<1>6. ASSUME NEW amount \in 1..MaxBond, RequestBondWithdrawal(amount)
      PROVE  BondInv'
  BY <1>1, <1>6, BondOnly, SequencedAssumption DEF RequestBondWithdrawal, SequencedTypeOK
<1>7. CASE WithdrawBond
  <2>1. bond - Withdrawn \in Nat
    BY <1>1 DEF SequencedTypeOK, Withdrawn
  <2> QED
    BY <1>1, <1>7, <2>1, BondOnly DEF WithdrawBond, SequencedTypeOK
<1>8. CASE Slash
  BY <1>1, <1>8, BondOnly DEF Slash, SequencedTypeOK
<1>9. CASE SignAnything
  BY <1>9, SignBond
<1>10. CASE UNCHANGED sequencedVars
  BY <1>1, <1>10, BondOnly DEF sequencedVars, bondVars, SequencedTypeOK
<1> QED
  BY <1>2, <1>3, <1>4, <1>5, <1>6, <1>7, <1>8, <1>9, <1>10 DEF SequencedNext

\* The invariant of the bond holds in every state.
LEMMA BondInvariant == SequencedSpec => []BondInv
<1> QED
  BY BondInit, BondNext, PTL DEF SequencedSpec

\* A block is dead once L1 is a delay further than when it was signed.
LEMMA DeadAfterDelay ==
    ASSUME BondInv, NEW p \in signed, l1Time >= p.signedAt + BOND_WITHDRAWAL_DELAY
    PROVE  ~Alive(Signed(p), l1Time, Len(l1Blocks))
<1> DEFINE a == Signed(p).anchor
           n == Len(l1Blocks)
           W == BLOCKHASH_WINDOW
           D == BOND_WITHDRAWAL_DELAY
<1>1. a \in 1..n /\ l1Blocks[a] < p.signedAt
  BY DEF BondInv, SignedAnchored
<1>2. /\ p.signedAt \in Nat /\ l1Time \in Nat /\ l1Blocks \in Seq(Nat)
      /\ W \in Nat \ {0} /\ D \in Nat
  BY RollupAssumption, SequencedAssumption
  DEF BondInv, IInv, SequencedTypeOK, TypeOK, Preconfirmation
<1>3. n \in Nat /\ l1Blocks[a] \in Nat
  <2> HIDE DEF a, W, D
  <2> QED
    BY <1>1, <1>2
<1> DEFINE t == l1Time - l1Blocks[a]
           m == n + 1 - a
<1>4. t \in Nat /\ t >= D + 1 /\ m \in Nat
  <2>1. l1Time >= p.signedAt + D
    OBVIOUS
  <2> HIDE DEF a, n, W, D
  <2> QED
    BY <1>1, <1>2, <1>3, <2>1
<1>5. W * t <= m * D
  BY <1>1 DEF BondInv, TimePasses
<1> SUFFICES m > W
  BY <1>1, <1>2, <1>3 DEF Alive
<1> HIDE DEF a, n, W, D, t, m
<1>6. SUFFICES ASSUME m <= W PROVE FALSE
  BY <1>2, <1>4
<1>7. m * D <= W * D
  BY <1>2, <1>4, <1>6
<1>8. W * (D + 1) <= W * t
  BY <1>2, <1>4
<1>9. W * (D + 1) = W * D + W /\ W * D \in Nat /\ W * t \in Nat /\ m * D \in Nat
  BY <1>2, <1>4
<1> QED
  BY <1>2, <1>5, <1>7, <1>8, <1>9

\* The bond outlasts every preconfirmation it backs, for every delay in which
\* L1 closes BLOCKHASH_WINDOW blocks.
THEOREM BondSafe == SequencedSpec => BondOutlastsPromises
<1>1. ASSUME BondInv, [SequencedNext]_sequencedVars
      PROVE  [WithdrawBond => \A p \in signed : p.signedAt <= withdrawalTime => Decided(p)]_sequencedVars
  <2> SUFFICES ASSUME WithdrawBond, NEW p \in signed, p.signedAt <= withdrawalTime
               PROVE  Decided(p)
    OBVIOUS
  <2>1. /\ p.signedAt \in Nat /\ withdrawalTime \in Nat /\ l1Time \in Nat
        /\ BOND_WITHDRAWAL_DELAY \in Nat
    BY <1>1, SequencedAssumption DEF BondInv, SequencedTypeOK, TypeOK, Preconfirmation
  <2>2. l1Time >= p.signedAt + BOND_WITHDRAWAL_DELAY
    BY <2>1 DEF WithdrawBond, WithdrawalDue
  <2> QED
    BY <1>1, <2>2, DeadAfterDelay DEF Decided
<1> QED
  BY <1>1, BondInvariant, PTL DEF SequencedSpec, BondOutlastsPromises

\* The state of the contract and of the bond is well typed, and what the
\* contract inherits from NativeRollup keeps its promises.
THEOREM SequencedTypeCorrect ==
    SequencedSpec => [](SequencedTypeOK /\ HistoryExact /\ ChainFollowsL1)
<1>1. BondInv => SequencedTypeOK /\ HistoryExact /\ ChainFollowsL1
  BY DEF BondInv, IInv, HeadConsistent, RingHolds, HistoryExact, InHistory, StateRootAt
<1> QED
  BY <1>1, BondInvariant, PTL
-----------------------------------------------------------------------------
(* The honest sequencer gives no reason to slash it, if it is never idle   *)
(* for so long that others may post while a block of its own can still be  *)
(* posted.                                                                 *)

\* Neither the contract nor the operator enforces the first; the operator
\* anchors its blocks two L1 blocks behind the head, the second.
NotIdleTooLong ==
    /\ MAX_IDLE + MAX_TIMESTAMP_LAG <= SEQUENCER_TIMEOUT
    /\ ANCHOR_DEPTH < BLOCKHASH_WINDOW

Waiting == 1..Len(waiting)

\* The chain's timestamps against the times that bound them.
ClockInv ==
    /\ blockHash[Len(blockHash)].timestamp <= lastAdvance
    /\ lastAdvance <= l1Time
    /\ waiting = <<>> => l1Time <= lastAdvance + MAX_IDLE

\* Waiting blocks are in the order of their timestamps and anchors.
WaitingInOrder ==
    \A i \in Waiting :
        /\ waiting[i].timestamp <= l1Time
        /\ waiting[i].anchor <= Len(l1Blocks) - ANCHOR_DEPTH
        /\ \A j \in Waiting : i <= j => /\ waiting[i].timestamp <= waiting[j].timestamp
                                        /\ waiting[i].anchor <= waiting[j].anchor

\* The first waiting block is alive, and not yet when anyone may post.
FirstInTime ==
    waiting # <<>> =>
        /\ Alive(waiting[1], l1Time, Len(l1Blocks))
        /\ waiting[1].timestamp <= lastAdvance + MAX_IDLE

\* Everything signed is on the node's one chain.
SignedOnChain ==
    \A p \in signed :
        /\ Len(p.blockHash) \in 1..Len(NodeChain)
        /\ \A i \in 1..Len(p.blockHash) : p.blockHash[i] = NodeChain[i]

HonestInv == SequencedTypeOK /\ IInv /\ ClockInv /\ WaitingInOrder /\ FirstInTime /\ SignedOnChain

\* The types and the constants the steps below use.
LEMMA HonestTypes ==
    ASSUME SequencedTypeOK
    PROVE  /\ l1Blocks \in Seq(Nat) /\ Len(l1Blocks) \in Nat \ {0}
           /\ l1Time \in Nat /\ lastAdvance \in Nat
           /\ blockHash \in Seq(Block) /\ Len(blockHash) \in Nat \ {0}
           /\ blockHash[Len(blockHash)].timestamp \in Nat
           /\ waiting \in Seq(Block) /\ Len(waiting) \in Nat
           /\ \A i \in Waiting : waiting[i].timestamp \in Nat /\ waiting[i].anchor \in Nat
           /\ {MAX_IDLE, MAX_TIMESTAMP_LAG, SEQUENCER_TIMEOUT, ANCHOR_DEPTH} \subseteq Nat
           /\ BLOCKHASH_WINDOW \in Nat \ {0}
<1>1. /\ l1Blocks \in Seq(Nat) /\ Len(l1Blocks) \in Nat \ {0}
      /\ l1Time \in Nat /\ lastAdvance \in Nat
      /\ blockHash \in Seq(Block) /\ Len(blockHash) \in Nat \ {0}
      /\ waiting \in Seq(Block) /\ Len(waiting) \in Nat
  BY DEF SequencedTypeOK, TypeOK
<1>2. blockHash[Len(blockHash)].timestamp \in Nat
  BY HeadIsBlock DEF SequencedTypeOK
<1>3. ASSUME NEW i \in Waiting PROVE waiting[i].timestamp \in Nat /\ waiting[i].anchor \in Nat
  <2>1. waiting[i] \in Block
    BY <1>1 DEF Waiting
  <2> QED
    BY <2>1 DEF Block
<1> QED
  BY <1>1, <1>2, <1>3, RollupAssumption, SequencedAssumption

\* The sequencer's chain is the posted one and what waits after it.
LEMMA NodeChainIs ==
    ASSUME SequencedTypeOK
    PROVE  /\ NodeChain \in Seq(Block)
           /\ Len(NodeChain) = Len(blockHash) + Len(waiting)
           /\ \A i \in 1..Len(NodeChain) :
                 NodeChain[i] = IF i <= Len(blockHash) THEN blockHash[i] ELSE waiting[i - Len(blockHash)]
  BY HonestTypes, ConcatProperties DEF NodeChain

\* A node that keeps its chain, or adds to it, stays on what it signed.
LEMMA ChainGrows ==
    ASSUME SignedOnChain, signed' = signed,
           Len(NodeChain) \in Nat, Len(NodeChain') \in Nat, Len(NodeChain) <= Len(NodeChain'),
           \A i \in 1..Len(NodeChain) : NodeChain'[i] = NodeChain[i]
    PROVE  SignedOnChain'
<1>1. SUFFICES ASSUME NEW p \in signed
               PROVE  /\ Len(p.blockHash) \in 1..Len(NodeChain')
                      /\ \A i \in 1..Len(p.blockHash) : p.blockHash[i] = NodeChain'[i]
  BY DEF SignedOnChain
<1>2. /\ Len(p.blockHash) \in 1..Len(NodeChain)
      /\ \A i \in 1..Len(p.blockHash) : p.blockHash[i] = NodeChain[i]
  BY DEF SignedOnChain
<1> QED
  BY <1>2
-----------------------------------------------------------------------------
\* At first nothing is signed and nothing waits.
LEMMA HonestInit == SequencedInit => HonestInv
<1> SUFFICES ASSUME SequencedInit PROVE HonestInv
  OBVIOUS
<1>1. SequencedTypeOK /\ IInv
  BY ContractInit
<1>2. /\ waiting = <<>> /\ signed = {} /\ lastAdvance = l1Time /\ l1Time = 2
      /\ blockHash = <<Genesis>>
  BY DEF SequencedInit, Init
<1>3. ClockInv
  BY <1>2, SequencedAssumption DEF ClockInv, Genesis
<1> QED
  BY <1>1, <1>2, <1>3 DEF HonestInv, WaitingInOrder, Waiting, FirstInTime, SignedOnChain

\* What waits is posted before an L1 block makes it too old.
LEMMA HonestL1Block == HonestInv /\ L1BlockInTime => HonestInv'
<1> SUFFICES ASSUME HonestInv, L1BlockInTime PROVE HonestInv'
  OBVIOUS
<1>1. SequencedTypeOK /\ IInv /\ ClockInv /\ WaitingInOrder /\ FirstInTime /\ SignedOnChain
  BY DEF HonestInv
<1>2. /\ L1Block
      /\ waiting # <<>> => Alive(Head(waiting), l1Time', Len(l1Blocks'))
      /\ l1Time' <= NodeChain[Len(NodeChain)].timestamp + MAX_IDLE
      /\ UNCHANGED <<lastAdvance, bondVars, signed, waiting>>
  BY DEF L1BlockInTime
<1>3. /\ IInv' /\ Len(l1Blocks') = Len(l1Blocks) + 1
      /\ blockHash' = blockHash
  BY <1>1, <1>2, L1Grows DEF rollupVars
<1>4. l1Time' \in Nat /\ l1Time' > l1Time
  <2>1. PICK d \in SlotTimes : l1Time' = l1Time + d
    BY <1>1, <1>2, L1Grows
  <2>2. d \in Nat \ {0}
    BY RollupAssumption
  <2>3. l1Time \in Nat
    BY <1>1, HonestTypes
  <2> QED
    BY <2>1, <2>2, <2>3
<1>5. SequencedTypeOK'
  BY <1>1, <1>2, <1>3 DEF SequencedTypeOK, IInv, bondVars
<1>6. ClockInv'
  <2>1. ASSUME waiting = <<>> PROVE l1Time' <= lastAdvance + MAX_IDLE
    <3>1. NodeChain = blockHash
      BY <1>1, <2>1, HonestTypes, ConcatEmptySeq DEF NodeChain
    <3>2. l1Time' <= blockHash[Len(blockHash)].timestamp + MAX_IDLE
      BY <1>2, <3>1
    <3>3. blockHash[Len(blockHash)].timestamp <= lastAdvance
      BY <1>1 DEF ClockInv
    <3>4. /\ blockHash[Len(blockHash)].timestamp \in Nat /\ lastAdvance \in Nat
          /\ MAX_IDLE \in Nat
      BY <1>1, HonestTypes
    <3> QED
      BY <1>4, <3>2, <3>3, <3>4
  <2> QED
    BY <1>1, <1>2, <1>3, <1>4, <2>1, HonestTypes DEF ClockInv
<1>7. WaitingInOrder'
  <2>1. SUFFICES ASSUME NEW i \in Waiting
                 PROVE  /\ waiting[i].timestamp <= l1Time'
                        /\ waiting[i].anchor <= Len(l1Blocks') - ANCHOR_DEPTH
                        /\ \A j \in Waiting : i <= j =>
                               /\ waiting[i].timestamp <= waiting[j].timestamp
                               /\ waiting[i].anchor <= waiting[j].anchor
    BY <1>2 DEF WaitingInOrder, Waiting
  <2>2. /\ waiting[i].timestamp \in Nat /\ waiting[i].anchor \in Nat /\ l1Time \in Nat
        /\ Len(l1Blocks) \in Nat /\ ANCHOR_DEPTH \in Nat
    BY <1>1, HonestTypes
  <2>3. /\ waiting[i].timestamp <= l1Time
        /\ waiting[i].anchor <= Len(l1Blocks) - ANCHOR_DEPTH
        /\ \A j \in Waiting : i <= j =>
               /\ waiting[i].timestamp <= waiting[j].timestamp
               /\ waiting[i].anchor <= waiting[j].anchor
    BY <1>1 DEF WaitingInOrder
  <2> QED
    BY <1>3, <1>4, <2>2, <2>3
<1>8. FirstInTime'
  <2>1. waiting # <<>> => Head(waiting) = waiting[1]
    OBVIOUS
  <2> QED
    BY <1>1, <1>2, <2>1 DEF FirstInTime
<1>9. SignedOnChain'
  BY <1>1, <1>2, <1>3 DEF SignedOnChain, NodeChain
<1> QED
  BY <1>3, <1>5, <1>6, <1>7, <1>8, <1>9 DEF HonestInv

\* The next block joins the one chain that is signed.
LEMMA HonestPreconfirm == NotIdleTooLong /\ HonestInv /\ Preconfirm => HonestInv'
<1> SUFFICES ASSUME NotIdleTooLong, HonestInv, Preconfirm PROVE HonestInv'
  OBVIOUS
<1> DEFINE b == [stateRoot |-> GenesisRoot, timestamp |-> l1Time, anchor |-> Len(l1Blocks) - ANCHOR_DEPTH]
           p == [blockHash |-> Append(NodeChain, b), signedAt |-> l1Time]
           n == Len(waiting)
<1>1. SequencedTypeOK /\ IInv /\ ClockInv /\ WaitingInOrder /\ FirstInTime /\ SignedOnChain
  BY DEF HonestInv
<1>2. /\ b.anchor >= 1
      /\ waiting' = Append(waiting, b)
      /\ signed' = signed \cup {p}
      /\ UNCHANGED <<vars, lastAdvance, bondVars>>
  BY DEF Preconfirm
<1>3. b \in Block
  <2>1. l1Time \in Nat /\ Len(l1Blocks) \in Nat /\ ANCHOR_DEPTH \in Nat
    BY <1>1, HonestTypes
  <2>2. Len(l1Blocks) - ANCHOR_DEPTH \in Nat
    BY <1>2, <2>1
  <2> QED
    BY <2>1, <2>2, RollupAssumption DEF Block
<1>4. /\ waiting' \in Seq(Block) /\ Len(waiting') = n + 1
      /\ \A i \in 1..n : waiting'[i] = waiting[i]
      /\ waiting'[n + 1] = b /\ waiting' # <<>>
      /\ n \in Nat
  <2>1. waiting \in Seq(Block) /\ n \in Nat
    BY <1>1, HonestTypes
  <2> HIDE DEF b
  <2> QED
    BY <1>2, <1>3, <2>1, AppendProperties
<1>5. IInv' /\ UNCHANGED <<l1Blocks, l1Time, blockHash, lastAdvance, bond, withdrawalAmount, withdrawalTime>>
  BY <1>1, <1>2 DEF vars, bondVars, IInv, TypeOK, HeadConsistent, RingHolds, ChainFollowsL1
<1>6. p \in Preconfirmation
  BY <1>1, <1>3, NodeChainIs, HonestTypes, SignedIsLast
<1>7. SequencedTypeOK'
  BY <1>1, <1>2, <1>4, <1>5, <1>6 DEF SequencedTypeOK, IInv
<1>8. ClockInv'
  BY <1>1, <1>4, <1>5 DEF ClockInv
<1>9. WaitingInOrder'
  <2>1. SUFFICES ASSUME NEW i \in 1..(n + 1)
                 PROVE  /\ waiting'[i].timestamp <= l1Time
                        /\ waiting'[i].anchor <= Len(l1Blocks) - ANCHOR_DEPTH
                        /\ \A j \in 1..(n + 1) : i <= j =>
                               /\ waiting'[i].timestamp <= waiting'[j].timestamp
                               /\ waiting'[i].anchor <= waiting'[j].anchor
    BY <1>4, <1>5 DEF WaitingInOrder, Waiting
  <2>2. CASE i = n + 1
    <3>1. b.timestamp = l1Time /\ b.anchor = Len(l1Blocks) - ANCHOR_DEPTH
      OBVIOUS
    <3>2. b.timestamp \in Nat /\ b.anchor \in Nat
      BY <1>3 DEF Block
    <3>3. \A j \in 1..(n + 1) : i <= j => j = n + 1
      BY <1>4, <2>2
    <3> HIDE DEF b
    <3> QED
      BY <1>4, <2>2, <3>1, <3>2, <3>3
  <2>3. CASE i \in 1..n
    <3>1. /\ waiting[i].timestamp <= b.timestamp
          /\ waiting[i].anchor <= b.anchor
          /\ \A j \in 1..n : i <= j => /\ waiting[i].timestamp <= waiting[j].timestamp
                                       /\ waiting[i].anchor <= waiting[j].anchor
      BY <1>1, <2>3 DEF WaitingInOrder, Waiting
    <3>2. ASSUME NEW j \in 1..(n + 1), i <= j
          PROVE  /\ waiting[i].timestamp <= waiting'[j].timestamp
                 /\ waiting[i].anchor <= waiting'[j].anchor
      <4>1. CASE j = n + 1
        BY <1>4, <3>1, <4>1
      <4>2. CASE j \in 1..n
        BY <1>4, <3>1, <3>2, <4>2
      <4> QED
        BY <1>4, <4>1, <4>2
    <3> QED
      BY <1>4, <2>3, <3>1, <3>2
  <2> QED
    BY <1>4, <2>2, <2>3
<1>10. FirstInTime'
  <2>1. SUFFICES /\ Alive(waiting'[1], l1Time, Len(l1Blocks))
                 /\ waiting'[1].timestamp <= lastAdvance + MAX_IDLE
    BY <1>5 DEF FirstInTime
  <2>2. CASE waiting = <<>>
    <3>1. waiting'[1] = b
      BY <1>4, <2>2
    <3>2. Alive(b, l1Time, Len(l1Blocks))
      <4>1. /\ l1Time \in Nat /\ Len(l1Blocks) \in Nat
            /\ {MAX_TIMESTAMP_LAG, ANCHOR_DEPTH} \subseteq Nat /\ BLOCKHASH_WINDOW \in Nat
        BY <1>1, HonestTypes
      <4>2. b.timestamp = l1Time /\ b.anchor = Len(l1Blocks) - ANCHOR_DEPTH
        OBVIOUS
      <4>3. ANCHOR_DEPTH < BLOCKHASH_WINDOW
        BY DEF NotIdleTooLong
      <4> HIDE DEF b
      <4> QED
        BY <4>1, <4>2, <4>3 DEF Alive
    <3> QED
      BY <1>1, <2>2, <3>1, <3>2 DEF ClockInv
  <2>3. CASE waiting # <<>>
    <3>1. waiting'[1] = waiting[1]
      BY <1>1, <1>4, <2>3, HonestTypes, EmptySeq
    <3>2. FirstInTime
      BY <1>1
    <3>3. Alive(waiting[1], l1Time, Len(l1Blocks)) /\ waiting[1].timestamp <= lastAdvance + MAX_IDLE
      BY <2>3, <3>2 DEF FirstInTime
    <3> QED
      BY <3>1, <3>3
  <2> QED
    BY <2>2, <2>3
<1>11. SignedOnChain'
  <2>1. NodeChain' = Append(NodeChain, b)
    <3>1. NodeChain' = blockHash \o Append(waiting, b)
      BY <1>2, <1>5 DEF NodeChain
    <3>2. Append(waiting, b) = waiting \o <<b>> /\ <<b>> \in Seq(Block)
      <4>1. waiting \in Seq(Block)
        BY <1>1, HonestTypes
      <4> HIDE DEF b
      <4> QED
        BY <1>3, <4>1, AppendIsConcat
    <3>3. blockHash \o (waiting \o <<b>>) = NodeChain \o <<b>>
      <4>1. blockHash \in Seq(Block) /\ waiting \in Seq(Block)
        BY <1>1, HonestTypes
      <4> QED
        BY <3>2, <4>1, ConcatAssociative DEF NodeChain
    <3>4. NodeChain \o <<b>> = Append(NodeChain, b)
      BY <1>1, <1>3, NodeChainIs, AppendIsConcat
    <3> QED
      BY <3>1, <3>2, <3>3, <3>4
  <2>2. /\ NodeChain \in Seq(Block)
        /\ Len(NodeChain') = Len(NodeChain) + 1
        /\ \A i \in 1..Len(NodeChain) : NodeChain'[i] = NodeChain[i]
    BY <1>1, <1>3, <2>1, NodeChainIs, AppendProperties
  <2>3. SUFFICES ASSUME NEW q \in signed \cup {p}
                 PROVE  /\ Len(q.blockHash) \in 1..Len(NodeChain')
                        /\ \A i \in 1..Len(q.blockHash) : q.blockHash[i] = NodeChain'[i]
    BY <1>2 DEF SignedOnChain
  <2>4. CASE q = p
    <3>1. q.blockHash = NodeChain'
      BY <2>1, <2>4
    <3> QED
      BY <2>2, <3>1
  <2>5. CASE q \in signed
    BY <1>1, <2>2, <2>5 DEF SignedOnChain
  <2> QED
    BY <2>4, <2>5
<1> QED
  BY <1>5, <1>7, <1>8, <1>9, <1>10, <1>11 DEF HonestInv

\* A block with a later timestamp and anchor lives as long.
LEMMA LaterAlive ==
    ASSUME NEW b, NEW c, NEW time \in Nat, NEW height \in Nat,
           b.timestamp \in Nat, b.anchor \in Nat, c.timestamp \in Nat, c.anchor \in Nat,
           b.timestamp <= c.timestamp, b.anchor <= c.anchor, Alive(b, time, height)
    PROVE  Alive(c, time, height)
<1>1. MAX_TIMESTAMP_LAG \in Nat /\ BLOCKHASH_WINDOW \in Nat
  BY RollupAssumption
<1>2. b.timestamp + MAX_TIMESTAMP_LAG >= time /\ b.anchor + BLOCKHASH_WINDOW > height
  BY DEF Alive
<1>3. c.timestamp + MAX_TIMESTAMP_LAG >= time
  BY <1>1, <1>2
<1>4. c.anchor + BLOCKHASH_WINDOW > height
  BY <1>1, <1>2
<1> QED
  BY <1>3, <1>4 DEF Alive

\* What a post does to the contract's chain and clock.
LEMMA PostedBlock ==
    ASSUME HonestInv, NEW bySequencer \in BOOLEAN, NEW b \in Block, SequencedAdvance(bySequencer, b),
           waiting' \in Seq(Block)
    PROVE  /\ SequencedTypeOK' /\ IInv'
           /\ blockHash' = Append(blockHash, b)
           /\ lastAdvance' = l1Time
           /\ b.timestamp <= l1Time
           /\ UNCHANGED <<l1Blocks, l1Time, signed>>
<1>1. SequencedTypeOK /\ IInv
  BY DEF HonestInv
<1>2. IInv' /\ lastAdvance' \in Nat
  BY <1>1, PostInv
<1>3. /\ blockHash' = Append(blockHash, b)
      /\ lastAdvance' = l1Time
      /\ b.timestamp <= l1Time
      /\ UNCHANGED <<l1Blocks, l1Time, bond, withdrawalAmount, withdrawalTime, signed>>
  BY DEF SequencedAdvance, Advance, TimestampAllowed, LastAdvance, l1Vars, bondVars
<1>4. SequencedTypeOK'
  BY <1>1, <1>2, <1>3 DEF SequencedTypeOK, IInv
<1> QED
  BY <1>2, <1>3, <1>4

\* The clock after a post.
LEMMA PostedClock ==
    ASSUME HonestInv, NEW b \in Block, blockHash' = Append(blockHash, b), lastAdvance' = l1Time,
           l1Time' = l1Time, b.timestamp <= l1Time
    PROVE  ClockInv'
<1>1. SequencedTypeOK
  BY DEF HonestInv
<1>2. blockHash'[Len(blockHash')] = b
  BY <1>1, HonestTypes, AppendProperties
<1> QED
  BY <1>1, <1>2, HonestTypes DEF ClockInv

\* The first of what waits joins the posted chain.
LEMMA HonestPost == HonestInv /\ Post => HonestInv'
<1> SUFFICES ASSUME HonestInv, Post PROVE HonestInv'
  OBVIOUS
<1> DEFINE b == waiting[1]
           n == Len(waiting)
<1>1. SequencedTypeOK /\ IInv /\ ClockInv /\ WaitingInOrder /\ FirstInTime /\ SignedOnChain
  BY DEF HonestInv
<1>2. waiting # <<>> /\ SequencedAdvance(TRUE, b) /\ waiting' = Tail(waiting)
  <2>1. Head(waiting) = b
    BY DEF Post
  <2> QED
    BY <2>1 DEF Post
<1>3. /\ b \in Block /\ n \in Nat \ {0}
      /\ waiting' \in Seq(Block) /\ Len(waiting') = n - 1
      /\ \A i \in 1..(n - 1) : waiting'[i] = waiting[i + 1]
  BY <1>1, <1>2, HonestTypes, HeadTailProperties, EmptySeq
<1>4. /\ SequencedTypeOK' /\ IInv'
      /\ blockHash' = Append(blockHash, b)
      /\ lastAdvance' = l1Time
      /\ b.timestamp <= l1Time
      /\ UNCHANGED <<l1Blocks, l1Time, signed>>
  BY <1>2, <1>3, PostedBlock
<1>5. ClockInv'
  BY <1>3, <1>4, PostedClock
<1>6. WaitingInOrder'
  <2>1. SUFFICES ASSUME NEW i \in 1..(n - 1)
                 PROVE  /\ waiting[i + 1].timestamp <= l1Time
                        /\ waiting[i + 1].anchor <= Len(l1Blocks) - ANCHOR_DEPTH
                        /\ \A j \in 1..(n - 1) : i <= j =>
                               /\ waiting[i + 1].timestamp <= waiting[j + 1].timestamp
                               /\ waiting[i + 1].anchor <= waiting[j + 1].anchor
    BY <1>3, <1>4 DEF WaitingInOrder, Waiting
  <2>2. \A j \in 1..(n - 1) : j + 1 \in Waiting
    BY <1>3 DEF Waiting
  <2>3. i + 1 \in Waiting /\ \A j \in 1..(n - 1) : i <= j => i + 1 <= j + 1
    BY <1>3, <2>2
  <2> QED
    BY <1>1, <2>2, <2>3 DEF WaitingInOrder
<1>7. FirstInTime'
  <2>1. SUFFICES ASSUME waiting' # <<>>
                 PROVE  /\ Alive(waiting'[1], l1Time, Len(l1Blocks))
                        /\ waiting'[1].timestamp <= l1Time + MAX_IDLE
    BY <1>4 DEF FirstInTime
  <2>2. n - 1 >= 1 /\ waiting'[1] = waiting[2] /\ {1, 2} \subseteq Waiting
    BY <1>3, <2>1, EmptySeq DEF Waiting
  <2>3. /\ waiting[1].timestamp <= waiting[2].timestamp /\ waiting[2].timestamp <= l1Time
        /\ waiting[1].anchor <= waiting[2].anchor
    BY <1>1, <2>2 DEF WaitingInOrder
  <2>4. Alive(waiting[1], l1Time, Len(l1Blocks))
    BY <1>1, <1>2 DEF FirstInTime
  <2>5. /\ waiting[1].timestamp \in Nat /\ waiting[1].anchor \in Nat
        /\ waiting[2].timestamp \in Nat /\ waiting[2].anchor \in Nat
        /\ l1Time \in Nat /\ Len(l1Blocks) \in Nat /\ MAX_IDLE \in Nat
        /\ MAX_TIMESTAMP_LAG \in Nat /\ BLOCKHASH_WINDOW \in Nat
    BY <1>1, <2>2, HonestTypes
  <2>6. Alive(waiting[2], l1Time, Len(l1Blocks))
    BY <2>3, <2>4, <2>5, LaterAlive
  <2> QED
    BY <2>2, <2>3, <2>5, <2>6
<1>8. SignedOnChain'
  <2>1. NodeChain' = NodeChain
    <3>1. waiting = <<b>> \o Tail(waiting) /\ <<b>> \in Seq(Block)
      <4>1. /\ <<b>> \in Seq(Block) /\ Tail(waiting) \in Seq(Block)
            /\ Len(<<b>> \o Tail(waiting)) = n
            /\ \A i \in 1..n : (<<b>> \o Tail(waiting))[i] = waiting[i]
        BY <1>2, <1>3, ConcatProperties
      <4> QED
        BY <1>1, <4>1, HonestTypes, ConcatProperties, SeqEqual
    <3>2. blockHash' = blockHash \o <<b>>
      BY <1>1, <1>3, <1>4, HonestTypes, AppendIsConcat
    <3>3. (blockHash \o <<b>>) \o Tail(waiting) = blockHash \o (<<b>> \o Tail(waiting))
      <4>1. blockHash \in Seq(Block) /\ Tail(waiting) \in Seq(Block)
        BY <1>1, <1>2, <1>3, HonestTypes
      <4> HIDE DEF b
      <4> QED
        BY <3>1, <4>1, ConcatAssociative
    <3> QED
      BY <1>2, <3>1, <3>2, <3>3 DEF NodeChain
  <2> QED
    BY <1>1, <1>4, <2>1 DEF SignedOnChain
<1> QED
  BY <1>4, <1>5, <1>6, <1>7, <1>8 DEF HonestInv

\* Others post only when nothing is waiting: the first waiting block, which is
\* alive, would be from before the timeout.
LEMMA NothingWaits == NotIdleTooLong /\ HonestInv /\ TimedOut => waiting = <<>>
<1>1. SUFFICES ASSUME NotIdleTooLong, HonestInv, TimedOut, waiting # <<>> PROVE FALSE
  OBVIOUS
<1>2. SequencedTypeOK /\ FirstInTime
  BY <1>1 DEF HonestInv
<1>3. 1 \in Waiting
  BY <1>1, <1>2, HonestTypes, EmptySeq DEF Waiting
<1>4. waiting[1].timestamp \in Nat
  BY <1>2, <1>3, HonestTypes
<1>5. /\ waiting[1].timestamp + MAX_TIMESTAMP_LAG >= l1Time
      /\ waiting[1].timestamp <= lastAdvance + MAX_IDLE
  BY <1>1, <1>2 DEF FirstInTime, Alive
<1>6. {l1Time, lastAdvance, MAX_IDLE, MAX_TIMESTAMP_LAG, SEQUENCER_TIMEOUT} \subseteq Nat
  BY <1>2, HonestTypes
<1> QED
  BY <1>1, <1>4, <1>5, <1>6 DEF NotIdleTooLong, TimedOut

\* When others may post, nothing waits: no promise is broken.
LEMMA HonestOtherPosts == NotIdleTooLong /\ HonestInv /\ OtherPosts => HonestInv'
<1> SUFFICES ASSUME NotIdleTooLong, HonestInv, OtherPosts PROVE HonestInv'
  OBVIOUS
<1>1. SequencedTypeOK /\ IInv /\ SignedOnChain
  BY DEF HonestInv
<1>2. PICK timestamp \in 1..l1Time, anchor \in 1..Len(l1Blocks) :
          SequencedAdvance(FALSE, [stateRoot |-> GenesisRoot, timestamp |-> timestamp, anchor |-> anchor])
  BY DEF OtherPosts
<1> DEFINE b == [stateRoot |-> GenesisRoot, timestamp |-> timestamp, anchor |-> anchor]
<1>3. b \in Block
  <2>1. l1Time \in Nat /\ Len(l1Blocks) \in Nat
    BY <1>1, HonestTypes
  <2>2. timestamp \in Nat /\ anchor \in Nat
    BY <2>1
  <2>3. GenesisRoot \in StateRoots
    BY RollupAssumption
  <2> QED
    BY <2>2, <2>3 DEF Block
<1>4. SequencedAdvance(FALSE, b)
  BY <1>2
<1> HIDE DEF b
<1>5. waiting' = <<>> /\ <<>> \in Seq(Block)
  BY DEF OtherPosts
<1>6. waiting = <<>>
  BY <1>4, NothingWaits DEF SequencedAdvance
<1>7. /\ SequencedTypeOK' /\ IInv'
      /\ blockHash' = Append(blockHash, b)
      /\ lastAdvance' = l1Time
      /\ b.timestamp <= l1Time
      /\ UNCHANGED <<l1Blocks, l1Time, signed>>
  BY <1>3, <1>4, <1>5, PostedBlock
<1>8. ClockInv'
  BY <1>3, <1>7, PostedClock
<1>9. SignedOnChain'
  <2>1. NodeChain = blockHash
    BY <1>1, <1>6, HonestTypes, ConcatEmptySeq DEF NodeChain
  <2>2. Append(blockHash, b) \in Seq(Block)
    BY <1>1, <1>3, HonestTypes, AppendProperties
  <2>3. NodeChain' = Append(blockHash, b)
    BY <1>5, <1>7, <2>2, ConcatEmptySeq DEF NodeChain
  <2>4. /\ Len(NodeChain) \in Nat /\ Len(NodeChain') = Len(NodeChain) + 1
        /\ \A i \in 1..Len(NodeChain) : NodeChain'[i] = NodeChain[i]
    BY <1>1, <1>3, <2>1, <2>3, HonestTypes, AppendProperties
  <2> QED
    BY <1>1, <1>7, <2>4, ChainGrows
<1> QED
  BY <1>5, <1>7, <1>8, <1>9 DEF HonestInv, WaitingInOrder, Waiting, FirstInTime

\* Every step of an honest sequencer keeps it safe.
LEMMA HonestStep == NotIdleTooLong /\ HonestInv /\ [HonestNext]_sequencedVars => HonestInv'
<1> SUFFICES ASSUME NotIdleTooLong, HonestInv, [HonestNext]_sequencedVars PROVE HonestInv'
  OBVIOUS
<1>1. CASE UNCHANGED sequencedVars
  BY <1>1 DEF sequencedVars, vars, bondVars, HonestInv, SequencedTypeOK, IInv, TypeOK, HeadConsistent,
              RingHolds, ChainFollowsL1, ClockInv, WaitingInOrder, Waiting, FirstInTime, SignedOnChain,
              NodeChain
<1> QED
  BY <1>1, HonestL1Block, HonestPreconfirm, HonestPost, HonestOtherPosts DEF HonestNext
-----------------------------------------------------------------------------
\* What is on one chain does not differ at a height.
LEMMA OneChain == HonestInv => HonestNeverSlashed
<1> SUFFICES ASSUME HonestInv PROVE HonestNeverSlashed
  OBVIOUS
<1>1. SequencedTypeOK /\ IInv /\ SignedOnChain
  BY DEF HonestInv
<1>2. ASSUME NEW p \in signed
      PROVE  /\ p.blockHash \in Seq(Block) /\ Len(p.blockHash) \in Nat \ {0}
             /\ Len(p.blockHash) <= Len(NodeChain)
             /\ \A i \in 1..Len(p.blockHash) : p.blockHash[i] = NodeChain[i]
  <2>1. p.blockHash \in Seq(Block)
    BY <1>1 DEF SequencedTypeOK, Preconfirmation
  <2> QED
    BY <1>1, <2>1, NodeChainIs DEF SignedOnChain
<1>3. ASSUME NEW p \in signed PROVE ~Divergence(p)
  <2>1. SUFFICES ASSUME Number(p) <= blockNumber PROVE PostedHash(Number(p)) = p.blockHash
    BY DEF Divergence
  <2> DEFINE n == Len(p.blockHash)
  <2>2. n \in Nat \ {0} /\ n <= Len(blockHash) /\ Number(p) + 1 = n
    BY <1>1, <1>2, <2>1, HonestTypes DEF Number, IInv, HeadConsistent
  <2>3. \A i \in 1..n : blockHash[i] \in Block /\ blockHash[i] = p.blockHash[i]
    <3>1. SUFFICES ASSUME NEW i \in 1..n
                   PROVE  blockHash[i] \in Block /\ blockHash[i] = p.blockHash[i]
      OBVIOUS
    <3>2. i \in 1..Len(blockHash) /\ i \in 1..Len(NodeChain)
      <4>1. /\ Len(blockHash) \in Nat /\ Len(waiting) \in Nat
            /\ Len(NodeChain) = Len(blockHash) + Len(waiting)
        BY <1>1, HonestTypes, NodeChainIs
      <4>2. i \in Nat /\ 1 <= i /\ i <= Len(blockHash)
        BY <2>2, <4>1
      <4> QED
        BY <4>1, <4>2
    <3>3. blockHash \in Seq(Block)
      BY <1>1, HonestTypes
    <3>4. blockHash[i] \in Block
      BY <3>2, <3>3, ElementOfSeq
    <3>5. NodeChain[i] = blockHash[i]
      BY <1>1, <3>2, NodeChainIs
    <3>6. p.blockHash[i] = NodeChain[i]
      BY <1>2
    <3> QED
      BY <3>4, <3>5, <3>6
  <2>4. /\ SubSeq(blockHash, 1, n) \in Seq(Block)
        /\ Len(SubSeq(blockHash, 1, n)) = n
        /\ \A i \in 1..n : SubSeq(blockHash, 1, n)[i] = blockHash[i]
    BY <2>2, <2>3, SubSeqProperties
  <2>5. SubSeq(blockHash, 1, n) = p.blockHash
    BY <1>2, <2>3, <2>4, SeqEqual
  <2> QED
    BY <2>2, <2>5 DEF PostedHash
<1>4. ASSUME NEW p \in signed, NEW q \in signed PROVE ~Equivocation(p, q)
  <2>1. SUFFICES ASSUME Number(p) = Number(q) PROVE p.blockHash = q.blockHash
    BY DEF Equivocation
  <2>2. Len(p.blockHash) = Len(q.blockHash)
    BY <1>2, <2>1 DEF Number
  <2>3. \A i \in 1..Len(p.blockHash) : p.blockHash[i] = q.blockHash[i]
    BY <1>2, <2>2
  <2> QED
    BY <1>2, <2>2, <2>3, SeqEqual
<1> QED
  BY <1>3, <1>4 DEF HonestNeverSlashed

\* An honest sequencer that is never idle for longer than the timeout exceeds
\* the posting deadline is never slashed, by either evidence.
THEOREM HonestSafe == NotIdleTooLong => (HonestSpec => []HonestNeverSlashed)
<1> SUFFICES ASSUME NotIdleTooLong PROVE HonestSpec => []HonestNeverSlashed
  OBVIOUS
<1>1. HonestInv /\ [HonestNext]_sequencedVars => HonestInv'
  BY HonestStep
<1>2. HonestSpec => []HonestInv
  BY <1>1, HonestInit, PTL DEF HonestSpec
<1> QED
  BY <1>2, OneChain, PTL
=============================================================================
