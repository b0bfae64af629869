-------------------------- MODULE SequencedRollup --------------------------
(***************************************************************************)
(* SequencedNativeRollup.sol: the rollup with a sequencer that posts alone *)
(* unless it posted nothing for SEQUENCER_TIMEOUT, and whose bond L1 burns *)
(* for a preconfirmation that is not kept.                                 *)
(*                                                                         *)
(* Two specifications share the contract.  In SequencedSpec the sequencer  *)
(* signs and posts anything.  In HonestSpec it runs the operator: it signs *)
(* one block after another on its own chain and posts them in time.        *)
(*                                                                         *)
(* L1 does not reorg here, and what a preconfirmation says besides the     *)
(* block's hash, its number and its anchor, is that of the block.          *)
(***************************************************************************)
EXTENDS NativeRollup, FiniteSets

CONSTANTS SEQUENCER_TIMEOUT,
          BOND_WITHDRAWAL_DELAY,
          HISTORY_WINDOW,  \* how many block hashes the history contracts keep
          ANCHOR_DEPTH,    \* how far the operator anchors behind the L1 head
          MAX_IDLE,        \* how long the honest sequencer goes without a block
          MaxBond,         \* bound: deposits
          MaxSigned        \* bound: preconfirmations in SequencedSpec

ASSUME SequencedAssumption ==
    /\ {SEQUENCER_TIMEOUT, BOND_WITHDRAWAL_DELAY, ANCHOR_DEPTH, MAX_IDLE} \subseteq Nat
    /\ HISTORY_WINDOW \in Nat \ {0}
    /\ MaxBond \in Nat \ {0}
    /\ MaxSigned \in Nat

\* A withdrawal waits for longer than a block can still be anchored: a day
\* against 256 L1 blocks, however many slots are missed.
ASSUME DelayAssumption ==
    \A d \in SlotTimes \cup {1} : BLOCKHASH_WINDOW * d <= BOND_WITHDRAWAL_DELAY

VARIABLES lastAdvance,
          bond, withdrawalAmount, withdrawalTime,
          signed,   \* the preconfirmations the sequencer signed, each with the time
          waiting   \* the blocks the honest sequencer preconfirmed and has not posted

bondVars      == <<bond, withdrawalAmount, withdrawalTime>>
sequencedVars == <<vars, lastAdvance, bondVars, signed, waiting>>

\* What is signed is a block's hash: the chain up to the block.
Preconfirmation == [blockHash : Seq(Block), signedAt : Nat]

Number(p) == Len(p.blockHash) - 1
Signed(p) == p.blockHash[Len(p.blockHash)]

\* The hash of the posted block n.
PostedHash(n) == SubSeq(blockHash, 1, n + 1)
-----------------------------------------------------------------------------
SequencedInit == /\ Init
                 /\ lastAdvance = l1Time
                 /\ bond \in 0..MaxBond
                 /\ withdrawalAmount = 0
                 /\ withdrawalTime = 0
                 /\ signed = {}
                 /\ waiting = <<>>

\* Mutant: `lastAdvance` is not updated.
LastAdvanceKept == lastAdvance

\* What `advance` sets `lastAdvance` to.
LastAdvance == l1Time

\* Anyone may post.
TimedOut == l1Time > lastAdvance + SEQUENCER_TIMEOUT

\* `advance`, which reverts as a whole if NativeRollup's does.
SequencedAdvance(bySequencer, b) ==
    /\ bySequencer \/ TimedOut
    /\ lastAdvance' = LastAdvance
    /\ Advance(b, ExpectedVkHash)
    /\ UNCHANGED <<bondVars, signed>>

\* Someone else posts a block, and the node drops its own.
OtherPosts ==
    /\ blockNumber < MaxL2Blocks
    /\ \E timestamp \in 1..l1Time, anchor \in 1..Len(l1Blocks) :
          SequencedAdvance(FALSE, [stateRoot |-> GenesisRoot, timestamp |-> timestamp,
                                   anchor |-> anchor])
    /\ waiting' = <<>>

DepositBond == /\ bond < MaxBond
               /\ bond' = bond + 1
               /\ UNCHANGED <<vars, lastAdvance, withdrawalAmount, withdrawalTime, signed, waiting>>

RequestBondWithdrawal(amount) ==
    /\ withdrawalAmount' = amount
    /\ withdrawalTime' = l1Time
    /\ UNCHANGED <<vars, lastAdvance, bond, signed, waiting>>

\* Mutant: the delay is that of the posting deadline.
WithdrawalDueEarly == withdrawalTime # 0 /\ l1Time >= withdrawalTime + MAX_TIMESTAMP_LAG

WithdrawalDue == withdrawalTime # 0 /\ l1Time >= withdrawalTime + BOND_WITHDRAWAL_DELAY

\* Mutant: the amount requested, though the bond may have been slashed since.
WithdrawnInFull == withdrawalAmount

Withdrawn == IF withdrawalAmount < bond THEN withdrawalAmount ELSE bond

WithdrawBond ==
    /\ WithdrawalDue
    /\ bond' = bond - Withdrawn
    /\ withdrawalAmount' = 0
    /\ withdrawalTime' = 0
    /\ UNCHANGED <<vars, lastAdvance, signed, waiting>>

\* Two signatures for one height.
Equivocation(p, q) == Number(p) = Number(q) /\ p.blockHash # q.blockHash

\* A signature for a block that is not the posted one at its height, as a
\* state root that the rollup still has, or its head, can show.
Divergence(p) ==
    /\ Signed(p).anchor \in 1..Len(l1Blocks)
    /\ Signed(p).anchor + HISTORY_WINDOW > Len(l1Blocks)
    /\ Number(p) <= blockNumber
    /\ \/ Number(p) = blockNumber
       \/ \E n \in (Number(p) + 1)..(Number(p) + HISTORY_WINDOW) : InHistory(n)
    /\ PostedHash(Number(p)) # p.blockHash

\* `slashEquivocation` or `slashDivergence`.
Slash == /\ \/ \E p, q \in signed : Equivocation(p, q)
            \/ \E p \in signed : Divergence(p)
         /\ bond > 0
         /\ bond' = 0
         /\ UNCHANGED <<vars, lastAdvance, withdrawalAmount, withdrawalTime, signed, waiting>>

\* The chains the sequencer could sign a block on: the posted one, or one it
\* signed.
Parents == {blockHash} \cup {p.blockHash : p \in signed}

\* The sequencer signs any block it could know.
SignAnything ==
    /\ Cardinality(signed) < MaxSigned
    /\ \E parent \in Parents, timestamp \in 1..(l1Time + 1), anchor \in 1..Len(l1Blocks) :
          LET b == [stateRoot |-> GenesisRoot, timestamp |-> timestamp, anchor |-> anchor]
          IN /\ Provable(parent, b)
             /\ signed' = signed \cup {[blockHash |-> Append(parent, b), signedAt |-> l1Time]}
    /\ UNCHANGED <<vars, lastAdvance, bondVars, waiting>>

SequencedNext ==
    \/ L1Block /\ UNCHANGED <<lastAdvance, bondVars, signed, waiting>>
    \/ /\ blockNumber < MaxL2Blocks
       /\ \E timestamp \in 1..l1Time, anchor \in 1..Len(l1Blocks) :
             SequencedAdvance(TRUE, [stateRoot |-> GenesisRoot, timestamp |-> timestamp,
                                     anchor |-> anchor])
       /\ UNCHANGED waiting
    \/ OtherPosts
    \/ DepositBond
    \/ \E amount \in 1..MaxBond : RequestBondWithdrawal(amount)
    \/ WithdrawBond
    \/ Slash
    \/ SignAnything

SequencedSpec == SequencedInit /\ [][SequencedNext]_sequencedVars
-----------------------------------------------------------------------------
\* The honest sequencer.

NodeChain == blockHash \o waiting

\* `produce` and `preconfirm`: the next block, stamped now, anchored a few
\* blocks behind the L1 head.
Preconfirm ==
    LET b == [stateRoot |-> GenesisRoot, timestamp |-> l1Time,
              anchor |-> Len(l1Blocks) - ANCHOR_DEPTH]
    IN /\ b.anchor >= 1
       /\ Len(NodeChain) <= MaxL2Blocks
       /\ Provable(NodeChain, b)
       /\ waiting' = Append(waiting, b)
       /\ signed' = signed \cup {[blockHash |-> Append(NodeChain, b), signedAt |-> l1Time]}
       /\ UNCHANGED <<vars, lastAdvance, bondVars>>

\* The oldest waiting block is posted.
Post == /\ waiting # <<>>
        /\ SequencedAdvance(TRUE, Head(waiting))
        /\ waiting' = Tail(waiting)

\* The block can still be posted, at an L1 time and height.
Alive(b, time, height) == /\ b.timestamp + MAX_TIMESTAMP_LAG >= time
                          /\ b.anchor + BLOCKHASH_WINDOW > height

\* L1 moves on, but not past the deadline of a waiting block, which the
\* sequencer posts in time, nor further than MAX_IDLE past its last block.
L1BlockInTime ==
    /\ L1Block
    /\ waiting # <<>> => Alive(Head(waiting), l1Time', Len(l1Blocks'))
    /\ l1Time' <= NodeChain[Len(NodeChain)].timestamp + MAX_IDLE
    /\ UNCHANGED <<lastAdvance, bondVars, signed, waiting>>

HonestNext == L1BlockInTime \/ Preconfirm \/ Post \/ OtherPosts

HonestSpec == SequencedInit /\ [][HonestNext]_sequencedVars
-----------------------------------------------------------------------------
\* Every variable has its type.
SequencedTypeOK == /\ TypeOK
                   /\ lastAdvance \in Nat
                   /\ bond \in Nat /\ withdrawalAmount \in Nat /\ withdrawalTime \in Nat
                   /\ signed \subseteq Preconfirmation
                   /\ waiting \in Seq(Block)

\* The posted chain has a block of that height, or can no longer get this one.
Decided(p) == \/ Number(p) <= blockNumber
              \/ ~Alive(Signed(p), l1Time, Len(l1Blocks))

\* The bond backs what was preconfirmed before its withdrawal was requested
\* until it is known whether it was kept: however the sequencer chooses the
\* timestamps and the anchors, no withdrawal comes before.
BondOutlastsPromises ==
    [][WithdrawBond => \A p \in signed : p.signedAt <= withdrawalTime => Decided(p)]_sequencedVars

\* A sequencer that is never idle for longer than SEQUENCER_TIMEOUT exceeds the
\* posting deadline and that posts in time gives no reason to slash it.
HonestNeverSlashed ==
    /\ \A p \in signed : ~Divergence(p)
    /\ \A p, q \in signed : ~Equivocation(p, q)

\* "Longer than the posting deadline ... so that the sequencer's preconfirmed
\* blocks are posted or dead by then."
PostedOrDeadByTimeout ==
    TimedOut /\ waiting # <<>> => ~Alive(Head(waiting), l1Time, Len(l1Blocks))
=============================================================================
