----------------------------- MODULE Messaging -----------------------------
(***************************************************************************)
(* The messages between L1 and L2 in both directions, and the ETH they     *)
(* move: NativeRollup.sol and L2Messenger.sol together.  L1 messages reach *)
(* L2 through the anchor of an L2 block, an L1 block whose state holds the *)
(* root of the message tree; L2 messages reach L1 through the state root   *)
(* of a posted block.  L2 blocks are built ahead and posted later, or      *)
(* dropped.  A claim is one step here: MessageDelivery opens it up.        *)
(*                                                                         *)
(* A hash or a root is what it commits to: the message tree's root is the  *)
(* sequence of its messages, a state root the L2 state.  A message is what *)
(* it moves; an L2 block's timestamp is its number.                        *)
(***************************************************************************)
EXTENDS Integers, Sequences, FiniteSets, FiniteSetsExt, SequencesExt

CONSTANTS Messages,           \* what a message moves: a value, and a fee for its claimer
          PREMINT,            \* the gas token the messenger holds in the L2 genesis
          STATE_ROOT_HISTORY,
          BLOCKHASH_WINDOW,
          MaxSent,            \* bound: messages in each direction
          MaxL1Blocks,        \* bound: L1 blocks
          MaxL2Blocks         \* bound: L2 blocks posted

ASSUME MessagingAssumption ==
    /\ Messages \subseteq [value : Nat, fee : Nat]
    /\ PREMINT \in Nat
    /\ STATE_ROOT_HISTORY \in Nat \ {0}
    /\ BLOCKHASH_WINDOW \in Nat \ {0}
    /\ {MaxSent, MaxL1Blocks, MaxL2Blocks} \subseteq Nat

VARIABLES l1Messages,    \* the rollup contract's message tree
          l1Roots,       \* its root after each L1 block
          escrow,        \* the rollup contract's balance
          claimedOnL1,   \* claimedL2MessageBits
          blocks,        \* the L2 states posted, from the genesis
          l2,            \* the state of the L2 block being built, or else the newest
          building       \* whether an L2 block is being built

vars == <<l1Messages, l1Roots, escrow, claimedOnL1, blocks, l2, building>>
l1Vars == <<l1Messages, l1Roots, escrow, claimedOnL1>>

\* The L2 state that messages touch: the messenger's storage and balance, the
\* anchors the beacon roots contract keeps, and what all accounts hold.
L2State == [sentMessages : Seq(Messages), claimed : SUBSET Nat,
            provenAnchor : Nat, provenL1MessageRoot : Seq(Messages),
            supply : Nat, held : Nat, anchors : Seq(Nat)]

\* Mutant: the fee taken twice, once from what is sent and once from it.
AmountLessFee(m) == m.value - m.fee

\* What a message moves: `sendMessage` takes the fee out of the value sent.
Amount(m)         == m.value + m.fee
Amounts(queue, S) == SumFunctionOnSet([i \in S |-> Amount(queue[i])], S)

blockNumber == Len(blocks) - 1
Posted      == blocks[Len(blocks)]

AnchorOf(state) == IF state.anchors = <<>> THEN 0 ELSE Last(state.anchors)

InHistory(n) == n \in 0..blockNumber /\ blockNumber - n < STATE_ROOT_HISTORY
-----------------------------------------------------------------------------
Genesis == [sentMessages |-> <<>>, claimed |-> {}, provenAnchor |-> 0,
            provenL1MessageRoot |-> <<>>, supply |-> PREMINT, held |-> 0, anchors |-> <<>>]

Init == /\ l1Messages = <<>>
        /\ l1Roots = << <<>> >>
        /\ escrow = 0
        /\ claimedOnL1 = {}
        /\ blocks = <<Genesis>>
        /\ l2 = Genesis
        /\ building = FALSE

\* L1.

\* `NativeRollup.sendMessage`.
L1SendMessage(m) == /\ l1Messages' = Append(l1Messages, m)
                    /\ escrow' = escrow + Amount(m)
                    /\ UNCHANGED <<l1Roots, claimedOnL1, blocks, l2, building>>

L1Block == /\ l1Roots' = Append(l1Roots, l1Messages)
           /\ UNCHANGED <<l1Messages, escrow, claimedOnL1, blocks, l2, building>>

\* Mutant: against the block being built rather than a posted one.
ProvableStatesUnposted == {l2}

\* The states that `claimL2Message` takes proofs against.
ProvableStates == {blocks[n + 1] : n \in {k \in 0..blockNumber : InHistory(k)}}

\* `claimL2Message`.
ClaimL2Message(i) ==
    /\ i \notin claimedOnL1
    /\ \E state \in ProvableStates :
          /\ i \in DOMAIN state.sentMessages
          /\ escrow >= Amount(state.sentMessages[i])
          /\ escrow' = escrow - Amount(state.sentMessages[i])
    /\ claimedOnL1' = claimedOnL1 \cup {i}
    /\ UNCHANGED <<l1Messages, l1Roots, blocks, l2, building>>

\* L2, in the block being built.

\* The builder picks the anchor, which the beacon roots contract stores.
StartBlock(anchor) == /\ ~building
                      /\ building' = TRUE
                      /\ l2' = [l2 EXCEPT !.anchors = Append(@, anchor)]
                      /\ UNCHANGED <<l1Vars, blocks>>

\* Mutant: any anchor the chain ever had.
NewAnchorAny(n) == n \in DOMAIN l2.anchors

\* `proveL1MessageRoot` accepts the anchor of L2 block n.
NewAnchor(n) == n \in DOMAIN l2.anchors /\ n >= l2.provenAnchor

\* `proveL1MessageRoot`, with the anchor of L2 block n.
ProveL1MessageRoot(n) == /\ building
                         /\ NewAnchor(n)
                         /\ l2' = [l2 EXCEPT !.provenAnchor = n,
                                             !.provenL1MessageRoot = l1Roots[l2.anchors[n]]]
                         /\ UNCHANGED <<l1Vars, blocks, building>>

\* Mutant: without the claimed flag.
ClaimL1MessageAgain(i) ==
    /\ building
    /\ i \in DOMAIN l2.provenL1MessageRoot
    /\ LET amount == Amount(l2.provenL1MessageRoot[i])
       IN /\ l2.supply >= amount
          /\ l2' = [l2 EXCEPT !.claimed = @ \cup {i}, !.supply = @ - amount, !.held = @ + amount]
    /\ UNCHANGED <<l1Vars, blocks, building>>

\* `claimL1Message`, with a path to the proven root.
ClaimL1Message(i) ==
    /\ building
    /\ i \in DOMAIN l2.provenL1MessageRoot
    /\ i \notin l2.claimed
    /\ LET amount == Amount(l2.provenL1MessageRoot[i])
       IN /\ l2.supply >= amount
          /\ l2' = [l2 EXCEPT !.claimed = @ \cup {i}, !.supply = @ - amount, !.held = @ + amount]
    /\ UNCHANGED <<l1Vars, blocks, building>>

\* Mutant: the fee is not taken from the sender.
LockedValueOnly(m) == m.value

\* What a sender pays the messenger: `msg.value`, of which `fee` is a part.
Locked(m) == Amount(m)

\* `L2Messenger.sendMessage`.
L2SendMessage(m) ==
    /\ building
    /\ l2.held >= Locked(m)
    /\ l2' = [l2 EXCEPT !.sentMessages = Append(@, m),
                        !.supply = @ + Locked(m), !.held = @ - Locked(m)]
    /\ UNCHANGED <<l1Vars, blocks, building>>

\* What L2 transactions pay as base fee is burned.
BurnBaseFee == /\ building
               /\ l2.held > 0
               /\ l2' = [l2 EXCEPT !.held = @ - 1]
               /\ UNCHANGED <<l1Vars, blocks, building>>

\* Mutant: the anchor may move backwards.
AnchorInWindow(anchor) == anchor + BLOCKHASH_WINDOW > Len(l1Roots)

\* `_anchor` does not revert.
AnchorAllowed(anchor) == /\ anchor >= AnchorOf(Posted)
                         /\ anchor + BLOCKHASH_WINDOW > Len(l1Roots)

\* `advance`: the block is posted.
Advance == /\ building
           /\ AnchorAllowed(AnchorOf(l2))
           /\ blocks' = Append(blocks, l2)
           /\ building' = FALSE
           /\ UNCHANGED <<l1Vars, l2>>

\* The block never reaches L1, and the next is built on what did.
Drop == /\ building
        /\ building' = FALSE
        /\ l2' = Posted
        /\ UNCHANGED <<l1Vars, blocks>>

Next == \/ /\ Len(l1Messages) < MaxSent
           /\ \E m \in Messages : L1SendMessage(m)
        \/ Len(l1Roots) < MaxL1Blocks /\ L1Block
        \/ \E i \in 1..MaxSent : ClaimL2Message(i)
        \/ /\ blockNumber < MaxL2Blocks
           /\ \E anchor \in DOMAIN l1Roots : StartBlock(anchor)
        \/ \E n \in 1..(MaxL2Blocks + 1) : ProveL1MessageRoot(n)
        \/ \E i \in 1..MaxSent : ClaimL1Message(i)
        \/ /\ Len(l2.sentMessages) < MaxSent
           /\ \E m \in Messages : L2SendMessage(m)
        \/ BurnBaseFee
        \/ Advance
        \/ Drop

Spec == Init /\ [][Next]_vars
-----------------------------------------------------------------------------
\* Every variable has its type.
TypeOK == /\ l1Messages \in Seq(Messages)
          /\ l1Roots \in Seq(Seq(Messages))
          /\ escrow \in Nat
          /\ claimedOnL1 \subseteq Nat
          /\ blocks \in Seq(L2State) /\ blocks # <<>>
          /\ l2 \in L2State
          /\ building \in BOOLEAN

\* The escrow covers all that it may ever have to pay: the messages on their
\* way in either direction and what the accounts on L2 hold, if the block
\* being built is posted and also if it is dropped.
Solvent ==
    \A state \in {l2, Posted} :
        escrow >= Amounts(l1Messages, DOMAIN l1Messages \ state.claimed) + state.held
                    + Amounts(state.sentMessages, DOMAIN state.sentMessages \ claimedOnL1)

\* "The root only moves forward": a message that a posted block could prove
\* stays provable in every later one, so no L1 message is lost.
RootMovesForward ==
    \A i, j \in DOMAIN blocks :
        i <= j => IsPrefix(blocks[i].provenL1MessageRoot, blocks[j].provenL1MessageRoot)

\* No block claims a message that the L1 state it is anchored to does not
\* hold, and L1 paid no message that the posted chain did not send.
OnlySentIsClaimed ==
    /\ \A b \in Range(blocks) : \A i \in b.claimed :
          i <= Len(l1Roots[AnchorOf(b)]) /\ IsPrefix(l1Roots[AnchorOf(b)], l1Messages)
    /\ claimedOnL1 \subseteq DOMAIN Posted.sentMessages

\* Both messengers and the rollup implement the peg.
Peg == INSTANCE TwoWayPeg WITH down <- l1Messages, downClaimed <- Posted.claimed,
                               up <- Posted.sentMessages, upClaimed <- claimedOnL1,
                               held <- Posted.held

ImplementsPeg == Peg!Spec
=============================================================================
