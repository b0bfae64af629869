---------------------------- MODULE NativeRollup ----------------------------
(***************************************************************************)
(* The rollup contract of NativeRollup.sol as a chain kept on L1: what     *)
(* `advance` accepts, when, and what `stateRootAt` answers afterwards.     *)
(* L1 itself (its blocks, their timestamps, BLOCKHASH and the EIP-8357     *)
(* registry) and the proof system are external: a proof of a block binds   *)
(* its parent, its anchor and its timestamp, which is above the parent's.  *)
(*                                                                         *)
(* A hash is what it commits to: an L1 block hash is the L1 block's        *)
(* number, and `blockHash`, which commits to all ancestors, is the         *)
(* sequence of the L2 blocks from the genesis.                             *)
(***************************************************************************)
EXTENDS Integers, Sequences

CONSTANTS StateRoots,         \* the state roots an L2 block can have
          VkHashes,           \* the EVM verification keys L1 registers
          vkPolicy,           \* "FollowCurrent" or "Pinned"
          pinnedVkHash,
          STATE_ROOT_HISTORY,
          MAX_TIMESTAMP_LAG,
          BLOCKHASH_WINDOW,   \* how many L1 blocks BLOCKHASH reaches back
          SlotTimes,          \* how far apart two L1 blocks can be: missed slots
          GenesisRoot,
          MaxL1Blocks,        \* bound: L1 blocks
          MaxL2Blocks         \* bound: L2 blocks after the genesis

ASSUME RollupAssumption ==
    /\ vkPolicy \in {"FollowCurrent", "Pinned"}
    /\ pinnedVkHash \in VkHashes
    /\ STATE_ROOT_HISTORY \in Nat \ {0}
    /\ MAX_TIMESTAMP_LAG \in Nat
    /\ BLOCKHASH_WINDOW \in Nat \ {0}
    /\ SlotTimes \subseteq Nat \ {0}
    /\ GenesisRoot \in StateRoots
    /\ MaxL1Blocks \in Nat
    /\ MaxL2Blocks \in Nat

VARIABLES l1Blocks,           \* the timestamps of the L1 blocks before the one being built
          l1Time,             \* block.timestamp of the one being built
          currentVkHash,      \* the current entry of the EIP-8357 registry
          blockHash,
          blockNumber,
          anchorBlockNumber,
          stateRootHistory

l1Vars     == <<l1Blocks, l1Time, currentVkHash>>
rollupVars == <<blockHash, blockNumber, anchorBlockNumber, stateRootHistory>>
vars       == <<l1Blocks, l1Time, currentVkHash, blockHash, blockNumber, anchorBlockNumber,
                stateRootHistory>>

Block == [stateRoot : StateRoots, timestamp : Nat, anchor : Nat]
-----------------------------------------------------------------------------
\* `blockhash(number)` is not zero.
Anchorable(number) == /\ number \in 1..Len(l1Blocks)
                      /\ number + BLOCKHASH_WINDOW > Len(l1Blocks)

\* `_anchor` does not revert.
AnchorAllowed(number) == /\ number >= anchorBlockNumber
                         /\ Anchorable(number)

\* Mutant: without "timestamp in the future".
TimestampUnbounded(timestamp) == timestamp + MAX_TIMESTAMP_LAG >= l1Time

\* Mutant: without "timestamp too old".
TimestampUnlagged(timestamp) == timestamp <= l1Time

TimestampAllowed(timestamp) == /\ timestamp <= l1Time
                               /\ timestamp + MAX_TIMESTAMP_LAG >= l1Time

ExpectedVkHash == IF vkPolicy = "FollowCurrent" THEN currentVkHash ELSE pinnedVkHash

\* What a proof that the program accepted the block b after `parent` implies.
Provable(parent, b) == b.timestamp > parent[Len(parent)].timestamp

\* Mutant: one block too many.
InHistoryInclusive(n) == n <= blockNumber /\ blockNumber - n <= STATE_ROOT_HISTORY

\* `stateRootAt`, which reverts outside the ring buffer.
InHistory(n)   == n <= blockNumber /\ blockNumber - n < STATE_ROOT_HISTORY
StateRootAt(n) == stateRootHistory[n % STATE_ROOT_HISTORY]
-----------------------------------------------------------------------------
Genesis == [stateRoot |-> GenesisRoot, timestamp |-> 0, anchor |-> 0]

Init == /\ l1Blocks = <<1>>
        /\ l1Time = 2
        /\ currentVkHash \in VkHashes
        /\ blockHash = <<Genesis>>
        /\ blockNumber = 0
        /\ anchorBlockNumber = 0
        /\ stateRootHistory = [i \in 0..(STATE_ROOT_HISTORY - 1) |->
                                  IF i = 0 THEN GenesisRoot ELSE 0]

\* L1 closes a block; a fork may have changed the registry's current key.
L1Block == /\ Len(l1Blocks) < MaxL1Blocks
           /\ l1Blocks' = Append(l1Blocks, l1Time)
           /\ \E d \in SlotTimes : l1Time' = l1Time + d
           /\ currentVkHash' \in VkHashes
           /\ UNCHANGED rollupVars

\* Mutant: the ring buffer holds the anchor.
AdvanceStoringAnchor(b, vk) ==
    /\ vk = ExpectedVkHash
    /\ TimestampAllowed(b.timestamp)
    /\ AnchorAllowed(b.anchor)
    /\ Provable(blockHash, b)
    /\ blockHash' = Append(blockHash, b)
    /\ blockNumber' = blockNumber + 1
    /\ anchorBlockNumber' = b.anchor
    /\ stateRootHistory' =
          [stateRootHistory EXCEPT ![(blockNumber + 1) % STATE_ROOT_HISTORY] = b.anchor]
    /\ UNCHANGED l1Vars

\* `advance` with block b and a proof under key vk: the proof's public output
\* binds the parent the contract has, the number after it, and the anchor.
Advance(b, vk) ==
    /\ vk = ExpectedVkHash
    /\ TimestampAllowed(b.timestamp)
    /\ AnchorAllowed(b.anchor)
    /\ Provable(blockHash, b)
    /\ blockHash' = Append(blockHash, b)
    /\ blockNumber' = blockNumber + 1
    /\ anchorBlockNumber' = b.anchor
    /\ stateRootHistory' =
          [stateRootHistory EXCEPT ![(blockNumber + 1) % STATE_ROOT_HISTORY] = b.stateRoot]
    /\ UNCHANGED l1Vars

Next == \/ L1Block
        \/ /\ blockNumber < MaxL2Blocks
           /\ \E stateRoot \in StateRoots, timestamp \in 1..(l1Time + 1), anchor \in 1..Len(l1Blocks),
                 vk \in VkHashes :
                 Advance([stateRoot |-> stateRoot, timestamp |-> timestamp, anchor |-> anchor], vk)

Spec == Init /\ [][Next]_vars
-----------------------------------------------------------------------------
\* Every variable has its type.
TypeOK == /\ l1Blocks \in Seq(Nat) /\ Len(l1Blocks) > 0
          /\ l1Time \in Nat
          /\ currentVkHash \in VkHashes
          /\ blockHash \in Seq(Block) /\ Len(blockHash) > 0
          /\ blockNumber \in Nat
          /\ anchorBlockNumber \in Nat
          /\ stateRootHistory \in [0..(STATE_ROOT_HISTORY - 1) -> StateRoots \cup {0}]

\* The contract's number, anchor and times fit the chain its hash commits to:
\* what the next property needs to be inductive.
HeadConsistent ==
    /\ blockNumber = Len(blockHash) - 1
    /\ anchorBlockNumber = blockHash[Len(blockHash)].anchor
    /\ anchorBlockNumber <= Len(l1Blocks)
    /\ blockHash[Len(blockHash)].timestamp <= l1Time
    /\ \A k \in 1..Len(l1Blocks) : l1Blocks[k] < l1Time

\* `stateRootAt` answers for the last STATE_ROOT_HISTORY blocks and no others,
\* and always with the root of the block asked for: the ring buffer never
\* returns what an older block left in the slot.
HistoryExact ==
    \A n \in 0..blockNumber :
        InHistory(n) => StateRootAt(n) = blockHash[n + 1].stateRoot

\* Whatever was posted, the rollup takes another block at the latest when L1
\* time moves on: no choice of timestamp or anchor halts it.
NeverHalts ==
    /\ Provable(blockHash, [stateRoot |-> GenesisRoot, timestamp |-> l1Time + 1, anchor |-> 0])
    /\ \E number \in 1..Len(l1Blocks) : AnchorAllowed(number)

\* Along the L2 chain timestamps rise and anchors, which are L1 blocks, do not
\* fall.  L2 time is never more than MAX_TIMESTAMP_LAG behind the L1 block whose
\* state the L2 block can prove messages against, though it may be behind it.
ChainFollowsL1 ==
    \A i \in 2..Len(blockHash) :
        /\ blockHash[i - 1].timestamp < blockHash[i].timestamp
        /\ blockHash[i - 1].anchor <= blockHash[i].anchor
        /\ blockHash[i].anchor \in 1..Len(l1Blocks)
        /\ blockHash[i].timestamp + MAX_TIMESTAMP_LAG > l1Blocks[blockHash[i].anchor]
=============================================================================
