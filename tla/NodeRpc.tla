------------------------------- MODULE NodeRpc -------------------------------
(***************************************************************************)
(* What the L2 node's RPC answers from (l2_node.py): the recent blocks it  *)
(* holds in memory, the first of them with logs, the logs of every L2 to   *)
(* L1 message, and the index of transactions; how snapshots prune them,    *)
(* and what is left of them when the node starts from a snapshot.          *)
(*                                                                         *)
(* Each block has one transaction, which may send a message to L1.  That   *)
(* the state file has the chain is L2Node's matter, so `stored` is the     *)
(* chain the node has on disk.                                             *)
(***************************************************************************)
EXTENDS Integers, SequencesExt

CONSTANTS
    KEEP_BLOCKS,       \* the blocks a snapshot leaves in memory
    SnapshotEvery,     \* SNAPSHOT_INTERVAL
    HEADERS,           \* the headers a snapshot has, 255 in the code
    MaxWaiting,        \* preconfirmed blocks before they expire
    MaxStored,         \* bound: the chain's length
    MaxExits           \* bound: the node's exits

ASSUME NodeRpcAssumption ==
    /\ {KEEP_BLOCKS, SnapshotEvery, HEADERS} \subseteq Nat \ {0}
    /\ HEADERS < KEEP_BLOCKS
    /\ MaxWaiting \in 1..(KEEP_BLOCKS - 1)
    /\ {MaxStored, MaxExits} \subseteq Nat

VARIABLES
    stored,    \* the chain after the genesis
    onL1,      \* the number of its blocks that are posted
    snapshots, \* the latest two, on disk
    memory,    \* what the RPC answers from
    serving,   \* whether the node runs
    exits
rpcVars == <<stored, onL1, snapshots, memory, serving, exits>>

\* Transactions a user sends again after a block was dropped have the hash
\* they had.
StoredBlocks == [sends : BOOLEAN, after : 0..MaxExits]
TxHash(n, b) == [number |-> n, sends |-> b.sends]
Log(n, b) == [block |-> n, of |-> b]

\* The messages that block `n` sends.
LogsOf(n, b) == IF b.sends THEN <<Log(n, b)>> ELSE <<>>

\* Of the messages, those of blocks `from` to `to`.
Within(messages, from, to) ==
    FoldLeft(LAMBDA r, l : IF l.block \in from..to THEN Append(r, l) ELSE r, <<>>, messages)

NodeRpcTypeOK ==
    /\ stored \in Seq(StoredBlocks)
    /\ onL1 \in 0..Len(stored)
    /\ Len(snapshots) <= 2
    /\ \A i \in DOMAIN snapshots : snapshots[i].number \in 1..onL1
    /\ memory.logsFrom \in 0..(MaxStored + 1)
    /\ \A i \in DOMAIN memory.messages : memory.messages[i].block \in 1..MaxStored
    /\ serving \in BOOLEAN /\ exits \in 0..MaxExits

-----------------------------------------------------------------------------
(* Memory *)

\* Node.__init__'s, before it indexes a block.
EmptyMemory == [first |-> 0, blocks |-> <<>>, logsFrom |-> 0, messages |-> <<>>, transactions |-> {}]

\* index: the block, its transaction with its logs, and its messages.  A
\* block known by its header only, or the genesis, has no transaction.
IndexHeader(m) == [m EXCEPT !.blocks = Append(@, <<>>)]
Index(m, n, b) ==
    [m EXCEPT
        !.blocks = Append(@, <<[hash |-> TxHash(n, b), logs |-> LogsOf(n, b)]>>),
        !.messages = @ \o LogsOf(n, b),
        !.transactions = {t \in @ : t.hash # TxHash(n, b)} \cup {[hash |-> TxHash(n, b), number |-> n]}]

\* The memory after the chain's blocks above `from`, which are replayed.
Replayed(blocks, start, from) ==
    FoldLeft(LAMBDA m, k : Index(m, k, blocks[k]), start, [k \in 1..(Len(blocks) - from) |-> from + k])

\* Mutant: pruned blocks stay those with logs.
KeepsLogsFrom(m, drop) ==
    [m EXCEPT
        !.blocks = SubSeq(@, drop + 1, Len(@)),
        !.transactions = {t \in @ : \A i \in 1..drop : \A e \in ToSet(m.blocks[i]) : e.hash # t.hash},
        !.first = @ + drop]

\* The oldest blocks leave the memory, their transactions with them.
Prune(m, drop) ==
    [m EXCEPT
        !.blocks = SubSeq(@, drop + 1, Len(@)),
        !.transactions = {t \in @ : \A i \in 1..drop : \A e \in ToSet(m.blocks[i]) : e.hash # t.hash},
        !.first = @ + drop,
        !.logsFrom = Max({@, m.first + drop})]

\* snapshot, of the chain posted up to block `n`: the headers it can reach
\* and the messages, with the one before it.
TakeSnapshot(n) ==
    LET s == [number |-> n,
              first |-> Max({memory.first, n - HEADERS + 1}),
              messages |-> Within(memory.messages, 0, n)]
        all == Append(snapshots, s)
    IN /\ snapshots' = SubSeq(all, Max({1, Len(all) - 1}), Len(all))
       /\ memory' = Prune(memory, Max({0, Len(memory.blocks) - KEEP_BLOCKS}))

\* load_snapshot: its headers, its messages, and logs from the block after.
LoadSnapshot(s) ==
    [FoldLeft(LAMBDA m, k : IndexHeader(m), [EmptyMemory EXCEPT !.first = s.first], [k \in 1..(s.number - s.first + 1) |-> k])
        EXCEPT !.messages = s.messages, !.logsFrom = s.number + 1]

-----------------------------------------------------------------------------
(* The node *)

\* A block is added: preconfirmed, or derived from L1 when all is posted.
AddBlock ==
    /\ serving /\ Len(stored) < MaxStored
    /\ \E sends \in BOOLEAN :
         LET b == [sends |-> sends, after |-> exits]
         IN stored' = Append(stored, b) /\ memory' = Index(memory, Len(stored'), b)
    /\ \/ Len(stored) - onL1 < MaxWaiting /\ UNCHANGED onL1
       \/ onL1 = Len(stored) /\ onL1' = Len(stored')
    /\ UNCHANGED <<snapshots, serving, exits>>

\* mark_posted, for one block: it takes a snapshot at each interval.
Posted ==
    /\ serving /\ onL1 < Len(stored)
    /\ onL1' = onL1 + 1
    /\ IF onL1' % SnapshotEvery = 0 THEN TakeSnapshot(onL1') ELSE UNCHANGED <<snapshots, memory>>
    /\ UNCHANGED <<stored, serving, exits>>

\* The process ends: it crashed, gave up its preconfirmed blocks, or found
\* that L1 lost blocks.
Exit ==
    /\ serving /\ exits < MaxExits
    /\ serving' = FALSE /\ exits' = exits + 1
    /\ memory' = EmptyMemory
    /\ \/ UNCHANGED stored
       \/ stored' = SubSeq(stored, 1, onL1)
    /\ UNCHANGED <<onL1, snapshots>>

\* Mutant: the snapshots of lost blocks stay.
KeepsAllSnapshots(n) == snapshots

\* What the node starts from when L1 has `n` of the blocks it had: unpost
\* drops the other blocks, and the snapshots that hold them; without one
\* left the node does not start.
KeptSnapshots(n) == FoldLeft(LAMBDA r, s : IF s.number <= n THEN Append(r, s) ELSE r, <<>>, snapshots)

\* Node.__init__: from the latest snapshot, then replays the blocks after.
StartServing ==
    /\ ~serving
    /\ \E n \in 0..onL1 :
         LET kept == KeptSnapshots(n)
             from == IF kept = <<>> THEN 0 ELSE Last(kept).number
             start == IF kept = <<>> THEN IndexHeader(EmptyMemory) ELSE LoadSnapshot(Last(kept))
         IN /\ snapshots # <<>> => kept # <<>>
            /\ snapshots' = kept
            /\ stored' = IF n = onL1 THEN stored ELSE SubSeq(stored, 1, n)
            /\ onL1' = n
            /\ memory' = Replayed(stored', start, from)
    /\ serving' = TRUE
    /\ UNCHANGED exits

NodeRpcInit ==
    /\ stored = <<>> /\ onL1 = 0 /\ snapshots = <<>>
    /\ memory = IndexHeader(EmptyMemory)
    /\ serving = TRUE /\ exits = 0

NodeRpcNext == AddBlock \/ Posted \/ Exit \/ StartServing

-----------------------------------------------------------------------------
(* What it answers *)

\* block_by_number, as a sequence of transactions.
BlockByNumber(n) == memory.blocks[n - memory.first + 1]
Has(n) == n - memory.first + 1 \in DOMAIN memory.blocks

\* block_receipts, and the one that the index names for a transaction, which
\* is the first of its block.
BlockReceipts(n) == BlockByNumber(n)
TransactionReceipt(t) == BlockReceipts(t.number)[1]

\* eth_getLogs: of the blocks before logsFrom, only the messages.
GetLogs(from, to) ==
    LET start == Max({from, memory.logsFrom})
        recent == SubSeq(memory.blocks, Max({0, start - memory.first}) + 1, Max({0, to - memory.first + 1}))
        older == Within(memory.messages, from, Min({memory.logsFrom, to + 1}) - 1)
    IN older \o FlattenSeq([i \in DOMAIN recent |-> FlattenSeq([j \in DOMAIN recent[i] |-> recent[i][j].logs])])

\* What the chain's block `n` sent; the genesis sent nothing.
SentIn(blocks, n) == IF n = 0 THEN <<>> ELSE LogsOf(n, blocks[n])

\* Any range of blocks answers with each message the chain sent in it, once
\* and in order, however much was pruned, and whichever snapshot the node
\* last started from; and each transaction the node knows is in the block,
\* still in memory, that the chain has it in.
AnswersAreTheChains ==
    serving =>
        /\ \A from \in 0..Len(stored) : \A to \in from..Len(stored) :
              GetLogs(from, to) = FlattenSeq([k \in 1..(to - from + 1) |-> SentIn(stored, from + k - 1)])
        /\ \A t \in memory.transactions :
              /\ Has(t.number) /\ TxHash(t.number, stored[t.number]) = t.hash
              /\ BlockReceipts(t.number) # <<>> /\ TransactionReceipt(t).hash = t.hash
        /\ Has(Len(stored)) /\ Has(onL1)
==============================================================================
