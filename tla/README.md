# Native rollup: a verification project

TLA+ models of the native rollup of this repository: the rollup and messaging
contracts, the forced transaction inbox, the sequencer's bond, the node that
builds L2 blocks, and the processes around them: the operator that posts the
blocks, the follower with its explorer, the claimers of both directions, and the
runner that keeps all of them going. TLC checks each module on small instances;
TLAPS proves what matters most of the contracts, of the node and of the processes
around them for every value of the constants.

## The system

| Part | State | Operations | What is hard | What makes it correct |
|---|---|---|---|---|
| Forced inbox, `ForcedInboxValidated.sol` | one entry per sender; a doubly linked list by fee; a counter | `add`, `prune`, `settle`, `currentIL` | proofs against old states, eviction, unlinking during a walk, validity inferred from room left in a block | nothing is stuck, nothing is removed without cause, the list is the queue |
| Rollup contract, `NativeRollup.sol` | head, anchor, ring buffer of state roots, message tree, claimed flags, escrow | `advance`, `sendMessage`, `claimL2Message`, `stateRootAt` | timestamps and anchors chosen by the builder, missed slots, key changes, ring buffer limits | exact history, no halt, L2 time follows L1 |
| Sequenced rollup, `SequencedNativeRollup.sol` | bond, pending withdrawal, `lastAdvance` | `advance`, deposit, request, withdraw, two slashings | timeouts that race, withdrawals armed in advance | a bond that outlasts what it backs; no slashing without fault |
| Messaging, `Messages.sol`, `L2Messenger.sol` | queue, claimed flags, proven root, the current sender | send, prove root, claim | reentrancy, failing calls, dropped L2 blocks, anchors | each message once, paid once, escrow solvent, the root only moves forward |
| Message tree, `MessageTree.sol` | root, count, one node per level | insert, root from path | incremental insertion at powers of two | the root is that of the leaves |
| L2 node, `l2_node.py` | stored posted and preconfirmed blocks, preconfirmations, snapshots; the chain, diffs and posted state in memory | preconfirm, mark posted, catch up, drop, restart | RPC threads and the `follow` thread, crashes between steps, L1 reorgs | what it reports as posted is on L1; no block or evidence is lost |
| its pool | transactions in order of arrival; `repool` on disk | `eth_sendRawTransaction`, the choice of a block's transactions, `offer` at a start | claims that depend on the head, nonces out of order, dropped blocks | one claim of a message on its way; what is ready gets in |
| its RPC | recent blocks, logs, messages, an index of transactions | index, prune, start from a snapshot, `eth_getLogs`, receipts | blocks of which only the header is left | answers are the chain's |
| Operator, `frames_operator.py` | posts in flight, those offered again | two threads: produce; read receipts and nonces, fetch, send; claim a withdrawal | nonces read one after the other, clients that refuse, restarts, reorgs | each block is posted once, in order, and all of them get there |
| Follower, `l2_follower.py`, `explorer.py` | the rebuilt chain, a database with snapshots | start, poll, rebuild, index, rewind | a commit per block, lost L1 blocks, stops anywhere | the database is what L1 tells |
| Claimers of L1 messages, `l2_claims.py` | a file with messages and claimed bits | a run: messages, bits, root, claims, save | rollbacks of L1 and L2 between and during runs | no message is passed over |
| Claimers of L2 messages, `runner.py` | what an episode knows as claimed | list, check, prove, send, receipt | two threads and anyone else, reverted claims, lost L1 blocks | what it knows as claimed is |
| Runner, `runner.py` | session, prover key, block files, place in the operator's log | deploy, resume, start, file reports, end an episode | a stop between any two files written, a restart with or without `--new`, logrotate at any time, threads of ended episodes, a new devnet | one rollup at a time, no report filed twice or lost; where that fails is known |

How they interact: users call the two messengers and the inbox on either chain.
The operator asks the node for a block (`nr_preconfirm`), anchored a few blocks
behind the L1 head; the node builds it, signs it and keeps it; the operator
posts it with `advance`, whose proof binds the parent, the number, the anchor and
the state root. A message from L1 reaches L2 through the anchor, an L1 block
whose state holds the message tree's root, which `proveL1MessageRoot` copies into
L2; a message from L2 reaches L1 through a posted state root. The inbox reads
the rollup's number and state roots, and the rollup calls `settle` after a proof
that the inclusion list was satisfied. The node follows the rollup's head to
learn which blocks L1 has. The follower rebuilds the same chain from L1's events
and blobs alone. The runner starts the node and the operator, reads what the
operator reports from its log, and claims withdrawals with the node's proofs.

## Modules

| Module | Models | Extends | Checked by |
|---|---|---|---|
| `ForcedQueue` | what the inbox promises: an ordered queue without pointers | | `MCForcedQueue` |
| `ForcedInbox` | the inbox as the contract keeps it | `ForcedQueue`, which it implements | `MCForcedInbox` |
| `ForcedInboxProofs` | theorems of `ForcedQueue`; the inbox implements the queue | `ForcedInbox` | TLAPS |
| `InductionLemmas` | induction over numbers and finite sets; sums, sequences and folds | | TLAPS |
| `NativeRollup` | `advance` and `stateRootAt` | | `MCNativeRollup` |
| `SequencedRollup` | the bond, the timeout and both slashings | `NativeRollup` | `MCSequencedRollup`, three configurations |
| `SequencedRollupProofs` | theorems of `NativeRollup`; the bond outlasts its promises; an honest sequencer is never slashed | `SequencedRollup` | TLAPS |
| `MessageDelivery` | one end of the messaging, its calls opened up | | `MCMessageDelivery` |
| `MessageDeliveryProofs` | theorems of `MessageDelivery` | `MessageDelivery` | TLAPS |
| `TwoWayPeg` | what both messengers promise together | | as a property |
| `Messaging` | both messengers and the rollup, two-way | implements `TwoWayPeg` | `MCMessaging` |
| `MessagingProofs` | theorems of `Messaging` | `Messaging` | TLAPS |
| `L2Node` | the node's memory and state file, its follower, crashes and restarts | | `MCL2Node`, three configurations |
| `L2NodeProofs` | theorems of `L2Node` | `L2Node` | TLAPS |
| `Mempool` | the node's pool of transactions | | `MCDemo` |
| `NodeRpc` | what the node's RPC answers from | | `MCDemo` |
| `Posting` | the operator's posting loop, L1's pools | | `MCDemo` |
| `Follower` | the follower and the explorer's database | | `MCDemo` |
| `Claims` | the claimer of L1 to L2 messages and its file | | `MCDemo` |
| `Withdrawals` | the claimers of L2 to L1 messages | | `MCDemo` |
| `Runner` | the demo's runner | | `MCDemo` |
| `Demo` | the seven modules above, one run for all | all seven | `MCDemo` |
| `PoolFollowerClaimsProofs` | the invariants of the pool, the follower and the claims | `Mempool`, `Follower`, `Claims` | TLAPS |
| `DemoProofs` | theorems of the seven parts | `Demo`, `PoolFollowerClaimsProofs` | TLAPS |

Definitions keep the source's names. PROJECT.json's "map" gives the lines each
definition stands for. An operator whose comment begins with "Mutant" is a wrong
version of the definition after it: with it in place, TLC finds the property it
is listed with violated, so the property does depend on the code it is about.

Abstractions used throughout: a hash or a root is what it commits to (a block's
hash is the chain up to it, the message tree's root is the sequence of messages,
a state root the state), a proof against a root is a look into what it commits
to, a signature is the fact that it was given. What is not in the repository is
modelled from how the code uses it, and is marked external in the map: L1's
blocks and key registry, the proof system, the execution of L2 transactions,
FOCIL's check of an inclusion list, and the code of apps.

### ForcedQueue and ForcedInbox

`ForcedQueue` keeps `entry`, and `older`, the order of submission, from which the
fee order follows (`Ahead`). `add` is three actions, one per branch: `Replace`,
`Enqueue`, `Outbid`. `Prune` is `prune`. `Advance` is a block of the rollup and
its call to `settle`: the block's body, base fee and gas are any that satisfy
the inclusion list as `settle`'s comments say FOCIL checks it, and the rollup
may prove the inclusion of any part of the listed transactions that are in it.
An account can lose balance only after it sent something (`Spendable`).

`ForcedInbox` adds the pointers and the counter, and walks them as the loops of
`_insertSorted`, `settle` and `currentIL` do: the successor is read before an
entry is unlinked, and both walks share the stopping rule (`Listable`). Its
specification implies `ForcedQueue`'s (`ImplementsQueue`).

The contract's `IRollup` says both of its getters exist on `NativeRollup`, which
has `stateRootAt` in place of the `stateRootHistory` getter: the inbox is modelled
against the interface it declares.

### NativeRollup

`Advance(b, vk)` is `advance`: key, timestamp, anchor, then the update of head and
ring buffer. What the proof implies is one fact, that the timestamp is above the
parent's (`Provable`), as the comment in `advance` says. `L1Block` closes an L1 block
and may change the registry's key; slots may be missed (`SlotTimes`).

### SequencedRollup

Two next-state relations over the same contract. `SequencedNext`: the sequencer
signs any block on any chain it could know, and posts anything. `HonestNext`: it
runs the operator, one block after another on its own chain (`Preconfirm`), posted
in order (`Post`) and in time (`L1BlockInTime`), while anyone posts when the
contract lets them (`OtherPosts`). `Slash` is enabled by either evidence. A
preconfirmation is the block's hash, that is, the chain up to the block.

### MessageDelivery

`claimL2Message` and `claimL1Message` share `Messages.deliver` and differ only in
names, so one module stands for both. A claim is opened up into its calls:
`Claim` ends with the call of the recipient, `PayFee` with the call of the fee
recipient, `Finish` clears the sender. In between, whoever was called does
anything: claims, sends, calls others, returns or fails. `stack` holds each
call in progress with the state that its failure restores.

### Messaging and TwoWayPeg

`Messaging` puts both ends together with the posting of L2 blocks. `l2` is the
state of the block being built, `blocks` what was posted; `Drop` is a block that
never reaches L1. ETH is counted: `escrow` on L1, `supply` in the L2 messenger,
`held` by L2 accounts; base fees are burned. `TwoWayPeg` knows only what each
message moves and that it is claimed once, and takes a posted block as one step.

### L2Node

`disk` is the state file (`blocks`, `preconfirmed`, the numbers of the `snapshots`)
with the snapshots' `files`, which are written and removed before the list is saved,
`node` the memory (`chain`, `posted`, `postedState`) or `Down`, `rollup` the rollup
contract's chain. The RPC handlers and each round of `follow` hold the node's lock,
so each is one step: `Preconfirm`, `OperatorPosts` (`nr_waitingPosts`, which marks
blocks posted) and the branches of `follow` (`ExitOnLoss`, `FollowHead`,
`DropExpired`, `DropConflicting`, `CatchUp`). The head that `follow` acts on is
read before it takes the lock (`ReadHead`, `read`), and the operator's may be any
that the contract ever had. The node may crash anywhere, and between two saves of
one step: after a stored block and before its preconfirmation is returned, after
a posted block and before its snapshot, after the snapshot's file is written or the
oldest one removed, when `unpost` removed files, after each derived block. `Restart`
is `__init__`: `unpost` if L1 answers and has fewer blocks, the last snapshot, without
whose file the node does not start, the stored blocks replayed (`Replay` executes a
block on whatever comes before it). On L1 a post may land at any time, also after the node dropped its block, and
blocks may be lost. A block's hash is the sequence of the blocks up to it, and
stands for the state after it too.

Two more next-state relations add what may fail in a running node: `SigningMayFail`
and `BlobsMayFail`. The pool and the RPC's window have modules of their own. Left
out: file writes that fail.

### Demo and the processes around the rollup

Each of the next seven modules is one process with what it sees of the others:
the operator sees an L1 and a node's head, the claimer two chains, the runner
processes that stop. They share nothing, so `Demo` does not interleave them:
`part` says which one a behaviour runs, and the others stay as they began. The
states of the parts add up instead of multiplying, and one configuration checks
all of them.

### Mempool

`SendRawTransaction` is `eth_sendRawTransaction` with its checks (`Accepts`): nonce,
one claim per message, a payer, a claim that succeeds on the head. `Candidates` is
the order a block tries, `Execute` the block, `Waits` and `Left` what stays after it.
`DeriveBlock` is a block of `catch_up`, `DropPreconfirmed` the exit that writes
`repool`, `Start` with `Unpost` the restart that offers those transactions again.
A transaction costs one unit, and a claim pays one to its recipient: enough for
an account that can pay only with the message it claims. Two limits follow from
the code and show in the properties: transactions that wait for a nonce occupy
places among the `MAX_BLOCK_TXS` that a block tries (l2_node.py:666), so
`BlockTakesTheReady` speaks of pools no larger than that; and a pending claim with
a nonce gap blocks its message for as long as it waits.

### NodeRpc

`memory` is what the RPC answers from: `first`, `blocks`, `logsFrom`, `messages` and
the index of transactions. `Index` is `index`, `Prune` and `TakeSnapshot` are
`snapshot`'s, `LoadSnapshot` and `StartServing` are the start, which may find that L1
lost blocks. `GetLogs`, `BlockByNumber` and `TransactionReceipt` are the answers.
`SNAPSHOT_INTERVAL`, `KEEP_BLOCKS` and the headers of a snapshot keep the order they
have in the code. Not in the model: `fee_history` reports an `oldestBlock` that
does not fit a range whose blocks were pruned (l2_node.py:1421-1426).

### Posting

One action per step of the posting thread between two calls (`pc`): `Receipts`,
`ReadConfirmed`, `ReadPending`, `Offer`, `Fetch`, `SendPost`. `Produce` is the other
thread. L1 is `l1`, the operator's transactions in nonce order, and one pool per
client; a client in `OnePerSender` holds one pending frame transaction per sender.
`Include` takes the next nonce from a builder's pool, `Evict`, `Reorg`, `Expire` and
`Restart` are the faults. `Follow` is what the node does when the rollup's head is
not the one it has. `Followed` is an assumption: the node, which polls every two
seconds, has followed one L1 block before the next. Two details only prose
mentions: a post that lands between the receipts and the nonces is forgotten
without an "advance" line in the log; and after a restart in front of posts it does
not know, the loop relies on some client that holds them to build a block, which
`AllPosted` excuses.

### Follower

`rollupTxs` is L1, one transaction per block; `db` the database as the follower's
transaction sees it, `committed` as others do; a crash falls back to it.
`StartFollower` is the choice of the snapshot with `still_on_l1` and `rewind`, `Poll`
reads events, `KnownLog` and `NewLog` are the loop's two branches, the second with
`rebuild`, the index, the snapshot and the commit, `IndexMessages` is the pass over
deposits and claims: all of it, or at an error a first part, which the loop commits as
well (l2_follower.py:200-206). `LoseBlocks` is L1 losing at most `FinalityLag` blocks, which
`FollowerAssumption` bounds by `L1_REINDEX_BLOCKS`, as the code's 96 blocks do for two
epochs; it loses none again before the follower has started again. `logs` is a set: L1
has one transaction per block and the follower takes the lowest first.
The code does not recover from three states, at which the model stops
(`usual`): `Moved`, L1 having a block of the snapshot's chain in another place, since
`snapshot` picks by number alone (explorer.py:694-699) and `rewind` keeps the L1 place
of every block up to the snapshot's (explorer.py:731-733), also where only a block below
the snapshot's moved;
`Behind`, a stop after the rewind's commit (l2_follower.py:165) and before the
L1 transactions of known blocks are indexed again; `Unnoticed`, L1 losing blocks
after the last post, which `still_on_l1` does not look at (l2_follower.py:220-224).
Without `--watch`, the follower ends with an error (`len` of a number,
l2_follower.py:212) after its last block: the model is the one with it.

### Claims

A run is the sequence `StartRun` (`MessageCache.__init__`), `ReadBits`, `ReadRoot`,
`SendClaim` per message, `Save`; `RunError` ends it anywhere. L1 blocks, L2 blocks
and `RollBack` come in between. `ClaimOn` is what the L2 messenger accepts: the root
proven last, replaced by one with as many messages or more. The first `fixed` L1
blocks are those that `CACHE_MARGIN` others were once above: no rollback changes them,
or the file would keep stale messages (the margin is 64 in l2_claims.py; the explorer
plans for 96). A run claims its messages per claimer in order, and the claimers in
any order (`wanted` is what is left to claim). Excused (`rolled`, `sound`): a rollback
between the constructor's check of the block hash and `save`, which reads the head
anew, stores bits of a dropped block under a hash that is on the chain. The comment at
l2_claims.py:199-200 takes such a rollback for covered; the head it would have to
change is read only after it. With that exemption dropped, TLC finds a run that passes
over a message.

### Withdrawals

`List`, `Check`, `Prove`, `SendWithdrawal`, `Receipt`, `GiveUp` are one thread's way
through `claim`, for the story's users and for everyone else. L1 includes claims in any
order, late or never, anyone may claim (`ClaimByOthers`), and L1 loses blocks. A
receipt counts whatever its status (runner.py:652), and the runner then reports
"claims a withdrawal" for a reverted claim too. `KnownIsClaimed` still holds, also when L1
loses blocks between the steps of a claim, since the node's proof may be against a
root that L1 lost, which `HasRoot` refuses before the claim is sent, and a claim that
reverts was outrun by another. The code has no way out of two cases, which `unpaid`
exempts message by message: L1 loses a claim that the episode knows of, or the block
that a claim was proven against while the thread waits for the receipt (`strays`). The
next episode, which knows nothing, looks again.

### Runner

The files are variables of their own: `session`, `proverOf` (prover.json), `stateOf`
(l2_state.json), `files` (one per block), `log`. A deployment is one action per file
written, so `RunnerCrash` can come between any two; so is the filing of a line
(`FileLine`, `SaveFiled`). `Report` is the operator's line, lost if it stops first.
`NewDevnet` is an L1 that no longer has the rollup. `RunnerCrash` starts the runner
again with or without `--new`, `Rotate` empties the log whenever it likes, and
`RelaySaves` is any thread that relays withdrawals, of the episode that runs or of one
that ended (`relays`), as it saves its own episode's session (runner.py:656, 707-729).

The code does not keep `OneRollup` and `EveryReportFiled` through everything. `mishaps`
records, for the rollup at hand, which of these happened, and the properties name each:

- "--new forgotten": a runner with `--new` stops between the new genesis and the new
  prover's key, and starts again without `--new`, as the service does. It resumes the old
  rollup, whose session and key fit, on the new genesis (runner.py:240 asks for a state
  file, not whose it is).
- "not saved": a session without `filed` is resumed after the operator reported.
  Filing starts at the end of the log (runner.py:432), and the reports are lost, which
  runner.py:431 ("so no report is lost") denies.
- "emptied": logrotate empties lines that are not filed.
- "passed over": the emptied log outgrows the old offset before the filer, or the next
  runner, compares the two (runner.py:433, 459). It goes on in the middle of the new log,
  and dies if that is inside a line (`FilerDies`). The property speaks of no filer whose
  offset is one of an earlier log (`filer.of`), whether or not it can tell yet.
- "saved over": an episode resumes from a session that the thread of an earlier one
  saved over the last one's.

One more loss is exempt where it happens: a post whose block's own preconfirmation was
not reported replaces the file's preconfirmation without keeping it under "broken"
(runner.py:466-471), which the comment there takes for kept. Without any one of these
exemptions ("passed over" and `filer.of` being one) TLC finds the property violated,
"saved over" with 3 reports, so each is needed. Two threads that write
session.json.tmp at the same moment (runner.py:169-172) are not modelled.

## Runs

| Run | Question | Bounds |
|---|---|---|
| `forced_queue` | Can an entry get stuck, be censored, or stay stale for ever? | 3 senders, 2 places, 8 transactions of which three fail a stateless check each, 2 blocks, proof age 1: replacement, eviction, re-admission after execution, blocks with and without room |
| `forced_inbox` | Do the pointers implement the queue? | 4 senders, 3 places (so that an entry has two neighbours), 5 transactions with ties, lists of 2, 2 blocks; the proof age is 0, since `forced_queue` covers old proofs |
| `native_rollup` | Is the history exact, can a post halt the rollup? | 4 L2 blocks over a ring of 2, so that slots are reused twice; slots of 1 or 2, lag 3, window 2, two keys |
| `message_delivery` | Can reentrancy or failure break a claim? | calls 4 deep, 2 apps, a user, 4 messages offered of which 1 is refused, 1 sent; deadlock is checked |
| `messaging` | Is the escrow solvent, do both ends implement the peg? | 2 messages each way, 3 L1 blocks, 3 posted L2 blocks over a ring of 2, window 2 |
| `sequenced_rollup` | Can the bond leave before its promises are decided? | 2 signatures on any chain, bond 1, 5 L1 blocks, delay 2 with a lag of 1 |
| `honest_sequencer` | Is an honest sequencer safe from slashing? | idle at most 4 = timeout 6 - lag 2; 4 L2 and 9 L1 blocks, slots of 1 or 2 |
| `idle_sequencer` | Does the comment on `SEQUENCER_TIMEOUT` hold? It does not | idle up to 9 |
| `l2_node` | Does the node survive crashes, late posts and lost blocks? | 3 blocks, a snapshot at each (so that one is dropped), 2 losses, 2 crashes, 1 expiry: a dropped block can land in place of its successor, and L1 can lose a snapshot's block |
| `signing_fails` | Can the node always replay what it stored? Not after a failed signature | 3 blocks |
| `blobs_fail` | Is a snapshot the state of its block? Not after a catch-up that failed half-way | 3 blocks, 1 loss, 1 expiry |
| `demo` | Do the pool, the RPC, the operator, the follower, the claimers and the runner keep what they promise through faults and restarts? | below |

The parts of `demo`, 1,329,365 states together:

- pool (19,000): 2 senders with 2 nonces each, one of whom can pay only with the
  message; plain and frame claims of it; blocks of 2 that try 3; 2 blocks.
- posting (255,000): 2 clients, one of them with one transaction per sender; 2 posts
  in flight, 3 blocks, 1 fault, 1 restart; either all clients or only that one build.
- follower (341,000): 4 L1 blocks, a snapshot every 2 L2 blocks, 2 blocks indexed
  again, up to 1 block lost at a time, 2 losses, stops and errors of indexing in all.
- rpc (24,000): 5 blocks, a snapshot every 2 with 2 headers, 3 blocks kept, 2 exits.
- claims (52,500): 2 L1 and 2 L2 blocks, 1 rollback, 3 runs: one that writes the file
  and two that use it.
- withdrawals (63,500): 2 messages, one per thread, 3 L1 blocks, 1 loss or stop.
- runner (574,000): 2 deployments, 3 reports each, so that a replaced block is posted,
  1 drop, 2 halts, so that a resumed rollup and a second one both occur, and so does each
  of the mishaps.

Deadlock checking is off where the bounds end the behaviour (L1 blocks, L2
blocks, messages and faults are numbered), and in `L2Node` where the node does not start
because L1 lost blocks before its snapshots, as `unpost` says, or a file is gone.

The properties, by run:

- `forced_queue`. `ExecutableOrPrunable`: each queued transaction can execute or be
  pruned now. `LeavesForCause`: what leaves was outbid in a full queue, or dead on
  a state after its admission, which justifies the inference in `settle`.
  `StaleEntryLeaves`: under weak fairness of `Prune` for each sender, which the
  code justifies only as far as that `prune` is open to anyone and everyone queued
  behind gains from it, stale entries are cleared. `WithinCapacity`.
- `forced_inbox`. `ListIsTheQueue`, which also gives the pointers and the counter
  their types; `ImplementsQueue`.
- `native_rollup`. `HistoryExact`, `NeverHalts`, `ChainFollowsL1`.
- `message_delivery`. `ClaimedExactlyOnce` also of the states that failures
  restore; `PaysWhatIsClaimed`; `SenderIsTheMessages`: a recipient may read "no
  message" after a nested claim cleared the sender, but never another sender;
  `NoMessageInItsName`.
- `messaging`. `Solvent`, whether the block being built is posted or dropped;
  `RootMovesForward`; `OnlySentIsClaimed`; `ImplementsPeg`.
- `sequenced_rollup`. `BondOutlastsPromises`.
- `honest_sequencer`. `HonestNeverSlashed` needs `MAX_IDLE` to be at most
  `SEQUENCER_TIMEOUT` less the posting deadline, which neither the contract nor
  the operator enforces: the next run shows what happens without it.
- `idle_sequencer`, a violation. The timeout counts from the last posted block.
  A sequencer that was idle and then preconfirms a block has, once the timeout
  passes, a block that is neither posted nor dead.
- `l2_node`. `PostedWasOnL1`: the RPC's safe and finalized blocks were on L1.
  `RestartsWhereItWas`: at every moment the newest snapshot has its file, and a replay
  of the state file gives the chain in memory. `PromisesAreOneChain`: no crash makes the node promise two blocks at one
  height. `RestartKeepsPosted`: a start forgets nothing that L1 has. `CatchesUp`:
  the node ends up with what the contract has. Its fairness: the follower's thread
  runs, the runner restarts the node (weak), and L1 answers some of the starts
  (strong, since a start without an answer changes nothing). The code has no way
  out of three states, which it exempts, and without any one of these exemptions it fails: L1
  put other blocks in place of posted ones (`Replaced`: a restart compares numbers),
  L1 lost blocks before both snapshots (`BeforeSnapshots`: the node refuses to start),
  and a crash took the file the node starts from (`FileIsGone`). The third contradicts
  the comment at l2_node.py:522, that `snapshot` keeps the one before too, which the node
  starts from if L1 loses the blocks after it: with snapshots 1 and 2 listed, `snapshot`
  of block 3 removes the file of 1, the node stops before the save, L1 loses block 2, and
  `unpost` leaves the node snapshot 1. Or `unpost` removes the file of 2 and the node
  stops; L1 has block 2 again when it starts, from snapshot 2.
- `signing_fails`, a violation. `preconfirm` extends the chain before it signs and
  stores. After a failed signature the next block is stored on one that is not.
- `blobs_fail`, a violation. `catch_up` moves `posted` with each block and
  `posted_state` at the end. If it stops half-way and L1 then loses the rest, the
  next snapshot holds a state that no block has.
- `demo`. `OnePendingClaim` and `BlockTakesTheReady` of the pool.
  `AnswersAreTheChains` of the RPC. `NoWastedPosts`: without faults, every post adds
  its block, whenever posts land between the loop's reads. `PostsGetThrough`:
  after any fault the rollup gets to the whole L2 chain. Its fairness is weak, for
  L1's inclusion, `follow` and the posting loop: all loop for ever, and the runner starts
  them again when they stop. The producing thread may build any number of blocks. `ExplorerShowsL1` relates
  the database to L1 whenever the follower has read everything.
  `RunsClaimWhatIsLeft`: a run that nothing overlaps, on a file that earlier ones left,
  passes over no message, but for the two exceptions above. `KnownIsClaimed` of
  withdrawals, but for the `unpaid`. `PicksUpWhereItStopped` is `OneRollup` and
  `EveryReportFiled` of the runner, but for its mishaps.

## Proofs

`ForcedInboxProofs` proves of the queue's `Spec`, for all constants that satisfy
`ConstantsAssumption`: `TypeCorrect`, `NoEntryStuck`, `CapacityRespected` and
`NothingCensored`. The inductive invariant adds two facts to the type invariant:
`Admitted`, an entry was executable on the state it was admitted with, and
`StatesRise`, nonces never fall along the chain and a balance falls only once the
nonce is above zero. Without the first, an entry could be ahead of its account;
without the second, an account could come back to the nonce of an entry, or
vanish from the state that `prune` needs a proof in.

It proves of the contract's `InboxSpec`, from the same assumption and `NullAssumption`
(address zero is no sender's): `InboxImplementsQueue`, that the contract implements
the queue for lists and queues of any length, `ListIsAlwaysTheQueue`, and, through
the refinement, `InboxCensorsNothing` and `InboxEntriesNeverStuck`, the queue's theorems
of the contract itself. The invariant (`InboxInv`) adds to the queue's that some
sequence of senders is both: pointer by pointer the list (`IsList`), and the queue in
its order (`Ordered`). Lemmas say what an insertion and a removal do to a list of any
length (`RemoveFromList` and its counterpart), and what each round of a walk leaves.
The walks are recursive functions, proved about by induction over their rounds: those
of `currentIL` (`ListedTo`), and those of `settle`, which unlinks entries while it walks
(`SettledTo`). The step that needs the most is that `settle`, whose successor is read
from a list that has just changed, stops at the entry where `currentIL` did.

`SequencedRollupProofs` proves of `NativeRollup`'s `Spec`, from `RollupAssumption`: `TypeCorrect`,
`HistoryCorrect`, `L1Followed` and `NoHalt`. The invariant adds `HeadConsistent`
(number, anchor and times fit the chain) and that each ring buffer slot holds
the newest block of its residue. The core is `SlotsDiffer`: two numbers less
than `STATE_ROOT_HISTORY` apart have different residues.

It proves of `SequencedSpec`: `BondSafe`, that no bond leaves before
every preconfirmation it backs is posted or dead, and `SequencedTypeCorrect`. Beside
the rollup's invariant it needs that a signed block is anchored before it is signed
(`SignedAnchored`) and that L1 closes `BLOCKHASH_WINDOW` blocks within a delay
(`TimePasses`), which rests on `DelayAssumption`: the delay is at least
`BLOCKHASH_WINDOW` slots of any length that occurs. The contract's day is 28 times
256 slots of 12 seconds; with slots missed for long enough the anchor would outlive
the bond.

It also proves of `HonestSpec`, under `NotIdleTooLong`, `HonestSafe`: an
honest sequencer is never slashed. `NotIdleTooLong` is `MAX_IDLE` plus
`MAX_TIMESTAMP_LAG` at most `SEQUENCER_TIMEOUT`, and anchors younger than the window;
it is stated with the theorem since `idle_sequencer` is about its absence. The
invariant says that what waits is in order on the posted chain, that its first
block is alive and younger than the timeout, and that everything signed is on one
chain. The step that needs the most is `NothingWaits`: others can post only when
no block waits.

`MessageDeliveryProofs` proves of `Spec`, for any messages and accounts and calls of any
depth: `DeliveryTypeCorrect`, `MessagesClaimedOnce` (`ClaimedExactlyOnce`), `SenderIsTold`
(`SenderIsTheMessages`) and `NothingInItsName` (`NoMessageInItsName`). A failure brings
an earlier state back, so each invariant is stated of the saved states too, each
with the calls that were in progress then. `ClaimedExactlyOnce` is inductive like that
by itself; the sender needs the innermost claim of each saved state (`Innermost`), and
that deliveries only add up from one saved state to the next (`Rises`), so that a
sender that was cleared shows in them. `PaysOnce` (`PaysWhatIsClaimed`) is an equation
between sums: what the contract holds, and what the claimed messages cost, are what
it had, what was sent, and the fees of the claims that have not come to them
(`PaidInv`), of the current state and of every saved one.

`MessagingProofs` proves of `Spec`, for any messages and windows: `MessagingTypeCorrect`,
`NoMessageLost` (`RootMovesForward`) and `ClaimsWereSent` (`OnlySentIsClaimed`). The
invariant relates each state to the anchors it saw (`Seen`): the proven root is that
of an anchor, what is claimed was in the tree of one. Roots along L1, and states
along the posted chain, only grow (`RootsGrow`, `ChainInv`), and the block being built
extends the posted chain whatever becomes of it (`BuildingInv`). On top of it,
`EscrowCovers` (`Solvent`) needs `Balanced`: the escrow covers what is on its way on the
posted chain, and the block being built creates nothing (`Flow`: what its accounts
hold and sent, they held or claimed before). Posting the block then keeps the first
because of the second, and dropping it needs neither. `PegImplemented` takes the same
invariant to show that every step of both messengers is one of `TwoWayPeg` or none.

`L2NodeProofs` proves of `Spec`, from `NodeAssumption`: `NodeTypes`, `PostedIsOfL1`
(`PostedWasOnL1`), `StartsAgainWhereItIs` (`RestartsWhereItWas`), `OneChainOfPromises`
(`PromisesAreOneChain`) and the action property `StartKeepsPosted`
(`RestartKeepsPosted`). None of them is inductive: each speaks of the end of a replay.
The invariant (`NodeInv`) says what they have in common: there is one chain `p` and one
number `n` such that the file's posted blocks are the stretch of `p` from its oldest
snapshot to `n`, its preconfirmed ones the stretch from `n` on, each listed snapshot's
file is of `p` (`DiskIs`), a running node's memory is `p` posted up to `n` (`MemoryIs`),
and L1 had `p` up to `n`. Every save keeps it, with a `p` or an `n` of its own, so every
crash between two saves does; `mark_posted` moves `n` one block per round
(`MarkPostedIs`, by induction over the rounds), `unpost` cuts `p` (`UnpostedIs`), and
`catch_up` replaces it by L1's chain. A replay of such a file is `p` (`ReadBack`, by
induction over the stored blocks). While nothing is lost or expires, everything
promised, sent or on L1 begins `p`. `SnapshotsAreExact` and `StoredBlocksReplay` follow
too: what `blobs_fail` and `signing_fails` refute holds as long as these two failures
do not happen.

`DemoProofs` proves of `DemoSpec` what its seven parts promise. Each has an invariant
of its own (those of the pool, the follower and the claims, with their types, in
`PoolFollowerClaimsProofs`), and a step of another part leaves it alone.

- The withdrawals: `KnownIsAlwaysClaimed` (`KnownIsClaimed`). The contract's state is
  a fold over L1's transactions, so `WithdrawalsInv` speaks of every prefix of L1 at
  once: `FoldLeftSteps` turns a fold into a function of the position, and `RollupKeeps`
  says that later states only have more claimed and longer chains. What the invariant
  adds is `Awaits`: the root that a thread waiting for its receipt proved against was
  posted when it sent the claim, so a claim that reverts was claimed by another; when L1
  loses blocks, the threads of which that no longer holds are the `strays`.
- The pool: `OnePendingClaimEver` (`OnePendingClaim`) and `BlocksAlwaysTakeTheReady`
  (`BlockTakesTheReady`). Claims alone are not
  inductive, since what replaces a transaction is found by its nonce: no two
  transactions of the pool share a sender's nonce or a message (`Apart`), and none is
  behind the head's state (`Ahead`), which is what keeps those that a dropped block
  gives back apart from those that came since. The candidates are the pool's
  transactions, each sender's by nonce: the place of one among its sender's is a count
  (`PlacesOf`, `CountsAreRanks`), and counts of the arrivals and of the nonces below
  each other pair up one to one (`CandidatesInOrder`). A transaction that is ready then
  finds all that its sender has before it in the order, and by induction over the
  candidates (`TakesTheNext`, over `Try`) the block takes the next of them until it has
  it or is full (`Upcoming`): its sender's balance falls by no more than one with each.
- The RPC: `AnswersAlwaysAreTheChains` (`AnswersAreTheChains`). The answers put together
  what the node has from two sources, so `RpcInv` says what each holds (`MemoryOf`): the
  logs of every block from `logsFrom` on, the messages of all blocks (`Told`), and
  transactions only of blocks with logs; and that each snapshot on disk has the
  messages of the chain up to its number (`SnapshotOf`), which stays true of the chain
  that is left when the blocks after it are lost. Pruning may not reach past the posted
  chain: that is `MaxWaiting` below `KEEP_BLOCKS`. `LogsAre` then puts a range together.
- The posting loop: `NoPostIsWasted` (`NoWastedPosts`). While `faults` is 0 there is a
  number `K` of posts sent: L1 has the first of them, each client's pool the next
  ones up to some number (`PoolIs`), the `K`-th is among those the loop remembers, or it
  remembers none, and within a round it knows `K`. The hard steps are the three reads
  between which posts land, and a restart, after which the loop remembers nothing and
  sends nothing before L1 has all `K`.
- The runner: `EpisodesPickUp` (`PicksUpWhereItStopped`), in two halves. `OneRollup`
  (`OneRollupAtATime`): what a stop between two of a deployment's files leaves behind
  must not pass for a session to resume, so a genesis that is newer than the prover's
  key means that the session is not resumable, that the runner is to deploy again, or
  that it forgot to (`OwnGenesis`). `EveryReportFiled`: of the lines told, the first `f`
  are filed and the first `g` are in the block files, where `g` is `f` or, between the
  two writes or after a stop there, `f + 1` (`FiledTo`). The lines after `f` are those of
  the log after the place where filing goes on, which is the log's start when logrotate
  emptied it (`StartsAt`, `PlaceInv`). That an episode works on the session last kept,
  whatever other threads save, is `EpisodeInv`. Merging a line again changes nothing
  because the versions at one height only rise (`LinesInv`, `UpTo`) and a file's own
  version is its latest (`FilesInv`), and the summary's waiting blocks are those of the
  first `f` lines that no later line replaced or posted (`InSummary`). All of this is
  said while the files are those of the session's rollup (`Current`) and nothing befell
  it that the code does not handle (`Unhindered`).

- The claims: `EveryRunClaimsWhatIsLeft` (`RunsClaimWhatIsLeft`). The messenger's state
  is a fold over the claims of all L2 blocks, so `ClaimsInv` says of every prefix of
  them that the messenger took them all (`AllTaken`): the state after a prefix of blocks
  is then that of its claims, and rolling back cuts both alike. The file keeps messages
  through a block that is `fixed` (`Lasts`) and bits that are set on the chain they were
  read on. `RunKnows` carries what a run read of L2 from one of its steps to the next
  while nothing else happens there, up to its first claim, which the node must take:
  its path is to the messenger's root, or it proves the root at the anchor.
- The follower: `ExplorerAlwaysShowsL1` (`ExplorerShowsL1`). `FollowerInv` tells three
  times of a follower apart. It saw all that L1 did since it started (`InStep`): the
  database tells one of L1's chains, `top`, the follower is at block `m` of it, each
  account is as one of the blocks from `m` to the end of `top` leaves it, and for every post that the
  follower knows, the row is there or still to come. L1 lost blocks after its first `n`
  (`LeftBehind`): the rows of these are right, and so is what the tables tell of the
  chain `c` that was on them; the rest is about blocks above it, the last `h`. Or the
  follower came back to L1's chain without a start (`WentOn`). A start goes back to a
  snapshot that L1 still has, one of the last two, since `SnapsAre` says that for every
  multiple of the interval there is a snapshot, or there are two higher; what it
  forgets is above that block or within `L1_REINDEX_BLOCKS` of it, and it reads all of
  that again. The proof completed the exemption `Moved`, as said below. The hard step
  is a block that is added again over one that the tables already told (`AddsInStep`):
  `m` moves on while `top` stays.

- The types of all seven parts: `TypesCorrect` (`DemoTypeOK`), for any values of their
  bounds. Types alone are not inductive: that a block, a snapshot or a head is one of
  those there are follows from the parts' own invariants (`PartsInv`), to which
  `PartsTypes` adds the bounds. What a part chooses must exist: a client's next nonce
  does because its pool is finite and a bound holds of all nonces (`NoncesBelow`).

`InductionLemmas` holds what several of these proofs rest on. The library's theorems on
induction take a predicate, which none of the provers at hand can instantiate; here
induction is a statement about a set (`SetInduction`, `SubsetInduction`), derived from
the library's theorem that a well-founded order has minimal elements. From it follow the
equations of `SumFunctionOnSet` on finite sets, and what `FoldLeft` computes on a
sequence of any length.

Proofs changed the models where these were wrong or could not be reasoned about.
`Apply` of the withdrawals and `Try` of the pool had CASE arms that overlap, of which
TLC takes the first and the logic any: they are nested conditions now, in the order
of the code. `Moved` of the follower
looked at the snapshot's own block only: with 4 L1 blocks lost and indexed again, TLC
shows the explorer wrong after 20 steps, when L1 had a lower block elsewhere and the
snapshot's in its old place. The number of L1 blocks that rollbacks take in `Claims`,
and the one loss of the follower's L1, gave way to the bounds that matter. And `NodeRpc`,
`Runner`, `Claims` and `Withdrawals` choose messages, snapshots and waiting blocks, and
put withdrawals in their order (`InBlockOrder`), with folds, since the provers do not
know `SelectSeq` and `SortSeq`.

Only model-checked: all liveness (`StaleEntryLeaves`, `CatchesUp`, `PostsGetThrough`),
since TLAPS has no ENABLED here and so no proof from fairness.

## Not modelled

- Encodings and hash computations: RLP, SSZ, blobs, tries and Merkle paths
  (`MptProof`, `StatelessResultRoot`, `MessageTree`'s insertion). They are pure
  functions on bytes, which the repository tests with vectors; the models take a
  proof as a look into what a root commits to.
- Gas: how much of it a delivery gets, intrinsic costs beyond one number.
- The node's cache of tries between blocks, its proofs and calls on a state.
- The explorer's tables of token transfers and events, its address lists and read
  queries; the site, which only reads.
- The runner's example apps, spamoor, and its restarts of the follower. One of its
  behaviours met while reading: `deploy_apps` records the L1 bridge before it is
  deployed, so a deployment that failed is not tried again (runner.py:290-301).
- Frame introspection bindings, the token bridges (apps on top of the messengers),
  deployment and vector scripts.
- L1 reorgs in `SequencedRollup`: there, one that removes an anchor exempts a
  preconfirmation from `slashDivergence`.

## Plan

1. Done: the inbox, the rollup, messaging, the bond, the node; the pool, the RPC, the
   posting loop, the follower, the claimers and the runner; proofs of the inbox
   and its linked list, the rollup, the bond, an honest sequencer, the messaging with
   its escrow and its peg, the node, its pool and its RPC, the posting loop, the
   withdrawals, the claims, the follower and the runner.
2. An L1 that reorgs anchors in `SequencedRollup`.
3. `MessageTree`: insertion and paths against a reference tree, with symbolic
   hashes; `MptProof`'s walk.
4. The token bridges on top of `Messaging`.
