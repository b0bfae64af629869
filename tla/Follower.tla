------------------------------- MODULE Follower -------------------------------
(***************************************************************************)
(* The follower (l2_follower.py, `follow` with --watch and --explorer) and *)
(* the database it writes (explorer.py, `Explorer`): it rebuilds the L2    *)
(* chain from the rollup's events on L1, indexes blocks, transactions,     *)
(* messages and accounts, commits after each block, and starts again from  *)
(* a snapshot when it stopped, or when L1 lost blocks.                     *)
(*                                                                         *)
(* Each L1 block has one transaction.  An L2 block is its chain: one entry *)
(* per block, its transaction, so its number is its length.  The L2        *)
(* transaction "claim" claims L1 message 0 and "send" sends L2 message 0.  *)
(***************************************************************************)
EXTENDS Integers, SequencesExt

CONSTANTS
    Deposits,          \* L1 transactions that send a message
    SNAPSHOT_INTERVAL, \* L2 blocks from one snapshot to the next
    L1_REINDEX_BLOCKS, \* L1 blocks indexed again before a snapshot's
    FinalityLag,       \* the L1 blocks that can be lost
    MaxL1,             \* bound: L1 blocks
    MaxStops           \* bound: losses of L1 blocks, crashes, and errors of indexing

ASSUME FollowerAssumption ==
    /\ {SNAPSHOT_INTERVAL, MaxL1} \subseteq Nat \ {0}
    /\ {FinalityLag, MaxStops} \subseteq Nat
    /\ L1_REINDEX_BLOCKS \in Nat /\ L1_REINDEX_BLOCKS >= FinalityLag

VARIABLES
    rollupTxs, \* L1: the rollup's transactions, one per L1 block
    db,        \* the database, as the follower's transaction has it
    committed, \* the database, as committed
    step,      \* what the follower does next, "down" when it does not run
    rebuilt,   \* its chain, whose last block is the one it calls verified
    fromBlock, \* the L1 block it reads events from
    logs,      \* the L1 blocks of the events left to process in this poll
    watched,   \* history: no L1 block was lost since it started
    usual,     \* history: none of its starts was on a database as below
    stops
followerVars == <<rollupTxs, db, committed, step, rebuilt, fromBlock, logs, watched, usual, stops>>

L2Tx(t) == [kind |-> "l2", what |-> <<t>>]
Advance(chain) == [kind |-> "advance", what |-> chain]
Deposit(d) == [kind |-> "deposit", what |-> <<d>>]
WithdrawalClaim == [kind |-> "withdrawal claim", what |-> <<>>]

\* Accounts: the fee recipient, which every block touches, and those of the
\* two transactions.  An account's state is the last block that touched it.
Accounts == {"feeRecipient", "claim", "send"}
Touched(block) == {"feeRecipient", Last(block)} \cap Accounts
AccountState(chain, a) ==
    LET n == Max({0} \cup {i \in DOMAIN chain : a \in Touched(SubSeq(chain, 1, i))})
    IN SubSeq(chain, 1, n)

\* The explorer's tables, empty.
EmptyDb == [l1Txs |-> {}, l2Txs |-> {}, blocks |-> {}, sides |-> {}, snapshots |-> {},
            accounts |-> [a \in Accounts |-> [block |-> 0, state |-> <<>>]], messagesFrom |-> 0]

FollowerTypeOK ==
    /\ Len(rollupTxs) <= MaxL1
    /\ step \in {"down", "poll", "logs"}
    /\ logs \subseteq 1..MaxL1 /\ (step # "logs" => logs = {})
    /\ \A i \in DOMAIN rebuilt : rebuilt[i] \in {"none", "claim", "send"}
    /\ fromBlock \in 0..MaxL1 /\ db.messagesFrom \in 0..(MaxL1 + 1)
    /\ (step \in {"down", "poll"} => db = committed)
    /\ \A s \in db.sides : s.table \in {"deposits", "withdrawals"} /\ s.chain \in {"l1", "l2"}
    /\ {watched, usual} \subseteq BOOLEAN /\ stops \in 0..MaxStops

-----------------------------------------------------------------------------
(* L1 *)

PostsAt(txs) == {i \in DOMAIN txs : txs[i].kind = "advance"}
HeadIn(txs) == IF PostsAt(txs) = {} THEN <<>> ELSE txs[Max(PostsAt(txs))].what
DepositsIn(txs, n) == {i \in 1..n : txs[i].kind = "deposit"}

\* A post, a deposit, or a claim of the withdrawal that the rollup has.
\* Bound: L1 goes on until the follower starts on a database it does not
\* recover from (`usual`), after which no property says anything.
Mine ==
    /\ Len(rollupTxs) < MaxL1 /\ usual
    /\ LET head == HeadIn(rollupTxs)
           ready == IF DepositsIn(rollupTxs, Len(rollupTxs)) = {} THEN {"none", "send"} ELSE {"none", "send", "claim"}
           possible == {Advance(Append(head, t)) : t \in ready}
                       \cup {Deposit(d) : d \in Deposits}
                       \cup {t \in {WithdrawalClaim} : "send" \in ToSet(head)}
       IN \E t \in possible :
            /\ t \notin ToSet(rollupTxs)
            /\ t.kind = "advance" => Last(t.what) = "none" \/ Last(t.what) \notin ToSet(head)
            /\ rollupTxs' = Append(rollupTxs, t)
    /\ UNCHANGED <<db, committed, step, rebuilt, fromBlock, logs, watched, usual, stops>>

\* The machine that runs L1 resets: L1 loses its last blocks, and goes on
\* from what is left.  Bound: not again before the follower started again.
LoseBlocks ==
    /\ watched /\ stops < MaxStops
    /\ stops' = stops + 1
    /\ \E n \in 0..(Len(rollupTxs) - 1) :
         /\ n >= Len(rollupTxs) - FinalityLag
         /\ rollupTxs' = SubSeq(rollupTxs, 1, n)
    /\ watched' = FALSE
    /\ UNCHANGED <<db, committed, step, rebuilt, fromBlock, logs, usual>>

-----------------------------------------------------------------------------
(* The explorer's database *)

\* Each message has a side on each chain: the transaction that tells of it.
\* The index of a deposit is the rollup's, from its event.
Side(table, idx, chain, tx, block) == [table |-> table, idx |-> idx, chain |-> chain, tx |-> tx, block |-> block]
L1Sides(txs, i) ==
    IF txs[i].kind = "deposit" THEN {Side("deposits", Cardinality(DepositsIn(txs, i - 1)), "l1", txs[i], i)}
    ELSE IF txs[i].kind = "withdrawal claim" THEN {Side("withdrawals", 0, "l1", txs[i], i)}
    ELSE {}
L2Sides(block) ==
    IF Last(block) = "claim" THEN {Side("deposits", 0, "l2", L2Tx("claim"), Len(block))}
    ELSE IF Last(block) = "send" THEN {Side("withdrawals", 0, "l2", L2Tx("send"), Len(block))}
    ELSE {}

\* merge_message: a side told again replaces the one before.
SameSide(r, s) == r.table = s.table /\ r.idx = s.idx /\ r.chain = s.chain
Merge(sides, told) == {r \in sides : \A s \in told : ~SameSide(r, s)} \cup told

\* add_l1_tx: one row per transaction, and its messages' L1 sides.
AddL1Tx(d, i) ==
    LET tx == rollupTxs[i]
    IN [d EXCEPT
        !.l1Txs = {r \in @ : r.tx # tx} \cup {[tx |-> tx, block |-> i]},
        !.sides = Merge(@, L1Sides(rollupTxs, i))]

\* add_l2_block: the block, its transaction, and its messages' L2 sides.
AddL2Block(d, block, i) ==
    LET n == Len(block)
        tx == L2Tx(Last(block))
    IN [d EXCEPT
        !.blocks = {b \in @ : Len(b.block) # n} \cup {[block |-> block, l1Tx |-> rollupTxs[i], l1Block |-> i]},
        !.l2Txs  = IF Last(block) = "none" THEN @ ELSE {r \in @ : r.tx # tx} \cup {[tx |-> tx, block |-> n]},
        !.sides  = Merge(@, L2Sides(block))]

\* update_accounts: the accounts the block touched, as they are after it.
UpdateAccounts(d, block) ==
    [d EXCEPT !.accounts = [a \in Accounts |->
        IF a \in Touched(block) THEN [block |-> Len(block), state |-> block] ELSE @[a]]]

IndexBlock(d, block, i) == AddL1Tx(UpdateAccounts(AddL2Block(d, block, i), block), i)

\* save_snapshot: the latest two stay.
SaveSnapshot(d, block, i) ==
    LET all == {s \in d.snapshots : Len(s.chain) # Len(block)} \cup {[chain |-> block, l1Block |-> i]}
        later(s) == {r \in all : Len(r.chain) > Len(s.chain)}
    IN [d EXCEPT !.snapshots = {s \in all : \A r \in later(s) : later(r) = {}}]

\* snapshot(at_most), or the genesis.
Snapshot(atMost) ==
    LET fit == {s \in db.snapshots : Len(s.chain) <= atMost}
    IN IF fit = {} THEN [chain |-> <<>>, l1Block |-> 0]
       ELSE CHOOSE s \in fit : \A r \in fit : Len(r.chain) <= Len(s.chain)

\* Mutant: messages keep the sides of the transactions that are forgotten.
KeepsSides(chain, from) ==
    LET n == Len(chain)
    IN [db EXCEPT
        !.l1Txs = {r \in @ : r.block < from},
        !.l2Txs = {r \in @ : r.block <= n},
        !.blocks = {b \in @ : Len(b.block) <= n},
        !.accounts = [a \in Accounts |->
            IF @[a].block > n THEN [block |-> n, state |-> AccountState(chain, a)] ELSE @[a]],
        !.messagesFrom = IF @ < from THEN @ ELSE from]

\* rewind: forgets the L2 blocks after those of `chain`, the L1 transactions
\* from L1 block `from` on, and what they tell of messages and accounts.
Rewind(chain, from) ==
    LET n == Len(chain)
        gone == {r.tx : r \in {q \in db.l1Txs : q.block >= from} \cup {q \in db.l2Txs : q.block > n}}
    IN [db EXCEPT
        !.l1Txs = {r \in @ : r.block < from},
        !.l2Txs = {r \in @ : r.block <= n},
        !.blocks = {b \in @ : Len(b.block) <= n},
        !.sides = {s \in @ : s.tx \notin gone},
        !.accounts = [a \in Accounts |->
            IF @[a].block > n THEN [block |-> n, state |-> AccountState(chain, a)] ELSE @[a]],
        !.messagesFrom = IF @ < from THEN @ ELSE from]

-----------------------------------------------------------------------------
(* The follower *)

\* still_on_l1, for the latest L2 block of the database.
OnPlace(b) == b.l1Block \in DOMAIN rollupTxs /\ rollupTxs[b.l1Block] = b.l1Tx
StillOnL1 ==
    \A b \in db.blocks : (\A c \in db.blocks : Len(c.block) <= Len(b.block)) => OnPlace(b)

\* Databases on which a start from `s` does not index all again: L1 has a
\* block of the snapshot's chain elsewhere; a start before this one rewound
\* further, and stopped before it had indexed again what it forgot; L1 lost
\* blocks, but not the last L2 block that was indexed.
Moved(s) == \E b \in db.blocks : Len(b.block) <= Len(s.chain) /\ ~OnPlace(b)
Behind(s) == \E n \in DOMAIN s.chain : ~\E r \in db.l1Txs : r.tx = Advance(SubSeq(s.chain, 1, n))
Unnoticed == StillOnL1 /\ ~watched

\* The follower starts from the latest snapshot that the rollup contract's
\* block number reaches, and forgets what came after it if L1 lost blocks.
StartFollower ==
    /\ step = "down"
    /\ LET s == Snapshot(Len(HeadIn(rollupTxs)))
           before == Max({0, s.l1Block - L1_REINDEX_BLOCKS})
       IN /\ rebuilt' = s.chain
          /\ usual' = (usual /\ ~Moved(s) /\ ~Behind(s) /\ ~Unnoticed)
          /\ IF StillOnL1
             THEN fromBlock' = s.l1Block /\ UNCHANGED db
             ELSE fromBlock' = before /\ db' = Rewind(s.chain, before)
          /\ committed' = db'
    /\ step' = "poll" /\ watched' = TRUE
    /\ UNCHANGED <<rollupTxs, logs, stops>>

\* The process ends, and the transaction it did not commit with it.
Stop ==
    /\ step' = "down" /\ logs' = {} /\ rebuilt' = <<>> /\ fromBlock' = 0
    /\ db' = committed

\* Reads the BlockAdded events from its L1 block on; it exits when the
\* rollup contract has fewer blocks than it rebuilt.
Poll ==
    /\ step = "poll"
    /\ IF Len(HeadIn(rollupTxs)) < Len(rebuilt)
       THEN Stop
       ELSE /\ logs' = {i \in PostsAt(rollupTxs) : i >= fromBlock}
            /\ step' = "logs"
            /\ UNCHANGED <<rebuilt, fromBlock, db>>
    /\ UNCHANGED <<rollupTxs, committed, watched, usual, stops>>

\* The event's block, from its transaction and blobs, applied on the chain.
\* It is not when L1 no longer has it, or when it is not on its parent.
Rebuild(i) ==
    IF i \in PostsAt(rollupTxs) /\ Front(rollupTxs[i].what) = rebuilt
    THEN {rollupTxs[i].what}
    ELSE {}

\* An event of a block it has: the transaction is indexed if the explorer
\* forgot it.  (An event that L1 no longer has was of such a block, or ends
\* the process.)
IsKnown(i) == Len(rollupTxs[i].what) <= Len(rebuilt)
KnownLog ==
    /\ step = "logs" /\ logs # {}
    /\ LET i == Min(logs)
       IN /\ i \in PostsAt(rollupTxs) => IsKnown(i)
          /\ db' = IF i \in PostsAt(rollupTxs) /\ (\A r \in db.l1Txs : r.tx # rollupTxs[i])
                   THEN AddL1Tx(db, i) ELSE db
    /\ logs' = logs \ {Min(logs)}
    /\ UNCHANGED <<rollupTxs, committed, step, rebuilt, fromBlock, watched, usual, stops>>

\* An event of a new block: it is rebuilt, indexed, and committed, with a
\* snapshot at each interval.  The process ends at one it cannot rebuild.
NewLog ==
    /\ step = "logs" /\ logs # {}
    /\ LET i == Min(logs)
       IN \/ /\ i \in PostsAt(rollupTxs) => ~IsKnown(i)
             /\ Rebuild(i) = {}
             /\ Stop /\ UNCHANGED committed
          \/ \E block \in Rebuild(i) :
               /\ LET indexed == IndexBlock(db, block, i)
                  IN db' = IF Len(block) % SNAPSHOT_INTERVAL = 0
                           THEN SaveSnapshot(indexed, block, i) ELSE indexed
               /\ committed' = db'
               /\ rebuilt' = block /\ fromBlock' = i
               /\ logs' = logs \ {i} /\ step' = step
    /\ UNCHANGED <<rollupTxs, watched, usual, stops>>

\* index_messages: deposits, then claims, from the L1 block it reached.  At an
\* error it is done with those up to some block, which are committed, and begins
\* again with the same ones after the next poll.
AddIf(kind, from, d, i) == IF i >= from /\ rollupTxs[i].kind = kind THEN AddL1Tx(d, i) ELSE d
AddUpTo(n, kind, from, d) == FoldLeft(LAMBDA e, i : AddIf(kind, from, e, i), d, [i \in 1..n |-> i])
IndexMessages ==
    /\ step = "logs" /\ logs = {}
    /\ LET from == db.messagesFrom
           last == Len(rollupTxs)
           withDeposits(n) == AddUpTo(n, "deposit", from, db)
           withClaims(n) == AddUpTo(n, "withdrawal claim", from, withDeposits(last))
       IN \/ /\ db' = IF last < from THEN db ELSE [withClaims(last) EXCEPT !.messagesFrom = last + 1]
             /\ UNCHANGED stops
          \/ /\ \E n \in 0..last : db' \in {withDeposits(n), withClaims(n)}
             /\ stops < MaxStops /\ stops' = stops + 1
    /\ committed' = db'
    /\ step' = "poll"
    /\ UNCHANGED <<rollupTxs, rebuilt, fromBlock, logs, watched, usual>>

\* It stops anywhere: an error of L1's or of the consensus layer's, which
\* may not serve a block's blobs; what it did not commit is lost.
FollowerCrash ==
    /\ step # "down" /\ stops < MaxStops
    /\ stops' = stops + 1
    /\ Stop
    /\ UNCHANGED <<rollupTxs, committed, watched, usual>>

FollowerInit ==
    /\ rollupTxs = <<>>
    /\ db = EmptyDb /\ committed = EmptyDb
    /\ step = "down" /\ rebuilt = <<>> /\ fromBlock = 0 /\ logs = {}
    /\ watched = TRUE /\ usual = TRUE
    /\ stops = 0

FollowerNext ==
    \/ Mine \/ LoseBlocks
    \/ StartFollower \/ Poll \/ KnownLog \/ NewLog \/ IndexMessages \/ FollowerCrash

-----------------------------------------------------------------------------
(* Properties *)

\* What L1 tells: its transactions where they are, the L2 blocks they carry,
\* and both sides of each message.
OnL1 ==
    LET txs == rollupTxs
        depositAt(i) == Cardinality({j \in 1..(i - 1) : txs[j].kind = "deposit"})
        posts == PostsAt(txs)
    IN [l1Txs  |-> {[tx |-> txs[i], block |-> i] : i \in DOMAIN txs},
        l2Txs  |-> {[tx |-> L2Tx(Last(txs[i].what)), block |-> Len(txs[i].what)] :
                        i \in {j \in posts : Last(txs[j].what) # "none"}},
        blocks |-> {[block |-> txs[i].what, l1Tx |-> txs[i], l1Block |-> i] : i \in posts},
        sides  |-> {Side("deposits", depositAt(i), "l1", txs[i], i) : i \in {j \in DOMAIN txs : txs[j].kind = "deposit"}}
            \cup {Side("withdrawals", 0, "l1", txs[i], i) : i \in {j \in DOMAIN txs : txs[j].kind = "withdrawal claim"}}
            \cup {Side("deposits", 0, "l2", L2Tx("claim"), Len(txs[i].what)) : i \in {j \in posts : Last(txs[j].what) = "claim"}}
            \cup {Side("withdrawals", 0, "l2", L2Tx("send"), Len(txs[i].what)) : i \in {j \in posts : Last(txs[j].what) = "send"}}]

\* Once it has read all that L1 has, the explorer shows exactly that: the
\* transactions, the L2 blocks, both sides of every message and the state of
\* every account, whatever stops, rewinds and blocks indexed twice came
\* before.  Not after a start on the databases above, which the code does
\* not recover from, nor until it starts again if L1 lost blocks and got as
\* many others between two polls.
ExplorerShowsL1 ==
    step = "poll" /\ watched /\ usual /\ rebuilt = HeadIn(rollupTxs) /\ db.messagesFrom > Len(rollupTxs) =>
        /\ OnL1 = [l1Txs |-> db.l1Txs, l2Txs |-> db.l2Txs, blocks |-> db.blocks, sides |-> db.sides]
        /\ \A a \in Accounts : db.accounts[a].state = AccountState(rebuilt, a)
===============================================================================
