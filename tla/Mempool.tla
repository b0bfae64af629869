------------------------------- MODULE Mempool -------------------------------
(***************************************************************************)
(* The L2 node's transaction pool (src/contracts/script/l2_node.py): what  *)
(* eth_sendRawTransaction takes, which transactions a block tries, which   *)
(* of those it rejects stay, and what comes back to the pool after the     *)
(* node dropped preconfirmed blocks.  The pool is in memory only; the      *)
(* state file keeps the blocks and the list "repool".                      *)
(*                                                                         *)
(* Amounts are abstracted to units: a transaction costs its sender one,    *)
(* and claiming an L1 message pays one to the message's recipient.         *)
(***************************************************************************)
EXTENDS Naturals, SequencesExt

CONSTANTS
    Senders,
    L1Messages,
    NoMessage,
    Recipient,     \* the L2 account an L1 message pays, for each message
    Funds,         \* what each sender has at the start
    Traffic,       \* the transactions users send (bound)
    MAX_BLOCK_TXS, \* the transactions a block tries
    BlockGas,      \* the transactions whose gas fits in a block
    MaxBlocks      \* bound: blocks of the chain

\* A transaction: a plain one may call the messenger's claim too, a frame
\* transaction here always does, before the frame that pays.
Txs == [sender : Senders, nonce : Nat, claim : L1Messages \cup {NoMessage}, frames : BOOLEAN]
PoolTxs == {t \in Txs : t.frames => t.claim # NoMessage}

ASSUME PoolAssumption ==
    /\ NoMessage \notin L1Messages
    /\ Recipient \in [L1Messages -> Senders]
    /\ Funds \in [Senders -> Nat]
    /\ Traffic \subseteq PoolTxs
    /\ {MAX_BLOCK_TXS, BlockGas} \subseteq Nat \ {0}

VARIABLES
    pool,    \* transactions in order of arrival
    chain,   \* on disk: the blocks, each with the state it leads to
    posted,  \* how many of them L1 has
    repool,  \* on disk: transactions of dropped blocks
    up       \* whether the process runs
poolVars == <<pool, chain, posted, repool, up>>

States == [nonce : [Senders -> Nat], balance : [Senders -> Nat], claimed : SUBSET L1Messages]
Genesis == [nonce |-> [s \in Senders |-> 0], balance |-> Funds, claimed |-> {}]
HeadState == IF chain = <<>> THEN Genesis ELSE Last(chain).after

PoolTypeOK ==
    /\ pool \in Seq(PoolTxs)
    /\ \A i \in DOMAIN chain : chain[i].txs \in Seq(PoolTxs) /\ chain[i].after \in States
    /\ posted \in 0..Len(chain)
    /\ repool \in Seq(PoolTxs)
    /\ up \in BOOLEAN

-----------------------------------------------------------------------------
(* Execution *)

\* A claim pays the message's recipient once; a second one reverts.
WithClaim(st, m) ==
    IF m \in L1Messages \ st.claimed
    THEN [st EXCEPT !.balance[Recipient[m]] = @ + 1, !.claimed = @ \cup {m}]
    ELSE st

\* A plain transaction pays up front, a frame transaction after its claim.
CanPay(st, t) == (IF t.frames THEN WithClaim(st, t.claim) ELSE st).balance[t.sender] > 0

Paid(st, t) == [WithClaim(st, t.claim) EXCEPT !.balance[t.sender] = @ - 1, !.nonce[t.sender] = @ + 1]

\* One transaction of a block body: included when it is valid on top of
\* those before it and its gas fits, else rejected, for the first of the
\* reasons below.
Try(b, t) ==
    LET rejected(why) == [b EXCEPT !.rejected = @ \cup {[tx |-> t, why |-> why]}]
    IN IF Len(b.txs) = BlockGas                   THEN rejected("gas")
       ELSE IF t.nonce # b.after.nonce[t.sender]  THEN rejected("nonce")
       ELSE IF ~CanPay(b.after, t)                THEN rejected("funds")
       ELSE [b EXCEPT !.txs = Append(@, t), !.after = Paid(@, t)]

Execute(st, txs) == FoldLeft(Try, [txs |-> <<>>, after |-> st, rejected |-> {}], txs)

\* Mutant: each transaction in its own place.
InItsPlace(i) == pool[i]

\* Transactions in order of arrival, each sender's in nonce order: the k-th
\* arrival of a sender gives its place to the sender's k-th lowest nonce.
Earlier(i) == Cardinality({j \in 1..i : pool[j].sender = pool[i].sender})
Below(t) == Cardinality({u \in ToSet(pool) : u.sender = t.sender /\ u.nonce <= t.nonce})
InPlaceOf(i) == CHOOSE t \in ToSet(pool) : t.sender = pool[i].sender /\ Below(t) = Earlier(i)
Candidates == [i \in 1..(IF Len(pool) < MAX_BLOCK_TXS THEN Len(pool) ELSE MAX_BLOCK_TXS) |-> InPlaceOf(i)]

-----------------------------------------------------------------------------
(* eth_sendRawTransaction *)

\* A frame transaction whose sender cannot pay up front may only claim a
\* message that pays the sender itself.
Funded(st, t) == st.balance[t.sender] > 0 \/ Recipient[t.claim] = t.sender

\* Run on the head state at its own nonce, it must be valid and its claim
\* must succeed.
ClaimSucceeds(st, t) == t.claim \notin st.claimed /\ CanPay(st, t)

SameNonce(t, u) == t.sender = u.sender /\ t.nonce = u.nonce

\* Mutant: a pending claim by the same sender does not count.
ByAnotherSender(p, t) == \A u \in ToSet(p) : u.frames /\ u.claim = t.claim => u.sender = t.sender

\* No other pending transaction claims the same message.
OnlyClaim(p, t) == \A u \in ToSet(p) : u.frames /\ u.claim = t.claim => SameNonce(u, t)

Accepts(p, st, t) ==
    /\ t.nonce >= st.nonce[t.sender]
    /\ t.frames =>
         /\ OnlyClaim(p, t)
         /\ Funded(st, t)
         /\ ClaimSucceeds(st, t)

\* The pool without the transactions outside `keep`, in its order.
Kept(p, keep) == FoldLeft(LAMBDA s, t : IF t \in keep THEN Append(s, t) ELSE s, <<>>, p)

\* A transaction replaces the sender's one with the same nonce, and arrives
\* last; one that is refused changes nothing.
Send(p, st, t) ==
    IF Accepts(p, st, t) THEN Append(Kept(p, {u \in ToSet(p) : ~SameNonce(u, t)}), t) ELSE p

SendRawTransaction ==
    /\ up
    /\ \E t \in Traffic :
         /\ Accepts(pool, HeadState, t)
         /\ pool' = Send(pool, HeadState, t)
    /\ UNCHANGED <<chain, posted, repool, up>>

-----------------------------------------------------------------------------
(* Blocks *)

\* A rejected transaction stays if it may become valid: its nonce is still
\* ahead, the block lacked gas, or a plain one lacked funds.
Waits(b, r) ==
    \/ r.tx.nonce > b.after.nonce[r.tx.sender]
    \/ r.why = "gas"
    \/ r.why = "funds" /\ ~r.tx.frames

\* What a block on state `st` leaves of the pool: it drops what it included
\* or rejected for good, and what its nonces made stale.
Left(gone, st) == Kept(pool, {t \in ToSet(pool) \ gone : t.nonce >= st.nonce[t.sender]})

\* nr_preconfirm.  The error of a frame transaction that nobody paid for is
\* the EVM's, and may be one of those that wait.
PreconfirmBlock ==
    /\ up
    /\ Len(chain) < MaxBlocks
    /\ LET b == Execute(HeadState, Candidates)
       IN /\ \E unpaid \in SUBSET {r.tx : r \in {q \in b.rejected : ~Waits(b, q)}} :
               pool' = Left(ToSet(b.txs) \cup unpaid, b.after)
          /\ chain' = Append(chain, [txs |-> b.txs, after |-> b.after])
    /\ repool' = <<>>
    /\ UNCHANGED <<posted, up>>

\* catch_up: the whole chain is posted, and L1 has a block on it that the
\* node did not build.
DeriveBlock ==
    /\ up
    /\ posted = Len(chain)
    /\ posted < MaxBlocks
    /\ \E t \in Traffic :
         LET b == Execute(HeadState, <<t>>)
         IN /\ b.rejected = {}
            /\ pool' = Left({}, b.after)
            /\ chain' = Append(chain, [txs |-> b.txs, after |-> b.after])
    /\ posted' = posted + 1
    /\ repool' = <<>>
    /\ UNCHANGED up

\* mark_posted, for the oldest preconfirmed block.
MarkPosted ==
    /\ up
    /\ posted < Len(chain)
    /\ posted' = posted + 1
    /\ repool' = <<>>
    /\ UNCHANGED <<pool, chain, up>>

TxsAfter(n) == FlattenSeq([i \in 1..(Len(chain) - n) |-> chain[n + i].txs])

\* drop_preconfirmed: the node gives up its preconfirmed blocks and exits.
DropPreconfirmed ==
    /\ up
    /\ posted < Len(chain)
    /\ repool' = TxsAfter(posted)
    /\ chain' = SubSeq(chain, 1, posted)
    /\ up' = FALSE
    /\ pool' = <<>>
    /\ UNCHANGED posted

\* The process stops at any time, or exits because L1 lost blocks; its pool
\* is lost.
Crash ==
    /\ up
    /\ up' = FALSE
    /\ pool' = <<>>
    /\ UNCHANGED <<chain, posted, repool>>

\* unpost, when the node starts and L1 has `n` blocks, fewer than it had:
\* the lost blocks and those built on them go, their transactions do not.
Unpost(n) ==
    /\ repool' = repool \o TxsAfter(n)
    /\ chain' = SubSeq(chain, 1, n)
    /\ posted' = n

\* The pool of a node that is offered these transactions, one by one.
Repooled(st, txs) == FoldLeft(LAMBDA p, t : Send(p, st, t), <<>>, txs)

\* Node.__init__: replays the stored blocks, then offers the transactions
\* of dropped blocks to the pool in their order, valid or not.  The state
\* file lists them until its next save.
Start ==
    /\ ~up
    /\ \/ UNCHANGED <<chain, posted, repool>>
       \/ \E n \in 0..(posted - 1) : Unpost(n)
    /\ pool' = Repooled(HeadState', repool')
    /\ up' = TRUE

PoolInit ==
    /\ pool = <<>>
    /\ chain = <<>>
    /\ posted = 0
    /\ repool = <<>>
    /\ up = TRUE

PoolNext ==
    \/ SendRawTransaction
    \/ PreconfirmBlock
    \/ DeriveBlock
    \/ MarkPosted
    \/ DropPreconfirmed
    \/ Crash
    \/ Start

-----------------------------------------------------------------------------
(* Properties *)

\* Two pooled transactions never claim the same L1 message, nor share their
\* sender's nonce, and none is behind its sender's account: after any mix of
\* replacements, blocks built here or derived from L1, and restarts that
\* offer dropped transactions again, a message has one claim on its way.
OnePendingClaim ==
    \A i, j \in DOMAIN pool :
        /\ up => pool[i].nonce >= HeadState.nonce[pool[i].sender]
        /\ i # j => /\ ~SameNonce(pool[i], pool[j])
                    /\ pool[i].frames /\ pool[j].frames => pool[i].claim # pool[j].claim

\* The sender has every nonce up to the transaction's in the pool, and funds
\* for all of them.
Ready(t) ==
    LET next == HeadState.nonce[t.sender]
    IN /\ \A n \in next..t.nonce : \E u \in ToSet(pool) : u.sender = t.sender /\ u.nonce = n
       /\ HeadState.balance[t.sender] > t.nonce - next

\* A block includes every transaction that is ready, in whatever order the
\* sender's transactions arrived, unless it is full; while the pool holds
\* no more than a block tries.
BlockTakesTheReady ==
    [][\A t \in ToSet(pool) :
        Len(chain') > Len(chain) /\ posted' = posted /\ Len(pool) <= MAX_BLOCK_TXS /\ Ready(t) =>
            \/ t \in ToSet(Last(chain').txs)
            \/ Len(Last(chain').txs) = BlockGas]_poolVars
=============================================================================
