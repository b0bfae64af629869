------------------------------- MODULE Posting -------------------------------
(***************************************************************************)
(* The operator's posting loop (frames_operator.py, `sequence`): one       *)
(* thread preconfirms blocks, the other sends their posts to the L1        *)
(* clients and infers from nonces which of them are on their way.  Its     *)
(* memory, `inFlight`, is lost when the process starts again.              *)
(*                                                                         *)
(* An L2 block is its whole chain, a sequence with one entry per block, so *)
(* its number is its length and its parent is its Front; the rollup        *)
(* contract adds a block only on its parent.  A post is the frame          *)
(* transaction of a block with a nonce of the operator's account.          *)
(***************************************************************************)
EXTENDS Integers, SequencesExt

CONSTANTS
    Clients,     \* the L1 clients posts are submitted to
    OnePerSender, \* those that keep one pending frame transaction per sender
    MAX_POSTS,   \* posts on their way at a time
    MaxHeight,   \* bound: the L2 chain's length
    MaxFaults,   \* bound: evictions, L1 reorgs and expiries of L2 blocks
    MaxRestarts  \* bound: restarts of the operator

ASSUME PostingAssumption ==
    /\ OnePerSender \subseteq Clients
    /\ OnePerSender # {}
    /\ MAX_POSTS \in Nat \ {0}
    /\ {MaxHeight, MaxFaults, MaxRestarts} \subseteq Nat

VARIABLES
    l1,         \* the operator's transactions on L1, in nonce order
    pools,      \* each client's pending posts
    builders,   \* the clients whose blocks L1 has (fixed)
    l2,         \* the L2 node's head
    final,      \* the number of blocks the node has marked posted
    pc,         \* where the posting loop is
    inFlight,   \* posts sent and not seen on L1 by this process
    offered,    \* those offered again
    confirmed, pending,  \* the nonces read in this round, 0 once unread
    ready,      \* the blocks still to send in this round
    faults, restarts
operatorVars == <<pc, inFlight, offered, confirmed, pending, ready>>
nodeVars == <<l2, final>>
postingVars == <<l1, pools, builders, nodeVars, operatorVars, faults, restarts>>

Blocks == Seq(0..MaxFaults)
Posts  == [block : Blocks, nonce : Nat]

PostingTypeOK ==
    /\ \A i \in DOMAIN l1 : l1[i].block \in Blocks /\ l1[i].ok \in BOOLEAN
    /\ \A c \in Clients : \A p \in pools[c] : p \in Posts
    /\ builders \subseteq Clients
    /\ l2 \in Blocks /\ final \in 0..Len(l2)
    /\ pc \in {"receipts", "confirmed", "pending", "offer", "fetch", "send"}
    /\ \A p \in inFlight : p \in Posts
    /\ offered \subseteq 1..MaxHeight
    /\ {confirmed, pending} \subseteq Nat
    /\ ready \in Seq(Blocks)
    /\ faults \in 0..MaxFaults /\ restarts \in 0..MaxRestarts

-----------------------------------------------------------------------------
(* L1: the rollup contract and the clients' pools *)

\* The rollup contract's head: the last block whose post succeeded.
HeadOf(txs) == LET ok == {i \in DOMAIN txs : txs[i].ok}
               IN IF ok = {} THEN <<>> ELSE txs[Max(ok)].block
RollupHead == HeadOf(l1)

\* eth_getTransactionCount: the account's nonce, and past the pending
\* transactions of a client that follow it without a gap.
Nonce == Len(l1)
PendingNonce(c) ==
    CHOOSE n \in Nonce..(Nonce + Cardinality(pools[c])) :
        /\ \A k \in Nonce..(n - 1) : \E p \in pools[c] : p.nonce = k
        /\ ~\E p \in pools[c] : p.nonce = n

\* A client takes one transaction per nonce, and some clients only the next
\* of a sender.
Takes(c, p) ==
    /\ p.nonce >= Nonce
    /\ \A q \in pools[c] : q.nonce # p.nonce
    /\ c \in OnePerSender => pools[c] = {} /\ p.nonce = Nonce

\* submit: to every client, and it fails if none takes the transaction.
Submitted(p) == [c \in Clients |-> IF Takes(c, p) THEN pools[c] \cup {p} ELSE pools[c]]
Refused(p) == ~\E c \in Clients : Takes(c, p)

\* The node reads the rollup's head every 2 seconds, many times per L1 block,
\* so it has followed one L1 block before the next.
Followed == IsPrefix(SubSeq(l2, 1, final), RollupHead) /\ IsPrefix(RollupHead, l2)

\* A builder includes the operator's next transaction; `advance` in it adds
\* the block if its parent is the rollup's head.
Include ==
    /\ Followed
    /\ \E c \in builders : \E p \in pools[c] :
         /\ p.nonce = Nonce
         /\ l1' = Append(l1, [block |-> p.block, ok |-> p.block # <<>> /\ Front(p.block) = RollupHead])
    /\ pools' = [c \in Clients |-> {p \in pools[c] : p.nonce > Nonce}]
    /\ UNCHANGED <<builders, nodeVars, operatorVars, faults, restarts>>

\* A client drops a post from its pool.
Evict ==
    /\ faults < MaxFaults
    /\ faults' = faults + 1
    /\ \E c \in Clients : \E p \in pools[c] : pools' = [pools EXCEPT ![c] = @ \ {p}]
    /\ UNCHANGED <<l1, builders, nodeVars, operatorVars, restarts>>

\* A reorg removes the last post from L1; the clients may have it pending
\* again, or have lost it.
Reorg ==
    /\ faults < MaxFaults
    /\ faults' = faults + 1
    /\ l1 # <<>>
    /\ l1' = Front(l1)
    /\ \E cs \in SUBSET Clients :
         pools' = [c \in Clients |->
                    (IF c \in OnePerSender /\ c \in cs THEN {} ELSE pools[c])
                        \cup (IF c \in cs THEN {[block |-> Last(l1).block, nonce |-> Nonce - 1]} ELSE {})]
    /\ UNCHANGED <<builders, nodeVars, operatorVars, restarts>>

-----------------------------------------------------------------------------
(* The L2 node, for what the operator sees of it *)

\* preconfirm_block: the next block on the node's head, which counts from
\* when the proving time has passed.  Blocks built after a fault differ from
\* those before it.
Produce ==
    /\ Len(l2) < MaxHeight
    /\ l2' = Append(l2, faults)
    /\ UNCHANGED <<l1, pools, builders, final, operatorVars, faults, restarts>>

\* The node has the chain `h` of the rollup contract, and nothing after it.
OnlyPosted(h) == l2' = h /\ final' = Len(h)

\* follow: marks posted what L1 has; gives up its waiting blocks when L1
\* has others, which it derives, and those that L1 lost.
Follow ==
    /\ RollupHead # SubSeq(l2, 1, final)
    /\ IF IsPrefix(RollupHead, l2) /\ Len(RollupHead) > final
       THEN final' = Len(RollupHead) /\ UNCHANGED l2
       ELSE OnlyPosted(RollupHead)
    /\ UNCHANGED <<l1, pools, builders, operatorVars, faults, restarts>>

\* The waiting blocks expire.
Expire ==
    /\ faults < MaxFaults
    /\ faults' = faults + 1
    /\ final < Len(l2)
    /\ OnlyPosted(SubSeq(l2, 1, final))
    /\ UNCHANGED <<l1, pools, builders, operatorVars, restarts>>

-----------------------------------------------------------------------------
(* The posting loop *)

Number(p) == Len(p.block)
Highest == Max({0} \cup {Number(p) : p \in inFlight})

\* Posts with a receipt, successful or not, are no longer in flight.
Receipts ==
    /\ pc = "receipts"
    /\ LET landed == {p \in inFlight : p.nonce < Nonce /\ l1[p.nonce + 1].block = p.block}
       IN /\ inFlight' = inFlight \ landed
          /\ offered' = offered \ {Number(p) : p \in landed}
    /\ pc' = "confirmed"
    /\ UNCHANGED <<l1, pools, builders, nodeVars, confirmed, pending, ready, faults, restarts>>

ReadConfirmed ==
    /\ pc = "confirmed"
    /\ confirmed' = Nonce
    /\ pc' = "pending"
    /\ UNCHANGED <<l1, pools, builders, nodeVars, inFlight, offered, pending, ready, faults, restarts>>

\* Mutant: a process that knows of no posts in flight sends on.
MayGoOn(seen) == TRUE

\* Whether the process knows the posts that are pending.
KnowsInFlight(seen) == inFlight # {}

\* With nothing pending, every earlier post landed or was dropped.  With
\* posts pending that this process did not send, it waits.
ReadPending ==
    /\ pc = "pending"
    /\ LET seen == Max({PendingNonce(c) : c \in Clients})
       IN \/ /\ seen = confirmed
             /\ inFlight' = {} /\ offered' = {}
             /\ pc' = "fetch" /\ pending' = seen /\ confirmed' = 0
          \/ /\ seen # confirmed /\ KnowsInFlight(seen)
             /\ pc' = "offer" /\ pending' = seen
             /\ UNCHANGED <<inFlight, offered, confirmed>>
          \/ /\ seen # confirmed /\ ~KnowsInFlight(seen)
             /\ pc' = "receipts" /\ confirmed' = 0
             /\ UNCHANGED <<inFlight, offered, pending>>
    /\ UNCHANGED <<l1, pools, builders, nodeVars, ready, faults, restarts>>

\* Mutant: no post is offered again.
NeverAgain == {}

\* The post that is the next to land is offered again, once.
Again == {p \in inFlight : p.nonce = confirmed /\ Number(p) \notin offered}

Offer ==
    /\ pc = "offer"
    /\ offered' = offered \cup {Number(p) : p \in Again}
    /\ IF Again = {} THEN UNCHANGED pools
       ELSE \E p \in Again : pools' = Submitted(p)
    /\ pc' = "fetch" /\ confirmed' = 0
    /\ UNCHANGED <<l1, builders, nodeVars, inFlight, pending, ready, faults, restarts>>

\* nr_waitingPosts: at most MAX_POSTS blocks from the rollup's head, those
\* of them after the posts in flight, up to MAX_POSTS in all.
WaitingPosts(h) ==
    LET from == IF final > Len(h) THEN final ELSE Len(h)
        to   == IF Len(l2) < from + MAX_POSTS THEN Len(l2) ELSE from + MAX_POSTS
        low  == Max({from, Highest})
        some == IF low < to THEN to - low ELSE 0
        room == MAX_POSTS - Cardinality(inFlight)
    IN [i \in 1..(IF some < room THEN some ELSE room) |-> SubSeq(l2, 1, low + i)]

\* The node refuses a head it does not have, and marks posted the blocks up
\* to one it has.
Fetch ==
    /\ pc = "fetch"
    /\ IF IsPrefix(RollupHead, l2)
       THEN /\ ready' = WaitingPosts(RollupHead)
            /\ final' = Max({final, Len(RollupHead)})
            /\ pc' = "send" /\ UNCHANGED pending
       ELSE pc' = "receipts" /\ pending' = 0 /\ UNCHANGED <<ready, final>>
    /\ UNCHANGED <<l1, pools, builders, l2, inFlight, offered, confirmed, faults, restarts>>

\* send_post, one block after the other; the round ends at the first post
\* that every client refuses.
SendPost ==
    /\ pc = "send"
    /\ IF ready = <<>> \/ Refused([block |-> Head(ready), nonce |-> pending])
       THEN ready' = <<>> /\ pending' = 0 /\ pc' = "receipts" /\ UNCHANGED <<pools, inFlight>>
       ELSE LET p == [block |-> Head(ready), nonce |-> pending]
            IN /\ pools' = Submitted(p)
               /\ inFlight' = {q \in inFlight : Number(q) # Number(p)} \cup {p}
               /\ pending' = pending + 1
               /\ ready' = Tail(ready)
               /\ pc' = pc
    /\ UNCHANGED <<l1, builders, nodeVars, offered, confirmed, faults, restarts>>

\* The operator starts again, without its memory.
Restart ==
    /\ restarts < MaxRestarts
    /\ restarts' = restarts + 1
    /\ pc' = "receipts" /\ inFlight' = {} /\ offered' = {} /\ ready' = <<>>
    /\ confirmed' = 0 /\ pending' = 0
    /\ UNCHANGED <<l1, pools, builders, nodeVars, faults>>

-----------------------------------------------------------------------------
PostingInit ==
    /\ l1 = <<>>
    /\ pools = [c \in Clients |-> {}]
    /\ builders \in {Clients, OnePerSender}
    /\ l2 = <<>> /\ final = 0
    /\ pc = "receipts" /\ inFlight = {} /\ offered = {} /\ ready = <<>>
    /\ confirmed = 0 /\ pending = 0
    /\ faults = 0 /\ restarts = 0

Loop == Receipts \/ ReadConfirmed \/ ReadPending \/ Offer \/ Fetch \/ SendPost
Faults == Evict \/ Reorg \/ Expire \/ Restart

PostingNext == Include \/ Produce \/ Follow \/ Loop \/ Faults

-----------------------------------------------------------------------------
(* Properties *)

\* While no client loses a post and neither L1 nor the node drops a block,
\* every post adds its block, and at most MAX_POSTS are pending: the nonces
\* tell the loop what is on its way whenever posts land between its reads,
\* clients refuse some of them, or the operator starts again in mid-round.
NoWastedPosts ==
    faults = 0 =>
        /\ \A i \in DOMAIN l1 : l1[i].ok
        /\ \A c \in Clients : Cardinality(pools[c]) <= MAX_POSTS

\* However many blocks the node builds, the rollup gets to the whole L2 chain
\* and stays there, even after an eviction, a reorg or an expiry, and after a
\* restart; if only the clients that keep one transaction per sender build
\* blocks, when none of these happen.
AllPosted ==
    <>[](\/ RollupHead = l2
         \/ builders # Clients /\ faults + restarts > 0)
=============================================================================
