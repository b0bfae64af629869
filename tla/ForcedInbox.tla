---------------------------- MODULE ForcedInbox ----------------------------
(***************************************************************************)
(* The forced transaction inbox as ForcedInboxValidated.sol keeps it: the  *)
(* queue is a doubly linked list over the senders, which `_insertSorted`   *)
(* walks, `_linkRemove` unlinks from, and `settle` and `currentIL` walk    *)
(* under the same stopping rule.  ForcedQueue is what it implements.       *)
(***************************************************************************)
EXTENDS ForcedQueue

CONSTANT Null  \* address(0), which no signature recovers to

ASSUME NullAssumption == Null \notin Senders

VARIABLES list,       \* prevQueued, nextQueued, firstQueued and lastQueued
          queuedCount

inboxVars == <<entry, older, chain, list, queuedCount>>

Links == [prev : [Senders -> Senders \cup {Null}],
          next : [Senders -> Senders \cup {Null}],
          first : Senders \cup {Null},
          last : Senders \cup {Null}]
-----------------------------------------------------------------------------
\* `_linkRemove`.
LinkRemove(l, s) ==
    LET prev == l.prev[s]
        next == l.next[s]
        around == [prev  |-> IF next = Null THEN l.prev ELSE [l.prev EXCEPT ![next] = prev],
                   next  |-> IF prev = Null THEN l.next ELSE [l.next EXCEPT ![prev] = next],
                   first |-> IF prev = Null THEN next ELSE l.first,
                   last  |-> IF next = Null THEN prev ELSE l.last]
    IN [around EXCEPT !.prev[s] = Null, !.next[s] = Null]

\* The entry a walk from `firstQueued` reaches after k steps.
Reached(l, n) ==
    LET node[k \in 0..n] == IF k = 0 THEN l.first
                            ELSE IF node[k - 1] = Null THEN Null ELSE l.next[node[k - 1]]
    IN node[n]

\* Mutant of InsertionPoint: the loop stops at an entry of the same fee.
InsertionPointBeforeTies(l, e, fee) ==
    LET k == Min({n \in 0..Cardinality(Senders) :
                     LET cur == Reached(l, n)
                     IN cur = Null \/ e[cur].tx.maxFeePerGas <= fee})
    IN Reached(l, k)

\* Where the loop of `_insertSorted` stops: the first entry below the fee.
InsertionPoint(l, e, fee) ==
    LET k == Min({n \in 0..Cardinality(Senders) :
                     LET cur == Reached(l, n)
                     IN cur = Null \/ e[cur].tx.maxFeePerGas < fee})
    IN Reached(l, k)

\* `_insertSorted`, for a sender that is not in the list.
InsertBefore(l, s, cur) ==
    LET prev == IF cur = Null THEN l.last ELSE l.prev[cur]
        into == [prev  |-> IF cur = Null THEN l.prev ELSE [l.prev EXCEPT ![cur] = s],
                 next  |-> IF prev = Null THEN l.next ELSE [l.next EXCEPT ![prev] = s],
                 first |-> IF prev = Null THEN s ELSE l.first,
                 last  |-> IF cur = Null THEN s ELSE l.last]
    IN [into EXCEPT !.prev[s] = prev, !.next[s] = cur]

InsertSorted(l, e, s) == InsertBefore(l, s, InsertionPoint(l, e, e[s].tx.maxFeePerGas))

\* One entry passes the stopping rule of the walks of `settle` and `currentIL`.
Listable(e, s, gasUsed, count, baseFee) ==
    /\ s # Null
    /\ count < MaxILCount
    /\ e[s].tx.maxFeePerGas >= baseFee
    /\ gasUsed + e[s].tx.gasLimit <= GasBudget

\* `currentIL`: the senders it hashes, in order.
CurrentIL(baseFee) ==
    LET Step(w) == IF Listable(entry, w.cur, w.gasUsed, Len(w.il), baseFee)
                   THEN [cur |-> list.next[w.cur], il |-> Append(w.il, w.cur),
                         gasUsed |-> w.gasUsed + entry[w.cur].tx.gasLimit]
                   ELSE w
        walk[k \in 0..MaxILCount] ==
            IF k = 0 THEN [cur |-> list.first, il |-> <<>>, gasUsed |-> 0] ELSE Step(walk[k - 1])
    IN walk[MaxILCount].il

\* Mutant of SettleStep: the successor is read after the entry is unlinked.
SettleStepUnlinkFirst(w, proven, headroom) ==
    LET s == w.cur
        leaves == s \in proven \/ w.entry[s].tx.gasLimit <= headroom
        unlinked == IF leaves THEN LinkRemove(w.list, s) ELSE w.list
    IN [cur     |-> unlinked.next[s],
        list    |-> unlinked,
        entry   |-> IF leaves THEN [w.entry EXCEPT ![s] = NoEntry] ELSE w.entry,
        left    |-> IF leaves THEN w.left \cup {s} ELSE w.left,
        seen    |-> w.seen \cup {s},
        gasUsed |-> w.gasUsed + w.entry[s].tx.gasLimit]

\* An iteration of the loop of `settle`, at w.cur: the successor is read
\* before the entry may be unlinked.
SettleStep(w, proven, headroom) ==
    LET s == w.cur
        next == w.list.next[s]
        leaves == s \in proven \/ w.entry[s].tx.gasLimit <= headroom
    IN [cur     |-> next,
        list    |-> IF leaves THEN LinkRemove(w.list, s) ELSE w.list,
        entry   |-> IF leaves THEN [w.entry EXCEPT ![s] = NoEntry] ELSE w.entry,
        left    |-> IF leaves THEN w.left \cup {s} ELSE w.left,
        seen    |-> w.seen \cup {s},
        gasUsed |-> w.gasUsed + w.entry[s].tx.gasLimit]

\* `settle`, as the list, entries and walked senders it ends with.
Settle(baseFee, gasUsed, proven) ==
    LET walk[k \in 0..MaxILCount] ==
            IF k = 0 THEN [cur |-> list.first, list |-> list, entry |-> entry,
                           left |-> {}, seen |-> {}, gasUsed |-> 0]
            ELSE LET w == walk[k - 1]
                 IN IF Listable(w.entry, w.cur, w.gasUsed, Cardinality(w.seen), baseFee)
                    THEN SettleStep(w, proven, BlockGasLimit - gasUsed)
                    ELSE w
    IN walk[MaxILCount]
-----------------------------------------------------------------------------
InboxInit == /\ Init
             /\ list = [prev  |-> [s \in Senders |-> Null],
                        next  |-> [s \in Senders |-> Null],
                        first |-> Null,
                        last  |-> Null]
             /\ queuedCount = 0

\* `add`: unlink what the transaction replaces or evicts, then insert it.
Add(t, n) ==
    LET s       == t.sender
        tail    == list.last
        removed == IF entry[s] # NoEntry THEN {s}
                   ELSE IF queuedCount >= MaxQueueSize THEN {tail} ELSE {}
        kept    == IF removed = {} THEN list
                   ELSE LinkRemove(list, CHOOSE r \in removed : TRUE)
    IN /\ Admissible(t, n)
       /\ entry[s] # NoEntry => /\ t.maxFeePerGas > entry[s].tx.maxFeePerGas
                                /\ n >= entry[s].l2BlockNumber
       /\ entry[s] = NoEntry /\ removed # {} => t.maxFeePerGas > entry[tail].tx.maxFeePerGas
       /\ Enter(t, n, removed)
       /\ list' = InsertSorted(kept, entry', s)
       /\ queuedCount' = queuedCount - Cardinality(removed) + 1
       /\ UNCHANGED chain

\* prune.
InboxPrune(s, n) ==
    /\ entry[s] # NoEntry
    /\ Prunable(s, n)
    /\ Leave({s})
    /\ list' = LinkRemove(list, s)
    /\ queuedCount' = queuedCount - 1
    /\ UNCHANGED chain

\* `settle` reverts on a proof that matches no listed entry, so those it is
\* given are of senders it walks, in the walk's order.
InboxAdvance(body, baseFee, gasUsed, balance) ==
    LET post == PostState(body, balance)
        il   == CurrentIL(baseFee)
        listed == {il[i] : i \in DOMAIN il}
    IN /\ blockNumber < MaxBlocks
       /\ ValidBody(body, gasUsed)
       /\ Spendable(post)
       /\ \A s \in listed : \/ entry[s].tx \in body
                            \/ ~CouldAppend(entry[s].tx, post, baseFee, gasUsed)
       /\ chain' = Append(chain, post)
       /\ \E proven \in SUBSET {s \in listed : entry[s].tx \in body} :
             LET end == Settle(baseFee, gasUsed, proven)
             IN /\ proven \subseteq end.seen
                /\ entry' = end.entry
                /\ older' = {p \in older : p[1] \notin end.left /\ p[2] \notin end.left}
                /\ list' = end.list
                /\ queuedCount' = queuedCount - Cardinality(end.left)

InboxNext == \/ \E t \in Txs, n \in 0..blockNumber : Add(t, n)
             \/ \E s \in Senders, n \in 0..blockNumber : InboxPrune(s, n)
             \/ \E body \in SUBSET NextTxs, baseFee \in BaseFees, gasUsed \in 0..BlockGasLimit,
                   balance \in Balances : InboxAdvance(body, baseFee, gasUsed, balance)

InboxSpec == InboxInit /\ [][InboxNext]_inboxVars
-----------------------------------------------------------------------------
\* The senders met walking next from the head.
Forward == [k \in 1..Cardinality(Queued) |-> Reached(list, k - 1)]

\* The list is the queue, which gives its pointers and the counter their
\* types too: walking it from the head meets every queued sender once, by fee
\* and then by submission; walking it back from the tail meets the same senders
\* in reverse; unqueued senders keep no stale link, and the counter counts the
\* entries.
ListIsTheQueue ==
    LET n == Cardinality(Queued)
    IN /\ {Forward[k] : k \in 1..n} = Queued
       /\ \A k \in 1..(n - 1) : Ahead(Forward[k], Forward[k + 1])
       /\ Reached(list, n) = Null
       /\ n > 0 => list.last = Forward[n]
       /\ n = 0 => list.last = Null
       /\ \A k \in 1..n : list.prev[Forward[k]] = (IF k = 1 THEN Null ELSE Forward[k - 1])
       /\ \A s \in Senders \ Queued : list.prev[s] = Null /\ list.next[s] = Null
       /\ queuedCount = n

\* The contract's walks and pointer updates implement the promised queue: what
\* `settle` removes is what the list committed to by `currentIL` allows.
ImplementsQueue == Spec
=============================================================================
