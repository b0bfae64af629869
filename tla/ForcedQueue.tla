---------------------------- MODULE ForcedQueue ----------------------------
(***************************************************************************)
(* What the forced transaction inbox promises, without its linked list:    *)
(* one entry per sender, ordered by fee and then by submission, admitted   *)
(* on a recent L2 state, and leaving only when it is outbid, executed or   *)
(* shown dead.  The rollup that settles it and FOCIL's check of an L2      *)
(* block against the inclusion list are not in the repository's code: they *)
(* are modelled from how `settle` uses them (ForcedInboxValidated.sol).    *)
(*                                                                         *)
(* A transaction's hash and its sender's signature are the transaction     *)
(* itself; an account proof against a state root is a look into `chain`.   *)
(***************************************************************************)
EXTENDS Integers, Sequences, FiniteSets, FiniteSetsExt

CONSTANTS Senders,       \* the accounts that sign forced transactions
          Txs,           \* the signed transactions that exist
          Balances,      \* the balances the accounts can have, all accounts together
          NoEntry,       \* what `entry` holds for a sender that is not queued
          MaxQueueSize,  \* MAX_QUEUE_SIZE
          MaxProofAge,   \* MAX_PROOF_AGE, in L2 blocks
          MaxILCount,    \* MAX_IL_COUNT
          TxMaxGasLimit, \* TX_MAX_GAS_LIMIT
          MaxNonce,      \* 2^64 - 1, which no transaction's nonce may reach
          GasBudget,     \* the gas of an inclusion list
          BlockGasLimit, \* the gas of an L2 block
          BaseFees,      \* the base fees an L2 block can have
          MaxBlocks      \* bound: L2 blocks after the genesis

Tx == [sender : Senders, nonce : Nat, gasLimit : Nat, maxFeePerGas : Nat,
       maxPriorityFeePerGas : Nat, value : Nat, intrinsicGas : Nat]

ASSUME ConstantsAssumption ==
    /\ Txs \subseteq Tx
    /\ Balances \subseteq [Senders -> Nat]
    /\ BaseFees \subseteq Nat
    /\ MaxQueueSize \in Nat \ {0}
    /\ MaxProofAge \in Nat
    /\ MaxILCount \in Nat \ {0}
    /\ BlockGasLimit \in Nat
    /\ GasBudget \in Nat
    /\ TxMaxGasLimit \in Nat
    /\ MaxNonce \in Nat
    /\ MaxBlocks \in Nat
    /\ IsFiniteSet(Senders)
    /\ NoEntry \notin [tx : Txs, l2BlockNumber : Nat]

VARIABLES entry,  \* sender -> its queued transaction and admission block, or NoEntry
          older,  \* the pairs of queued senders, the first submitted before the second
          chain   \* the L2 states the rollup has posted, one per block from the genesis

vars == <<entry, older, chain>>

Account == [nonce : Nat, balance : Nat]
Entry   == [tx : Txs, l2BlockNumber : Nat]
-----------------------------------------------------------------------------
Queued == {s \in Senders : entry[s] # NoEntry}

\* The rollup's `blockNumber`, and the state its history has for block n.
blockNumber   == Len(chain) - 1
StateAt(n)    == chain[n + 1]

Cost(t) == t.gasLimit * t.maxFeePerGas + t.value

\* What `_validateTxWithState` requires of a proven account.
Executable(t, account) == /\ t.nonce = account.nonce
                          /\ account.balance >= Cost(t)

\* `SecureMerkleTrie.get` reverts unless the account is in the state.
InState(account) == account.nonce > 0 \/ account.balance > 0

\* `_validateTxBasics`.
ValidBasics(t) == /\ t.gasLimit <= TxMaxGasLimit
                  /\ t.nonce < MaxNonce
                  /\ t.maxFeePerGas >= t.maxPriorityFeePerGas
                  /\ t.intrinsicGas <= t.gasLimit

\* `_recentStateRootAt` does not revert.
Recent(n) == n <= blockNumber /\ n + MaxProofAge >= blockNumber

Fee(s) == entry[s].tx.maxFeePerGas

\* s is closer to the queue's head than t.
Ahead(s, t) == \/ Fee(s) > Fee(t)
               \/ Fee(s) = Fee(t) /\ <<s, t>> \in older

AheadOf(s) == {u \in Queued : Ahead(u, s)}

Gas(S) == SumFunctionOnSet([s \in S |-> entry[s].tx.gasLimit], S)

\* `currentIL`: the head of the queue that pays the base fee, up to the gas
\* budget and the count.
InclusionList(baseFee) ==
    {s \in Queued : /\ Fee(s) >= baseFee
                    /\ Cardinality(AheadOf(s)) < MaxILCount
                    /\ Gas(AheadOf(s) \cup {s}) <= GasBudget}

\* Entries that leave the queue take their place in it along.
Leave(S) == /\ entry' = [s \in Senders |-> IF s \in S THEN NoEntry ELSE entry[s]]
            /\ older' = {p \in older : p[1] \notin S /\ p[2] \notin S}

\* Mutant of Enter: the entry records the block before the one it was proven at.
EnterAtParent(t, n, evicted) ==
    /\ entry' = [s \in Senders |->
                    IF s = t.sender THEN [tx |-> t, l2BlockNumber |-> n - 1]
                    ELSE IF s \in evicted THEN NoEntry ELSE entry[s]]
    /\ older' = {p \in older : {p[1], p[2]} \cap (evicted \cup {t.sender}) = {}}
                   \cup ((Queued \ (evicted \cup {t.sender})) \X {t.sender})

\* The sender is queued last among the entries of its fee.
Enter(t, n, evicted) ==
    /\ entry' = [s \in Senders |->
                    IF s = t.sender THEN [tx |-> t, l2BlockNumber |-> n]
                    ELSE IF s \in evicted THEN NoEntry ELSE entry[s]]
    /\ older' = {p \in older : {p[1], p[2]} \cap (evicted \cup {t.sender}) = {}}
                   \cup ((Queued \ (evicted \cup {t.sender})) \X {t.sender})
-----------------------------------------------------------------------------
Init == /\ entry = [s \in Senders |-> NoEntry]
        /\ older = {}
        /\ \E balance \in Balances :
              chain = <<[s \in Senders |-> [nonce |-> 0, balance |-> balance[s]]]>>

\* Mutant of Admissible: a nonce ahead of the account's is accepted.
AdmissibleNonceAhead(t, n) == /\ ValidBasics(t)
                              /\ Recent(n)
                              /\ InState(StateAt(n)[t.sender])
                              /\ t.nonce >= StateAt(n)[t.sender].nonce
                              /\ StateAt(n)[t.sender].balance >= Cost(t)

Admissible(t, n) == /\ ValidBasics(t)
                    /\ Recent(n)
                    /\ InState(StateAt(n)[t.sender])
                    /\ Executable(t, StateAt(n)[t.sender])

\* `add` for a sender that is queued: the fee must rise, the block not fall.
Replace(t, n) == /\ Admissible(t, n)
                 /\ t.sender \in Queued
                 /\ t.maxFeePerGas > Fee(t.sender)
                 /\ n >= entry[t.sender].l2BlockNumber
                 /\ Enter(t, n, {})
                 /\ UNCHANGED chain

\* Mutant of Enqueue: the queue takes one entry more than its size.
EnqueueOneMore(t, n) == /\ Admissible(t, n)
                        /\ t.sender \notin Queued
                        /\ Cardinality(Queued) <= MaxQueueSize
                        /\ Enter(t, n, {})
                        /\ UNCHANGED chain

\* `add` for a sender that is not queued, while there is room.
Enqueue(t, n) == /\ Admissible(t, n)
                 /\ t.sender \notin Queued
                 /\ Cardinality(Queued) < MaxQueueSize
                 /\ Enter(t, n, {})
                 /\ UNCHANGED chain

\* `add` for a sender that is not queued, when the queue is full: it must
\* outbid the tail, which leaves.
Outbid(t, n) == /\ Admissible(t, n)
                /\ t.sender \notin Queued
                /\ Cardinality(Queued) >= MaxQueueSize
                /\ \E tail \in Queued : /\ \A u \in Queued \ {tail} : Ahead(u, tail)
                                        /\ t.maxFeePerGas > Fee(tail)
                                        /\ Enter(t, n, {tail})
                /\ UNCHANGED chain

\* Mutant of Prunable: only an account that can no longer pay is dropped.
PrunableUnaffordable(s, n) == /\ n > entry[s].l2BlockNumber
                              /\ Recent(n)
                              /\ InState(StateAt(n)[s])
                              /\ StateAt(n)[s].balance < Cost(entry[s].tx)

\* What `prune` requires of a proof at block n.
Prunable(s, n) == /\ n > entry[s].l2BlockNumber
                  /\ Recent(n)
                  /\ InState(StateAt(n)[s])
                  /\ \/ StateAt(n)[s].nonce > entry[s].tx.nonce
                     \/ StateAt(n)[s].balance < Cost(entry[s].tx)

Prune(s, n) == /\ s \in Queued
               /\ Prunable(s, n)
               /\ Leave({s})
               /\ UNCHANGED chain

\* The state after an L2 block that executes `body`: one transaction of each
\* of its senders (bound), and whatever the others move between balances.
PostState(body, balance) ==
    [s \in Senders |-> [nonce   |-> StateAt(blockNumber)[s].nonce
                                      + (IF \E t \in body : t.sender = s THEN 1 ELSE 0),
                        balance |-> balance[s]]]

\* The transactions whose nonce is next on L2.
NextTxs == {t \in Txs : t.nonce = StateAt(blockNumber)[t.sender].nonce}

ValidBody(body, gasUsed) ==
    /\ \A t, u \in body : t.sender = u.sender => t = u
    /\ Cardinality(body) <= gasUsed

\* An account loses balance only after it sent a transaction or an EIP-7702
\* authorization, which leaves its nonce above zero.
Spendable(post) ==
    \A s \in Senders : \/ post[s].nonce > 0
                       \/ post[s].balance >= StateAt(blockNumber)[s].balance

\* FOCIL's `check_transaction` on a listed transaction the block omits.
CouldAppend(t, post, baseFee, gasUsed) ==
    /\ Executable(t, post[t.sender])
    /\ t.maxFeePerGas >= baseFee
    /\ t.gasLimit <= BlockGasLimit - gasUsed

\* Mutant of Settled: the room is the block's gas limit, not what is left of it.
SettledByLimit(il, proven, gasUsed) ==
    {s \in il : s \in proven \/ entry[s].tx.gasLimit <= BlockGasLimit}

\* `settle` removes the entries proven to be in the block, and those absent
\* from it that the block had room for.
Settled(il, proven, gasUsed) ==
    {s \in il : s \in proven \/ entry[s].tx.gasLimit <= BlockGasLimit - gasUsed}

\* The rollup posts a block whose proof reports the current list satisfied,
\* and calls `settle` with proofs of some of the listed transactions in it.
Advance(body, baseFee, gasUsed, balance) ==
    LET post == PostState(body, balance)
        il   == InclusionList(baseFee)
    IN /\ blockNumber < MaxBlocks
       /\ ValidBody(body, gasUsed)
       /\ chain' = Append(chain, post)
       /\ Spendable(post)
       /\ \A s \in il : \/ entry[s].tx \in body
                        \/ ~CouldAppend(entry[s].tx, post, baseFee, gasUsed)
       /\ \E proven \in SUBSET {s \in il : entry[s].tx \in body} :
             Leave(Settled(il, proven, gasUsed))

Next == \/ \E t \in Txs, n \in 0..blockNumber :
              Replace(t, n) \/ Enqueue(t, n) \/ Outbid(t, n)
        \/ \E s \in Senders, n \in 0..blockNumber : Prune(s, n)
        \/ \E body \in SUBSET NextTxs, baseFee \in BaseFees, gasUsed \in 0..BlockGasLimit,
              balance \in Balances : Advance(body, baseFee, gasUsed, balance)

Spec == Init /\ [][Next]_vars

\* Anyone can prune, and everyone waiting in the queue gains from it.
FairSpec == Spec /\ \A s \in Senders : WF_vars(\E n \in 0..blockNumber : Prune(s, n))
-----------------------------------------------------------------------------
\* Every variable has its type.
TypeOK == /\ entry \in [Senders -> Entry \cup {NoEntry}]
          /\ older \subseteq Senders \X Senders
          /\ chain \in Seq([Senders -> Account])
          /\ chain # <<>>

\* What makes the next property inductive: an entry was executable on the
\* state it was admitted with ...
Admitted == \A s \in Queued :
                /\ entry[s].tx.sender = s
                /\ entry[s].l2BlockNumber <= blockNumber
                /\ Executable(entry[s].tx, StateAt(entry[s].l2BlockNumber)[s])
                /\ InState(StateAt(entry[s].l2BlockNumber)[s])

\* ... and an account's nonce never falls, nor its balance while the nonce is 0.
StatesRise == \A i, j \in 1..Len(chain), s \in Senders :
                  i <= j => /\ chain[i][s].nonce <= chain[j][s].nonce
                            /\ \/ chain[j][s].nonce > 0
                               \/ chain[i][s].balance <= chain[j][s].balance

\* Every queued transaction either can execute on the newest L2 state or can
\* be pruned against it: `add`'s checks, the admission block `prune` compares
\* with and the proof age never leave a dead entry stuck in the queue.
ExecutableOrPrunable ==
    \A s \in Queued : \/ Executable(entry[s].tx, StateAt(blockNumber)[s])
                      \/ Prunable(s, blockNumber)

\* The queue never holds more than `MAX_QUEUE_SIZE` entries.
WithinCapacity == Cardinality(Queued) <= MaxQueueSize

\* s could not have executed on some state after its admission.
DiedIn(states, s) ==
    \E n \in (entry[s].l2BlockNumber + 2)..Len(states) :
        ~Executable(entry[s].tx, states[n][s])

\* The queue was full and the sender that entered pays more than s, which
\* paid no more than any other entry.
OutbidBy(s) == /\ Cardinality(Queued) >= MaxQueueSize
               /\ \A v \in Queued : Fee(v) >= Fee(s)
               /\ \E u \in Senders : /\ entry[u] = NoEntry
                                    /\ entry'[u] # NoEntry
                                    /\ entry'[u].tx.maxFeePerGas > Fee(s)

\* No entry is censored: what `add`, `prune` and `settle` remove was outbid in
\* a full queue, or was executed or otherwise dead on a state after its
\* admission.  `settle` infers the latter from the room left in the block.
LeavesForCause ==
    [][\A s \in Senders :
          entry[s] # NoEntry /\ entry'[s] = NoEntry
             => DiedIn(chain', s) \/ OutbidBy(s)]_vars

\* "`prune` eventually clears them": an entry whose nonce L2 has passed does
\* not stay, even if blocks keep coming.
StaleEntryLeaves ==
    \A s \in Senders, t \in Txs :
        (s \in Queued /\ entry[s].tx = t /\ t.nonce < StateAt(blockNumber)[s].nonce)
            ~> (s \notin Queued \/ entry[s].tx # t)
=============================================================================
