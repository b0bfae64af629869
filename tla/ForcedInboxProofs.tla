------------------------- MODULE ForcedInboxProofs -------------------------
(***************************************************************************)
(* What the queue promises, and that the contract's linked list implements *)
(* it, for every set of senders, transactions and balances and every value *)
(* of the limits.  The first half proves of ForcedQueue what it promises.  *)
(* In the second the invariant says that some sequence of senders is both  *)
(* the list, pointer by pointer, and the queue in its order; the lemmas    *)
(* say what the pointer updates and the walks do to a list of any length.  *)
(***************************************************************************)
EXTENDS ForcedInbox, InductionLemmas, FiniteSetTheorems, SequenceTheorems, TLAPS

-----------------------------------------------------------------------------
(* The queue                                                               *)

USE DEF Tx, Entry, Account

IInv == TypeOK /\ Admitted /\ StatesRise /\ WithinCapacity

\* A sender's entry is of the type, and its fields are the natural numbers
\* the arithmetic of `add` and `prune` is about.
LEMMA EntryType ==
    ASSUME TypeOK, NEW s \in Queued
    PROVE  /\ s \in Senders
           /\ entry[s] \in Entry
           /\ entry[s].tx \in Txs
           /\ entry[s].tx \in Tx
           /\ entry[s].l2BlockNumber \in Nat
           /\ Cost(entry[s].tx) \in Nat
  <1>1. entry[s] \in Entry /\ s \in Senders
    BY DEF TypeOK, Queued
  <1>2. entry[s].tx \in Txs /\ entry[s].tx \in Tx /\ entry[s].l2BlockNumber \in Nat
    BY <1>1, ConstantsAssumption
  <1>3. \A x, y, z \in Nat : x * y + z \in Nat
    OBVIOUS
  <1>4. Cost(entry[s].tx) \in Nat
    BY <1>2, <1>3 DEF Cost
  <1> QED
    BY <1>1, <1>2, <1>4

\* The states of the chain are accounts, and the newest one exists.
LEMMA ChainType ==
    ASSUME TypeOK
    PROVE  /\ Len(chain) \in Nat \ {0}
           /\ blockNumber \in Nat
           /\ \A n \in 0..blockNumber, s \in Senders :
                 /\ StateAt(n)[s].nonce \in Nat
                 /\ StateAt(n)[s].balance \in Nat
                 /\ n + 1 \in 1..Len(chain)
  <1>1. Len(chain) \in Nat \ {0}
    BY DEF TypeOK
  <1>2. blockNumber \in Nat
    BY <1>1 DEF blockNumber
  <1>3. ASSUME NEW n \in 0..blockNumber, NEW s \in Senders
        PROVE  /\ StateAt(n)[s].nonce \in Nat
               /\ StateAt(n)[s].balance \in Nat
               /\ n + 1 \in 1..Len(chain)
    <2>1. n + 1 \in 1..Len(chain)
      BY <1>1 DEF blockNumber
    <2>2. chain[n + 1] \in [Senders -> Account]
      BY <2>1 DEF TypeOK
    <2> QED
      BY <2>1, <2>2 DEF StateAt
  <1> QED
    BY <1>1, <1>2, <1>3

\* Anyone can prune what can no longer execute: the invariant behind the inbox
\* follows from how entries are admitted and how accounts change.
LEMMA DeadIsPrunable ==
    ASSUME IInv
    PROVE  ExecutableOrPrunable
  <1> SUFFICES ASSUME NEW s \in Queued,
                      ~Executable(entry[s].tx, StateAt(blockNumber)[s])
               PROVE  Prunable(s, blockNumber)
    BY DEF ExecutableOrPrunable
  <1> DEFINE n    == entry[s].l2BlockNumber
             then == StateAt(n)[s]
             now  == StateAt(blockNumber)[s]
             t    == entry[s].tx
  <1>1. /\ s \in Senders /\ n \in Nat /\ t \in Tx /\ Cost(t) \in Nat
    BY EntryType DEF IInv
  <1>2. /\ n <= blockNumber /\ blockNumber \in Nat
        /\ Executable(t, then) /\ InState(then)
    BY ChainType DEF IInv, Admitted
  <1>3. n \in 0..blockNumber /\ blockNumber \in 0..blockNumber
    BY <1>1, <1>2
  <1>4. /\ then.nonce \in Nat /\ then.balance \in Nat
        /\ now.nonce \in Nat /\ now.balance \in Nat
        /\ n + 1 \in 1..Len(chain) /\ blockNumber + 1 \in 1..Len(chain)
    BY <1>1, <1>3, ChainType DEF IInv
  <1>5. /\ then.nonce <= now.nonce
        /\ now.nonce > 0 \/ then.balance <= now.balance
    <2>1. n + 1 <= blockNumber + 1
      BY <1>1, <1>2
    <2>2. \A i, j \in 1..Len(chain) :
             i <= j => /\ chain[i][s].nonce <= chain[j][s].nonce
                       /\ chain[j][s].nonce > 0 \/ chain[i][s].balance <= chain[j][s].balance
      BY <1>1 DEF IInv, StatesRise
    <2> QED
      BY <1>4, <2>1, <2>2 DEF StateAt
  <1>6. t.nonce = then.nonce /\ then.balance >= Cost(t)
    BY <1>2 DEF Executable
  <1>7. t.nonce \in Nat
    BY <1>1
  <1>8. now.nonce > t.nonce \/ now.balance < Cost(t)
    <2>1. now.nonce # t.nonce \/ ~(now.balance >= Cost(t))
      BY DEF Executable
    <2>2. CASE now.nonce # t.nonce
      <3>1. t.nonce <= now.nonce
        BY <1>5, <1>6
      <3> HIDE DEF now, t
      <3> QED
        BY <2>2, <3>1, <1>4, <1>7
    <2>3. CASE ~(now.balance >= Cost(t))
      <3> HIDE DEF now, t
      <3> QED
        BY <2>3, <1>1, <1>4
    <2> QED
      BY <2>1, <2>2, <2>3
  <1>9. n # blockNumber
    <2> SUFFICES ASSUME n = blockNumber PROVE FALSE
      OBVIOUS
    <2>1. now = then
      OBVIOUS
    <2> HIDE DEF now, then, t
    <2> QED
      BY <2>1, <1>1, <1>4, <1>6, <1>8
  <1>10. InState(now)
    <2>1. then.nonce > 0 \/ then.balance > 0
      BY <1>2 DEF InState
    <2>2. now.nonce > 0 \/ now.balance > 0
      BY <1>4, <1>5, <2>1
    <2> QED
      BY <2>2 DEF InState
  <1>11. Recent(blockNumber)
    BY <1>2, ConstantsAssumption DEF Recent
  <1> QED
    <2>1. blockNumber > n
      BY <1>1, <1>2, <1>9
    <2> QED
      BY <1>8, <1>10, <1>11, <2>1 DEF Prunable
-----------------------------------------------------------------------------
\* What `add` does to the entries: the sender has its new entry, the evicted
\* have none, nobody else's changes.
LEMMA EnterFacts ==
    ASSUME TypeOK, NEW t \in Txs, NEW n \in 0..blockNumber,
           NEW evicted \in SUBSET Queued, t.sender \notin evicted,
           Enter(t, n, evicted)
    PROVE  /\ entry' \in [Senders -> Entry \cup {NoEntry}]
           /\ older' \subseteq Senders \X Senders
           /\ t.sender \in Senders
           /\ entry'[t.sender] = [tx |-> t, l2BlockNumber |-> n]
           /\ \A s \in evicted : entry'[s] = NoEntry
           /\ \A s \in Senders \ (evicted \cup {t.sender}) : entry'[s] = entry[s]
           /\ Queued' = (Queued \ evicted) \cup {t.sender}
  <1>1. t.sender \in Senders
    BY ConstantsAssumption
  <1>2. [tx |-> t, l2BlockNumber |-> n] \in Entry
    BY ChainType
  <1>3. Queued \subseteq Senders
    BY DEF Queued
  <1>4. entry' \in [Senders -> Entry \cup {NoEntry}]
    BY <1>1, <1>2 DEF Enter, TypeOK
  <1>5. older' \subseteq Senders \X Senders
    <2>1. {p \in older : {p[1], p[2]} \cap (evicted \cup {t.sender}) = {}} \subseteq Senders \X Senders
      BY DEF TypeOK
    <2>2. (Queued \ (evicted \cup {t.sender})) \X {t.sender} \subseteq Senders \X Senders
      BY <1>1, <1>3
    <2> QED
      BY <2>1, <2>2 DEF Enter
  <1>6. /\ entry'[t.sender] = [tx |-> t, l2BlockNumber |-> n]
        /\ \A s \in evicted : entry'[s] = NoEntry
        /\ \A s \in Senders \ (evicted \cup {t.sender}) : entry'[s] = entry[s]
    BY <1>1, <1>3 DEF Enter
  <1>7. entry'[t.sender] # NoEntry
    BY <1>2, <1>6, ConstantsAssumption
  <1> QED
    BY <1>1, <1>3, <1>4, <1>5, <1>6, <1>7 DEF Queued

\* What `prune` and `settle` do to the entries.
LEMMA LeaveFacts ==
    ASSUME TypeOK, NEW S, Leave(S)
    PROVE  /\ entry' \in [Senders -> Entry \cup {NoEntry}]
           /\ older' \subseteq Senders \X Senders
           /\ Queued' \subseteq Queued
           /\ \A s \in Queued' : entry'[s] = entry[s]
           /\ \A s \in Senders : entry[s] # NoEntry /\ entry'[s] = NoEntry => s \in S
  BY DEF Leave, TypeOK, Queued

\* What a posted block does to the chain of states.
LEMMA AdvanceFacts ==
    ASSUME TypeOK, NEW body \in SUBSET NextTxs, NEW baseFee, NEW gasUsed,
           NEW balance \in Balances, Advance(body, baseFee, gasUsed, balance)
    PROVE  /\ chain' \in Seq([Senders -> Account])
           /\ Len(chain') = Len(chain) + 1
           /\ \A i \in 1..Len(chain) : chain'[i] = chain[i]
           /\ chain'[Len(chain')] = PostState(body, balance)
           /\ \A s \in Senders :
                 /\ chain[Len(chain)][s].nonce <= PostState(body, balance)[s].nonce
                 /\ \/ PostState(body, balance)[s].nonce > 0
                    \/ chain[Len(chain)][s].balance <= PostState(body, balance)[s].balance
           /\ \A t \in body : PostState(body, balance)[t.sender].nonce = t.nonce + 1
  <1> DEFINE post == PostState(body, balance)
  <1>1. Len(chain) \in Nat \ {0} /\ blockNumber + 1 = Len(chain)
    BY ChainType DEF blockNumber
  <1>2. \A s \in Senders : /\ StateAt(blockNumber)[s].nonce \in Nat
                           /\ StateAt(blockNumber)[s].balance \in Nat
    BY ChainType
  <1>3. \A s \in Senders : balance[s] \in Nat
    BY ConstantsAssumption
  <1>4. post \in [Senders -> Account]
    BY <1>2, <1>3 DEF PostState
  <1>5. chain' = Append(chain, post)
    BY DEF Advance
  <1>6. /\ chain' \in Seq([Senders -> Account])
        /\ Len(chain') = Len(chain) + 1
        /\ \A i \in 1..Len(chain) : chain'[i] = chain[i]
        /\ chain'[Len(chain')] = post
    BY <1>1, <1>4, <1>5 DEF TypeOK
  <1>7. StateAt(blockNumber) = chain[Len(chain)]
    BY <1>1 DEF StateAt
  <1>8. ASSUME NEW s \in Senders
        PROVE  /\ chain[Len(chain)][s].nonce <= post[s].nonce
               /\ post[s].nonce > 0 \/ chain[Len(chain)][s].balance <= post[s].balance
    <2>1. chain[Len(chain)][s].nonce <= post[s].nonce
      BY <1>2, <1>7 DEF PostState
    <2>2. post[s].nonce > 0 \/ post[s].balance >= chain[Len(chain)][s].balance
      BY <1>7 DEF Advance, Spendable
    <2> QED
      BY <1>2, <1>4, <1>7, <2>1, <2>2
  <1>9. ASSUME NEW t \in body
        PROVE  post[t.sender].nonce = t.nonce + 1
    <2>1. t \in Txs /\ t.sender \in Senders /\ t.nonce = StateAt(blockNumber)[t.sender].nonce
      BY ConstantsAssumption DEF NextTxs
    <2> QED
      BY <2>1 DEF PostState
  <1> QED
    BY <1>6, <1>8, <1>9
-----------------------------------------------------------------------------
\* The empty queue satisfies the invariant.
LEMMA InitEstablishes == Init => IInv
  <1> SUFFICES ASSUME Init PROVE IInv
    OBVIOUS
  <1>1. PICK balance \in Balances :
           chain = <<[s \in Senders |-> [nonce |-> 0, balance |-> balance[s]]]>>
    BY DEF Init
  <1>2. chain[1] \in [Senders -> Account] /\ Len(chain) = 1
    BY <1>1, ConstantsAssumption
  <1>3. Queued = {}
    BY DEF Init, Queued
  <1>4. TypeOK
    BY <1>1, <1>2 DEF Init, TypeOK
  <1>5. Admitted
    BY <1>3 DEF Admitted
  <1>6. StatesRise
    <2> SUFFICES ASSUME NEW i \in 1..Len(chain), NEW j \in 1..Len(chain), NEW s \in Senders
                 PROVE  /\ chain[i][s].nonce <= chain[j][s].nonce
                        /\ chain[j][s].nonce > 0 \/ chain[i][s].balance <= chain[j][s].balance
      BY DEF StatesRise
    <2>1. i = 1 /\ j = 1
      BY <1>2
    <2>2. chain[1][s].nonce \in Nat /\ chain[1][s].balance \in Nat
      BY <1>2
    <2> QED
      BY <2>1, <2>2
  <1>7. WithinCapacity
    BY <1>3, FS_EmptySet, ConstantsAssumption DEF WithinCapacity
  <1> QED
    BY <1>4, <1>5, <1>6, <1>7 DEF IInv

\* A step that leaves the chain alone and enters one admissible transaction.
LEMMA EnterKeeps ==
    ASSUME IInv, NEW t \in Txs, NEW n \in 0..blockNumber,
           NEW evicted \in SUBSET Queued, t.sender \notin evicted,
           Admissible(t, n), Enter(t, n, evicted), UNCHANGED chain
    PROVE  TypeOK' /\ Admitted' /\ StatesRise'
  <1>1. TypeOK
    BY DEF IInv
  <1>2. TypeOK'
    BY <1>1, EnterFacts DEF TypeOK
  <1>3. Admitted'
    <2>1. ASSUME NEW s \in Queued', s # t.sender
          PROVE  s \in Queued /\ entry'[s] = entry[s]
      BY <1>1, <2>1, EnterFacts DEF Queued
    <2>2. t.sender \in Senders /\ entry'[t.sender] = [tx |-> t, l2BlockNumber |-> n]
      BY <1>1, EnterFacts
    <2>3. /\ entry'[t.sender].tx.sender = t.sender
          /\ entry'[t.sender].l2BlockNumber <= blockNumber
          /\ Executable(entry'[t.sender].tx, StateAt(entry'[t.sender].l2BlockNumber)[t.sender])
          /\ InState(StateAt(entry'[t.sender].l2BlockNumber)[t.sender])
      BY <1>1, <2>2, ChainType DEF Admissible
    <2> QED
      BY <2>1, <2>3 DEF Admitted, IInv, blockNumber, StateAt
  <1>4. StatesRise'
    BY DEF IInv, StatesRise
  <1> QED
    BY <1>2, <1>3, <1>4

\* Adding a sender and removing the evicted moves the count by their difference.
LEMMA EnterCounts ==
    ASSUME TypeOK, NEW t \in Txs, NEW n \in 0..blockNumber,
           NEW evicted \in SUBSET Queued, t.sender \notin evicted,
           Enter(t, n, evicted)
    PROVE  /\ IsFiniteSet(Queued)
           /\ Cardinality(Queued) \in Nat
           /\ evicted = {} =>
                 Cardinality(Queued') = (IF t.sender \in Queued THEN Cardinality(Queued)
                                         ELSE Cardinality(Queued) + 1)
           /\ \A x \in Queued : evicted = {x} /\ t.sender \notin Queued
                 => Cardinality(Queued') = Cardinality(Queued)
  <1>1. Queued' = (Queued \ evicted) \cup {t.sender}
    BY EnterFacts
  <1>2. IsFiniteSet(Queued) /\ Cardinality(Queued) \in Nat
    BY FS_Subset, FS_CardinalityType, ConstantsAssumption DEF Queued
  <1>3. ASSUME evicted = {}
        PROVE  Cardinality(Queued') = (IF t.sender \in Queued THEN Cardinality(Queued)
                                       ELSE Cardinality(Queued) + 1)
    <2>1. Queued' = Queued \cup {t.sender}
      BY <1>1, <1>3
    <2> QED
      BY <1>2, <2>1, FS_AddElement
  <1>4. ASSUME NEW x \in Queued, evicted = {x}, t.sender \notin Queued
        PROVE  Cardinality(Queued') = Cardinality(Queued)
    <2>1. /\ IsFiniteSet(Queued \ {x})
          /\ Cardinality(Queued \ {x}) = Cardinality(Queued) - 1
      BY <1>2, FS_RemoveElement
    <2>2. /\ Queued' = (Queued \ {x}) \cup {t.sender}
          /\ t.sender \notin Queued \ {x}
      BY <1>1, <1>4
    <2>3. Cardinality(Queued') = Cardinality(Queued \ {x}) + 1
      BY <2>1, <2>2, FS_AddElement
    <2> QED
      BY <1>2, <2>1, <2>3
  <1> QED
    BY <1>2, <1>3, <1>4

\* A queue that only loses entries stays within its capacity.
LEMMA LeaveKeepsCapacity ==
    ASSUME WithinCapacity, Queued' \subseteq Queued
    PROVE  WithinCapacity'
  <1>1. IsFiniteSet(Queued)
    BY FS_Subset, ConstantsAssumption DEF Queued
  <1>2. Cardinality(Queued') <= Cardinality(Queued)
    BY <1>1, FS_Subset
  <1>3. Cardinality(Queued') \in Nat /\ Cardinality(Queued) \in Nat
    BY <1>1, FS_Subset, FS_CardinalityType
  <1> QED
    BY <1>2, <1>3, ConstantsAssumption DEF WithinCapacity
-----------------------------------------------------------------------------
\* An account that only rises from one state to the next rises over both.
LEMMA RiseTransitive ==
    ASSUME NEW a \in Account, NEW b \in Account, NEW c \in Account,
           a.nonce <= b.nonce, b.nonce > 0 \/ a.balance <= b.balance,
           b.nonce <= c.nonce, c.nonce > 0 \/ b.balance <= c.balance
    PROVE  a.nonce <= c.nonce /\ (c.nonce > 0 \/ a.balance <= c.balance)
<1>1. /\ {a.nonce, b.nonce, c.nonce} \subseteq Nat
      /\ {a.balance, b.balance, c.balance} \subseteq Nat
  BY DEF Account
<1> QED
  BY <1>1

\* Every operation of the inbox keeps the invariant.
LEMMA StepKeeps == IInv /\ [Next]_vars => IInv'
  <1> SUFFICES ASSUME IInv, [Next]_vars PROVE IInv'
    OBVIOUS
  <1>0. TypeOK /\ WithinCapacity
    BY DEF IInv
  <1>1. ASSUME NEW t \in Txs, NEW n \in 0..blockNumber, Replace(t, n)
        PROVE  IInv'
    <2>1. Admissible(t, n) /\ t.sender \in Queued /\ Enter(t, n, {}) /\ UNCHANGED chain
      BY <1>1 DEF Replace
    <2>2. TypeOK' /\ Admitted' /\ StatesRise'
      BY <2>1, EnterKeeps
    <2>3. Cardinality(Queued') = Cardinality(Queued)
      BY <1>0, <2>1, EnterCounts
    <2> QED
      BY <1>0, <2>2, <2>3 DEF IInv, WithinCapacity
  <1>2. ASSUME NEW t \in Txs, NEW n \in 0..blockNumber, Enqueue(t, n)
        PROVE  IInv'
    <2>1. /\ Admissible(t, n) /\ t.sender \notin Queued
          /\ Cardinality(Queued) < MaxQueueSize
          /\ Enter(t, n, {}) /\ UNCHANGED chain
      BY <1>2 DEF Enqueue
    <2>2. TypeOK' /\ Admitted' /\ StatesRise'
      BY <2>1, EnterKeeps
    <2>3. Cardinality(Queued') = Cardinality(Queued) + 1 /\ Cardinality(Queued) \in Nat
      BY <1>0, <2>1, EnterCounts
    <2>4. WithinCapacity'
      BY <2>1, <2>3, ConstantsAssumption DEF WithinCapacity
    <2> QED
      BY <2>2, <2>4 DEF IInv
  <1>3. ASSUME NEW t \in Txs, NEW n \in 0..blockNumber, Outbid(t, n)
        PROVE  IInv'
    <2>1. PICK tail \in Queued : Enter(t, n, {tail})
      BY <1>3 DEF Outbid
    <2>2. Admissible(t, n) /\ t.sender \notin Queued /\ UNCHANGED chain
      BY <1>3 DEF Outbid
    <2>3. t.sender \notin {tail} /\ {tail} \in SUBSET Queued
      BY <2>2
    <2>4. TypeOK' /\ Admitted' /\ StatesRise'
      BY <2>1, <2>2, <2>3, EnterKeeps
    <2>5. Cardinality(Queued') = Cardinality(Queued)
      BY <1>0, <2>1, <2>2, <2>3, EnterCounts
    <2> QED
      BY <1>0, <2>4, <2>5 DEF IInv, WithinCapacity
  <1>4. ASSUME NEW s \in Senders, NEW n \in 0..blockNumber, Prune(s, n)
        PROVE  IInv'
    <2>1. Leave({s}) /\ UNCHANGED chain
      BY <1>4 DEF Prune
    <2>2. /\ entry' \in [Senders -> Entry \cup {NoEntry}]
          /\ older' \subseteq Senders \X Senders
          /\ Queued' \subseteq Queued
          /\ \A u \in Queued' : entry'[u] = entry[u]
      BY <1>0, <2>1, LeaveFacts
    <2>3. TypeOK'
      BY <1>0, <2>1, <2>2 DEF TypeOK
    <2>4. Admitted'
      BY <2>1, <2>2 DEF Admitted, IInv, blockNumber, StateAt
    <2>5. StatesRise'
      BY <2>1 DEF StatesRise, IInv
    <2>6. WithinCapacity'
      BY <1>0, <2>2, LeaveKeepsCapacity
    <2> QED
      BY <2>3, <2>4, <2>5, <2>6 DEF IInv
  <1>5. ASSUME NEW body \in SUBSET NextTxs, NEW baseFee \in BaseFees,
               NEW gasUsed \in 0..BlockGasLimit, NEW balance \in Balances,
               Advance(body, baseFee, gasUsed, balance)
        PROVE  IInv'
    <2> DEFINE post == PostState(body, balance)
    <2>1. PICK S : Leave(S)
      BY <1>5 DEF Advance
    <2>2. /\ entry' \in [Senders -> Entry \cup {NoEntry}]
          /\ older' \subseteq Senders \X Senders
          /\ Queued' \subseteq Queued
          /\ \A u \in Queued' : entry'[u] = entry[u]
      BY <1>0, <2>1, LeaveFacts
    <2>3. /\ chain' \in Seq([Senders -> Account])
          /\ Len(chain') = Len(chain) + 1
          /\ \A i \in 1..Len(chain) : chain'[i] = chain[i]
          /\ chain'[Len(chain')] = post
          /\ \A s \in Senders :
                /\ chain[Len(chain)][s].nonce <= post[s].nonce
                /\ post[s].nonce > 0 \/ chain[Len(chain)][s].balance <= post[s].balance
      BY <1>0, <1>5, AdvanceFacts
    <2>4. Len(chain) \in Nat \ {0}
      BY <1>0, ChainType
    <2>5. TypeOK'
      BY <2>2, <2>3, <2>4 DEF TypeOK
    <2>6. Admitted'
      <3> SUFFICES ASSUME NEW s \in Queued'
                   PROVE  /\ entry'[s].tx.sender = s
                          /\ entry'[s].l2BlockNumber <= blockNumber'
                          /\ Executable(entry'[s].tx, chain'[entry'[s].l2BlockNumber + 1][s])
                          /\ InState(chain'[entry'[s].l2BlockNumber + 1][s])
        BY DEF Admitted, StateAt, blockNumber
      <3>1. s \in Queued /\ entry'[s] = entry[s] /\ entry[s].l2BlockNumber \in Nat
        BY <1>0, <2>2, EntryType
      <3>2. entry[s].l2BlockNumber <= blockNumber
        BY <3>1 DEF IInv, Admitted
      <3>3. entry[s].l2BlockNumber + 1 \in 1..Len(chain)
        BY <2>4, <3>1, <3>2 DEF blockNumber
      <3>4. chain'[entry[s].l2BlockNumber + 1] = chain[entry[s].l2BlockNumber + 1]
        BY <2>3, <3>3
      <3>5. entry[s].l2BlockNumber <= blockNumber'
        BY <2>3, <2>4, <3>1, <3>2 DEF blockNumber
      <3>6. /\ entry[s].tx.sender = s
            /\ Executable(entry[s].tx, chain[entry[s].l2BlockNumber + 1][s])
            /\ InState(chain[entry[s].l2BlockNumber + 1][s])
        BY <3>1 DEF IInv, Admitted, StateAt
      <3> QED
        BY <3>1, <3>4, <3>5, <3>6
    <2>7. StatesRise'
      <3> SUFFICES ASSUME NEW i \in 1..Len(chain'), NEW j \in 1..Len(chain'),
                          NEW s \in Senders, i <= j
                   PROVE  /\ chain'[i][s].nonce <= chain'[j][s].nonce
                          /\ chain'[j][s].nonce > 0 \/ chain'[i][s].balance <= chain'[j][s].balance
        BY DEF StatesRise
      <3>1. /\ chain'[i][s].nonce \in Nat /\ chain'[i][s].balance \in Nat
            /\ chain'[j][s].nonce \in Nat /\ chain'[j][s].balance \in Nat
        BY <2>3
      <3>2. CASE j \in 1..Len(chain)
        <4>1. i \in 1..Len(chain)
          BY <2>4, <3>2
        <4>2. chain'[i] = chain[i] /\ chain'[j] = chain[j]
          BY <2>3, <3>2, <4>1
        <4>3. /\ chain[i][s].nonce <= chain[j][s].nonce
              /\ chain[j][s].nonce > 0 \/ chain[i][s].balance <= chain[j][s].balance
          BY <3>2, <4>1 DEF IInv, StatesRise
        <4> QED
          BY <4>2, <4>3
      <3>3. CASE j = Len(chain) + 1 /\ i = j
        BY <3>1, <3>3
      <3>4. CASE j = Len(chain) + 1 /\ i \in 1..Len(chain)
        <4>1. Len(chain) \in 1..Len(chain) /\ i <= Len(chain)
          BY <2>4, <3>4
        <4>2. /\ chain[i][s].nonce <= chain[Len(chain)][s].nonce
              /\ chain[Len(chain)][s].nonce > 0 \/ chain[i][s].balance <= chain[Len(chain)][s].balance
          BY <3>4, <4>1 DEF IInv, StatesRise
        <4>3. chain'[i] = chain[i] /\ chain'[j] = post
          BY <2>3, <3>4
        <4>4. /\ chain[i][s] \in Account /\ chain[Len(chain)][s] \in Account
              /\ chain'[j][s] \in Account
          <5>1. /\ chain \in Seq([Senders -> Account])
                /\ chain' \in Seq([Senders -> Account])
            BY <1>0, <2>5 DEF TypeOK
          <5>2. i \in 1..Len(chain) /\ j \in 1..Len(chain')
            BY <3>4
          <5>3. /\ chain[i] \in [Senders -> Account]
                /\ chain[Len(chain)] \in [Senders -> Account]
                /\ chain'[j] \in [Senders -> Account]
            BY <4>1, <5>1, <5>2, ElementOfSeq
          <5> QED
            BY <5>3
        <4>5. /\ chain[Len(chain)][s].nonce <= chain'[j][s].nonce
              /\ chain'[j][s].nonce > 0 \/ chain[Len(chain)][s].balance <= chain'[j][s].balance
          BY <2>3, <4>3
        <4>6. chain'[i][s] = chain[i][s]
          BY <4>3
        <4>7. /\ chain[i][s].nonce <= chain'[j][s].nonce
              /\ chain'[j][s].nonce > 0 \/ chain[i][s].balance <= chain'[j][s].balance
          BY <4>2, <4>4, <4>5, RiseTransitive
        <4> QED
          BY <4>6, <4>7
      <3>5. j \in 1..Len(chain) \/ j = Len(chain) + 1
        BY <2>3, <2>4
      <3>6. i = j \/ i \in 1..Len(chain)
        BY <2>3, <2>4
      <3> QED
        BY <3>2, <3>3, <3>4, <3>5, <3>6
    <2>8. WithinCapacity'
      BY <1>0, <2>2, LeaveKeepsCapacity
    <2> QED
      BY <2>5, <2>6, <2>7, <2>8 DEF IInv
  <1>6. CASE UNCHANGED vars
    BY <1>6 DEF vars, IInv, TypeOK, Admitted, StatesRise, WithinCapacity, Queued, blockNumber, StateAt
  <1> QED
    BY <1>1, <1>2, <1>3, <1>4, <1>5, <1>6 DEF Next

\* The inductive invariant holds of every behaviour of the inbox.
LEMMA Invariance == Spec => []IInv
  BY InitEstablishes, StepKeeps, PTL DEF Spec

\* The types of the variables, for every value of the constants.
THEOREM TypeCorrect == Spec => []TypeOK
  <1>1. IInv => TypeOK
    BY DEF IInv
  <1> QED
    BY <1>1, Invariance, PTL

\* No entry of the inbox is ever stuck: it can execute on the newest L2 state
\* or anyone can prune it with a proof against that state.
THEOREM NoEntryStuck == Spec => []ExecutableOrPrunable
  <1>1. IInv => ExecutableOrPrunable
    BY DeadIsPrunable
  <1> QED
    BY <1>1, Invariance, PTL

\* The inbox never holds more than `MAX_QUEUE_SIZE` entries.
THEOREM CapacityRespected == Spec => []WithinCapacity
  <1>1. IInv => WithinCapacity
    BY DEF IInv
  <1> QED
    BY <1>1, Invariance, PTL
-----------------------------------------------------------------------------
\* An entry that leaves through `prune` is dead on the state of the proof.
LEMMA PrunedIsDead ==
    ASSUME IInv, NEW s \in Senders, NEW n \in 0..blockNumber, Prune(s, n)
    PROVE  DiedIn(chain', s)
  <1>1. s \in Queued /\ chain' = chain /\ Prunable(s, n)
    BY DEF Prune
  <1>2. /\ entry[s].l2BlockNumber \in Nat /\ entry[s].tx \in Tx /\ Cost(entry[s].tx) \in Nat
    BY <1>1, EntryType DEF IInv
  <1>3. /\ StateAt(n)[s].nonce \in Nat /\ StateAt(n)[s].balance \in Nat
        /\ n + 1 \in 1..Len(chain)
    BY ChainType DEF IInv
  <1>4. n > entry[s].l2BlockNumber /\ n \in Nat
    BY <1>1, ChainType DEF Prunable, IInv
  <1>5. n + 1 \in (entry[s].l2BlockNumber + 2)..Len(chain)
    <2>1. entry[s].l2BlockNumber \in Nat /\ n + 1 \in 1..Len(chain)
      BY <1>2, <1>3
    <2> QED
      BY <1>4, <2>1
  <1>6. entry[s].tx.nonce \in Nat
    BY <1>2
  <1>7. ~Executable(entry[s].tx, chain[n + 1][s])
    <2>1. /\ StateAt(n)[s] = chain[n + 1][s]
          /\ \/ StateAt(n)[s].nonce # entry[s].tx.nonce
             \/ StateAt(n)[s].balance < Cost(entry[s].tx)
      BY <1>1, <1>2, <1>3, <1>6 DEF Prunable, Executable, StateAt
    <2> QED
      BY <1>2, <1>3, <1>6, <2>1 DEF Executable
  <1> QED
    BY <1>1, <1>5, <1>7 DEF DiedIn

\* An entry that leaves through `settle` is dead on the state of the block:
\* it was in it, or had room in it and FOCIL let it be absent.
LEMMA SettledIsDead ==
    ASSUME IInv, NEW body \in SUBSET NextTxs, NEW baseFee \in BaseFees,
           NEW gasUsed \in 0..BlockGasLimit, NEW balance \in Balances,
           Advance(body, baseFee, gasUsed, balance),
           NEW s \in Senders, entry[s] # NoEntry, entry'[s] = NoEntry
    PROVE  DiedIn(chain', s)
  <1> DEFINE post == PostState(body, balance)
             il   == InclusionList(baseFee)
             t    == entry[s].tx
  <1>1. PICK proven \in SUBSET {u \in il : entry[u].tx \in body} :
           Leave(Settled(il, proven, gasUsed))
    BY DEF Advance
  <1>2. s \in Settled(il, proven, gasUsed)
    BY <1>1, LeaveFacts DEF IInv
  <1>3. s \in il /\ s \in Queued /\ Fee(s) >= baseFee
    BY <1>2 DEF Settled, InclusionList
  <1>4. /\ t \in Txs /\ t \in Tx /\ t.sender = s
        /\ entry[s].l2BlockNumber \in Nat /\ entry[s].l2BlockNumber <= blockNumber
    BY <1>3, EntryType DEF IInv, Admitted
  <1>5. /\ Len(chain') = Len(chain) + 1
        /\ chain'[Len(chain')] = post
        /\ \A u \in body : post[u.sender].nonce = u.nonce + 1
    BY AdvanceFacts DEF IInv
  <1>8. ~Executable(t, post[s]) => DiedIn(chain', s)
    <2>1. Len(chain) \in Nat \ {0} /\ blockNumber = Len(chain) - 1
      BY ChainType DEF IInv, blockNumber
    <2>2. Len(chain') = Len(chain) + 1
      BY <1>5
    <2>3. entry[s].l2BlockNumber \in Nat /\ entry[s].l2BlockNumber <= Len(chain) - 1
      BY <1>4, <2>1
    <2>4. Len(chain') \in (entry[s].l2BlockNumber + 2)..Len(chain')
      BY <2>1, <2>2, <2>3
    <2> QED
      BY <1>5, <2>4 DEF DiedIn
  <1>6. CASE t \in body
    <2>1. post[s].nonce = t.nonce + 1 /\ t.nonce \in Nat
      BY <1>4, <1>5, <1>6
    <2>2. ~Executable(t, post[s])
      BY <2>1 DEF Executable
    <2> QED
      BY <1>8, <2>2
  <1>7. CASE t \notin body
    <2>1. t.gasLimit <= BlockGasLimit - gasUsed
      BY <1>1, <1>2, <1>7 DEF Settled
    <2>2. ~CouldAppend(t, post, baseFee, gasUsed)
      BY <1>3, <1>7 DEF Advance
    <2>3. ~Executable(t, post[s])
      BY <1>3, <1>4, <2>1, <2>2 DEF CouldAppend, Fee
    <2> QED
      BY <1>8, <2>3
  <1> QED
    BY <1>6, <1>7
\* An entry that leaves through `add` was the cheapest of a full queue.
LEMMA EvictedIsOutbid ==
    ASSUME IInv, NEW t \in Txs, NEW n \in 0..blockNumber, Outbid(t, n),
           NEW s \in Senders, entry[s] # NoEntry, entry'[s] = NoEntry
    PROVE  OutbidBy(s)
  <1>1. PICK tail \in Queued : /\ \A u \in Queued \ {tail} : Ahead(u, tail)
                               /\ t.maxFeePerGas > Fee(tail)
                               /\ Enter(t, n, {tail})
    BY DEF Outbid
  <1>2. t.sender \notin Queued /\ Cardinality(Queued) >= MaxQueueSize
    BY DEF Outbid
  <1>3. /\ t.sender \in Senders
        /\ entry'[t.sender] = [tx |-> t, l2BlockNumber |-> n]
        /\ \A u \in Senders \ ({tail} \cup {t.sender}) : entry'[u] = entry[u]
    BY <1>1, <1>2, EnterFacts DEF IInv
  <1>4. entry[t.sender] = NoEntry /\ entry'[t.sender] # NoEntry
    <2>1. [tx |-> t, l2BlockNumber |-> n] \in Entry
      BY ChainType DEF IInv
    <2> QED
      BY <1>2, <1>3, <2>1, ConstantsAssumption DEF Queued
  <1>5. s = tail
    BY <1>3, <1>4
  <1>6. \A v \in Queued : Fee(v) \in Nat
    BY EntryType DEF IInv, Fee
  <1>7. \A v \in Queued : Fee(v) >= Fee(tail)
    <2> SUFFICES ASSUME NEW v \in Queued PROVE Fee(v) >= Fee(tail)
      OBVIOUS
    <2>1. Fee(v) \in Nat /\ Fee(tail) \in Nat
      BY <1>6
    <2>2. v = tail \/ Fee(v) > Fee(tail) \/ Fee(v) = Fee(tail)
      BY <1>1 DEF Ahead
    <2> QED
      BY <2>1, <2>2
  <1> QED
    BY <1>1, <1>2, <1>3, <1>4, <1>5, <1>7 DEF OutbidBy

\* No entry is censored: whatever leaves the inbox was outbid in a full queue,
\* or could not execute on some L2 state after its admission.
THEOREM NothingCensored == Spec => LeavesForCause
  <1> DEFINE Cause == \A s \in Senders :
                         entry[s] # NoEntry /\ entry'[s] = NoEntry
                            => DiedIn(chain', s) \/ OutbidBy(s)
  <1>1. ASSUME IInv, [Next]_vars PROVE [Cause]_vars
    <2> SUFFICES ASSUME Next, NEW s \in Senders, entry[s] # NoEntry, entry'[s] = NoEntry
                 PROVE  DiedIn(chain', s) \/ OutbidBy(s)
      BY <1>1
    <2>1. ASSUME NEW t \in Txs, NEW n \in 0..blockNumber, Replace(t, n) \/ Enqueue(t, n)
          PROVE  FALSE
      <3>1. Enter(t, n, {}) /\ [tx |-> t, l2BlockNumber |-> n] # NoEntry
        BY <1>1, <2>1, ChainType, ConstantsAssumption DEF Replace, Enqueue, IInv
      <3> QED
        BY <3>1 DEF Enter
    <2>2. ASSUME NEW t \in Txs, NEW n \in 0..blockNumber, Outbid(t, n)
          PROVE  OutbidBy(s)
      BY <1>1, <2>2, EvictedIsOutbid
    <2>3. ASSUME NEW u \in Senders, NEW n \in 0..blockNumber, Prune(u, n)
          PROVE  DiedIn(chain', s)
      <3>1. s = u
        BY <2>3 DEF Prune, Leave
      <3> QED
        BY <1>1, <2>3, <3>1, PrunedIsDead
    <2>4. ASSUME NEW body \in SUBSET NextTxs, NEW baseFee \in BaseFees,
                 NEW gasUsed \in 0..BlockGasLimit, NEW balance \in Balances,
                 Advance(body, baseFee, gasUsed, balance)
          PROVE  DiedIn(chain', s)
      BY <1>1, <2>4, SettledIsDead
    <2> QED
      BY <2>1, <2>2, <2>3, <2>4 DEF Next
  <1>2. IInv /\ [Next]_vars => [Cause]_vars
    BY <1>1
  <1> QED
    BY <1>2, Invariance, PTL DEF Spec, LeavesForCause

-----------------------------------------------------------------------------
(* The linked list                                                         *)

\* The entry of the sequence q of length n at position i, Null beyond its ends.
At(q, n, i) == IF i \in 1..n THEN q[i] ELSE Null

\* The pointers of l are those of the doubly linked list of q[1], ..., q[n].
IsList(l, q, n) ==
    /\ l \in Links
    /\ n \in Nat
    /\ q \in [1..n -> Senders]
    /\ \A i, j \in 1..n : q[i] = q[j] => i = j
    /\ l.first = At(q, n, 1)
    /\ l.last = At(q, n, n)
    /\ \A i \in 1..n : l.prev[q[i]] = At(q, n, i - 1) /\ l.next[q[i]] = At(q, n, i + 1)
    /\ \A s \in Senders : (\A i \in 1..n : q[i] # s) => l.prev[s] = Null /\ l.next[s] = Null

\* The sequence without its entry k, and with s at position k.
Without(q, n, k) == [i \in 1..(n - 1) |-> IF i < k THEN q[i] ELSE q[i + 1]]
With(q, n, k, s) == [i \in 1..(n + 1) |-> IF i < k THEN q[i] ELSE IF i = k THEN s ELSE q[i - 1]]

\* The pointers after `_linkRemove`: the neighbours of s point past it.
LEMMA LinkRemoveFields ==
    ASSUME NEW l \in Links, NEW s \in Senders, l.next[s] # s, l.prev[s] # s
    PROVE  /\ LinkRemove(l, s) \in Links
           /\ LinkRemove(l, s).first = IF l.prev[s] = Null THEN l.next[s] ELSE l.first
           /\ LinkRemove(l, s).last = IF l.next[s] = Null THEN l.prev[s] ELSE l.last
           /\ \A t \in Senders :
                 /\ LinkRemove(l, s).prev[t] =
                       IF t = s THEN Null ELSE IF t = l.next[s] THEN l.prev[s] ELSE l.prev[t]
                 /\ LinkRemove(l, s).next[t] =
                       IF t = s THEN Null ELSE IF t = l.prev[s] THEN l.next[s] ELSE l.next[t]
<1> DEFINE prev == l.prev[s]
           next == l.next[s]
           P == IF next = Null THEN l.prev ELSE [l.prev EXCEPT ![next] = prev]
           N == IF prev = Null THEN l.next ELSE [l.next EXCEPT ![prev] = next]
           F == IF prev = Null THEN next ELSE l.first
           L == IF next = Null THEN prev ELSE l.last
           around == [prev |-> P, next |-> N, first |-> F, last |-> L]
<1>1. LinkRemove(l, s) = [around EXCEPT !.prev[s] = Null, !.next[s] = Null]
  BY DEF LinkRemove
<1>2. /\ l.prev \in [Senders -> Senders \cup {Null}] /\ l.next \in [Senders -> Senders \cup {Null}]
      /\ l.first \in Senders \cup {Null} /\ l.last \in Senders \cup {Null}
  BY DEF Links
<1>3. prev \in Senders \cup {Null} /\ next \in Senders \cup {Null}
  BY <1>2
<1>4. /\ P \in [Senders -> Senders \cup {Null}] /\ N \in [Senders -> Senders \cup {Null}]
      /\ F \in Senders \cup {Null} /\ L \in Senders \cup {Null}
  BY <1>2, <1>3
<1>5. \A t \in Senders : P[t] = (IF t = next THEN prev ELSE l.prev[t]) /\ N[t] = (IF t = prev THEN next ELSE l.next[t])
  BY <1>2, <1>3, NullAssumption
<1> HIDE DEF P, N, F, L
<1>6. LinkRemove(l, s) = [prev |-> [P EXCEPT ![s] = Null], next |-> [N EXCEPT ![s] = Null], first |-> F, last |-> L]
  BY <1>1
<1>7. LinkRemove(l, s) \in Links
  BY <1>4, <1>6 DEF Links
<1>8. \A t \in Senders :
                 /\ LinkRemove(l, s).prev[t] = IF t = s THEN Null ELSE P[t]
                 /\ LinkRemove(l, s).next[t] = IF t = s THEN Null ELSE N[t]
  BY <1>4, <1>6
<1>9. LinkRemove(l, s).first = F /\ LinkRemove(l, s).last = L
  BY <1>6
<1> QED BY <1>5, <1>7, <1>8, <1>9 DEF F, L

\* A position holds a sender exactly within the list, and each sender once.
LEMMA AtEnds ==
    ASSUME NEW l, NEW q, NEW n, IsList(l, q, n)
    PROVE  /\ \A i \in Int : At(q, n, i) \in Senders \cup {Null}
           /\ \A i \in Int : At(q, n, i) = Null <=> i \notin 1..n
           /\ \A i \in Int, j \in 1..n : At(q, n, i) = q[j] <=> i = j
BY NullAssumption DEF IsList, At

\* `_linkRemove` takes one entry out of a list of any length.
LEMMA RemoveFromList ==
    ASSUME NEW l, NEW q, NEW n, IsList(l, q, n), NEW k \in 1..n
    PROVE  IsList(LinkRemove(l, q[k]), Without(q, n, k), n - 1)
<1> DEFINE s == q[k]
           r == LinkRemove(l, s)
           p == Without(q, n, k)
<1>1. /\ l \in Links /\ n \in Nat /\ q \in [1..n -> Senders]
      /\ \A i, j \in 1..n : q[i] = q[j] => i = j
  BY DEF IsList
<1>2. /\ \A i \in Int : At(q, n, i) \in Senders \cup {Null}
      /\ \A i \in Int : At(q, n, i) = Null <=> i \notin 1..n
      /\ \A i \in Int, j \in 1..n : At(q, n, i) = q[j] <=> i = j
  BY AtEnds
<1>3. /\ s \in Senders /\ l.prev[s] = At(q, n, k - 1) /\ l.next[s] = At(q, n, k + 1)
      /\ l.prev[s] # s /\ l.next[s] # s
  BY <1>1, <1>2 DEF IsList
<1>4. /\ r \in Links
      /\ r.first = IF At(q, n, k - 1) = Null THEN At(q, n, k + 1) ELSE l.first
      /\ r.last = IF At(q, n, k + 1) = Null THEN At(q, n, k - 1) ELSE l.last
      /\ \A t \in Senders :
            /\ r.prev[t] = IF t = s THEN Null ELSE IF t = At(q, n, k + 1) THEN At(q, n, k - 1) ELSE l.prev[t]
            /\ r.next[t] = IF t = s THEN Null ELSE IF t = At(q, n, k - 1) THEN At(q, n, k + 1) ELSE l.next[t]
  BY <1>1, <1>3, LinkRemoveFields
<1> HIDE DEF r
<1>5. n - 1 \in Nat /\ p \in [1..(n - 1) -> Senders]
  BY <1>1 DEF Without
<1>6. \A i \in 1..(n - 1) : p[i] = q[IF i < k THEN i ELSE i + 1]
  BY <1>1 DEF Without
<1>7. ASSUME NEW i \in 1..(n - 1), NEW j \in 1..(n - 1), p[i] = p[j] PROVE i = j
  BY <1>1, <1>6, <1>7
<1>8. \A i \in Int : At(p, n - 1, i) = IF i < k THEN At(q, n, i) ELSE At(q, n, i + 1)
  BY <1>1, <1>6 DEF At
<1> HIDE DEF p
<1>9. r.first = At(p, n - 1, 1)
  <2>1. l.first = At(q, n, 1)
    BY DEF IsList
  <2>2. CASE k = 1
    BY <1>1, <1>2, <1>4, <1>8, <2>2
  <2>3. CASE k # 1
    BY <1>1, <1>2, <1>4, <1>8, <2>1, <2>3
  <2> QED BY <2>2, <2>3
<1>10. r.last = At(p, n - 1, n - 1)
  <2>1. l.last = At(q, n, n)
    BY DEF IsList
  <2>2. CASE k = n
    BY <1>1, <1>2, <1>4, <1>8, <2>2
  <2>3. CASE k # n
    BY <1>1, <1>2, <1>4, <1>8, <2>1, <2>3
  <2> QED BY <2>2, <2>3
<1>11. ASSUME NEW i \in 1..(n - 1)
       PROVE  r.prev[p[i]] = At(p, n - 1, i - 1) /\ r.next[p[i]] = At(p, n - 1, i + 1)
  <2> DEFINE j == IF i < k THEN i ELSE i + 1
  <2>1. j \in 1..n /\ p[i] = q[j] /\ j # k /\ q[j] # s /\ q[j] \in Senders
    BY <1>1, <1>6
  <2>2. l.prev[q[j]] = At(q, n, j - 1) /\ l.next[q[j]] = At(q, n, j + 1)
    BY <2>1 DEF IsList
  <2>3. r.prev[q[j]] = IF j = k + 1 THEN At(q, n, k - 1) ELSE At(q, n, j - 1)
    BY <1>1, <1>2, <1>4, <2>1, <2>2
  <2>4. r.next[q[j]] = IF j = k - 1 THEN At(q, n, k + 1) ELSE At(q, n, j + 1)
    BY <1>1, <1>2, <1>4, <2>1, <2>2
  <2>5. r.prev[q[j]] = At(p, n - 1, i - 1)
    <3>1. CASE i < k
      BY <1>1, <1>8, <2>3, <3>1
    <3>2. CASE i = k
      BY <1>1, <1>8, <2>3, <3>2
    <3>3. CASE i > k
      BY <1>1, <1>8, <2>3, <3>3
    <3> QED BY <1>1, <3>1, <3>2, <3>3
  <2>6. r.next[q[j]] = At(p, n - 1, i + 1)
    <3>1. CASE i < k - 1
      BY <1>1, <1>8, <2>4, <3>1
    <3>2. CASE i = k - 1
      BY <1>1, <1>8, <2>4, <3>2
    <3>3. CASE i > k - 1
      BY <1>1, <1>8, <2>4, <3>3
    <3> QED BY <1>1, <3>1, <3>2, <3>3
  <2> QED BY <2>1, <2>5, <2>6
<1>12. ASSUME NEW t \in Senders, \A i \in 1..(n - 1) : p[i] # t
       PROVE  r.prev[t] = Null /\ r.next[t] = Null
  <2>1. CASE t = s
    BY <1>4, <2>1
  <2>2. CASE t # s
    <3>1. ASSUME NEW j \in 1..n PROVE q[j] # t
      <4>1. CASE j = k
        BY <2>2, <4>1
      <4>2. CASE j < k
        BY <1>1, <1>6, <1>12, <4>2
      <4>3. CASE j > k
        <5>1. j - 1 \in 1..(n - 1) /\ p[j - 1] = q[j]
          BY <1>1, <1>6, <4>3
        <5> QED BY <1>12, <5>1
      <4> QED BY <1>1, <4>1, <4>2, <4>3
    <3>2. l.prev[t] = Null /\ l.next[t] = Null
      BY <3>1 DEF IsList
    <3>3. t # At(q, n, k + 1) /\ t # At(q, n, k - 1)
      BY <3>1, NullAssumption DEF At
    <3> QED BY <1>4, <2>2, <3>2, <3>3
  <2> QED BY <2>1, <2>2
<1>13. IsList(r, p, n - 1)
  BY <1>4, <1>5, <1>7, <1>9, <1>10, <1>11, <1>12 DEF IsList
<1> QED BY <1>13 DEF r, p

\* The pointers after the last part of `_insertSorted`.
LEMMA InsertBeforeFields ==
    ASSUME NEW l \in Links, NEW s \in Senders, NEW cur \in Senders \cup {Null},
           NEW before, before = (IF cur = Null THEN l.last ELSE l.prev[cur]),
           before # s
    PROVE  /\ InsertBefore(l, s, cur) \in Links
           /\ InsertBefore(l, s, cur).first = IF before = Null THEN s ELSE l.first
           /\ InsertBefore(l, s, cur).last = IF cur = Null THEN s ELSE l.last
           /\ \A t \in Senders :
                 /\ InsertBefore(l, s, cur).prev[t] =
                       IF t = s THEN before ELSE IF t = cur THEN s ELSE l.prev[t]
                 /\ InsertBefore(l, s, cur).next[t] =
                       IF t = s THEN cur ELSE IF t = before THEN s ELSE l.next[t]
<1> DEFINE P == IF cur = Null THEN l.prev ELSE [l.prev EXCEPT ![cur] = s]
           N == IF before = Null THEN l.next ELSE [l.next EXCEPT ![before] = s]
           F == IF before = Null THEN s ELSE l.first
           L == IF cur = Null THEN s ELSE l.last
           into == [prev |-> P, next |-> N, first |-> F, last |-> L]
<1>1. InsertBefore(l, s, cur) = [into EXCEPT !.prev[s] = before, !.next[s] = cur]
  BY DEF InsertBefore
<1>2. /\ l.prev \in [Senders -> Senders \cup {Null}] /\ l.next \in [Senders -> Senders \cup {Null}]
      /\ l.first \in Senders \cup {Null} /\ l.last \in Senders \cup {Null}
  BY DEF Links
<1>3. before \in Senders \cup {Null}
  BY <1>2
<1>4. /\ P \in [Senders -> Senders \cup {Null}] /\ N \in [Senders -> Senders \cup {Null}]
      /\ F \in Senders \cup {Null} /\ L \in Senders \cup {Null}
  BY <1>2, <1>3
<1>5. \A t \in Senders : P[t] = (IF t = cur THEN s ELSE l.prev[t]) /\ N[t] = (IF t = before THEN s ELSE l.next[t])
  BY <1>2, <1>3, NullAssumption
<1> HIDE DEF P, N, F, L
<1>6. InsertBefore(l, s, cur) = [prev |-> [P EXCEPT ![s] = before], next |-> [N EXCEPT ![s] = cur], first |-> F, last |-> L]
  BY <1>1
<1>7. InsertBefore(l, s, cur) \in Links
  BY <1>3, <1>4, <1>6 DEF Links
<1>8. \A t \in Senders :
                 /\ InsertBefore(l, s, cur).prev[t] = IF t = s THEN before ELSE P[t]
                 /\ InsertBefore(l, s, cur).next[t] = IF t = s THEN cur ELSE N[t]
  BY <1>4, <1>6
<1>9. InsertBefore(l, s, cur).first = F /\ InsertBefore(l, s, cur).last = L
  BY <1>6
<1> QED BY <1>5, <1>7, <1>8, <1>9 DEF F, L

\* It puts an entry at position k of a list of any length.
LEMMA InsertIntoList ==
    ASSUME NEW l, NEW q, NEW n, IsList(l, q, n), NEW k \in 1..(n + 1),
           NEW s \in Senders, \A i \in 1..n : q[i] # s
    PROVE  IsList(InsertBefore(l, s, At(q, n, k)), With(q, n, k, s), n + 1)
<1> DEFINE cur == At(q, n, k)
           before == At(q, n, k - 1)
           r == InsertBefore(l, s, cur)
           p == With(q, n, k, s)
<1>1. /\ l \in Links /\ n \in Nat /\ q \in [1..n -> Senders]
      /\ \A i, j \in 1..n : q[i] = q[j] => i = j
  BY DEF IsList
<1>2. /\ \A i \in Int : At(q, n, i) \in Senders \cup {Null}
      /\ \A i \in Int : At(q, n, i) = Null <=> i \notin 1..n
      /\ \A i \in Int, j \in 1..n : At(q, n, i) = q[j] <=> i = j
      /\ \A i \in Int : At(q, n, i) # s
  BY AtEnds, NullAssumption DEF At
<1>3. before = IF cur = Null THEN l.last ELSE l.prev[cur]
  <2>1. CASE k = n + 1
    BY <1>1, <1>2, <2>1 DEF IsList
  <2>2. CASE k \in 1..n
    BY <1>1, <1>2, <2>2 DEF IsList, At
  <2> QED BY <1>1, <2>1, <2>2
<1>4. /\ r \in Links
      /\ r.first = IF before = Null THEN s ELSE l.first
      /\ r.last = IF cur = Null THEN s ELSE l.last
      /\ \A t \in Senders :
            /\ r.prev[t] = IF t = s THEN before ELSE IF t = cur THEN s ELSE l.prev[t]
            /\ r.next[t] = IF t = s THEN cur ELSE IF t = before THEN s ELSE l.next[t]
  <2>1. cur \in Senders \cup {Null} /\ before # s
    BY <1>1, <1>2
  <2> HIDE DEF cur, before
  <2> QED BY <1>1, <1>3, <2>1, InsertBeforeFields
<1> HIDE DEF r
<1>5. n + 1 \in Nat /\ p \in [1..(n + 1) -> Senders]
  BY <1>1 DEF With
<1>6. \A i \in 1..(n + 1) : p[i] = IF i < k THEN q[i] ELSE IF i = k THEN s ELSE q[i - 1]
  BY <1>1 DEF With
<1>7. ASSUME NEW i \in 1..(n + 1), NEW j \in 1..(n + 1), p[i] = p[j] PROVE i = j
  BY <1>1, <1>6, <1>7
<1>8. \A i \in Int : At(p, n + 1, i) = IF i < k THEN At(q, n, i) ELSE IF i = k THEN s ELSE At(q, n, i - 1)
  BY <1>1, <1>6 DEF At
<1> HIDE DEF p
<1>9. r.first = At(p, n + 1, 1)
  <2>1. l.first = At(q, n, 1)
    BY DEF IsList
  <2>2. CASE k = 1
    BY <1>1, <1>2, <1>4, <1>8, <2>2
  <2>3. CASE k # 1
    BY <1>1, <1>2, <1>4, <1>8, <2>1, <2>3
  <2> QED BY <2>2, <2>3
<1>10. r.last = At(p, n + 1, n + 1)
  <2>1. l.last = At(q, n, n)
    BY DEF IsList
  <2>2. CASE k = n + 1
    BY <1>1, <1>2, <1>4, <1>8, <2>2
  <2>3. CASE k # n + 1
    BY <1>1, <1>2, <1>4, <1>8, <2>1, <2>3
  <2> QED BY <2>2, <2>3
<1>11. ASSUME NEW i \in 1..(n + 1)
       PROVE  r.prev[p[i]] = At(p, n + 1, i - 1) /\ r.next[p[i]] = At(p, n + 1, i + 1)
  <2>1. CASE i = k
    <3>1. p[i] = s
      BY <1>6, <2>1
    <3> QED BY <1>1, <1>4, <1>8, <2>1, <3>1
  <2>2. CASE i # k
    <3> DEFINE j == IF i < k THEN i ELSE i - 1
    <3>1. j \in 1..n /\ p[i] = q[j] /\ q[j] # s /\ q[j] \in Senders
      BY <1>1, <1>6, <2>2
    <3>2. l.prev[q[j]] = At(q, n, j - 1) /\ l.next[q[j]] = At(q, n, j + 1)
      BY <3>1 DEF IsList
    <3>3. r.prev[q[j]] = IF j = k THEN s ELSE At(q, n, j - 1)
      BY <1>1, <1>2, <1>4, <3>1, <3>2
    <3>4. r.next[q[j]] = IF j = k - 1 THEN s ELSE At(q, n, j + 1)
      BY <1>1, <1>2, <1>4, <3>1, <3>2
    <3>5. r.prev[q[j]] = At(p, n + 1, i - 1)
      BY <1>1, <1>8, <2>2, <3>3
    <3>6. r.next[q[j]] = At(p, n + 1, i + 1)
      BY <1>1, <1>8, <2>2, <3>4
    <3> QED BY <3>1, <3>5, <3>6
  <2> QED BY <2>1, <2>2
<1>12. ASSUME NEW t \in Senders, \A i \in 1..(n + 1) : p[i] # t
       PROVE  r.prev[t] = Null /\ r.next[t] = Null
  <2>1. t # s
    <3>1. p[k] = s
      BY <1>6
    <3> QED BY <1>12, <3>1
  <2>2. ASSUME NEW j \in 1..n PROVE q[j] # t
    <3>1. CASE j < k
      BY <1>1, <1>6, <1>12, <3>1
    <3>2. CASE ~(j < k)
      <4>1. j + 1 \in 1..(n + 1) /\ p[j + 1] = q[j]
        BY <1>1, <1>6, <3>2
      <4> QED BY <1>12, <4>1
    <3> QED BY <3>1, <3>2
  <2>3. l.prev[t] = Null /\ l.next[t] = Null
    BY <2>2 DEF IsList
  <2>4. t # cur /\ t # before
    BY <2>2, NullAssumption DEF At
  <2> QED BY <1>4, <2>1, <2>3, <2>4
<1>13. IsList(r, p, n + 1)
  BY <1>4, <1>5, <1>7, <1>9, <1>10, <1>11, <1>12 DEF IsList
<1> QED BY <1>13 DEF r, p
-----------------------------------------------------------------------------
(* The walks.                                                              *)

\* The walk of Reached, as a function of the steps taken.
ReachedWalk(l, m) ==
    CHOOSE g : g = [k \in 0..m |-> IF k = 0 THEN l.first
                                   ELSE IF g[k - 1] = Null THEN Null ELSE l.next[g[k - 1]]]

\* The recursion of Reached, one step at a time.
LEMMA ReachedWalkSteps ==
    ASSUME NEW l, NEW m \in Nat
    PROVE  /\ Reached(l, m) = ReachedWalk(l, m)[m]
           /\ ReachedWalk(l, m)[0] = l.first
           /\ \A k \in 1..m : ReachedWalk(l, m)[k] =
                 IF ReachedWalk(l, m)[k - 1] = Null THEN Null ELSE l.next[ReachedWalk(l, m)[k - 1]]
<1> DEFINE Def(v, k) == IF v = Null THEN Null ELSE l.next[v]
           g == ReachedWalk(l, m)
<1>1. FiniteNatInductiveDefHypothesis(g, l.first, Def, 0, m)
  BY DEF FiniteNatInductiveDefHypothesis, ReachedWalk
<1>2. FiniteNatInductiveDefConclusion(g, l.first, Def, 0, m)
  BY <1>1, FiniteNatInductiveDef
<1>3. g = [k \in 0..m |-> IF k = 0 THEN l.first ELSE Def(g[k - 1], k)]
  BY <1>2 DEF FiniteNatInductiveDefConclusion
<1>4. Reached(l, m) = g[m]
  BY DEF Reached, ReachedWalk
<1> HIDE DEF g
<1>5. g[0] = l.first /\ \A k \in 1..m : g[k] = Def(g[k - 1], k)
  BY <1>3
<1> QED BY <1>4, <1>5 DEF g

\* Walking m links from the head of a list meets its entry m + 1, or its end.
LEMMA ReachedInList ==
    ASSUME NEW l, NEW q, NEW n, IsList(l, q, n), NEW m \in Nat
    PROVE  Reached(l, m) = At(q, n, m + 1)
<1> DEFINE g == ReachedWalk(l, m)
           P == {k \in Nat : k <= m => g[k] = At(q, n, k + 1)}
<1>1. n \in Nat /\ l.first = At(q, n, 1)
  BY DEF IsList
<1>2. 0 \in P
  BY <1>1, ReachedWalkSteps
<1>3. ASSUME NEW k \in Nat, k \in P PROVE k + 1 \in P
  <2> SUFFICES ASSUME k + 1 <= m PROVE g[k + 1] = At(q, n, k + 2)
    BY <1>3
  <2>1. g[k] = At(q, n, k + 1)
    BY <1>3
  <2>2. g[k + 1] = IF g[k] = Null THEN Null ELSE l.next[g[k]]
    <3>1. k + 1 \in 1..m /\ (k + 1) - 1 = k
      OBVIOUS
    <3> HIDE DEF g, P
    <3>2. \A j \in 1..m : g[j] = IF g[j - 1] = Null THEN Null ELSE l.next[g[j - 1]]
      BY ReachedWalkSteps DEF g
    <3> QED BY <3>1, <3>2
  <2>3. CASE k + 1 \in 1..n
    <3>1. g[k] = q[k + 1] /\ g[k] # Null
      BY <2>1, <2>3, NullAssumption DEF At, IsList
    <3>2. l.next[q[k + 1]] = At(q, n, (k + 1) + 1)
      BY <2>3 DEF IsList
    <3> HIDE DEF g
    <3> QED BY <2>2, <3>1, <3>2
  <2>4. CASE k + 1 \notin 1..n
    <3>1. g[k] = Null /\ At(q, n, k + 2) = Null
      BY <1>1, <2>1, <2>4 DEF At
    <3> HIDE DEF g
    <3> QED BY <2>2, <3>1
  <2> QED BY <2>3, <2>4
<1> HIDE DEF P
<1>4. m \in P
  BY <1>2, <1>3, SetInduction
<1> QED BY <1>4, ReachedWalkSteps DEF P

\* A list holds each sender at most once, so a walk of that many links ends it.
LEMMA ListIsNoLonger ==
    ASSUME NEW l, NEW q, NEW n, IsList(l, q, n)
    PROVE  n \in Nat /\ n <= Cardinality(Senders) /\ Cardinality(Senders) \in Nat
<1>1. q \in Injection(1..n, Senders) /\ n \in Nat
  BY DEF IsList, Injection, IsInjective
<1>2. Cardinality(1..n) <= Cardinality(Senders) /\ IsFiniteSet(Senders)
  BY <1>1, FS_Injection, ConstantsAssumption
<1>3. Cardinality(1..n) = n
  BY <1>1, FS_Interval
<1> QED BY <1>1, <1>2, <1>3, FS_CardinalityType

\* The loop of `_insertSorted` stops at the first entry that pays less.
LEMMA InsertionPointInList ==
    ASSUME NEW l, NEW q, NEW n, IsList(l, q, n), NEW e, NEW fee
    PROVE  \E k \in 1..(n + 1) :
              /\ InsertionPoint(l, e, fee) = At(q, n, k)
              /\ \A i \in 1..(k - 1) : ~(e[q[i]].tx.maxFeePerGas < fee)
              /\ k <= n => e[q[k]].tx.maxFeePerGas < fee
<1> DEFINE Stops(m) == Reached(l, m) = Null \/ e[Reached(l, m)].tx.maxFeePerGas < fee
           T == {m \in 0..Cardinality(Senders) : Stops(m)}
<1>1. n \in Nat /\ n <= Cardinality(Senders) /\ Cardinality(Senders) \in Nat
  BY ListIsNoLonger
<1>2. \A m \in Nat : Reached(l, m) = At(q, n, m + 1)
  BY ReachedInList
<1>3. n \in T
  BY <1>1, <1>2 DEF At
<1>4. PICK m \in T : \A j \in T : m <= j
  <2>1. T \in SUBSET Nat /\ T # {}
    BY <1>1, <1>3
  <2> HIDE DEF T
  <2> QED BY <2>1, LeastNatural
<1>5. Min(T) = m
  <2>1. T \subseteq Nat
    BY <1>1
  <2> HIDE DEF T
  <2>2. Min(T) \in T /\ \A j \in T : Min(T) <= j
    BY <1>4 DEF Min
  <2>3. Min(T) \in Nat /\ m \in Nat
    BY <1>4, <2>1, <2>2
  <2>4. Min(T) <= m /\ m <= Min(T)
    BY <1>4, <2>2
  <2> HIDE DEF Min
  <2> QED BY <2>3, <2>4
<1>6. InsertionPoint(l, e, fee) = Reached(l, m)
  <2>1. InsertionPoint(l, e, fee) = Reached(l, Min(T))
    BY DEF InsertionPoint
  <2> QED BY <1>5, <2>1
<1>7. m \in Nat /\ m <= n
  BY <1>1, <1>3, <1>4
<1>8. \A i \in 1..m : ~(e[q[i]].tx.maxFeePerGas < fee)
  <2> SUFFICES ASSUME NEW i \in 1..m, e[q[i]].tx.maxFeePerGas < fee PROVE FALSE
    OBVIOUS
  <2>1. i - 1 \in 0..Cardinality(Senders) /\ i \in 1..n
    BY <1>1, <1>7
  <2>2. Reached(l, i - 1) = q[i]
    <3>1. i - 1 \in Nat /\ (i - 1) + 1 = i
      BY <2>1
    <3> QED BY <1>2, <2>1, <3>1 DEF At
  <2>3. i - 1 \in T
    BY <2>1, <2>2
  <2> QED BY <1>4, <1>7, <2>3
<1>9. m + 1 <= n => e[q[m + 1]].tx.maxFeePerGas < fee
  <2> SUFFICES ASSUME m + 1 <= n PROVE e[q[m + 1]].tx.maxFeePerGas < fee
    OBVIOUS
  <2>1. Reached(l, m) = q[m + 1] /\ q[m + 1] # Null
    BY <1>1, <1>2, <1>7, NullAssumption DEF At, IsList
  <2> QED BY <1>4, <2>1
<1>10. m + 1 \in 1..(n + 1) /\ (m + 1) - 1 = m
  BY <1>1, <1>7
<1> QED BY <1>2, <1>6, <1>7, <1>8, <1>9, <1>10
-----------------------------------------------------------------------------
(* The queue as a sequence.                                                *)

\* `older` orders queued senders, each pair one way.
OlderIsOrder == \A p \in older : /\ p[1] \in Queued /\ p[2] \in Queued /\ p[1] # p[2]
                                 /\ <<p[2], p[1]>> \notin older

\* q lists the queued senders, in the list's order and in the queue's.
InOrder(q, n) == /\ IsList(list, q, n)
                 /\ {q[i] : i \in 1..n} = Queued
                 /\ \A i, j \in 1..n : i < j => Ahead(q[i], q[j])

\* The part of the invariant the lemmas are about.
Ordered(q, n) == TypeOK /\ OlderIsOrder /\ InOrder(q, n)

\* The first c senders of the queue.
HeadOf(q, c) == {q[i] : i \in 1..c}

\* The first c entries are c senders.
LEMMA HeadSize ==
    ASSUME NEW q, NEW n \in Nat, q \in [1..n -> Senders],
           \A i, j \in 1..n : q[i] = q[j] => i = j, NEW c \in 0..n
    PROVE  IsFiniteSet(HeadOf(q, c)) /\ Cardinality(HeadOf(q, c)) = c
<1> DEFINE f == [i \in 1..c |-> q[i]]
<1>1. f \in Bijection(1..c, HeadOf(q, c))
  BY DEF HeadOf, Bijection, Injection, IsInjective, Surjection
<1>2. ExistsBijection(1..c, HeadOf(q, c))
  BY <1>1 DEF ExistsBijection
<1>3. IsFiniteSet(1..c) /\ Cardinality(1..c) = c
  BY FS_Interval
<1> QED BY <1>2, <1>3, FS_Bijection

\* The types of the queue as a sequence, and its length.
LEMMA OrderFacts ==
    ASSUME NEW q, NEW n, Ordered(q, n)
    PROVE  /\ n \in Nat
           /\ q \in [1..n -> Senders]
           /\ \A i, j \in 1..n : q[i] = q[j] => i = j
           /\ \A i \in 1..n : /\ q[i] \in Queued
                              /\ entry[q[i]].tx \in Tx
                              /\ entry[q[i]].tx.gasLimit \in Nat
                              /\ Fee(q[i]) \in Nat
           /\ n = Cardinality(Queued)
<1>1. /\ n \in Nat /\ q \in [1..n -> Senders]
      /\ \A i, j \in 1..n : q[i] = q[j] => i = j
  BY DEF Ordered, InOrder, IsList
<1>2. ASSUME NEW i \in 1..n
      PROVE  /\ q[i] \in Queued /\ entry[q[i]].tx \in Tx
             /\ entry[q[i]].tx.gasLimit \in Nat /\ Fee(q[i]) \in Nat
  <2>1. q[i] \in Queued
    BY DEF Ordered, InOrder
  <2>2. entry[q[i]].tx \in Tx
    BY <2>1, EntryType DEF Ordered
  <2> QED BY <2>1, <2>2 DEF Fee, Tx
<1>3. HeadOf(q, n) = Queued
  BY DEF Ordered, InOrder, HeadOf
<1>4. n = Cardinality(Queued)
  BY <1>1, <1>3, HeadSize
<1> QED BY <1>1, <1>2, <1>4

\* The gas of a longer head of the queue.
LEMMA GasAdd ==
    ASSUME NEW S, IsFiniteSet(S), NEW x, x \notin S,
           \A s \in S \cup {x} : entry[s].tx.gasLimit \in Nat
    PROVE  Gas(S \cup {x}) = Gas(S) + entry[x].tx.gasLimit /\ Gas(S) \in Nat
<1> DEFINE f == [s \in S |-> entry[s].tx.gasLimit]
           g == [s \in S \cup {x} |-> entry[s].tx.gasLimit]
<1>1. \A s \in S : f[s] = g[s] /\ f[s] \in Nat
  OBVIOUS
<1>2. \A s \in S \cup {x} : g[s] \in Nat
  OBVIOUS
<1>3. g[x] = entry[x].tx.gasLimit
  OBVIOUS
<1>4. Gas(S) = SumFunctionOnSet(f, S) /\ Gas(S \cup {x}) = SumFunctionOnSet(g, S \cup {x})
  BY DEF Gas
<1> HIDE DEF f, g
<1>5. SumFunctionOnSet(g, S \cup {x}) = SumFunctionOnSet(g, S) + g[x]
  BY <1>2, SumAdd
<1>6. SumFunctionOnSet(f, S) = SumFunctionOnSet(g, S)
  BY <1>1, SumSame
<1>7. SumFunctionOnSet(f, S) \in Nat
  BY <1>1, SumNat
<1> QED BY <1>3, <1>4, <1>5, <1>6, <1>7

\* The gas of the head grows by that of the entry that joins it.
LEMMA HeadGas ==
    ASSUME NEW q, NEW n, Ordered(q, n)
    PROVE  /\ Gas(HeadOf(q, 0)) = 0
           /\ \A c \in 0..n : Gas(HeadOf(q, c)) \in Nat
           /\ \A c \in 1..n : Gas(HeadOf(q, c)) = Gas(HeadOf(q, c - 1)) + entry[q[c]].tx.gasLimit
<1>1. /\ n \in Nat /\ q \in [1..n -> Senders]
      /\ \A i, j \in 1..n : q[i] = q[j] => i = j
      /\ \A i \in 1..n : entry[q[i]].tx.gasLimit \in Nat
  BY OrderFacts
<1>2. Gas(HeadOf(q, 0)) = 0
  <2>1. HeadOf(q, 0) = {}
    BY DEF HeadOf
  <2> QED BY <2>1, SumEmpty DEF Gas
<1>3. ASSUME NEW c \in 1..n
      PROVE  /\ Gas(HeadOf(q, c)) = Gas(HeadOf(q, c - 1)) + entry[q[c]].tx.gasLimit
             /\ Gas(HeadOf(q, c - 1)) \in Nat
  <2>1. HeadOf(q, c) = HeadOf(q, c - 1) \cup {q[c]}
    BY <1>1 DEF HeadOf
  <2>2. q[c] \notin HeadOf(q, c - 1)
    BY <1>1 DEF HeadOf
  <2>3. IsFiniteSet(HeadOf(q, c - 1))
    <3>1. c - 1 \in 0..n
      BY <1>1
    <3> QED BY <1>1, <3>1, HeadSize
  <2>4. \A s \in HeadOf(q, c) : entry[s].tx.gasLimit \in Nat
    BY <1>1 DEF HeadOf
  <2> DEFINE S == HeadOf(q, c - 1)
  <2> HIDE DEF S
  <2>5. Gas(S \cup {q[c]}) = Gas(S) + entry[q[c]].tx.gasLimit /\ Gas(S) \in Nat
    BY <2>1, <2>2, <2>3, <2>4, GasAdd DEF S
  <2> QED BY <2>1, <2>5 DEF S
<1>4. ASSUME NEW c \in 0..n PROVE Gas(HeadOf(q, c)) \in Nat
  <2>1. CASE c = 0
    BY <1>2, <2>1
  <2>2. CASE c # 0
    <3>1. c \in 1..n
      BY <1>1, <2>2
    <3>2. /\ Gas(HeadOf(q, c)) = Gas(HeadOf(q, c - 1)) + entry[q[c]].tx.gasLimit
          /\ Gas(HeadOf(q, c - 1)) \in Nat
      BY <1>3, <3>1
    <3>3. entry[q[c]].tx.gasLimit \in Nat
      BY <1>1, <3>1
    <3> QED BY <3>2, <3>3
  <2> QED BY <2>1, <2>2
<1> QED BY <1>2, <1>3, <1>4

\* The queue's order decides who is ahead of whom.
LEMMA AheadInQueue ==
    ASSUME NEW q, NEW n, Ordered(q, n), NEW i \in 1..n, NEW j \in 1..n
    PROVE  Ahead(q[i], q[j]) <=> i < j
<1>1. i < j => Ahead(q[i], q[j])
  BY DEF Ordered, InOrder
<1>2. j < i => Ahead(q[j], q[i])
  BY DEF Ordered, InOrder
<1>3. ~(Ahead(q[i], q[j]) /\ Ahead(q[j], q[i]))
  <2>1. Fee(q[i]) \in Nat /\ Fee(q[j]) \in Nat
    BY OrderFacts
  <2>2. ~(<<q[i], q[j]>> \in older /\ <<q[j], q[i]>> \in older)
    BY DEF Ordered, OlderIsOrder
  <2> QED BY <2>1, <2>2 DEF Ahead
<1> QED BY <1>1, <1>2, <1>3

\* Ahead of an entry are those before it in the sequence.
LEMMA AheadOfInQueue ==
    ASSUME NEW q, NEW n, Ordered(q, n), NEW i \in 1..n
    PROVE  AheadOf(q[i]) = HeadOf(q, i - 1)
<1>1. Queued = {q[k] : k \in 1..n} /\ n \in Nat
  BY OrderFacts DEF Ordered, InOrder
<1>2. \A k \in 1..n : Ahead(q[k], q[i]) <=> k < i
  BY AheadInQueue
<1> QED BY <1>1, <1>2 DEF AheadOf, HeadOf
-----------------------------------------------------------------------------
(* What `currentIL` lists.                                                 *)

\* The walks pass position c of the queue, if they reach it.
Passes(q, n, baseFee, c) == /\ c \in 1..n
                            /\ c - 1 < MaxILCount
                            /\ Fee(q[c]) >= baseFee
                            /\ Gas(HeadOf(q, c)) <= GasBudget

\* The walks stop after position c.
StopsAfter(q, n, baseFee, c) == /\ c \in 0..n
                                /\ \A i \in 1..c : Passes(q, n, baseFee, i)
                                /\ ~Passes(q, n, baseFee, c + 1)

\* The walks stop somewhere, at the count limit or before it.
LEMMA WalksStop ==
    ASSUME NEW q, NEW n, Ordered(q, n), NEW baseFee
    PROVE  \E c \in 0..n : StopsAfter(q, n, baseFee, c) /\ c <= MaxILCount
<1> DEFINE T == {c \in Nat : ~Passes(q, n, baseFee, c + 1)}
<1>1. n \in Nat /\ n \in T
  BY OrderFacts DEF Passes
<1>2. PICK c \in T : \A k \in T : c <= k
  <2>1. T \in SUBSET Nat /\ T # {}
    BY <1>1
  <2> HIDE DEF T
  <2> QED BY <2>1, LeastNatural
<1>3. c \in 0..n
  BY <1>1, <1>2
<1>4. ASSUME NEW i \in 1..c PROVE Passes(q, n, baseFee, i)
  <2>1. i - 1 \in Nat /\ i - 1 < c /\ (i - 1) + 1 = i
    OBVIOUS
  <2>2. i - 1 \notin T
    BY <1>2, <2>1
  <2>3. Passes(q, n, baseFee, (i - 1) + 1)
    BY <2>1, <2>2
  <2> QED BY <2>1, <2>3
<1>5. c <= MaxILCount
  <2>1. CASE c = 0
    BY <2>1, ConstantsAssumption
  <2>2. CASE c # 0
    <3>1. Passes(q, n, baseFee, c)
      BY <1>4, <2>2
    <3> QED BY <1>3, <3>1, ConstantsAssumption DEF Passes
  <2> QED BY <2>1, <2>2
<1> QED BY <1>2, <1>3, <1>4, <1>5 DEF StopsAfter

\* The inclusion list is the part of the queue the walks pass: once an entry
\* fails the stopping rule, every later one fails it too.
LEMMA ListedIsTheHead ==
    ASSUME NEW q, NEW n, Ordered(q, n), NEW baseFee \in Nat, NEW c,
           StopsAfter(q, n, baseFee, c)
    PROVE  InclusionList(baseFee) = HeadOf(q, c)
<1>1. /\ n \in Nat /\ q \in [1..n -> Senders] /\ c \in 0..n
      /\ \A i, j \in 1..n : q[i] = q[j] => i = j
      /\ \A i \in 1..n : entry[q[i]].tx.gasLimit \in Nat /\ Fee(q[i]) \in Nat
      /\ Queued = {q[i] : i \in 1..n}
  BY OrderFacts DEF StopsAfter, Ordered, InOrder
<1>2. ASSUME NEW i \in 1..n
      PROVE  q[i] \in InclusionList(baseFee) <=> Passes(q, n, baseFee, i)
  <2>1. AheadOf(q[i]) = HeadOf(q, i - 1)
    BY AheadOfInQueue
  <2>2. i - 1 \in 0..n
    BY <1>1
  <2>3. Cardinality(AheadOf(q[i])) = i - 1
    BY <1>1, <2>1, <2>2, HeadSize
  <2>4. AheadOf(q[i]) \cup {q[i]} = HeadOf(q, i)
    BY <1>1, <2>1 DEF HeadOf
  <2> QED BY <1>1, <2>3, <2>4 DEF InclusionList, Passes
<1>3. ASSUME NEW i \in 1..n, i > c PROVE ~Passes(q, n, baseFee, i)
  <2> SUFFICES ASSUME Passes(q, n, baseFee, i) PROVE Passes(q, n, baseFee, c + 1)
    BY DEF StopsAfter
  <2>1. c + 1 \in 1..n /\ c + 1 <= i
    BY <1>1, <1>3
  <2>2. Fee(q[c + 1]) >= baseFee
    <3>1. CASE c + 1 = i
      BY <3>1 DEF Passes
    <3>2. CASE c + 1 # i
      <4>1. Ahead(q[c + 1], q[i])
        BY <1>1, <2>1, <3>2, AheadInQueue
      <4>2. Fee(q[c + 1]) >= Fee(q[i])
        BY <1>1, <2>1, <4>1 DEF Ahead
      <4> QED BY <1>1, <2>1, <4>2 DEF Passes
    <3> QED BY <3>1, <3>2
  <2>3. Gas(HeadOf(q, c + 1)) <= Gas(HeadOf(q, i))
    <3> DEFINE f == [s \in HeadOf(q, i) |-> entry[s].tx.gasLimit]
               g == [s \in HeadOf(q, c + 1) |-> entry[s].tx.gasLimit]
    <3>1. HeadOf(q, c + 1) \subseteq HeadOf(q, i)
      BY <1>1, <2>1 DEF HeadOf
    <3>2. \A s \in HeadOf(q, i) : f[s] \in Nat
      BY <1>1 DEF HeadOf
    <3>3. \A s \in HeadOf(q, c + 1) : f[s] = g[s]
      BY <3>1
    <3>4. IsFiniteSet(HeadOf(q, i))
      <4>1. i \in 0..n
        OBVIOUS
      <4> QED BY <1>1, <4>1, HeadSize
    <3>5. IsFiniteSet(HeadOf(q, c + 1))
      BY <3>1, <3>4, FS_Subset
    <3>6. Gas(HeadOf(q, i)) = SumFunctionOnSet(f, HeadOf(q, i))
          /\ Gas(HeadOf(q, c + 1)) = SumFunctionOnSet(g, HeadOf(q, c + 1))
      BY DEF Gas
    <3> HIDE DEF f, g
    <3>7. SumFunctionOnSet(f, HeadOf(q, c + 1)) <= SumFunctionOnSet(f, HeadOf(q, i))
      BY <3>1, <3>2, <3>4, SumSubset
    <3>8. SumFunctionOnSet(f, HeadOf(q, c + 1)) = SumFunctionOnSet(g, HeadOf(q, c + 1))
      BY <3>3, <3>5, SumSame
    <3> QED BY <3>6, <3>7, <3>8
  <2>4. Gas(HeadOf(q, c + 1)) \in Nat /\ Gas(HeadOf(q, i)) \in Nat
    <3>1. c + 1 \in 0..n /\ i \in 0..n
      BY <2>1
    <3> QED BY <3>1, HeadGas
  <2> QED BY <1>1, <2>1, <2>2, <2>3, <2>4, ConstantsAssumption DEF Passes
<1>4. \A i \in 1..c : i \in 1..n /\ q[i] \in InclusionList(baseFee)
  BY <1>1, <1>2 DEF StopsAfter
<1>5. \A s \in InclusionList(baseFee) : s \in {q[i] : i \in 1..c}
  <2> SUFFICES ASSUME NEW s \in InclusionList(baseFee) PROVE s \in {q[i] : i \in 1..c}
    OBVIOUS
  <2>1. PICK i \in 1..n : s = q[i]
    BY <1>1 DEF InclusionList
  <2>2. ~(i > c)
    BY <1>2, <1>3, <2>1
  <2> QED BY <1>1, <2>1, <2>2
<1> QED BY <1>4, <1>5 DEF HeadOf
-----------------------------------------------------------------------------
(* The walk of `currentIL`.                                                *)

\* A step of `currentIL` and its start, and the walk as a function of the steps.
ListStep(baseFee, w) ==
    IF Listable(entry, w.cur, w.gasUsed, Len(w.il), baseFee)
    THEN [cur |-> list.next[w.cur], il |-> Append(w.il, w.cur),
          gasUsed |-> w.gasUsed + entry[w.cur].tx.gasLimit]
    ELSE w

ListStart == [cur |-> list.first, il |-> <<>>, gasUsed |-> 0]

ListWalk(baseFee) ==
    CHOOSE g : g = [k \in 0..MaxILCount |-> IF k = 0 THEN ListStart ELSE ListStep(baseFee, g[k - 1])]

\* The recursion of `currentIL`, one step at a time.
LEMMA ListWalkSteps ==
    ASSUME NEW baseFee
    PROVE  /\ CurrentIL(baseFee) = ListWalk(baseFee)[MaxILCount].il
           /\ ListWalk(baseFee)[0] = ListStart
           /\ \A k \in 1..MaxILCount : ListWalk(baseFee)[k] = ListStep(baseFee, ListWalk(baseFee)[k - 1])
<1> DEFINE Def(v, k) == ListStep(baseFee, v)
           g == ListWalk(baseFee)
<1>0. MaxILCount \in Nat
  BY ConstantsAssumption
<1>1. FiniteNatInductiveDefHypothesis(g, ListStart, Def, 0, MaxILCount)
  BY DEF FiniteNatInductiveDefHypothesis, ListWalk
<1>2. FiniteNatInductiveDefConclusion(g, ListStart, Def, 0, MaxILCount)
  BY <1>0, <1>1, FiniteNatInductiveDef
<1>3. g = [k \in 0..MaxILCount |-> IF k = 0 THEN ListStart ELSE Def(g[k - 1], k)]
  BY <1>2 DEF FiniteNatInductiveDefConclusion
<1>4. CurrentIL(baseFee) = g[MaxILCount].il
  BY DEF CurrentIL, ListWalk, ListStep, ListStart
<1> HIDE DEF g
<1>5. g[0] = ListStart /\ \A k \in 1..MaxILCount : g[k] = Def(g[k - 1], k)
  BY <1>0, <1>3
<1> QED BY <1>4, <1>5 DEF g

\* What the walk holds after j entries.
ListedTo(q, n, j) == [cur     |-> At(q, n, j + 1),
                      il      |-> [i \in 1..j |-> q[i]],
                      gasUsed |-> Gas(HeadOf(q, j))]

\* The walk passes an entry exactly when its position passes.
LEMMA ListableInQueue ==
    ASSUME NEW q, NEW n, Ordered(q, n), NEW baseFee \in Nat, NEW j \in 0..n
    PROVE  Listable(entry, At(q, n, j + 1), Gas(HeadOf(q, j)), j, baseFee) <=> Passes(q, n, baseFee, j + 1)
<1>1. /\ n \in Nat /\ q \in [1..n -> Senders]
      /\ \A i \in 1..n : Gas(HeadOf(q, i)) = Gas(HeadOf(q, i - 1)) + entry[q[i]].tx.gasLimit
  BY OrderFacts, HeadGas
<1>2. At(q, n, j + 1) = Null <=> j + 1 \notin 1..n
  BY <1>1, NullAssumption DEF At
<1>3. CASE j + 1 \in 1..n
  <2>1. At(q, n, j + 1) = q[j + 1] /\ (j + 1) - 1 = j
    BY <1>3 DEF At
  <2>2. Gas(HeadOf(q, j + 1)) = Gas(HeadOf(q, (j + 1) - 1)) + entry[q[j + 1]].tx.gasLimit
    BY <1>1, <1>3
  <2>3. Gas(HeadOf(q, j + 1)) = Gas(HeadOf(q, j)) + entry[q[j + 1]].tx.gasLimit
    BY <2>1, <2>2
  <2> QED BY <1>2, <1>3, <2>1, <2>3 DEF Listable, Passes, Fee
<1>4. CASE j + 1 \notin 1..n
  BY <1>2, <1>4 DEF Listable, Passes
<1> QED BY <1>3, <1>4

\* One step of `currentIL`, from position j of the queue.
LEMMA ListStepInQueue ==
    ASSUME NEW q, NEW n, Ordered(q, n), NEW baseFee \in Nat, NEW j \in 0..n
    PROVE  ListStep(baseFee, ListedTo(q, n, j)) =
              IF Passes(q, n, baseFee, j + 1) THEN ListedTo(q, n, j + 1) ELSE ListedTo(q, n, j)
<1> DEFINE w == ListedTo(q, n, j)
<1>1. /\ n \in Nat /\ q \in [1..n -> Senders]
      /\ \A i \in 1..n : Gas(HeadOf(q, i)) = Gas(HeadOf(q, i - 1)) + entry[q[i]].tx.gasLimit
  BY OrderFacts, HeadGas
<1>2. /\ w.cur = At(q, n, j + 1) /\ w.il = [i \in 1..j |-> q[i]] /\ w.gasUsed = Gas(HeadOf(q, j))
  BY DEF ListedTo
<1>3. Len(w.il) = j /\ w.il \in Seq(Senders)
  BY <1>1, <1>2
<1>4. Listable(entry, w.cur, w.gasUsed, Len(w.il), baseFee) <=> Passes(q, n, baseFee, j + 1)
  BY <1>2, <1>3, ListableInQueue
<1>5. CASE Passes(q, n, baseFee, j + 1)
  <2>1. j + 1 \in 1..n /\ w.cur = q[j + 1] /\ (j + 1) - 1 = j
    BY <1>2, <1>5 DEF Passes, At
  <2>2. list.next[w.cur] = At(q, n, (j + 1) + 1)
    BY <2>1 DEF Ordered, InOrder, IsList
  <2>3. Append(w.il, w.cur) = [i \in 1..(j + 1) |-> q[i]]
    BY <1>1, <1>2, <1>3, <2>1
  <2>4. Gas(HeadOf(q, j + 1)) = Gas(HeadOf(q, (j + 1) - 1)) + entry[q[j + 1]].tx.gasLimit
    BY <1>1, <2>1
  <2>5. w.gasUsed + entry[w.cur].tx.gasLimit = Gas(HeadOf(q, j + 1))
    BY <1>2, <2>1, <2>4
  <2> HIDE DEF w
  <2> QED BY <1>4, <1>5, <2>2, <2>3, <2>5 DEF ListStep, ListedTo, w
<1>6. CASE ~Passes(q, n, baseFee, j + 1)
  BY <1>4, <1>6 DEF ListStep
<1> QED BY <1>5, <1>6

\* `currentIL` hashes the senders up to where the walks stop, in order.
LEMMA CurrentILIsTheHead ==
    ASSUME NEW q, NEW n, Ordered(q, n), NEW baseFee \in Nat, NEW c,
           StopsAfter(q, n, baseFee, c), c <= MaxILCount
    PROVE  CurrentIL(baseFee) = [i \in 1..c |-> q[i]]
<1> DEFINE g == ListWalk(baseFee)
           Upto(k) == IF k <= c THEN k ELSE c
           P == {k \in Nat : k <= MaxILCount => g[k] = ListedTo(q, n, Upto(k))}
<1>1. n \in Nat /\ c \in 0..n /\ MaxILCount \in Nat
  BY OrderFacts, ConstantsAssumption DEF StopsAfter
<1>2. 0 \in P
  <2>1. g[0] = ListStart
    BY ListWalkSteps
  <2>2. list.first = At(q, n, 0 + 1)
    BY DEF Ordered, InOrder, IsList
  <2>3. [i \in 1..0 |-> q[i]] = <<>> /\ Gas(HeadOf(q, 0)) = 0
    BY HeadGas
  <2>4. ListStart = ListedTo(q, n, 0)
    BY <2>2, <2>3 DEF ListStart, ListedTo
  <2>5. Upto(0) = 0
    BY <1>1
  <2> HIDE DEF g, Upto
  <2> QED BY <2>1, <2>4, <2>5
<1>3. ASSUME NEW k \in Nat, k \in P PROVE k + 1 \in P
  <2> SUFFICES ASSUME k + 1 <= MaxILCount PROVE g[k + 1] = ListedTo(q, n, Upto(k + 1))
    BY <1>3
  <2>1. g[k] = ListedTo(q, n, Upto(k)) /\ Upto(k) \in 0..n
    BY <1>1, <1>3
  <2>2. g[k + 1] = ListStep(baseFee, g[k])
    <3>1. k + 1 \in 1..MaxILCount /\ (k + 1) - 1 = k
      BY <1>1
    <3>2. \A j \in 1..MaxILCount : g[j] = ListStep(baseFee, g[j - 1])
      BY ListWalkSteps
    <3> HIDE DEF g
    <3> QED BY <3>1, <3>2
  <2>3. CASE k + 1 <= c
    <3>1. Passes(q, n, baseFee, Upto(k) + 1) /\ Upto(k + 1) = Upto(k) + 1
      BY <1>1, <2>3 DEF StopsAfter
    <3> HIDE DEF g, Upto
    <3> QED BY <2>1, <2>2, <3>1, ListStepInQueue
  <2>4. CASE ~(k + 1 <= c)
    <3>1. ~Passes(q, n, baseFee, Upto(k) + 1) /\ Upto(k + 1) = Upto(k)
      BY <1>1, <2>4 DEF StopsAfter
    <3> HIDE DEF g, Upto
    <3> QED BY <2>1, <2>2, <3>1, ListStepInQueue
  <2> QED BY <2>3, <2>4
<1>4. MaxILCount \in P
  <2> HIDE DEF P
  <2>1. Nat \subseteq P
    BY <1>2, <1>3, SetInduction
  <2> QED BY <1>1, <2>1
<1>5. g[MaxILCount] = ListedTo(q, n, c)
  <2>1. Upto(MaxILCount) = c
    BY <1>1
  <2> QED BY <1>1, <1>4, <2>1
<1> HIDE DEF g
<1> QED BY <1>5, ListWalkSteps DEF ListedTo, g
-----------------------------------------------------------------------------
(* The walk of `settle`.                                                   *)

\* The same of `settle`.
SettleIter(baseFee, gasUsed, proven, w) ==
    IF Listable(w.entry, w.cur, w.gasUsed, Cardinality(w.seen), baseFee)
    THEN SettleStep(w, proven, BlockGasLimit - gasUsed)
    ELSE w

SettleStart == [cur |-> list.first, list |-> list, entry |-> entry,
                left |-> {}, seen |-> {}, gasUsed |-> 0]

SettleWalk(baseFee, gasUsed, proven) ==
    CHOOSE g : g = [k \in 0..MaxILCount |->
                       IF k = 0 THEN SettleStart ELSE SettleIter(baseFee, gasUsed, proven, g[k - 1])]

\* The recursion of `settle`, one step at a time.
LEMMA SettleWalkSteps ==
    ASSUME NEW baseFee, NEW gasUsed, NEW proven
    PROVE  LET g == SettleWalk(baseFee, gasUsed, proven)
           IN  /\ Settle(baseFee, gasUsed, proven) = g[MaxILCount]
               /\ g[0] = SettleStart
               /\ \A k \in 1..MaxILCount : g[k] = SettleIter(baseFee, gasUsed, proven, g[k - 1])
<1> DEFINE Def(v, k) == SettleIter(baseFee, gasUsed, proven, v)
           g == SettleWalk(baseFee, gasUsed, proven)
<1>0. MaxILCount \in Nat
  BY ConstantsAssumption
<1>1. FiniteNatInductiveDefHypothesis(g, SettleStart, Def, 0, MaxILCount)
  BY DEF FiniteNatInductiveDefHypothesis, SettleWalk
<1>2. FiniteNatInductiveDefConclusion(g, SettleStart, Def, 0, MaxILCount)
  BY <1>0, <1>1, FiniteNatInductiveDef
<1>3. g = [k \in 0..MaxILCount |-> IF k = 0 THEN SettleStart ELSE Def(g[k - 1], k)]
  BY <1>2 DEF FiniteNatInductiveDefConclusion
<1>4. Settle(baseFee, gasUsed, proven) = g[MaxILCount]
  BY DEF Settle, SettleWalk, SettleIter, SettleStart
<1> HIDE DEF g
<1>5. g[0] = SettleStart /\ \A k \in 1..MaxILCount : g[k] = Def(g[k - 1], k)
  BY <1>0, <1>3
<1> QED BY <1>4, <1>5 DEF g

\* Those among the first j entries that leave.
LeftOf(q, j, proven, headroom) ==
    {s \in HeadOf(q, j) : s \in proven \/ entry[s].tx.gasLimit <= headroom}

\* The list r of m senders is the queue without those that left, in its order;
\* from position d on it is the queue from position j on.
RestOf(q, n, j, left, r, m, d) ==
    /\ {r[i] : i \in 1..m} = {q[i] : i \in 1..n} \ left
    /\ \A a, b \in 1..m : a < b => \E x, y \in 1..n : x < y /\ r[a] = q[x] /\ r[b] = q[y]
    /\ d \in Nat /\ m = d + (n - j)
    /\ \A i \in 1..(n - j) : r[d + i] = q[j + i]

\* What the walk of `settle` holds after j entries.
SettledTo(w, q, n, j, proven, headroom) ==
    /\ w.cur = At(q, n, j + 1)
    /\ w.seen = HeadOf(q, j)
    /\ w.gasUsed = Gas(HeadOf(q, j))
    /\ w.left = LeftOf(q, j, proven, headroom)
    /\ w.entry = [s \in Senders |-> IF s \in w.left THEN NoEntry ELSE entry[s]]
    /\ \E r, m, d : IsList(w.list, r, m) /\ RestOf(q, n, j, w.left, r, m, d)

\* Unlinking the entry the walk is at keeps the rest of the queue in order.
LEMMA RestWithout ==
    ASSUME NEW q, NEW n, Ordered(q, n), NEW j \in 0..(n - 1), NEW left,
           q[j + 1] \notin left,
           NEW l, NEW r, NEW m, NEW d, IsList(l, r, m), RestOf(q, n, j, left, r, m, d)
    PROVE  /\ d + 1 \in 1..m /\ r[d + 1] = q[j + 1]
           /\ RestOf(q, n, j + 1, left \cup {q[j + 1]}, Without(r, m, d + 1), m - 1, d)
<1> DEFINE p == Without(r, m, d + 1)
<1>1. /\ n \in Nat /\ q \in [1..n -> Senders] /\ m \in Nat /\ r \in [1..m -> Senders] /\ d \in Nat
      /\ \A x, y \in 1..n : q[x] = q[y] => x = y
      /\ \A x, y \in 1..m : r[x] = r[y] => x = y
      /\ m = d + (n - j)
  BY OrderFacts DEF IsList, RestOf
<1>2. d + 1 \in 1..m /\ r[d + 1] = q[j + 1]
  <2>1. 1 \in 1..(n - j) /\ d + 1 \in 1..m
    BY <1>1
  <2>2. \A i \in 1..(n - j) : r[d + i] = q[j + i]
    BY DEF RestOf
  <2> QED BY <2>1, <2>2
<1>3. \A i \in 1..(m - 1) : p[i] = r[IF i < d + 1 THEN i ELSE i + 1]
  BY <1>1, <1>2 DEF Without
<1> HIDE DEF p
<1>4. {p[i] : i \in 1..(m - 1)} = {q[i] : i \in 1..n} \ (left \cup {q[j + 1]})
  <2>1. ASSUME NEW i \in 1..(m - 1) PROVE p[i] \in {r[x] : x \in 1..m} \ {q[j + 1]}
    <3> DEFINE x == IF i < d + 1 THEN i ELSE i + 1
    <3>1. x \in 1..m /\ x # d + 1 /\ p[i] = r[x]
      BY <1>1, <1>2, <1>3
    <3> HIDE DEF x
    <3>2. r[x] # q[j + 1]
      BY <1>1, <1>2, <3>1
    <3> QED BY <3>1, <3>2
  <2>2. ASSUME NEW x \in 1..m, r[x] # q[j + 1] PROVE r[x] \in {p[i] : i \in 1..(m - 1)}
    <3>1. CASE x < d + 1
      <4>1. x \in 1..(m - 1) /\ p[x] = r[x]
        BY <1>1, <1>2, <1>3, <3>1
      <4> QED BY <4>1
    <3>2. CASE ~(x < d + 1)
      <4>1. x - 1 \in 1..(m - 1) /\ p[x - 1] = r[x]
        BY <1>1, <1>2, <1>3, <2>2, <3>2
      <4> QED BY <4>1
    <3> QED BY <3>1, <3>2
  <2>3. {r[i] : i \in 1..m} = {q[i] : i \in 1..n} \ left
    BY DEF RestOf
  <2> QED BY <2>1, <2>2, <2>3
<1>5. ASSUME NEW a \in 1..(m - 1), NEW b \in 1..(m - 1), a < b
      PROVE  \E x, y \in 1..n : x < y /\ p[a] = q[x] /\ p[b] = q[y]
  <2> DEFINE u == IF a < d + 1 THEN a ELSE a + 1
             v == IF b < d + 1 THEN b ELSE b + 1
  <2>1. u \in 1..m /\ v \in 1..m /\ u < v /\ p[a] = r[u] /\ p[b] = r[v]
    BY <1>1, <1>3, <1>5
  <2> HIDE DEF u, v
  <2> QED BY <2>1 DEF RestOf
<1>6. (m - 1) = d + (n - (j + 1))
  BY <1>1
<1>7. ASSUME NEW i \in 1..(n - (j + 1)) PROVE p[d + i] = q[(j + 1) + i]
  <2>1. d + i \in 1..(m - 1) /\ ~(d + i < d + 1) /\ i + 1 \in 1..(n - j)
    BY <1>1
  <2>2. p[d + i] = r[(d + i) + 1]
    BY <1>3, <2>1
  <2>3. r[d + (i + 1)] = q[j + (i + 1)]
    BY <2>1 DEF RestOf
  <2>4. (d + i) + 1 = d + (i + 1) /\ (j + 1) + i = j + (i + 1)
    BY <1>1
  <2> QED BY <2>2, <2>3, <2>4
<1>8. RestOf(q, n, j + 1, left \cup {q[j + 1]}, p, m - 1, d)
  BY <1>1, <1>4, <1>5, <1>6, <1>7 DEF RestOf
<1> QED BY <1>2, <1>8 DEF p

\* An entry the walk keeps stays where it is in the list.
LEMMA RestKept ==
    ASSUME NEW q, NEW n \in Nat, NEW j \in 0..(n - 1), NEW left,
           NEW r, NEW m, NEW d, RestOf(q, n, j, left, r, m, d)
    PROVE  RestOf(q, n, j + 1, left, r, m, d + 1)
<1>1. d + 1 \in Nat /\ m = (d + 1) + (n - (j + 1))
  BY DEF RestOf
<1>2. ASSUME NEW i \in 1..(n - (j + 1)) PROVE r[(d + 1) + i] = q[(j + 1) + i]
  <2>1. i + 1 \in 1..(n - j) /\ d \in Nat
    BY DEF RestOf
  <2>2. r[d + (i + 1)] = q[j + (i + 1)]
    BY <2>1 DEF RestOf
  <2>3. (d + 1) + i = d + (i + 1) /\ (j + 1) + i = j + (i + 1)
    BY <2>1
  <2> QED BY <2>2, <2>3
<1> QED BY <1>1, <1>2 DEF RestOf

\* One step of `settle`: it is at the queue's next entry although it has
\* unlinked earlier ones, and what it unlinks leaves the others in order.
LEMMA SettleStepInQueue ==
    ASSUME NEW q, NEW n, Ordered(q, n), NEW baseFee \in Nat, NEW j \in 0..n,
           NEW gasUsed, NEW proven, NEW w,
           SettledTo(w, q, n, j, proven, BlockGasLimit - gasUsed)
    PROVE  IF Passes(q, n, baseFee, j + 1)
           THEN SettledTo(SettleIter(baseFee, gasUsed, proven, w), q, n, j + 1, proven, BlockGasLimit - gasUsed)
           ELSE SettledTo(SettleIter(baseFee, gasUsed, proven, w), q, n, j, proven, BlockGasLimit - gasUsed)
<1> DEFINE room == BlockGasLimit - gasUsed
           next == SettleIter(baseFee, gasUsed, proven, w)
<1>1. /\ n \in Nat /\ q \in [1..n -> Senders]
      /\ \A x, y \in 1..n : q[x] = q[y] => x = y
      /\ \A i \in 1..n : Gas(HeadOf(q, i)) = Gas(HeadOf(q, i - 1)) + entry[q[i]].tx.gasLimit
  BY OrderFacts, HeadGas
<1>2. /\ w.cur = At(q, n, j + 1) /\ w.seen = HeadOf(q, j) /\ w.gasUsed = Gas(HeadOf(q, j))
      /\ w.left = LeftOf(q, j, proven, room)
      /\ w.entry = [s \in Senders |-> IF s \in w.left THEN NoEntry ELSE entry[s]]
  BY DEF SettledTo
<1>3. Cardinality(w.seen) = j
  BY <1>1, <1>2, HeadSize
<1>4. ASSUME j + 1 \in 1..n
      PROVE  w.cur = q[j + 1] /\ q[j + 1] \in Senders /\ q[j + 1] \notin w.left /\ w.entry[w.cur] = entry[w.cur]
  <2>1. w.cur = q[j + 1] /\ q[j + 1] \in Senders
    BY <1>1, <1>2, <1>4 DEF At
  <2>2. q[j + 1] \notin w.left
    BY <1>1, <1>2, <1>4 DEF LeftOf, HeadOf
  <2> QED BY <1>2, <2>1, <2>2
<1>5. Listable(w.entry, w.cur, w.gasUsed, Cardinality(w.seen), baseFee) <=> Passes(q, n, baseFee, j + 1)
  <2>1. Listable(entry, w.cur, w.gasUsed, j, baseFee) <=> Passes(q, n, baseFee, j + 1)
    BY <1>2, ListableInQueue
  <2>2. CASE j + 1 \in 1..n
    BY <1>3, <1>4, <2>1, <2>2 DEF Listable
  <2>3. CASE j + 1 \notin 1..n
    BY <1>1, <1>2, <2>3 DEF Listable, Passes, At
  <2> QED BY <2>2, <2>3
<1>6. CASE ~Passes(q, n, baseFee, j + 1)
  BY <1>5, <1>6 DEF SettleIter
<1>7. CASE Passes(q, n, baseFee, j + 1)
  <2>1. j + 1 \in 1..n /\ (j + 1) - 1 = j /\ j \in 0..(n - 1)
    BY <1>1, <1>7 DEF Passes
  <2> DEFINE s == q[j + 1]
             leaves == s \in proven \/ entry[s].tx.gasLimit <= room
  <2>2. w.cur = s /\ s \in Senders /\ s \notin w.left /\ w.entry[s] = entry[s]
    BY <1>4, <2>1
  <2>3. next = [cur     |-> w.list.next[s],
                list    |-> IF leaves THEN LinkRemove(w.list, s) ELSE w.list,
                entry   |-> IF leaves THEN [w.entry EXCEPT ![s] = NoEntry] ELSE w.entry,
                left    |-> IF leaves THEN w.left \cup {s} ELSE w.left,
                seen    |-> w.seen \cup {s},
                gasUsed |-> w.gasUsed + entry[s].tx.gasLimit]
    BY <1>5, <1>7, <2>2 DEF SettleIter, SettleStep
  <2>4. PICK r, m, d : IsList(w.list, r, m) /\ RestOf(q, n, j, w.left, r, m, d)
    BY DEF SettledTo
  <2>5. /\ d + 1 \in 1..m /\ r[d + 1] = s
        /\ RestOf(q, n, j + 1, w.left \cup {s}, Without(r, m, d + 1), m - 1, d)
    BY <2>1, <2>2, <2>4, RestWithout
  <2>6. w.list.next[s] = At(q, n, (j + 1) + 1)
    <3>1. w.list.next[r[d + 1]] = At(r, m, (d + 1) + 1)
      BY <2>4, <2>5 DEF IsList
    <3>2. /\ m = d + (n - j) /\ d \in Nat /\ j \in Nat
          /\ \A i \in 1..(n - j) : r[d + i] = q[j + i]
      BY <2>4 DEF RestOf
    <3>3. CASE j + 2 <= n
      <4>1. r[d + 2] = q[j + 2]
        <5>1. 2 \in 1..(n - j)
          BY <1>1, <3>2, <3>3
        <5> QED BY <3>2, <5>1
      <4>2. (d + 1) + 1 = d + 2 /\ d + 2 \in 1..m /\ (j + 1) + 1 = j + 2 /\ j + 2 \in 1..n
        BY <1>1, <3>2, <3>3
      <4> QED BY <2>5, <3>1, <4>1, <4>2 DEF At
    <3>4. CASE ~(j + 2 <= n)
      <4>1. (d + 1) + 1 \notin 1..m /\ (j + 1) + 1 \notin 1..n
        BY <1>1, <3>2, <3>4
      <4> QED BY <2>5, <3>1, <4>1 DEF At
    <3> QED BY <3>3, <3>4
  <2>7. w.seen \cup {s} = HeadOf(q, j + 1)
    BY <1>1, <1>2, <2>1 DEF HeadOf
  <2>8. w.gasUsed + entry[s].tx.gasLimit = Gas(HeadOf(q, j + 1))
    <3>1. Gas(HeadOf(q, j + 1)) = Gas(HeadOf(q, (j + 1) - 1)) + entry[q[j + 1]].tx.gasLimit
      BY <1>1, <2>1
    <3> QED BY <1>2, <2>1, <3>1
  <2>9. CASE leaves
    <3>1. next.left = w.left \cup {s} /\ next.entry = [w.entry EXCEPT ![s] = NoEntry]
          /\ next.list = LinkRemove(w.list, s)
      BY <2>3, <2>9
    <3>2. w.left \cup {s} = LeftOf(q, j + 1, proven, room)
      BY <1>2, <2>7, <2>9 DEF LeftOf
    <3>3. next.entry = [u \in Senders |-> IF u \in next.left THEN NoEntry ELSE entry[u]]
      BY <1>2, <2>2, <3>1
    <3>4. IsList(LinkRemove(w.list, s), Without(r, m, d + 1), m - 1)
      BY <2>4, <2>5, RemoveFromList
    <3>5. next.cur = At(q, n, (j + 1) + 1) /\ next.seen = HeadOf(q, j + 1)
          /\ next.gasUsed = Gas(HeadOf(q, j + 1))
      BY <2>3, <2>6, <2>7, <2>8
    <3>6. \E r1, m1, d1 : IsList(next.list, r1, m1) /\ RestOf(q, n, j + 1, next.left, r1, m1, d1)
      BY <2>5, <3>1, <3>4
    <3> HIDE DEF next, room
    <3>7. SettledTo(next, q, n, j + 1, proven, room)
      BY <3>1, <3>2, <3>3, <3>5, <3>6 DEF SettledTo
    <3> QED BY <1>7, <3>7 DEF next, room
  <2>10. CASE ~leaves
    <3>1. next.left = w.left /\ next.entry = w.entry /\ next.list = w.list
      BY <2>3, <2>10
    <3>2. w.left = LeftOf(q, j + 1, proven, room)
      BY <1>2, <2>7, <2>10 DEF LeftOf
    <3>3. RestOf(q, n, j + 1, w.left, r, m, d + 1)
      BY <1>1, <2>1, <2>4, RestKept
    <3>5. next.cur = At(q, n, (j + 1) + 1) /\ next.seen = HeadOf(q, j + 1)
          /\ next.gasUsed = Gas(HeadOf(q, j + 1))
      BY <2>3, <2>6, <2>7, <2>8
    <3>6. \E r1, m1, d1 : IsList(next.list, r1, m1) /\ RestOf(q, n, j + 1, next.left, r1, m1, d1)
      BY <2>4, <3>1, <3>3
    <3> HIDE DEF next, room
    <3>7. SettledTo(next, q, n, j + 1, proven, room)
      BY <1>2, <3>1, <3>2, <3>5, <3>6 DEF SettledTo
    <3> QED BY <1>7, <3>7 DEF next, room
  <2> QED BY <2>9, <2>10
<1> QED BY <1>6, <1>7

\* `settle` walks exactly what `currentIL` lists.
LEMMA SettleInQueue ==
    ASSUME NEW q, NEW n, Ordered(q, n), NEW baseFee \in Nat, NEW c,
           StopsAfter(q, n, baseFee, c), c <= MaxILCount, NEW gasUsed, NEW proven
    PROVE  SettledTo(Settle(baseFee, gasUsed, proven), q, n, c, proven, BlockGasLimit - gasUsed)
<1> DEFINE room == BlockGasLimit - gasUsed
           g == SettleWalk(baseFee, gasUsed, proven)
           Upto(k) == IF k <= c THEN k ELSE c
           P == {k \in Nat : k <= MaxILCount => SettledTo(g[k], q, n, Upto(k), proven, room)}
<1>1. n \in Nat /\ c \in 0..n /\ MaxILCount \in Nat
  BY OrderFacts, ConstantsAssumption DEF StopsAfter
<1>2. 0 \in P
  <2>1. g[0] = SettleStart
    BY SettleWalkSteps
  <2>2. list.first = At(q, n, 0 + 1) /\ IsList(list, q, n)
    BY DEF Ordered, InOrder, IsList
  <2>3. HeadOf(q, 0) = {} /\ Gas(HeadOf(q, 0)) = 0 /\ LeftOf(q, 0, proven, room) = {}
    BY HeadGas DEF HeadOf, LeftOf
  <2>4. entry = [s \in Senders |-> IF s \in {} THEN NoEntry ELSE entry[s]]
    BY DEF Ordered, TypeOK
  <2>5. RestOf(q, n, 0, {}, q, n, 0)
    <3>1. \A a, b \in 1..n : a < b => \E x, y \in 1..n : x < y /\ q[a] = q[x] /\ q[b] = q[y]
      OBVIOUS
    <3>2. 0 \in Nat /\ n = 0 + (n - 0) /\ \A i \in 1..(n - 0) : q[0 + i] = q[0 + i]
      BY <1>1
    <3>3. {q[i] : i \in 1..n} = {q[i] : i \in 1..n} \ {}
      OBVIOUS
    <3> QED BY <3>1, <3>2, <3>3 DEF RestOf
  <2>6. /\ SettleStart.cur = list.first /\ SettleStart.list = list /\ SettleStart.entry = entry
        /\ SettleStart.left = {} /\ SettleStart.seen = {} /\ SettleStart.gasUsed = 0
    BY DEF SettleStart
  <2> HIDE DEF room
  <2>7. SettledTo(SettleStart, q, n, 0, proven, room)
    BY <2>2, <2>3, <2>4, <2>5, <2>6 DEF SettledTo
  <2>8. Upto(0) = 0
    BY <1>1
  <2> HIDE DEF g, Upto
  <2> QED BY <2>1, <2>7, <2>8
<1>3. ASSUME NEW k \in Nat, k \in P PROVE k + 1 \in P
  <2> SUFFICES ASSUME k + 1 <= MaxILCount PROVE SettledTo(g[k + 1], q, n, Upto(k + 1), proven, room)
    BY <1>3
  <2>1. SettledTo(g[k], q, n, Upto(k), proven, room) /\ Upto(k) \in 0..n
    BY <1>1, <1>3
  <2>2. g[k + 1] = SettleIter(baseFee, gasUsed, proven, g[k])
    <3>1. k + 1 \in 1..MaxILCount /\ (k + 1) - 1 = k
      BY <1>1
    <3>2. \A j \in 1..MaxILCount : g[j] = SettleIter(baseFee, gasUsed, proven, g[j - 1])
      BY SettleWalkSteps
    <3> HIDE DEF g
    <3> QED BY <3>1, <3>2
  <2>3. CASE k + 1 <= c
    <3>1. Passes(q, n, baseFee, Upto(k) + 1) /\ Upto(k + 1) = Upto(k) + 1
      BY <1>1, <2>3 DEF StopsAfter
    <3> HIDE DEF g, Upto
    <3> QED BY <2>1, <2>2, <3>1, SettleStepInQueue
  <2>4. CASE ~(k + 1 <= c)
    <3>1. ~Passes(q, n, baseFee, Upto(k) + 1) /\ Upto(k + 1) = Upto(k)
      BY <1>1, <2>4 DEF StopsAfter
    <3> HIDE DEF g, Upto
    <3> QED BY <2>1, <2>2, <3>1, SettleStepInQueue
  <2> QED BY <2>3, <2>4
<1>4. MaxILCount \in P
  <2> HIDE DEF P
  <2>1. Nat \subseteq P
    BY <1>2, <1>3, SetInduction
  <2> QED BY <1>1, <2>1
<1>5. SettledTo(g[MaxILCount], q, n, c, proven, room)
  <2>1. Upto(MaxILCount) = c
    BY <1>1
  <2> QED BY <1>1, <1>4, <2>1
<1> HIDE DEF g
<1> QED BY <1>5, SettleWalkSteps DEF g
-----------------------------------------------------------------------------
(* The steps.                                                              *)

\* The inductive invariant: the queue's own, and that its list is its order.
InboxInv == /\ IInv
            /\ OlderIsOrder
            /\ \E q \in [1..queuedCount -> Senders] : InOrder(q, queuedCount)

\* l is the list of the queue without `gone`, in the same order.
Keeps(l, p, m, q, n, gone) ==
    /\ IsList(l, p, m)
    /\ {p[i] : i \in 1..m} = Queued \ gone
    /\ \A a, b \in 1..m : a < b => \E x, y \in 1..n : x < y /\ p[a] = q[x] /\ p[b] = q[y]

\* The invariant gives the sequence, of the length the counter says.
LEMMA InvIsOrdered ==
    ASSUME InboxInv
    PROVE  \E q, n : n = queuedCount /\ Ordered(q, n) /\ n = Cardinality(Queued)
<1>1. PICK q : InOrder(q, queuedCount)
  BY DEF InboxInv
<1>2. Ordered(q, queuedCount)
  BY <1>1 DEF Ordered, InboxInv, IInv
<1> QED BY <1>2, OrderFacts

\* Unlinking a queued sender keeps the others.
LEMMA RemoveKeeps ==
    ASSUME NEW q, NEW n, Ordered(q, n), NEW s \in Queued
    PROVE  \E p : Keeps(LinkRemove(list, s), p, n - 1, q, n, {s})
<1>1. PICK k \in 1..n : s = q[k]
  BY DEF Ordered, InOrder
<1>2. n \in Nat /\ IsList(list, q, n) /\ Queued = {q[i] : i \in 1..n}
  BY OrderFacts DEF Ordered, InOrder
<1>3. RestOf(q, n, k - 1, {}, q, n, k - 1)
  <2>1. k - 1 \in Nat /\ n = (k - 1) + (n - (k - 1))
    BY <1>2
  <2>2. \A a, b \in 1..n : a < b => \E x, y \in 1..n : x < y /\ q[a] = q[x] /\ q[b] = q[y]
    OBVIOUS
  <2> QED BY <2>1, <2>2 DEF RestOf
<1>4. k - 1 \in 0..(n - 1) /\ (k - 1) + 1 = k
  BY <1>2
<1>5. RestOf(q, n, k, {} \cup {q[k]}, Without(q, n, k), n - 1, k - 1)
  <2>1. \A j \in 0..(n - 1) : RestOf(q, n, j, {}, q, n, j) =>
           RestOf(q, n, j + 1, {} \cup {q[j + 1]}, Without(q, n, j + 1), n - 1, j)
    BY <1>2, RestWithout
  <2>2. RestOf(q, n, (k - 1) + 1, {} \cup {q[(k - 1) + 1]}, Without(q, n, (k - 1) + 1), n - 1, k - 1)
    BY <1>3, <1>4, <2>1
  <2> QED BY <1>4, <2>2
<1>6. IsList(LinkRemove(list, s), Without(q, n, k), n - 1)
  BY <1>1, <1>2, RemoveFromList
<1>7. Keeps(LinkRemove(list, s), Without(q, n, k), n - 1, q, n, {s})
  BY <1>1, <1>2, <1>5, <1>6 DEF RestOf, Keeps
<1> QED BY <1>7

\* Entries that leave take their place along, and the list stays the queue.
LEMMA LeaveKeepsOrder ==
    ASSUME NEW q, NEW n, Ordered(q, n), NEW gone, Leave(gone),
           NEW p, NEW m, Keeps(list', p, m, q, n, gone)
    PROVE  OlderIsOrder' /\ InOrder(p, m)'
<1>1. Queued' = Queued \ gone /\ \A s \in Queued' : entry'[s] = entry[s]
  BY DEF Leave, Queued
<1>2. older' = {x \in older : x[1] \notin gone /\ x[2] \notin gone}
  BY DEF Leave
<1>3. OlderIsOrder'
  BY <1>1, <1>2 DEF Ordered, OlderIsOrder
<1>4. ASSUME NEW a \in 1..m, NEW b \in 1..m, a < b
      PROVE  Ahead(p[a], p[b])'
  <2>1. PICK x \in 1..n, y \in 1..n : x < y /\ p[a] = q[x] /\ p[b] = q[y]
    BY <1>4 DEF Keeps
  <2>2. Ahead(p[a], p[b])
    BY <2>1 DEF Ordered, InOrder
  <2>3. p[a] \in Queued' /\ p[b] \in Queued' /\ p[a] \notin gone /\ p[b] \notin gone
    BY <1>1 DEF Keeps
  <2>4. entry'[p[a]] = entry[p[a]] /\ entry'[p[b]] = entry[p[b]]
    BY <1>1, <2>3
  <2> QED BY <1>2, <2>2, <2>3, <2>4 DEF Ahead, Fee
<1> QED BY <1>1, <1>3, <1>4 DEF InOrder, Keeps

\* An entry inserted by `_insertSorted` takes its place in the queue's order.
LEMMA EnterKeepsOrder ==
    ASSUME NEW q, NEW n, Ordered(q, n), NEW t \in Txs, NEW b \in 0..blockNumber,
           NEW evicted \in SUBSET Queued, t.sender \notin evicted, Enter(t, b, evicted),
           NEW kept, NEW p, NEW m, Keeps(kept, p, m, q, n, evicted \cup {t.sender}),
           list' = InsertSorted(kept, entry', t.sender)
    PROVE  OlderIsOrder' /\ \E r : InOrder(r, m + 1)'
<1> DEFINE s == t.sender
           out == evicted \cup {s}
           fee == entry'[s].tx.maxFeePerGas
<1>0. TypeOK
  BY DEF Ordered
<1>1. /\ s \in Senders /\ entry'[s] = [tx |-> t, l2BlockNumber |-> b]
      /\ \A u \in Senders \ out : entry'[u] = entry[u]
      /\ Queued' = (Queued \ out) \cup {s}
      /\ Queued \subseteq Senders
  BY <1>0, EnterFacts DEF Queued
<1>2. older' = {x \in older : {x[1], x[2]} \cap out = {}} \cup ((Queued \ out) \X {s})
  BY DEF Enter
<1>3. OlderIsOrder'
  BY <1>1, <1>2 DEF Ordered, OlderIsOrder
<1>4. /\ m \in Nat /\ p \in [1..m -> Senders] /\ IsList(kept, p, m)
      /\ \A x, y \in 1..m : p[x] = p[y] => x = y
      /\ \A i \in 1..m : p[i] \in Queued \ out
      /\ {p[i] : i \in 1..m} = Queued \ out
  BY DEF Keeps, IsList
<1>5. \A i \in 1..m : /\ p[i] # s /\ p[i] \in Queued /\ p[i] \in Senders
                      /\ entry'[p[i]] = entry[p[i]]
  BY <1>1, <1>4
<1>6. PICK k \in 1..(m + 1) :
         /\ InsertionPoint(kept, entry', fee) = At(p, m, k)
         /\ \A i \in 1..(k - 1) : ~(entry'[p[i]].tx.maxFeePerGas < fee)
         /\ k <= m => entry'[p[k]].tx.maxFeePerGas < fee
  BY <1>4, InsertionPointInList
<1> DEFINE r == With(p, m, k, s)
<1>7. list' = InsertBefore(kept, s, At(p, m, k))
  BY <1>6 DEF InsertSorted
<1>8. IsList(list', r, m + 1)
  BY <1>1, <1>4, <1>5, <1>7, InsertIntoList
<1>9. \A i \in 1..(m + 1) : r[i] = IF i < k THEN p[i] ELSE IF i = k THEN s ELSE p[i - 1]
  BY <1>4 DEF With
<1> HIDE DEF r
<1>10. {r[i] : i \in 1..(m + 1)} = Queued'
  <2>1. \A i \in 1..(m + 1) : r[i] \in Queued'
    BY <1>1, <1>4, <1>9
  <2>2. r[k] = s
    BY <1>9
  <2>3. ASSUME NEW x \in 1..m PROVE \E i \in 1..(m + 1) : r[i] = p[x]
    <3>1. CASE x < k
      BY <1>4, <1>9, <3>1
    <3>2. CASE ~(x < k)
      <4>1. x + 1 \in 1..(m + 1) /\ r[x + 1] = p[x]
        BY <1>4, <1>9, <3>2
      <4> QED BY <4>1
    <3> QED BY <3>1, <3>2
  <2> QED BY <1>1, <1>4, <2>1, <2>2, <2>3
<1>11. \A i \in 1..m : Fee(p[i]) \in Nat /\ entry'[p[i]].tx.maxFeePerGas = Fee(p[i])
  <2> SUFFICES ASSUME NEW i \in 1..m
               PROVE  Fee(p[i]) \in Nat /\ entry'[p[i]].tx.maxFeePerGas = Fee(p[i])
    OBVIOUS
  <2>1. entry[p[i]].tx \in Tx /\ entry'[p[i]] = entry[p[i]]
    BY <1>0, <1>5, EntryType
  <2> QED BY <2>1 DEF Fee, Tx
<1>12. fee \in Nat
  <2>1. t \in Tx
    BY ConstantsAssumption
  <2> QED BY <1>1, <2>1 DEF Tx
<1>13. ASSUME NEW x \in 1..m, NEW y \in 1..m, x < y
       PROVE  Ahead(p[x], p[y])' /\ Fee(p[x]) >= Fee(p[y])
  <2>1. PICK i \in 1..n, j \in 1..n : i < j /\ p[x] = q[i] /\ p[y] = q[j]
    BY <1>13 DEF Keeps
  <2>2. Ahead(p[x], p[y])
    BY <2>1 DEF Ordered, InOrder
  <2>3. <<p[x], p[y]>> \in older => <<p[x], p[y]>> \in older'
    BY <1>2, <1>4
  <2>4. Ahead(p[x], p[y])'
    BY <1>5, <2>2, <2>3 DEF Ahead, Fee
  <2> QED BY <1>11, <2>2, <2>4 DEF Ahead
<1>14. ASSUME NEW x \in 1..m, x < k PROVE Ahead(p[x], s)'
  <2>1. <<p[x], s>> \in older'
    BY <1>2, <1>4
  <2>2. ~(Fee(p[x]) < fee)
    BY <1>6, <1>11, <1>14
  <2>3. Fee(p[x]) > fee \/ Fee(p[x]) = fee
    BY <1>11, <1>12, <2>2
  <2> QED BY <1>11, <2>1, <2>3 DEF Ahead, Fee
<1>15. ASSUME NEW x \in 1..m, ~(x < k) PROVE Ahead(s, p[x])'
  <2>1. k \in 1..m /\ Fee(p[k]) < fee
    BY <1>4, <1>6, <1>11, <1>15
  <2>2. Fee(p[k]) >= Fee(p[x])
    <3>1. CASE x = k
      BY <1>11, <3>1
    <3>2. CASE x # k
      BY <1>13, <1>15, <2>1, <3>2
    <3> QED BY <3>1, <3>2
  <2>3. fee > Fee(p[x])
    BY <1>11, <1>12, <2>1, <2>2
  <2> QED BY <1>11, <2>3 DEF Ahead, Fee
<1>16. ASSUME NEW x \in 1..(m + 1), NEW y \in 1..(m + 1), x < y
       PROVE  Ahead(r[x], r[y])'
  <2>1. CASE y < k
    <3>1. r[x] = p[x] /\ r[y] = p[y] /\ x \in 1..m /\ y \in 1..m
      BY <1>4, <1>9, <1>16, <2>1
    <3> QED BY <1>13, <1>16, <3>1
  <2>2. CASE y = k
    <3>1. r[x] = p[x] /\ r[y] = s /\ x \in 1..m /\ x < k
      BY <1>4, <1>9, <1>16, <2>2
    <3> QED BY <1>14, <3>1
  <2>3. CASE y > k /\ x < k
    <3>1. r[x] = p[x] /\ r[y] = p[y - 1] /\ x \in 1..m /\ y - 1 \in 1..m /\ x < y - 1
      BY <1>4, <1>9, <1>16, <2>3
    <3> QED BY <1>13, <3>1
  <2>4. CASE y > k /\ x = k
    <3>1. r[x] = s /\ r[y] = p[y - 1] /\ y - 1 \in 1..m /\ ~(y - 1 < k)
      BY <1>4, <1>9, <1>16, <2>4
    <3> QED BY <1>15, <3>1
  <2>5. CASE y > k /\ x > k
    <3>1. r[x] = p[x - 1] /\ r[y] = p[y - 1] /\ x - 1 \in 1..m /\ y - 1 \in 1..m /\ x - 1 < y - 1
      BY <1>4, <1>9, <1>16, <2>5
    <3> QED BY <1>13, <3>1
  <2> QED BY <1>16, <2>1, <2>2, <2>3, <2>4, <2>5
<1>17. InOrder(r, m + 1)'
  BY <1>8, <1>10, <1>16 DEF InOrder
<1> QED BY <1>3, <1>17

\* `add` is one of the queue's three ways in, and inserts in its order.
LEMMA AddStep ==
    ASSUME InboxInv, NEW t \in Txs, NEW b \in 0..blockNumber, Add(t, b)
    PROVE  /\ Replace(t, b) \/ Enqueue(t, b) \/ Outbid(t, b)
           /\ OlderIsOrder'
           /\ \E r, m : m = queuedCount' /\ InOrder(r, m)'
<1> DEFINE s == t.sender
           tail == list.last
           removed == IF entry[s] # NoEntry THEN {s}
                      ELSE IF queuedCount >= MaxQueueSize THEN {tail} ELSE {}
           kept == IF removed = {} THEN list ELSE LinkRemove(list, CHOOSE r \in removed : TRUE)
<1>1. /\ Admissible(t, b)
      /\ entry[s] # NoEntry => /\ t.maxFeePerGas > entry[s].tx.maxFeePerGas
                               /\ b >= entry[s].l2BlockNumber
      /\ entry[s] = NoEntry /\ removed # {} => t.maxFeePerGas > entry[tail].tx.maxFeePerGas
      /\ Enter(t, b, removed)
      /\ list' = InsertSorted(kept, entry', s)
      /\ queuedCount' = queuedCount - Cardinality(removed) + 1
      /\ chain' = chain
  BY DEF Add
<1>2. PICK q, n : n = queuedCount /\ Ordered(q, n) /\ n = Cardinality(Queued)
  BY InvIsOrdered
<1>3. s \in Senders /\ n \in Nat /\ MaxQueueSize \in Nat \ {0} /\ Queued \subseteq Senders
  BY <1>2, OrderFacts, ConstantsAssumption DEF Queued, Tx
<1>4. \A x : Cardinality({x}) = 1 /\ (CHOOSE r \in {x} : TRUE) = x
  BY FS_Singleton
<1>5. CASE entry[s] # NoEntry
  <2>1. s \in Queued
    BY <1>3, <1>5 DEF Queued
  <2>2. removed = {s} /\ kept = LinkRemove(list, s)
    BY <1>4, <1>5
  <2>3. Enter(t, b, {})
    <3>1. Enter(t, b, {s})
      BY <1>1, <2>2
    <3>2. {} \cup {s} = {s} /\ {s} \cup {s} = {s}
      OBVIOUS
    <3> QED BY <3>1, <3>2 DEF Enter
  <2>4. Replace(t, b)
    BY <1>1, <1>5, <2>1, <2>3 DEF Replace, Fee
  <2>5. PICK p : Keeps(LinkRemove(list, s), p, n - 1, q, n, {s})
    BY <1>2, <2>1, RemoveKeeps
  <2>6. Keeps(kept, p, n - 1, q, n, {} \cup {s})
    BY <2>2, <2>5
  <2>7. OlderIsOrder' /\ \E r : InOrder(r, (n - 1) + 1)'
    <3>1. {} \in SUBSET Queued /\ s \notin {} /\ list' = InsertSorted(kept, entry', s)
      BY <1>1
    <3> HIDE DEF kept
    <3> QED BY <1>2, <2>3, <2>6, <3>1, EnterKeepsOrder
  <2>8. queuedCount' = (n - 1) + 1
    <3> HIDE DEF removed
    <3>1. queuedCount' = n - Cardinality(removed) + 1
      BY <1>1, <1>2
    <3>2. Cardinality(removed) = 1
      BY <1>4, <2>2
    <3> QED BY <1>3, <3>1, <3>2
  <2> QED BY <2>4, <2>7, <2>8
<1>6. CASE entry[s] = NoEntry /\ n < MaxQueueSize
  <2>1. s \notin Queued
    BY <1>6 DEF Queued
  <2>2. removed = {} /\ kept = list
    BY <1>2, <1>3, <1>6
  <2>3. Enter(t, b, {})
    BY <1>1, <2>2
  <2>4. Enqueue(t, b)
    BY <1>1, <1>2, <1>6, <2>1, <2>3 DEF Enqueue
  <2>5. Keeps(list, q, n, q, n, {} \cup {s})
    <3>1. Queued \ ({} \cup {s}) = Queued
      BY <2>1
    <3>2. IsList(list, q, n) /\ {q[i] : i \in 1..n} = Queued
      BY <1>2 DEF Ordered, InOrder
    <3> QED BY <3>1, <3>2 DEF Keeps
  <2>6. OlderIsOrder' /\ \E r : InOrder(r, n + 1)'
    <3>1. {} \in SUBSET Queued /\ s \notin {} /\ list' = InsertSorted(list, entry', s)
      BY <1>1, <2>2
    <3> QED BY <1>2, <2>3, <2>5, <3>1, EnterKeepsOrder
  <2>7. queuedCount' = n + 1
    <3>1. Cardinality({}) = 0
      BY FS_EmptySet
    <3> QED BY <1>1, <1>2, <1>3, <2>2, <3>1
  <2> QED BY <2>4, <2>6, <2>7
<1>7. CASE entry[s] = NoEntry /\ n >= MaxQueueSize
  <2>1. s \notin Queued
    BY <1>7 DEF Queued
  <2>2. removed = {tail} /\ kept = LinkRemove(list, tail)
    BY <1>2, <1>4, <1>7
  <2>3. n \in 1..n /\ tail = q[n] /\ tail \in Queued
    <3>1. n \in 1..n
      BY <1>3, <1>7
    <3>2. tail = At(q, n, n)
      BY <1>2 DEF Ordered, InOrder, IsList
    <3> QED BY <1>2, <3>1, <3>2, OrderFacts DEF At
  <2>4. Enter(t, b, {tail})
    BY <1>1, <2>2
  <2>5. \A u \in Queued \ {tail} : Ahead(u, tail)
    <3> SUFFICES ASSUME NEW u \in Queued \ {tail} PROVE Ahead(u, tail)
      OBVIOUS
    <3>1. PICK i \in 1..n : u = q[i]
      BY <1>2 DEF Ordered, InOrder
    <3>2. i < n
      BY <1>3, <2>3, <3>1
    <3> QED BY <1>2, <2>3, <3>1, <3>2 DEF Ordered, InOrder
  <2>6. Outbid(t, b)
    <3>1. t.maxFeePerGas > Fee(tail)
      BY <1>1, <1>7, <2>2 DEF Fee
    <3> HIDE DEF tail
    <3> QED BY <1>1, <1>2, <1>7, <2>1, <2>3, <2>4, <2>5, <3>1 DEF Outbid
  <2>7. PICK p : Keeps(LinkRemove(list, tail), p, n - 1, q, n, {tail})
    BY <1>2, <2>3, RemoveKeeps
  <2>8. Keeps(kept, p, n - 1, q, n, {tail} \cup {s})
    <3>1. Queued \ ({tail} \cup {s}) = Queued \ {tail}
      BY <2>1
    <3> QED BY <2>2, <2>7, <3>1 DEF Keeps
  <2>9. OlderIsOrder' /\ \E r : InOrder(r, (n - 1) + 1)'
    <3>1. {tail} \in SUBSET Queued /\ s \notin {tail} /\ list' = InsertSorted(kept, entry', s)
      BY <1>1, <2>1, <2>3
    <3> HIDE DEF kept, tail
    <3> QED BY <1>2, <2>4, <2>8, <3>1, EnterKeepsOrder
  <2>10. queuedCount' = (n - 1) + 1
    <3> HIDE DEF removed
    <3>1. queuedCount' = n - Cardinality(removed) + 1
      BY <1>1, <1>2
    <3>2. Cardinality(removed) = 1
      BY <1>4, <2>2
    <3> QED BY <1>3, <3>1, <3>2
  <2> QED BY <2>6, <2>9, <2>10
<1> QED BY <1>3, <1>5, <1>6, <1>7

\* `prune` is the queue's Prune, and keeps its order.
LEMMA PruneStep ==
    ASSUME InboxInv, NEW s \in Senders, NEW b \in 0..blockNumber, InboxPrune(s, b)
    PROVE  Prune(s, b) /\ OlderIsOrder' /\ \E r, m : m = queuedCount' /\ InOrder(r, m)'
<1>1. s \in Queued /\ Leave({s}) /\ list' = LinkRemove(list, s) /\ queuedCount' = queuedCount - 1
  BY DEF InboxPrune, Queued
<1>2. Prune(s, b)
  BY <1>1 DEF InboxPrune, Prune
<1>3. PICK q, n : n = queuedCount /\ Ordered(q, n)
  BY InvIsOrdered
<1>4. PICK p : Keeps(list', p, n - 1, q, n, {s})
  BY <1>1, <1>3, RemoveKeeps
<1>5. OlderIsOrder' /\ InOrder(p, n - 1)'
  BY <1>1, <1>3, <1>4, LeaveKeepsOrder
<1> QED BY <1>1, <1>2, <1>3, <1>5

\* `settle` removes what the queue's Advance removes.
LEMMA AdvanceStep ==
    ASSUME InboxInv, NEW body \in SUBSET NextTxs, NEW baseFee \in BaseFees,
           NEW gasUsed \in 0..BlockGasLimit, NEW balance \in Balances,
           InboxAdvance(body, baseFee, gasUsed, balance)
    PROVE  /\ Advance(body, baseFee, gasUsed, balance)
           /\ OlderIsOrder' /\ \E r, m : m = queuedCount' /\ InOrder(r, m)'
<1> DEFINE post == PostState(body, balance)
           il == CurrentIL(baseFee)
           listed == {il[i] : i \in DOMAIN il}
<1>1. PICK q, n : n = queuedCount /\ Ordered(q, n) /\ n = Cardinality(Queued)
  BY InvIsOrdered
<1>2. baseFee \in Nat /\ n \in Nat
  BY <1>1, OrderFacts, ConstantsAssumption
<1>3. PICK c \in 0..n : StopsAfter(q, n, baseFee, c) /\ c <= MaxILCount
  BY <1>1, WalksStop
<1>4. listed = HeadOf(q, c) /\ InclusionList(baseFee) = HeadOf(q, c)
  <2>1. il = [i \in 1..c |-> q[i]]
    BY <1>1, <1>2, <1>3, CurrentILIsTheHead
  <2>2. listed = HeadOf(q, c)
    BY <2>1 DEF HeadOf
  <2> QED BY <1>1, <1>2, <1>3, <2>2, ListedIsTheHead
<1>5. PICK proven \in SUBSET {s \in listed : entry[s].tx \in body} :
         LET end == Settle(baseFee, gasUsed, proven)
         IN /\ entry' = end.entry
            /\ older' = {p \in older : p[1] \notin end.left /\ p[2] \notin end.left}
            /\ list' = end.list
            /\ queuedCount' = queuedCount - Cardinality(end.left)
  BY DEF InboxAdvance
<1> DEFINE end == Settle(baseFee, gasUsed, proven)
<1>6. SettledTo(end, q, n, c, proven, BlockGasLimit - gasUsed)
  BY <1>1, <1>2, <1>3, SettleInQueue
<1> HIDE DEF end
<1>7. /\ end.left = Settled(InclusionList(baseFee), proven, gasUsed)
      /\ end.entry = [s \in Senders |-> IF s \in end.left THEN NoEntry ELSE entry[s]]
  BY <1>4, <1>6 DEF SettledTo, LeftOf, Settled
<1>8. Leave(end.left)
  BY <1>5, <1>7 DEF Leave, end
<1>9. Advance(body, baseFee, gasUsed, balance)
  <2>1. /\ blockNumber < MaxBlocks
        /\ ValidBody(body, gasUsed)
        /\ Spendable(post)
        /\ \A s \in listed : \/ entry[s].tx \in body
                             \/ ~CouldAppend(entry[s].tx, post, baseFee, gasUsed)
        /\ chain' = Append(chain, post)
    BY DEF InboxAdvance
  <2>2. listed = InclusionList(baseFee)
    BY <1>4
  <2>3. Leave(Settled(InclusionList(baseFee), proven, gasUsed))
    BY <1>7, <1>8
  <2> HIDE DEF listed
  <2> QED BY <2>1, <2>2, <2>3 DEF Advance
<1>10. PICK r, m, d : IsList(end.list, r, m) /\ RestOf(q, n, c, end.left, r, m, d)
  BY <1>6 DEF SettledTo
<1>11. Keeps(list', r, m, q, n, end.left)
  <2>1. list' = end.list
    BY <1>5 DEF end
  <2>2. Queued = {q[i] : i \in 1..n}
    BY <1>1 DEF Ordered, InOrder
  <2> QED BY <1>10, <2>1, <2>2 DEF RestOf, Keeps
<1>12. OlderIsOrder' /\ InOrder(r, m)'
  BY <1>1, <1>8, <1>11, LeaveKeepsOrder
<1>13. queuedCount' = m
  <2>1. queuedCount' = n - Cardinality(end.left)
    BY <1>1, <1>5 DEF end
  <2>2. HeadOf(r, m) = Queued \ end.left
    BY <1>11 DEF Keeps, HeadOf
  <2>3. Cardinality(HeadOf(r, m)) = m /\ m \in Nat
    <3>1. /\ m \in Nat /\ r \in [1..m -> Senders] /\ m \in 0..m
          /\ \A i, j \in 1..m : r[i] = r[j] => i = j
      BY <1>10 DEF IsList
    <3> QED BY <3>1, HeadSize
  <2>4. end.left \subseteq Queued
    BY <1>7 DEF Settled, InclusionList
  <2>5. IsFiniteSet(Queued)
    BY FS_Subset, ConstantsAssumption DEF Queued
  <2>6. Cardinality(Queued \ end.left) = Cardinality(Queued) - Cardinality(Queued \cap end.left)
    BY <2>5, FS_Difference
  <2>7. Queued \cap end.left = end.left
    BY <2>4
  <2> QED BY <1>1, <2>1, <2>2, <2>3, <2>6, <2>7
<1> QED BY <1>9, <1>12, <1>13

\* The inbox starts as an empty list.
LEMMA InboxInitEstablishes == InboxInit => Init /\ InboxInv
<1> SUFFICES ASSUME InboxInit PROVE Init /\ InboxInv
  OBVIOUS
<1>1. Init /\ IInv
  BY InitEstablishes DEF InboxInit
<1>2. Queued = {} /\ older = {} /\ queuedCount = 0
  BY DEF InboxInit, Init, Queued
<1>3. OlderIsOrder
  BY <1>2 DEF OlderIsOrder
<1> DEFINE q == [i \in 1..0 |-> Null]
<1>4. q \in [1..0 -> Senders] /\ \A i \in 1..0 : FALSE
  OBVIOUS
<1>5. list \in Links /\ list.first = Null /\ list.last = Null
      /\ \A s \in Senders : list.prev[s] = Null /\ list.next[s] = Null
  BY DEF InboxInit, Links
<1>6. IsList(list, q, 0)
  BY <1>4, <1>5 DEF IsList, At
<1>7. InOrder(q, 0)
  BY <1>2, <1>4, <1>6 DEF InOrder
<1> QED BY <1>1, <1>2, <1>3, <1>4, <1>7 DEF InboxInv

\* Every step of the inbox is a step of the queue and keeps the invariant.
LEMMA InboxStep == InboxInv /\ [InboxNext]_inboxVars => [Next]_vars /\ InboxInv'
<1> SUFFICES ASSUME InboxInv, [InboxNext]_inboxVars PROVE [Next]_vars /\ InboxInv'
  OBVIOUS
<1>1. CASE UNCHANGED inboxVars
  <2>1. [Next]_vars
    BY <1>1 DEF inboxVars, vars
  <2>2. IInv'
    BY <2>1, StepKeeps DEF InboxInv
  <2>3. OlderIsOrder'
    BY <1>1 DEF InboxInv, inboxVars, OlderIsOrder, Queued
  <2>4. PICK q : InOrder(q, queuedCount) /\ q \in [1..queuedCount -> Senders]
    BY DEF InboxInv
  <2>5. PICK n : n = queuedCount
    OBVIOUS
  <2>6. InOrder(q, n)'
    BY <1>1, <2>4, <2>5 DEF inboxVars, InOrder, Ahead, Fee, Queued
  <2>7. n = queuedCount' /\ q \in [1..n -> Senders]
    BY <1>1, <2>4, <2>5 DEF inboxVars
  <2> QED BY <2>1, <2>2, <2>3, <2>6, <2>7 DEF InboxInv
<1>2. CASE InboxNext
  <2>1. Next /\ OlderIsOrder' /\ \E r, m : m = queuedCount' /\ InOrder(r, m)'
    <3>1. ASSUME NEW t \in Txs, NEW b \in 0..blockNumber, Add(t, b)
          PROVE  Next /\ OlderIsOrder' /\ \E r, m : m = queuedCount' /\ InOrder(r, m)'
      BY <3>1, AddStep DEF Next
    <3>2. ASSUME NEW s \in Senders, NEW b \in 0..blockNumber, InboxPrune(s, b)
          PROVE  Next /\ OlderIsOrder' /\ \E r, m : m = queuedCount' /\ InOrder(r, m)'
      BY <3>2, PruneStep DEF Next
    <3>3. ASSUME NEW body \in SUBSET NextTxs, NEW baseFee \in BaseFees,
                 NEW gasUsed \in 0..BlockGasLimit, NEW balance \in Balances,
                 InboxAdvance(body, baseFee, gasUsed, balance)
          PROVE  Next /\ OlderIsOrder' /\ \E r, m : m = queuedCount' /\ InOrder(r, m)'
      BY <3>3, AdvanceStep DEF Next
    <3> QED BY <1>2, <3>1, <3>2, <3>3 DEF InboxNext
  <2>2. IInv'
    BY <2>1, StepKeeps DEF InboxInv
  <2>3. PICK r, m : m = queuedCount' /\ InOrder(r, m)'
    BY <2>1
  <2>4. r \in [1..m -> Senders]
    BY <2>3 DEF InOrder, IsList
  <2> QED BY <2>1, <2>2, <2>3, <2>4 DEF InboxInv
<1> QED BY <1>1, <1>2

\* The inductive invariant holds throughout.
LEMMA InboxInvariance == InboxSpec => []InboxInv
BY InboxInitEstablishes, InboxStep, PTL DEF InboxSpec

\* The contract's linked list, its walks and its pointer updates implement the
\* promised queue: every step of the inbox is a step of ForcedQueue, so that
\* `settle` and `currentIL`, which walk the list, agree on what is listed.
THEOREM InboxImplementsQueue == InboxSpec => ImplementsQueue
<1>1. InboxSpec => Spec
  BY InboxInitEstablishes, InboxStep, InboxInvariance, PTL DEF InboxSpec, Spec
<1> QED BY <1>1 DEF ImplementsQueue
-----------------------------------------------------------------------------
\* A list of the queue's sequence is walked as ListIsTheQueue says.
LEMMA OrderedIsTheQueue ==
    ASSUME NEW q, NEW n, Ordered(q, n), n = queuedCount
    PROVE  ListIsTheQueue
<1>1. /\ n \in Nat /\ q \in [1..n -> Senders] /\ n = Cardinality(Queued)
      /\ IsList(list, q, n) /\ Queued = {q[i] : i \in 1..n}
      /\ \A i, j \in 1..n : i < j => Ahead(q[i], q[j])
  BY OrderFacts DEF Ordered, InOrder
<1>0. n \in Nat
  BY <1>1
<1>2. \A k \in 1..n : Forward[k] = q[k]
  <2> SUFFICES ASSUME NEW k \in 1..n PROVE Forward[k] = q[k]
    OBVIOUS
  <2>1. Forward[k] = Reached(list, k - 1)
    BY <1>1 DEF Forward
  <2>2. k - 1 \in Nat /\ (k - 1) + 1 = k
    BY <1>0
  <2>3. Reached(list, k - 1) = At(q, n, (k - 1) + 1)
    BY <1>1, <2>2, ReachedInList
  <2> QED BY <2>1, <2>2, <2>3 DEF At
<1>3. Reached(list, n) = Null
  <2>1. Reached(list, n) = At(q, n, n + 1)
    BY <1>1, ReachedInList
  <2>2. n + 1 \notin 1..n
    BY <1>0
  <2> QED BY <2>1, <2>2 DEF At
<1>4. {Forward[k] : k \in 1..n} = Queued
  BY <1>1, <1>2
<1>5. \A k \in 1..(n - 1) : Ahead(Forward[k], Forward[k + 1])
  <2> SUFFICES ASSUME NEW k \in 1..(n - 1) PROVE Ahead(Forward[k], Forward[k + 1])
    OBVIOUS
  <2>1. k \in 1..n /\ k + 1 \in 1..n /\ k < k + 1
    BY <1>0
  <2>2. Forward[k] = q[k] /\ Forward[k + 1] = q[k + 1]
    BY <1>2, <2>1
  <2> QED BY <1>1, <2>1, <2>2
<1>6. (n > 0 => list.last = Forward[n]) /\ (n = 0 => list.last = Null)
  <2>1. list.last = At(q, n, n)
    BY <1>1 DEF IsList
  <2>2. (n > 0 => n \in 1..n) /\ (n = 0 => n \notin 1..n)
    BY <1>0
  <2> QED BY <1>2, <2>1, <2>2 DEF At
<1>7. \A k \in 1..n : list.prev[Forward[k]] = (IF k = 1 THEN Null ELSE Forward[k - 1])
  <2> SUFFICES ASSUME NEW k \in 1..n
               PROVE  list.prev[Forward[k]] = (IF k = 1 THEN Null ELSE Forward[k - 1])
    OBVIOUS
  <2>1. list.prev[q[k]] = At(q, n, k - 1)
    BY <1>1 DEF IsList
  <2>2. k # 1 => k - 1 \in 1..n
    BY <1>0
  <2>3. k = 1 => k - 1 \notin 1..n
    BY <1>0
  <2>4. Forward[k] = q[k] /\ (k # 1 => Forward[k - 1] = q[k - 1])
    BY <1>2, <2>2
  <2> QED BY <2>1, <2>2, <2>3, <2>4 DEF At
<1>8. \A s \in Senders \ Queued : list.prev[s] = Null /\ list.next[s] = Null
  BY <1>1 DEF IsList
<1> QED BY <1>1, <1>3, <1>4, <1>5, <1>6, <1>7, <1>8 DEF ListIsTheQueue

\* The list is the queue after every `add`, `prune` and `settle`: no sender is
\* lost or met twice, the order is by fee and then by submission, both
\* directions agree, and the counter is the number of entries.
THEOREM ListIsAlwaysTheQueue == InboxSpec => []ListIsTheQueue
<1>1. InboxInv => ListIsTheQueue
  <2> SUFFICES ASSUME InboxInv PROVE ListIsTheQueue
    OBVIOUS
  <2>1. PICK q, n : n = queuedCount /\ Ordered(q, n)
    BY InvIsOrdered
  <2> QED BY <2>1, OrderedIsTheQueue
<1> QED BY <1>1, InboxInvariance, PTL

\* What is proved of the queue holds of the contract: no entry is censored ...
THEOREM InboxCensorsNothing == InboxSpec => LeavesForCause
<1>1. InboxSpec => Spec
  BY InboxImplementsQueue DEF ImplementsQueue
<1> QED BY <1>1, NothingCensored

\* ... and none is stuck.
THEOREM InboxEntriesNeverStuck == InboxSpec => []ExecutableOrPrunable
<1>1. InboxSpec => Spec
  BY InboxImplementsQueue DEF ImplementsQueue
<1> QED BY <1>1, NoEntryStuck
=============================================================================
