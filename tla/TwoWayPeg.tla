----------------------------- MODULE TwoWayPeg -----------------------------
(***************************************************************************)
(* What the two messengers promise together: ETH sent to L2 is escrowed on *)
(* L1 and released on L2 when its message is claimed, once; ETH sent back  *)
(* leaves L2 before L1 pays it out of the escrow, once.  L2 moves on a     *)
(* block at a time, as the rollup contract sees it.                        *)
(***************************************************************************)
EXTENDS Integers, Sequences, FiniteSets, FiniteSetsExt, SequencesExt

CONSTANT Messages  \* what a message moves: a value, and a fee for its claimer

VARIABLES down,        \* the messages sent to L2
          downClaimed, \* the indexes of those claimed on L2
          up,          \* the messages sent to L1
          upClaimed,   \* the indexes of those claimed on L1
          escrow,      \* the ETH the rollup contract holds
          held         \* the ETH the accounts on L2 hold, the messenger aside

vars == <<down, downClaimed, up, upClaimed, escrow, held>>

Amount(m)        == m.value + m.fee
Amounts(queue, S) == SumFunctionOnSet([i \in S |-> Amount(queue[i])], S)

Init == /\ down = <<>> /\ downClaimed = {}
        /\ up = <<>>   /\ upClaimed = {}
        /\ escrow = 0
        /\ held = 0

Deposit == /\ \E m \in Messages : /\ down' = Append(down, m)
                                  /\ escrow' = escrow + Amount(m)
           /\ UNCHANGED <<downClaimed, up, upClaimed, held>>

\* A block claims some messages and sends others; what its accounts hold
\* changes by no more than that, and what they send they held.
Block == /\ downClaimed \subseteq downClaimed' /\ downClaimed' \subseteq DOMAIN down
         /\ IsPrefix(up, up') /\ Range(up') \subseteq Messages
         /\ held' \in Nat
         /\ held' + Amounts(up', DOMAIN up' \ DOMAIN up)
              <= held + Amounts(down, downClaimed' \ downClaimed)
         /\ UNCHANGED <<down, upClaimed, escrow>>

Withdraw == /\ \E i \in DOMAIN up \ upClaimed : /\ upClaimed' = upClaimed \cup {i}
                                                /\ escrow' = escrow - Amount(up[i])
            /\ UNCHANGED <<down, downClaimed, up, held>>

Next == Deposit \/ Block \/ Withdraw

Spec == Init /\ [][Next]_vars
=============================================================================
