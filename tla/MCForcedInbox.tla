--------------------------- MODULE MCForcedInbox ---------------------------
(***************************************************************************)
(* A small instance of ForcedInbox: four senders compete for three places, *)
(* with ties, replacements, an entry too large for the room a block leaves *)
(* and a list shorter than the queue.                                      *)
(***************************************************************************)
EXTENDS ForcedInbox, TLC

CONSTANTS a, b, c, d

MkTx(s, gas, fee) ==
    [sender |-> s, nonce |-> 0, gasLimit |-> gas, maxFeePerGas |-> fee,
     maxPriorityFeePerGas |-> 0, value |-> 0, intrinsicGas |-> 1]

MCTxs == {MkTx(a, 1, 1), MkTx(a, 1, 2), MkTx(b, 2, 1), MkTx(c, 1, 1), MkTx(d, 1, 2)}

MCBalances == {[s \in Senders |-> 2]}
=============================================================================
