--------------------------- MODULE MCForcedQueue ---------------------------
(***************************************************************************)
(* A small instance of ForcedQueue: two slots, three senders, and          *)
(* transactions that differ in the fields the queue looks at.              *)
(***************************************************************************)
EXTENDS ForcedQueue, TLC

CONSTANTS a, b, c

MkTx(s, nonce, gas, fee, tip, intrinsic) ==
    [sender |-> s, nonce |-> nonce, gasLimit |-> gas, maxFeePerGas |-> fee,
     maxPriorityFeePerGas |-> tip, value |-> 0, intrinsicGas |-> intrinsic]

\* a can replace its transaction and has a second nonce; b's is the largest;
\* c outbids; the last three fail a stateless check each.
MCTxs == {MkTx(a, 0, 1, 1, 1, 1), MkTx(a, 0, 1, 2, 1, 1), MkTx(a, 1, 1, 1, 0, 1),
          MkTx(b, 0, 2, 1, 1, 1),
          MkTx(c, 0, 1, 2, 0, 1),
          MkTx(b, 0, 1, 1, 1, 2), MkTx(c, 0, 3, 2, 0, 1), MkTx(c, 0, 1, 1, 2, 1)}

\* Everyone can pay, or a spent its balance, or b did.
MCBalances == {[s \in Senders |-> 2], [s \in Senders |-> IF s = a THEN 0 ELSE 2],
               [s \in Senders |-> IF s = b THEN 0 ELSE 2]}
=============================================================================
