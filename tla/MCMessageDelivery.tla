------------------------- MODULE MCMessageDelivery -------------------------
(***************************************************************************)
(* A small instance of MessageDelivery: two messages to one app, from      *)
(* different senders and of which one has a fee, one to a user, and one    *)
(* to the contract that delivers them.                                     *)
(***************************************************************************)
EXTENDS MessageDelivery, TLC

CONSTANTS app, other, user

Msg(sender, to, value, fee) == [sender |-> sender, to |-> to, value |-> value, fee |-> fee]

MCOffered == <<Msg(user, app, 1, 1), Msg(Endpoint, Endpoint, 0, 0),
               Msg(other, app, 0, 0), Msg(user, user, 1, 0)>>
=============================================================================
