---------------------------- MODULE MCMessaging ----------------------------
(***************************************************************************)
(* A small instance of Messaging: messages with and without a fee.         *)
(***************************************************************************)
EXTENDS Messaging, TLC

MCMessages == {[value |-> 1, fee |-> 0], [value |-> 0, fee |-> 1]}
=============================================================================
