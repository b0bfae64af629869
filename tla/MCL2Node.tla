------------------------------ MODULE MCL2Node ------------------------------
(***************************************************************************)
(* Small instances of L2Node.                                              *)
(***************************************************************************)
EXTENDS L2Node
=============================================================================
