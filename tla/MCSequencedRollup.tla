------------------------- MODULE MCSequencedRollup -------------------------
(***************************************************************************)
(* Small instances of SequencedRollup.                                     *)
(***************************************************************************)
EXTENDS SequencedRollup, TLC

CONSTANTS r1, vk1
=============================================================================
