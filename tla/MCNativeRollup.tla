--------------------------- MODULE MCNativeRollup ---------------------------
(***************************************************************************)
(* Small instances of NativeRollup.                                        *)
(***************************************************************************)
EXTENDS NativeRollup, TLC

CONSTANTS r1, r2, vk1, vk2
=============================================================================
