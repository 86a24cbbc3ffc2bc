---------------------------- MODULE MCDot1asControl ----------------------------
(* Small instances of Dot1asControl. *)
EXTENDS Dot1asControl, TLC

Symmetry == Permutations(Buf)
===============================================================================
