------------------------------- MODULE MCHpaTx -------------------------------
(* Small instances of HpaTx. *)
EXTENDS HpaTx, TLC

Symmetry == Permutations(Buf)
=============================================================================
