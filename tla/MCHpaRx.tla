------------------------------- MODULE MCHpaRx -------------------------------
(* Small instances of HpaRx. *)
EXTENDS HpaRx, TLC

Symmetry == Permutations(Buf)
=============================================================================
