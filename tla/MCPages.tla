------------------------------ MODULE MCPages -------------------------------
(* Four tasks on pages of two.                                             *)
EXTENDS Pages, TLC

Symmetry == Permutations(Tasks)
=============================================================================
