------------------------------- MODULE MCData -------------------------------
(***************************************************************************)
(* The deadline table on a few tasks, a short clock and a small word.      *)
(***************************************************************************)
EXTENDS EdfData

Symmetry == Permutations(Task)
=============================================================================
