------------------------------- MODULE MCLoop -------------------------------
(* Small instances of Loop. *)
EXTENDS Loop, TLC

Symmetry == Permutations(Findings)
=============================================================================
