------------------------------ MODULE MCCutover ------------------------------
(* Cutover for TLC: what its configurations share.                         *)
EXTENDS Cutover, TLC

\* Parent keys and data are only ever compared.
Symmetry == Permutations(Parents) \cup Permutations(Data)

=============================================================================
