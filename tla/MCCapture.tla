------------------------------ MODULE MCCapture ------------------------------
(* Capture for TLC: what its configurations share.                         *)
EXTENDS Capture, TLC

\* Keys, values and sessions are only ever compared.
Symmetry == Permutations(Keys) \cup Permutations(Values) \cup Permutations(Sessions)

=============================================================================
