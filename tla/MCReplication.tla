---------------------------- MODULE MCReplication ----------------------------
(* Replication for TLC: what its configurations share.                     *)
EXTENDS OneWayReplication, TLC

\* Keys and values are only ever compared.
Symmetry == Permutations(Keys) \cup Permutations(Values)

=============================================================================
