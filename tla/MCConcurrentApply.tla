-------------------------- MODULE MCConcurrentApply --------------------------
(* ConcurrentApply for TLC: two sources, one of them with two rows that    *)
(* change places, and two workers that may take the same batch.            *)
EXTENDS ConcurrentApply

CONSTANTS s1, s2, k1, k2, k3, v1

SomeStreams == {s1, s2}

SomeKeys == {k1, k2, k3}

TwoRowsAndOne == [s \in SomeStreams |-> IF s = s1 THEN {k1, k2} ELSE {k3}]

FullTable == [k \in SomeKeys |-> [id |-> k, val |-> v1]]

Targets == [s \in SomeStreams |-> IF s = s1 THEN "sqlite 3.45.0" ELSE "sqlite 3.46.0"]

=============================================================================
