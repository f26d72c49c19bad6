-------------------------- MODULE TwoWayReplication --------------------------
(***************************************************************************)
(* Why two SQLite stores that replicate into each other converge: what a   *)
(* store holds at a key is settled by counting, not by order.  A change    *)
(* takes one image from each key it touches and leaves another there, so   *)
(* the changes a store has been through, its own and those it applied,     *)
(* balance to the image it holds.                                          *)
(***************************************************************************)
EXTENDS Replication, Integers

\* How often image v stands in a place that holds x.
Bit(x, v) == IF x = v THEN 1 ELSE 0

\* What a change adds to the balance of image v at key k.
Gain(c, k, v) ==
    IF k \in TouchedKeys(c) THEN Bit(Leaves(c, k), v) - Bit(Takes(c, k), v) ELSE 0

\* The balance of v at k after each of the changes of a journal.
Net(changes, k, v) ==
    LET net[n \in 0..Len(changes)] ==
            IF n = 0 THEN 0 ELSE net[n - 1] + Gain(changes[n], k, v)
    IN  net

\* Table t is what the empty one becomes, in whatever order, by all the changes
\* of journal g and the first m of journal h.
Balanced(t, g, h, m) ==
    /\ t \in Tables
    /\ \A k \in Keys, v \in Images :
          Bit(t[k], v) - Bit(NoRow, v) = Net(g, k, v)[Len(g)] + Net(h, k, v)[m]

\* The destination holds what its own writes and the changes applied to it
\* balance to, and so does what a transaction sees of it.
DestinationBalanced(s) ==
    \E m \in 0..Len(journal[s]) :
        /\ applied[s] = 1..m
        /\ Balanced(rows[Peer(s)], journal[Peer(s)], journal[s], m)
        /\ InTransaction(s) =>
              IF next[s] - 1 <= m THEN locked[s] = {} /\ marked[s] = {}
              ELSE Balanced(View(s), journal[Peer(s)], journal[s], next[s] - 1)

TwoWayOK(s) ==
    /\ \A i \in 1..Len(journal[s]) : Shaped(journal[s][i])
    /\ DestinationBalanced(s)
    /\ pc[s] = "write" => ~WasApplied(s)

\* With IndInv, an inductive invariant of the streams into SQLite stores.
TwoWayInv ==
    /\ \A s \in Nodes : ComparisonStands(s)
    /\ \A s \in Nodes : Peer(s) \notin PostgresNodes => TwoWayOK(s)

=============================================================================
