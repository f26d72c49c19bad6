---------------------------- MODULE DelayedReplica ----------------------------
(***************************************************************************)
(* What replicating a journal promises to a reader of the destination: its *)
(* table is always one the source has had, and it only moves forward       *)
(* through the source's history.                                           *)
(***************************************************************************)
EXTENDS Naturals, Sequences

CONSTANT Contents,   \* what a table can hold
         Initial     \* what both tables hold at the start

VARIABLES
    history,   \* what the source has held, oldest first
    at,        \* the place in history the destination is at
    replica    \* what the destination holds

Init ==
    /\ history = <<Initial>>
    /\ at = 1
    /\ replica = Initial

SourceMoves ==
    /\ \E t \in Contents : history' = Append(history, t)
    /\ UNCHANGED <<at, replica>>

\* Several versions at once: a batch is applied in one transaction.
ReplicaAdvances ==
    /\ \E m \in at + 1 .. Len(history) :
        /\ at' = m
        /\ replica' = history[m]
    /\ UNCHANGED history

Next == SourceMoves \/ ReplicaAdvances

Spec == Init /\ [][Next]_<<history, at, replica>>

=============================================================================
