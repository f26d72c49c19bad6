-------------------------- MODULE OneWayReplication --------------------------
(***************************************************************************)
(* Replication into a store whose application does not write implements    *)
(* DelayedReplica.  The history of the source is what its journal retells. *)
(***************************************************************************)
EXTENDS Replication

\* What node s held after the first i entries of its journal.
Was(s, i) == Replay(EmptyTable, journal[s])[i]

\* The tables a journal leads through, from the empty one.
History(j) == [i \in 1 .. Len(j) + 1 |-> Replay(EmptyTable, j)[i - 1]]

Delayed == INSTANCE DelayedReplica WITH
    Contents <- Tables,
    Initial  <- EmptyTable,
    history  <- History(journal[NodeA]),
    at       <- Cardinality(applied[NodeA]) + 1,
    replica  <- rows[NodeB]

-----------------------------------------------------------------------------
(* Why the properties hold: with IndInv, an inductive invariant of a       *)
(* stream into a node whose application does not write.                    *)

\* The source holds what its journal retells.
SourceOK(s) ==
    /\ \A i \in 1..Len(journal[s]) : Fits(Was(s, i - 1), journal[s][i])
    /\ rows[s] = Was(s, Len(journal[s]))

\* The destination holds what the source held after the changes applied, and
\* a transaction sees it as it was before the change at hand.
DestinationOK(s) ==
    \E m \in 0..Len(journal[s]) :
        /\ applied[s] = 1..m
        /\ rows[Peer(s)] = Was(s, m)
        /\ InTransaction(s) =>
              IF next[s] - 1 <= m THEN locked[s] = {} /\ marked[s] = {}
              ELSE View(s) = Was(s, next[s] - 1)

\* The destination captures nothing, so nothing travels back.
NothingBack(s) == journal[Peer(s)] = <<>> /\ pc[Peer(s)] = "poll"

OneWayOK(s) ==
    /\ NothingBack(s)
    /\ SourceOK(s)
    /\ DestinationOK(s)
    /\ pc[s] = "write" => ~WasApplied(s)
    /\ failure[s] = "none"

OneWayInv == \A s \in Nodes : Peer(s) \notin AppNodes => OneWayOK(s)

-----------------------------------------------------------------------------
(* Properties.                                                             *)

\* When only NodeA's application writes, NodeB holds at every moment exactly
\* what NodeA held after some prefix of its journal, and never goes back.
IsDelayedReplica == Delayed!Spec

=============================================================================
