----------------------------- MODULE Replication -----------------------------
(***************************************************************************)
(* Two stores that replicate their journals into each other, each stream   *)
(* by a loop of ReadCapturedChanges, ApplyChanges and a persisted cursor.  *)
(*                                                                         *)
(* applyChanges (compat/replicate.go) is modelled at the grain of its SQL  *)
(* statements: the transaction it opens, the deduplication lookup and the  *)
(* comparison of each change, the write, the commit.  What other sessions  *)
(* of the destination may do between two of those statements depends on    *)
(* the engine: a SQLite writer excludes every other writer, a PostgreSQL   *)
(* transaction excludes them only from the rows it has written.            *)
(*                                                                         *)
(* Stream s carries the journal of node s into Peer(s).  The journal is    *)
(* gap free here and visible as soon as it is written.                     *)
(***************************************************************************)
EXTENDS ChangeStream, FiniteSets

CONSTANTS
    NodeA, NodeB,    \* the two stores
    PostgresNodes,   \* those that run on PostgreSQL, the others on SQLite
    AppNodes,        \* those whose application writes
    BatchLimit,      \* the limit given to ReadCapturedChanges
    MaxWrites,       \* bound: application writes per node
    MaxCrashes       \* bound: crashes per stream

Nodes == {NodeA, NodeB}

ASSUME NodesAssumption ==
    /\ NodeA # NodeB
    /\ PostgresNodes \subseteq Nodes
    /\ AppNodes \subseteq Nodes

ASSUME BoundsAssumption ==
    /\ BatchLimit \in Nat \ {0}
    /\ MaxWrites \in Nat
    /\ MaxCrashes \in Nat

Peer(n) == IF n = NodeA THEN NodeB ELSE NodeA

VARIABLES
    \* committed state of a node
    rows,       \* the replicated table
    journal,    \* __compat_change_journal: the i-th entry has sequence i
    flag,       \* suppress in __compat_capture_state (SQLite only)
    applied,    \* [s]: the sequences of s in the destination's
                \*      __compat_applied_changes
    \* the loop of stream s
    pc,         \* where the loop is
    cursor,     \* the persisted cursor
    upto,       \* the last sequence of the batch read
    next,       \* the sequence of the change applyChanges is at
    failure,    \* the error the last ApplyChanges call returned
    \* the transaction applyChanges has open on Peer(s)
    armed,      \* the suppression its triggers see
    own,        \* the rows it has written ...
    locked,     \* ... and their keys
    marked,     \* the sequences it has marked as applied
    echo,       \* the journal entries its own writes caused
    \* bounds
    writes, crashes

stores  == <<rows, journal, flag, applied>>
txn     == <<armed, own, locked, marked, echo>>
vars    == <<rows, journal, flag, applied, pc, cursor, upto, next, failure,
             armed, own, locked, marked, echo, writes, crashes>>

Steps == {"poll", "begin", "check", "write", "save", "failed"}

Failures == {"none", "conflict", "error"}

TypeOK ==
    /\ rows \in [Nodes -> [Keys -> Images]]
    /\ journal \in [Nodes -> Seq(Changes)]
    /\ flag \in [Nodes -> {0, 1}]
    /\ applied \in [Nodes -> SUBSET Nat]
    /\ pc \in [Nodes -> Steps]
    /\ cursor \in [Nodes -> Nat]
    /\ upto \in [Nodes -> Nat]
    /\ next \in [Nodes -> Nat]
    /\ failure \in [Nodes -> Failures]
    /\ armed \in [Nodes -> {0, 1}]
    /\ own \in [Nodes -> [Keys -> Images]]
    /\ locked \in [Nodes -> SUBSET Keys]
    /\ marked \in [Nodes -> SUBSET Nat]
    /\ echo \in [Nodes -> Seq(Changes)]
    /\ writes \in [Nodes -> Nat]
    /\ crashes \in [Nodes -> Nat]

Init ==
    /\ rows = [n \in Nodes |-> EmptyTable]
    /\ journal = [n \in Nodes |-> <<>>]
    /\ flag = [n \in Nodes |-> 0]
    /\ applied = [s \in Nodes |-> {}]
    /\ pc = [s \in Nodes |-> "poll"]
    /\ cursor = [s \in Nodes |-> 0]
    /\ upto = [s \in Nodes |-> 0]
    /\ next = [s \in Nodes |-> 0]
    /\ failure = [s \in Nodes |-> "none"]
    /\ armed = [s \in Nodes |-> 0]
    /\ own = [s \in Nodes |-> EmptyTable]
    /\ locked = [s \in Nodes |-> {}]
    /\ marked = [s \in Nodes |-> {}]
    /\ echo = [s \in Nodes |-> <<>>]
    /\ writes = [n \in Nodes |-> 0]
    /\ crashes = [s \in Nodes |-> 0]

-----------------------------------------------------------------------------
(* The application's sessions.                                             *)

InTransaction(s) == pc[s] \in {"check", "write"}

\* A write of another session waits for the rows the transaction of stream s
\* has written, on SQLite for the whole transaction.
Excluded(s, keys) ==
    /\ InTransaction(s)
    /\ Peer(s) \in PostgresNodes => keys \cap locked[s] # {}

\* The condition of the capture trigger under a session's own suppression.
TriggerFires(suppress) == suppress = 0

\* A session of the application never sets compat.suppress; on SQLite it reads
\* the shared flag.
SessionSuppress(n) == IF n \in PostgresNodes THEN 0 ELSE flag[n]

AppWrite(n) ==
    /\ n \in AppNodes
    /\ writes[n] < MaxWrites
    /\ \E c \in LocalChanges(rows[n]) :
        /\ KeyIsFree(rows[n], c)
        /\ ~Excluded(Peer(n), TouchedKeys(c))
        /\ rows' = [rows EXCEPT ![n] = Written(rows[n], c)]
        /\ journal' = IF TriggerFires(SessionSuppress(n))
                      THEN [journal EXCEPT ![n] = Append(journal[n], c)]
                      ELSE journal
    /\ writes' = [writes EXCEPT ![n] = @ + 1]
    /\ UNCHANGED <<flag, applied, pc, cursor, upto, next, failure, txn, crashes>>

-----------------------------------------------------------------------------
(* The loop of stream s and the transaction of applyChanges.               *)

\* Faulty: the statements run outside the transaction.
View_OutsideTx(s) == rows[Peer(s)]

\* What a statement of the transaction of stream s reads: its own writes over
\* the rows committed so far.
View(s) ==
    [k \in Keys |-> IF k \in locked[s] THEN own[s][k] ELSE rows[Peer(s)][k]]

\* The change applyChanges is at.
Current(s) == journal[s][next[s]]

\* Faulty: the marks of a rolled back transaction survive it.
CloseTransaction_KeepsMarks(s) ==
    /\ armed' = [armed EXCEPT ![s] = 0]
    /\ own' = [own EXCEPT ![s] = EmptyTable]
    /\ locked' = [locked EXCEPT ![s] = {}]
    /\ echo' = [echo EXCEPT ![s] = <<>>]
    /\ UNCHANGED marked

CloseTransaction(s) ==
    /\ armed' = [armed EXCEPT ![s] = 0]
    /\ own' = [own EXCEPT ![s] = EmptyTable]
    /\ locked' = [locked EXCEPT ![s] = {}]
    /\ marked' = [marked EXCEPT ![s] = {}]
    /\ echo' = [echo EXCEPT ![s] = <<>>]

\* Faulty: the cursor is saved when the batch is read.
Poll_SavesCursor(s) ==
    /\ pc[s] = "poll"
    /\ Len(journal[s]) > cursor[s]
    /\ upto' = [upto EXCEPT ![s] = Len(journal[s])]
    /\ cursor' = [cursor EXCEPT ![s] = Len(journal[s])]
    /\ pc' = [pc EXCEPT ![s] = "begin"]
    /\ UNCHANGED <<stores, next, failure, txn, writes, crashes>>

\* Faulty: the first entry after the cursor is taken for one already read.
Poll_OffByOne(s) ==
    /\ pc[s] = "poll"
    /\ Len(journal[s]) > cursor[s] + 1
    /\ upto' = [upto EXCEPT ![s] = Len(journal[s])]
    /\ pc' = [pc EXCEPT ![s] = "begin"]
    /\ UNCHANGED <<stores, cursor, next, failure, txn, writes, crashes>>

\* ReadCapturedChanges: the entries after the cursor, at most BatchLimit.
Poll(s) ==
    /\ pc[s] = "poll"
    /\ Len(journal[s]) > cursor[s]
    /\ upto' = [upto EXCEPT ![s] =
                  IF Len(journal[s]) - cursor[s] <= BatchLimit
                  THEN Len(journal[s]) ELSE cursor[s] + BatchLimit]
    /\ pc' = [pc EXCEPT ![s] = "begin"]
    /\ UNCHANGED <<stores, cursor, next, failure, txn, writes, crashes>>

\* BeginTx, createAppliedChangesTable, setCaptureSuppressed(true).
Begin(s) ==
    /\ pc[s] = "begin"
    /\ pc' = [pc EXCEPT ![s] = "check"]
    /\ next' = [next EXCEPT ![s] = cursor[s] + 1]
    /\ armed' = [armed EXCEPT ![s] = 1]
    /\ UNCHANGED <<stores, cursor, upto, failure, own, locked, marked, echo,
                   writes, crashes>>

AtChange(s) == pc[s] = "check" /\ next[s] <= upto[s]

\* Faulty: nothing is looked up.
WasApplied_Never(s) == FALSE

\* changeWasApplied.
WasApplied(s) == next[s] \in applied[s] \cup marked[s]

SkipApplied(s) ==
    /\ AtChange(s)
    /\ WasApplied(s)
    /\ next' = [next EXCEPT ![s] = @ + 1]
    /\ UNCHANGED <<stores, pc, cursor, upto, failure, txn, writes, crashes>>

\* Faulty: there is no comparison.
PassesComparison_None(s) == TRUE

\* The comparison an update or a delete must pass; an insert has none.
PassesComparison(s) ==
    Current(s).kind \in {"update", "delete"} => BeforeMatches(View(s), Current(s))

\* The rollback of the whole transaction, and the error it returns.
Abort(s, error) ==
    /\ pc' = [pc EXCEPT ![s] = "failed"]
    /\ failure' = [failure EXCEPT ![s] = error]
    /\ CloseTransaction(s)
    /\ UNCHANGED <<stores, cursor, upto, next, writes, crashes>>

\* Faulty: a conflicting change is left out and the batch goes on.
DetectConflict_Skips(s) ==
    /\ AtChange(s)
    /\ ~WasApplied(s)
    /\ ~PassesComparison(s)
    /\ next' = [next EXCEPT ![s] = @ + 1]
    /\ UNCHANGED <<stores, pc, cursor, upto, failure, txn, writes, crashes>>

\* loadRow and the comparison: the row is gone or differs from before.
DetectConflict(s) ==
    /\ AtChange(s)
    /\ ~WasApplied(s)
    /\ ~PassesComparison(s)
    /\ Abort(s, "conflict")

\* loadRow and the comparison: the change may be written.
PassCheck(s) ==
    /\ AtChange(s)
    /\ ~WasApplied(s)
    /\ PassesComparison(s)
    /\ pc' = [pc EXCEPT ![s] = "write"]
    /\ UNCHANGED <<stores, cursor, upto, next, failure, txn, writes, crashes>>

\* requireOneAffected: the statement finds the row it addresses.
FindsRow(s) ==
    Current(s).kind \in {"update", "delete"} => Load(View(s), Current(s).key) # NoRow

\* insertRow, updateRow or deleteRow, and markChangeApplied.
WriteChange(s) ==
    /\ pc[s] = "write"
    /\ FindsRow(s)
    /\ KeyIsFree(View(s), Current(s))
    /\ own' = [own EXCEPT ![s] = Written(View(s), Current(s))]
    /\ locked' = [locked EXCEPT ![s] = @ \cup TouchedKeys(Current(s))]
    /\ echo' = IF TriggerFires(armed[s])
               THEN [echo EXCEPT ![s] = Append(echo[s], Current(s))]
               ELSE echo
    /\ marked' = [marked EXCEPT ![s] = @ \cup {next[s]}]
    /\ next' = [next EXCEPT ![s] = @ + 1]
    /\ pc' = [pc EXCEPT ![s] = "check"]
    /\ UNCHANGED <<stores, cursor, upto, failure, armed, writes, crashes>>

\* loadRow after a statement that failed: PostgreSQL answers no query in a
\* transaction one of whose statements has failed, SQLite reads on.
LookedUp(s) ==
    IF Peer(s) \in PostgresNodes THEN NoRow ELSE Load(View(s), Current(s).key)

\* The statement fails.  A failed insert is named a conflict when its row can
\* be looked up, any other failure is returned as it is.
WriteFails(s) ==
    /\ pc[s] = "write"
    /\ ~(FindsRow(s) /\ KeyIsFree(View(s), Current(s)))
    /\ Abort(s, IF Current(s).kind = "insert" /\ LookedUp(s) # NoRow
                THEN "conflict" ELSE "error")

\* Faulty: the flag is left armed.
DisarmedFlag_LeftArmed(s) == 1

\* setCaptureSuppressed(false): the flag the transaction commits on SQLite.
DisarmedFlag(s) == 0

Commit(s) ==
    /\ pc[s] = "check"
    /\ next[s] > upto[s]
    /\ rows' = [rows EXCEPT ![Peer(s)] = View(s)]
    /\ journal' = [journal EXCEPT ![Peer(s)] = @ \o echo[s]]
    /\ flag' = IF Peer(s) \in PostgresNodes THEN flag
               ELSE [flag EXCEPT ![Peer(s)] = DisarmedFlag(s)]
    /\ applied' = [applied EXCEPT ![s] = @ \cup marked[s]]
    /\ pc' = [pc EXCEPT ![s] = "save"]
    /\ CloseTransaction(s)
    /\ UNCHANGED <<cursor, upto, next, failure, writes, crashes>>

\* The batch and its error are local to one round of the loop.
ForgetBatch(s) ==
    /\ pc' = [pc EXCEPT ![s] = "poll"]
    /\ upto' = [upto EXCEPT ![s] = 0]
    /\ next' = [next EXCEPT ![s] = 0]
    /\ failure' = [failure EXCEPT ![s] = "none"]

\* The caller saves the cursor once ApplyChanges has returned without error.
SaveCursor(s) ==
    /\ pc[s] = "save"
    /\ cursor' = [cursor EXCEPT ![s] = upto[s]]
    /\ ForgetBatch(s)
    /\ UNCHANGED <<stores, txn, writes, crashes>>

\* The caller tries again after an error, from the same cursor.
Retry(s) ==
    /\ pc[s] = "failed"
    /\ ForgetBatch(s)
    /\ UNCHANGED <<stores, cursor, txn, writes, crashes>>

\* The process of the loop dies: the engine rolls its transaction back, and a
\* batch that was committed but not saved will be read again.
Crash(s) ==
    /\ pc[s] # "poll"
    /\ crashes[s] < MaxCrashes
    /\ crashes' = [crashes EXCEPT ![s] = @ + 1]
    /\ ForgetBatch(s)
    /\ CloseTransaction(s)
    /\ UNCHANGED <<stores, cursor, writes>>

ApplyChanges(s) ==
    Begin(s) \/ SkipApplied(s) \/ DetectConflict(s) \/ PassCheck(s)
        \/ WriteChange(s) \/ WriteFails(s) \/ Commit(s)

Loop(s) == Poll(s) \/ ApplyChanges(s) \/ SaveCursor(s) \/ Retry(s)

Next == \E n \in Nodes : AppWrite(n) \/ Loop(n) \/ Crash(n)

Spec == Init /\ [][Next]_vars

\* The loops keep being scheduled; applications and crashes owe nothing.
Fairness == \A s \in Nodes : WF_vars(Loop(s))

FairSpec == Spec /\ Fairness

-----------------------------------------------------------------------------
(* Why the properties hold: an inductive invariant.                        *)

\* Suppression: off for everybody but the transaction of a loop, which causes
\* no journal entry.
SuppressionOK(n) ==
    /\ flag[n] = 0
    /\ echo[n] = <<>>
    /\ InTransaction(n) => armed[n] = 1
    /\ Len(journal[n]) = writes[n]

\* A batch lies in the journal after the cursor, and everything before the
\* change the transaction is at is applied or marked.
StreamOK(s) ==
    /\ applied[s] \subseteq 1..Len(journal[s])
    /\ \A i \in applied[s] : 1..i \subseteq applied[s]
    /\ 1..cursor[s] \subseteq applied[s]
    /\ pc[s] \in {"begin", "check", "write", "save"} =>
           cursor[s] <= upto[s] /\ upto[s] <= Len(journal[s])
    /\ InTransaction(s) =>
         /\ cursor[s] < next[s] /\ next[s] <= upto[s] + 1
         /\ marked[s] \subseteq 1..(next[s] - 1)
         /\ 1..(next[s] - 1) \subseteq applied[s] \cup marked[s]
    /\ ~InTransaction(s) => marked[s] = {} /\ locked[s] = {}
    /\ pc[s] = "write" => next[s] <= upto[s]
    /\ pc[s] = "save" => 1..upto[s] \subseteq applied[s]

\* A SQLite destination's row still passes the comparison when it is written.
ComparisonStands(s) ==
    (pc[s] = "write" /\ Peer(s) \notin PostgresNodes) => PassesComparison(s)

IndInv ==
    /\ TypeOK
    /\ \A n \in Nodes : SuppressionOK(n)
    /\ \A s \in Nodes : StreamOK(s)

-----------------------------------------------------------------------------
(* Properties.                                                             *)

\* A persisted cursor never runs ahead of what the destination has recorded:
\* no crash or retry can make the loop pass over a change.
CursorSafe == \A s \in Nodes : 1..cursor[s] \subseteq applied[s]

\* What a destination has applied of a stream is a prefix of it, whatever the
\* redeliveries, the conflicts and the batch boundaries.
AppliedIsPrefix ==
    \A s \in Nodes :
        /\ applied[s] \subseteq 1..Len(journal[s])
        /\ \A i \in applied[s] : 1..i \subseteq applied[s]

\* A node's journal holds its application's writes and nothing else: a write
\* replicated into the node is never echoed, a local one never suppressed.
JournalIsLocal == \A n \in Nodes : Len(journal[n]) = writes[n]

Drained ==
    \A s \in Nodes : ~InTransaction(s) /\ applied[s] = 1..Len(journal[s])

\* When each side has applied all the other wrote, the two tables are equal:
\* concurrent writes to one row either meet in the same row or are refused.
Convergence == Drained => rows[NodeA] = rows[NodeB]

\* The row an update or delete overwrites is the one it was compared with.
NoLostUpdate ==
    [][\A s \in Nodes :
         (next'[s] = next[s] + 1 /\ marked'[s] # marked[s]
            /\ Current(s).kind \in {"update", "delete"})
         => Load(View(s), Current(s).key) = Current(s).before]_vars

\* A stream into a node whose application does not write never fails, however
\* often its batches are delivered.
OneWayNeverFails ==
    \A s \in Nodes : Peer(s) \notin AppNodes => failure[s] = "none"

\* Into such a node every change is eventually applied.
EventuallyApplied ==
    \A s \in Nodes : Peer(s) \notin AppNodes =>
        \A i \in 1..MaxWrites : (Len(journal[s]) >= i) ~> (i \in applied[s])

=============================================================================
