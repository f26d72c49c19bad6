------------------------------- MODULE Capture -------------------------------
(***************************************************************************)
(* A source whose triggers journal the writes of concurrent transactions,  *)
(* and the reader that follows the journal with a cursor:                  *)
(* InstallChangeCapture and ReadCapturedChanges of compat/capture.go.      *)
(*                                                                         *)
(* A trigger numbers its entry when the row is written, the reader sees it *)
(* when the transaction commits.  On SQLite the single writer makes the    *)
(* two orders one, and a rollback gives its numbers back (AUTOINCREMENT    *)
(* keeps its counter in a table).  On PostgreSQL transactions write side   *)
(* by side under row locks, and an identity sequence is never rolled back. *)
(***************************************************************************)
EXTENDS ChangeStream, FiniteSets

CONSTANTS
    Sessions,       \* concurrent sessions of the application
    OnPostgres,     \* the engine of the source
    ReadLimit,      \* the limit given to ReadCapturedChanges
    MaxEntries      \* bound: sequences handed out

ASSUME CaptureAssumption ==
    /\ OnPostgres \in BOOLEAN
    /\ ReadLimit \in Nat \ {0}
    /\ MaxEntries \in Nat

VARIABLES
    installed,  \* the capture triggers are in place
    atInstall,  \* the committed table at the first installation
    rows,       \* the committed table
    journal,    \* the committed entries of __compat_change_journal
    lastSeq,    \* the counter behind the sequence column
    own,        \* [t]: the rows the open transaction of session t has written
    locked,     \* [t]: their keys
    pending,    \* [t]: its journal entries
    cursor,     \* the reader's cursor
    delivered   \* what ReadCapturedChanges has returned

vars == <<installed, atInstall, rows, journal, lastSeq, own, locked, pending,
          cursor, delivered>>

Entries == [seq : Nat \ {0}, change : Changes]

TypeOK ==
    /\ installed \in BOOLEAN
    /\ atInstall \in Tables
    /\ rows \in Tables
    /\ IsFiniteSet(journal) /\ \A e \in journal : e \in Entries /\ WellFormed(e.change)
    /\ lastSeq \in 0..MaxEntries
    /\ own \in [Sessions -> [Keys -> Images]]
    /\ locked \in [Sessions -> SUBSET Keys]
    /\ pending \in [Sessions -> SUBSET Entries]
    /\ cursor \in 0..lastSeq
    /\ delivered \subseteq journal

Init ==
    /\ installed = FALSE
    /\ rows \in {t \in Tables : Cardinality({k \in Keys : t[k] # NoRow}) <= 1}
    /\ atInstall = rows
    /\ journal = {}
    /\ lastSeq = 0
    /\ own = [t \in Sessions |-> EmptyTable]
    /\ locked = [t \in Sessions |-> {}]
    /\ pending = [t \in Sessions |-> {}]
    /\ cursor = 0
    /\ delivered = {}

Writing(t) == locked[t] # {}

\* Faulty: the journal is created anew with the triggers.
Install_NewJournal ==
    /\ \A t \in Sessions : ~Writing(t)
    /\ installed' = TRUE
    /\ atInstall' = IF installed THEN atInstall ELSE rows
    /\ journal' = {}
    /\ UNCHANGED <<rows, lastSeq, own, locked, pending, cursor, delivered>>

\* InstallChangeCapture runs in one transaction.  Creating the triggers waits
\* for every transaction that has written the table.  A second installation
\* replaces the triggers and leaves the journal as it is.
Install ==
    /\ \A t \in Sessions : ~Writing(t)
    /\ installed' = TRUE
    /\ atInstall' = IF installed THEN atInstall ELSE rows
    /\ UNCHANGED <<rows, journal, lastSeq, own, locked, pending, cursor, delivered>>

View(t) == [k \in Keys |-> IF k \in locked[t] THEN own[t][k] ELSE rows[k]]

\* A write waits for the rows other open transactions have written; on SQLite
\* for any other transaction that has written at all.
MustWait(t, keys) ==
    \E u \in Sessions \ {t} :
        IF OnPostgres THEN keys \cap locked[u] # {} ELSE Writing(u)

\* A row statement, and the entry its trigger adds to the journal.
Statement(t, c) ==
    /\ ~MustWait(t, TouchedKeys(c))
    /\ own' = [own EXCEPT ![t] = Written(View(t), c)]
    /\ locked' = [locked EXCEPT ![t] = @ \cup TouchedKeys(c)]
    /\ IF installed
       THEN /\ lastSeq < MaxEntries
            /\ lastSeq' = lastSeq + 1
            /\ pending' = [pending EXCEPT ![t] =
                             @ \cup {[seq |-> lastSeq + 1, change |-> c]}]
       ELSE UNCHANGED <<lastSeq, pending>>
    /\ UNCHANGED <<installed, atInstall, rows, journal, cursor, delivered>>

Write(t) ==
    \E c \in LocalChanges(View(t)) : KeyIsFree(View(t), c) /\ Statement(t, c)

EndTransaction(t) ==
    /\ own' = [own EXCEPT ![t] = EmptyTable]
    /\ locked' = [locked EXCEPT ![t] = {}]
    /\ pending' = [pending EXCEPT ![t] = {}]
    /\ UNCHANGED <<installed, atInstall, cursor, delivered>>

Commit(t) ==
    /\ Writing(t)
    /\ rows' = View(t)
    /\ journal' = journal \cup pending[t]
    /\ EndTransaction(t)
    /\ UNCHANGED lastSeq

Rollback(t) ==
    /\ Writing(t)
    /\ EndTransaction(t)
    /\ lastSeq' = IF OnPostgres THEN lastSeq
                  ELSE lastSeq - Cardinality(pending[t])
    /\ UNCHANGED <<rows, journal>>

\* Faulty: the newest entries first.
Batch_Descending ==
    LET after == {e \in journal : e.seq > cursor}
    IN  {e \in after : Cardinality({f \in after : f.seq >= e.seq}) <= ReadLimit}

\* Faulty: the first entry after the cursor is taken for one already read.
Batch_OffByOne ==
    LET after == {e \in journal : e.seq > cursor + 1}
    IN  {e \in after : Cardinality({f \in after : f.seq <= e.seq}) <= ReadLimit}

\* WHERE sequence > cursor ORDER BY sequence LIMIT: the entries returned.
Batch ==
    LET after == {e \in journal : e.seq > cursor}
    IN  {e \in after : Cardinality({f \in after : f.seq <= e.seq}) <= ReadLimit}

\* ReadCapturedChanges, and the caller moving its cursor to the last sequence.
Read ==
    /\ Batch # {}
    /\ delivered' = delivered \cup Batch
    /\ \E e \in Batch : /\ \A f \in Batch : f.seq <= e.seq
                        /\ cursor' = e.seq
    /\ UNCHANGED <<installed, atInstall, rows, journal, lastSeq, own, locked, pending>>

Next ==
    \/ Install
    \/ \E t \in Sessions : Write(t) \/ Commit(t) \/ Rollback(t)
    \/ Read

Spec == Init /\ [][Next]_vars

FairSpec == Spec /\ WF_vars(Read)

-----------------------------------------------------------------------------
(* What the journal retells.                                               *)

EntryAt(n) == CHOOSE e \in journal : e.seq = n

\* The table after the entry numbered n, if one is committed.
Retell(t, n) ==
    IF \E e \in journal : e.seq = n THEN Written(t, EntryAt(n).change) ELSE t

\* The tables the journal leads through in the order of its sequences, from the
\* one at installation: the n-th is the table after the entries up to n.
Retold ==
    LET after[n \in 0..lastSeq] ==
            IF n = 0 THEN atInstall ELSE Retell(after[n - 1], n)
    IN  after

-----------------------------------------------------------------------------
(* Why the properties hold: an inductive invariant.                        *)

\* x is what the entries E leave at key k, which held base: what the last one
\* to touch it left.
Ends(base, x, k, E) ==
    \/ x = base /\ \A e \in E : k \notin TouchedKeys(e.change)
    \/ \E e \in E :
          /\ k \in TouchedKeys(e.change) /\ x = Leaves(e.change, k)
          /\ \A f \in E : k \in TouchedKeys(f.change) => f.seq <= e.seq

\* The entries E lead from table base to table t: each takes from a key what
\* the ones before it leave there, and t holds what the last ones leave.
Ordered(base, t, E) ==
    \A k \in Keys :
        /\ Ends(base[k], t[k], k, E)
        /\ \A e \in E : k \in TouchedKeys(e.change) =>
              Ends(base[k], Takes(e.change, k), k, {f \in E : f.seq < e.seq})

\* What session t will have journaled if it commits now.
Journal(t) == journal \cup pending[t]

Everything == journal \cup UNION {pending[t] : t \in Sessions}

\* Nothing is journaled before the triggers are in place.
QuietOK ==
    ~installed => journal = {} /\ lastSeq = 0 /\ \A t \in Sessions : pending[t] = {}

\* A transaction holds the keys of its entries to itself.
LocksOK ==
    /\ \A t \in Sessions :
          /\ own[t] \in Tables
          /\ IsFiniteSet(pending[t])
          /\ \A e \in pending[t] : TouchedKeys(e.change) \subseteq locked[t]
    /\ \A t, u \in Sessions : t # u =>
          /\ locked[t] \cap locked[u] = {}
          /\ ~OnPostgres => ~(Writing(t) /\ Writing(u))

\* Sequences are handed out once.
NumbersOK ==
    /\ \A e \in Everything :
          e.seq <= lastSeq /\ WellFormed(e.change) /\ Shaped(e.change)
    /\ \A e, f \in Everything : e.seq = f.seq => e = f

\* On SQLite the entries of the one transaction that writes come last, and a
\* rollback gives back exactly their numbers.
SingleWriterOK ==
    ~OnPostgres =>
        \A t \in Sessions :
            /\ Cardinality(pending[t]) <= lastSeq
            /\ cursor <= lastSeq - Cardinality(pending[t])
            /\ \A e \in journal : e.seq <= lastSeq - Cardinality(pending[t])
            /\ \A e \in pending[t] : lastSeq - Cardinality(pending[t]) < e.seq

\* The journal leads to the committed table, and with the entries of an open
\* transaction to what the transaction sees.
OrderOK ==
    installed =>
        /\ Ordered(atInstall, rows, journal)
        /\ \A t \in Sessions : Ordered(atInstall, View(t), Journal(t))

IndInv == TypeOK /\ QuietOK /\ LocksOK /\ NumbersOK /\ SingleWriterOK /\ OrderOK

-----------------------------------------------------------------------------
(* Properties.                                                             *)

\* Replayed in the order of its sequences, the journal leads from the table at
\* installation to the table now, and every entry meets the rows its images
\* speak of: the order of the sequences agrees with the commits row by row.
JournalRetellsTable ==
    installed =>
        /\ \A e, f \in journal : e.seq = f.seq => e = f
        /\ \A e \in journal : Fits(Retold[e.seq - 1], e.change)
        /\ Retold[lastSeq] = rows

\* No entry the cursor has passed was left behind.
NothingSkipped == \A e \in journal : e.seq <= cursor => e \in delivered

\* Every committed entry is delivered in the end.
EventuallyDelivered ==
    \A i \in 1..MaxEntries :
        (\E e \in journal : e.seq = i) ~> (\E e \in delivered : e.seq = i)

=============================================================================
