------------------------------- MODULE Cutover -------------------------------
(***************************************************************************)
(* compat cutover (cmd/compat/cutover.go): moving a SQLite source that is  *)
(* still being written to a fresh PostgreSQL destination.  Capture is      *)
(* installed, every table exported in turn and imported, the journal is    *)
(* drained with ApplyChangesTolerant, both sides are exported and compared.*)
(*                                                                         *)
(* The application keeps writing the source between any two of those       *)
(* steps, between the exports of two tables included: ExportSnapshot reads *)
(* them outside a transaction.  Nobody else writes the destination.  The   *)
(* schema has a parent table and a child table that references it.         *)
(***************************************************************************)
EXTENDS ChangeStream

CONSTANTS
    Parents, Children,  \* the keys of the two tables
    Data,               \* what a parent row holds; a child row holds its parent
    BatchLimit,         \* batch_limit
    DrainPolls,         \* drain_polls
    MaxWrites,          \* bound: application writes
    MaxRuns             \* bound: runs of the tool

ASSUME CutoverAssumption ==
    /\ Keys = Parents \cup Children /\ Parents \cap Children = {}
    /\ Values = Data \cup Parents
    /\ BatchLimit \in Nat \ {0} /\ DrainPolls \in Nat \ {0}
    /\ MaxWrites \in Nat /\ MaxRuns \in Nat \ {0}

VARIABLES
    \* the source
    src,         \* its tables
    journal,     \* its journal, kept from run to run
    installed,   \* its capture triggers are in place
    atInstall,   \* its tables when they were first put in place
    writes,
    \* the destination
    created,     \* its tables exist
    dst,         \* its rows
    applied,     \* its __compat_applied_changes
    \* the tool
    phase, table, snap, cursor, empty, status, code,
    stuckAt,     \* the sequence of the change a drain failed at
    overlapEnd,  \* the last sequence journaled when the snapshot was complete
    runs

source      == <<src, journal, installed, atInstall, writes>>
destination == <<created, dst, applied>>
outcome     == <<status, code, stuckAt>>
vars == <<source, destination, phase, table, snap, cursor, empty, outcome,
          overlapEnd, runs>>

\* The tables in the order of the schema.
SchemaTables == <<Parents, Children>>

\* Foreign keys: every child's parent is there.
ReferencesHold(t) == \A k \in Children : t[k] # NoRow => t[t[k].val] # NoRow

\* What the columns of the two tables can hold.
LegalRow(r) == IF r.id \in Parents THEN r.val \in Data ELSE r.val \in Parents

Contents == {t \in Tables : /\ \A k \in Keys : t[k] # NoRow => LegalRow(t[k])
                            /\ ReferencesHold(t)}

Phases == {"install", "export", "import", "drain", "verify", "compare", "done"}

TypeOK ==
    /\ src \in Contents /\ atInstall \in Contents
    /\ journal \in Seq(Changes)
    /\ installed \in BOOLEAN /\ created \in BOOLEAN
    /\ dst \in Contents /\ snap \in Tables
    /\ applied \subseteq DOMAIN journal
    /\ phase \in Phases /\ table \in 1 .. Len(SchemaTables) + 1
    /\ cursor \in 0 .. Len(journal) /\ empty \in 0 .. DrainPolls
    /\ status \in {"running", "ready", "diverged", "failed"}
    /\ code \in {"none", "ERR_SNAPSHOT", "conflict", "error", "crash"}
    /\ stuckAt \in 0 .. Len(journal) /\ overlapEnd \in 0 .. Len(journal)
    /\ writes \in 0 .. MaxWrites /\ runs \in 0 .. MaxRuns

Init ==
    /\ src \in {t \in Contents : \A k \in Children : t[k] = NoRow}
    /\ journal = <<>> /\ installed = FALSE /\ atInstall = src
    /\ writes = 0
    /\ created = FALSE /\ dst = EmptyTable /\ applied = {}
    /\ phase = "install" /\ table = 1 /\ snap = EmptyTable
    /\ cursor = 0 /\ empty = 0
    /\ status = "running" /\ code = "none" /\ stuckAt = 0
    /\ overlapEnd = 0 /\ runs = 1

-----------------------------------------------------------------------------
(* The application.                                                        *)

SameTable(j, k) == \E i \in DOMAIN SchemaTables : {j, k} \subseteq SchemaTables[i]

AppWrite ==
    /\ writes < MaxWrites
    /\ \E c \in LocalChanges(src) :
        /\ c.after # NoRow => LegalRow(c.after) /\ SameTable(c.key, c.after.id)
        /\ KeyIsFree(src, c)
        /\ ReferencesHold(Written(src, c))
        /\ src' = Written(src, c)
        /\ journal' = IF installed THEN Append(journal, c) ELSE journal
    /\ writes' = writes + 1
    /\ UNCHANGED <<installed, atInstall, destination, phase, table,
                   snap, cursor, empty, outcome, overlapEnd, runs>>

-----------------------------------------------------------------------------
(* runCutover.                                                             *)

Die(error, at) ==
    /\ phase' = "done" /\ status' = "failed" /\ code' = error /\ stuckAt' = at

InstallCapture ==
    /\ phase = "install"
    /\ phase' = "export"
    /\ table' = 1
    /\ installed' = TRUE
    /\ atInstall' = IF installed THEN atInstall ELSE src
    /\ UNCHANGED <<src, journal, writes, destination, snap, cursor,
                   empty, outcome, overlapEnd, runs>>

\* exportTable of the source, once in each of the two exports.
ExportTable ==
    /\ phase \in {"export", "verify"}
    /\ table <= Len(SchemaTables)
    /\ snap' = [k \in Keys |-> IF k \in SchemaTables[table] THEN src[k] ELSE snap[k]]
    /\ table' = table + 1
    /\ UNCHANGED <<source, destination, phase, cursor, empty, outcome, overlapEnd, runs>>

ExportComplete ==
    /\ phase \in {"export", "verify"}
    /\ table > Len(SchemaTables)
    /\ IF phase = "export"
       THEN phase' = "import" /\ overlapEnd' = Len(journal)
       ELSE phase' = "compare" /\ UNCHANGED overlapEnd
    /\ UNCHANGED <<source, destination, table, snap, cursor, empty, outcome, runs>>

\* CREATE TABLE finds no table of that name, and the rows, inserted in the
\* order of the schema, find the rows they reference.
Importable == ~created /\ ReferencesHold(snap)

\* ImportSnapshot is one transaction.
Import ==
    /\ phase = "import"
    /\ IF Importable
       THEN /\ created' = TRUE /\ dst' = snap
            /\ phase' = "drain" /\ cursor' = 0 /\ empty' = 0
            /\ UNCHANGED <<applied, outcome>>
       ELSE /\ Die("ERR_SNAPSHOT", 0)
            /\ UNCHANGED <<destination, cursor, empty>>
    /\ UNCHANGED <<source, table, snap, overlapEnd, runs>>

\* applyChange in tolerant mode on a table.
TolerantOutcome(t, c) ==
    IF AlreadyReflected(t, c) THEN "reflected"
    ELSE IF (c.kind = "insert" /\ Load(t, c.key) # NoRow)
            \/ (c.kind # "insert" /\ ~BeforeMatches(t, c)) THEN "conflict"
    ELSE IF ~(KeyIsFree(t, c) /\ ReferencesHold(Written(t, c))) THEN "error"
    ELSE "written"

\* applyChanges at the change of sequence i; after an error nothing more runs.
ApplyNext(acc, i) ==
    LET result == TolerantOutcome(acc.table, journal[i])
    IN  IF acc.code # "none" \/ i \in applied THEN acc
        ELSE IF result \in {"conflict", "error"}
             THEN [acc EXCEPT !.code = result, !.at = i]
        ELSE IF result = "written"
             THEN [acc EXCEPT !.table = Written(acc.table, journal[i])]
        ELSE acc

LastRead == IF Len(journal) - cursor <= BatchLimit
            THEN Len(journal) ELSE cursor + BatchLimit

\* applyChanges: its transaction after the first n changes of the batch.
Transaction ==
    LET tx[n \in 0 .. LastRead - cursor] ==
            IF n = 0 THEN [table |-> dst, code |-> "none", at |-> 0]
            ELSE ApplyNext(tx[n - 1], cursor + n)
    IN  tx

ApplyBatch == Transaction[LastRead - cursor]

\* drainChanges: a read that finds changes, and the transaction applying them.
DrainBatch ==
    /\ phase = "drain"
    /\ Len(journal) > cursor
    /\ IF ApplyBatch.code = "none"
       THEN /\ dst' = ApplyBatch.table
            /\ applied' = applied \cup (cursor + 1 .. LastRead)
            /\ cursor' = LastRead /\ empty' = 0
            /\ UNCHANGED <<phase, outcome>>
       ELSE /\ Die(ApplyBatch.code, ApplyBatch.at)
            /\ UNCHANGED <<dst, applied, cursor, empty>>
    /\ UNCHANGED <<source, created, table, snap, overlapEnd, runs>>

\* Faulty: one empty read more than drain_polls.
DrainEmpty_OneMore ==
    /\ phase = "drain"
    /\ Len(journal) = cursor
    /\ empty' = empty + 1
    /\ IF empty + 1 > DrainPolls
       THEN phase' = "verify" /\ table' = 1
       ELSE UNCHANGED <<phase, table>>
    /\ UNCHANGED <<source, destination, snap, cursor, outcome, overlapEnd, runs>>

\* Faulty: every read resets the count of empty ones.
DrainEmpty_Resets ==
    /\ phase = "drain"
    /\ Len(journal) = cursor
    /\ empty' = 0
    /\ IF empty + 1 >= DrainPolls
       THEN phase' = "verify" /\ table' = 1
       ELSE UNCHANGED <<phase, table>>
    /\ UNCHANGED <<source, destination, snap, cursor, outcome, overlapEnd, runs>>

\* drainChanges: a read that finds none; the last of drain_polls in a row ends it.
DrainEmpty ==
    /\ phase = "drain"
    /\ Len(journal) = cursor
    /\ empty' = empty + 1
    /\ IF empty + 1 >= DrainPolls
       THEN phase' = "verify" /\ table' = 1
       ELSE UNCHANGED <<phase, table>>
    /\ UNCHANGED <<source, destination, snap, cursor, outcome, overlapEnd, runs>>

\* VerifySnapshots and the report.
Compare ==
    /\ phase = "compare"
    /\ phase' = "done"
    /\ status' = IF snap = dst THEN "ready" ELSE "diverged"
    /\ UNCHANGED <<source, destination, table, snap, cursor, empty, code, stuckAt,
                   overlapEnd, runs>>

Tool == InstallCapture \/ ExportTable \/ ExportComplete \/ Import
            \/ DrainBatch \/ DrainEmpty \/ Compare

\* The process dies between two of its steps.
Crash ==
    /\ phase # "done"
    /\ Die("crash", 0)
    /\ UNCHANGED <<source, destination, table, snap, cursor, empty, overlapEnd, runs>>

\* The operator starts over, after dropping the tables of the destination, the
\* tool's own table with them or not, or dropping nothing.
Rerun ==
    /\ status \in {"failed", "diverged"}
    /\ runs < MaxRuns
    /\ runs' = runs + 1
    /\ \/ UNCHANGED destination
       \/ created' = FALSE /\ dst' = EmptyTable /\ applied' \in {applied, {}}
    /\ phase' = "install" /\ table' = 1 /\ snap' = EmptyTable
    /\ cursor' = 0 /\ empty' = 0
    /\ status' = "running" /\ code' = "none" /\ stuckAt' = 0
    /\ UNCHANGED <<source, overlapEnd>>

Next == AppWrite \/ Tool \/ Crash \/ Rerun

Spec == Init /\ [][Next]_vars

\* The tool keeps running.
FairSpec == Spec /\ WF_vars(Tool)

-----------------------------------------------------------------------------
(* Why the properties hold: an inductive invariant.                        *)

\* The versions of the source since the triggers are in place.
Versions == Replay(atInstall, journal)

\* What the source held when its journal ended at sequence i.
SourceAt(i) == Versions[i]

\* What AppWrite captures.
Captured(c) ==
    /\ WellFormed(c) /\ Shaped(c)
    /\ c.after # NoRow => LegalRow(c.after)

\* Every version is one the columns and references allow, and each change met
\* the rows its images speak of.
SourceOK ==
    /\ ~installed => journal = <<>> /\ phase \in {"install", "done"}
    /\ installed => src = SourceAt(Len(journal))
    /\ \A i \in DOMAIN journal :
          /\ Captured(journal[i])
          /\ Fits(SourceAt(i - 1), journal[i])
          /\ SourceAt(i) \in Contents

\* The first n tables of snapshot s, exported at versions from a to e.
Exported(versions, s, n, a, e) ==
    \A i \in 1..n : \A k \in SchemaTables[i] :
        \E p \in a..e : s[k] = versions[p][k]

\* With the changes up to a replayed, x is what a key holds that was exported
\* at version p: what the source held, unless p is later; then at least what
\* it held at p, or a change up to p is still to come.
Settled(versions, changes, x, k, a, p) ==
    IF p <= a THEN x = versions[a][k]
    ELSE x = versions[p][k] \/ \E i \in a + 1 .. p : k \in TouchedKeys(changes[i])

\* Rows t on the way from a torn snapshot, complete at version e, to version a.
Converging(versions, changes, t, a, e) ==
    \A k \in Keys : \E p \in 0..e : Settled(versions, changes, t[k], k, a, p)

\* The destination has applied a prefix of the journal, and a snapshot is
\* younger than what an earlier run applied.
DestinationOK ==
    \E a \in 0 .. Len(journal) :
        /\ applied = 1..a
        /\ phase = "export" => Exported(Versions, snap, table - 1, a, Len(journal))
        /\ phase = "import" => Exported(Versions, snap, Len(SchemaTables), a, overlapEnd)
        /\ phase = "drain"  => /\ cursor <= a
                               /\ Converging(Versions, journal, dst, a, overlapEnd)

RunOK ==
    /\ \A k \in Keys : snap[k] # NoRow => LegalRow(snap[k])
    /\ phase = "drain" => empty < DrainPolls
    /\ status \in {"ready", "diverged"} => phase = "done"
    /\ phase = "import" => table = Len(SchemaTables) + 1

-----------------------------------------------------------------------------
(* Properties.                                                             *)

\* Once the drain is over, the destination holds exactly what the source held
\* at the last change read, however torn the snapshot it started from was.
DrainedIsSourceVersion ==
    (phase \in {"verify", "compare"} \/ status \in {"ready", "diverged"})
        => dst = SourceAt(cursor)

\* Draining can fail only on a change that was journaled before the snapshot
\* was complete: what the application writes later always replays.
FailsOnlyInOverlap == stuckAt <= overlapEnd

\* The inductive invariant.
IndInv == TypeOK /\ SourceOK /\ DestinationOK /\ RunOK
            /\ DrainedIsSourceVersion /\ FailsOnlyInOverlap

\* Every run comes to an end once the application pauses.
RunsEnd == (status = "running") ~> (phase = "done")

\* The overlap of capture and snapshot raises no conflict, the destination
\* having no other writer.
NoSpuriousConflict == code # "conflict"

=============================================================================
