------------------------------ MODULE RowTravel ------------------------------
(***************************************************************************)
(* The rows of one table on their way to another engine, with their        *)
(* values: ExportSnapshot and ImportSnapshot copy the table, the           *)
(* application and the canonical routines (CallRoutine) change it, the     *)
(* capture triggers journal what changed, ReadCapturedChanges and          *)
(* ApplyChanges repeat it on the copy.  Order, crashes and concurrency are *)
(* the subject of Replication and Capture: one process takes every step.   *)
(***************************************************************************)
EXTENDS Statements

CONSTANTS
    SourceTables,   \* the tables the source may have (see Statements), each
                    \* with the values its column v may hold and the routines
                    \* of its schema: sequences of actions, with parameters
                    \* key and value
    CopyEngines,    \* the engines the copy may be on
    Ids,            \* what the column id stores
    MaxChanges      \* bound: entries of the journal

VARIABLES
    source,         \* the table at the source
    rows,           \* its rows
    journal,        \* what its triggers wrote
    copy,           \* the table at the destination
    copied,         \* its rows, once they are imported
    applied,        \* how many entries were applied
    refused         \* the import, or the call that read or applied the next
                    \* entry, failed

vars == <<source, rows, journal, copy, copied, applied, refused>>

NotCopied == {Leaf("no table", "")}

\* The rows an application can write.  SQLite takes NULLs in a key of several
\* columns, PostgreSQL does not.
AppRows(table) ==
    LET keyed == "v" \in table.primary /\ "postgres" \in {source.engine, copy.engine}
    IN  {Regenerated(table, [c \in Range(table.columns) |-> IF c = "id" THEN i ELSE v]) :
            i \in Ids, v \in {d \in table.data : keyed => d # Null}}

\* The table CompileDDL makes of the schema.
Compiled(engine, table) ==
    [table EXCEPT !.engine = engine,
                  !.declared = [c \in DOMAIN table.declared |-> CompiledType(engine, table.family[c])]]

Init ==
    /\ source \in SourceTables
    /\ \E engine \in CopyEngines : copy = Compiled(engine, source)
    /\ rows \in {{r} : r \in AppRows(source)}
    /\ journal = <<>>
    /\ copied = NotCopied
    /\ applied = 0
    /\ refused = FALSE

-----------------------------------------------------------------------------
(* Reading rows.                                                           *)

\* exportTable and loadRow: what is scanned, made canonical.
CanonicalRow(table, row) ==
    [c \in DOMAIN row |->
        CanonicalValue(table.family[c], Scanned(table.engine, table.declared[c], row[c]))]

\* ExportSnapshot
Exported(table, stored) == {CanonicalRow(table, r) : r \in stored}

\* decodeCapturedRow
DecodedRow(table, raw) ==
    [c \in DOMAIN raw |-> CanonicalValue(table.family[c], Unpacked(table.family[c], raw[c]))]

Readable(row) == \A c \in DOMAIN row : row[c] # Invalid

-----------------------------------------------------------------------------
(* The source: every statement fires the triggers of                       *)
(* compileCaptureTriggers.                                                 *)

Images(table, row) ==
    IF row = Empty(table) THEN row
    ELSE [c \in DOMAIN row |-> Journaled(table.engine, table.family[c], row[c])]

\* The key of an update is the one the row had.
Entry(table, old, new) ==
    [key |-> KeyOf(table, Images(table, IF old = Empty(table) THEN new ELSE old)),
     before |-> Images(table, old), after |-> Images(table, new)]

Entries(table, pairs) ==
    LET changed == SetToSeq(pairs)
    IN  [i \in DOMAIN changed |-> Entry(table, changed[i][1], changed[i][2])]

\* A statement of the application that inserts, updates or deletes one row.
AppWrite ==
    \E old \in rows \cup {Empty(source)}, new \in AppRows(source) \cup {Empty(source)} :
        /\ old # new
        /\ \A r \in rows \ {old} : KeyOf(source, r) # KeyOf(source, new)
        /\ Len(journal) < MaxChanges
        /\ rows' = (rows \ {old}) \cup ({new} \ {Empty(source)})
        /\ journal' = Append(journal, Entry(source, old, new))
        /\ UNCHANGED <<source, copy, copied, applied, refused>>

\* CallRoutine: one statement for each action, in one transaction; the first
\* that fails undoes the ones before it.
AfterStatement(table, state, done) ==
    IF state.fails \/ done.fails THEN [state EXCEPT !.fails = TRUE]
    ELSE [state EXCEPT !.rows = done.rows, !.journal = @ \o Entries(table, done.pairs)]

Finished(begun, ended) == IF ended.fails THEN [begun EXCEPT !.fails = TRUE] ELSE ended

Called(table, state, actions, arguments) ==
    LET Act(s, a) ==
            AfterStatement(table, s, Executed(table, s.rows, RoutineStatement(table, a, arguments)))
    IN  Finished(state, FoldLeft(Act, state, actions))

\* The arguments of a call are canonical values.
CallsOf(table) ==
    {[key |-> k.id, value |-> v.v] : k, v \in Exported(table, AppRows(table))}

Outcome(actions, arguments) ==
    Called(source, [rows |-> rows, journal |-> journal, fails |-> FALSE], actions, arguments)

Call(actions, arguments) ==
    \E done \in {Outcome(actions, arguments)} :
        /\ Len(done.journal) <= MaxChanges
        /\ rows' = done.rows
        /\ journal' = done.journal
        /\ UNCHANGED <<source, copy, copied, applied, refused>>

-----------------------------------------------------------------------------
(* The copy.                                                               *)

\* The rows of a snapshot inserted one by one, in one transaction.
Imported(snapshot) ==
    LET After(state, done) == [rows |-> done.rows, fails |-> state.fails \/ done.fails]
        Import(row, state) == After(state, Executed(copy, state.rows, InsertRow(copy, row)))
    IN  FoldSet(Import, [rows |-> {}, fails |-> FALSE], snapshot)

\* ExportSnapshot of the source and ImportSnapshot into the destination.
Copy ==
    /\ copied = NotCopied /\ ~refused
    /\ journal = <<>>
    /\ \E done \in {Imported(Exported(source, rows))} :
        IF done.fails THEN refused' = TRUE /\ UNCHANGED copied
        ELSE copied' = done.rows /\ UNCHANGED refused
    /\ UNCHANGED <<source, rows, journal, copy, applied>>

\* loadRow
Loaded(key) ==
    LET predicate == RowPredicate(copy, key, 1)
    IN  Exported(copy, {r \in copied : Truth(copy, r, predicate.args, predicate.where, 0) = "true"})

\* ReadCapturedChanges from the cursor and ApplyChanges of one entry.
Apply ==
    LET entry == journal[applied + 1]
        key == DecodedRow(source, entry.key)
        before == DecodedRow(source, entry.before)
        after == DecodedRow(source, entry.after)
        inserted == entry.before = Empty(source)
        deleted == entry.after = Empty(source)
        statement == CASE inserted -> InsertRow(copy, after)
                       [] deleted -> DeleteRow(copy, key)
                       [] OTHER -> UpdateRow(copy, key, after)
        done == Executed(copy, copied, statement)
    IN  /\ copied # NotCopied /\ applied < Len(journal) /\ ~refused
        /\ IF /\ Readable(key) /\ Readable(before) /\ Readable(after)
              /\ inserted \/ Loaded(key) = {before}
              /\ ~done.fails
              /\ inserted \/ Cardinality(done.pairs) = 1
           THEN copied' = done.rows /\ applied' = applied + 1 /\ UNCHANGED refused
           ELSE refused' = TRUE /\ UNCHANGED <<copied, applied>>
        /\ UNCHANGED <<source, rows, journal, copy>>

Next ==
    \/ AppWrite
    \/ \E actions \in source.routines, arguments \in CallsOf(source) : Call(actions, arguments)
    \/ Copy
    \/ Apply

Spec == Init /\ [][Next]_vars

-----------------------------------------------------------------------------
(* What a routine means, on canonical rows.                                *)

RECURSIVE Meaning(_, _, _)
Meaning(e, row, arguments) ==
    LET M(i) == Meaning(e.args[i], row, arguments)
        Known(b) == IF b THEN "true" ELSE "false"
        Of(x) == IF x.kind = "column" THEN row[x.value] ELSE RoutineValue(x, arguments)
        a == Of(e.args[1])
        b == Of(e.args[2])
    IN  CASE e.kind = "and" -> IF "false" \in {M(1), M(2)} THEN "false"
                               ELSE IF "unknown" \in {M(1), M(2)} THEN "unknown" ELSE "true"
          [] e.kind = "or" -> IF "true" \in {M(1), M(2)} THEN "true"
                              ELSE IF "unknown" \in {M(1), M(2)} THEN "unknown" ELSE "false"
          [] e.kind = "not" -> IF M(1) = "unknown" THEN "unknown" ELSE Known(M(1) = "false")
          [] e.kind = "is_null" -> Known(a = NullValue)
          [] e.kind = "is_not_null" -> Known(a # NullValue)
          [] OTHER -> IF NullValue \in {a, b} THEN "unknown" ELSE Known((a = b) = (e.kind = "eq"))

\* The row with the assignments of an action and what is generated from them.
Assigned(row, action, arguments) ==
    LET as == action.assignments
        set == [c \in DOMAIN row |->
                  IF \E i \in DOMAIN as : as[i].column = c
                  THEN RoutineValue(as[CHOOSE i \in DOMAIN as : as[i].column = c].value, arguments)
                  ELSE row[c]]
    IN  Regenerated(source, set)

Impossible == {Leaf("impossible", "")}

\* One action, on rows of which no two may have one key afterwards.
Acted(canonical, action, arguments) ==
    LET hit == {r \in canonical : Meaning(action.where[1], r, arguments) = "true"}
        blank == [c \in Range(source.columns) |-> NullValue]
        new == CASE action.kind = "insert" -> {Assigned(blank, action, arguments)}
                 [] action.kind = "update" -> {Assigned(r, action, arguments) : r \in hit}
                 [] action.kind = "delete" -> {}
        kept == IF action.kind = "insert" THEN canonical ELSE canonical \ hit
        unique == /\ \A r \in kept, n \in new : KeyOf(source, r) # KeyOf(source, n)
                  /\ action.kind = "update" => Cardinality({KeyOf(source, n) : n \in new}) = Cardinality(hit)
    IN  IF canonical # Impossible /\ unique THEN kept \cup new ELSE Impossible

Meant(canonical, actions, arguments) ==
    LET end == FoldLeft(LAMBDA now, a : Acted(now, a, arguments), canonical, actions)
    IN  IF end = Impossible THEN canonical ELSE end

-----------------------------------------------------------------------------
(* Properties.                                                             *)

\* A column of either table only holds what its family and its type are for,
\* whoever wrote it: the application, a routine, an import or a replay.
\* Hazard: store.go:270.
ColumnsHold ==
    LET Fits(table, stored) ==
            \A row \in stored : \A c \in DOMAIN row :
                Suits(table.engine, table.declared[c], table.family[c], row[c])
    IN  Fits(source, rows) /\ (copied # NotCopied => Fits(copy, copied))

\* What the triggers journal of a row and what the driver scans of it become
\* the same canonical values, whatever storage class SQLite keeps them in: the
\* last image of every row in the journal is the row ExportSnapshot reads.
\* Hazard: store.go:270.
JournalTellsRows ==
    LET images == {i \in DOMAIN journal : journal[i].after # Empty(source)}
        Lasting(i) == \A j \in DOMAIN journal : j > i => journal[j].key # KeyOf(source, journal[i].after)
    IN  \A i \in images : Lasting(i) => DecodedRow(source, journal[i].after) \in Exported(source, rows)

\* The rows as the engine of the copy spells them.
RespelledRow(row) == [c \in DOMAIN row |-> Respelled(copy.engine, copy.family[c], row[c])]

\* Every row of the source there ever was: what it holds and what the journal
\* tells of it.
RowsMet ==
    Exported(source, rows)
    \cup UNION {{DecodedRow(source, e.before), DecodedRow(source, e.after)} : e \in Range(journal)}

\* The copy takes every value and keeps it as it is spelled.
AllKept ==
    \A row \in RowsMet :
        /\ \A c \in DOMAIN row : Taken(copy.engine, copy.family[c], row[c])
        /\ RespelledRow(row) = row

\* As long as nobody else writes to the copy, and PostgreSQL keeps the
\* spelling of the decimals and vectors it is given, neither the import nor a
\* captured change is refused: its Before is what the copy holds of it, its
\* key finds that row alone, and the numbers of its placeholders fit its
\* arguments.  A respelled value is refused by the next change of its row.
\* Hazard: replicate.go:299, store.go:270, ddl.go:291.
NothingRefused == AllKept => ~refused

\* When all that was captured is applied, both sides export the same rows
\* (VerifySnapshots), generated columns and NULLs included, but for the
\* spelling of PostgreSQL; the respelling is all that a value can lose.
\* Hazard: replicate.go:299, ddl.go:291.
CopyIsEquivalent ==
    copied # NotCopied /\ applied = Len(journal) =>
        Exported(copy, copied) = {RespelledRow(row) : row \in Exported(source, rows)}

\* A call of a routine does to the rows what its actions say one after another,
\* or, when one of them would repeat a key, nothing at all.
\* Hazard: runtime.go:118, runtime.go:37.
CallDoesWhatItSays ==
    \A actions \in source.routines, arguments \in CallsOf(source) :
        Exported(source, Outcome(actions, arguments).rows)
            = Meant(Exported(source, rows), actions, arguments)

=============================================================================
