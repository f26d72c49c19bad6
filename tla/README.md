# A TLA+ development of sqlite-postgres-compat

`sqlite-postgres-compat` is a Go library (`compat/`) and a command line tool
(`cmd/compat`) that keep a SQLite and a PostgreSQL database equivalent: they
audit what both engines support, compile a canonical schema for either engine
and read it back from its catalog, copy a database by snapshot, replicate row
changes in both directions through a trigger-fed journal, and move a live
application from SQLite to PostgreSQL (*cutover*).

The modules here model it in three groups:

- **protocols**, whose correctness depends on the order of things: capture,
  replication, concurrent workers, cutover;
- **languages**, whose correctness depends on two directions agreeing: what the
  compiler writes and the parsers read (expressions, queries, triggers,
  routines), what a trigger journals and a driver scans (values, statements);
- **the tool**: validation, audit, DDL, inspection and the `copy`, `audit` and
  `cutover --dry-run` commands from the command line to the exit code.

TLC checks all of them on small instances. The safety of the four protocols is
also proved, with TLAPS, for every set of keys, values, sessions and workers,
every schedule of crashes and every bound, and that of the tool for every set of
command lines and schemas; section 4 says what and how.

Run `tlc -config MCReplication_sqlite.cfg MCReplication.tla` (and so on for the
other configurations) and `tlapm ReplicationProofs.tla` (and so on for the other
modules called `...Proofs`). `PROJECT.json` maps each definition to the source
lines it models.

## 1. The system

| Component | Source | State it keeps | Operations |
|---|---|---|---|
| Capture | `compat/capture.go`, `compat/journal.go` | `__compat_change_journal`, the triggers, `__compat_capture_state` | `InstallChangeCapture`, the triggers, `ReadCapturedChanges` |
| Replication | `compat/replicate.go` | `__compat_applied_changes`, the replicated rows | `ApplyChanges`, `ApplyChangesTolerant` |
| Snapshots | `compat/store.go`, `compat/verify.go` | the tables, `__compat_schema_metadata` | `ExportSnapshot`, `ImportSnapshot`, `ApplySchema`, `VerifySnapshots` |
| Canonical values | `compat/store.go` | none | `canonicalValue`, `driverValue` and the normalizers |
| Cutover | `cmd/compat/cutover.go` | a cursor and a count of empty reads | `runCutover`, `drainChanges`, the dry run |
| Copy | `cmd/compat/copy.go` | none | audit, export, import, verify |
| Routines | `compat/runtime.go` | the rows | `CallRoutine`, `SearchText` |
| Audit | `compat/features.go`, `compat/spec.go`, `cmd/compat/audit.go` | none | `Audit`, `InferFeatures`, `RequireExact` |
| Schema | `compat/schema.go` | none | `Schema.Validate` |
| Inspection | `compat/inspect.go` | reads `__compat_schema_metadata` and the catalog | `InspectSchema` |
| DDL | `compat/ddl.go` | none | `CompileDDL` |
| SQL parsing | `compat/sqlparse.go`, `sqlselect.go`, `sqltrigger.go`, `sqlroutine.go` | none | expressions, queries, triggers, routines |
| Command line | `cmd/compat/main.go`, `cmd/internal/cliout` | none | dispatch, arguments, schema resolution, exit codes |

**How they interact.** Everything goes through the two databases. Triggers of
the application's own statements write the journal; a caller (an application's
replication loop, or `drainChanges`) reads it after a cursor and hands the
batch to `ApplyChanges` on the other store, which applies it in one
transaction, records each sequence in `__compat_applied_changes` and keeps the
destination's triggers silent meanwhile. The library starts no goroutine and
keeps no cursor: the loop, its persistence and its retries belong to the
caller, as `docs/OPERATIONS.md` prescribes. `runCutover` strings the operations
together against a source that is being written.

**What is hard.**

- Sessions of the application interleave with the statements of
  `applyChanges`. A SQLite transaction excludes every other writer; a
  PostgreSQL transaction at its default READ COMMITTED level excludes others
  only from rows it has written.
- The suppression that prevents echoes is a committed table cell on SQLite and
  a transaction-local setting on PostgreSQL.
- A process may die between the commit of a batch and the save of its cursor;
  a batch may conflict in the middle.
- Journal entries are numbered when rows are written and become visible when
  transactions commit.
- A cutover exports its tables one at a time under writes, outside any
  transaction, and replays a journal that overlaps the snapshot.
- Two calls of `ApplyChanges` may take the same batch; nothing in the code
  serialises them but the engine's locks and one primary key.
- A value has a text in the journal, a Go value from the driver and a canonical
  form, on each of two engines, and all of them have to meet.
- Definitions are stored as SQL text: what one engine's catalog shows is
  parsed, compiled for the other engine and parsed again.
- A domain, a trigger or a generated column is a different construct on each
  engine, and an import has to create and fill them in an order both accept.

**What makes each component correct.**

| Component | Property |
|---|---|
| Capture | the journal, in sequence order, retells the table; a reader that follows a cursor misses no committed entry |
| Replication | no cursor passes an unrecorded change; what is applied is a prefix; no echo and no lost capture; no update overwrites a row it was not compared with; drained streams leave equal tables |
| Concurrent workers | each change is applied once and in turn, nobody waits in a circle, every stream drains |
| One-way replication | the destination is always a past version of the source, moves only forward, never fails and catches up |
| Cutover | what was drained is one version of the source; failures come only from the overlap; a run ends |
| Values, statements | trigger and driver agree on every canonical value; no statement binds the wrong argument; both sides export the same rows |
| Routines | a call does what its actions say, or nothing |
| DDL, parsing | what a text means is what is read, on either engine and after any number of copies; what cannot be read is refused |
| Schema, inspection | what validates can be created; both engines enforce the same rules; an inspection that calls itself exact is |
| Copy, audit, command line | the exit code tells what became of the destination |

The hazards behind these properties are listed, line by line, in
`PROJECT.json`; those that no property covers say why.

## 2. The modules

### ChangeStream

The data both sides share: a row (`id` and the rest, `val`), a table (a function
from keys to rows or `NoRow`), a change with its images, `Change.Validate`
(`WellFormed`), the entry each trigger writes (`InsertChange`, `UpdateChange`,
`DeleteChange`), and what `applyChange` compares and writes (`BeforeMatches`,
`AlreadyReflected`, `Written`). A row carries its key, so an UPDATE that changes
the primary key is an ordinary change whose key is the old one and whose after
image has the new one, as the triggers record it. Rows of different SQL tables
are different elements of `Keys`. Column values are abstract here; `Values` and
`RowTravel` are about them.

`Replay` is the sequence of tables a journal leads through, and `Fits` says that
a change speaks of the rows it meets; the other modules say with these what a
journal retells. `ChangeStreamProofs` has the lemmas on them.

### Replication

Two stores and two streams; stream `s` carries the journal of node `s` into
`Peer(s)`. `PostgresNodes` says which node runs on which engine and `AppNodes`
where an application writes. One call of `applyChanges` is several steps, with
the statements of other sessions in between:

| Action | Code |
|---|---|
| `Poll` | `ReadCapturedChanges` after the persisted cursor, at most `BatchLimit` |
| `Begin` | `BeginTx`, `createAppliedChangesTable`, `setCaptureSuppressed(true)` |
| `SkipApplied` | `changeWasApplied` returns true |
| `PassCheck`, `DetectConflict` | `loadRow` and the comparison with `before` |
| `WriteChange` | `insertRow`, `updateRow`, `deleteRow`, then `markChangeApplied` |
| `WriteFails` | the statement fails: key collision, or no row affected; after an insert the lookup in the same transaction that would name the conflict (`LookedUp`), which PostgreSQL refuses |
| `Commit` | `setCaptureSuppressed(false)` and `tx.Commit()` |
| `SaveCursor`, `Retry` | the caller, as `docs/OPERATIONS.md` tells it to |
| `Crash` | the process dies; the engine rolls its transaction back |
| `AppWrite` | one autocommitted row statement of the application and its trigger |

`own`, `locked`, `marked` and `echo` are the open transaction of a stream: the
rows it wrote and their keys, the sequences it marked, the journal entries its
own writes would cause. `View` overlays `own` on the committed rows, which is
what a statement of that transaction reads. `Excluded` is the locking of the
engines, which no line of the code does: on
PostgreSQL a session waits only for rows the transaction has written, on SQLite
for the whole transaction, which takes the write lock with the first statement
of `applyChanges` (`createAppliedChangesTable` and the update of the flag).
`armed` is the suppression the transaction's triggers see, `flag` the committed
cell that the other sessions' triggers see on SQLite.

The journal here is gap free and visible as soon as it is written. Where that
is not so, `Capture` shows it.

### DelayedReplica, OneWayReplication, TwoWayReplication

`DelayedReplica` is the promise to a reader of a destination nobody else
writes: it holds some version of the source's history, and the version only
moves forward, several at once when a batch commits. `OneWayReplication`
instantiates it: the history is what the journal of node A retells, the
position is the number of changes applied, the replica is the table of node B.
It also holds the invariant of such a stream, `OneWayInv`. `TwoWayReplication`
holds the invariant of two SQLite stores that both write, `TwoWayInv`. Neither
adds an action to `Replication`.

### Capture

Transactions of several sessions write rows, the triggers number their entries,
a commit makes them visible, a rollback drops them (and on SQLite gives the
numbers back, since AUTOINCREMENT keeps its counter in a table; a PostgreSQL
identity never does). `Install` is `InstallChangeCapture`, first or repeated,
which waits for the transactions that have written the table. `Batch` and
`Read` are the query of `ReadCapturedChanges` and the caller's cursor. `Retold`
is the journal replayed in the order of its sequences, from the table at
installation, over the gaps that transactions leave while they are open or when
they roll back. `JournalRetellsTable` says that it ends at the committed table
and that each entry meets the row its images speak of.

### Cutover

`runCutover` step by step against a source of two tables with a foreign key:
`InstallCapture`, `ExportTable` once per table, `ExportComplete`, `Import` (one
transaction; fails if the tables exist or a reference is missing), `DrainBatch`
(one read that finds changes and the transaction of `ApplyChangesTolerant`,
`Transaction`, which applies the batch change by change until one fails),
`DrainEmpty`, the second export and `Compare`. `AppWrite` may come between any
two of them. `Crash` stops the tool anywhere; `Rerun` is the operator starting
again, after dropping the destination's tables, with or without
`__compat_applied_changes`, or without dropping anything. The export of the
destination in the verification phase reads `dst` at once, because nobody else
writes the destination.

### ConcurrentApply

Several workers call `ApplyChanges` on one PostgreSQL destination, for one
stream or for several, at the grain of SQL statements: `Begin`
(`ReadCapturedChanges` and `BeginTx`), `Lookup` (`changeWasApplied`), `Compare`
(`loadRow`), `Write`, `MarkApplied`, `Commit`, `SaveCursor`, `Crash`. `Mark` is
the primary key of `__compat_applied_changes`: engine and version of the source
and the sequence. `WaitsFor` is the engine's wait for a row lock or for a
pending entry of that index. A worker that meets a mismatch, a missing row or a
mark that is there rolls back and reads again from the cursor all share, which
a slower worker may have set back. Sources own separate rows and have different
targets: two of the same engine and version would take each other's changes for
applied, nothing in the code checks it, and `DistinctIdentities` states it as an
assumption. The journals are every history the sources can have, updates that
change nothing included, which the row triggers journal like any other.

### Trees, Expressions, Selects, Commands, CatalogText

The languages of the catalog, over tokens. `Trees` is the canonical expression.
`Expressions` is `compileExpressionIn` and `parseCatalogExpression`: the stages
from OR to the primary, each splitting at its rightmost operator outside
parentheses, CASE spans and the ANDs of BETWEEN. `Selects` is `compileSelect`
and the query parser with joins, compound operators, WITH, and the trailing
clauses that are parsed with the last branch and lifted. `Commands` is trigger
actions and routine bodies on both engines. `CatalogText` is the life of a
definition: written by hand with no more parentheses than the documented levels
ask for, read (`Inspect`), created again on either engine (`Recreate`), read
again. Who writes by hand is external, and has an operator table of his own
(`Dialect`) that is not the parser's.

### Types, Values, Statements, RowTravel

`Types` is `compileType` and the way back, shared with the schema modules.
`Values` is a value in its five forms: what a column stores (SQLite affinities
included), what the driver scans, the text the trigger journals, the canonical
value, the argument that writes it. Spellings of numbers, instants, dates, JSON
and vectors are opaque texts whose meaning the constants give, so that 17 and 15
significant digits, UTC and local time, sorted and unsorted keys differ. `Store`
is what a column makes of an argument: PostgreSQL keeps a NUMERIC in its own
spelling, rounded and padded to its scale (`Numeric`), and the components of a
vector as float32 (`Rounded`), and refuses a text it cannot read or that does
not fit (`Refused`). `Taken` and `Respelled` say of a canonical value whether the
copy's column takes it and what it gives back. One NUMERIC stands for all.
`Statements` is `insertRow`, `updateRow`, `deleteRow` and the builders of
`CallRoutine`, with their placeholders and arguments, and what an engine does
with such a statement (NULL in a key or a predicate, generated columns).
`RowTravel` takes rows through them: `AppWrite`, `Call`, the triggers, `Copy`
(export and import), `Apply` (read, compare, write).

### Schemas, CommandLine, Catalogs, Migration

`Schemas` is `Schema.Validate`, the statements of `CompileDDL`, the feature
table and the contract checks. `CommandLine` is dispatch, `SplitArgs`,
`ParseArgsStrict`, `ResolveSchema` and the exit code. `Catalogs` is a database
as its catalog shows it: which statements an engine accepts, `ApplySchema`,
`ImportSnapshot` with its three stages, the stored metadata, `InspectSchema`.
The rows of a table go in one by one against immediate foreign keys, in any of
the orders an unordered SELECT may have returned them (`Orders`); `Above` says
to which row of its own table a row refers. `Unreadable` says which texts an
engine's catalog shows that the parsers refuse; what they refuse is left out of
the schema (`Read`, `ReadRules`) and makes the inspection inexact
(`ResolvedColumn`, `ResolvedTable`).
`Migration` is `compat audit`, `copy` and `cutover --dry-run` from the command
line to the exit code: `Start` (all that is refused before a connection),
`Connect`, `Plan`, `ExportTable` once per table, `Import`, `ExportCopy`,
`Compare`, with writers on both sides, `Crash` anywhere and `Rerun`. Every step
that calls a database or writes a report may fail, the second export and the
comparison after the import has committed included. `IsSchema`
and `IsDatabase` say what a schema and a database are in general, beyond the
ones the run enumerates; the proofs are about those. A real cutover is handed
over to `Cutover`. A row is its id here; an expression is what it computes and
the column it is about.

### What is external

The database engines (locks, visibility, uniqueness, foreign keys, sequences,
affinities, what a CREATE accepts), the application, the author of a definition
and the caller's loop are not in the repository. They are modelled from how the
code and its documents use them and marked `external` in the map.

Definitions marked *Faulty* are plausible bugs of the definition below them.
They are used by no specification; substituting one for its original makes TLC
report the property it is paired with in `PROJECT.json`.

## 3. The runs

| Run | Question | Instance | Result |
|---|---|---|---|
| `replication_sqlite` | Do two SQLite stores that both write and replicate into each other stay consistent? | 2 keys, 2 values, 2 writes per node, batches of 2, a crash per stream | holds: types, the inductive invariant, safe cursors, prefixes, no echo, no lost update, and equal tables once drained |
| `replication_oneway` | Does a destination nobody else writes implement `DelayedReplica` and catch up? | SQLite into PostgreSQL, 3 writes, 2 crashes | holds: the inductive invariant, the refinement, no failure on redelivery, eventual application |
| `apply_shared` | Do workers that race for the same batches apply each change once, in turn and to the end? | 2 workers, 2 streams, 3 keys, one value (a row is moved, removed or written as it was), every pair of journals of 3 changes together, batches of 2, a crash | holds: the inductive invariant, history, cursors, no circle of waits, drained in the end |
| `capture_sqlite` | Does the journal retell the table and the reader miss nothing? | 2 sessions with transactions and rollbacks, 2 keys, 2 values, 3 entries, reads of 2 | holds: the inductive invariant, both properties, eventual delivery |
| `cutover` | Is what a cutover drained a version of the source, and does a run end? | 2 parent keys, 1 child key, a datum, 3 writes, 2 runs | holds: the inductive invariant, both, and that only the overlap makes a drain fail |
| `row_travel` | Is a row the same canonical row in the table, the journal and the copy, does a column hold only what its type and family are for, does a routine do what it says? | every family on both engines as source and as destination, 2 ids, a generated column in each place, decimals and vectors PostgreSQL keeps, respells or refuses, 2 journal entries | holds |
| `catalog_text` | Is every definition read as written, on each engine, after any copies, and writable again? | each operator over operands with one operator, chosen trees three deep, a query per clause and their combinations, triggers and routines of two commands, 2 copies | holds |
| `migration` | Does the exit code of `copy`, `audit` and `cutover --dry-run` tell what became of the destination, and what is a copied schema worth? | command lines, contracts and schemas that are right or wrong in one place, both directions, texts the parsers refuse in each place, self-referring rows in every order, an empty or an earlier destination, a failure at any call, 2 ids of which one may refer to the other, 2 writes, 1 foreign write, 2 runs | holds: the inductive invariant, exit codes, stored metadata, equal rules on both engines, exact inspections, dry runs, and that only rows that break a foreign key as they were read refuse a copy of a schema that compiles and resolves |
| `replication_lost_update` | The comparison with `before`, on PostgreSQL | a SQLite and a PostgreSQL node that both write, no crashes | **violated** |
| `capture_gap` | The cursor, on PostgreSQL | as `capture_sqlite`, with PostgreSQL | **violated** |
| `cutover_spurious_conflict` | The overlap of capture and snapshot | 2 writes, 1 run | **violated** |
| `catalog_misread` | What the parsers do with text outside their grammar | six forms of text | **violated** |

The inductive invariants (`IndInv`, `OneWayInv`) are the ones the proofs of
section 4 carry. `TypeOK` is the first conjunct of each `IndInv`; a run that
checks `IndInv` does not list it again. `TwoWayInv` takes TLC too long for a run
that others wait for: it was checked as an invariant of the instance of
`replication_sqlite` (1,509,371 states) and is proved below.

### What the refuted statements mean

1. **Lost update** (`compat/replicate.go:219`). `docs/OPERATIONS.md:60` says that
   an update or delete is compared with the current row and the transaction
   aborts if they differ. On PostgreSQL `loadRow` is a plain SELECT, and the
   statement that follows names the row by primary key only. A session that
   commits in between is overwritten. `SELECT ... FOR UPDATE` would close it.
2. **Sequence gap** (`compat/capture.go:210`). A PostgreSQL entry numbered 1 may
   commit after entry 2. A reader that saw 2 never returns to 1.
3. **Spurious conflict** (`cmd/compat/cutover.go:317`). The tolerant mode looks
   for a change already reflected at the change's key, which for an UPDATE is
   the key before it. One UPDATE that moves a row to another key before its table
   is exported ends the drain in a conflict: the snapshot has the row at its new
   key, nothing is at the old one, neither image matches. Every rerun ends so
   too, because the journal is read from the beginning. (A row written twice
   before its export meets the same comparison with a third image.)
4. **Misread definition** (`compat/sqlselect.go:235`). `compat/sqlparse.go:9`
   says that everything outside the grammar is rejected. The column list of
   `CREATE VIEW v(c) AS SELECT x FROM t` is dropped and the view read as exact;
   RIGHT and FULL before JOIN are read as an alias, a predicate after IS NULL
   is dropped, and in an SQL function a column hides a parameter of its name.

### What else the code does that a caller should know

Met while modelling, and not shown by a refuted run of its own:

- PostgreSQL spells a decimal or a vector its own way (`1.5` in NUMERIC(8,2) is
  read back as `1.50`), which `docs/reports/FIX-A5-BAJA-REPORT.md:49` knows of:
  `compat copy` ends in `ERR_VERIFY_DIVERGED` with no other writer, and the next
  captured change of such a row is refused, because its Before is spelled as the
  source spells it. `NothingRefused` and `CopyIsEquivalent` say exactly this.
- `ERR_SNAPSHOT` does not tell whether the import committed: the export of the
  destination after it ends in the same code (`cmd/compat/copy.go:84-90`).
- Rows of a table that refers to itself are exported in no order and inserted
  one by one: a copy of valid rows may fail on a foreign key
  (`compat/store.go:187`).
- INSERT OR REPLACE on SQLite and TRUNCATE on PostgreSQL fire no row trigger for
  what they remove (`compat/capture.go:126`), so the journal cannot be replayed.
- What is written after the last empty read of a drain stays behind
  (`cmd/compat/cutover.go:166`); `DrainedIsSourceVersion` says which version the
  destination holds.
- A decimal `1.50` written into a native NUMERIC affinity column of SQLite is
  stored as `1.5`; a boolean column holding 2 or `yes` reads as false; a
  timestamp text in none of the four layouts fails the export; a JSON or INTEGER
  column holding a REAL is journaled with 15 digits. `SomeTables` leaves these
  values out.
- An INSERT whose key exists is wrapped as a `ConflictError` after a lookup of
  the row in the same transaction (`compat/replicate.go:211`). On PostgreSQL the
  failed INSERT has aborted that transaction, the lookup fails too, and the
  driver's error comes back (`LookedUp` and `WriteFails` of `Replication`).
- `README.md:7` says that nothing is degraded in silence, but a column
  `NUMERIC(8,2)` of an external PostgreSQL database is read as a decimal without
  arguments, as exact, and declared again as `NUMERIC` (`compat/inspect.go:862`).
  `InspectionIsFaithful` therefore asks for the names of the types and the
  dimensions of vectors only. The length of VARCHAR is lost by the same line,
  and so are collations and the order of a SQLite primary key. Inspection lists
  tables by name, an order in which PostgreSQL may refuse a foreign key. The databases
  of `Migration` are made by the statements of `CompileDDL`, which declare no
  VARCHAR and no collation.
- A primary key over a nullable column validates, and admits NULL on SQLite only;
  an INTEGER PRIMARY KEY of SQLite numbers the rows that come without one.
- `destination_has_tables` looks in schema `public` and counts PostgreSQL views;
  it is true only when *all* tables are there, so false foretells nothing.

### Bounds, and why they are enough

- `Replication`: two keys are needed for a change that moves a row to another
  key and for a session that writes a row the stream has not locked; two values
  for a row to differ from its image and to return to it. Two writes per node
  reach every pairing of concurrent writes to one row. Three writes one way make
  batches of two overlap after a crash. One crash per stream reaches every point
  of the loop; two, a crash during the recovery of the first. A batch limit of 2
  gives batches that end at the limit, at the end of the journal and within the
  overlap of an earlier delivery.
- `ConcurrentApply`: two workers and two rows of one stream that change places
  make locks cross; the second stream, with a row and a journal of its own, lets
  marks of equal sequences meet. A journal of three against batches of two makes
  a worker work on a batch another has half applied.
- `Cutover`: a parent, its child and a second parent suffice for a torn snapshot
  that breaks a reference, and for a child that changes its parent. Two runs let
  a rerun meet the journal, the tables and the marks of the first.
- `RowTravel`: the fixed texts are those at which spellings part: 15 and 17
  digits, local time past midnight in UTC, unsorted keys, NULL, decimals with
  too few or too many digits, a vector that float32 rounds. The generated
  column comes before, between and after the others, the key has one column or
  two.
- `CatalogText`: every pair of operators meets in both nestings, which is what
  precedence and associativity are about; three deep where NOT, BETWEEN and CASE
  interfere. Each clause of a query occurs alone, sorted, under WITH, as a
  subquery and as a branch.
- `Migration`: a fault is in one place at a time, because the code stops at the
  first. Two writes at the source tear a snapshot between a parent and its
  child; one foreign write at the destination makes the comparison diverge. Two
  rows, one of which may refer to the other, have both orders and a missing
  parent. An earlier destination holds one table, which a smaller schema brings
  again and the larger ones meet; command lines that differ in nothing else are
  tried with the smaller schema.
- Symmetry is used in the runs without liveness, on keys and values that are
  only compared. `NoLostUpdate` is an action property over symmetric
  quantifiers and needs no fairness.

`CHECK_DEADLOCK FALSE`: the bounds on writes, entries, crashes, copies and runs
stop the models in states in which the program would be waiting for the next
write or would have ended.

### Fairness

- `Replication`: weak fairness of each stream's `Loop`, the caller's loop that
  polls, applies, saves and retries. Crashes are bounded and the loop is
  restarted; applications owe nothing.
- `ConcurrentApply`: weak fairness of each worker's `Step`. A worker that waits
  owes nothing until it is let go, and none of them is owed success.
- `Capture`: weak fairness of `Read`. Transactions owe nothing, not even an end.
- `Cutover`: weak fairness of the tool's steps, which are sequential code with a
  timer in `drainChanges`. `RunsEnd` needs the application to pause, and the
  bound on writes is that pause: the drain ends only after `drain_polls` empty
  reads in a row, so an application that writes in every interval keeps it
  going for ever.
- `Migration` claims no liveness: a run is straight-line code that ends unless a
  database does not answer.

## 4. What is proved

Every theorem holds for all values of the constants that meet the assumptions of
its module: any keys and values (finite or not), any bounds, any number of
sessions, workers and streams. Each run of a module evaluates its assumptions.

| Module | Theorem | Statement |
|---|---|---|
| `ReplicationProofs` | `Inductive`, `TypeCorrect` | `Spec => []IndInv`, `Spec => []TypeOK` |
| | `CursorIsSafe` | `Spec => []CursorSafe` |
| | `AppliedPrefix` | `Spec => []AppliedIsPrefix` |
| | `NoEcho` | `Spec => []JournalIsLocal` |
| | `SQLiteLosesNoUpdate` | with `PostgresNodes = {}`, `Spec => NoLostUpdate` |
| | `TwoWayInductive` | with `PostgresNodes = {}`, `Spec => []TwoWayInv` |
| | `SQLiteConverges` | with `PostgresNodes = {}`, `Spec => []Convergence` |
| | `OneWayInductive` | `Spec => []OneWayInv` |
| | `OneWayStreamNeverFails` | `Spec => []OneWayNeverFails` |
| | `ImplementsDelayedReplica` | with `NodeB \notin AppNodes`, `Spec => IsDelayedReplica` |
| `ConcurrentApplyProofs` | `Inductive`, `TypeCorrect` | `Spec => []IndInv`, `Spec => []TypeOK` |
| | `AppliedInOrder` | `Spec => []AppliedIsHistory` |
| | `CursorFollows` | `Spec => []CursorIsCovered` |
| | `DeadlockFree` | `Spec => []NoDeadlock` |
| `CaptureProofs` | `Inductive`, `TypeCorrect` | `Spec => []IndInv`, `Spec => []TypeOK` |
| | `RetellsTable` | `Spec => []JournalRetellsTable` |
| | `SkipsNothing` | with `~OnPostgres`, `Spec => []NothingSkipped` |
| `CutoverProofs` | `Inductive`, `TypeCorrect` | `Spec => []IndInv`, `Spec => []TypeOK` |
| | `DrainsToAVersion` | `Spec => []DrainedIsSourceVersion` |
| | `OverlapOnly` | `Spec => []FailsOnlyInOverlap` |
| `MigrationProofs` | `Inductive` | `Spec => []RunInv` |
| | `OutcomeTold` | `Spec => []OutcomeIsTold` |
| | `MetadataHolds` | `Spec => []MetadataIsReal` |
| | `DryRunTells` | `Spec => []DryRunForetells` |
| `SchemaProofs` | `CatalogsInductive` | `Spec => []IndInv` |
| | `EnforceAlike` | `Spec => []EnginesEnforceAlike` |
| | `InspectionFaithful` | `Spec => []InspectionIsFaithful` |
| | `ImportsValid` | `Spec => []ValidSchemaImports` |
| | `JournaledAsScanned` | for each family, engine and type, the journal and the driver tell one canonical value of a column |
| | `CopiedAlike` | what is read of a column, if the copy's column takes it, is read and journaled there as the same value, as the engine spells it |

Two modules hold what several proofs share: `Induction`, induction and recursion
over the naturals, and `ChangeStreamProofs`, the lemmas on `Replay`, `Written`
and `Fits`.

**Assumptions.** The absent row is not a row (`NoRowAssumption`, everywhere).
Two distinct nodes, whose engine and application sets are sets of nodes
(`NodesAssumption`); bounds are naturals, a batch takes at least one change
(`BoundsAssumption`, `CaptureAssumption`, `CutoverAssumption`). For
`ConcurrentApply`: the table at the start is a table, streams own separate keys
(`SeparateKeys`), and two sources differ in engine or version
(`DistinctIdentities`); the code checks none of the last two, and the second is
where a caller with two sources has to look. For `Cutover`: parents and
children are the keys, data and references the values. For `Migration`: what a
configuration names and what the destination was given before are schemas
(`MigrationAssumption`): a record of lists, the columns and the constraints of a
table again lists, and a constraint a record of the seven fields of
`compat/schema.go`, its reference's included; and a row refers to one row of its
own table, itself for none. That is what decoding a schema file gives (`IsSchema`); the
schemas need not be valid, complete or free of duplicate names. For values: 17
digits read back as the float64 they were printed from, a printed instant is the
same instant, a day is not an instant, and sorting keys, shortening components,
converting to UTC and taking the day are idempotent (`ValuesAssumption`): what
`printf('%!.17g')`, `time.Format`, `encoding/json` and `strconv` do; and what a
NUMERIC or a vector column prints it takes again and prints as it was, which
PostgreSQL and pgvector do. The hypotheses
on the engine are the ones the refuted statements of section 3 show to be needed.

### Replication

None of the properties is inductive by itself. `IndInv` adds to the types

- `SuppressionOK`: the committed flag is 0, the transaction of a stream is
  armed exactly while it is open, none of its writes has caused an entry, and a
  journal is as long as the number of local writes. `NoEcho` follows: only
  `AppWrite` lengthens a journal, and it always does.
- `StreamOK`: the batch lies in the journal after the cursor; everything before
  the change at hand is applied or marked; marks lie below it; what is applied
  is closed downwards; nothing is marked outside a transaction; at `save` the
  whole batch is applied. That the applied set is a *prefix* needs the middle
  clauses: a transaction that skipped an entry would commit a hole. `CursorSafe`
  needs the last one, across `SaveCursor`.

`ComparisonStands` is the further invariant behind `SQLiteLosesNoUpdate`: while
a stream is between comparison and write, its comparison still holds. On SQLite
no application write can intervene (`Excluded`), and the other stream writes the
other node. On PostgreSQL it is false, which is what `replication_lost_update`
shows.

### One way

`OneWayInv` says three things of a stream whose destination has no writer but
the loop, on any mix of engines. The source holds what its journal retells, and
each change fits the table it was captured on. The destination holds what the
source held after the changes applied, `1..m`. An open transaction either has
written nothing yet (the change at hand is at most one past `m`) or sees what
the source held just before the change at hand. So each comparison compares an
image with itself and each statement finds its row or its free key: nothing
fails. The refinement is then the step `m -> n` of each commit and a stutter of
every other action; `History` never changes below its length, because a journal
only grows.

### Two ways

Two stores that both write do not apply changes in one order, so no replay
describes them. `TwoWayInv` counts instead: a change takes one image from each
key it touches and leaves another (`Gain`), and the image a store holds at a key
is the one at which its own changes and the changes applied to it balance
(`Balanced`). This holds on SQLite because every update and delete is compared
with what it overwrites, `ComparisonStands`. Drained stores have been through
the same two journals, the sums are the same, and so are the rows: `Convergence`
needs no conflict-free schedule, only that no stream has ended in a conflict.

### Concurrent workers

`IndInv` for any number of workers and streams: committed marks of a stream are
a prefix of its journal and its rows are what that prefix built (`HistoryOK`);
in a call everything before the change at hand is marked, by it or by a
committed call, and what it marked nobody else has (`CallOK`); it holds the row
locks of what it wrote (`LocksOK`); from its first mark on it sees its source's
rows as they were after its last change (`RowsOK`); two open calls share neither
marks nor row locks (`Apart`). A worker that has written a change another call
has applied since is the hard case: it saw old rows, and it cannot commit,
because its mark collides with the committed one. `DeadlockFree` follows: a
worker that waits is about to write and waits for a call of its own stream that
has written; in a circle that call waits too, so it has marks; but the marks of
open calls of one stream all begin where the committed ones end, so at most one
of them has any.

### Capture

Sequence order and commit order differ, so `Retold` is not what the table was at
any moment, and an induction over `Retold` alone does not go through. `IndInv`
looks at each key by itself (`Ordered`): every entry takes from a key what the
entry before it in sequence order that touches this key left there, and the
table holds what the last one left. A transaction keeps the lock on the keys it
has written until it ends, so entries at one key are numbered in the order of
their commits on either engine, and a commit or a rollback moves all of them at
once. `RetellsTable` puts the keys together again. `NothingSkipped` needs the
numbers themselves: on SQLite the one writing transaction has the last numbers,
and a rollback gives back exactly these (`SingleWriterOK`); so the counter never
falls to the cursor and no entry appears behind it.

### Cutover

The snapshot is torn: each table is exported at a version of its own, and the
destination equals no version while the overlap is replayed. `IndInv` follows
each row (`Converging`, `Settled`): it was exported at some version `p` of the
source at most `overlapEnd`. With the changes up to `a` applied it holds what
the source held at `a` if `p` is not later; if it is later, it holds what it was
exported as, or a change between `a` and `p` that writes it is still to come. A
change the tolerant mode skips finds its own after image, one it writes leaves
it, so either way the row is then at version `a + 1`. Past `overlapEnd` every
row is at `a`, each further change fits, and this is both `OverlapOnly` and
`DrainsToAVersion`. Reruns enter through the snapshot being younger than what
an earlier run applied, which is where `ExportTable` after the journal's
installation is used.

### Migration

`IndInv` has two halves. The first, `RunInv`, is about the runs of the tool and
is short because the code is append-only: a statement adds its object and none
removes one (`ExecutedKeeps`, `ExecutedMakes`). Hence a database that is created
has every object of its schema (`CreatedDatabase`), and goes on having it under
row statements of anybody (`WrittenDatabase`), which is `MetadataHolds`.
`OutcomeTold` also needs that `Import` is one transaction: up to it the catalog
is the one the run began with, and from it on it has all of the schema (`RunOK`),
whatever was refused, failed or died. A failure may come on either side of the
commit, so `ERR_SNAPSHOT`, `ERR_INTERNAL` and a crash tell only that there is no
third case (`DeathIsTold`). That a copy diverges by another writer or by the
spelling of PostgreSQL (`MayBeRespelled`) alone is the longer part. A table the
engine accepts was not there (`CreatedRows`), so no trigger is on it yet, so the
inserts reach no other table (`WithRowsDatabase`) and each new table holds
exactly the rows of the snapshot in whatever order they were read (`OrderedRows`,
`ImportedDatabase`); the second export reads
them back table by table (`ReadTable`). A schema with two tables of one name is
the case to watch: it is refused by the engine, not by this argument.
`DryRunTells` is `CreatedRows` read backwards: a table or view of that name
makes the first CREATE fail.

The second half, `CatalogsOK`, is what the three properties of schemas rest on:
no two tables and no two domains of a catalog share a name, the metadata of a
managed database compiles, the source's catalog stays what its statements made,
and a destination the layer does not manage is empty. Without the unique names
"the table of that name" could be a later one, with other rules.

### One schema, two engines

`EnforceAlike` compares neither catalog with the other. `Rules` is the record of
what a schema says of a table (names, NOT NULL, values, checks, keys,
references with their actions), with each domain inlined, and a table compiled for either engine
and looked up in a catalog that has the schema enforces exactly these rules
(`EnforcedRules`). On PostgreSQL a part of them is in the domain, and it is the
domain of the schema because names are unique. A column of a primary key counts
as NOT NULL on both engines, which is one exclusion `EnginesEnforceAlike` states:
SQLite lets it be NULL. The other is what a type admits, with SQLite's INTEGER
PRIMARY KEY.

`InspectionFaithful` splits on the metadata. A managed database answers with its
schema, which it has, and `TableAs` says that compiling a table again gives the
table there. A database no metadata describes was made by statements (`MadeOf`),
and the inspection has to undo them: each column, constraint and check that is
read is declared as it was (`ColumnReadBack`, `ConstraintReadBack`); what changes
place, a check of a column that becomes one of the table, is the same rule for
`Enforced` (`TableAs`, `DeclaredAlike`). Where the parsers refuse a text of the
catalog, a rule is missing from what is read, and the proof is that this table,
index, view or trigger has then made the inspection inexact (`CatalogReadBack`);
so has a column of a domain or a vector without dimension. `Declared` compares
what an inspection is able to keep (`Kept`, `KeptKey`): the rules, the names of
the types, the dimension of a vector, the columns of each key, in order but for
a SQLite primary key. The arguments of a NUMERIC
are not among it: the code does not keep them (section 3).

`ImportsValid` is about order, of the schema that compiles, whatever the order of
the rows, and has four steps.

1. The statements of a schema are those of its tables, indexes and views and then
   those of its triggers (`SplitStatements`); a list that is accepted has its
   prefix accepted (`AcceptsConcat`). So PostgreSQL, which accepts the whole,
   accepts the base.
2. A new database of the other engine mirrors it (`Mirrors`, `Twins`): statement
   by statement it has the same names and the same columns, and a table sound on
   PostgreSQL is sound on SQLite. SQLite has no domains to make, and asks no more
   of a table, an index or a view (`BaseAccepted`).
3. A table PostgreSQL accepted has a new name and refers to itself or to an
   earlier table (`TableOrder`). The rows go in in that order, each table's at
   once; when those of a table go in, the tables it refers to have theirs and its
   own is empty, and each row refers to a row of the snapshot, which in the table
   itself came before it (`Referring`, `TableInserts`, `RowsAccepted`).
   No trigger is there yet, so nothing else writes.
4. A trigger PostgreSQL accepted has a function of a new name and a table that is
   there (`TriggerOrder`), which is enough on either engine (`TriggersAccepted`).

The statements of a schema and the inserts of a snapshot are lists of lists,
flattened. `FlattenSteps` takes the library's fold apart into the partial
concatenations and proves, by the induction of `Induction`, that each is the one
before it with a member more. That gives the elements (`FlattenElements`), all
that `RunInv` needs, and the order: what is accepted member by member is
accepted as a whole, and conversely (`AcceptsSteps`, `InsertsSteps`).

### Values

Both theorems are about a column whose type suits its family (`Typed`: an
inspection gives the type the family, or the compiler the family the type) and
that holds what such a column is for (`Suits`). The run checks as `ColumnsHold`
that a column never comes to hold anything else, whoever writes it. A SQLite
column may be given values of any class by other means, such as a number of
seconds in a `TIMESTAMP` column; of those nothing is claimed.

`JournaledAsScanned` goes through the families. Only three need an argument.
A float is journaled with 17 digits on SQLite and with the shortest ones on
PostgreSQL, and both read back as that float. A real in a `DECIMAL` column is
marked, so that its digits are read as the float they stand for and not kept as
spelled. An instant is printed by one path and formatted by the other, and is
one instant in UTC. `CopiedAlike` puts two lemmas together: what is read is a
canonical value (`ReadIsCanonical`, where the normalisers have to be
idempotent), and a canonical value the column takes survives the compiled type,
whose affinity never changes it, decimals being text on SQLite, or comes back as
PostgreSQL spells it, once and for all (`WrittenIsRead`). By the first
theorem the copy's own trigger then journals it as that value, so a change
replayed one way and back compares equal where the engine has not respelled it
(`compat/store.go:270`).

### How replays are proved about

`Replay`, `Net`, `Retold` and `Transaction` are recursive functions. That each
equals its equation is proved from the well-foundedness of the naturals
(`RecursionExists`), and that something holds of all their values by induction
on sets (`SetInduction`), as the library's induction theorems take an operator.

### What is only model-checked

- Liveness: `EventuallyApplied`, `EventuallyDelivered`, `EventuallyDrained`,
  `RunsEnd`. It depends on fairness and `ENABLED`, which the prover
  does not handle.
- `CatalogText` (`ReadAsWritten`, `CopyIsFaithful`, `ReadIsWritable`). Compilers
  and parsers are RECURSIVE operators over trees and token lists. That a parser
  returns what a compiler wrote is an induction over the tree, for which the
  prover has no rule it can instantiate.
- `RowTravel` (`ColumnsHold`, `JournalTellsRows`, `NothingRefused`,
  `CopyIsEquivalent`, `CallDoesWhatItSays`). The predicates of a routine are trees, and `Truth`,
  `RoutineWhere` and `Meaning` recurse over them. That a single value keeps its
  canonical form on each path is a theorem (`JournaledAsScanned`,
  `CopiedAlike`); that the statements put it into the right column of the right
  row is checked. `NothingRefused` and
  `CopyIsEquivalent` moreover are not true of every routine: of one that exchanges
  the keys of two rows a replay applies one change after the other, and the first
  meets a key that is taken. They are claims about the routines and values of
  `MCRowTravel`, which TLC carries through every conversion.
- `NoLostUpdate` and `NothingSkipped` on PostgreSQL, `NoSpuriousConflict` and
  `NothingMisread` are refuted
  (section 3); the first two are theorems on SQLite.

## 5. What is not modelled

- `SearchText`: a query built by string concatenation and an answer of the
  engine's full-text index.
- A schema that changes under capture: the code has no operation for it; an
  entry of an older schema makes every read fail (`compat/capture.go:224`).
- User triggers during a drain: a replayed effect of a source trigger is caused
  again by the destination's own (`compat/store.go:196`).
- The characters of SQL: quoting, numbers, white space and comments. The parsers
  are modelled on tokens. How PostgreSQL prints views and expressions in its own
  words is not modelled, so only triggers are read back there.
- Referential actions at work: `Schemas` carries ON UPDATE and ON DELETE from
  the schema to the catalog and back, but no DELETE of `Migration` or `Cutover`
  cascades, and the references of `Cutover` are NO ACTION.
- Installing capture statement by statement: `Install` is one step, as its
  transaction makes it (`compat/capture.go:37-69`), so a write between the DROP
  and the CREATE of a trigger is up to the engine's locks.
- Somebody who drops tables between a dry run and the migration: nothing in
  `Migration` removes one, so `DryRunForetells` is never stale there.
- Index key lists, collations, identity and hidden columns in inspection.
- The wording of error envelopes and logs; JSON decoding beyond "it decodes".
- Opening connections, beyond that it fails.
- Prune of the journal: the code has none.
- The engines' durability and the network beyond "the process dies".

## 6. What is left

Every safety property of the protocols and of the tool that the runs check is a
theorem; those of the two languages, and those of statements, whose predicates
are trees, are not, for the reasons of section 4. `ColumnsHold` and
`JournalTellsRows` would follow from the two theorems on values if the statements
were written without recursion.

What could still be modelled: a drain onto tables with user triggers (composing
`Catalogs` with `Cutover`), and a reader whose schema is newer than its journal.
