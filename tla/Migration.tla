------------------------------ MODULE Migration ------------------------------
(***************************************************************************)
(* compat audit, compat copy and compat cutover --dry-run                  *)
(* (cmd/compat): the command line, the configuration, the audit, and the   *)
(* copy of a database another program is writing.  A cutover goes on in    *)
(* Cutover.                                                                *)
(*                                                                         *)
(* ExportSnapshot reads the tables one after the other, outside a          *)
(* transaction; ImportSnapshot is one transaction, whose steps nobody      *)
(* else sees.                                                              *)
(***************************************************************************)
EXTENDS Catalogs, CommandLine

CONSTANTS
    Configs,        \* command lines with the files they name
    Ids,            \* what identifies a row
    Earlier,        \* schemas the destination may have been given before
    MaxWrites,      \* bound: writes at the source
    MaxOtherWrites, \* bound: writes of others at the destination
    MaxRuns         \* bound: runs of the tool

ASSUME MigrationAssumption ==
    /\ \A c \in Configs : IsSchema(c.schema)
    /\ \A s \in Earlier : IsSchema(s)
    /\ Above \in [Ids -> Ids]
    /\ MaxWrites \in Nat /\ MaxOtherWrites \in Nat /\ MaxRuns \in Nat \ {0}

VARIABLES
    config,         \* the command line and its configuration file
    source, destination,
    step,           \* what the run does next
    table,          \* the table ExportSnapshot reads next
    snapshot,       \* the rows of the first export, table by table
    second,         \* the rows of the second export
    plan,           \* destination_has_tables of a dry run
    exit, code,     \* how the run ended
    before,         \* the destination when the run began
    writes, otherWrites, runs

run == <<step, table, snapshot, second, plan, exit, code, before>>
bounds == <<writes, otherWrites, runs>>
vars == <<config, source, destination, run, bounds>>

Tables == config.schema.tables

Steps == {"start", "connect", "export", "import", "export again", "compare", "plan",
          "cutover", "ended"}

Started ==
    /\ step' = "start" /\ table' = 1 /\ snapshot' = <<>> /\ second' = <<>>
    /\ plan' = FALSE /\ exit' = 0 /\ code' = ""

\* The statements of CompileDDL run without the layer.
Handmade(engine, s) ==
    [ApplySchema(Empty(engine), s) EXCEPT !.managed = FALSE, !.metadata = NoSchema]

Init ==
    /\ config \in Configs
    /\ source = Handmade(config.contract.source.engine, config.schema)
    /\ LET empty == Empty(config.contract.destination.engine)
       IN  destination \in {ApplySchema(empty, s) : s \in Earlier} \cup {empty}
    /\ step = "start" /\ table = 1 /\ snapshot = <<>> /\ second = <<>>
    /\ plan = FALSE /\ exit = 0 /\ code = "" /\ before = destination
    /\ writes = 0 /\ otherWrites = 0 /\ runs = 1

-----------------------------------------------------------------------------
(* The other programs.                                                     *)

Deleted(db, t, id) == [db EXCEPT !.rows[t] = @ \ {id}]

\* No other row refers to this one.
CanDelete(db, t, id) ==
    /\ id \in db.rows[t]
    /\ \A u \in db.tables : t \in Parents(u) =>
        \A other \in db.rows[u.name] :
            ReferredTo(u.name, t, other) = id => u.name = t /\ other = id

Written(db) ==
    UNION {{Inserted(db, <<<<t, id>>>>) : id \in {i \in Ids : CanInsert(db, t, i)}}
           \cup {Deleted(db, t, id) : id \in {i \in Ids : CanDelete(db, t, i)}}
                : t \in NamesIn(db.tables)}

\* A row statement of the application.
AppWrite ==
    /\ writes < MaxWrites /\ step # "ended"
    /\ source' \in Written(source)
    /\ writes' = writes + 1
    /\ UNCHANGED <<config, destination, run, otherWrites, runs>>

\* A row statement of anybody else at the destination.
OtherWrite ==
    /\ otherWrites < MaxOtherWrites /\ step # "ended"
    /\ destination' \in Written(destination)
    /\ otherWrites' = otherWrites + 1
    /\ UNCHANGED <<config, source, run, writes, runs>>

-----------------------------------------------------------------------------
(* A run of the tool.                                                      *)

End(status, error) == step' = "ended" /\ exit' = status /\ code' = error

Die(error) == End(ExitCode(error), error)

Go(next) == step' = next /\ UNCHANGED <<exit, code>>

Command == Dispatch(config.args).command

\* The checks before anything is opened, in the order of runCopy and
\* runCutover.  "" is no error.
Refusal ==
    IF Command = "none" \/ ~Accepted(Command, Dispatch(config.args).args) THEN "ERR_USAGE"
    ELSE IF ~config.decodes THEN "ERR_CONFIG"
    ELSE IF Command = "audit"
         THEN IF ~ValidContract(config.contract) THEN "ERR_CONFIG"
              ELSE IF ~IsExact(config.contract, NoSchema) THEN "ERR_AUDIT_NOT_EXACT"
              ELSE ""
    ELSE IF ~Resolves(config) THEN "ERR_CONFIG"
    ELSE IF ~Validate(config.schema) THEN "ERR_SCHEMA"
    ELSE IF ~ValidContract(config.contract) THEN "ERR_CONFIG"
    ELSE IF ~IsExact(config.contract, config.schema) THEN "ERR_AUDIT_NOT_EXACT"
    ELSE ""

Start ==
    /\ step = "start"
    /\ IF Refusal # "" THEN Die(Refusal)
       ELSE IF Command = "audit" THEN End(0, "")
       ELSE Go("connect")
    /\ UNCHANGED <<config, source, destination, table, snapshot, second, plan, before, bounds>>

DryRun == "--dry-run" \in SplitArgs(KnownFlags(Command), Dispatch(config.args).args).present

\* OpenStore and Ping, of the source and then of the destination.
Connect ==
    /\ step = "connect"
    /\ \/ Go(IF DryRun THEN "plan" ELSE IF Command = "cutover" THEN "cutover" ELSE "export")
       \/ \E error \in {"ERR_CONNECT_SOURCE", "ERR_CONNECT_DESTINATION"} : Die(error)
    /\ UNCHANGED <<config, source, destination, table, snapshot, second, plan, before, bounds>>

HasTable(db, t) == t \in NamesIn(db.tables)

\* tableExists: PostgreSQL lists its views among the tables.
TableExists(db, t) ==
    HasTable(db, t) \/ (db.engine = "postgres" /\ t \in NamesIn(db.views))

\* Faulty: the tables that do not exist yet.
DestinationHasTables_Inverted ==
    \A i \in DOMAIN Tables : ~TableExists(destination, Tables[i].name)

DestinationHasTables == \A i \in DOMAIN Tables : TableExists(destination, Tables[i].name)

\* runDryRun: it counts the rows of the source and reports.  A query of either
\* database or the writing of the report may fail.
Plan ==
    /\ step = "plan"
    /\ \/ /\ \A i \in DOMAIN Tables : HasTable(source, Tables[i].name)
          /\ End(0, "") /\ plan' = DestinationHasTables
       \/ Die("ERR_INTERNAL") /\ UNCHANGED plan
    /\ UNCHANGED <<config, source, destination, table, snapshot, second, before, bounds>>

\* Faulty: the export begins anew with each table.
WithTable_Alone(export, db) == [t \in {Tables[table].name} |-> db.rows[t]]

\* An export and the rows it reads of the table at hand.
WithTable(export, db) ==
    [t \in DOMAIN export \cup {Tables[table].name} |->
        IF t = Tables[table].name THEN db.rows[t] ELSE export[t]]

\* exportTable of the source.  The query, a scan or a value may fail.
ExportTable ==
    /\ step = "export"
    /\ table <= Len(Tables)
    /\ \/ /\ HasTable(source, Tables[table].name)
          /\ snapshot' = WithTable(snapshot, source)
          /\ table' = table + 1
          /\ Go("export")
       \/ Die("ERR_SNAPSHOT") /\ UNCHANGED <<snapshot, table>>
    /\ UNCHANGED <<config, source, destination, second, plan, before, bounds>>

Exported ==
    /\ step = "export" /\ table > Len(Tables)
    /\ Go("import")
    /\ UNCHANGED <<config, source, destination, table, snapshot, second, plan, before, bounds>>

\* Faulty: the schema is created in a transaction of its own.
RolledBack_Kept ==
    IF Creatable(destination, BaseSchema(config.schema))
    THEN Created(destination, BaseSchema(config.schema)) ELSE destination

\* The deferred Rollback.
RolledBack == destination

\* CompileDDL and the destination take the schema, and the rows in this order.
ImportSucceeds(lists) ==
    Compiles(config.schema) /\ Importable(destination, config.schema, lists)

\* ImportSnapshot of the snapshot.  A connection may be lost, a value be
\* refused (RowTravel), and the answer of a Commit that was done be an error.
Import ==
    /\ step = "import"
    /\ \E lists \in Orders(snapshot) :
        \/ /\ ImportSucceeds(lists)
           /\ destination' = Imported(destination, config.schema, lists)
           /\ \/ table' = 1 /\ Go("export again")
              \/ Die("ERR_SNAPSHOT") /\ UNCHANGED table
        \/ destination' = RolledBack /\ Die("ERR_SNAPSHOT") /\ UNCHANGED table
    /\ UNCHANGED <<config, source, snapshot, second, plan, before, bounds>>

\* exportTable of the destination, which may fail as well.
ExportCopy ==
    /\ step = "export again"
    /\ table <= Len(Tables)
    /\ \/ /\ second' = WithTable(second, destination)
          /\ table' = table + 1
          /\ Go("export again")
       \/ Die("ERR_SNAPSHOT") /\ UNCHANGED <<second, table>>
    /\ UNCHANGED <<config, source, destination, snapshot, plan, before, bounds>>

ExportedCopy ==
    /\ step = "export again" /\ table > Len(Tables)
    /\ Go("compare")
    /\ UNCHANGED <<config, source, destination, table, snapshot, second, plan, before, bounds>>

\* PostgreSQL reads a NUMERIC or a vector back in its own spelling, which may
\* be another one (Values.Respelled).
MayBeRespelled ==
    /\ destination.engine = "postgres"
    /\ \E t \in ToSet(Tables) : snapshot[t.name] # {}
            /\ \E c \in ToSet(t.columns) : c.type.family \in {"decimal", "vector"}

\* VerifySnapshots, RequireEquivalent and the report.  A digest or the writing
\* of the report may fail.
Compare ==
    /\ step = "compare"
    /\ \/ snapshot = second /\ End(0, "")
       \/ (snapshot # second \/ MayBeRespelled) /\ Die("ERR_VERIFY_DIVERGED")
       \/ Die("ERR_INTERNAL")
    /\ UNCHANGED <<config, source, destination, table, snapshot, second, plan, before, bounds>>

Tool == Start \/ Connect \/ Plan \/ ExportTable \/ Exported \/ Import \/ ExportCopy
            \/ ExportedCopy \/ Compare

\* The process dies; an open transaction is rolled back.
Crash ==
    /\ step \notin {"start", "cutover", "ended"}
    /\ End(1, "crash")
    /\ UNCHANGED <<config, source, destination, table, snapshot, second, plan, before, bounds>>

\* The same command again.
Rerun ==
    /\ step = "ended" /\ runs < MaxRuns
    /\ runs' = runs + 1
    /\ Started
    /\ before' = destination
    /\ UNCHANGED <<config, source, destination, writes, otherWrites>>

Next == AppWrite \/ OtherWrite \/ Tool \/ Crash \/ Rerun

Spec == Init /\ [][Next]_vars

-----------------------------------------------------------------------------
(* What a database holds.                                                  *)

Catalog(db) == [db EXCEPT !.rows = <<>>]

Present(db, st) ==
    CASE st.kind = "domain" -> st.object \in db.domains
      [] st.kind = "table" -> st.object \in db.tables
      [] st.kind = "index" -> st.object \in db.indexes
      [] st.kind = "view" -> st.object \in db.views
      [] st.kind = "function" -> st.object \in db.functions
      [] OTHER -> st.object \in db.triggers

\* Everything the schema declares is in the database.
Has(db, s) == \A st \in ToSet(Statements(db.engine, s)) : Present(db, st)

-----------------------------------------------------------------------------
(* Why the properties hold: an inductive invariant.                        *)

\* What a table holds at any time.
RowSets == {rows \in SUBSET Ids : IsFiniteSet(rows)}

\* Every table has its rows, and a trigger is on a table.
IsDatabase(db) ==
    /\ DOMAIN db = DOMAIN Empty("sqlite")
    /\ db.rows \in [NamesIn(db.tables) -> RowSets]
    /\ \A g \in db.triggers : g.table \in NamesIn(db.tables)

\* The stored metadata is of what is there.
DatabaseOK(db) ==
    IsDatabase(db) /\ (db.managed => IsSchema(db.metadata) /\ Has(db, db.metadata))

\* The names of the first n tables of the schema.
FirstTables(n) == {Tables[i].name : i \in 1..n}

AllTables == FirstTables(Len(Tables))

TypeOK ==
    /\ config \in Configs
    /\ DatabaseOK(source) /\ DatabaseOK(destination)
    /\ step \in Steps
    /\ table \in 1 .. Len(Tables) + 1
    /\ plan \in BOOLEAN
    /\ writes \in 0..MaxWrites /\ otherWrites \in 0..MaxOtherWrites /\ runs \in 1..MaxRuns

\* Only a command that was accepted opens anything.
CommandOK ==
    /\ step \notin {"start", "ended"} =>
           /\ Command \in {"copy", "cutover"}
           /\ Accepted(Command, Dispatch(config.args).args)
    /\ step = "plan" => DryRun
    /\ step # "ended" => exit = 0 /\ code = ""
    /\ plan => step = "ended" /\ DestinationHasTables

\* Until its import the run leaves the catalog of the destination alone;
\* afterwards the tables hold what was read, unless others write them.
RunOK ==
    /\ step \in {"start", "connect", "plan", "export", "import"} =>
           Catalog(destination) = Catalog(before)
    /\ step \in {"start", "connect"} => table = 1 /\ snapshot = <<>> /\ second = <<>>
    /\ step = "export" => snapshot \in [FirstTables(table - 1) -> RowSets] /\ second = <<>>
    /\ step = "import" => snapshot \in [AllTables -> RowSets] /\ second = <<>>
    /\ step \in {"export again", "compare"} =>
           /\ Has(destination, config.schema)
           /\ destination.metadata = config.schema
           /\ snapshot \in [AllTables -> RowSets]
           /\ otherWrites = 0 => \A t \in AllTables : destination.rows[t] = snapshot[t]
    /\ step = "export again" =>
           /\ second \in [FirstTables(table - 1) -> RowSets]
           /\ otherWrites = 0 => \A t \in FirstTables(table - 1) : second[t] = snapshot[t]
    /\ step = "compare" =>
           /\ second \in [AllTables -> RowSets]
           /\ otherWrites = 0 => second = snapshot

-----------------------------------------------------------------------------
(* Properties.                                                             *)

\* The codes that come before the destination is touched.
Refusals == {"ERR_USAGE", "ERR_CONFIG", "ERR_SCHEMA", "ERR_AUDIT_NOT_EXACT",
             "ERR_CONNECT_SOURCE", "ERR_CONNECT_DESTINATION"}

\* The codes that come before the import or after it.
Failures == {"ERR_SNAPSHOT", "ERR_INTERNAL", "crash"}

LeftAlone == Catalog(destination) = Catalog(before)

CopiedThere == Has(destination, config.schema) /\ destination.metadata = config.schema

\* How a run ended tells what became of the destination (README.md and
\* docs/USAGE.md let a caller branch on the code).  A refusal left its catalog
\* as it was; a success or a divergence left all of the schema there; a
\* failure, which copy.go:82-94 reports by one code before and after the import
\* committed, and a crash left the one or the other, never a part of the
\* schema.  A copy diverges only by another writer or where PostgreSQL spells
\* values its own way.
OutcomeIsTold ==
    step = "ended" =>
        /\ exit \in {0, 1, 2} /\ (exit = 0 <=> code = "") /\ (exit = 2 <=> code = "ERR_USAGE")
        /\ code \in Refusals => LeftAlone
        /\ code \in Failures => LeftAlone \/ CopiedThere
        /\ (code = "" /\ Command = "copy") \/ code = "ERR_VERIFY_DIVERGED" => CopiedThere
        /\ code = "ERR_VERIFY_DIVERGED" => otherWrites > 0 \/ MayBeRespelled

UniquelyNamed(objects) == \A a, b \in objects : a.name = b.name => a = b

\* What the engines and the layer see to in a catalog.
CatalogOK(db) ==
    /\ UniquelyNamed(db.domains) /\ UniquelyNamed(db.tables)
    /\ db.managed => Compiles(db.metadata)

\* The source keeps its tables; only the layer declares any at the destination.
CatalogsOK ==
    /\ CatalogOK(source) /\ CatalogOK(destination)
    /\ Catalog(source) = Catalog(Handmade(config.contract.source.engine, config.schema))
    /\ ~destination.managed => Catalog(destination) = Catalog(Empty(destination.engine))

\* The inductive invariant: of the runs of the tool, and of the catalogs.
RunInv == TypeOK /\ CommandOK /\ RunOK /\ OutcomeIsTold

IndInv == RunInv /\ CatalogsOK

\* The schema refers to what it declares before, and to keys; no two of its
\* objects share a name.  Validate asks for none of this.
SelfContained(s) == Creatable(Empty("postgres"), s)

\* A row of the list is not preceded by the row it refers to.
Unpreceded(list) ==
    \E i \in DOMAIN list :
        Above[list[i]] # list[i] /\ \A j \in 1 .. i - 1 : list[j] # Above[list[i]]

\* The rows as they were read break a foreign key: a parent is missing, or
\* comes later in the table that refers to itself.
BreaksForeignKey(lists) ==
    \E t \in ToSet(Tables) : \E n \in ToSet(t.constraints) :
        /\ n.kind = "foreign_key"
        /\ IF n.parent = t.name THEN Unpreceded(lists[t.name])
           ELSE ~(snapshot[t.name] \subseteq snapshot[n.parent])

\* What CompileDDL accepts and every reference of which resolves is created by
\* either engine in the order of its statements, and takes the rows: a copy
\* into an empty destination is refused only when the rows it read, in the
\* order it read them, break a foreign key (ddl.go:24-65, store.go:166-198).
ValidSchemaImports ==
    /\ step = "import" /\ before = Empty(before.engine)
    /\ Compiles(config.schema) /\ SelfContained(config.schema)
    => \A lists \in Orders(snapshot) : ImportSucceeds(lists) \/ BreaksForeignKey(lists)

\* The stored schema is what InspectSchema answers as exact, without a look
\* at the catalog: whatever failed, died or was run again, all of it is there
\* (inspect.go:30-52, store.go:73-92, 194-198).
MetadataIsReal ==
    \A db \in {source, destination} : db.managed => Has(db, db.metadata)

\* What the engine enforces of a table: its rules, wherever they are declared.
NotNullColumns(db, t) ==
    {c.name : c \in {d \in ToSet(t.columns) :
        \/ d.notNull \/ InKey(t, d)
        \/ d.domain # "" /\ Named(db.domains, d.domain).notNull}}

DefaultOf(db, c) ==
    IF c.domain = "" THEN c.default ELSE Named(db.domains, c.domain).default

About(check, column) == IF check[2] = "VALUE" THEN <<check[1], column>> ELSE check

ChecksOf(db, t) ==
    {n.expression : n \in OfKind(t, "check")}
    \cup {c.check : c \in ToSet(t.columns)}
    \cup {About(Named(db.domains, c.domain).check, c.name) :
            c \in {d \in ToSet(t.columns) :
                    d.domain # "" /\ Named(db.domains, d.domain).check # None}}

Enforced(db, t) ==
    [names |-> Names(t.columns),
     notNull |-> NotNullColumns(db, t),
     values |-> {<<c.name, DefaultOf(db, c), c.generated>> : c \in ToSet(t.columns)},
     checks |-> ChecksOf(db, t) \ {None},
     keys |-> {<<n.kind, ToSet(n.columns)>> :
                n \in OfKind(t, "primary_key") \cup OfKind(t, "unique")},
     references |-> {[n EXCEPT !.expression = None] : n \in OfKind(t, "foreign_key")}]

\* What the schema declares of a column, its domain included.
Asked(c, domains) ==
    IF c.domain = ""
    THEN [notNull |-> ~c.nullable, default |-> c.default, generated |-> c.generated,
          check |-> None]
    ELSE LET d == DomainOf(c, domains)
         IN  [notNull |-> d.notNull, default |-> d.default, generated |-> None,
              check |-> IF d.check = None THEN None ELSE About(d.check, c.name)]

\* And of a table.
Rules(t, domains) ==
    LET keyed == [t EXCEPT !.constraints = ToSet(@)]
        columns == ToSet(t.columns)
    IN  [names |-> Names(t.columns),
         notNull |-> {c.name : c \in {d \in columns : Asked(d, domains).notNull \/ InKey(keyed, d)}},
         values |-> {<<c.name, Asked(c, domains).default, Asked(c, domains).generated>> :
                        c \in columns},
         checks |-> ({n.expression : n \in OfKind(keyed, "check")}
                        \cup {Asked(c, domains).check : c \in columns}) \ {None},
         keys |-> {<<n.kind, ToSet(n.columns)>> :
                    n \in OfKind(keyed, "primary_key") \cup OfKind(keyed, "unique")},
         references |-> {[n EXCEPT !.expression = None,
                                   !.onUpdate = IF @ = "" THEN "no_action" ELSE @,
                                   !.onDelete = IF @ = "" THEN "no_action" ELSE @] :
                            n \in OfKind(keyed, "foreign_key")}]

\* After a copy both engines enforce what the schema declares: they refuse the
\* same rows, fill the same columns and act alike on the rows that refer to a
\* row.  A rule PostgreSQL keeps in a domain is one of the table on SQLite
\* (ddl.go:146-192).  Excluded: the types, whose values are the subject of
\* RowTravel, with SQLite's INTEGER PRIMARY KEY, which numbers the rows that
\* come without one; and a primary key over a nullable column, which only
\* SQLite lets be NULL.
EnginesEnforceAlike ==
    destination.managed /\ destination.metadata = config.schema /\ Has(source, config.schema) =>
        \A i \in DOMAIN Tables : \A db \in {source, destination} :
            Enforced(db, Named(db.tables, Tables[i].name))
                = Rules(Tables[i], config.schema.domains)

\* What of a declaration an inspection keeps: of the arguments of a type only
\* the dimension of a vector, and no order of the columns of a primary key on
\* SQLite.
Kept(type) == <<type[1], IF type[1] = "vector" THEN type[2] ELSE <<>>>>

KeptKey(engine, n) ==
    <<n.kind, IF engine = "sqlite" /\ n.kind = "primary_key" THEN ToSet(n.columns) ELSE n.columns>>

Declared(db, t) ==
    <<Enforced(db, t), [i \in DOMAIN t.columns |-> Kept(t.columns[i].type)],
      {KeptKey(db.engine, n) : n \in OfKind(t, "primary_key") \cup OfKind(t, "unique")}>>

\* The table that the engine makes of the table of an inspected schema.
MadeAgain(db, t) == CompiledTable(db.engine, t, InspectSchema(db).schema.domains)

\* An inspection that calls itself exact gives a schema from which the same
\* engine declares the same tables again: their rules, their keys, the names of
\* their types and the dimensions of their vectors, however the statements that
\* made them were written.  Read from the catalog it has left out no table,
\* index, view or trigger (inspect.go:54-244, 398-428).  It need not keep the
\* precision of a NUMERIC, which postgresType does not read.
InspectionIsFaithful ==
    \A db \in {source, destination} :
        LET found == InspectSchema(db).schema
        IN  InspectSchema(db).exact =>
                /\ Compiles(found)
                /\ \A t \in ToSet(found.tables) :
                    Declared(db, MadeAgain(db, t)) = Declared(db, Named(db.tables, t.name))
                /\ ~db.managed =>
                    /\ NamesIn(ToSet(found.tables)) = NamesIn(db.tables)
                    /\ ToSet(found.indexes) = db.indexes
                    /\ ToSet(found.views) = db.views /\ ToSet(found.triggers) = db.triggers

\* A dry run that finds the tables at the destination foretells that the
\* migration cannot import there (cutover.go:230-240): nothing in the system
\* drops a table, so the answer stays true.
DryRunForetells ==
    step = "ended" /\ plan /\ Tables # <<>> =>
        \A lists \in Orders([t \in ToSet(Names(Tables)) |-> source.rows[t]]) :
            ~Importable(destination, config.schema, lists)

=============================================================================
