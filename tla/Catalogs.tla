------------------------------- MODULE Catalogs -------------------------------
(***************************************************************************)
(* A database as its catalog shows it: what the engines do with the        *)
(* statements of CompileDDL, what the layer stores about the schema        *)
(* (compat/store.go) and what InspectSchema reads back                     *)
(* (compat/inspect.go).                                                    *)
(*                                                                         *)
(* A row is its id.  A foreign key refers from a row to the row of the     *)
(* same id in the parent table, or to another row of its own table; a      *)
(* trigger inserts the row of that id into other tables.                   *)
(***************************************************************************)
EXTENDS Schemas

CONSTANTS
    Above,          \* the row of its own table a row refers to, itself for none
    Unreadable      \* what an engine's catalog writes outside the grammar of the
                    \* layer: pairs of an engine and what an expression computes,
                    \* or the name of a view or a trigger

NoSchema == [domains |-> <<>>, tables |-> <<>>, indexes |-> <<>>,
             views |-> <<>>, triggers |-> <<>>, routines |-> <<>>]

Empty(engine) ==
    [engine |-> engine, domains |-> {}, tables |-> {}, indexes |-> {}, views |-> {},
     functions |-> {}, triggers |-> {}, managed |-> FALSE, metadata |-> NoSchema,
     rows |-> <<>>]

NamesIn(objects) == {o.name : o \in objects}

\* Tables, indexes and views share one name space on both engines.
Relations(db) == NamesIn(db.tables) \cup NamesIn(db.indexes) \cup NamesIn(db.views)

Named(objects, name) == CHOOSE o \in objects : o.name = name

ColumnNames(t) == ToSet(Names(t.columns))

OfKind(t, kind) == {n \in t.constraints : n.kind = kind}

Parents(t) == {n.parent : n \in OfKind(t, "foreign_key")}

-----------------------------------------------------------------------------
(* The engines: which statements they accept and what those do.            *)

KeysOf(t) == {n.columns : n \in OfKind(t, "primary_key") \cup OfKind(t, "unique")}

\* A table both engines can create by itself.
SoundTable(t) ==
    /\ Distinct(Names(t.columns))
    /\ \A n \in t.constraints : ToSet(n.columns) \subseteq ColumnNames(t)
    /\ Cardinality(OfKind(t, "primary_key")) <= 1
    /\ \A c \in ToSet(t.columns) : c.generated # None =>
        c.default = None /\ \A n \in OfKind(t, "primary_key") : ~Contains(n.columns, c.name)

\* PostgreSQL looks up what the table refers to; SQLite does not.
Referable(db, t) ==
    /\ {c.domain : c \in ToSet(t.columns)} \subseteq NamesIn(db.domains) \cup {""}
    /\ \A n \in OfKind(t, "foreign_key") : \E p \in db.tables \cup {t} :
        p.name = n.parent /\ n.parentColumns \in KeysOf(p)

Accepts(db, st) ==
    LET o == st.object
        strict == db.engine = "postgres"
    IN  CASE st.kind = "domain" ->
                o.name \notin NamesIn(db.domains \cup db.tables \cup db.views)
          [] st.kind = "table" ->
                /\ o.name \notin Relations(db) /\ SoundTable(o)
                /\ strict => o.name \notin NamesIn(db.domains) /\ Referable(db, o)
          [] st.kind = "index" ->
                /\ o.name \notin Relations(db)
                /\ \E t \in db.tables : t.name = o.table
                    /\ {k.column : k \in ToSet(o.columns)} \subseteq ColumnNames(t) \cup {""}
          [] st.kind = "view" ->
                /\ o.name \notin Relations(db)
                /\ strict => o.name \notin NamesIn(db.domains)
                                /\ o.reads \subseteq NamesIn(db.tables \cup db.views)
          [] st.kind = "function" -> o.name \notin NamesIn(db.functions)
          [] OTHER ->
                /\ \E t \in db.tables : t.name = o.table
                /\ \A g \in db.triggers : g.name = o.name => strict /\ g.table # o.table

Made(statements, kind) == {st.object : st \in {o \in ToSet(statements) : o.kind = kind}}

\* The database with what the statements make.
Executed(db, statements) ==
    [db EXCEPT !.domains = @ \cup Made(statements, "domain"),
               !.tables = @ \cup Made(statements, "table"),
               !.indexes = @ \cup Made(statements, "index"),
               !.views = @ \cup Made(statements, "view"),
               !.functions = @ \cup Made(statements, "function"),
               !.triggers = @ \cup Made(statements, "trigger"),
               !.rows = [t \in DOMAIN @ \cup NamesIn(Made(statements, "table")) |->
                            IF t \in DOMAIN @ THEN @[t] ELSE {}]]

\* Each statement is accepted after those before it.
AcceptsAll(db, statements) ==
    \A i \in DOMAIN statements :
        Accepts(Executed(db, SubSeq(statements, 1, i - 1)), statements[i])

\* The tables an insert into a table reaches by the triggers on it.
Reached(db, t) ==
    {t} \cup UNION {ToSet(g.actions) : g \in {h \in db.triggers :
                                h.table = t /\ h.event = "insert"}}

\* The row a row of the table u refers to in the table p.
ReferredTo(u, p, id) == IF p = u THEN Above[id] ELSE id

\* The row is new wherever it goes and refers to itself or to rows that are
\* there: a foreign key is checked with each row.
CanInsert(db, t, id) ==
    \A u \in Reached(db, t) :
        /\ u \in NamesIn(db.tables) /\ id \notin db.rows[u]
        /\ \A p \in Parents(Named(db.tables, u)) :
            /\ p \in NamesIn(db.tables)
            /\ ReferredTo(u, p, id) \in db.rows[p] \/ (p = u /\ Above[id] = id)

\* Inserts are pairs of a table and an id.
Inserted(db, inserts) ==
    [db EXCEPT !.rows = [u \in DOMAIN @ |->
        @[u] \cup {insert[2] : insert \in {i \in ToSet(inserts) : u \in Reached(db, i[1])}}]]

CanInsertAll(db, inserts) ==
    \A i \in DOMAIN inserts :
        CanInsert(Inserted(db, SubSeq(inserts, 1, i - 1)), inserts[i][1], inserts[i][2])

-----------------------------------------------------------------------------
(* ApplySchema and ImportSnapshot.                                         *)

\* writeSchemaMetadata
WriteMetadata(db, s) == [db EXCEPT !.managed = TRUE, !.metadata = s]

Creatable(db, s) == AcceptsAll(db, Statements(db.engine, s))

Created(db, s) == Executed(db, Statements(db.engine, s))

\* ApplySchema: all statements and the metadata, or nothing.
ApplySchema(db, s) ==
    IF Compiles(s) /\ Creatable(db, s) THEN WriteMetadata(Created(db, s), s) ELSE db

BaseSchema(s) == [s EXCEPT !.triggers = <<>>]

TriggerSchema(s) == [NoSchema EXCEPT !.triggers = s.triggers]

\* The orders in which exportTable may have read the rows of the tables: its
\* query asks for none.
Orders(rows) ==
    {lists \in [DOMAIN rows -> UNION {SetToSeqs(rows[t]) : t \in DOMAIN rows}] :
        \A t \in DOMAIN rows : lists[t] \in SetToSeqs(rows[t])}

\* insertRow of every row, in the order of the tables of the schema.
ImportRows(s, lists) ==
    FlattenSeq([i \in DOMAIN s.tables |->
        LET ids == lists[s.tables[i].name]
        IN  [k \in DOMAIN ids |-> <<s.tables[i].name, ids[k]>>]])

WithRows(db, s, lists) == Inserted(Created(db, BaseSchema(s)), ImportRows(s, lists))

\* Faulty: the triggers are there before the rows.
Importable_TriggersFirst(db, s, lists) ==
    Creatable(db, s) /\ CanInsertAll(Created(db, s), ImportRows(s, lists))

\* The transaction of ImportSnapshot: the base schema, the rows, the triggers.
Importable(db, s, lists) ==
    /\ Creatable(db, BaseSchema(s))
    /\ CanInsertAll(Created(db, BaseSchema(s)), ImportRows(s, lists))
    /\ Creatable(WithRows(db, s, lists), TriggerSchema(s))

\* Faulty: the triggers are left out.
Imported_TriggersForgotten(db, s, lists) == WriteMetadata(WithRows(db, s, lists), s)

Imported(db, s, lists) ==
    WriteMetadata(Created(WithRows(db, s, lists), TriggerSchema(s)), s)

-----------------------------------------------------------------------------
(* InspectSchema.                                                          *)

\* The parser of the layer takes the text the catalog shows.
Readable(engine, what) == <<engine, what>> \notin Unreadable

ReadableExpression(engine, e) == e # None => Readable(engine, e[1])

\* What is read of an expression: nothing, where the parser refuses it.
Read(engine, e) == IF ReadableExpression(engine, e) THEN e ELSE None

\* The canonical type of a declared one; only a vector keeps its arguments.
InspectedType(engine, type) ==
    LET family == FamilyOf(engine, type[1])
    IN  [family |-> family, arguments |-> IF family = "vector" THEN type[2] ELSE <<>>]

InKey(t, c) == \E n \in OfKind(t, "primary_key") : Contains(n.columns, c.name)

\* inspectSQLiteTable, inspectPostgresColumns.  A key column reads as NOT NULL.
InspectedColumn(db, t, c) ==
    [name |-> c.name, type |-> InspectedType(db.engine, c.type), domain |-> "",
     nullable |-> ~c.notNull /\ ~InKey(t, c),
     default |-> Read(db.engine, c.default), generated |-> Read(db.engine, c.generated),
     stored |-> Read(db.engine, c.generated) # None]

\* The columns of a key in the order of the table (SQLite) or of the key.
InspectedKey(db, t, n) ==
    IF db.engine = "sqlite" /\ n.kind = "primary_key"
    THEN FlattenSeq([i \in DOMAIN t.columns |->
            IF Contains(n.columns, t.columns[i].name) THEN <<t.columns[i].name>> ELSE <<>>])
    ELSE n.columns

\* sqliteReferentialAction, postgresReferentialAction
InspectedAction(action) == IF action = "no_action" THEN "" ELSE action

InspectedConstraint(db, t, n) ==
    [n EXCEPT !.columns = InspectedKey(db, t, n),
              !.onUpdate = InspectedAction(@), !.onDelete = InspectedAction(@)]

\* extractCheckExpressions finds the CHECKs of columns too.
ColumnChecks(t) ==
    {[kind |-> "check", columns |-> <<>>, parent |-> "", parentColumns |-> <<>>,
      onUpdate |-> "", onDelete |-> "", expression |-> c.check] :
        c \in {d \in ToSet(t.columns) : d.check # None}}

ReadableRule(engine, n) == n.kind = "check" => ReadableExpression(engine, n.expression)

\* The constraints read of a table: a CHECK that is not readable is left out.
ReadRules(db, t) ==
    {n \in {InspectedConstraint(db, t, m) : m \in t.constraints} \cup ColumnChecks(t) :
        ReadableRule(db.engine, n)}

InspectedTable(db, t) ==
    [name |-> t.name,
     columns |-> [i \in DOMAIN t.columns |-> InspectedColumn(db, t, t.columns[i])],
     constraints |-> SetToSeq(ReadRules(db, t))]

ReadableIndex(engine, index) ==
    \A key \in ToSet(index.columns) : ReadableExpression(engine, key.expression)

\* A column is resolved when its domain is none, its vector has a dimension and
\* its expressions are read.
ResolvedColumn(engine, c) ==
    /\ c.domain = ""
    /\ FamilyOf(engine, c.type[1]) = "vector" => c.type[2] # <<>>
    /\ ReadableExpression(engine, c.default) /\ ReadableExpression(engine, c.generated)

\* Faulty: a CHECK that is not read is not reported.
ResolvedTable_ChecksDropped(engine, t) ==
    \A c \in ToSet(t.columns) : ResolvedColumn(engine, c)

ResolvedTable(engine, t) ==
    /\ \A c \in ToSet(t.columns) : ResolvedColumn(engine, c)
    /\ \A n \in t.constraints \cup ColumnChecks(t) : ReadableRule(engine, n)

\* The catalog of a database without metadata.  What is not resolved is left
\* out and reported, and the inspection is then not exact; no other engine is
\* supported.
InspectCatalog(db) ==
    LET engine == db.engine
        ReadOnes(objects) == {o \in objects : Readable(engine, o.name)}
    IN  [schema |-> [NoSchema EXCEPT
                        !.tables = SetToSeq({InspectedTable(db, t) : t \in db.tables}),
                        !.indexes = SetToSeq({i \in db.indexes : ReadableIndex(engine, i)}),
                        !.views = SetToSeq(ReadOnes(db.views)),
                        !.triggers = SetToSeq(ReadOnes(db.triggers))],
         exact |-> /\ engine \in {"sqlite", "postgres"}
                   /\ \A t \in db.tables : ResolvedTable(engine, t)
                   /\ \A i \in db.indexes : ReadableIndex(engine, i)
                   /\ \A o \in db.views \cup db.triggers : Readable(engine, o.name)]

InspectSchema(db) ==
    IF db.managed THEN [schema |-> db.metadata, exact |-> TRUE] ELSE InspectCatalog(db)

==============================================================================
