----------------------------- MODULE SchemaProofs -----------------------------
(***************************************************************************)
(* What becomes of a schema on the two engines, for every schema: the      *)
(* names a catalog tells apart, the rules the engines enforce, what an     *)
(* inspection reads back, what an import needs, and what becomes of a      *)
(* value of a column.                                                      *)
(***************************************************************************)
EXTENDS MigrationProofs, Values

-----------------------------------------------------------------------------
(* Catalogs.                                                               *)

\* The objects of a list of statements were not there and have names of their
\* own.
LEMMA AcceptedNames ==
    ASSUME NEW db, NEW statements, NEW S, Lists(statements, S),
           DOMAIN db = DOMAIN Empty("sqlite"), AcceptsAll(db, statements),
           UniquelyNamed(db.domains), UniquelyNamed(db.tables)
    PROVE  LET d == Executed(db, statements)
           IN  UniquelyNamed(d.domains) /\ UniquelyNamed(d.tables)
<1> DEFINE Before(i) == Executed(db, SubSeq(statements, 1, i - 1))
           d == Executed(db, statements)
<1>1. /\ DOMAIN statements = 1..Len(statements) /\ Len(statements) \in Nat
      /\ \A i \in DOMAIN statements : Accepts(Before(i), statements[i])
  BY DEF Lists, AcceptsAll
<1>2. /\ d.domains = db.domains \cup Made(statements, "domain")
      /\ d.tables = db.tables \cup Made(statements, "table")
  BY Fields DEF Executed
<1>3. \A i \in DOMAIN statements :
        /\ Before(i).domains = db.domains \cup Made(SubSeq(statements, 1, i - 1), "domain")
        /\ Before(i).tables = db.tables \cup Made(SubSeq(statements, 1, i - 1), "table")
  BY Fields DEF Executed
<1>4. \A i \in DOMAIN statements : \A kind : \A j \in 1 .. i - 1 :
        statements[j].kind = kind =>
            statements[j].object \in Made(SubSeq(statements, 1, i - 1), kind)
  <2>1. ASSUME NEW i \in DOMAIN statements, NEW kind, NEW j \in 1 .. i - 1,
               statements[j].kind = kind
        PROVE  statements[j].object \in Made(SubSeq(statements, 1, i - 1), kind)
    <3> DEFINE prefix == SubSeq(statements, 1, i - 1)
    <3>1. Len(prefix) = i - 1 /\ prefix[j] = statements[j] /\ DOMAIN prefix = 1 .. i - 1
      BY <1>1 DEF Lists
    <3> HIDE DEF prefix
    <3>2. statements[j] \in ToSet(prefix)
      BY <3>1 DEF ToSet
    <3>3. QED
      BY <2>1, <3>2 DEF Made, prefix
  <2>2. QED
    BY <2>1
<1>5. \A kind : \A o \in Made(statements, kind) :
        \E i \in DOMAIN statements : statements[i].kind = kind /\ statements[i].object = o
  BY DEF Made, ToSet
<1>6. \A i \in DOMAIN statements :
        /\ statements[i].kind = "domain" =>
                statements[i].object.name \notin NamesIn(Before(i).domains)
        /\ statements[i].kind = "table" =>
                statements[i].object.name \notin NamesIn(Before(i).tables)
  BY <1>1 DEF Accepts, NamesIn, Relations
<1> HIDE DEF Before, d
<1>7. UniquelyNamed(d.domains)
  <2>1. ASSUME NEW a \in d.domains, NEW b \in Made(statements, "domain"), a.name = b.name
        PROVE  a = b
    <3>1. PICK j \in DOMAIN statements :
            statements[j].kind = "domain" /\ statements[j].object = b
      BY <1>5
    <3>2. CASE a \in db.domains
      BY <1>3, <1>6, <2>1, <3>1, <3>2 DEF NamesIn
    <3>3. CASE a \in Made(statements, "domain")
      <4>1. PICK i \in DOMAIN statements :
              statements[i].kind = "domain" /\ statements[i].object = a
        BY <1>5, <3>3
      <4>2. ~(i \in 1 .. j - 1) /\ ~(j \in 1 .. i - 1)
        BY <1>3, <1>4, <1>6, <2>1, <3>1, <4>1 DEF NamesIn
      <4>3. i = j
        BY <1>1, <4>2
      <4>4. QED
        BY <3>1, <4>1, <4>3
    <3>4. QED
      BY <1>2, <3>2, <3>3
  <2>2. QED
    BY <1>2, <2>1 DEF UniquelyNamed
<1>8. UniquelyNamed(d.tables)
  <2>1. ASSUME NEW a \in d.tables, NEW b \in Made(statements, "table"), a.name = b.name
        PROVE  a = b
    <3>1. PICK j \in DOMAIN statements :
            statements[j].kind = "table" /\ statements[j].object = b
      BY <1>5
    <3>2. CASE a \in db.tables
      BY <1>3, <1>6, <2>1, <3>1, <3>2 DEF NamesIn
    <3>3. CASE a \in Made(statements, "table")
      <4>1. PICK i \in DOMAIN statements :
              statements[i].kind = "table" /\ statements[i].object = a
        BY <1>5, <3>3
      <4>2. ~(i \in 1 .. j - 1) /\ ~(j \in 1 .. i - 1)
        BY <1>3, <1>4, <1>6, <2>1, <3>1, <4>1 DEF NamesIn
      <4>3. i = j
        BY <1>1, <4>2
      <4>4. QED
        BY <3>1, <4>1, <4>3
    <3>4. QED
      BY <1>2, <3>2, <3>3
  <2>2. QED
    BY <1>2, <2>1 DEF UniquelyNamed
<1>9. QED
  BY <1>7, <1>8 DEF d

LEMMA CreatedNames ==
    ASSUME NEW db, NEW s, IsDatabase(db), IsSchema(s), Creatable(db, s),
           UniquelyNamed(db.domains), UniquelyNamed(db.tables)
    PROVE  UniquelyNamed(Created(db, s).domains) /\ UniquelyNamed(Created(db, s).tables)
<1> DEFINE statements == Statements(db.engine, s)
           S == StatementsOf(db.engine, s)
<1>1. Lists(statements, S) /\ AcceptsAll(db, statements) /\ DOMAIN db = DOMAIN Empty("sqlite")
  BY StatementElements DEF Creatable, IsDatabase
<1> HIDE DEF statements, S
<1>2. /\ UniquelyNamed(Executed(db, statements).domains)
      /\ UniquelyNamed(Executed(db, statements).tables)
  BY <1>1, AcceptedNames
<1>3. QED
  BY <1>2 DEF Created, statements

LEMMA SameCatalogOK ==
    ASSUME NEW db, NEW d, DOMAIN db = DOMAIN Empty("sqlite"), DOMAIN d = DOMAIN Empty("sqlite"),
           Catalog(db) = Catalog(d), CatalogOK(db)
    PROVE  CatalogOK(d)
BY CatalogFields DEF CatalogOK

LEMMA EmptyCatalog ==
    ASSUME NEW engine
    PROVE  /\ CatalogOK(Empty(engine)) /\ IsDatabase(Empty(engine))
           /\ Empty(engine).engine = engine /\ ~Empty(engine).managed
<1>1. IsDatabase(Empty(engine))
  <2>1. IsSchema(NoSchema)
    <3>1. <<>> \in Seq(ToSet(<<>>)) /\ ToSet(<<>>) = {}
      BY DEF ToSet
    <3>2. /\ DOMAIN NoSchema = {"domains", "tables", "indexes", "views", "triggers", "routines"}
          /\ \A part \in DOMAIN NoSchema : NoSchema[part] = <<>>
          /\ NoSchema.tables = <<>>
      BY DEF NoSchema
    <3>3. QED
      BY <3>1, <3>2 DEF IsSchema
  <2>2. QED
    BY <2>1, AppliedDatabase DEF DatabaseOK
<1>2. QED
  BY <1>1 DEF CatalogOK, Empty, UniquelyNamed

\* What ApplySchema and the statements run by hand make of a new database.
LEMMA NewCatalogs ==
    ASSUME NEW engine, NEW s, IsSchema(s)
    PROVE  LET d == ApplySchema(Empty(engine), s)
               h == Handmade(engine, s)
           IN  /\ CatalogOK(d) /\ (~d.managed => d = Empty(engine))
               /\ CatalogOK(h) /\ h.domains = d.domains /\ h.tables = d.tables
<1> DEFINE e == Empty(engine)
           d == ApplySchema(Empty(engine), s)
           h == Handmade(engine, s)
<1>1. CatalogOK(e) /\ IsDatabase(e)
  BY EmptyCatalog
<1>2. CASE Compiles(s) /\ Creatable(e, s)
  <2>1. /\ UniquelyNamed(Created(e, s).domains) /\ UniquelyNamed(Created(e, s).tables)
        /\ IsDatabase(Created(e, s))
    <3> HIDE DEF e
    <3>1. QED
      BY <1>1, <1>2, CreatedNames, CreatedDatabase DEF CatalogOK
  <2> DEFINE c == Created(e, s)
  <2>2. d = WriteMetadata(c, s)
    BY <1>2 DEF ApplySchema
  <2>3. h = [d EXCEPT !.managed = FALSE, !.metadata = NoSchema]
    BY DEF Handmade
  <2> HIDE DEF c, d, h, e
  <2>4. /\ d.domains = c.domains /\ d.tables = c.tables /\ d.managed = TRUE /\ d.metadata = s
        /\ DOMAIN d = DOMAIN Empty("sqlite")
    BY <2>1, <2>2, Fields DEF WriteMetadata, c, IsDatabase
  <2>5. h.domains = d.domains /\ h.tables = d.tables /\ h.managed = FALSE
    BY <2>3, <2>4, Fields
  <2>6. CatalogOK(d) /\ CatalogOK(h)
    BY <1>2, <2>1, <2>4, <2>5 DEF CatalogOK, c
  <2>7. QED
    BY <2>4, <2>5, <2>6 DEF d, h
<1>3. CASE ~(Compiles(s) /\ Creatable(e, s))
  <2>1. d = e
    BY <1>3 DEF ApplySchema
  <2>2. h = [d EXCEPT !.managed = FALSE, !.metadata = NoSchema]
    BY DEF Handmade
  <2> HIDE DEF d, h, e
  <2>3. h.domains = d.domains /\ h.tables = d.tables /\ h.managed = FALSE
    BY <1>1, <2>1, <2>2, Fields DEF IsDatabase
  <2>4. CatalogOK(h)
    BY <1>1, <2>1, <2>3 DEF CatalogOK
  <2>5. QED
    BY <1>1, <2>1, <2>3, <2>4 DEF d, h, e
<1>4. QED
  BY <1>2, <1>3

LEMMA ImportedCatalog ==
    ASSUME NEW db, NEW s, NEW rows, NEW lists, IsDatabase(db), IsSchema(s),
           Importable(db, s, lists), Ordered(s, rows, lists), Compiles(s), CatalogOK(db)
    PROVE  CatalogOK(Imported(db, s, lists)) /\ Imported(db, s, lists).managed
<1> DEFINE b == BaseSchema(s)
           g == TriggerSchema(s)
           c == Created(db, b)
           w == WithRows(db, s, lists)
           x == Created(w, g)
           d == WriteMetadata(x, s)
<1>1. IsSchema(b) /\ IsSchema(g) /\ Creatable(db, b) /\ Creatable(w, g)
  BY SchemaSplits DEF Importable
<1>2. IsDatabase(w) /\ Catalog(w) = Catalog(c)
  BY <1>1, WithRowsDatabase
<1> HIDE DEF b, g, w
<1>3. IsDatabase(c) /\ UniquelyNamed(c.domains) /\ UniquelyNamed(c.tables)
  BY <1>1, CreatedDatabase, CreatedNames DEF CatalogOK
<1> HIDE DEF c
<1>4. UniquelyNamed(w.domains) /\ UniquelyNamed(w.tables)
  <2>1. DOMAIN w = DOMAIN Empty("sqlite") /\ DOMAIN c = DOMAIN Empty("sqlite")
    BY <1>2, <1>3 DEF IsDatabase
  <2>2. w.domains = c.domains /\ w.tables = c.tables
    BY <1>2, <2>1, CatalogFields
  <2>3. QED
    BY <1>3, <2>2
<1>5. IsDatabase(x) /\ UniquelyNamed(x.domains) /\ UniquelyNamed(x.tables)
  BY <1>1, <1>2, <1>4, CreatedDatabase, CreatedNames
<1> HIDE DEF x
<1>6. d.domains = x.domains /\ d.tables = x.tables /\ d.metadata = s /\ d.managed = TRUE
  BY <1>5, Fields DEF WriteMetadata, IsDatabase
<1>7. Imported(db, s, lists) = d
  BY DEF Imported, d, x, w, g
<1> HIDE DEF d
<1>8. CatalogOK(d) /\ d.managed
  BY <1>5, <1>6 DEF CatalogOK
<1>9. QED
  BY <1>7, <1>8

-----------------------------------------------------------------------------
(* The catalogs of a migration.                                            *)

LEMMA CatalogsInitial == Init => CatalogsOK
<1> SUFFICES ASSUME Init PROVE CatalogsOK
  OBVIOUS
<1> DEFINE from == config.contract.source.engine
           to == config.contract.destination.engine
           h == Handmade(from, config.schema)
<1>1. IsSchema(config.schema) /\ source = h
  BY ConfigSchema DEF Init
<1>2. CatalogOK(h)
  <2> DEFINE s == config.schema
  <2>1. IsSchema(s)
    BY <1>1
  <2> HIDE DEF s, from
  <2>2. CatalogOK(Handmade(from, s))
    BY <2>1, NewCatalogs
  <2>3. QED
    BY <2>2 DEF s
<1>3. CatalogOK(destination) /\ (~destination.managed => destination = Empty(to))
      /\ destination.engine = to
  <2>1. CASE destination = Empty(to)
    BY <2>1, EmptyCatalog
  <2>2. CASE destination # Empty(to)
    <3>1. PICK s \in Earlier : destination = ApplySchema(Empty(to), s)
      BY <2>2 DEF Init
    <3>2. IsSchema(s)
      BY MigrationAssumption
    <3>3. CatalogOK(destination) /\ (~destination.managed => destination = Empty(to))
      BY <3>1, <3>2, NewCatalogs
    <3>4. destination.engine = to
      <4>1. IsDatabase(Empty(to)) /\ Empty(to).engine = to
        BY EmptyCatalog
      <4> DEFINE e == Empty(to)
      <4> HIDE DEF e
      <4>2. ApplySchema(e, s).engine = e.engine
        BY <4>1, Fields DEF ApplySchema, WriteMetadata, Created, Executed, IsDatabase, e
      <4>3. QED
        BY <3>1, <4>1, <4>2 DEF e
    <3>5. QED
      BY <3>3, <3>4
  <2>3. QED
    BY <2>1, <2>2
<1>4. QED
  BY <1>1, <1>2, <1>3 DEF CatalogsOK

\* Only an import declares anything.
LEMMA CatalogSteps ==
    [Next]_vars =>
        /\ config' = config
        /\ source' = source \/ source' \in Written(source)
        /\ \/ destination' = destination
           \/ destination' \in Written(destination)
           \/ /\ step = "import"
              /\ \E lists \in Orders(snapshot) :
                    /\ ImportSucceeds(lists)
                    /\ destination' = Imported(destination, config.schema, lists)
BY DEF Next, Tool, AppWrite, OtherWrite, Start, Connect, Plan, ExportTable, Exported, Import,
       RolledBack, ExportCopy, ExportedCopy, Compare, Crash, Rerun, vars

\* Whoever writes and whatever is imported, names stay unique and what is
\* managed compiles.
LEMMA CatalogsKeep == RunInv /\ CatalogsOK /\ [Next]_vars => CatalogsOK'
<1> SUFFICES ASSUME RunInv, CatalogsOK, [Next]_vars PROVE CatalogsOK'
  OBVIOUS
<1>1. /\ config' = config
      /\ source' = source \/ source' \in Written(source)
      /\ \/ destination' = destination
         \/ destination' \in Written(destination)
         \/ /\ step = "import"
            /\ \E lists \in Orders(snapshot) :
                  /\ ImportSucceeds(lists)
                  /\ destination' = Imported(destination, config.schema, lists)
  BY CatalogSteps
<1>2. DatabaseOK(source) /\ DatabaseOK(destination) /\ config \in Configs
  BY DEF RunInv, TypeOK
<1>3. DOMAIN source' = DOMAIN Empty("sqlite") /\ Catalog(source') = Catalog(source)
  BY <1>1, <1>2, WrittenDatabase DEF DatabaseOK, IsDatabase
<1>4. CatalogOK(source')
  <2>1. CatalogOK(source) /\ DOMAIN source = DOMAIN Empty("sqlite")
    BY <1>2 DEF CatalogsOK, DatabaseOK, IsDatabase
  <2>2. QED
    BY <1>3, <2>1, SameCatalogOK
<1>5. CatalogOK(destination')
      /\ (~destination'.managed => Catalog(destination') = Catalog(Empty(destination'.engine)))
  <2>1. CASE destination' = destination \/ destination' \in Written(destination)
    <3>1. DOMAIN destination' = DOMAIN Empty("sqlite") /\ DOMAIN destination = DOMAIN Empty("sqlite")
          /\ Catalog(destination') = Catalog(destination)
      BY <1>2, <2>1, WrittenDatabase DEF DatabaseOK, IsDatabase
    <3>2. CatalogOK(destination')
      BY <3>1, SameCatalogOK DEF CatalogsOK
    <3>3. destination'.managed = destination.managed /\ destination'.engine = destination.engine
      BY <3>1, CatalogFields
    <3>4. QED
      BY <3>1, <3>2, <3>3 DEF CatalogsOK
  <2>2. ASSUME step = "import", NEW lists \in Orders(snapshot), ImportSucceeds(lists),
               destination' = Imported(destination, config.schema, lists)
        PROVE  CatalogOK(destination') /\ destination'.managed
    <3> DEFINE s == config.schema
    <3>1. IsSchema(s) /\ Tables = s.tables /\ IsDatabase(destination)
      BY <1>2, ConfigSchema DEF Tables, DatabaseOK, IsDatabase
    <3>2. \A t \in ToSet(s.tables) :
              t.name \in DOMAIN snapshot /\ snapshot[t.name] \in RowSets
      <4>1. snapshot \in [AllTables -> RowSets]
        BY <2>2 DEF RunInv, RunOK
      <4>2. AllTables = {t.name : t \in ToSet(Tables)}
        BY <1>2, ConfigSchema DEF AllTables, FirstTables, ToSet
      <4>3. QED
        BY <3>1, <4>1, <4>2
    <3>3. Compiles(s) /\ Importable(destination, s, lists) /\ CatalogOK(destination)
          /\ destination' = Imported(destination, s, lists)
      BY <2>2 DEF CatalogsOK, ImportSucceeds
    <3> HIDE DEF s
    <3>4. Ordered(s, snapshot, lists)
      BY <2>2, <3>2, OrderedRows
    <3>5. QED
      BY <3>1, <3>3, <3>4, ImportedCatalog
  <2>3. QED
    BY <1>1, <2>1, <2>2
<1>6. QED
  BY <1>1, <1>3, <1>4, <1>5 DEF CatalogsOK

\* Whatever others write, wherever the tool dies and however often it runs
\* again, the inductive invariant holds.
THEOREM CatalogsInductive == Spec => []IndInv
<1>1. Init => IndInv
  BY Initial, CatalogsInitial DEF IndInv
<1>2. IndInv /\ [Next]_vars => IndInv'
  BY StepKeeps, CatalogsKeep DEF IndInv
<1>3. QED
  BY <1>1, <1>2, PTL DEF Spec

-----------------------------------------------------------------------------
(* The rules of a schema, on either engine.                                *)

\* The rules of a column, its own or those of its domain.
NotNullIn(c, domains) == Asked(c, domains).notNull

DefaultIn(c, domains) == Asked(c, domains).default

GeneratedIn(c, domains) == Asked(c, domains).generated

CheckIn(c, domains) == Asked(c, domains).check

LEMMA AskedRules ==
    ASSUME NEW c, NEW domains
    PROVE  LET d == DomainOf(c, domains)
           IN  /\ c.domain = "" =>
                    /\ NotNullIn(c, domains) = ~c.nullable /\ DefaultIn(c, domains) = c.default
                    /\ GeneratedIn(c, domains) = c.generated /\ CheckIn(c, domains) = None
               /\ c.domain # "" =>
                    /\ NotNullIn(c, domains) = d.notNull /\ DefaultIn(c, domains) = d.default
                    /\ GeneratedIn(c, domains) = None
                    /\ CheckIn(c, domains) =
                            IF d.check = None THEN None ELSE About(d.check, c.name)
<1> DEFINE d == DomainOf(c, domains)
           own == [notNull |-> ~c.nullable, default |-> c.default, generated |-> c.generated,
                   check |-> None]
           its == [notNull |-> d.notNull, default |-> d.default, generated |-> None,
                   check |-> IF d.check = None THEN None ELSE About(d.check, c.name)]
<1>1. Asked(c, domains) = IF c.domain = "" THEN own ELSE its
  BY DEF Asked
<1>2. /\ own.notNull = ~c.nullable /\ own.default = c.default /\ own.generated = c.generated
      /\ own.check = None
  OBVIOUS
<1>3. /\ its.notNull = d.notNull /\ its.default = d.default /\ its.generated = None
      /\ its.check = IF d.check = None THEN None ELSE About(d.check, c.name)
  OBVIOUS
<1> HIDE DEF own, its, d
<1>4. ASSUME c.domain = ""
      PROVE  /\ NotNullIn(c, domains) = ~c.nullable /\ DefaultIn(c, domains) = c.default
             /\ GeneratedIn(c, domains) = c.generated /\ CheckIn(c, domains) = None
  BY <1>1, <1>2, <1>4 DEF NotNullIn, DefaultIn, GeneratedIn, CheckIn
<1>5. ASSUME c.domain # ""
      PROVE  /\ NotNullIn(c, domains) = d.notNull /\ DefaultIn(c, domains) = d.default
             /\ GeneratedIn(c, domains) = None
             /\ CheckIn(c, domains) = IF d.check = None THEN None ELSE About(d.check, c.name)
  BY <1>1, <1>3, <1>5 DEF NotNullIn, DefaultIn, GeneratedIn, CheckIn
<1>6. QED
  BY <1>4, <1>5 DEF d

\* The domain of a column that was validated is one of the schema.
LEMMA DomainFound ==
    ASSUME NEW s, Validate(s), NEW t \in ToSet(s.tables), NEW c \in ToSet(t.columns),
           c.domain # ""
    PROVE  DomainOf(c, s.domains) \in ToSet(s.domains) /\ DomainOf(c, s.domains).name = c.domain
<1>1. \E d \in ToSet(s.domains) : d.name = c.domain
  BY DEF Validate, ValidTable, ValidColumn, NeutralColumn
<1>2. QED
  BY <1>1 DEF DomainOf

LEMMA NamedObject ==
    ASSUME NEW objects, UniquelyNamed(objects), NEW o \in objects
    PROVE  Named(objects, o.name) = o
BY DEF Named, UniquelyNamed

\* A domain of the schema is in the catalog of PostgreSQL.
LEMMA DomainThere ==
    ASSUME NEW db, NEW s, IsSchema(s), Has(db, s), UniquelyNamed(db.domains),
           db.engine = "postgres", NEW d \in ToSet(s.domains)
    PROVE  Named(db.domains, d.name) = d
<1> DEFINE st == [kind |-> "domain", object |-> d]
<1>1. st \in StatementsOf(db.engine, s)
  BY DEF StatementsOf, Creations
<1>2. Present(db, st) /\ st.kind = "domain" /\ st.object = d
  BY <1>1, HasStatements
<1> HIDE DEF st
<1>3. d \in db.domains
  BY <1>2 DEF Present
<1>4. QED
  BY <1>3, NamedObject

\* A table of the schema is in the catalog of either engine.
LEMMA TableThere ==
    ASSUME NEW db, NEW s, IsSchema(s), Has(db, s), UniquelyNamed(db.tables),
           NEW t \in ToSet(s.tables)
    PROVE  Named(db.tables, t.name) = CompiledTable(db.engine, t, s.domains)
<1> DEFINE o == CompiledTable(db.engine, t, s.domains)
           st == [kind |-> "table", object |-> o]
<1>1. st \in StatementsOf(db.engine, s) /\ o.name = t.name
  BY DEF StatementsOf, Creations, CompiledTable
<1>2. Present(db, st) /\ st.kind = "table" /\ st.object = o
  BY <1>1, HasStatements
<1> HIDE DEF st, o
<1>3. o \in db.tables
  BY <1>2 DEF Present
<1>4. QED
  BY <1>1, <1>3, NamedObject DEF o

\* What the catalog says of a column is what the schema says of it.
LEMMA ColumnRules ==
    ASSUME NEW db, NEW s, IsSchema(s), Validate(s), Has(db, s), UniquelyNamed(db.domains),
           NEW t \in ToSet(s.tables), NEW c \in ToSet(t.columns)
    PROVE  LET k == CompiledColumn(db.engine, c, s.domains)
           IN  /\ k.name = c.name
               /\ \/ k.notNull
                  \/ k.domain # "" /\ Named(db.domains, k.domain).notNull
                  <=> NotNullIn(c, s.domains)
               /\ DefaultOf(db, k) = DefaultIn(c, s.domains)
               /\ k.generated = GeneratedIn(c, s.domains)
               /\ k.domain = "" => k.check = CheckIn(c, s.domains)
               /\ k.domain # "" =>
                    /\ k.check = None
                    /\ LET check == Named(db.domains, k.domain).check
                       IN  IF check = None THEN CheckIn(c, s.domains) = None
                           ELSE About(check, k.name) = CheckIn(c, s.domains)
<1>1. CASE c.domain = ""
  <2> DEFINE k == CompiledColumn(db.engine, c, s.domains)
  <2>1. /\ k.name = c.name /\ k.notNull = ~c.nullable /\ k.domain = "" /\ k.default = c.default
        /\ k.generated = c.generated /\ k.check = None
    BY <1>1 DEF CompiledColumn
  <2>2. /\ NotNullIn(c, s.domains) = ~c.nullable /\ DefaultIn(c, s.domains) = c.default
        /\ GeneratedIn(c, s.domains) = c.generated /\ CheckIn(c, s.domains) = None
    BY <1>1, AskedRules
  <2> HIDE DEF k
  <2>3. QED
    BY <2>1, <2>2 DEF k, DefaultOf
<1>2. CASE c.domain # ""
  <2> DEFINE d == DomainOf(c, s.domains)
             k == DomainColumn(db.engine, c, d)
  <2>1. d \in ToSet(s.domains) /\ d.name = c.domain
    BY <1>2, DomainFound
  <2>2. CompiledColumn(db.engine, c, s.domains) = k
    BY <1>2 DEF CompiledColumn
  <2>3. /\ NotNullIn(c, s.domains) = d.notNull /\ DefaultIn(c, s.domains) = d.default
        /\ GeneratedIn(c, s.domains) = None
        /\ CheckIn(c, s.domains) = IF d.check = None THEN None ELSE About(d.check, c.name)
    BY <1>2, AskedRules
  <2> HIDE DEF d
  <2>4. CASE db.engine = "postgres"
    <3>1. Named(db.domains, d.name) = d
      BY <2>1, <2>4, DomainThere
    <3>2. /\ k.name = c.name /\ k.notNull = FALSE /\ k.domain = d.name /\ k.default = None
          /\ k.generated = None /\ k.check = None
      BY <2>4 DEF DomainColumn
    <3> HIDE DEF k
    <3>3. k.domain # "" /\ Named(db.domains, k.domain) = d
      BY <1>2, <2>1, <3>1, <3>2
    <3>4. IF d.check = None THEN CheckIn(c, s.domains) = None
          ELSE About(d.check, k.name) = CheckIn(c, s.domains)
      BY <2>3, <3>2
    <3>5. DefaultOf(db, k) = DefaultIn(c, s.domains)
      BY <2>3, <3>3 DEF DefaultOf
    <3>6. \/ k.notNull
          \/ k.domain # "" /\ Named(db.domains, k.domain).notNull
          <=> NotNullIn(c, s.domains)
      BY <2>3, <3>2, <3>3
    <3>7. QED
      BY <2>2, <2>3, <3>2, <3>3, <3>4, <3>5, <3>6
  <2>5. CASE db.engine # "postgres"
    <3>1. /\ k.name = c.name /\ k.notNull = d.notNull /\ k.domain = "" /\ k.default = d.default
          /\ k.generated = None /\ k.check = SubstituteDomainValue(d.check, c.name)
      BY <2>5 DEF DomainColumn
    <3> HIDE DEF k
    <3>2. k.check = CheckIn(c, s.domains)
      BY <2>3, <3>1 DEF SubstituteDomainValue, About
    <3>3. QED
      BY <2>2, <2>3, <3>1, <3>2 DEF DefaultOf
  <2>6. QED
    BY <2>4, <2>5
<1>3. QED
  BY <1>1, <1>2

LEMMA CompiledKind == ASSUME NEW n PROVE CompiledConstraint(n).kind = n.kind
<1>1. CASE n.kind = "foreign_key"
  BY <1>1 DEF CompiledConstraint
<1>2. CASE n.kind # "foreign_key"
  BY <1>2 DEF CompiledConstraint
<1>3. QED
  BY <1>1, <1>2

\* The constraints of a table are declared as they are, but for the clause that
\* stands for no action.
LEMMA CompiledRules ==
    ASSUME NEW s, IsSchema(s), NEW t \in ToSet(s.tables), NEW engine, NEW domains
    PROVE  LET o == CompiledTable(engine, t, domains)
               keyed == [t EXCEPT !.constraints = ToSet(@)]
           IN  /\ \A kind : kind # "foreign_key" => OfKind(o, kind) = OfKind(keyed, kind)
               /\ {[n EXCEPT !.expression = None] : n \in OfKind(o, "foreign_key")} =
                      {[n EXCEPT !.expression = None,
                                 !.onUpdate = IF @ = "" THEN "no_action" ELSE @,
                                 !.onDelete = IF @ = "" THEN "no_action" ELSE @] :
                          n \in OfKind(keyed, "foreign_key")}
<1> DEFINE o == CompiledTable(engine, t, domains)
           keyed == [t EXCEPT !.constraints = ToSet(@)]
           S == ToSet(t.constraints)
           F == OfKind(keyed, "foreign_key")
           Plain(n) == [n EXCEPT !.expression = None]
           Spelled(n) == [n EXCEPT !.expression = None,
                                   !.onUpdate = CompiledAction(@), !.onDelete = CompiledAction(@)]
<1>1. o.constraints = {CompiledConstraint(n) : n \in S} /\ keyed.constraints = S
  BY DEF CompiledTable, IsSchema
<1> HIDE DEF o, keyed
<1>2. ASSUME NEW kind, kind # "foreign_key"
      PROVE  OfKind(o, kind) = OfKind(keyed, kind)
  <2>1. \A n : n.kind = kind => CompiledConstraint(n) = n
    BY <1>2 DEF CompiledConstraint
  <2> HIDE DEF S
  <2>2. QED
    BY <1>1, <2>1, CompiledKind DEF OfKind
<1>3. OfKind(o, "foreign_key") = {CompiledConstraint(n) : n \in F}
  <2> HIDE DEF S
  <2>1. QED
    BY <1>1, CompiledKind DEF OfKind
<1>4. \A n \in F : Plain(CompiledConstraint(n)) = Spelled(n)
  <2>1. ASSUME NEW n \in F
        PROVE  Plain(CompiledConstraint(n)) = Spelled(n)
    <3>1. n \in S /\ n.kind = "foreign_key"
      BY <1>1 DEF OfKind
    <3>2. n = [field \in {"kind", "columns", "parent", "parentColumns", "onUpdate",
                          "onDelete", "expression"} |-> n[field]]
      BY <3>1 DEF IsSchema
    <3>3. CompiledConstraint(n) =
            [n EXCEPT !.onUpdate = CompiledAction(@), !.onDelete = CompiledAction(@)]
      BY <3>1 DEF CompiledConstraint
    <3> HIDE DEF F
    <3>4. QED
      BY <3>2, <3>3
  <2>2. QED
    BY <2>1
<1>5. \A n : Spelled(n) = [n EXCEPT !.expression = None,
                                  !.onUpdate = IF @ = "" THEN "no_action" ELSE @,
                                  !.onDelete = IF @ = "" THEN "no_action" ELSE @]
  BY DEF CompiledAction
<1> HIDE DEF F, Spelled, Plain
<1>6. {Plain(n) : n \in OfKind(o, "foreign_key")} = {Spelled(n) : n \in F}
  BY <1>3, <1>4
<1>7. QED
  BY <1>2, <1>5, <1>6 DEF F, Plain, o, keyed

\* A table in the catalog of either engine enforces the rules of the schema.
LEMMA EnforcedRules ==
    ASSUME NEW db, NEW s, IsSchema(s), Validate(s), Has(db, s), UniquelyNamed(db.domains),
           NEW t \in ToSet(s.tables)
    PROVE  Enforced(db, CompiledTable(db.engine, t, s.domains)) = Rules(t, s.domains)
<1> DEFINE D == s.domains
           Col(c) == CompiledColumn(db.engine, c, D)
           o == CompiledTable(db.engine, t, D)
           keyed == [t EXCEPT !.constraints = ToSet(@)]
           C == ToSet(t.columns)
           K == ToSet(o.columns)
           DomainNotNull(k) == k.domain # "" /\ Named(db.domains, k.domain).notNull
           DomainCheck(k) == Named(db.domains, k.domain).check
<1>1. /\ o.constraints = {CompiledConstraint(n) : n \in ToSet(t.constraints)}
      /\ o.columns = [i \in DOMAIN t.columns |-> Col(t.columns[i])]
  BY DEF CompiledTable
<1>2. \A c \in C : /\ Col(c).name = c.name
                   /\ Col(c).notNull \/ DomainNotNull(Col(c)) <=> NotNullIn(c, D)
                   /\ DefaultOf(db, Col(c)) = DefaultIn(c, D)
                   /\ Col(c).generated = GeneratedIn(c, D)
                   /\ Col(c).domain = "" => Col(c).check = CheckIn(c, D)
                   /\ Col(c).domain # "" =>
                        /\ Col(c).check = None
                        /\ IF DomainCheck(Col(c)) = None THEN CheckIn(c, D) = None
                           ELSE About(DomainCheck(Col(c)), Col(c).name) = CheckIn(c, D)
  BY ColumnRules
<1> HIDE DEF Col, D, o, keyed
<1>3. K = {Col(c) : c \in C}
  BY <1>1 DEF ToSet
<1>4. Names(o.columns) = Names(t.columns)
  BY <1>1, <1>2 DEF Names, ToSet
<1>5. /\ \A kind : kind # "foreign_key" => OfKind(o, kind) = OfKind(keyed, kind)
      /\ {[n EXCEPT !.expression = None] : n \in OfKind(o, "foreign_key")} =
            {[n EXCEPT !.expression = None,
                       !.onUpdate = IF @ = "" THEN "no_action" ELSE @,
                       !.onDelete = IF @ = "" THEN "no_action" ELSE @] :
                            n \in OfKind(keyed, "foreign_key")}
  BY <1>1, CompiledRules DEF keyed, o
<1>6. \A c \in C : InKey(o, Col(c)) <=> InKey(keyed, c)
  BY <1>2, <1>5 DEF InKey
<1>7. NotNullColumns(db, o) =
          {c.name : c \in {d \in C : NotNullIn(d, D) \/ InKey(keyed, d)}}
  <2>1. NotNullColumns(db, o) =
            {k.name : k \in {x \in K : (x.notNull \/ DomainNotNull(x)) \/ InKey(o, x)}}
    BY DEF NotNullColumns
  <2> DEFINE N == {c.name : c \in {d \in C : NotNullIn(d, D) \/ InKey(keyed, d)}}
  <2> HIDE DEF K, C, DomainNotNull
  <2>2. ASSUME NEW x \in NotNullColumns(db, o) PROVE x \in N
    <3>1. PICK k \in K : x = k.name /\ ((k.notNull \/ DomainNotNull(k)) \/ InKey(o, k))
      BY <2>1
    <3>2. PICK c \in C : k = Col(c)
      BY <1>3
    <3>3. NotNullIn(c, D) \/ InKey(keyed, c)
      BY <1>2, <1>6, <3>1, <3>2
    <3>4. QED
      BY <1>2, <3>1, <3>2, <3>3
  <2>3. ASSUME NEW c \in C, NotNullIn(c, D) \/ InKey(keyed, c)
        PROVE  c.name \in NotNullColumns(db, o)
    <3>1. Col(c) \in K /\ ((Col(c).notNull \/ DomainNotNull(Col(c))) \/ InKey(o, Col(c)))
      BY <1>2, <1>3, <1>6, <2>3
    <3>2. QED
      BY <1>2, <2>1, <3>1
  <2>4. QED
    BY <2>2, <2>3
<1>8. {<<k.name, DefaultOf(db, k), k.generated>> : k \in K}
          = {<<c.name, DefaultIn(c, D), GeneratedIn(c, D)>> : c \in C}
  <2> HIDE DEF K, C
  <2>1. \A c \in C : <<Col(c).name, DefaultOf(db, Col(c)), Col(c).generated>>
                        = <<c.name, DefaultIn(c, D), GeneratedIn(c, D)>>
    BY <1>2
  <2>2. {<<k.name, DefaultOf(db, k), k.generated>> : k \in K}
            = {<<Col(c).name, DefaultOf(db, Col(c)), Col(c).generated>> : c \in C}
    BY <1>3
  <2>3. QED
    BY <2>1, <2>2
<1>9. ChecksOf(db, o) \ {None} =
          ({n.expression : n \in OfKind(keyed, "check")} \cup {CheckIn(c, D) : c \in C}) \ {None}
  <2> DEFINE A == {k.check : k \in K}
             B == {About(DomainCheck(k), k.name) :
                        k \in {x \in K : x.domain # "" /\ DomainCheck(x) # None}}
             X == {CheckIn(c, D) : c \in C}
  <2>1. ChecksOf(db, o) = {n.expression : n \in OfKind(keyed, "check")} \cup A \cup B
    BY <1>5 DEF ChecksOf
  <2> HIDE DEF K, C, DomainCheck
  <2>2. \A x \in A \cup B : x = None \/ x \in X
    <3>1. ASSUME NEW x \in A PROVE x = None \/ x \in X
      <4>1. PICK c \in C : x = Col(c).check
        BY <1>3
      <4>2. x = None \/ x = CheckIn(c, D)
        BY <1>2, <4>1
      <4>3. QED
        BY <4>2
    <3>2. ASSUME NEW x \in B PROVE x \in X
      <4>1. PICK c \in C : /\ Col(c).domain # "" /\ DomainCheck(Col(c)) # None
                           /\ x = About(DomainCheck(Col(c)), Col(c).name)
        BY <1>3
      <4>2. x = CheckIn(c, D)
        BY <1>2, <4>1
      <4>3. QED
        BY <4>2
    <3>3. QED
      BY <3>1, <3>2
  <2>3. \A x \in X : x = None \/ x \in A \cup B
    <3>1. ASSUME NEW c \in C PROVE CheckIn(c, D) = None \/ CheckIn(c, D) \in A \cup B
      <4>1. CASE Col(c).domain = ""
        BY <1>2, <1>3, <4>1
      <4>2. CASE Col(c).domain # "" /\ DomainCheck(Col(c)) # None
        BY <1>2, <1>3, <4>2
      <4>3. CASE Col(c).domain # "" /\ DomainCheck(Col(c)) = None
        BY <1>2, <4>3
      <4>4. QED
        BY <4>1, <4>2, <4>3
    <3>2. QED
      BY <3>1
  <2> HIDE DEF A, B, X
  <2>4. QED
    BY <2>1, <2>2, <2>3 DEF X
<1>10. Rules(t, D) =
          [names |-> Names(t.columns),
           notNull |-> {c.name : c \in {d \in C : NotNullIn(d, D) \/ InKey(keyed, d)}},
           values |-> {<<c.name, DefaultIn(c, D), GeneratedIn(c, D)>> : c \in C},
           checks |-> ({n.expression : n \in OfKind(keyed, "check")}
                            \cup {CheckIn(c, D) : c \in C}) \ {None},
           keys |-> {<<n.kind, ToSet(n.columns)>> :
                        n \in OfKind(keyed, "primary_key") \cup OfKind(keyed, "unique")},
           references |-> {[n EXCEPT !.expression = None,
                                     !.onUpdate = IF @ = "" THEN "no_action" ELSE @,
                                     !.onDelete = IF @ = "" THEN "no_action" ELSE @] :
                              n \in OfKind(keyed, "foreign_key")}]
  BY DEF Rules, keyed, NotNullIn, DefaultIn, GeneratedIn, CheckIn
<1>11. Enforced(db, o) =
          [names |-> Names(o.columns),
           notNull |-> NotNullColumns(db, o),
           values |-> {<<k.name, DefaultOf(db, k), k.generated>> : k \in K},
           checks |-> ChecksOf(db, o) \ {None},
           keys |-> {<<n.kind, ToSet(n.columns)>> :
                        n \in OfKind(o, "primary_key") \cup OfKind(o, "unique")},
           references |-> {[n EXCEPT !.expression = None] : n \in OfKind(o, "foreign_key")}]
  BY DEF Enforced
<1>12. Enforced(db, o) = Rules(t, D)
  <2> HIDE DEF K, C
  <2>1. OfKind(o, "primary_key") = OfKind(keyed, "primary_key")
        /\ OfKind(o, "unique") = OfKind(keyed, "unique")
    BY <1>5
  <2>2. QED
    BY <1>4, <1>5, <1>7, <1>8, <1>9, <1>10, <1>11, <2>1, Zenon
<1>13. QED
  BY <1>12 DEF o, D

\* Whatever the schema, once both engines have it they refuse the same rows and
\* fill the same columns.
THEOREM EnforceAlike == Spec => []EnginesEnforceAlike
<1>1. IndInv => EnginesEnforceAlike
  <2> DEFINE s == config.schema
  <2>1. SUFFICES ASSUME IndInv, destination.managed, destination.metadata = s, Has(source, s),
                        NEW i \in DOMAIN Tables
                 PROVE  \A db \in {source, destination} :
                            Enforced(db, Named(db.tables, Tables[i].name))
                                = Rules(Tables[i], s.domains)
    BY DEF EnginesEnforceAlike
  <2>2. IsSchema(s) /\ Tables[i] \in ToSet(s.tables)
    <3>1. config \in Configs
      BY <2>1 DEF IndInv, RunInv, TypeOK
    <3>2. QED
      BY <2>1, <3>1, ConfigSchema DEF Tables, ToSet
  <2>3. Has(destination, s)
    BY <2>1 DEF IndInv, RunInv, TypeOK, DatabaseOK
  <2>4. Validate(s)
    BY <2>1 DEF IndInv, CatalogsOK, CatalogOK, Compiles
  <2>5. \A db \in {source, destination} :
            UniquelyNamed(db.domains) /\ UniquelyNamed(db.tables)
    BY <2>1 DEF IndInv, CatalogsOK, CatalogOK
  <2> HIDE DEF s
  <2>6. \A db \in {source, destination} :
            Enforced(db, Named(db.tables, Tables[i].name)) = Rules(Tables[i], s.domains)
    <3>1. ASSUME NEW db \in {source, destination}
          PROVE  Enforced(db, Named(db.tables, Tables[i].name)) = Rules(Tables[i], s.domains)
      <4>1. Has(db, s) /\ UniquelyNamed(db.domains) /\ UniquelyNamed(db.tables)
        BY <2>1, <2>3, <2>5
      <4>2. Named(db.tables, Tables[i].name) = CompiledTable(db.engine, Tables[i], s.domains)
        BY <2>2, <4>1, TableThere
      <4>3. QED
        BY <2>2, <2>4, <4>1, <4>2, EnforcedRules
    <3>2. QED
      BY <3>1
  <2>7. QED
    BY <2>6
<1>2. QED
  BY <1>1, CatalogsInductive, PTL

-----------------------------------------------------------------------------
(* Lists of objects with names, and finite sets.                           *)

LEMMA FiniteImage ==
    ASSUME NEW S, IsFiniteSet(S), NEW f, f = [x \in S |-> f[x]]
    PROVE  IsFiniteSet({f[x] : x \in S})
<1> DEFINE T == {f[x] : x \in S}
<1>1. f \in [S -> T]
  OBVIOUS
<1>2. f \in Surjection(S, T)
  BY <1>1 DEF Surjection
<1> HIDE DEF T
<1>3. IsFiniteSet(T)
  BY <1>2, FS_Surjection
<1>4. QED
  BY <1>3 DEF T

LEMMA FiniteList ==
    ASSUME NEW s, NEW S, Lists(s, S)
    PROVE  IsFiniteSet(S)
<1>1. Len(s) \in Nat /\ DOMAIN s = 1..Len(s) /\ s = [i \in 1..Len(s) |-> s[i]]
  BY DEF Lists
<1>2. IsFiniteSet(1..Len(s))
  BY <1>1, FS_Interval
<1>3. IsFiniteSet({s[i] : i \in 1..Len(s)})
  <2> DEFINE N == 1..Len(s)
  <2> HIDE DEF N
  <2>1. QED
    BY <1>1, <1>2, FiniteImage DEF N
<1>4. QED
  BY <1>1, <1>3 DEF Lists, ToSet

\* A finite set is listed without repetition.
LEMMA ListedOnce ==
    ASSUME NEW S, IsFiniteSet(S)
    PROVE  /\ Lists(SetToSeq(S), S)
           /\ \A i, j \in DOMAIN SetToSeq(S) : SetToSeq(S)[i] = SetToSeq(S)[j] => i = j
<1> DEFINE n == Cardinality(S)
<1>1. n \in Nat /\ \E f \in [1..n -> S] : IsInjective(f)
  BY FS_CardinalityType DEF ExistsBijection, Bijection, Injection
<1>2. SetToSeq(S) \in [1..n -> S] /\ IsInjective(SetToSeq(S))
  BY <1>1 DEF SetToSeq
<1>3. QED
  BY <1>2, ListedElements DEF IsInjective, Lists

\* Objects with names of their own make a list of distinct names.
LEMMA ListedNames ==
    ASSUME NEW S, IsFiniteSet(S), UniquelyNamed(S)
    PROVE  Distinct(Names(SetToSeq(S)))
<1> DEFINE q == SetToSeq(S)
<1>1. /\ \A i \in DOMAIN q : q[i] \in S
      /\ \A i, j \in DOMAIN q : q[i] = q[j] => i = j
  BY ListedOnce DEF Lists, ToSet
<1> HIDE DEF q
<1>2. Distinct(Names(q))
  BY <1>1 DEF Distinct, Names, IsInjective, UniquelyNamed
<1>3. QED
  BY <1>2 DEF q

LEMMA DistinctMembers ==
    ASSUME NEW q, Distinct(Names(q))
    PROVE  UniquelyNamed(ToSet(q))
BY DEF Distinct, Names, IsInjective, UniquelyNamed, ToSet

LEMMA NamesContained ==
    ASSUME NEW q, NEW S, Lists(q, S), NEW x
    PROVE  Contains(Names(q), x) <=> x \in NamesIn(S)
<1>1. Len(q) \in Nat /\ DOMAIN q = 1..Len(q) /\ S = {q[i] : i \in 1..Len(q)}
  BY DEF Lists, ToSet
<1>2. /\ DOMAIN Names(q) = 1..Len(q)
      /\ \A i \in 1..Len(q) : Names(q)[i] = q[i].name
  BY <1>1 DEF Names
<1>3. Len(Names(q)) = Len(q)
  <2> DEFINE m == Names(q)
  <2>1. m = [i \in 1..Len(q) |-> q[i].name]
    BY <1>1 DEF Names
  <2>2. m \in Seq({q[i].name : i \in 1..Len(q)})
    BY <1>1, <2>1
  <2> HIDE DEF m
  <2>3. Len(m) = Len(q)
    BY <1>1, <1>2, <2>2 DEF m
  <2>4. QED
    BY <2>3 DEF m
<1>4. Contains(Names(q), x) <=> \E i \in 1..Len(q) : q[i].name = x
  BY <1>2, <1>3 DEF Contains
<1>5. QED
  BY <1>1, <1>4 DEF NamesIn

LEMMA Contained ==
    ASSUME NEW q, NEW S, Lists(q, S), NEW x
    PROVE  Contains(q, x) <=> x \in S
BY DEF Lists, Contains, ToSet

-----------------------------------------------------------------------------
(* What an inspection reads of a table.                                    *)

Engines == {"sqlite", "postgres"}

\* The family read back from a declared type declares that type again.
LEMMA FamilyReadBack ==
    ASSUME NEW engine \in Engines, NEW family \in Families
    PROVE  LET declared == CompiledType(engine, family)
               read == FamilyOf(engine, declared)
           IN  /\ read \in Families
               /\ CompiledType(engine, read) = declared
               /\ read = "vector" => engine = "postgres" /\ family = "vector"
<1>1. CASE engine = "sqlite"
  <2>1. /\ CompiledType(engine, family) \in {"INTEGER", "REAL", "BLOB", "TEXT"}
    BY <1>1 DEF CompiledType
  <2>2. /\ FamilyOf(engine, "INTEGER") = "integer" /\ FamilyOf(engine, "REAL") = "float"
        /\ FamilyOf(engine, "BLOB") = "binary" /\ FamilyOf(engine, "TEXT") = "text"
    BY <1>1 DEF FamilyOf
  <2>3. /\ CompiledType(engine, "integer") = "INTEGER" /\ CompiledType(engine, "float") = "REAL"
        /\ CompiledType(engine, "binary") = "BLOB" /\ CompiledType(engine, "text") = "TEXT"
    BY <1>1 DEF CompiledType
  <2>4. {"integer", "float", "binary", "text"} \subseteq Families \ {"vector"}
    BY DEF Families
  <2>5. QED
    BY <2>1, <2>2, <2>3, <2>4
<1>2. CASE engine = "postgres"
  <2>1. /\ CompiledType(engine, family) \in
                {"boolean", "bigint", "numeric", "double precision", "bytea", "vector", "text"}
        /\ CompiledType(engine, family) = "vector" => family = "vector"
    BY <1>2 DEF CompiledType
  <2>2. /\ FamilyOf(engine, "boolean") = "boolean" /\ FamilyOf(engine, "bigint") = "integer"
        /\ FamilyOf(engine, "numeric") = "decimal"
        /\ FamilyOf(engine, "double precision") = "float"
        /\ FamilyOf(engine, "bytea") = "binary" /\ FamilyOf(engine, "vector") = "vector"
        /\ FamilyOf(engine, "text") = "text"
    BY <1>2 DEF FamilyOf
  <2>3. /\ CompiledType(engine, "boolean") = "boolean" /\ CompiledType(engine, "integer") = "bigint"
        /\ CompiledType(engine, "decimal") = "numeric"
        /\ CompiledType(engine, "float") = "double precision"
        /\ CompiledType(engine, "binary") = "bytea" /\ CompiledType(engine, "vector") = "vector"
        /\ CompiledType(engine, "text") = "text"
    BY <1>2 DEF CompiledType
  <2>4. /\ {"boolean", "integer", "decimal", "float", "binary", "text"} \subseteq Families \ {"vector"}
        /\ "vector" \in Families
    BY DEF Families
  <2>5. QED
    BY <1>2, <2>1, <2>2, <2>3, <2>4
<1>3. QED
  BY <1>1, <1>2 DEF Engines

LEMMA VectorReadBack ==
    ASSUME NEW engine \in Engines, NEW family \in Families,
           CompiledType(engine, family) = "vector"
    PROVE  FamilyOf(engine, CompiledType(engine, family)) = "vector"
<1>1. CASE engine = "sqlite"
  BY <1>1 DEF CompiledType
<1>2. CASE engine = "postgres"
  BY <1>2 DEF FamilyOf
<1>3. QED
  BY <1>1, <1>2 DEF Engines

\* The type read back is valid and declares what is kept of the type again.
LEMMA TypeReadBack ==
    ASSUME NEW engine \in Engines, NEW type, ValidType(type)
    PROVE  LET read == InspectedType(engine, ColumnType(engine, type))
           IN  /\ ValidType(read)
               /\ Kept(ColumnType(engine, read)) = Kept(ColumnType(engine, type))
<1> DEFINE declared == ColumnType(engine, type)
           family == FamilyOf(engine, CompiledType(engine, type.family))
           read == InspectedType(engine, declared)
           again == ColumnType(engine, read)
<1>1. /\ family \in Families
      /\ CompiledType(engine, family) = CompiledType(engine, type.family)
      /\ family = "vector" => engine = "postgres" /\ type.family = "vector"
      /\ declared[1] = "vector" => family = "vector"
  BY FamilyReadBack, VectorReadBack DEF ValidType, ColumnType
<1>2. declared[1] = CompiledType(engine, type.family)
      /\ (engine = "postgres" /\ type.family = "vector" => declared[2] = type.arguments)
  BY DEF ColumnType
<1>3. read.family = family /\ (family = "vector" => read.arguments = declared[2])
  BY <1>2 DEF InspectedType
<1> HIDE DEF declared, family, read
<1>4. ValidType(read)
  BY <1>1, <1>2, <1>3 DEF ValidType
<1>5. again[1] = declared[1]
      /\ (engine = "postgres" /\ read.family = "vector" => again[2] = read.arguments)
  BY <1>1, <1>2, <1>3 DEF ColumnType
<1> HIDE DEF again
<1>6. declared[1] = "vector" => again[2] = declared[2]
  BY <1>1, <1>3, <1>5
<1>7. Kept(again) = Kept(declared)
  BY <1>5, <1>6 DEF Kept
<1>8. QED
  BY <1>4, <1>7 DEF read, declared, again

\* The columns of a key that are columns of the table, in whatever order.
LEMMA KeyReadBack ==
    ASSUME NEW db, NEW t, NEW n, Lists(t.columns, ToSet(t.columns)),
           Lists(n.columns, ToSet(n.columns)), ToSet(n.columns) \subseteq ColumnNames(t)
    PROVE  Lists(InspectedKey(db, t, n), ToSet(n.columns))
<1> DEFINE key == ToSet(n.columns)
           part(i) == IF Contains(n.columns, t.columns[i].name) THEN <<t.columns[i].name>> ELSE <<>>
           parts == [i \in DOMAIN t.columns |-> part(i)]
<1>1. DOMAIN t.columns = 1..Len(t.columns) /\ Len(t.columns) \in Nat
  BY DEF Lists
<1>2. \A i \in DOMAIN t.columns : Contains(n.columns, t.columns[i].name) <=> t.columns[i].name \in key
  BY Contained
<1>3. ASSUME NEW i \in DOMAIN t.columns
      PROVE  part(i) \in Seq(key) /\ ToSet(part(i)) = key \cap {t.columns[i].name}
  <2> DEFINE name == t.columns[i].name
  <2>1. CASE name \in key
    <3>1. part(i) = <<name>>
      BY <1>2, <2>1
    <3> HIDE DEF part, key, name
    <3>2. <<name>> \in Seq(key) /\ ToSet(<<name>>) = {name}
      BY <2>1 DEF ToSet
    <3>3. QED
      BY <2>1, <3>1, <3>2 DEF name
  <2>2. CASE name \notin key
    <3>1. part(i) = <<>>
      BY <1>2, <2>2
    <3> HIDE DEF part, key, name
    <3>2. <<>> \in Seq(key) /\ ToSet(<<>>) = {}
      BY DEF ToSet
    <3>3. QED
      BY <2>2, <3>1, <3>2 DEF name
  <2>3. QED
    BY <2>1, <2>2
<1>4. key = {x \in key : \E i \in DOMAIN t.columns : x = t.columns[i].name}
  BY DEF ColumnNames, ToSet, Names
<1>5. InspectedKey(db, t, n) = n.columns \/ InspectedKey(db, t, n) = FlattenSeq(parts)
  BY DEF InspectedKey
<1> HIDE DEF key, part
<1>6. parts \in Seq(Seq(key))
  <2>1. parts \in [1..Len(t.columns) -> Seq(key)]
    BY <1>1, <1>3
  <2> HIDE DEF parts
  <2>2. QED
    BY <1>1, <2>1
<1>7. /\ FlattenSeq(parts) \in Seq(key)
      /\ ToSet(FlattenSeq(parts)) = UNION {ToSet(parts[i]) : i \in DOMAIN parts}
  <2> HIDE DEF parts
  <2>1. QED
    BY <1>6, FlattenElements
<1>8. UNION {ToSet(parts[i]) : i \in DOMAIN parts} = key
  <2>1. \A i \in DOMAIN t.columns : ToSet(parts[i]) = key \cap {t.columns[i].name}
    BY <1>3
  <2>2. DOMAIN parts = DOMAIN t.columns
    OBVIOUS
  <2> HIDE DEF parts
  <2>3. QED
    BY <1>4, <2>1, <2>2
<1>9. Lists(n.columns, key) /\ Lists(FlattenSeq(parts), key)
  BY <1>7, <1>8 DEF Lists, key
<1>10. QED
  BY <1>5, <1>9 DEF key

-----------------------------------------------------------------------------
(* Catalogs no metadata describes.                                         *)

\* The catalog of the database is what the statements of the schema make.
MadeOf(db, s) ==
    /\ IsSchema(s) /\ Compiles(s)
    /\ db.tables = {CompiledTable(db.engine, t, s.domains) : t \in ToSet(s.tables)}
    /\ db.indexes = ToSet(s.indexes) /\ db.views = ToSet(s.views)
    /\ db.triggers = ToSet(s.triggers)
    /\ \A o \in db.tables : SoundTable(o)

LEMMA StatementsMade ==
    ASSUME NEW engine, NEW s, IsSchema(s)
    PROVE  LET statements == Statements(engine, s)
           IN  /\ Made(statements, "table") =
                        {CompiledTable(engine, t, s.domains) : t \in ToSet(s.tables)}
               /\ Made(statements, "index") = ToSet(s.indexes)
               /\ Made(statements, "view") = ToSet(s.views)
               /\ Made(statements, "trigger") = ToSet(s.triggers)
<1> DEFINE Domains == IF engine = "postgres" THEN ToSet(s.domains) ELSE {}
           Compiled == {CompiledTable(engine, t, s.domains) : t \in ToSet(s.tables)}
           G == ToSet(s.triggers)
           Bodies == UNION {ToSet(CompiledTrigger(engine, g)) : g \in G}
           statements == Statements(engine, s)
           I == ToSet(s.indexes)
           V == ToSet(s.views)
<1>1. ToSet(statements) = Creations("domain", Domains) \cup Creations("table", Compiled)
            \cup Creations("index", I) \cup Creations("view", V) \cup Bodies
  BY StatementElements DEF StatementsOf, Lists
<1>2. /\ \A st \in Bodies : \/ st.kind = "function"
                            \/ st.kind = "trigger" /\ st.object \in G
      /\ \A g \in G : \E st \in Bodies : st.kind = "trigger" /\ st.object = g
  <2>1. ASSUME NEW g \in G
        PROVE  /\ \A st \in ToSet(CompiledTrigger(engine, g)) :
                    st.kind = "function" \/ (st.kind = "trigger" /\ st.object = g)
               /\ \E st \in ToSet(CompiledTrigger(engine, g)) :
                    st.kind = "trigger" /\ st.object = g
    <3> DEFINE function == [kind |-> "function", object |-> [name |-> g.name]]
               trigger == [kind |-> "trigger", object |-> g]
    <3>1. /\ function.kind = "function" /\ trigger.kind = "trigger" /\ trigger.object = g
      OBVIOUS
    <3>2. /\ CompiledTrigger(engine, g) = <<trigger>>
          \/ CompiledTrigger(engine, g) = <<function, trigger>>
      BY DEF CompiledTrigger
    <3> HIDE DEF function, trigger
    <3>3. ToSet(CompiledTrigger(engine, g)) = {trigger}
          \/ ToSet(CompiledTrigger(engine, g)) = {function, trigger}
      BY <3>2 DEF ToSet
    <3>4. QED
      BY <3>1, <3>3
  <2>2. QED
    BY <2>1
<1>3. \A kind, S : \A st \in Creations(kind, S) : st.kind = kind /\ st.object \in S
  BY DEF Creations
<1>4. \A kind, S : \A o \in S : \E st \in Creations(kind, S) : st.kind = kind /\ st.object = o
  <2>1. ASSUME NEW kind, NEW S, NEW o \in S
        PROVE  \E st \in Creations(kind, S) : st.kind = kind /\ st.object = o
    <3>1. [kind |-> kind, object |-> o] \in Creations(kind, S)
      BY DEF Creations
    <3>2. QED
      BY <3>1
  <2>2. QED
    BY <2>1
<1> HIDE DEF Domains, Compiled, G, Bodies, statements, I, V
<1>5. Made(statements, "table") = Compiled
  BY <1>1, <1>2, <1>3, <1>4 DEF Made
<1>6. Made(statements, "index") = I
  BY <1>1, <1>2, <1>3, <1>4 DEF Made
<1>7. Made(statements, "view") = V
  BY <1>1, <1>2, <1>3, <1>4 DEF Made
<1>8. Made(statements, "trigger") = G
  BY <1>1, <1>2, <1>3, <1>4 DEF Made
<1>9. QED
  BY <1>5, <1>6, <1>7, <1>8 DEF Compiled, G, statements, I, V

LEMMA NewIsMade ==
    ASSUME NEW engine, NEW s, IsSchema(s), Compiles(s), Creatable(Empty(engine), s)
    PROVE  MadeOf(Created(Empty(engine), s), s)
<1> DEFINE e == Empty(engine)
           statements == Statements(engine, s)
           S == StatementsOf(engine, s)
           d == Executed(e, statements)
<1>1. /\ DOMAIN e = DOMAIN Empty("sqlite") /\ e.engine = engine
      /\ e.tables = {} /\ e.indexes = {} /\ e.views = {} /\ e.triggers = {}
  BY DEF Empty
<1>2. Lists(statements, S) /\ AcceptsAll(e, statements) /\ d = Created(e, s)
  BY <1>1, StatementElements DEF Creatable, Created
<1>3. /\ Made(statements, "table") = {CompiledTable(engine, t, s.domains) : t \in ToSet(s.tables)}
      /\ Made(statements, "index") = ToSet(s.indexes)
      /\ Made(statements, "view") = ToSet(s.views)
      /\ Made(statements, "trigger") = ToSet(s.triggers)
  BY StatementsMade
<1> HIDE DEF e, statements, S
<1>4. /\ d.engine = engine
      /\ d.tables = Made(statements, "table") /\ d.indexes = Made(statements, "index")
      /\ d.views = Made(statements, "view") /\ d.triggers = Made(statements, "trigger")
  BY <1>1, Fields DEF Executed
<1>5. ASSUME NEW o \in d.tables PROVE SoundTable(o)
  <2>1. PICK st \in S : st.kind = "table" /\ st.object = o
    BY <1>2, <1>4 DEF Made, Lists
  <2>2. PICK c : Accepts(c, st)
    BY <1>1, <1>2, <2>1, AcceptedAmong
  <2>3. QED
    BY <2>1, <2>2 DEF Accepts
<1> HIDE DEF d
<1>6. MadeOf(d, s)
  BY <1>3, <1>4, <1>5 DEF MadeOf
<1>7. QED
  BY <1>2, <1>6 DEF e

LEMMA EmptyIsMade ==
    ASSUME NEW engine
    PROVE  MadeOf(Empty(engine), NoSchema)
<1>1. /\ DOMAIN NoSchema = {"domains", "tables", "indexes", "views", "triggers", "routines"}
      /\ \A part \in DOMAIN NoSchema : NoSchema[part] = <<>>
      /\ NoSchema.domains = <<>> /\ NoSchema.tables = <<>> /\ NoSchema.indexes = <<>>
      /\ NoSchema.views = <<>> /\ NoSchema.triggers = <<>> /\ NoSchema.routines = <<>>
  BY DEF NoSchema
<1>2. ToSet(<<>>) = {} /\ <<>> \in Seq({}) /\ Distinct(Names(<<>>))
  BY DEF ToSet, Distinct, Names, IsInjective
<1>3. IsSchema(NoSchema)
  BY <1>1, <1>2 DEF IsSchema
<1>4. Compiles(NoSchema)
  <2>1. Validate(NoSchema)
    BY <1>1, <1>2 DEF Validate, ValidDomains, ValidIndexes, ValidViews, ValidTriggers,
                      ValidRoutines
  <2>2. QED
    BY <1>1, <1>2, <2>1 DEF Compiles
<1>5. QED
  BY <1>1, <1>2, <1>3, <1>4 DEF MadeOf, Empty

\* What the layer does not manage is made of some schema.
LEMMA UnmanagedIsMade ==
    ASSUME IndInv, NEW db \in {source, destination}, ~db.managed
    PROVE  \E s : MadeOf(db, s)
<1>1. DOMAIN db = DOMAIN Empty("sqlite")
  BY DEF IndInv, RunInv, TypeOK, DatabaseOK, IsDatabase
<1>2. ASSUME NEW d, NEW s, DOMAIN d = DOMAIN Empty("sqlite"), MadeOf(d, s), Catalog(db) = Catalog(d)
      PROVE  MadeOf(db, s)
  <2>1. /\ d.engine = db.engine /\ d.tables = db.tables /\ d.indexes = db.indexes
        /\ d.views = db.views /\ d.triggers = db.triggers
    BY <1>1, <1>2, CatalogFields
  <2>2. QED
    BY <1>2, <2>1 DEF MadeOf
<1>3. \A engine : DOMAIN Empty(engine) = DOMAIN Empty("sqlite")
  BY DEF Empty
<1>4. CASE db = destination
  <2>1. Catalog(db) = Catalog(Empty(db.engine))
    BY <1>4 DEF IndInv, CatalogsOK
  <2>2. QED
    BY <1>2, <1>3, <2>1, EmptyIsMade
<1>5. CASE db = source
  <2> DEFINE from == config.contract.source.engine
             s == config.schema
             e == Empty(from)
             h == Handmade(from, s)
             d == ApplySchema(e, s)
  <2>1. Catalog(db) = Catalog(h) /\ IsSchema(s)
    BY <1>5, ConfigSchema DEF IndInv, CatalogsOK, RunInv, TypeOK
  <2>2. h = [d EXCEPT !.managed = FALSE, !.metadata = NoSchema]
    BY DEF Handmade
  <2> HIDE DEF from, s, h
  <2>3. CASE Compiles(s) /\ Creatable(e, s)
    <3> DEFINE c == Created(e, s)
    <3>1. MadeOf(c, s) /\ IsDatabase(c)
      BY <2>1, <2>3, NewIsMade, EmptyCatalog, CreatedDatabase
    <3>2. d = WriteMetadata(c, s)
      BY <2>3 DEF ApplySchema
    <3> HIDE DEF c, d
    <3>3. /\ DOMAIN h = DOMAIN Empty("sqlite") /\ h.engine = c.engine /\ h.tables = c.tables
          /\ h.indexes = c.indexes /\ h.views = c.views /\ h.triggers = c.triggers
      BY <2>2, <3>1, <3>2, Fields DEF WriteMetadata, IsDatabase
    <3>4. MadeOf(h, s)
      BY <3>1, <3>3 DEF MadeOf
    <3>5. QED
      BY <1>2, <2>1, <3>3, <3>4
  <2>4. CASE ~(Compiles(s) /\ Creatable(e, s))
    <3>1. d = e /\ MadeOf(e, NoSchema) /\ DOMAIN e = DOMAIN Empty("sqlite")
      BY <1>3, <2>4, EmptyIsMade DEF ApplySchema
    <3> HIDE DEF d, e
    <3>2. /\ DOMAIN h = DOMAIN Empty("sqlite") /\ h.engine = e.engine /\ h.tables = e.tables
          /\ h.indexes = e.indexes /\ h.views = e.views /\ h.triggers = e.triggers
      BY <2>2, <3>1, Fields
    <3>3. MadeOf(h, NoSchema)
      BY <3>1, <3>2 DEF MadeOf
    <3>4. QED
      BY <1>2, <2>1, <3>2, <3>3
  <2>5. QED
    BY <2>3, <2>4
<1>6. QED
  BY <1>4, <1>5

\* A column of a table that was made is valid when it is read back, and is
\* declared as it was.
LEMMA ColumnReadBack ==
    ASSUME NEW db, NEW s, MadeOf(db, s), db.engine \in Engines, NEW o,
           NEW t \in ToSet(s.tables), NEW c \in ToSet(t.columns),
           ResolvedColumn(db.engine, CompiledColumn(db.engine, c, s.domains))
    PROVE  LET k == CompiledColumn(db.engine, c, s.domains)
               read == InspectedColumn(db, o, k)
               again == CompiledColumn(db.engine, read, <<>>)
           IN  /\ k.name = c.name /\ ~IsNonDeterministic(k.check)
               /\ read.name = k.name /\ read.generated = k.generated
               /\ ValidColumn(read, <<>>)
               /\ again.name = k.name /\ again.domain = "" /\ again.check = None
               /\ again.default = k.default /\ again.generated = k.generated
               /\ Kept(again.type) = Kept(k.type)
               /\ again.notNull <=> k.notNull \/ InKey(o, k)
<1> DEFINE k == CompiledColumn(db.engine, c, s.domains)
           read == InspectedColumn(db, o, k)
           again == CompiledColumn(db.engine, read, <<>>)
<1>1. ValidColumn(c, s.domains) /\ Validate(s)
  BY DEF MadeOf, Compiles, Validate, ValidTable
<1>2. /\ k.name = c.name /\ ~IsNonDeterministic(k.check)
      /\ k.generated # None => k.default = None
      /\ \E type : ValidType(type) /\ k.type = ColumnType(db.engine, type)
  <2>1. CASE c.domain = ""
    <3>1. /\ k.name = c.name /\ k.type = ColumnType(db.engine, c.type) /\ k.default = c.default
          /\ k.generated = c.generated /\ k.check = None
      BY <2>1 DEF CompiledColumn
    <3> HIDE DEF k
    <3>2. QED
      BY <1>1, <3>1 DEF ValidColumn, IsNonDeterministic
  <2>2. CASE c.domain # ""
    <3> DEFINE d == DomainOf(c, s.domains)
    <3>1. d \in ToSet(s.domains)
      BY <1>1, <2>2, DomainFound
    <3>2. ValidType(d.type) /\ ~IsNonDeterministic(d.check)
      BY <1>1, <3>1 DEF Validate, ValidDomains
    <3>3. k = DomainColumn(db.engine, c, d)
      BY <2>2 DEF CompiledColumn
    <3> HIDE DEF d, k
    <3>4. /\ k.name = c.name /\ k.type = ColumnType(db.engine, d.type) /\ k.generated = None
          /\ k.check = None \/ k.check = SubstituteDomainValue(d.check, c.name)
      <4>1. CASE db.engine = "postgres"
        BY <3>3, <4>1 DEF DomainColumn
      <4>2. CASE db.engine # "postgres"
        BY <3>3, <4>2 DEF DomainColumn
      <4>3. QED
        BY <4>1, <4>2
    <3>5. ~IsNonDeterministic(k.check)
      <4>1. CASE k.check = None
        BY <4>1 DEF IsNonDeterministic
      <4>2. CASE k.check = d.check
        BY <3>2, <4>2
      <4>3. CASE k.check = <<d.check[1], c.name>> /\ d.check # None
        <5>1. d.check[1] # "gen_random_uuid"
          BY <3>2, <4>3 DEF IsNonDeterministic
        <5>2. k.check[1] = d.check[1]
          <6> DEFINE about == d.check[1]
          <6> HIDE DEF about
          <6>1. <<about, c.name>>[1] = about
            OBVIOUS
          <6>2. QED
            BY <4>3, <6>1 DEF about
        <5>3. QED
          BY <5>1, <5>2 DEF IsNonDeterministic
      <4>4. QED
        BY <3>4, <4>1, <4>2, <4>3 DEF SubstituteDomainValue
    <3>6. QED
      BY <3>2, <3>4, <3>5
  <2>3. QED
    BY <2>1, <2>2
<1>3. PICK type : ValidType(type) /\ k.type = ColumnType(db.engine, type)
  BY <1>2
<1>4. c.name # ""
  BY <1>1 DEF ValidColumn
<1> HIDE DEF k
<1>5. /\ read.name = k.name /\ read.type = InspectedType(db.engine, k.type) /\ read.domain = ""
      /\ read.nullable = (~k.notNull /\ ~InKey(o, k)) /\ read.default = k.default
      /\ read.generated = k.generated /\ read.stored = (k.generated # None)
  <2>1. Read(db.engine, k.default) = k.default /\ Read(db.engine, k.generated) = k.generated
    BY DEF ResolvedColumn, Read, k
  <2>2. QED
    BY <2>1 DEF InspectedColumn
<1> HIDE DEF read
<1>6. ValidType(read.type) /\ Kept(ColumnType(db.engine, read.type)) = Kept(k.type)
  <2> DEFINE declared == ColumnType(db.engine, type)
             inspected == InspectedType(db.engine, declared)
  <2>1. ValidType(inspected) /\ Kept(ColumnType(db.engine, inspected)) = Kept(declared)
    BY <1>3, TypeReadBack
  <2>2. read.type = inspected /\ k.type = declared
    BY <1>3, <1>5
  <2> HIDE DEF declared, inspected
  <2>3. QED
    BY <2>1, <2>2
<1>7. ValidColumn(read, <<>>)
  BY <1>2, <1>4, <1>5, <1>6 DEF ValidColumn
<1>8. /\ again.name = read.name /\ again.type = ColumnType(db.engine, read.type)
      /\ again.domain = "" /\ again.notNull = ~read.nullable /\ again.default = read.default
      /\ again.generated = read.generated /\ again.check = None
  BY <1>5 DEF CompiledColumn
<1> HIDE DEF again
<1>9. again.notNull <=> k.notNull \/ InKey(o, k)
  BY <1>5, <1>8
<1>10. QED
  BY <1>2, <1>5, <1>6, <1>7, <1>8, <1>9 DEF again, read, k

\* What compileConstraint accepts.
CompilesConstraint(n) ==
    IF n.kind = "check" THEN n.expression # None
    ELSE /\ n.kind \in {"primary_key", "unique", "foreign_key"}
         /\ n.columns # <<>>
         /\ n.kind = "foreign_key" => n.parent # "" /\ n.parentColumns # <<>>

\* What the constraint read, read back for the compiled constraint n, keeps of it.
ReadBackAs(engine, n, read) ==
    LET again == CompiledConstraint(read)
    IN  /\ CompilesConstraint(read) /\ Lists(n.columns, ToSet(n.columns))
        /\ read.kind = n.kind /\ read.expression = n.expression
        /\ Lists(read.columns, ToSet(n.columns))
        /\ read.kind = "check" => ~IsNonDeterministic(read.expression)
        /\ read.kind = "foreign_key" =>
                read.onUpdate \in Actions /\ read.onDelete \in Actions /\ again = n
        /\ again.kind = n.kind /\ again.columns = read.columns
        /\ again.expression = n.expression
        /\ KeptKey(engine, again) = KeptKey(engine, n)

\* An action that was declared is declared again.
LEMMA ActionReadBack ==
    ASSUME NEW action \in Actions
    PROVE  LET declared == CompiledAction(action)
               read == InspectedAction(declared)
           IN  read \in Actions /\ CompiledAction(read) = declared
<1>1. "" \in Actions /\ "no_action" \in Actions
  BY DEF Actions
<1>2. CASE action = "" \/ action = "no_action"
  BY <1>1, <1>2 DEF CompiledAction, InspectedAction
<1>3. CASE action # "" /\ action # "no_action"
  BY <1>3 DEF CompiledAction, InspectedAction
<1>4. QED
  BY <1>2, <1>3

\* A constraint of a table that was made is valid when it is read back, and is
\* declared over the same columns; a foreign key is declared as it was.
LEMMA ConstraintReadBack ==
    ASSUME NEW db, NEW s, MadeOf(db, s), NEW t \in ToSet(s.tables),
           NEW n \in CompiledTable(db.engine, t, s.domains).constraints
    PROVE  ReadBackAs(db.engine, n,
                      InspectedConstraint(db, CompiledTable(db.engine, t, s.domains), n))
<1> DEFINE o == CompiledTable(db.engine, t, s.domains)
           read == InspectedConstraint(db, o, n)
           again == CompiledConstraint(read)
           fields == {"kind", "columns", "parent", "parentColumns", "onUpdate", "onDelete",
                      "expression"}
<1>1. PICK m \in ToSet(t.constraints) : n = CompiledConstraint(m)
  BY DEF CompiledTable
<1>2. /\ m = [field \in fields |-> m[field]] /\ DOMAIN m = fields
      /\ m.columns \in Seq(ToSet(m.columns))
      /\ t.columns \in Seq(ToSet(t.columns))
      /\ ValidConstraint(t, m) /\ CompilesConstraint(m)
  BY DEF MadeOf, IsSchema, Compiles, Validate, ValidTable, CompilesConstraint
<1>3. /\ n = [field \in fields |-> n[field]] /\ DOMAIN n = fields
      /\ n.kind = m.kind /\ n.columns = m.columns /\ n.parent = m.parent
      /\ n.parentColumns = m.parentColumns /\ n.expression = m.expression
      /\ m.kind = "foreign_key" =>
            /\ n.onUpdate = CompiledAction(m.onUpdate) /\ n.onDelete = CompiledAction(m.onDelete)
            /\ m.onUpdate \in Actions /\ m.onDelete \in Actions
  <2>1. CASE m.kind = "foreign_key"
    <3>1. n = [m EXCEPT !.onUpdate = CompiledAction(@), !.onDelete = CompiledAction(@)]
      BY <1>1, <2>1 DEF CompiledConstraint
    <3>2. m.onUpdate \in Actions /\ m.onDelete \in Actions
      BY <1>2, <2>1 DEF ValidConstraint
    <3>3. QED
      BY <1>2, <3>1, <3>2
  <2>2. CASE m.kind # "foreign_key"
    <3>1. n = m
      BY <1>1, <2>2 DEF CompiledConstraint
    <3>2. QED
      BY <1>2, <2>2, <3>1
  <2>3. QED
    BY <2>1, <2>2
<1>4. SoundTable(o) /\ n \in o.constraints
  BY DEF MadeOf
<1>5. Lists(o.columns, ToSet(o.columns))
  <2> DEFINE column(c) == CompiledColumn(db.engine, c, s.domains)
             columns == [i \in DOMAIN t.columns |-> column(t.columns[i])]
  <2>1. o.columns = columns /\ DOMAIN t.columns = 1..Len(t.columns) /\ Len(t.columns) \in Nat
    BY <1>2 DEF CompiledTable
  <2> HIDE DEF column, o
  <2>2. columns \in [1..Len(t.columns) -> ToSet(columns)]
    BY <2>1 DEF ToSet
  <2> HIDE DEF columns
  <2>3. QED
    BY <2>1, <2>2 DEF Lists
<1> HIDE DEF o
<1>6. /\ Lists(n.columns, ToSet(n.columns))
      /\ Lists(InspectedKey(db, o, n), ToSet(n.columns))
  <2>1. ToSet(n.columns) \subseteq ColumnNames(o) /\ Lists(n.columns, ToSet(n.columns))
    BY <1>2, <1>3, <1>4 DEF SoundTable, Lists
  <2>2. QED
    BY <1>5, <2>1, KeyReadBack
<1>7. /\ read = [field \in fields |-> read[field]] /\ DOMAIN read = fields
      /\ read.kind = n.kind /\ read.columns = InspectedKey(db, o, n)
      /\ read.parent = n.parent /\ read.parentColumns = n.parentColumns
      /\ read.expression = n.expression
      /\ read.onUpdate = InspectedAction(n.onUpdate)
      /\ read.onDelete = InspectedAction(n.onDelete)
  BY <1>3 DEF InspectedConstraint
<1> HIDE DEF read
<1>8. n.kind # "check" => read.columns # <<>>
  <2>1. SUFFICES ASSUME n.kind # "check" PROVE ToSet(read.columns) # {}
    BY DEF ToSet
  <2>2. n.columns # <<>> /\ n.columns \in Seq(ToSet(n.columns))
    BY <1>2, <1>3, <1>6, <2>1 DEF CompilesConstraint, Lists
  <2>3. n.columns[1] \in ToSet(n.columns)
    BY <2>2 DEF ToSet
  <2>4. QED
    BY <1>6, <1>7, <2>3 DEF Lists
<1>9. CompilesConstraint(read)
  BY <1>2, <1>3, <1>7, <1>8 DEF CompilesConstraint
<1>10. read.kind = "check" => ~IsNonDeterministic(read.expression)
  BY <1>2, <1>3, <1>7 DEF ValidConstraint
<1>11. read.kind = "foreign_key" =>
            /\ read.onUpdate \in Actions /\ CompiledAction(read.onUpdate) = n.onUpdate
            /\ read.onDelete \in Actions /\ CompiledAction(read.onDelete) = n.onDelete
  BY <1>3, <1>7, ActionReadBack
<1>12. /\ read.kind = "foreign_key" =>
            again = [read EXCEPT !.onUpdate = CompiledAction(@), !.onDelete = CompiledAction(@)]
       /\ read.kind # "foreign_key" => again = read
  BY DEF CompiledConstraint
<1> HIDE DEF again
<1>13. again.kind = read.kind /\ again.columns = read.columns /\ again.expression = read.expression
  BY <1>7, <1>12
<1>14. read.kind = "foreign_key" => again = n
  <2>1. SUFFICES ASSUME read.kind = "foreign_key" PROVE again = n
    OBVIOUS
  <2>2. read.columns = n.columns
    BY <1>7, <2>1 DEF InspectedKey
  <2>3. /\ DOMAIN again = fields /\ again = [field \in fields |-> again[field]]
        /\ again.parent = n.parent /\ again.parentColumns = n.parentColumns
        /\ again.onUpdate = n.onUpdate /\ again.onDelete = n.onDelete
    BY <1>7, <1>11, <1>12, <2>1
  <2>4. \A field \in fields : again[field] = n[field]
    BY <1>7, <1>13, <2>2, <2>3
  <2> HIDE DEF fields
  <2>5. QED
    BY <1>3, <2>3, <2>4
<1>15. KeptKey(db.engine, again) = KeptKey(db.engine, n)
  <2>1. again.kind = n.kind /\ again.columns = InspectedKey(db, o, n)
    BY <1>7, <1>13
  <2>2. CASE db.engine = "sqlite" /\ n.kind = "primary_key"
    <3>1. ToSet(again.columns) = ToSet(n.columns)
      BY <1>6, <2>1 DEF Lists
    <3>2. QED
      BY <2>1, <2>2, <3>1 DEF KeptKey
  <2>3. CASE ~(db.engine = "sqlite" /\ n.kind = "primary_key")
    <3>1. again.columns = n.columns
      BY <2>1, <2>3 DEF InspectedKey
    <3>2. QED
      BY <2>1, <2>3, <3>1 DEF KeptKey
  <2>4. QED
    BY <2>2, <2>3
<1>16. QED
  BY <1>6, <1>7, <1>9, <1>10, <1>11, <1>13, <1>14, <1>15 DEF again, read, o, ReadBackAs

\* The constraints read back are those of the table, with the CHECKs of its
\* columns.
LEMMA ConstraintsReadBack ==
    ASSUME NEW db, NEW s, MadeOf(db, s), NEW t \in ToSet(s.tables),
           ResolvedTable(db.engine, CompiledTable(db.engine, t, s.domains))
    PROVE  LET o == CompiledTable(db.engine, t, s.domains)
               R == {InspectedConstraint(db, o, n) : n \in o.constraints} \cup ColumnChecks(o)
           IN  /\ Lists(InspectedTable(db, o).constraints, R)
               /\ \A x \in ColumnChecks(o) :
                    /\ x.kind = "check" /\ CompiledConstraint(x) = x
                    /\ \E k \in ToSet(o.columns) : k.check # None /\ x.expression = k.check
               /\ \A k \in ToSet(o.columns) : k.check # None =>
                    \E x \in ColumnChecks(o) : x.expression = k.check
<1> DEFINE o == CompiledTable(db.engine, t, s.domains)
           N == o.constraints
           K == ToSet(o.columns)
           Of(k) == [kind |-> "check", columns |-> <<>>, parent |-> "", parentColumns |-> <<>>,
                     onUpdate |-> "", onDelete |-> "", expression |-> k.check]
           I == {InspectedConstraint(db, o, n) : n \in N}
<1>1. t.columns \in Seq(ToSet(t.columns)) /\ t.constraints \in Seq(ToSet(t.constraints))
  BY DEF MadeOf, IsSchema
<1>2. IsFiniteSet(N)
  <2> DEFINE M == ToSet(t.constraints)
             f == [n \in M |-> CompiledConstraint(n)]
  <2>1. N = {f[n] : n \in M} /\ f = [n \in M |-> f[n]]
    BY DEF CompiledTable
  <2>2. IsFiniteSet(M)
    BY <1>1, FiniteList DEF Lists
  <2> HIDE DEF f, M, N
  <2>3. QED
    BY <2>1, <2>2, FiniteImage
<1>3. IsFiniteSet(I)
  <2> DEFINE f == [n \in N |-> InspectedConstraint(db, o, n)]
  <2>1. I = {f[n] : n \in N} /\ f = [n \in N |-> f[n]]
    OBVIOUS
  <2> HIDE DEF f, N, I
  <2>2. QED
    BY <1>2, <2>1, FiniteImage
<1>4. IsFiniteSet(K)
  <2> DEFINE C == ToSet(t.columns)
             f == [c \in C |-> CompiledColumn(db.engine, c, s.domains)]
  <2>1. K = {f[c] : c \in C} /\ f = [c \in C |-> f[c]]
    BY DEF CompiledTable, ToSet
  <2>2. IsFiniteSet(C)
    BY <1>1, FiniteList DEF Lists
  <2> HIDE DEF f, C, K
  <2>3. QED
    BY <2>1, <2>2, FiniteImage
<1>5. ColumnChecks(o) = {Of(k) : k \in {x \in K : x.check # None}}
  BY DEF ColumnChecks
<1>6. IsFiniteSet(ColumnChecks(o))
  <2> DEFINE X == {x \in K : x.check # None}
             f == [k \in X |-> Of(k)]
  <2>1. ColumnChecks(o) = {f[k] : k \in X} /\ f = [k \in X |-> f[k]]
    BY <1>5
  <2>2. IsFiniteSet(X)
    <3>1. X \subseteq K
      OBVIOUS
    <3> HIDE DEF X, K
    <3>2. QED
      BY <1>4, <3>1, FS_Subset
  <2> HIDE DEF f, X
  <2>3. QED
    BY <2>1, <2>2, FiniteImage
<1>7. Lists(InspectedTable(db, o).constraints, I \cup ColumnChecks(o))
  <2> DEFINE R == I \cup ColumnChecks(o)
  <2>1. InspectedTable(db, o).constraints = SetToSeq(R)
    <3>1. \A n \in N : ReadableRule(db.engine, InspectedConstraint(db, o, n))
      <4>1. ASSUME NEW n \in N PROVE ReadableRule(db.engine, InspectedConstraint(db, o, n))
        <5> DEFINE read == InspectedConstraint(db, o, n)
        <5>1. ReadBackAs(db.engine, n, read)
          BY ConstraintReadBack
        <5>2. ReadableRule(db.engine, n)
          BY DEF ResolvedTable
        <5> HIDE DEF read
        <5>3. ReadableRule(db.engine, read)
          BY <5>1, <5>2 DEF ReadBackAs, ReadableRule
        <5>4. QED
          BY <5>3 DEF read
      <4>2. QED
        BY <4>1
    <3>2. \A x \in ColumnChecks(o) : ReadableRule(db.engine, x)
      BY DEF ResolvedTable
    <3>3. ReadRules(db, o) = {x \in R : ReadableRule(db.engine, x)}
      BY DEF ReadRules
    <3>4. \A x \in R : ReadableRule(db.engine, x)
      BY <3>1, <3>2
    <3> HIDE DEF R
    <3>5. ReadRules(db, o) = R
      BY <3>3, <3>4
    <3>6. QED
      BY <3>5 DEF InspectedTable
  <2>2. IsFiniteSet(R)
    <3> HIDE DEF I
    <3>1. QED
      BY <1>3, <1>6, FS_Union
  <2> HIDE DEF R
  <2>3. Lists(SetToSeq(R), R)
    BY <2>2, ListedOnce
  <2>4. QED
    BY <2>1, <2>3 DEF R
<1>8. ASSUME NEW x \in ColumnChecks(o)
      PROVE  /\ x.kind = "check" /\ CompiledConstraint(x) = x
             /\ \E k \in K : k.check # None /\ x.expression = k.check
  <2>1. PICK k \in K : k.check # None /\ x = Of(k)
    BY <1>5
  <2>2. x.kind = "check" /\ x.expression = k.check
    BY <2>1
  <2>3. QED
    BY <2>1, <2>2 DEF CompiledConstraint
<1>9. ASSUME NEW k \in K, k.check # None
      PROVE  \E x \in ColumnChecks(o) : x.expression = k.check
  <2>1. Of(k) \in ColumnChecks(o) /\ Of(k).expression = k.check
    BY <1>5, <1>9
  <2>2. QED
    BY <2>1
<1>10. QED
  BY <1>7, <1>8, <1>9

\* The constraint a is the constraint n again.
DeclaredAs(engine, a, n) ==
    /\ a.kind = n.kind /\ a.expression = n.expression
    /\ KeptKey(engine, a) = KeptKey(engine, n)
    /\ Lists(n.columns, ToSet(n.columns)) /\ Lists(a.columns, ToSet(n.columns))
    /\ n.kind = "foreign_key" => a = n

\* The column a is the column k of the table o again; its CHECK has become
\* one of the table.
ColumnAs(a, k, o) ==
    /\ a.name = k.name /\ a.domain = "" /\ a.check = None
    /\ a.default = k.default /\ a.generated = k.generated /\ Kept(a.type) = Kept(k.type)
    /\ a.notNull <=> k.notNull \/ InKey(o, k)

\* A table is the table o again.
TableAs(engine, a, o) ==
    /\ DOMAIN a.columns = DOMAIN o.columns
    /\ \A i \in DOMAIN o.columns :
        o.columns[i].domain = "" /\ ColumnAs(a.columns[i], o.columns[i], o)
    /\ \A x \in a.constraints :
        \/ \E n \in o.constraints : DeclaredAs(engine, x, n)
        \/ /\ x.kind = "check"
           /\ \E k \in ToSet(o.columns) : k.check # None /\ x.expression = k.check
    /\ \A n \in o.constraints : \E x \in a.constraints : DeclaredAs(engine, x, n)
    /\ \A k \in ToSet(o.columns) : k.check # None =>
        \E x \in a.constraints : x.kind = "check" /\ x.expression = k.check

\* Then it is declared alike.
LEMMA DeclaredAlike ==
    ASSUME NEW db, NEW o, NEW a, TableAs(db.engine, a, o)
    PROVE  Declared(db, a) = Declared(db, o)
<1> DEFINE K == ToSet(o.columns)
           A == ToSet(a.columns)
<1>1. /\ \A k \in K : k.domain = "" /\ \E x \in A : ColumnAs(x, k, o)
      /\ \A x \in A : \E k \in K : k.domain = "" /\ ColumnAs(x, k, o)
  BY DEF TableAs, ToSet
<1>2. Names(a.columns) = Names(o.columns)
  BY DEF TableAs, Names, ColumnAs
<1>3. [i \in DOMAIN a.columns |-> Kept(a.columns[i].type)]
          = [i \in DOMAIN o.columns |-> Kept(o.columns[i].type)]
  BY DEF TableAs, ColumnAs
<1>4. \A x \in A, k \in K : x.name = k.name => (InKey(a, x) <=> InKey(o, k))
  <2>1. ASSUME NEW x, NEW k, x.name = k.name PROVE InKey(a, x) <=> InKey(o, k)
    <3>1. \A y \in a.constraints : y.kind = "primary_key" =>
            \E n \in o.constraints : DeclaredAs(db.engine, y, n)
      BY DEF TableAs
    <3>2. \A n \in o.constraints : \E y \in a.constraints : DeclaredAs(db.engine, y, n)
      BY DEF TableAs
    <3>3. \A y, n : DeclaredAs(db.engine, y, n) =>
            (y.kind = n.kind /\ (Contains(y.columns, x.name) <=> Contains(n.columns, x.name)))
      <4>1. ASSUME NEW y, NEW n, DeclaredAs(db.engine, y, n)
            PROVE  Contains(y.columns, x.name) <=> Contains(n.columns, x.name)
        <5> DEFINE S == ToSet(n.columns)
        <5>1. Lists(y.columns, S) /\ Lists(n.columns, S)
          BY <4>1 DEF DeclaredAs
        <5> HIDE DEF S
        <5>2. QED
          BY <5>1, Contained
      <4>2. QED
        BY <4>1 DEF DeclaredAs
    <3>4. QED
      BY <2>1, <3>1, <3>2, <3>3 DEF InKey, OfKind
  <2>2. QED
    BY <2>1
<1> HIDE DEF K, A
<1>5. NotNullColumns(db, a) = NotNullColumns(db, o)
  <2>1. \A x \in A : x.domain = "" 
    BY <1>1 DEF ColumnAs
  <2>2. NotNullColumns(db, a) = {x.name : x \in {y \in A : y.notNull \/ InKey(a, y)}}
    BY <2>1 DEF NotNullColumns, A
  <2>3. NotNullColumns(db, o) = {k.name : k \in {y \in K : y.notNull \/ InKey(o, y)}}
    BY <1>1 DEF NotNullColumns, K
  <2>4. ASSUME NEW x \in A, x.notNull \/ InKey(a, x) PROVE x.name \in NotNullColumns(db, o)
    <3>1. PICK k \in K : ColumnAs(x, k, o)
      BY <1>1
    <3>2. x.name = k.name /\ (k.notNull \/ InKey(o, k))
      BY <1>4, <2>4, <3>1 DEF ColumnAs
    <3>3. QED
      BY <2>3, <3>2
  <2>5. ASSUME NEW k \in K, k.notNull \/ InKey(o, k) PROVE k.name \in NotNullColumns(db, a)
    <3>1. PICK x \in A : ColumnAs(x, k, o)
      BY <1>1
    <3>2. x.name = k.name /\ x.notNull
      BY <2>5, <3>1 DEF ColumnAs
    <3>3. QED
      BY <2>2, <3>2
  <2> DEFINE X == NotNullColumns(db, a)
             Y == NotNullColumns(db, o)
  <2>6. X \subseteq Y
    BY <2>2, <2>4
  <2>7. Y \subseteq X
    BY <2>3, <2>5
  <2>8. QED
    BY <2>6, <2>7
<1>6. {<<x.name, DefaultOf(db, x), x.generated>> : x \in A}
          = {<<k.name, DefaultOf(db, k), k.generated>> : k \in K}
  <2>1. \A x \in A, k \in K : ColumnAs(x, k, o) =>
            /\ x.name = k.name /\ DefaultOf(db, x) = DefaultOf(db, k)
            /\ x.generated = k.generated
    BY <1>1 DEF ColumnAs, DefaultOf
  <2> DEFINE X == {<<x.name, DefaultOf(db, x), x.generated>> : x \in A}
             Y == {<<k.name, DefaultOf(db, k), k.generated>> : k \in K}
  <2>2. ASSUME NEW x \in A PROVE <<x.name, DefaultOf(db, x), x.generated>> \in Y
    <3>1. PICK k \in K : ColumnAs(x, k, o)
      BY <1>1
    <3>2. QED
      BY <2>1, <3>1
  <2>3. ASSUME NEW k \in K PROVE <<k.name, DefaultOf(db, k), k.generated>> \in X
    <3>1. PICK x \in A : ColumnAs(x, k, o)
      BY <1>1
    <3>2. QED
      BY <2>1, <3>1
  <2>4. QED
    BY <2>2, <2>3
<1>7. ChecksOf(db, a) \ {None} = ChecksOf(db, o) \ {None}
  <2> DEFINE X == {n.expression : n \in OfKind(a, "check")}
             Y == {n.expression : n \in OfKind(o, "check")}
             Z == {k.check : k \in K}
  <2>1. ChecksOf(db, a) = X \cup {x.check : x \in A}
    <3>1. \A x \in A : x.domain = ""
      BY <1>1 DEF ColumnAs
    <3>2. QED
      BY <3>1 DEF ChecksOf, A
  <2>2. ChecksOf(db, o) = Y \cup Z
    BY <1>1 DEF ChecksOf, K
  <2>3. \A x \in A : x.check = None
    BY <1>1 DEF ColumnAs
  <2>4. \A e \in X : e \in Y \/ e \in Z
    <3>1. ASSUME NEW x \in OfKind(a, "check") PROVE x.expression \in Y \cup Z
      <4>1. x \in a.constraints /\ x.kind = "check"
        BY DEF OfKind
      <4>2. CASE \E n \in o.constraints : DeclaredAs(db.engine, x, n)
        BY <4>1, <4>2 DEF OfKind, DeclaredAs
      <4>3. CASE \E k \in ToSet(o.columns) : k.check # None /\ x.expression = k.check
        BY <4>3 DEF K
      <4>4. QED
        BY <4>1, <4>2, <4>3 DEF TableAs
    <3>2. QED
      BY <3>1
  <2>5. \A e \in Y : e \in X
    <3>1. ASSUME NEW n \in OfKind(o, "check") PROVE n.expression \in X
      <4>1. n \in o.constraints /\ n.kind = "check"
        BY DEF OfKind
      <4>2. PICK x \in a.constraints : DeclaredAs(db.engine, x, n)
        BY <4>1 DEF TableAs
      <4>3. QED
        BY <4>1, <4>2 DEF OfKind, DeclaredAs
    <3>2. QED
      BY <3>1
  <2>6. \A e \in Z : e = None \/ e \in X
    BY DEF OfKind, TableAs, K
  <2> HIDE DEF X, Y, Z
  <2>7. QED
    BY <2>1, <2>2, <2>3, <2>4, <2>5, <2>6
<1>8. /\ {<<n.kind, ToSet(n.columns)>> : n \in OfKind(a, "primary_key") \cup OfKind(a, "unique")}
         = {<<n.kind, ToSet(n.columns)>> : n \in OfKind(o, "primary_key") \cup OfKind(o, "unique")}
      /\ {KeptKey(db.engine, n) : n \in OfKind(a, "primary_key") \cup OfKind(a, "unique")}
         = {KeptKey(db.engine, n) : n \in OfKind(o, "primary_key") \cup OfKind(o, "unique")}
  <2> DEFINE X == OfKind(a, "primary_key") \cup OfKind(a, "unique")
             Y == OfKind(o, "primary_key") \cup OfKind(o, "unique")
  <2>1. /\ \A x \in X : \E n \in Y : DeclaredAs(db.engine, x, n)
        /\ \A n \in Y : \E x \in X : DeclaredAs(db.engine, x, n)
    <3>1. \A x \in X : \E n \in o.constraints : DeclaredAs(db.engine, x, n)
      BY DEF OfKind, TableAs
    <3>2. \A n \in Y : \E x \in a.constraints : DeclaredAs(db.engine, x, n)
      BY DEF OfKind, TableAs
    <3>3. \A x, n : DeclaredAs(db.engine, x, n) => x.kind = n.kind
      BY DEF DeclaredAs
    <3>4. /\ \A x : x \in X <=> x \in a.constraints /\ x.kind \in {"primary_key", "unique"}
          /\ \A n : n \in Y <=> n \in o.constraints /\ n.kind \in {"primary_key", "unique"}
      BY DEF OfKind
    <3> HIDE DEF X, Y
    <3>5. QED
      BY <3>1, <3>2, <3>3, <3>4
  <2>2. \A x, n : DeclaredAs(db.engine, x, n) =>
            /\ x.kind = n.kind /\ ToSet(x.columns) = ToSet(n.columns)
            /\ KeptKey(db.engine, x) = KeptKey(db.engine, n)
    BY DEF DeclaredAs, Lists
  <2> HIDE DEF X, Y
  <2>3. {<<n.kind, ToSet(n.columns)>> : n \in X} = {<<n.kind, ToSet(n.columns)>> : n \in Y}
    <3>1. ASSUME NEW x \in X PROVE \E n \in Y : <<x.kind, ToSet(x.columns)>> = <<n.kind, ToSet(n.columns)>>
      BY <2>1, <2>2
    <3>2. ASSUME NEW n \in Y PROVE \E x \in X : <<x.kind, ToSet(x.columns)>> = <<n.kind, ToSet(n.columns)>>
      BY <2>1, <2>2
    <3>3. QED
      BY <3>1, <3>2
  <2>4. {KeptKey(db.engine, n) : n \in X} = {KeptKey(db.engine, n) : n \in Y}
    <3>1. ASSUME NEW x \in X PROVE \E n \in Y : KeptKey(db.engine, x) = KeptKey(db.engine, n)
      BY <2>1, <2>2
    <3>2. ASSUME NEW n \in Y PROVE \E x \in X : KeptKey(db.engine, x) = KeptKey(db.engine, n)
      BY <2>1, <2>2
    <3>3. QED
      BY <3>1, <3>2
  <2>5. QED
    BY <2>3, <2>4 DEF X, Y
<1>9. OfKind(a, "foreign_key") = OfKind(o, "foreign_key")
  BY DEF OfKind, TableAs, DeclaredAs
<1>10. Enforced(db, a) = Enforced(db, o)
  BY <1>2, <1>5, <1>6, <1>7, <1>8, <1>9, Zenon DEF Enforced, A, K
<1>11. QED
  BY <1>3, <1>8, <1>10, Zenon DEF Declared

\* A table that was made is read back valid, and declares itself again.
LEMMA TableReadBack ==
    ASSUME NEW db, NEW s, MadeOf(db, s), db.engine \in Engines, NEW t \in ToSet(s.tables),
           ResolvedTable(db.engine, CompiledTable(db.engine, t, s.domains))
    PROVE  LET o == CompiledTable(db.engine, t, s.domains)
               read == InspectedTable(db, o)
           IN  /\ read.name = t.name /\ Names(read.columns) = Names(t.columns)
               /\ ValidTable(read, <<>>)
               /\ \A n \in ToSet(read.constraints) : CompilesConstraint(n)
               /\ TableAs(db.engine, CompiledTable(db.engine, read, <<>>), o)
<1> DEFINE o == CompiledTable(db.engine, t, s.domains)
           read == InspectedTable(db, o)
           again == CompiledTable(db.engine, read, <<>>)
           Col(i) == CompiledColumn(db.engine, t.columns[i], s.domains)
           ReadCol(i) == InspectedColumn(db, o, Col(i))
           Again(i) == CompiledColumn(db.engine, ReadCol(i), <<>>)
           I == DOMAIN t.columns
           Constraint(n) == InspectedConstraint(db, o, n)
           R == {Constraint(n) : n \in o.constraints} \cup ColumnChecks(o)
<1>1. /\ o.name = t.name /\ o.columns = [i \in I |-> Col(i)]
      /\ read.name = t.name /\ again.name = t.name
      /\ read.columns = [i \in I |-> ReadCol(i)]
      /\ again.columns = [i \in I |-> Again(i)]
  BY DEF CompiledTable, InspectedTable
<1>2. again.constraints = {CompiledConstraint(x) : x \in ToSet(read.constraints)}
  BY DEF CompiledTable
<1>3. /\ Lists(read.constraints, R)
      /\ \A x \in ColumnChecks(o) :
            /\ x.kind = "check" /\ CompiledConstraint(x) = x
            /\ \E k \in ToSet(o.columns) : k.check # None /\ x.expression = k.check
      /\ \A k \in ToSet(o.columns) : k.check # None =>
            \E x \in ColumnChecks(o) : x.expression = k.check
  BY ConstraintsReadBack
<1>4. \A n \in o.constraints :
        /\ CompilesConstraint(Constraint(n)) /\ Lists(n.columns, ToSet(n.columns))
        /\ Constraint(n).kind = n.kind /\ Constraint(n).expression = n.expression
        /\ Lists(Constraint(n).columns, ToSet(n.columns))
        /\ Constraint(n).kind = "check" => ~IsNonDeterministic(Constraint(n).expression)
        /\ Constraint(n).kind = "foreign_key" =>
                /\ Constraint(n).onUpdate \in Actions /\ Constraint(n).onDelete \in Actions
                /\ CompiledConstraint(Constraint(n)) = n
        /\ CompiledConstraint(Constraint(n)).kind = n.kind
        /\ CompiledConstraint(Constraint(n)).columns = Constraint(n).columns
        /\ CompiledConstraint(Constraint(n)).expression = n.expression
        /\ KeptKey(db.engine, CompiledConstraint(Constraint(n))) = KeptKey(db.engine, n)
  <2>1. \A n \in o.constraints : ReadBackAs(db.engine, n, Constraint(n))
    BY ConstraintReadBack
  <2> HIDE DEF o, Constraint
  <2>2. QED
    BY <2>1 DEF ReadBackAs
<1>5. \A i \in I :
        /\ Col(i).domain = "" /\ Col(i).name = t.columns[i].name
        /\ ~IsNonDeterministic(Col(i).check)
        /\ ReadCol(i).name = Col(i).name /\ ReadCol(i).generated = Col(i).generated
        /\ ValidColumn(ReadCol(i), <<>>)
        /\ ColumnAs(Again(i), Col(i), o)
  <2>1. SUFFICES ASSUME NEW i \in I
                 PROVE  /\ Col(i).domain = "" /\ Col(i).name = t.columns[i].name
                        /\ ~IsNonDeterministic(Col(i).check)
                        /\ ReadCol(i).name = Col(i).name /\ ReadCol(i).generated = Col(i).generated
                        /\ ValidColumn(ReadCol(i), <<>>)
                        /\ ColumnAs(Again(i), Col(i), o)
    OBVIOUS
  <2>2. Col(i).domain = "" /\ ResolvedColumn(db.engine, Col(i))
    <3>1. Col(i) \in ToSet(o.columns)
      BY <1>1, <2>1 DEF ToSet
    <3>2. ResolvedColumn(db.engine, Col(i))
      <4> HIDE DEF Col, o
      <4>1. QED
        BY <3>1 DEF ResolvedTable, o
    <3> HIDE DEF Col
    <3>3. QED
      BY <3>2 DEF ResolvedColumn
  <2>3. t.columns[i] \in ToSet(t.columns)
    BY <2>1 DEF ToSet
  <2> DEFINE c == t.columns[i]
             k == CompiledColumn(db.engine, c, s.domains)
             r == InspectedColumn(db, o, k)
             a == CompiledColumn(db.engine, r, <<>>)
  <2>4. k = Col(i) /\ r = ReadCol(i) /\ a = Again(i) /\ c \in ToSet(t.columns)
    BY <2>3
  <2> HIDE DEF o, c
  <2>5. /\ k.name = c.name /\ ~IsNonDeterministic(k.check)
        /\ r.name = k.name /\ r.generated = k.generated
        /\ ValidColumn(r, <<>>)
        /\ a.name = k.name /\ a.domain = "" /\ a.check = None
        /\ a.default = k.default /\ a.generated = k.generated
        /\ Kept(a.type) = Kept(k.type)
        /\ a.notNull <=> k.notNull \/ InKey(o, k)
    BY <2>2, <2>4, ColumnReadBack
  <2> HIDE DEF k, r, a, Col, ReadCol, Again
  <2>6. QED
    BY <2>2, <2>4, <2>5 DEF ColumnAs, c
<1>6. SoundTable(o) /\ ValidTable(t, s.domains) /\ t.columns \in Seq(ToSet(t.columns))
  BY DEF MadeOf, Compiles, Validate, IsSchema
<1> HIDE DEF o, read, again, Col, ReadCol, Again, Constraint
<1>7. /\ ToSet(o.columns) = {Col(i) : i \in I}
      /\ ToSet(read.columns) = {ReadCol(i) : i \in I}
  <2> HIDE DEF I
  <2>1. /\ DOMAIN o.columns = I /\ \A i \in I : o.columns[i] = Col(i)
        /\ DOMAIN read.columns = I /\ \A i \in I : read.columns[i] = ReadCol(i)
    BY <1>1
  <2>2. QED
    BY <2>1 DEF ToSet
<1>8. Names(read.columns) = Names(t.columns)
  BY <1>1, <1>5 DEF Names
<1>9. \A x \in R : KeyIsStored(read, x)
  <2>1. SUFFICES ASSUME NEW x \in R, x.kind = "primary_key", NEW i \in I,
                        ReadCol(i).generated # None
                 PROVE  ~Contains(x.columns, ReadCol(i).name)
    BY <1>7 DEF KeyIsStored
  <2>2. PICK n \in o.constraints : x = Constraint(n)
    BY <1>3, <2>1
  <2>3. n \in OfKind(o, "primary_key")
    BY <1>4, <2>1, <2>2 DEF OfKind
  <2>4. ~Contains(n.columns, Col(i).name)
    BY <1>5, <1>6, <1>7, <2>1, <2>3 DEF SoundTable
  <2> DEFINE S == ToSet(n.columns)
  <2>5. Lists(x.columns, S) /\ Lists(n.columns, S)
    BY <1>4, <2>2
  <2> HIDE DEF S
  <2>6. QED
    BY <1>5, <2>4, <2>5, Contained
<1>10. \A x \in R : ValidConstraint(read, x) /\ CompilesConstraint(x)
  <2>1. ASSUME NEW n \in o.constraints
        PROVE  ValidConstraint(read, Constraint(n)) /\ CompilesConstraint(Constraint(n))
    BY <1>4, <1>9 DEF ValidConstraint
  <2>2. ASSUME NEW x \in ColumnChecks(o)
        PROVE  ValidConstraint(read, x) /\ CompilesConstraint(x)
    <3>1. PICK k \in ToSet(o.columns) : k.check # None /\ x.expression = k.check
      BY <1>3
    <3>2. ~IsNonDeterministic(x.expression)
      BY <1>5, <1>7, <3>1
    <3>3. x.kind = "check"
      BY <1>3
    <3>4. QED
      BY <1>9, <3>1, <3>2, <3>3 DEF ValidConstraint, CompilesConstraint
  <2>3. QED
    BY <2>1, <2>2
<1>11. ValidTable(read, <<>>)
  <2>1. \A c \in ToSet(read.columns) : ValidColumn(c, <<>>)
    BY <1>5, <1>7
  <2>2. \A n \in ToSet(read.constraints) : ValidConstraint(read, n)
    BY <1>3, <1>10 DEF Lists
  <2>3. read.name # "" /\ read.name \notin Reserved /\ Distinct(Names(read.columns))
    BY <1>1, <1>6, <1>8 DEF ValidTable
  <2>4. QED
    BY <2>1, <2>2, <2>3 DEF ValidTable
<1>12. TableAs(db.engine, again, o)
  <2>1. again.constraints = {CompiledConstraint(x) : x \in R}
    BY <1>2, <1>3 DEF Lists
  <2>2. \A n \in o.constraints : DeclaredAs(db.engine, CompiledConstraint(Constraint(n)), n)
    BY <1>4 DEF DeclaredAs
  <2>3. ASSUME NEW y \in again.constraints
        PROVE  \/ \E n \in o.constraints : DeclaredAs(db.engine, y, n)
               \/ /\ y.kind = "check"
                  /\ \E k \in ToSet(o.columns) : k.check # None /\ y.expression = k.check
    <3>1. PICK x \in R : y = CompiledConstraint(x)
      BY <2>1
    <3>2. CASE x \in ColumnChecks(o)
      BY <1>3, <3>1, <3>2
    <3>3. CASE \E n \in o.constraints : x = Constraint(n)
      BY <2>2, <3>1, <3>3
    <3>4. QED
      BY <3>1, <3>2, <3>3
  <2>4. ASSUME NEW n \in o.constraints
        PROVE  \E x \in again.constraints : DeclaredAs(db.engine, x, n)
    <3>1. CompiledConstraint(Constraint(n)) \in again.constraints
      BY <2>1
    <3>2. QED
      BY <2>2, <3>1
  <2>5. ASSUME NEW k \in ToSet(o.columns), k.check # None
        PROVE  \E x \in again.constraints : x.kind = "check" /\ x.expression = k.check
    <3>1. PICK x \in ColumnChecks(o) : x.expression = k.check
      BY <1>3, <2>5
    <3>2. x.kind = "check" /\ CompiledConstraint(x) = x
      BY <1>3
    <3>3. CompiledConstraint(x) \in again.constraints
      BY <2>1
    <3>4. QED
      BY <3>1, <3>2, <3>3
  <2>6. DOMAIN again.columns = DOMAIN o.columns
    BY <1>1
  <2>7. \A i \in DOMAIN o.columns :
            o.columns[i].domain = "" /\ ColumnAs(again.columns[i], o.columns[i], o)
    BY <1>1, <1>5
  <2>8. QED
    BY <2>3, <2>4, <2>5, <2>6, <2>7 DEF TableAs
<1>13. \A n \in ToSet(read.constraints) : CompilesConstraint(n)
  BY <1>3, <1>10 DEF Lists
<1>14. QED
  BY <1>1, <1>8, <1>11, <1>12, <1>13 DEF o, read, again

\* A catalog that was made and shows no domains is read back as a schema that
\* compiles, table for table.
LEMMA CatalogReadBack ==
    ASSUME NEW db, NEW s, MadeOf(db, s), UniquelyNamed(db.tables), InspectCatalog(db).exact
    PROVE  LET found == InspectCatalog(db).schema
           IN  /\ Compiles(found) /\ found.domains = <<>>
               /\ \A x \in ToSet(found.tables) : \E o \in db.tables :
                    x.name = o.name /\ TableAs(db.engine, CompiledTable(db.engine, x, <<>>), o)
               /\ NamesIn(ToSet(found.tables)) = NamesIn(db.tables)
               /\ ToSet(found.indexes) = db.indexes
               /\ ToSet(found.views) = db.views /\ ToSet(found.triggers) = db.triggers
<1> DEFINE found == InspectCatalog(db).schema
           Decl(t) == CompiledTable(db.engine, t, s.domains)
           Found(o) == InspectedTable(db, o)
           T == ToSet(s.tables)
           X == {Found(o) : o \in db.tables}
<1>1. /\ db.engine \in Engines
      /\ \A o \in db.tables : ResolvedTable(db.engine, o)
      /\ \A i \in db.indexes : ReadableIndex(db.engine, i)
      /\ \A o \in db.views \cup db.triggers : Readable(db.engine, o.name)
  BY DEF InspectCatalog, Engines
<1>2. /\ found.domains = <<>> /\ found.routines = <<>>
      /\ found.tables = SetToSeq(X) /\ found.indexes = SetToSeq(db.indexes)
      /\ found.views = SetToSeq(db.views) /\ found.triggers = SetToSeq(db.triggers)
  <2> DEFINE I == {i \in db.indexes : ReadableIndex(db.engine, i)}
             V == {o \in db.views : Readable(db.engine, o.name)}
             G == {o \in db.triggers : Readable(db.engine, o.name)}
  <2>1. /\ found.domains = <<>> /\ found.routines = <<>>
        /\ found.tables = SetToSeq(X) /\ found.indexes = SetToSeq(I)
        /\ found.views = SetToSeq(V) /\ found.triggers = SetToSeq(G)
    BY DEF InspectCatalog, NoSchema
  <2>2. I = db.indexes /\ V = db.views /\ G = db.triggers
    BY <1>1
  <2> HIDE DEF I, V, G, found, X
  <2>3. QED
    BY <2>1, <2>2
<1>3. IsSchema(s) /\ Validate(s) /\ Compiles(s) /\ db.tables = {Decl(t) : t \in T}
      /\ db.indexes = ToSet(s.indexes) /\ db.views = ToSet(s.views)
      /\ db.triggers = ToSet(s.triggers)
  BY DEF MadeOf, Compiles
<1>4. \A part \in DOMAIN s : Lists(s[part], ToSet(s[part]))
  BY <1>3 DEF IsSchema, Lists
<1>5. /\ Lists(s.tables, T) /\ Lists(s.indexes, ToSet(s.indexes))
      /\ Lists(s.views, ToSet(s.views)) /\ Lists(s.triggers, ToSet(s.triggers))
  BY <1>3, <1>4 DEF IsSchema
<1>6. ASSUME NEW t \in T
      PROVE  /\ Found(Decl(t)).name = t.name /\ Names(Found(Decl(t)).columns) = Names(t.columns)
             /\ ValidTable(Found(Decl(t)), <<>>)
             /\ \A n \in ToSet(Found(Decl(t)).constraints) : CompilesConstraint(n)
             /\ TableAs(db.engine, CompiledTable(db.engine, Found(Decl(t)), <<>>), Decl(t))
  <2>1. ResolvedTable(db.engine, Decl(t))
    BY <1>1, <1>3
  <2>2. QED
    BY <1>1, <2>1, TableReadBack
<1>7. \A o : Found(o).name = o.name
  BY DEF InspectedTable
<1> HIDE DEF Found, Decl, T, found
<1>8. /\ IsFiniteSet(X) /\ IsFiniteSet(db.indexes) /\ IsFiniteSet(db.views)
      /\ IsFiniteSet(db.triggers)
  <2>1. IsFiniteSet(T) /\ IsFiniteSet(db.indexes) /\ IsFiniteSet(db.views)
        /\ IsFiniteSet(db.triggers)
    BY <1>3, <1>5, FiniteList
  <2> DEFINE f == [t \in T |-> Found(Decl(t))]
  <2>2. X = {f[t] : t \in T} /\ f = [t \in T |-> f[t]]
    BY <1>3
  <2> HIDE DEF f, X
  <2>3. QED
    BY <2>1, <2>2, FiniteImage
<1>9. UniquelyNamed(X)
  BY <1>7 DEF UniquelyNamed
<1>10. X = {Found(Decl(t)) : t \in T} /\ NamesIn(X) = NamesIn(T)
  <2>1. X = {Found(Decl(t)) : t \in T}
    BY <1>3
  <2>2. \A t \in T : Found(Decl(t)).name = t.name
    BY <1>6
  <2> HIDE DEF X
  <2>3. QED
    BY <2>1, <2>2 DEF NamesIn
<1> HIDE DEF X
<1>11. /\ Lists(found.tables, X) /\ Distinct(Names(found.tables))
       /\ Lists(found.indexes, db.indexes) /\ Lists(found.views, db.views)
       /\ Lists(found.triggers, db.triggers)
  BY <1>2, <1>8, <1>9, ListedOnce, ListedNames
<1>12. /\ Distinct(Names(found.indexes)) /\ Distinct(Names(found.views))
       /\ Distinct(Names(found.triggers))
  <2>1. /\ Distinct(Names(s.indexes)) /\ Distinct(Names(s.views)) /\ Distinct(Names(s.triggers))
    BY <1>3 DEF Validate, ValidIndexes, ValidViews, ValidTriggers
  <2>2. /\ UniquelyNamed(db.indexes) /\ UniquelyNamed(db.views) /\ UniquelyNamed(db.triggers)
    BY <1>3, <2>1, DistinctMembers
  <2>3. QED
    BY <1>2, <1>8, <2>2, ListedNames
<1>13. \A x \in X : ValidTable(x, found.domains)
  BY <1>2, <1>6, <1>10
<1>14. ValidIndexes(found.indexes, found.tables)
  <2>1. ASSUME NEW index \in db.indexes, NEW t \in T, t.name = index.table,
               \A key \in ToSet(index.columns) :
                  IF key.expression # None THEN key.column = ""
                  ELSE Contains(Names(t.columns), key.column)
        PROVE  \E x \in X :
                  /\ x.name = index.table
                  /\ \A key \in ToSet(index.columns) :
                        IF key.expression # None THEN key.column = ""
                        ELSE Contains(Names(x.columns), key.column)
    <3>1. /\ Found(Decl(t)) \in X /\ Found(Decl(t)).name = index.table
          /\ Names(Found(Decl(t)).columns) = Names(t.columns)
      BY <1>6, <1>10, <2>1
    <3> DEFINE x == Found(Decl(t))
    <3> HIDE DEF x
    <3>2. x \in X /\ x.name = index.table /\ Names(x.columns) = Names(t.columns)
      BY <3>1 DEF x
    <3>3. QED
      BY <2>1, <3>2
  <2>2. \A index \in db.indexes : /\ index.name # "" /\ index.columns # <<>>
            /\ \E t \in T :
                /\ t.name = index.table
                /\ \A key \in ToSet(index.columns) :
                    IF key.expression # None THEN key.column = ""
                    ELSE Contains(Names(t.columns), key.column)
    BY <1>3 DEF Validate, ValidIndexes, T
  <2>3. ToSet(found.indexes) = db.indexes /\ ToSet(found.tables) = X
    BY <1>11 DEF Lists
  <2>4. QED
    BY <1>12, <2>1, <2>2, <2>3 DEF ValidIndexes
<1>15. ValidViews(found.views, found.tables)
  <2>1. \A v \in db.views : /\ v.name # "" /\ ~Contains(Names(s.tables), v.name)
                            /\ v.reads # {} /\ v.projections > 0
    BY <1>3 DEF Validate, ValidViews
  <2>2. \A name : Contains(Names(s.tables), name) <=> name \in NamesIn(T)
    BY <1>5, NamesContained
  <2>3. \A name : Contains(Names(found.tables), name) <=> name \in NamesIn(X)
    BY <1>11, NamesContained
  <2>4. ToSet(found.views) = db.views
    BY <1>11 DEF Lists
  <2>5. QED
    BY <1>10, <1>12, <2>1, <2>2, <2>3, <2>4 DEF ValidViews
<1>16. ValidTriggers(found.triggers)
  <2>1. ToSet(found.triggers) = ToSet(s.triggers)
    BY <1>3, <1>11 DEF Lists
  <2>2. QED
    BY <1>3, <1>12, <2>1 DEF Validate, ValidTriggers
<1>17. ValidDomains(found.domains) /\ ValidRoutines(found.routines)
  BY <1>2 DEF ValidDomains, ValidRoutines, ToSet, Distinct, Names, IsInjective
<1>18. Compiles(found)
  <2>1. ToSet(found.triggers) = ToSet(s.triggers) /\ ToSet(found.tables) = X
    BY <1>3, <1>11 DEF Lists
  <2>2. Validate(found)
    BY <1>11, <1>13, <1>14, <1>15, <1>16, <1>17, <2>1 DEF Validate
  <2>3. \A x \in X : \A n \in ToSet(x.constraints) : CompilesConstraint(n)
    BY <1>6, <1>10
  <2>4. \A g \in ToSet(found.triggers) : \A target \in ToSet(g.actions) : target # ""
    BY <1>3, <2>1 DEF Compiles
  <2>5. QED
    BY <2>1, <2>2, <2>3, <2>4 DEF Compiles, CompilesConstraint
<1>19. ASSUME NEW x \in ToSet(found.tables)
       PROVE  \E o \in db.tables :
                x.name = o.name /\ TableAs(db.engine, CompiledTable(db.engine, x, <<>>), o)
  <2>1. x \in X
    BY <1>11 DEF Lists
  <2>2. PICK t \in T : x = Found(Decl(t))
    BY <1>10, <2>1
  <2>3. QED
    BY <1>3, <1>6, <1>7, <2>2
<1>20. /\ NamesIn(ToSet(found.tables)) = NamesIn(db.tables)
       /\ ToSet(found.indexes) = db.indexes
       /\ ToSet(found.views) = db.views /\ ToSet(found.triggers) = db.triggers
  <2>1. /\ ToSet(found.tables) = X /\ ToSet(found.indexes) = db.indexes
        /\ ToSet(found.views) = db.views /\ ToSet(found.triggers) = db.triggers
    BY <1>11 DEF Lists
  <2>2. NamesIn(X) = NamesIn(db.tables)
    BY <1>7 DEF NamesIn, X
  <2>3. QED
    BY <2>1, <2>2
<1>21. QED
  BY <1>2, <1>18, <1>19, <1>20 DEF found

\* What an inspection calls exact compiles, declares the tables that are there
\* with what it keeps of them, whatever made them, and leaves out none of the
\* tables, indexes, views and triggers.
THEOREM InspectionFaithful == Spec => []InspectionIsFaithful
<1>1. IndInv => InspectionIsFaithful
  <2> DEFINE Again(db, found, t) == CompiledTable(db.engine, t, found.domains)
  <2>1. SUFFICES ASSUME IndInv, NEW db \in {source, destination}, InspectSchema(db).exact
                 PROVE  LET found == InspectSchema(db).schema
                        IN  /\ Compiles(found)
                            /\ \A t \in ToSet(found.tables) :
                                Declared(db, Again(db, found, t))
                                    = Declared(db, Named(db.tables, t.name))
                            /\ ~db.managed =>
                                /\ NamesIn(ToSet(found.tables)) = NamesIn(db.tables)
                                /\ ToSet(found.indexes) = db.indexes
                                /\ ToSet(found.views) = db.views
                                /\ ToSet(found.triggers) = db.triggers
    BY DEF InspectionIsFaithful, MadeAgain
  <2> DEFINE found == InspectSchema(db).schema
  <2>2. CatalogOK(db) /\ DatabaseOK(db)
    BY <2>1 DEF IndInv, CatalogsOK, RunInv, TypeOK
  <2>3. CASE db.managed
    <3>1. found = db.metadata
      BY <2>3 DEF InspectSchema
    <3> DEFINE s == db.metadata
    <3>2. Compiles(s) /\ IsSchema(s) /\ Has(db, s) /\ UniquelyNamed(db.tables)
      BY <2>2, <2>3 DEF CatalogOK, DatabaseOK
    <3> HIDE DEF s, found
    <3>3. \A t \in ToSet(s.tables) : Named(db.tables, t.name) = Again(db, s, t)
      BY <3>2, TableThere
    <3>4. found = s
      BY <3>1 DEF s
    <3>5. QED
      BY <2>3, <3>2, <3>3, <3>4 DEF found
  <2>4. CASE ~db.managed
    <3>1. InspectSchema(db) = InspectCatalog(db)
      BY <2>4 DEF InspectSchema
    <3>2. PICK s : MadeOf(db, s)
      BY <2>1, <2>4, UnmanagedIsMade
    <3>3. /\ Compiles(found) /\ found.domains = <<>>
          /\ \A x \in ToSet(found.tables) : \E o \in db.tables :
                x.name = o.name /\ TableAs(db.engine, CompiledTable(db.engine, x, <<>>), o)
          /\ NamesIn(ToSet(found.tables)) = NamesIn(db.tables)
          /\ ToSet(found.indexes) = db.indexes
          /\ ToSet(found.views) = db.views /\ ToSet(found.triggers) = db.triggers
      BY <2>1, <2>2, <3>1, <3>2, CatalogReadBack DEF CatalogOK
    <3> HIDE DEF found
    <3>4. ASSUME NEW t \in ToSet(found.tables)
          PROVE  Declared(db, CompiledTable(db.engine, t, <<>>))
                    = Declared(db, Named(db.tables, t.name))
      <4>1. PICK o \in db.tables :
                t.name = o.name /\ TableAs(db.engine, CompiledTable(db.engine, t, <<>>), o)
        BY <3>3
      <4>2. Named(db.tables, t.name) = o
        BY <2>2, <4>1, NamedObject DEF CatalogOK
      <4>3. QED
        BY <4>1, <4>2, DeclaredAlike
    <3>5. QED
      BY <3>3, <3>4 DEF found
  <2>5. QED
    BY <2>3, <2>4
<1>2. QED
  BY <1>1, CatalogsInductive, PTL

-----------------------------------------------------------------------------
(* Lists of statements, one after the other.                               *)

\* Databases that declare the same objects, and accept the same statements.
Alike(d, e) ==
    /\ DOMAIN d = DOMAIN Empty("sqlite") /\ DOMAIN e = DOMAIN Empty("sqlite")
    /\ d.engine = e.engine /\ d.domains = e.domains /\ d.tables = e.tables
    /\ d.indexes = e.indexes /\ d.views = e.views /\ d.functions = e.functions
    /\ d.triggers = e.triggers

LEMMA AlikeAccepts ==
    ASSUME NEW d, NEW e, Alike(d, e), NEW st
    PROVE  Accepts(d, st) <=> Accepts(e, st)
BY DEF Alike, Accepts, Relations, Referable

LEMMA AlikeExecuted ==
    ASSUME NEW d, NEW e, Alike(d, e), NEW statements
    PROVE  Alike(Executed(d, statements), Executed(e, statements))
BY Fields DEF Alike, Executed

LEMMA AlikeAcceptsAll ==
    ASSUME NEW d, NEW e, Alike(d, e), NEW statements
    PROVE  AcceptsAll(d, statements) <=> AcceptsAll(e, statements)
BY AlikeExecuted, AlikeAccepts DEF AcceptsAll

LEMMA MadeConcat ==
    ASSUME NEW S, NEW a \in Seq(S), NEW b \in Seq(S), NEW kind
    PROVE  Made(a \o b, kind) = Made(a, kind) \cup Made(b, kind)
BY ConcatElements DEF Made

\* One list after the other declares what their concatenation declares.
LEMMA ExecutedConcat ==
    ASSUME NEW S, NEW a \in Seq(S), NEW b \in Seq(S), NEW db,
           DOMAIN db = DOMAIN Empty("sqlite")
    PROVE  Alike(Executed(db, a \o b), Executed(Executed(db, a), b))
<1> DEFINE d == Executed(db, a \o b)
           c == Executed(db, a)
           e == Executed(c, b)
<1>1. \A kind : Made(a \o b, kind) = Made(a, kind) \cup Made(b, kind)
  BY MadeConcat
<1>2. /\ DOMAIN c = DOMAIN Empty("sqlite") /\ c.engine = db.engine
      /\ c.domains = db.domains \cup Made(a, "domain")
      /\ c.tables = db.tables \cup Made(a, "table")
      /\ c.indexes = db.indexes \cup Made(a, "index")
      /\ c.views = db.views \cup Made(a, "view")
      /\ c.functions = db.functions \cup Made(a, "function")
      /\ c.triggers = db.triggers \cup Made(a, "trigger")
  BY Fields DEF Executed
<1>3. /\ DOMAIN d = DOMAIN Empty("sqlite") /\ d.engine = db.engine
      /\ d.domains = db.domains \cup Made(a \o b, "domain")
      /\ d.tables = db.tables \cup Made(a \o b, "table")
      /\ d.indexes = db.indexes \cup Made(a \o b, "index")
      /\ d.views = db.views \cup Made(a \o b, "view")
      /\ d.functions = db.functions \cup Made(a \o b, "function")
      /\ d.triggers = db.triggers \cup Made(a \o b, "trigger")
  BY Fields DEF Executed
<1> HIDE DEF c, d
<1>4. /\ DOMAIN e = DOMAIN Empty("sqlite") /\ e.engine = c.engine
      /\ e.domains = c.domains \cup Made(b, "domain")
      /\ e.tables = c.tables \cup Made(b, "table")
      /\ e.indexes = c.indexes \cup Made(b, "index")
      /\ e.views = c.views \cup Made(b, "view")
      /\ e.functions = c.functions \cup Made(b, "function")
      /\ e.triggers = c.triggers \cup Made(b, "trigger")
  BY <1>2, Fields DEF Executed
<1> HIDE DEF e
<1>5. Alike(d, e)
  BY <1>1, <1>2, <1>3, <1>4 DEF Alike
<1>6. QED
  BY <1>5 DEF d, e, c

LEMMA ConcatAt ==
    ASSUME NEW S, NEW a \in Seq(S), NEW b \in Seq(S)
    PROVE  /\ a \o b \in Seq(S) /\ Len(a \o b) = Len(a) + Len(b)
           /\ \A i \in 1..Len(a) : (a \o b)[i] = a[i]
           /\ \A j \in 1..Len(b) : (a \o b)[Len(a) + j] = b[j]
OBVIOUS

\* The first elements of a concatenation.
LEMMA ConcatPrefix ==
    ASSUME NEW S, NEW a \in Seq(S), NEW b \in Seq(S)
    PROVE  /\ DOMAIN (a \o b) = 1 .. Len(a) + Len(b)
           /\ \A i \in 1..Len(a) : /\ (a \o b)[i] = a[i]
                                   /\ SubSeq(a \o b, 1, i - 1) = SubSeq(a, 1, i - 1)
           /\ \A j \in 1..Len(b) :
                /\ (a \o b)[Len(a) + j] = b[j]
                /\ SubSeq(a \o b, 1, Len(a) + j - 1) = a \o SubSeq(b, 1, j - 1)
<1> DEFINE c == a \o b
<1>1. /\ c \in Seq(S) /\ Len(c) = Len(a) + Len(b) /\ Len(a) \in Nat /\ Len(b) \in Nat
      /\ DOMAIN c = 1 .. Len(a) + Len(b)
      /\ \A i \in 1..Len(a) : c[i] = a[i]
      /\ \A j \in 1..Len(b) : c[Len(a) + j] = b[j]
  OBVIOUS
<1> HIDE DEF c
<1>2. ASSUME NEW i \in 1..Len(a)
      PROVE  SubSeq(c, 1, i - 1) = SubSeq(a, 1, i - 1)
  <2>1. /\ SubSeq(c, 1, i - 1) \in Seq(S) /\ SubSeq(a, 1, i - 1) \in Seq(S)
        /\ Len(SubSeq(c, 1, i - 1)) = i - 1 /\ Len(SubSeq(a, 1, i - 1)) = i - 1
        /\ \A k \in 1 .. i - 1 : SubSeq(c, 1, i - 1)[k] = c[k]
        /\ \A k \in 1 .. i - 1 : SubSeq(a, 1, i - 1)[k] = a[k]
    BY <1>1
  <2>2. \A k \in 1 .. i - 1 : SubSeq(c, 1, i - 1)[k] = SubSeq(a, 1, i - 1)[k]
    BY <1>1, <2>1
  <2> DEFINE x == SubSeq(c, 1, i - 1)
             y == SubSeq(a, 1, i - 1)
  <2> HIDE DEF x, y
  <2>3. x \in Seq(S) /\ y \in Seq(S) /\ Len(x) = Len(y) /\ \A k \in 1..Len(x) : x[k] = y[k]
    BY <2>1, <2>2 DEF x, y
  <2>4. x = y
    BY <2>3
  <2>5. QED
    BY <2>4 DEF x, y
<1>3. ASSUME NEW j \in 1..Len(b)
      PROVE  SubSeq(c, 1, Len(a) + j - 1) = a \o SubSeq(b, 1, j - 1)
  <2> DEFINE n == Len(a) + j - 1
             z == SubSeq(b, 1, j - 1)
             x == SubSeq(c, 1, n)
             y == a \o z
  <2>1. /\ z \in Seq(S) /\ Len(z) = j - 1 /\ \A k \in 1 .. j - 1 : z[k] = b[k]
    BY <1>1
  <2>2. n \in 0..Len(c) /\ n = Len(a) + (j - 1)
    BY <1>1
  <2>3. x \in Seq(S) /\ Len(x) = n /\ \A k \in 1..n : x[k] = c[k]
    <3> HIDE DEF n
    <3>1. QED
      BY <1>1, <2>2
  <2> HIDE DEF z, n, x
  <2>4. /\ y \in Seq(S) /\ Len(y) = n
        /\ \A k \in 1..Len(a) : y[k] = a[k]
        /\ \A k \in 1 .. j - 1 : y[Len(a) + k] = z[k]
    <3>1. z \in Seq(S) /\ Len(z) = j - 1
      BY <2>1
    <3>2. y \in Seq(S) /\ Len(y) = Len(a) + Len(z)
      BY <3>1, ConcatAt
    <3>3. \A k \in 1..Len(a) : y[k] = a[k]
      BY <3>1, ConcatAt
    <3>4. \A k \in 1..Len(z) : y[Len(a) + k] = z[k]
      BY <3>1, ConcatAt
    <3> HIDE DEF y
    <3>5. QED
      BY <2>2, <3>1, <3>2, <3>3, <3>4
  <2> HIDE DEF y
  <2>5. ASSUME NEW k \in 1..n PROVE x[k] = y[k]
    <3>1. CASE k \in 1..Len(a)
      BY <1>1, <2>3, <2>4, <3>1
    <3>2. CASE k \notin 1..Len(a)
      <4> DEFINE m == k - Len(a)
      <4>1. m \in 1 .. j - 1 /\ m \in 1..Len(b) /\ k = Len(a) + m
        BY <1>1, <2>2, <3>2
      <4> HIDE DEF m
      <4>2. QED
        BY <1>1, <2>1, <2>3, <2>4, <4>1
    <3>3. QED
      BY <3>1, <3>2
  <2>6. x = y
    BY <2>3, <2>4, <2>5
  <2>7. QED
    BY <2>6 DEF x, y, n, z
<1>4. QED
  BY <1>1, <1>2, <1>3 DEF c

\* A concatenation is accepted when its parts are, one after the other.
LEMMA AcceptsConcat ==
    ASSUME NEW S, NEW a \in Seq(S), NEW b \in Seq(S), NEW db,
           DOMAIN db = DOMAIN Empty("sqlite")
    PROVE  AcceptsAll(db, a \o b) <=> AcceptsAll(db, a) /\ AcceptsAll(Executed(db, a), b)
<1> DEFINE c == a \o b
<1>1. /\ DOMAIN c = 1 .. Len(a) + Len(b) /\ Len(a) \in Nat /\ Len(b) \in Nat
      /\ DOMAIN a = 1..Len(a) /\ DOMAIN b = 1..Len(b)
      /\ \A i \in 1..Len(a) : c[i] = a[i] /\ SubSeq(c, 1, i - 1) = SubSeq(a, 1, i - 1)
      /\ \A j \in 1..Len(b) : /\ c[Len(a) + j] = b[j]
                              /\ SubSeq(c, 1, Len(a) + j - 1) = a \o SubSeq(b, 1, j - 1)
  <2>1. /\ Len(a) \in Nat /\ Len(b) \in Nat /\ DOMAIN a = 1..Len(a) /\ DOMAIN b = 1..Len(b)
    OBVIOUS
  <2>2. DOMAIN c = 1 .. Len(a) + Len(b)
    BY ConcatPrefix
  <2>3. \A i \in 1..Len(a) : c[i] = a[i] /\ SubSeq(c, 1, i - 1) = SubSeq(a, 1, i - 1)
    BY ConcatPrefix, Zenon
  <2>4. \A j \in 1..Len(b) : /\ c[Len(a) + j] = b[j]
                              /\ SubSeq(c, 1, Len(a) + j - 1) = a \o SubSeq(b, 1, j - 1)
    BY ConcatPrefix, Zenon
  <2>5. QED
    BY <2>1, <2>2, <2>3, <2>4
<1> HIDE DEF c
<1>2. \A i \in 1..Len(a) : Accepts(Executed(db, SubSeq(c, 1, i - 1)), c[i])
                                <=> Accepts(Executed(db, SubSeq(a, 1, i - 1)), a[i])
  BY <1>1
<1>3. ASSUME NEW j \in 1..Len(b)
      PROVE  Accepts(Executed(db, SubSeq(c, 1, Len(a) + j - 1)), c[Len(a) + j])
                <=> Accepts(Executed(Executed(db, a), SubSeq(b, 1, j - 1)), b[j])
  <2> DEFINE x == SubSeq(b, 1, j - 1)
  <2>1. x \in Seq(S)
    BY <1>1
  <2> HIDE DEF x
  <2>2. Alike(Executed(db, a \o x), Executed(Executed(db, a), x))
    BY <2>1, ExecutedConcat
  <2>3. Accepts(Executed(db, a \o x), b[j]) <=> Accepts(Executed(Executed(db, a), x), b[j])
    BY <2>2, AlikeAccepts
  <2>4. QED
    BY <1>1, <2>3 DEF x
<1>4. ASSUME AcceptsAll(db, c)
      PROVE  AcceptsAll(db, a) /\ AcceptsAll(Executed(db, a), b)
  <2>1. \A i \in 1..Len(a) : i \in DOMAIN c
    BY <1>1
  <2>2. \A j \in 1..Len(b) : Len(a) + j \in DOMAIN c
    BY <1>1
  <2>3. \A i \in 1..Len(a) : Accepts(Executed(db, SubSeq(a, 1, i - 1)), a[i])
    BY <1>2, <1>4, <2>1 DEF AcceptsAll
  <2>4. \A j \in 1..Len(b) : Accepts(Executed(Executed(db, a), SubSeq(b, 1, j - 1)), b[j])
    BY <1>3, <1>4, <2>2 DEF AcceptsAll
  <2>5. QED
    BY <1>1, <2>3, <2>4 DEF AcceptsAll
<1>5. ASSUME AcceptsAll(db, a), AcceptsAll(Executed(db, a), b)
      PROVE  AcceptsAll(db, c)
  <2>1. ASSUME NEW i \in DOMAIN c PROVE Accepts(Executed(db, SubSeq(c, 1, i - 1)), c[i])
    <3>1. CASE i \in 1..Len(a)
      BY <1>1, <1>2, <1>5, <3>1 DEF AcceptsAll
    <3>2. CASE i \notin 1..Len(a)
      <4> DEFINE j == i - Len(a)
      <4>1. j \in 1..Len(b) /\ i = Len(a) + j
        BY <1>1, <3>2
      <4> HIDE DEF j
      <4>2. Accepts(Executed(Executed(db, a), SubSeq(b, 1, j - 1)), b[j])
        BY <1>1, <1>5, <4>1 DEF AcceptsAll
      <4>3. QED
        BY <1>3, <4>1, <4>2
    <3>3. QED
      BY <3>1, <3>2
  <2>2. QED
    BY <2>1 DEF AcceptsAll
<1>6. QED
  BY <1>4, <1>5 DEF c

\* The concatenations of the first members of a list of lists.
Partial(f, lists, S) ==
    /\ f \in [0..Len(lists) -> Seq(S)] /\ f[0] = <<>>
    /\ \A n \in 1..Len(lists) : f[n] = f[n - 1] \o lists[n]

LEMMA PartialStep ==
    ASSUME NEW S, NEW lists \in Seq(Seq(S)), NEW f, Partial(f, lists, S),
           NEW n \in Nat, n + 1 <= Len(lists)
    PROVE  f[n] \in Seq(S) /\ lists[n + 1] \in Seq(S) /\ f[n + 1] = f[n] \o lists[n + 1]
<1>1. n + 1 \in 1..Len(lists) /\ n \in 0..Len(lists) /\ n + 1 - 1 = n
  OBVIOUS
<1>2. /\ f \in [0..Len(lists) -> Seq(S)]
      /\ \A m \in 1..Len(lists) : f[m] = f[m - 1] \o lists[m]
  BY DEF Partial
<1>3. \A m \in 1..Len(lists) : lists[m] \in Seq(S)
  OBVIOUS
<1>4. f[n + 1] = f[n] \o lists[n + 1]
  <2> DEFINE m == n + 1
  <2>1. m \in 1..Len(lists) /\ m - 1 = n
    BY <1>1
  <2> HIDE DEF m
  <2>2. f[m] = f[m - 1] \o lists[m]
    BY <1>2, <2>1
  <2>3. f[m] = f[n] \o lists[m]
    BY <2>1, <2>2
  <2>4. QED
    BY <2>3 DEF m
<1>5. QED
  BY <1>1, <1>2, <1>3, <1>4

\* A list of lists is accepted when its members are, one after the other.
LEMMA AcceptsSteps ==
    ASSUME NEW S, NEW lists \in Seq(Seq(S)), NEW f, Partial(f, lists, S), NEW db,
           DOMAIN db = DOMAIN Empty("sqlite")
    PROVE  AcceptsAll(db, f[Len(lists)])
                <=> \A n \in 1..Len(lists) : AcceptsAll(Executed(db, f[n - 1]), lists[n])
<1> DEFINE N == Len(lists)
           P(n) == AcceptsAll(Executed(db, f[n - 1]), lists[n])
           Holds(m) == AcceptsAll(db, f[m]) <=> \A n \in 1..m : P(n)
           M == {m \in Nat : m <= N => Holds(m)}
<1>1. N \in Nat
  OBVIOUS
<1>2. 0 \in M
  <2>1. f[0] = <<>> /\ AcceptsAll(db, <<>>)
    BY DEF Partial, AcceptsAll
  <2>2. QED
    BY <2>1
<1>3. ASSUME NEW m \in Nat, m \in M PROVE m + 1 \in M
  <2>1. SUFFICES ASSUME m + 1 <= N PROVE Holds(m + 1)
    OBVIOUS
  <2>2. f[m] \in Seq(S) /\ lists[m + 1] \in Seq(S) /\ f[m + 1] = f[m] \o lists[m + 1]
    BY <2>1, PartialStep
  <2>3. AcceptsAll(db, f[m + 1])
            <=> AcceptsAll(db, f[m]) /\ AcceptsAll(Executed(db, f[m]), lists[m + 1])
    BY <2>2, AcceptsConcat
  <2>4. P(m + 1) <=> AcceptsAll(Executed(db, f[m]), lists[m + 1])
    <3>1. m + 1 - 1 = m
      OBVIOUS
    <3>2. QED
      BY <3>1
  <2> HIDE DEF P
  <2>5. 1..m + 1 = (1..m) \cup {m + 1}
    OBVIOUS
  <2>6. Holds(m)
    BY <1>1, <1>3, <2>1
  <2>7. QED
    BY <2>3, <2>4, <2>5, <2>6
<1>4. Nat \subseteq M
  <2> HIDE DEF M
  <2>1. QED
    BY <1>2, <1>3, SetInduction
<1>5. Holds(N)
  BY <1>1, <1>4
<1>6. QED
  BY <1>5

\* The partial concatenations have the elements of the members they are of.
Collects(f, lists, m) == \A x : x \in ToSet(f[m]) <=> \E i \in 1..m : x \in ToSet(lists[i])

LEMMA PartialElements ==
    ASSUME NEW S, NEW lists \in Seq(Seq(S)), NEW f, Partial(f, lists, S),
           NEW m \in 0..Len(lists)
    PROVE  f[m] \in Seq(S) /\ Collects(f, lists, m)
<1> DEFINE N == Len(lists)
           Holds(n) == \A x : x \in ToSet(f[n]) <=> \E i \in 1..n : x \in ToSet(lists[i])
           M == {n \in Nat : n <= N => Holds(n)}
<1>1. N \in Nat
  OBVIOUS
<1>2. 0 \in M
  BY DEF ToSet, Partial
<1>3. ASSUME NEW n \in Nat, n \in M PROVE n + 1 \in M
  <2> HIDE DEF Holds
  <2>1. SUFFICES ASSUME n + 1 <= N PROVE Holds(n + 1)
    OBVIOUS
  <2>2. Holds(n)
    <3>1. n <= N
      BY <1>1, <2>1
    <3>2. n <= N => Holds(n)
      BY <1>3, Zenon
    <3>3. QED
      BY <3>1, <3>2, Zenon
  <2> USE DEF Holds
  <2>3. f[n] \in Seq(S) /\ lists[n + 1] \in Seq(S) /\ f[n + 1] = f[n] \o lists[n + 1]
    BY <2>1, PartialStep
  <2>4. ToSet(f[n + 1]) = ToSet(f[n]) \cup ToSet(lists[n + 1])
    BY <2>3, ConcatElements
  <2>5. 1..n + 1 = (1..n) \cup {n + 1}
    OBVIOUS
  <2>6. ASSUME NEW x
        PROVE  x \in ToSet(f[n + 1]) <=> \E i \in 1..n + 1 : x \in ToSet(lists[i])
    <3>1. x \in ToSet(f[n + 1]) <=> x \in ToSet(f[n]) \/ x \in ToSet(lists[n + 1])
      BY <2>4, Zenon
    <3>2. x \in ToSet(f[n]) <=> \E i \in 1..n : x \in ToSet(lists[i])
      BY <2>2, Zenon
    <3>3. (\E i \in 1..n + 1 : x \in ToSet(lists[i]))
            <=> (\E i \in 1..n : x \in ToSet(lists[i])) \/ x \in ToSet(lists[n + 1])
      BY <2>5, Zenon
    <3>4. QED
      BY <3>1, <3>2, <3>3, Zenon
  <2>7. QED
    BY <2>6, Zenon
<1>4. Nat \subseteq M
  <2> HIDE DEF M
  <2>1. QED
    BY <1>2, <1>3, SetInduction
<1>5. Holds(m)
  <2>1. m \in Nat /\ m <= N
    BY <1>1
  <2> HIDE DEF Holds, N
  <2>2. QED
    BY <1>4, <2>1
<1>6. QED
  BY <1>5 DEF Partial, Collects

-----------------------------------------------------------------------------
(* Lists of inserts, one after the other.                                  *)

\* Databases that take the same inserts.
TakeAlike(d, e) == d.tables = e.tables /\ d.triggers = e.triggers /\ d.rows = e.rows

LEMMA AlikeInsert ==
    ASSUME NEW d, NEW e, TakeAlike(d, e), NEW t, NEW id
    PROVE  CanInsert(d, t, id) <=> CanInsert(e, t, id)
BY DEF TakeAlike, CanInsert, Reached

LEMMA InsertedConcat ==
    ASSUME NEW S, NEW a \in Seq(S), NEW b \in Seq(S), NEW db,
           DOMAIN db = DOMAIN Empty("sqlite")
    PROVE  TakeAlike(Inserted(db, a \o b), Inserted(Inserted(db, a), b))
<1> DEFINE d == Inserted(db, a \o b)
           c == Inserted(db, a)
           e == Inserted(c, b)
           Into(list, u) == {insert[2] : insert \in {i \in ToSet(list) : u \in Reached(db, i[1])}}
<1>1. /\ DOMAIN c = DOMAIN db /\ c.tables = db.tables /\ c.triggers = db.triggers
      /\ c.rows = [u \in DOMAIN db.rows |-> db.rows[u] \cup Into(a, u)]
  BY Fields DEF Inserted
<1>2. /\ d.tables = db.tables /\ d.triggers = db.triggers
      /\ d.rows = [u \in DOMAIN db.rows |-> db.rows[u] \cup Into(a \o b, u)]
  BY Fields DEF Inserted
<1> HIDE DEF c, d
<1>3. \A t : Reached(c, t) = Reached(db, t)
  BY <1>1 DEF Reached
<1>4. /\ e.tables = c.tables /\ e.triggers = c.triggers
      /\ e.rows = [u \in DOMAIN c.rows |-> c.rows[u] \cup Into(b, u)]
  <2>1. e.rows = [u \in DOMAIN c.rows |-> c.rows[u] \cup
                    {insert[2] : insert \in {i \in ToSet(b) : u \in Reached(c, i[1])}}]
    BY <1>1, Fields DEF Inserted
  <2>2. QED
    BY <1>1, <1>3, <2>1, Fields DEF Inserted
<1> HIDE DEF e
<1>5. \A u : Into(a \o b, u) = Into(a, u) \cup Into(b, u)
  <2>1. ToSet(a \o b) = ToSet(a) \cup ToSet(b)
    BY ConcatElements
  <2>2. QED
    BY <2>1
<1> HIDE DEF Into
<1>6. d.rows = e.rows
  <2>1. DOMAIN c.rows = DOMAIN db.rows
    BY <1>1
  <2>2. \A u \in DOMAIN db.rows : (db.rows[u] \cup Into(a, u)) \cup Into(b, u)
                                        = db.rows[u] \cup Into(a \o b, u)
    BY <1>5
  <2>3. \A u \in DOMAIN db.rows : c.rows[u] = db.rows[u] \cup Into(a, u)
    BY <1>1
  <2>4. e.rows = [u \in DOMAIN db.rows |-> db.rows[u] \cup Into(a \o b, u)]
    BY <1>4, <2>1, <2>2, <2>3
  <2>5. QED
    BY <1>2, <2>4
<1>7. TakeAlike(d, e)
  BY <1>1, <1>2, <1>4, <1>6 DEF TakeAlike
<1>8. QED
  BY <1>7 DEF d, e, c

\* Inserts that can be made, and then others that can, can be made together.
LEMMA InsertsConcat ==
    ASSUME NEW S, NEW a \in Seq(S), NEW b \in Seq(S), NEW db,
           DOMAIN db = DOMAIN Empty("sqlite"),
           CanInsertAll(db, a), CanInsertAll(Inserted(db, a), b)
    PROVE  CanInsertAll(db, a \o b)
<1> DEFINE c == a \o b
<1>1. /\ Len(a) \in Nat /\ Len(b) \in Nat /\ DOMAIN a = 1..Len(a) /\ DOMAIN b = 1..Len(b)
  OBVIOUS
<1>2. DOMAIN c = 1 .. Len(a) + Len(b)
  BY ConcatPrefix
<1>3. \A i \in 1..Len(a) : c[i] = a[i] /\ SubSeq(c, 1, i - 1) = SubSeq(a, 1, i - 1)
  BY ConcatPrefix, Zenon
<1> DEFINE J == 1..Len(b)
<1>4. \A j \in J : /\ c[Len(a) + j] = b[j]
                    /\ SubSeq(c, 1, Len(a) + j - 1) = a \o SubSeq(b, 1, j - 1)
  BY ConcatPrefix, Zenon
<1> HIDE DEF c, J
<1>5. ASSUME NEW i \in DOMAIN c
      PROVE  CanInsert(Inserted(db, SubSeq(c, 1, i - 1)), c[i][1], c[i][2])
  <2>1. CASE i \in 1..Len(a)
    BY <1>1, <1>3, <2>1 DEF CanInsertAll
  <2>2. CASE i \notin 1..Len(a)
    <3> DEFINE j == i - Len(a)
    <3>1. j \in J /\ i = Len(a) + j
      BY <1>1, <1>2, <2>2 DEF J
    <3> HIDE DEF j
    <3> DEFINE x == SubSeq(b, 1, j - 1)
    <3>2. x \in Seq(S)
      BY <1>1, <3>1 DEF J
    <3>3. CanInsert(Inserted(Inserted(db, a), x), b[j][1], b[j][2])
      BY <1>1, <3>1 DEF CanInsertAll, J
    <3>4. c[i] = b[j] /\ SubSeq(c, 1, i - 1) = a \o x
      <4>1. i = Len(a) + j /\ i - 1 = Len(a) + (j - 1)
        BY <1>1, <3>1 DEF J
      <4>2. /\ c[Len(a) + j] = b[j]
            /\ SubSeq(c, 1, Len(a) + (j - 1)) = a \o SubSeq(b, 1, j - 1)
        BY <1>4, <3>1, Zenon
      <4>3. QED
        BY <4>1, <4>2, Zenon
    <3> HIDE DEF x
    <3>5. TakeAlike(Inserted(db, a \o x), Inserted(Inserted(db, a), x))
      BY <3>2, InsertedConcat
    <3>6. QED
      BY <3>3, <3>4, <3>5, AlikeInsert
  <2>3. QED
    BY <2>1, <2>2
<1>6. QED
  BY <1>5 DEF CanInsertAll, c

LEMMA InsertsSteps ==
    ASSUME NEW S, NEW lists \in Seq(Seq(S)), NEW f, Partial(f, lists, S), NEW db,
           DOMAIN db = DOMAIN Empty("sqlite"),
           \A n \in 1..Len(lists) : CanInsertAll(Inserted(db, f[n - 1]), lists[n])
    PROVE  CanInsertAll(db, f[Len(lists)])
<1> DEFINE N == Len(lists)
           M == {m \in Nat : m <= N => CanInsertAll(db, f[m])}
<1>1. N \in Nat
  OBVIOUS
<1>2. 0 \in M
  BY DEF Partial, CanInsertAll
<1>3. ASSUME NEW m \in Nat, m \in M PROVE m + 1 \in M
  <2>1. SUFFICES ASSUME m + 1 <= N PROVE CanInsertAll(db, f[m + 1])
    OBVIOUS
  <2>2. f[m] \in Seq(S) /\ lists[m + 1] \in Seq(S) /\ f[m + 1] = f[m] \o lists[m + 1]
    BY <2>1, PartialStep
  <2>3. CanInsertAll(Inserted(db, f[m]), lists[m + 1])
    <3>1. m + 1 \in 1..Len(lists) /\ m + 1 - 1 = m
      BY <2>1
    <3>2. QED
      BY <3>1
  <2>4. CanInsertAll(db, f[m])
    BY <1>1, <1>3, <2>1
  <2>5. QED
    BY <2>2, <2>3, <2>4, InsertsConcat
<1>4. Nat \subseteq M
  <2> HIDE DEF M
  <2>1. QED
    BY <1>2, <1>3, SetInduction
<1>5. QED
  BY <1>1, <1>4

-----------------------------------------------------------------------------
(* What PostgreSQL accepts of tables, indexes and views, the other engine  *)
(* accepts.                                                                *)

SameColumns(x, y) == x.name = y.name /\ ColumnNames(x) = ColumnNames(y)

\* A database of another engine with the relations of one of PostgreSQL.
Mirrors(d, p) ==
    /\ DOMAIN d = DOMAIN Empty("sqlite") /\ DOMAIN p = DOMAIN Empty("sqlite")
    /\ d.engine # "postgres" /\ p.engine = "postgres"
    /\ d.indexes = p.indexes /\ d.views = p.views
    /\ \A x \in d.tables : \E y \in p.tables : SameColumns(x, y)
    /\ \A y \in p.tables : \E x \in d.tables : SameColumns(x, y)

\* The statement x of the other engine for the statement y of PostgreSQL.
Twin(x, y) ==
    \/ /\ x.kind = "table" /\ y.kind = "table" /\ SameColumns(x.object, y.object)
       /\ SoundTable(y.object) => SoundTable(x.object)
    \/ x.kind \in {"index", "view"} /\ x = y

Twins(a, b) ==
    /\ Len(a) \in Nat /\ Len(b) = Len(a) /\ DOMAIN a = 1..Len(a) /\ DOMAIN b = 1..Len(a)
    /\ \A i \in 1..Len(a) : Twin(a[i], b[i])

LEMMA MirrorsAccept ==
    ASSUME NEW d, NEW p, Mirrors(d, p), NEW x, NEW y, Twin(x, y), Accepts(p, y)
    PROVE  Accepts(d, x)
<1>1. /\ NamesIn(d.tables) = NamesIn(p.tables) /\ NamesIn(d.indexes) = NamesIn(p.indexes)
      /\ NamesIn(d.views) = NamesIn(p.views)
  BY DEF Mirrors, NamesIn, SameColumns
<1>2. Relations(d) = Relations(p)
  BY <1>1 DEF Relations
<1>3. CASE x.kind = "table" /\ y.kind = "table"
  <2>1. y.object.name \notin Relations(p) /\ SoundTable(y.object)
    BY <1>3 DEF Accepts
  <2>2. x.object.name = y.object.name /\ (SoundTable(y.object) => SoundTable(x.object))
    BY <1>3 DEF Twin, SameColumns
  <2>3. d.engine # "postgres"
    BY DEF Mirrors
  <2>4. QED
    BY <1>2, <1>3, <2>1, <2>2, <2>3 DEF Accepts
<1>4. CASE x.kind = "index" /\ x = y
  <2>1. /\ x.object.name \notin Relations(p)
        /\ \E t \in p.tables : t.name = x.object.table
             /\ {k.column : k \in ToSet(x.object.columns)} \subseteq ColumnNames(t) \cup {""}
    BY <1>4 DEF Accepts
  <2>2. PICK t \in p.tables : t.name = x.object.table
             /\ {k.column : k \in ToSet(x.object.columns)} \subseteq ColumnNames(t) \cup {""}
    BY <2>1
  <2>3. PICK u \in d.tables : SameColumns(u, t)
    BY DEF Mirrors
  <2>4. u.name = x.object.table
        /\ {k.column : k \in ToSet(x.object.columns)} \subseteq ColumnNames(u) \cup {""}
    BY <2>2, <2>3 DEF SameColumns
  <2>5. QED
    BY <1>2, <1>4, <2>1, <2>4 DEF Accepts
<1>5. CASE x.kind = "view" /\ x = y
  <2>1. x.object.name \notin Relations(p) /\ d.engine # "postgres"
    BY <1>5 DEF Accepts, Mirrors
  <2>2. QED
    BY <1>2, <1>5, <2>1 DEF Accepts
<1>6. QED
  BY <1>3, <1>4, <1>5 DEF Twin

LEMMA MirrorsExecuted ==
    ASSUME NEW d, NEW p, Mirrors(d, p), NEW a, NEW b, Twins(a, b)
    PROVE  Mirrors(Executed(d, a), Executed(p, b))
<1> DEFINE c == Executed(d, a)
           q == Executed(p, b)
<1>1. /\ DOMAIN c = DOMAIN Empty("sqlite") /\ c.engine = d.engine
      /\ c.tables = d.tables \cup Made(a, "table")
      /\ c.indexes = d.indexes \cup Made(a, "index")
      /\ c.views = d.views \cup Made(a, "view")
  BY Fields DEF Executed, Mirrors
<1>2. /\ DOMAIN q = DOMAIN Empty("sqlite") /\ q.engine = p.engine
      /\ q.tables = p.tables \cup Made(b, "table")
      /\ q.indexes = p.indexes \cup Made(b, "index")
      /\ q.views = p.views \cup Made(b, "view")
  BY Fields DEF Executed, Mirrors
<1> HIDE DEF c, q
<1>3. /\ DOMAIN a = DOMAIN b /\ \A i \in DOMAIN a : Twin(a[i], b[i])
  BY DEF Twins
<1>4. /\ \A kind : Made(a, kind) = {a[i].object : i \in {j \in DOMAIN a : a[j].kind = kind}}
      /\ \A kind : Made(b, kind) = {b[i].object : i \in {j \in DOMAIN a : b[j].kind = kind}}
  BY <1>3 DEF Made, ToSet
<1>5. Made(a, "index") = Made(b, "index") /\ Made(a, "view") = Made(b, "view")
  <2>1. ASSUME NEW kind \in {"index", "view"} PROVE Made(a, kind) = Made(b, kind)
    <3>1. ASSUME NEW i \in DOMAIN a
          PROVE  /\ a[i].kind = kind <=> b[i].kind = kind
                 /\ a[i].kind = kind => a[i].object = b[i].object
      BY <1>3 DEF Twin
    <3>2. Made(a, kind) \subseteq Made(b, kind)
      BY <1>4, <3>1
    <3>3. Made(b, kind) \subseteq Made(a, kind)
      BY <1>4, <3>1
    <3>4. QED
      BY <3>2, <3>3
  <2>2. QED
    BY <2>1
<1>6. ASSUME NEW x \in Made(a, "table") PROVE \E y \in Made(b, "table") : SameColumns(x, y)
  <2>1. PICK i \in DOMAIN a : a[i].kind = "table" /\ x = a[i].object
    BY <1>4
  <2>2. b[i].kind = "table" /\ SameColumns(x, b[i].object)
    BY <1>3, <2>1 DEF Twin
  <2>3. QED
    BY <1>4, <2>2
<1>7. ASSUME NEW y \in Made(b, "table") PROVE \E x \in Made(a, "table") : SameColumns(x, y)
  <2>1. PICK i \in DOMAIN a : b[i].kind = "table" /\ y = b[i].object
    BY <1>4
  <2>2. a[i].kind = "table" /\ SameColumns(a[i].object, y)
    BY <1>3, <2>1 DEF Twin
  <2>3. QED
    BY <1>4, <2>2
<1>8. Mirrors(c, q)
  <2>1. \A x \in c.tables : \E y \in q.tables : SameColumns(x, y)
    BY <1>1, <1>2, <1>6 DEF Mirrors
  <2>2. \A y \in q.tables : \E x \in c.tables : SameColumns(x, y)
    BY <1>1, <1>2, <1>7 DEF Mirrors
  <2>3. QED
    BY <1>1, <1>2, <1>5, <2>1, <2>2 DEF Mirrors
<1>9. QED
  BY <1>8 DEF c, q

LEMMA TwinPrefixes ==
    ASSUME NEW S, NEW T, NEW a \in Seq(S), NEW b \in Seq(T), Twins(a, b), NEW i \in DOMAIN a
    PROVE  Twins(SubSeq(a, 1, i - 1), SubSeq(b, 1, i - 1))
<1>1. i \in 1..Len(a) /\ i \in 1..Len(b) /\ Len(a) \in Nat /\ Len(b) = Len(a)
  BY DEF Twins
<1>2. /\ SubSeq(a, 1, i - 1) \in Seq(S) /\ Len(SubSeq(a, 1, i - 1)) = i - 1
      /\ \A k \in 1 .. i - 1 : SubSeq(a, 1, i - 1)[k] = a[k]
  BY <1>1
<1>3. /\ SubSeq(b, 1, i - 1) \in Seq(T) /\ Len(SubSeq(b, 1, i - 1)) = i - 1
      /\ \A k \in 1 .. i - 1 : SubSeq(b, 1, i - 1)[k] = b[k]
  BY <1>1
<1> DEFINE x == SubSeq(a, 1, i - 1)
           y == SubSeq(b, 1, i - 1)
<1> HIDE DEF x, y
<1>4. \A k \in 1 .. i - 1 : Twin(a[k], b[k])
  BY <1>1 DEF Twins
<1>5. x \in Seq(S) /\ y \in Seq(T) /\ Len(x) = i - 1 /\ Len(y) = i - 1
      /\ \A k \in 1 .. i - 1 : Twin(x[k], y[k])
  BY <1>2, <1>3, <1>4 DEF x, y
<1>6. Twins(x, y)
  BY <1>1, <1>5 DEF Twins
<1>7. QED
  BY <1>6 DEF x, y

LEMMA TwinsAccept ==
    ASSUME NEW d, NEW p, Mirrors(d, p), NEW S, NEW T, NEW a \in Seq(S), NEW b \in Seq(T),
           Twins(a, b), AcceptsAll(p, b)
    PROVE  AcceptsAll(d, a) /\ Mirrors(Executed(d, a), Executed(p, b))
<1>1. ASSUME NEW i \in DOMAIN a PROVE Accepts(Executed(d, SubSeq(a, 1, i - 1)), a[i])
  <2> DEFINE x == SubSeq(a, 1, i - 1)
             y == SubSeq(b, 1, i - 1)
  <2>1. Twins(x, y)
    BY TwinPrefixes
  <2>2. Accepts(Executed(p, y), b[i]) /\ Twin(a[i], b[i])
    BY DEF AcceptsAll, Twins
  <2> HIDE DEF x, y
  <2>3. Mirrors(Executed(d, x), Executed(p, y))
    BY <2>1, MirrorsExecuted
  <2>4. Accepts(Executed(d, x), a[i])
    BY <2>2, <2>3, MirrorsAccept
  <2>5. QED
    BY <2>4 DEF x
<1>2. QED
  BY <1>1, MirrorsExecuted DEF AcceptsAll

\* Only a column of a domain is declared differently, and neither engine
\* generates it.
LEMMA TwinTables ==
    ASSUME NEW engine, NEW t, NEW domains
    PROVE  Twin([kind |-> "table", object |-> CompiledTable(engine, t, domains)],
                [kind |-> "table", object |-> CompiledTable("postgres", t, domains)])
<1> DEFINE o == CompiledTable(engine, t, domains)
           q == CompiledTable("postgres", t, domains)
           Col(c) == CompiledColumn(engine, c, domains)
           PCol(c) == CompiledColumn("postgres", c, domains)
           I == DOMAIN t.columns
<1>1. /\ o.name = t.name /\ q.name = t.name /\ o.constraints = q.constraints
      /\ o.columns = [i \in I |-> Col(t.columns[i])]
      /\ q.columns = [i \in I |-> PCol(t.columns[i])]
  BY DEF CompiledTable
<1>2. ASSUME NEW c
      PROVE  /\ Col(c).name = PCol(c).name /\ Col(c).generated = PCol(c).generated
             /\ Col(c).generated # None => Col(c).default = PCol(c).default
  <2>1. CASE c.domain = ""
    BY <2>1 DEF CompiledColumn
  <2>2. CASE c.domain # ""
    <3> DEFINE d == DomainOf(c, domains)
    <3>1. Col(c) = DomainColumn(engine, c, d) /\ PCol(c) = DomainColumn("postgres", c, d)
      BY <2>2 DEF CompiledColumn
    <3>2. \A e : DomainColumn(e, c, d).name = c.name /\ DomainColumn(e, c, d).generated = None
      <4> HIDE DEF d
      <4>1. ASSUME NEW e
            PROVE  DomainColumn(e, c, d).name = c.name /\ DomainColumn(e, c, d).generated = None
        <5>1. CASE e = "postgres"
          BY <5>1 DEF DomainColumn
        <5>2. CASE e # "postgres"
          BY <5>2 DEF DomainColumn
        <5>3. QED
          BY <5>1, <5>2
      <4>2. QED
        BY <4>1
    <3> HIDE DEF d
    <3>3. QED
      BY <3>1, <3>2
  <2>3. QED
    BY <2>1, <2>2
<1> HIDE DEF o, q, Col, PCol, I
<1>3. /\ DOMAIN o.columns = I /\ \A i \in I : o.columns[i] = Col(t.columns[i])
      /\ DOMAIN q.columns = I /\ \A i \in I : q.columns[i] = PCol(t.columns[i])
  BY <1>1
<1>4. Names(o.columns) = Names(q.columns)
  BY <1>2, <1>3 DEF Names
<1>5. SameColumns(o, q)
  BY <1>1, <1>4 DEF SameColumns, ColumnNames
<1>6. \A kind : OfKind(o, kind) = OfKind(q, kind)
  BY <1>1 DEF OfKind
<1>7. ASSUME SoundTable(q) PROVE SoundTable(o)
  <2>1. ASSUME NEW c \in ToSet(o.columns), c.generated # None
        PROVE  c.default = None /\ \A n \in OfKind(o, "primary_key") : ~Contains(n.columns, c.name)
    <3>1. PICK i \in I : c = Col(t.columns[i])
      BY <1>3, <2>1 DEF ToSet
    <3> DEFINE k == PCol(t.columns[i])
    <3>2. k \in ToSet(q.columns)
      BY <1>3 DEF ToSet
    <3>3. k.name = c.name /\ k.generated = c.generated /\ c.default = k.default
      BY <1>2, <2>1, <3>1
    <3> HIDE DEF k
    <3>4. k.default = None /\ \A n \in OfKind(q, "primary_key") : ~Contains(n.columns, k.name)
      BY <1>7, <2>1, <3>2, <3>3 DEF SoundTable
    <3>5. QED
      BY <1>6, <3>3, <3>4
  <2>2. /\ Distinct(Names(o.columns)) /\ Cardinality(OfKind(o, "primary_key")) <= 1
        /\ \A n \in o.constraints : ToSet(n.columns) \subseteq ColumnNames(o)
    BY <1>1, <1>4, <1>5, <1>6, <1>7 DEF SoundTable, SameColumns
  <2>3. QED
    BY <2>1, <2>2 DEF SoundTable
<1>8. QED
  BY <1>5, <1>7 DEF Twin, o, q

-----------------------------------------------------------------------------
(* The statements of a schema, kind by kind.                               *)

DomainList(engine, s) ==
    Creating("domain", IF engine = "postgres" THEN s.domains ELSE <<>>)

TableList(engine, s) ==
    Creating("table", [i \in DOMAIN s.tables |-> CompiledTable(engine, s.tables[i], s.domains)])

IndexList(s) == Creating("index", s.indexes)

ViewList(s) == Creating("view", s.views)

BaseList(engine, s) ==
    DomainList(engine, s) \o TableList(engine, s) \o IndexList(s) \o ViewList(s)

Bodies(engine, triggers) == [i \in DOMAIN triggers |-> CompiledTrigger(engine, triggers[i])]

BodyList(engine, s) == FlattenSeq(Bodies(engine, s.triggers))

LEMMA Segments ==
    ASSUME NEW engine, NEW s, IsSchema(s)
    PROVE  LET S == StatementsOf(engine, s)
           IN  /\ DomainList(engine, s) \in Seq(S) /\ TableList(engine, s) \in Seq(S)
               /\ IndexList(s) \in Seq(S) /\ ViewList(s) \in Seq(S)
               /\ BaseList(engine, s) \in Seq(S) /\ BodyList(engine, s) \in Seq(S)
<1> DEFINE S == StatementsOf(engine, s)
           domains == IF engine = "postgres" THEN s.domains ELSE <<>>
           DomainSet == IF engine = "postgres" THEN ToSet(s.domains) ELSE {}
           Compiled == {CompiledTable(engine, t, s.domains) : t \in ToSet(s.tables)}
           Scripts == UNION {ToSet(CompiledTrigger(engine, g)) : g \in ToSet(s.triggers)}
<1>1. /\ Lists(s.domains, ToSet(s.domains)) /\ Lists(s.tables, ToSet(s.tables))
      /\ Lists(s.indexes, ToSet(s.indexes)) /\ Lists(s.views, ToSet(s.views))
      /\ Lists(s.triggers, ToSet(s.triggers))
  BY SchemaParts
<1>2. Lists(domains, DomainSet)
  <2>1. Lists(<<>>, {})
    BY DEF Lists, ToSet
  <2>2. QED
    BY <1>1, <2>1
<1>3. /\ Creations("domain", DomainSet) \subseteq S /\ Creations("table", Compiled) \subseteq S
      /\ Creations("index", ToSet(s.indexes)) \subseteq S
      /\ Creations("view", ToSet(s.views)) \subseteq S /\ Scripts \subseteq S
  BY DEF StatementsOf
<1>4. /\ Lists(DomainList(engine, s), Creations("domain", DomainSet))
      /\ Lists(TableList(engine, s), Creations("table", Compiled))
      /\ Lists(IndexList(s), Creations("index", ToSet(s.indexes)))
      /\ Lists(ViewList(s), Creations("view", ToSet(s.views)))
  <2>1. Lists([i \in DOMAIN s.tables |-> CompiledTable(engine, s.tables[i], s.domains)], Compiled)
    BY <1>1, TableLists
  <2>2. Lists(DomainList(engine, s), Creations("domain", DomainSet))
    BY <1>2, CreatingLists DEF DomainList
  <2>3. Lists(TableList(engine, s), Creations("table", Compiled))
    <3> HIDE DEF Compiled
    <3>1. QED
      BY <2>1, CreatingLists DEF TableList
  <2>4. QED
    BY <1>1, <2>2, <2>3, CreatingLists DEF IndexList, ViewList
<1>5. Lists(BodyList(engine, s), Scripts)
  BY <1>1, TriggerStatements DEF BodyList, Bodies
<1> HIDE DEF S, DomainSet, Compiled, Scripts
<1>6. /\ DomainList(engine, s) \in Seq(S) /\ TableList(engine, s) \in Seq(S)
      /\ IndexList(s) \in Seq(S) /\ ViewList(s) \in Seq(S) /\ BodyList(engine, s) \in Seq(S)
  BY <1>3, <1>4, <1>5, WiderSequence
<1>7. BaseList(engine, s) \in Seq(S)
  BY <1>6, ConcatElements DEF BaseList
<1>8. QED
  BY <1>6, <1>7 DEF S

LEMMA DomainStatements ==
    ASSUME NEW engine, NEW s
    PROVE  \A st \in ToSet(DomainList(engine, s)) : st.kind = "domain"
<1>1. ASSUME NEW objects PROVE \A st \in ToSet(Creating("domain", objects)) : st.kind = "domain"
  BY DEF Creating, ToSet
<1>2. QED
  BY <1>1 DEF DomainList

LEMMA SplitStatements ==
    ASSUME NEW engine, NEW s, IsSchema(s)
    PROVE  /\ Statements(engine, s) = BaseList(engine, s) \o BodyList(engine, s)
           /\ Statements(engine, BaseSchema(s)) = BaseList(engine, s)
           /\ Statements(engine, TriggerSchema(s)) = BodyList(engine, s)
<1> DEFINE b == BaseSchema(s)
           t == TriggerSchema(s)
           S == StatementsOf(engine, s)
<1>1. \A x : Statements(engine, x) = BaseList(engine, x) \o BodyList(engine, x)
  BY DEF Statements, BaseList, BodyList, Bodies, DomainList, TableList, IndexList, ViewList
<1>2. /\ b.domains = s.domains /\ b.tables = s.tables /\ b.indexes = s.indexes
      /\ b.views = s.views /\ b.triggers = <<>>
  BY DEF IsSchema, BaseSchema
<1>3. /\ t.domains = <<>> /\ t.tables = <<>> /\ t.indexes = <<>>
      /\ t.views = <<>> /\ t.triggers = s.triggers
  BY DEF TriggerSchema, NoSchema
<1> HIDE DEF b, t
<1>4. BaseList(engine, b) = BaseList(engine, s)
  BY <1>2 DEF BaseList, DomainList, TableList, IndexList, ViewList
<1>5. BodyList(engine, b) = <<>>
  <2>1. Bodies(engine, <<>>) = <<>>
    BY DEF Bodies
  <2>2. FlattenSeq(<<>>) = <<>>
    BY DEF FlattenSeq
  <2>3. QED
    BY <1>2, <2>1, <2>2 DEF BodyList
<1>6. BodyList(engine, t) = BodyList(engine, s)
  BY <1>3 DEF BodyList
<1>7. BaseList(engine, t) = <<>>
  <2>1. \A kind : Creating(kind, <<>>) = <<>>
    BY DEF Creating
  <2>2. DomainList(engine, t) = <<>> /\ TableList(engine, t) = <<>> /\ IndexList(t) = <<>>
        /\ ViewList(t) = <<>>
    <3>1. [i \in DOMAIN <<>> |-> CompiledTable(engine, t.tables[i], t.domains)] = <<>>
      OBVIOUS
    <3>2. QED
      BY <1>3, <2>1, <3>1 DEF DomainList, TableList, IndexList, ViewList
  <2>3. <<>> \o <<>> = <<>>
    OBVIOUS
  <2>4. QED
    BY <2>2, <2>3 DEF BaseList
<1>8. BaseList(engine, s) \in Seq(S) /\ BodyList(engine, s) \in Seq(S)
  BY Segments
<1> HIDE DEF S
<1>9. BaseList(engine, s) \o <<>> = BaseList(engine, s)
  BY <1>8
<1>10. <<>> \o BodyList(engine, s) = BodyList(engine, s)
  BY <1>8
<1>11. QED
  BY <1>1, <1>4, <1>5, <1>6, <1>7, <1>9, <1>10 DEF b, t

-----------------------------------------------------------------------------
(* A self-contained schema is created in a database that is new.           *)

IsNew(db) ==
    /\ DOMAIN db = DOMAIN Empty("sqlite")
    /\ db.domains = {} /\ db.tables = {} /\ db.indexes = {} /\ db.views = {}
    /\ db.functions = {} /\ db.triggers = {}

LEMMA EmptyIsNew ==
    ASSUME NEW engine
    PROVE  IsNew(Empty(engine)) /\ Empty(engine).engine = engine
BY DEF IsNew, Empty

LEMMA MirrorsAlike ==
    ASSUME NEW d, NEW p, Mirrors(d, p), NEW c, NEW q, Alike(c, d), Alike(q, p)
    PROVE  Mirrors(c, q)
BY DEF Mirrors, Alike

LEMMA BaseTwins ==
    ASSUME NEW engine, NEW s, IsSchema(s)
    PROVE  /\ Twins(TableList(engine, s), TableList("postgres", s))
           /\ Twins(IndexList(s), IndexList(s)) /\ Twins(ViewList(s), ViewList(s))
<1>1. /\ Lists(s.tables, ToSet(s.tables)) /\ Lists(s.indexes, ToSet(s.indexes))
      /\ Lists(s.views, ToSet(s.views))
  BY SchemaParts
<1>2. ASSUME NEW kind \in {"index", "view"}, NEW objects, Lists(objects, ToSet(objects))
      PROVE  Twins(Creating(kind, objects), Creating(kind, objects))
  <2> DEFINE a == Creating(kind, objects)
  <2>1. Len(objects) \in Nat /\ DOMAIN objects = 1..Len(objects)
    BY <1>2 DEF Lists
  <2>2. Lists(a, Creations(kind, ToSet(objects)))
    BY <1>2, CreatingLists
  <2>3. DOMAIN a = DOMAIN objects /\ \A i \in DOMAIN a : a[i].kind = kind
    BY DEF Creating
  <2> HIDE DEF a
  <2>4. Len(a) \in Nat /\ DOMAIN a = 1..Len(a)
    BY <2>2 DEF Lists
  <2>5. Twins(a, a)
    BY <2>3, <2>4 DEF Twins, Twin
  <2>6. QED
    BY <2>5 DEF a
<1>3. Twins(TableList(engine, s), TableList("postgres", s))
  <2> DEFINE a == TableList(engine, s)
             b == TableList("postgres", s)
             I == 1..Len(s.tables)
  <2>1. Len(s.tables) \in Nat /\ DOMAIN s.tables = I
    BY <1>1 DEF Lists
  <2>2. ASSUME NEW e
        PROVE  /\ DOMAIN TableList(e, s) = I
               /\ \A i \in I : TableList(e, s)[i] =
                    [kind |-> "table", object |-> CompiledTable(e, s.tables[i], s.domains)]
    BY <2>1 DEF TableList, Creating
  <2>3. a \in Seq(StatementsOf(engine, s)) /\ b \in Seq(StatementsOf("postgres", s))
    BY Segments
  <2>4. ASSUME NEW i \in I PROVE Twin(a[i], b[i])
    <3>1. Twin([kind |-> "table", object |-> CompiledTable(engine, s.tables[i], s.domains)],
               [kind |-> "table", object |-> CompiledTable("postgres", s.tables[i], s.domains)])
      BY TwinTables
    <3>2. QED
      BY <2>2, <3>1, Zenon
  <2>5. DOMAIN a = I /\ DOMAIN b = I
    BY <2>2
  <2> HIDE DEF a, b
  <2>6. Len(a) = Len(s.tables) /\ Len(b) = Len(s.tables)
    BY <2>1, <2>3, <2>5
  <2>7. Twins(a, b)
    BY <2>1, <2>4, <2>5, <2>6 DEF Twins
  <2>8. QED
    BY <2>7 DEF a, b
<1>4. QED
  BY <1>1, <1>2, <1>3 DEF IndexList, ViewList

\* On PostgreSQL the base schema is a prefix of the schema.
LEMMA BaseOnPostgres ==
    ASSUME NEW s, IsSchema(s), SelfContained(s)
    PROVE  LET e == Empty("postgres")
           IN  /\ AcceptsAll(e, BaseList("postgres", s))
               /\ AcceptsAll(Executed(e, BaseList("postgres", s)), BodyList("postgres", s))
<1> DEFINE e == Empty("postgres")
           a == BaseList("postgres", s)
           b == BodyList("postgres", s)
           S == StatementsOf("postgres", s)
<1>1. a \in Seq(S) /\ b \in Seq(S)
  BY Segments
<1>2. DOMAIN e = DOMAIN Empty("sqlite") /\ e.engine = "postgres"
  BY DEF Empty
<1>3. AcceptsAll(e, Statements("postgres", s))
  BY <1>2 DEF SelfContained, Creatable
<1>4. Statements("postgres", s) = a \o b
  BY SplitStatements
<1> HIDE DEF e, a, b, S
<1>5. AcceptsAll(e, a) /\ AcceptsAll(Executed(e, a), b)
  BY <1>1, <1>2, <1>3, <1>4, AcceptsConcat
<1>6. QED
  BY <1>5 DEF e, a, b

LEMMA BaseAccepted ==
    ASSUME NEW db, IsNew(db), NEW s, IsSchema(s), SelfContained(s)
    PROVE  AcceptsAll(db, BaseList(db.engine, s))
<1> DEFINE e == Empty("postgres")
<1>1. AcceptsAll(e, BaseList("postgres", s))
  BY BaseOnPostgres
<1>2. IsNew(e) /\ e.engine = "postgres"
  BY EmptyIsNew
<1> HIDE DEF e
<1>3. CASE db.engine = "postgres"
  <2>1. Alike(db, e)
    BY <1>2, <1>3 DEF IsNew, Alike
  <2>2. QED
    BY <1>1, <1>3, <2>1, AlikeAcceptsAll
<1>4. CASE db.engine # "postgres"
  <2> DEFINE S == StatementsOf("postgres", s)
             R == StatementsOf(db.engine, s)
             D == DomainList("postgres", s)
             T == TableList("postgres", s)
             I == IndexList(s)
             V == ViewList(s)
             U == TableList(db.engine, s)
             a == D \o T
             b == a \o I
  <2>1. D \in Seq(S) /\ T \in Seq(S) /\ I \in Seq(S) /\ V \in Seq(S)
    BY Segments
  <2>2. U \in Seq(R) /\ I \in Seq(R) /\ V \in Seq(R)
    BY Segments
  <2>3. BaseList("postgres", s) = b \o V
    BY DEF BaseList
  <2>4. BaseList(db.engine, s) = (U \o I) \o V
    <3>1. DomainList(db.engine, s) = <<>>
      BY <1>4 DEF DomainList, Creating
    <3>2. <<>> \o U = U
      BY <2>2
    <3>3. QED
      BY <3>1, <3>2 DEF BaseList
  <2>5. Twins(U, T) /\ Twins(I, I) /\ Twins(V, V)
    BY BaseTwins
  <2>6. \A st \in ToSet(D) : st.kind = "domain"
    BY DomainStatements
  <2> HIDE DEF S, R, D, T, I, V, U
  <2>7. a \in Seq(S) /\ b \in Seq(S) /\ U \o I \in Seq(R)
    BY <2>1, <2>2, ConcatElements
  <2>8. DOMAIN e = DOMAIN Empty("sqlite") /\ DOMAIN db = DOMAIN Empty("sqlite")
    BY <1>2 DEF IsNew
  <2>9. AcceptsAll(e, b) /\ AcceptsAll(Executed(e, b), V)
    <3> HIDE DEF b
    <3>1. QED
      BY <1>1, <2>1, <2>3, <2>7, <2>8, AcceptsConcat
  <2>10. AcceptsAll(e, a) /\ AcceptsAll(Executed(e, a), I)
    <3> HIDE DEF a
    <3>1. QED
      BY <2>1, <2>7, <2>8, <2>9, AcceptsConcat
  <2>11. AcceptsAll(Executed(e, D), T)
    BY <2>1, <2>8, <2>10, AcceptsConcat
  <2>12. Mirrors(db, Executed(e, D))
    <3> DEFINE p == Executed(e, D)
    <3>1. Made(D, "table") = {} /\ Made(D, "index") = {} /\ Made(D, "view") = {}
      BY <2>6 DEF Made
    <3>2. /\ DOMAIN p = DOMAIN Empty("sqlite") /\ p.engine = e.engine
          /\ p.tables = e.tables \cup Made(D, "table")
          /\ p.indexes = e.indexes \cup Made(D, "index")
          /\ p.views = e.views \cup Made(D, "view")
      BY <2>8, Fields DEF Executed
    <3> HIDE DEF p
    <3>3. Mirrors(db, p)
      BY <1>2, <1>4, <3>1, <3>2 DEF Mirrors, IsNew
    <3>4. QED
      BY <3>3 DEF p
  <2>13. AcceptsAll(db, U) /\ Mirrors(Executed(db, U), Executed(Executed(e, D), T))
    BY <2>1, <2>2, <2>5, <2>11, <2>12, TwinsAccept
  <2>14. /\ DOMAIN Executed(db, U) = DOMAIN Empty("sqlite")
         /\ DOMAIN Executed(e, a) = DOMAIN Empty("sqlite")
    BY <2>8 DEF Executed
  <2>15. \A d : DOMAIN d = DOMAIN Empty("sqlite") => Alike(d, d)
    BY DEF Alike
  <2>16. Alike(Executed(e, a), Executed(Executed(e, D), T))
    BY <2>1, <2>8, ExecutedConcat
  <2>17. Mirrors(Executed(db, U), Executed(e, a))
    BY <2>13, <2>14, <2>15, <2>16, MirrorsAlike
  <2>18. /\ AcceptsAll(Executed(db, U), I)
         /\ Mirrors(Executed(Executed(db, U), I), Executed(Executed(e, a), I))
    <3> HIDE DEF a
    <3>1. QED
      BY <2>1, <2>5, <2>10, <2>17, TwinsAccept
  <2>19. Alike(Executed(db, U \o I), Executed(Executed(db, U), I))
    BY <2>2, <2>8, ExecutedConcat
  <2>20. Alike(Executed(e, b), Executed(Executed(e, a), I))
    <3> HIDE DEF a
    <3>1. QED
      BY <2>1, <2>7, <2>8, ExecutedConcat
  <2>21. Mirrors(Executed(db, U \o I), Executed(e, b))
    BY <2>18, <2>19, <2>20, MirrorsAlike
  <2>22. AcceptsAll(Executed(db, U \o I), V)
    <3> HIDE DEF b
    <3> DEFINE c == U \o I
    <3> HIDE DEF c
    <3>1. QED
      BY <2>1, <2>5, <2>9, <2>21, TwinsAccept DEF c
  <2>23. AcceptsAll(db, U \o I)
    BY <2>2, <2>8, <2>13, <2>18, AcceptsConcat
  <2>24. AcceptsAll(db, (U \o I) \o V)
    <3> DEFINE c == U \o I
    <3>1. c \in Seq(R) /\ AcceptsAll(db, c) /\ AcceptsAll(Executed(db, c), V)
      BY <2>7, <2>22, <2>23
    <3> HIDE DEF c
    <3>2. AcceptsAll(db, c \o V)
      BY <2>2, <2>8, <3>1, AcceptsConcat
    <3>3. QED
      BY <3>2 DEF c
  <2>25. QED
    BY <2>4, <2>24
<1>5. QED
  BY <1>3, <1>4

-----------------------------------------------------------------------------
(* What PostgreSQL accepts refers to what was declared before.             *)

\* What the first statements make.
LEMMA PrefixMade ==
    ASSUME NEW S, NEW q \in Seq(S), NEW i \in 1..Len(q), NEW kind, NEW o
    PROVE  o \in Made(SubSeq(q, 1, i - 1), kind)
                <=> \E j \in 1 .. i - 1 : q[j].kind = kind /\ q[j].object = o
<1> DEFINE x == SubSeq(q, 1, i - 1)
<1>1. DOMAIN x = 1 .. i - 1 /\ \A j \in 1 .. i - 1 : x[j] = q[j]
  OBVIOUS
<1> HIDE DEF x
<1>2. ToSet(x) = {q[j] : j \in 1 .. i - 1}
  BY <1>1 DEF ToSet
<1>3. o \in Made(x, kind) <=> \E j \in 1 .. i - 1 : q[j].kind = kind /\ q[j].object = o
  BY <1>2 DEF Made
<1>4. QED
  BY <1>3 DEF x

\* The tables have names of their own, and a foreign key refers to the table
\* itself or to one before it.
LEMMA TableOrder ==
    ASSUME NEW s, IsSchema(s), SelfContained(s), NEW i \in DOMAIN s.tables
    PROVE  /\ \A j \in 1 .. i - 1 : s.tables[j].name # s.tables[i].name
           /\ \A n \in ToSet(s.tables[i].constraints) : n.kind = "foreign_key" =>
                    \E j \in 1..i : s.tables[j].name = n.parent
<1> DEFINE e == Empty("postgres")
           S == StatementsOf("postgres", s)
           D == DomainList("postgres", s)
           T == TableList("postgres", s)
           I == IndexList(s)
           V == ViewList(s)
           Table(k) == CompiledTable("postgres", s.tables[k], s.domains)
           N == Len(s.tables)
<1>1. N \in Nat /\ DOMAIN s.tables = 1..N /\ i \in 1..N
  BY SchemaParts DEF Lists
<1>2. D \in Seq(S) /\ T \in Seq(S) /\ I \in Seq(S) /\ V \in Seq(S)
  BY Segments
<1>3. AcceptsAll(e, ((D \o T) \o I) \o V)
  BY BaseOnPostgres DEF BaseList
<1>4. IsNew(e) /\ e.engine = "postgres" /\ DOMAIN e = DOMAIN Empty("sqlite")
  BY EmptyIsNew DEF IsNew
<1>5. DOMAIN T = 1..N /\ \A k \in 1..N : T[k].kind = "table" /\ T[k].object = Table(k)
  BY <1>1 DEF TableList, Creating
<1>6. \A k \in 1..N : /\ Table(k).name = s.tables[k].name
                      /\ Table(k).constraints = {CompiledConstraint(n) :
                                                    n \in ToSet(s.tables[k].constraints)}
  BY DEF CompiledTable
<1> HIDE DEF e, S, D, T, I, V, Table, N
<1>7. D \o T \in Seq(S) /\ (D \o T) \o I \in Seq(S)
  BY <1>2, ConcatElements
<1>8. AcceptsAll(e, (D \o T) \o I)
  <2> DEFINE b == (D \o T) \o I
  <2> HIDE DEF b
  <2>1. QED
    BY <1>2, <1>3, <1>4, <1>7, AcceptsConcat DEF b
<1>9. AcceptsAll(e, D \o T)
  <2> DEFINE a == D \o T
  <2> HIDE DEF a
  <2>1. QED
    BY <1>2, <1>4, <1>7, <1>8, AcceptsConcat DEF a
<1>10. AcceptsAll(Executed(e, D), T)
  BY <1>2, <1>4, <1>9, AcceptsConcat
<1> DEFINE p == Executed(e, D)
           prefix == SubSeq(T, 1, i - 1)
           d == Executed(p, prefix)
<1>11. Accepts(d, T[i])
  BY <1>1, <1>5, <1>10 DEF AcceptsAll
<1>12. DOMAIN p = DOMAIN Empty("sqlite") /\ p.engine = "postgres" /\ p.tables = Made(D, "table")
  BY <1>4, Fields DEF Executed, IsNew
<1> HIDE DEF p
<1>13. d.engine = "postgres" /\ d.tables = Made(D, "table") \cup Made(prefix, "table")
  BY <1>12, Fields DEF Executed
<1>14. Made(D, "table") = {}
  <2>1. \A st \in ToSet(D) : st.kind = "domain"
    BY DomainStatements DEF D
  <2>2. QED
    BY <2>1 DEF Made
<1> HIDE DEF d
<1>15. \A o : o \in d.tables <=> \E j \in 1 .. i - 1 : Table(j) = o
  <2>1. i \in 1..Len(T) /\ \A j \in 1 .. i - 1 : j \in 1..N
    BY <1>1, <1>2, <1>5
  <2>2. \A o : o \in Made(prefix, "table")
                    <=> \E j \in 1 .. i - 1 : T[j].kind = "table" /\ T[j].object = o
    BY <1>2, <2>1, PrefixMade
  <2> HIDE DEF prefix
  <2>3. QED
    BY <1>5, <1>13, <1>14, <2>1, <2>2
<1>16. Table(i).name \notin NamesIn(d.tables) /\ Referable(d, Table(i))
  BY <1>1, <1>5, <1>11, <1>13 DEF Accepts, Relations
<1>17. \A j \in 1 .. i - 1 : s.tables[j].name # s.tables[i].name
  <2>1. \A j \in 1 .. i - 1 : j \in 1..N /\ Table(j) \in d.tables
    BY <1>1, <1>15
  <2>2. QED
    BY <1>1, <1>6, <1>16, <2>1 DEF NamesIn
<1>18. ASSUME NEW n \in ToSet(s.tables[i].constraints), n.kind = "foreign_key"
       PROVE  \E j \in 1..i : s.tables[j].name = n.parent
  <2> DEFINE m == CompiledConstraint(n)
  <2>1. m.kind = "foreign_key" /\ m.parent = n.parent
    <3>1. s.tables[i] \in ToSet(s.tables)
      BY DEF ToSet
    <3>2. DOMAIN n = {"kind", "columns", "parent", "parentColumns", "onUpdate", "onDelete",
                    "expression"}
      BY <3>1 DEF IsSchema
    <3>3. QED
      BY <1>18, <3>2 DEF CompiledConstraint
  <2>2. m \in Table(i).constraints
    BY <1>1, <1>6
  <2> HIDE DEF m
  <2>3. PICK o \in d.tables \cup {Table(i)} : o.name = m.parent
    BY <1>16, <2>1, <2>2 DEF Referable, OfKind
  <2>4. CASE o = Table(i)
    BY <1>1, <1>6, <2>1, <2>3, <2>4
  <2>5. CASE o \in d.tables
    <3>1. PICK j \in 1 .. i - 1 : Table(j) = o
      BY <1>15, <2>5
    <3>2. j \in 1..N /\ j \in 1..i
      BY <1>1
    <3>3. QED
      BY <1>6, <2>1, <2>3, <3>1, <3>2
  <2>6. QED
    BY <2>3, <2>4, <2>5
<1>19. QED
  BY <1>17, <1>18

-----------------------------------------------------------------------------
(* Rows that refer to rows that were read are imported.                    *)

\* No row of an order of them is there twice.
LEMMA OrderedOnce ==
    ASSUME NEW S, IsFiniteSet(S), NEW list \in SetToSeqs(S)
    PROVE  \A i, j \in DOMAIN list : list[i] = list[j] => i = j
<1> DEFINE n == Cardinality(S)
<1>1. list \in [1..n -> S] /\ \A i, j \in 1..n : i # j => list[i] # list[j]
  BY DEF SetToSeqs
<1> HIDE DEF n
<1>2. QED
  BY <1>1

\* The rows of a table go in one after the other when it is empty and the
\* rows they refer to are there, or come before them in the table itself.
LEMMA TableInserts ==
    ASSUME NEW S, NEW list \in Seq(S),
           \A i, j \in DOMAIN list : list[i] = list[j] => i = j,
           NEW d, DOMAIN d = DOMAIN Empty("sqlite"), d.triggers = {},
           NEW u \in NamesIn(d.tables), u \in DOMAIN d.rows, d.rows[u] = {},
           \A p \in Parents(Named(d.tables, u)) :
                /\ p \in NamesIn(d.tables) /\ p \in DOMAIN d.rows
                /\ IF p = u THEN ~Unpreceded(list) ELSE ToSet(list) \subseteq d.rows[p]
    PROVE  CanInsertAll(d, InsertList(u, list))
<1> DEFINE q == InsertList(u, list)
<1>1. DOMAIN q = DOMAIN list /\ \A i \in DOMAIN list : q[i] = <<u, list[i]>>
  BY DEF InsertList
<1>2. q \in Seq({u} \X S) /\ Len(q) = Len(list) /\ Len(q) \in Nat /\ DOMAIN q = 1..Len(q)
  <2>1. q \in [1..Len(list) -> {u} \X S]
    BY DEF InsertList
  <2> HIDE DEF q
  <2>2. QED
    BY <2>1
<1> HIDE DEF q
<1>3. ASSUME NEW k \in DOMAIN q
      PROVE  CanInsert(Inserted(d, SubSeq(q, 1, k - 1)), q[k][1], q[k][2])
  <2> DEFINE prefix == SubSeq(q, 1, k - 1)
             x == Inserted(d, prefix)
             id == list[k]
  <2>1. ToSet(prefix) = {q[j] : j \in 1 .. k - 1}
    <3>1. DOMAIN prefix = 1 .. k - 1 /\ \A j \in 1 .. k - 1 : prefix[j] = q[j]
      BY <1>2
    <3> HIDE DEF prefix
    <3>2. QED
      BY <3>1 DEF ToSet
  <2>2. q[k][1] = u /\ q[k][2] = id /\ id \in ToSet(list)
    BY <1>1 DEF ToSet
  <2> HIDE DEF prefix
  <2>3. /\ DOMAIN x = DOMAIN d /\ Catalog(x) = Catalog(d)
        /\ x.rows = [w \in DOMAIN d.rows |-> d.rows[w] \cup
                {insert[2] : insert \in {i \in ToSet(prefix) : w \in Reached(d, i[1])}}]
    BY InsertedCatalog
  <2> HIDE DEF x, id
  <2>4. x.tables = d.tables /\ x.triggers = {}
    BY <2>3, CatalogFields
  <2>5. \A db, t : db.triggers = {} => Reached(db, t) = {t}
    BY DEF Reached
  <2>6. \A w \in DOMAIN d.rows : d.rows[w] \subseteq x.rows[w]
    BY <2>3
  <2>7. id \notin x.rows[u]
    <3>1. SUFFICES ASSUME id \in x.rows[u] PROVE FALSE
      OBVIOUS
    <3>2. PICK i \in ToSet(prefix) : id = i[2]
      BY <2>3, <3>1
    <3>3. PICK j \in 1 .. k - 1 : i = q[j]
      BY <2>1, <3>2
    <3>4. j \in DOMAIN list /\ k \in DOMAIN list /\ j # k
      BY <1>1, <1>2
    <3>5. list[j] = list[k]
      BY <1>1, <3>2, <3>3, <3>4 DEF id
    <3>6. QED
      BY <3>4, <3>5
  <2>8. ASSUME NEW p \in Parents(Named(x.tables, u))
        PROVE  /\ p \in NamesIn(x.tables)
               /\ ReferredTo(u, p, id) \in x.rows[p] \/ (p = u /\ Above[id] = id)
    <3>1. /\ p \in NamesIn(d.tables) /\ p \in DOMAIN d.rows
          /\ IF p = u THEN ~Unpreceded(list) ELSE ToSet(list) \subseteq d.rows[p]
      BY <2>4
    <3>2. CASE p # u
      <4>1. id \in d.rows[p]
        BY <2>2, <3>1, <3>2
      <4>2. id \in x.rows[p]
        BY <2>6, <3>1, <4>1
      <4>3. QED
        BY <2>4, <3>1, <3>2, <4>2 DEF ReferredTo
    <3>3. CASE p = u /\ Above[id] # id
      <4>1. k \in DOMAIN list
        BY <1>1
      <4>2. PICK j \in 1 .. k - 1 : list[j] = Above[id]
        BY <3>1, <3>3, <4>1 DEF Unpreceded, id
      <4>3. j \in DOMAIN list
        BY <1>2, <1>1
      <4>4. q[j] \in ToSet(prefix) /\ q[j] = <<u, Above[id]>>
        BY <1>1, <2>1, <4>2, <4>3
      <4>5. u \in Reached(d, <<u, Above[id]>>[1]) /\ <<u, Above[id]>>[2] = Above[id]
        BY <2>5
      <4>6. Above[id] \in x.rows[u]
        BY <2>3, <4>4, <4>5
      <4>7. QED
        BY <2>4, <3>1, <3>3, <4>6 DEF ReferredTo
    <3>4. QED
      BY <2>4, <3>1, <3>2, <3>3
  <2>9. CanInsert(x, u, id)
    BY <2>4, <2>5, <2>7, <2>8 DEF CanInsert
  <2>10. QED
    BY <2>2, <2>9 DEF x, prefix
<1>4. QED
  BY <1>3 DEF CanInsertAll, q

\* The tables of a schema, just created.
Fresh(c, s) ==
    /\ DOMAIN c = DOMAIN Empty("sqlite") /\ c.triggers = {}
    /\ \A t \in ToSet(s.tables) :
        /\ t.name \in NamesIn(c.tables) /\ t.name \in DOMAIN c.rows /\ c.rows[t.name] = {}
        /\ Named(c.tables, t.name).constraints = {CompiledConstraint(n) : n \in ToSet(t.constraints)}

\* Every row that was read refers to rows that were read, before it in its
\* own table.
Referring(s, rows, lists) ==
    \A t \in ToSet(s.tables) : \A n \in ToSet(t.constraints) :
        n.kind = "foreign_key" =>
            IF n.parent = t.name THEN ~Unpreceded(lists[t.name])
            ELSE rows[t.name] \subseteq rows[n.parent]

LEMMA CompiledParents ==
    ASSUME NEW c, NEW s, IsSchema(s), Fresh(c, s), NEW t \in ToSet(s.tables)
    PROVE  Parents(Named(c.tables, t.name))
                = {n.parent : n \in {m \in ToSet(t.constraints) : m.kind = "foreign_key"}}
<1> DEFINE o == Named(c.tables, t.name)
           C == ToSet(t.constraints)
<1>1. o.constraints = {CompiledConstraint(n) : n \in C}
  BY DEF Fresh
<1>2. ASSUME NEW n \in C
      PROVE  CompiledConstraint(n).kind = n.kind /\ CompiledConstraint(n).parent = n.parent
  <2>1. DOMAIN n = {"kind", "columns", "parent", "parentColumns", "onUpdate", "onDelete",
                    "expression"}
    BY DEF IsSchema
  <2>2. QED
    BY <2>1 DEF CompiledConstraint
<1> HIDE DEF o, C
<1>3. Parents(o) = {n.parent : n \in {m \in C : m.kind = "foreign_key"}}
  BY <1>1, <1>2 DEF Parents, OfKind
<1>4. QED
  BY <1>3 DEF o, C

LEMMA RowsAccepted ==
    ASSUME NEW c, NEW s, IsSchema(s), SelfContained(s), Fresh(c, s),
           NEW rows, NEW lists \in Orders(rows),
           \A t \in ToSet(s.tables) : t.name \in DOMAIN rows /\ rows[t.name] \in RowSets,
           Referring(s, rows, lists)
    PROVE  CanInsertAll(c, ImportRows(s, lists))
<1> DEFINE S == Inserts(s, rows)
           parts == RowLists(s, lists)
           N == Len(parts)
           name(i) == s.tables[i].name
<1>0. Ordered(s, rows, lists)
  BY OrderedRows
<1>1. /\ parts \in Seq(Seq(S)) /\ N = Len(s.tables) /\ DOMAIN parts = DOMAIN s.tables
      /\ ImportRows(s, lists) = FlattenSeq(parts)
  BY <1>0, ImportParts
<1>2. \A i \in DOMAIN parts : /\ parts[i] = InsertList(name(i), lists[name(i)])
                              /\ ToSet(parts[i]) = InsertsInto(name(i), rows[name(i)])
  BY <1>0, ImportParts DEF Lists
<1>3. N \in Nat /\ DOMAIN parts = 1..N /\ \A i \in 1..N : s.tables[i] \in ToSet(s.tables)
  BY <1>1 DEF ToSet
<1> HIDE DEF S, parts, name
<1>4. PICK f : Partial(f, parts, S) /\ FlattenSeq(parts) = f[N]
  <2>1. \E f \in [0..Len(parts) -> Seq(S)] :
            /\ f[0] = <<>> /\ \A n \in 1..Len(parts) : f[n] = f[n - 1] \o parts[n]
            /\ FlattenSeq(parts) = f[Len(parts)]
    BY <1>1, FlattenSteps
  <2>2. QED
    BY <2>1 DEF Partial
<1>5. ASSUME NEW n \in 1..N PROVE CanInsertAll(Inserted(c, f[n - 1]), parts[n])
  <2> DEFINE d == Inserted(c, f[n - 1])
             u == name(n)
             t == s.tables[n]
             list == lists[u]
  <2>1. n - 1 \in 0..Len(parts)
    BY <1>3
  <2>2. \A x : x \in ToSet(f[n - 1]) <=> \E i \in 1 .. n - 1 : x \in ToSet(parts[i])
    <3>1. Collects(f, parts, n - 1)
      BY <1>1, <1>4, <2>1, PartialElements
    <3>2. QED
      BY <3>1 DEF Collects
  <2>3. /\ DOMAIN d = DOMAIN c /\ Catalog(d) = Catalog(c)
        /\ d.rows = [w \in DOMAIN c.rows |-> c.rows[w] \cup
                {insert[2] : insert \in {i \in ToSet(f[n - 1]) : w \in Reached(c, i[1])}}]
    BY InsertedCatalog DEF Fresh
  <2> HIDE DEF d
  <2>4. d.tables = c.tables /\ d.triggers = {} /\ DOMAIN d = DOMAIN Empty("sqlite")
    BY <2>3, CatalogFields DEF Fresh
  <2>5. \A w : Reached(c, w) = {w}
    BY DEF Reached, Fresh
  <2>6. \A i \in 1 .. n - 1 : i \in 1..N
    BY <1>3
  <2>7. \A i : i \in ToSet(f[n - 1]) <=>
            \E j \in 1 .. n - 1 : \E id \in rows[name(j)] : i = <<name(j), id>>
    BY <1>2, <1>3, <2>2, <2>6 DEF InsertsInto
  <2>8. t \in ToSet(s.tables) /\ t.name = u
    BY <1>3 DEF name
  <2>9. rows[u] \in RowSets /\ IsFiniteSet(rows[u]) /\ list \in SetToSeqs(rows[u])
    BY <2>8 DEF RowSets, Orders
  <2>10. /\ Lists(list, rows[u])
         /\ \A i, j \in DOMAIN list : list[i] = list[j] => i = j
    <3>1. Lists(list, rows[u])
      BY <1>0, <2>8 DEF Ordered
    <3>2. QED
      BY <2>9, <3>1, OrderedOnce
  <2>11. u \in NamesIn(d.tables) /\ u \in DOMAIN d.rows
    BY <2>3, <2>4, <2>8 DEF Fresh
  <2>12. d.rows[u] = {}
    <3>1. c.rows[u] = {} /\ u \in DOMAIN c.rows
      BY <2>8 DEF Fresh
    <3>2. \A j \in 1 .. n - 1 : name(j) # u
      BY <1>1, <1>3, TableOrder DEF name
    <3>3. {i \in ToSet(f[n - 1]) : u \in Reached(c, i[1])} = {}
      BY <2>5, <2>7, <3>2
    <3>4. QED
      BY <2>3, <3>1, <3>3
  <2>13. ASSUME NEW p \in Parents(Named(d.tables, u))
         PROVE  /\ p \in NamesIn(d.tables) /\ p \in DOMAIN d.rows
                /\ IF p = u THEN ~Unpreceded(list) ELSE ToSet(list) \subseteq d.rows[p]
    <3>1. PICK m \in ToSet(t.constraints) : m.kind = "foreign_key" /\ m.parent = p
      BY <2>4, <2>8, CompiledParents
    <3>2. PICK j \in 1..n : s.tables[j].name = p
      <4>1. n \in DOMAIN s.tables
        BY <1>1, <1>3
      <4>2. QED
        BY <3>1, <4>1, TableOrder
    <3>3. j \in 1..N /\ name(j) = p
      BY <1>3, <3>2 DEF name
    <3>4. p \in NamesIn(c.tables) /\ p \in DOMAIN c.rows
      BY <1>3, <3>3 DEF Fresh, name
    <3>5. ASSUME p # u, NEW id \in rows[u] PROVE id \in d.rows[p]
      <4>1. j \in 1 .. n - 1
        BY <1>3, <3>2, <3>3, <3>5
      <4>2. id \in rows[p]
        BY <2>8, <3>1, <3>5 DEF Referring
      <4>3. <<p, id>> \in ToSet(f[n - 1])
        BY <2>7, <3>3, <4>1, <4>2
      <4>4. p \in Reached(c, <<p, id>>[1]) /\ <<p, id>>[2] = id
        BY <2>5
      <4>5. QED
        BY <2>3, <3>4, <4>3, <4>4
    <3>6. p = u => ~Unpreceded(list)
      BY <2>8, <3>1 DEF Referring
    <3>7. QED
      BY <2>3, <2>4, <2>10, <3>4, <3>5, <3>6 DEF Lists
  <2>14. parts[n] = InsertList(u, list)
    BY <1>2, <1>3
  <2> HIDE DEF u, list, t
  <2>15. list \in Seq(rows[u])
    BY <2>10 DEF Lists
  <2>16. CanInsertAll(d, InsertList(u, list))
    BY <2>4, <2>10, <2>11, <2>12, <2>13, <2>15, TableInserts
  <2>17. QED
    BY <2>14, <2>16 DEF d
<1>6. CanInsertAll(c, f[N])
  BY <1>1, <1>4, <1>5, InsertsSteps DEF Fresh
<1>7. QED
  BY <1>1, <1>4, <1>6

-----------------------------------------------------------------------------
(* The triggers come last, on tables that are there.                       *)

LEMMA PairPrefixes ==
    ASSUME NEW x, NEW y
    PROVE  /\ SubSeq(<<x>>, 1, 0) = <<>> /\ SubSeq(<<x, y>>, 1, 0) = <<>>
           /\ SubSeq(<<x, y>>, 1, 1) = <<x>>
<1>1. SubSeq(<<x>>, 1, 0) = <<>> /\ SubSeq(<<x, y>>, 1, 0) = <<>>
  OBVIOUS
<1>2. SubSeq(<<x, y>>, 1, 1) = <<x>>
  <2> DEFINE S == {x, y}
             q == <<x, y>>
  <2>1. q \in Seq(S) /\ Len(q) = 2 /\ q[1] = x
    OBVIOUS
  <2> HIDE DEF q, S
  <2>2. SubSeq(q, 1, 1) \in Seq(S) /\ Len(SubSeq(q, 1, 1)) = 1 /\ SubSeq(q, 1, 1)[1] = q[1]
    BY <2>1
  <2> DEFINE p == SubSeq(q, 1, 1)
             r == <<x>>
  <2>3. r \in Seq(S) /\ Len(r) = 1 /\ r[1] = x
    BY DEF S
  <2>4. p \in Seq(S) /\ Len(p) = 1 /\ p[1] = x
    BY <2>1, <2>2
  <2> HIDE DEF p, r
  <2>5. p = r
    BY <2>3, <2>4
  <2>6. QED
    BY <2>5 DEF p, q, r
<1>3. QED
  BY <1>1, <1>2

\* What PostgreSQL asks of a trigger and the function of its body.
LEMMA BodyNeeds ==
    ASSUME NEW d, DOMAIN d = DOMAIN Empty("sqlite"), NEW g,
           AcceptsAll(d, CompiledTrigger("postgres", g))
    PROVE  g.name \notin NamesIn(d.functions) /\ \E t \in d.tables : t.name = g.table
<1> DEFINE function == [kind |-> "function", object |-> [name |-> g.name]]
           trigger == [kind |-> "trigger", object |-> g]
           q == CompiledTrigger("postgres", g)
           b == Executed(d, SubSeq(q, 1, 0))
           c == Executed(d, SubSeq(q, 1, 1))
<1>1. function.kind = "function" /\ function.object.name = g.name
      /\ trigger.kind = "trigger" /\ trigger.object = g
  OBVIOUS
<1>2. q = <<function, trigger>>
  BY DEF CompiledTrigger
<1> HIDE DEF function, trigger, q
<1>3. SubSeq(q, 1, 0) = <<>> /\ SubSeq(q, 1, 1) = <<function>>
  BY <1>2, PairPrefixes
<1>4. 1 \in DOMAIN q /\ 2 \in DOMAIN q /\ q[1] = function /\ q[2] = trigger
  BY <1>2
<1>5. Accepts(b, function) /\ Accepts(c, trigger)
  <2>1. 1 - 1 = 0 /\ 2 - 1 = 1
    OBVIOUS
  <2>2. AcceptsAll(d, q)
    BY DEF q
  <2>3. QED
    BY <1>4, <2>1, <2>2 DEF AcceptsAll
<1>6. Made(<<>>, "function") = {} /\ Made(<<function>>, "table") = {}
  BY <1>1 DEF Made, ToSet
<1>7. b.functions = d.functions \cup Made(<<>>, "function")
      /\ c.tables = d.tables \cup Made(<<function>>, "table")
  BY <1>3, Fields DEF Executed
<1> HIDE DEF b, c
<1>8. QED
  BY <1>1, <1>5, <1>6, <1>7 DEF Accepts

\* What is enough on either engine.
LEMMA BodySuffices ==
    ASSUME NEW d, DOMAIN d = DOMAIN Empty("sqlite"), NEW engine, NEW g,
           g.name \notin NamesIn(d.functions), g.name \notin NamesIn(d.triggers),
           \E t \in d.tables : t.name = g.table
    PROVE  AcceptsAll(d, CompiledTrigger(engine, g))
<1> DEFINE function == [kind |-> "function", object |-> [name |-> g.name]]
           trigger == [kind |-> "trigger", object |-> g]
           q == CompiledTrigger(engine, g)
<1>1. function.kind = "function" /\ function.object.name = g.name
      /\ trigger.kind = "trigger" /\ trigger.object = g
  OBVIOUS
<1>2. ASSUME NEW c, c.tables = d.tables, c.triggers = d.triggers
      PROVE  Accepts(c, trigger)
  <2> HIDE DEF trigger
  <2>1. QED
    BY <1>1, <1>2 DEF Accepts, NamesIn
<1>3. ASSUME NEW c, c.functions = d.functions PROVE Accepts(c, function)
  <2> HIDE DEF function
  <2>1. QED
    BY <1>1, <1>3 DEF Accepts
<1>4. q = <<trigger>> \/ q = <<function, trigger>>
  BY DEF CompiledTrigger
<1> HIDE DEF function, trigger, q
<1>5. /\ \A kind : Made(<<>>, kind) = {}
      /\ Made(<<function>>, "table") = {} /\ Made(<<function>>, "trigger") = {}
  BY <1>1 DEF Made, ToSet
<1>6. /\ Executed(d, <<>>).tables = d.tables \cup Made(<<>>, "table")
      /\ Executed(d, <<>>).triggers = d.triggers \cup Made(<<>>, "trigger")
      /\ Executed(d, <<>>).functions = d.functions \cup Made(<<>>, "function")
      /\ Executed(d, <<function>>).tables = d.tables \cup Made(<<function>>, "table")
      /\ Executed(d, <<function>>).triggers = d.triggers \cup Made(<<function>>, "trigger")
  BY Fields DEF Executed
<1>7. /\ Accepts(Executed(d, <<>>), trigger) /\ Accepts(Executed(d, <<>>), function)
      /\ Accepts(Executed(d, <<function>>), trigger)
  BY <1>2, <1>3, <1>5, <1>6
<1>8. AcceptsAll(d, q)
  <2>1. CASE q = <<trigger>>
    <3>1. DOMAIN q = {1} /\ q[1] = trigger
      BY <2>1
    <3>2. SubSeq(q, 1, 1 - 1) = <<>>
      <4>1. 1 - 1 = 0
        OBVIOUS
      <4>2. QED
        BY <2>1, <4>1, PairPrefixes, Zenon
    <3>3. QED
      BY <1>7, <3>1, <3>2 DEF AcceptsAll
  <2>2. CASE q = <<function, trigger>>
    <3>1. DOMAIN q = {1, 2} /\ q[1] = function /\ q[2] = trigger
      BY <2>2
    <3>2. SubSeq(q, 1, 1 - 1) = <<>> /\ SubSeq(q, 1, 2 - 1) = <<function>>
      <4>1. 1 - 1 = 0 /\ 2 - 1 = 1
        OBVIOUS
      <4>2. QED
        BY <2>2, <4>1, PairPrefixes, Zenon
    <3>3. QED
      BY <1>7, <3>1, <3>2 DEF AcceptsAll
  <2>3. QED
    BY <1>4, <2>1, <2>2
<1>9. QED
  BY <1>8 DEF q

\* What the first m triggers have made of the database c.
WithTriggers(d, c, engine, triggers, m) ==
    /\ DOMAIN d = DOMAIN Empty("sqlite") /\ d.tables = c.tables
    /\ \A o : o \in d.triggers <=> o \in c.triggers \/ \E j \in 1..m : o = triggers[j]
    /\ \A o : o \in d.functions
                 <=> \/ o \in c.functions
                     \/ engine # "sqlite" /\ \E j \in 1..m : o = [name |-> triggers[j].name]

LEMMA BodiesBefore ==
    ASSUME NEW c, DOMAIN c = DOMAIN Empty("sqlite"), NEW engine, NEW triggers,
           Lists(triggers, ToSet(triggers)), NEW S, Bodies(engine, triggers) \in Seq(Seq(S)),
           NEW f, Partial(f, Bodies(engine, triggers), S), NEW n \in 1..Len(triggers),
           NEW d, d = Executed(c, f[n - 1])
    PROVE  WithTriggers(d, c, engine, triggers, n - 1)
<1> DEFINE bodies == Bodies(engine, triggers)
           function(g) == [kind |-> "function", object |-> [name |-> g.name]]
           trigger(g) == [kind |-> "trigger", object |-> g]
           q == f[n - 1]
           J == 1 .. n - 1
<1>1. /\ Len(triggers) \in Nat /\ DOMAIN triggers = 1..Len(triggers)
      /\ DOMAIN bodies = DOMAIN triggers
      /\ \A i \in DOMAIN triggers : bodies[i] = CompiledTrigger(engine, triggers[i])
  BY DEF Lists, Bodies
<1>2. Len(bodies) = Len(triggers)
  BY <1>1
<1>3. n - 1 \in 0..Len(bodies) /\ \A j \in J : j \in DOMAIN triggers
  BY <1>1, <1>2
<1> HIDE DEF bodies
<1>4. \A x : x \in ToSet(q) <=> \E i \in J : x \in ToSet(bodies[i])
  <2>1. bodies \in Seq(Seq(S)) /\ Partial(f, bodies, S)
    BY DEF bodies
  <2>2. Collects(f, bodies, n - 1)
    BY <1>3, <2>1, PartialElements
  <2>3. QED
    BY <2>2 DEF Collects, J, q
<1>5. \A g : ToSet(CompiledTrigger(engine, g)) =
                IF engine = "sqlite" THEN {trigger(g)} ELSE {function(g), trigger(g)}
  <2>1. \A x : ToSet(<<x>>) = {x}
    BY DEF ToSet
  <2>2. \A x, y : ToSet(<<x, y>>) = {x, y}
    BY DEF ToSet
  <2>3. \A g : CompiledTrigger(engine, g) =
                    IF engine = "sqlite" THEN <<trigger(g)>> ELSE <<function(g), trigger(g)>>
    BY DEF CompiledTrigger
  <2> HIDE DEF trigger, function
  <2>4. QED
    BY <2>1, <2>2, <2>3
<1>6. \A g : /\ trigger(g).kind = "trigger" /\ trigger(g).object = g
             /\ function(g).kind = "function" /\ function(g).object = [name |-> g.name]
  OBVIOUS
<1>7. /\ DOMAIN d = DOMAIN Empty("sqlite") /\ d.tables = c.tables \cup Made(q, "table")
      /\ d.triggers = c.triggers \cup Made(q, "trigger")
      /\ d.functions = c.functions \cup Made(q, "function")
  BY Fields DEF Executed
<1> HIDE DEF trigger, function, q, J
<1>8. \A st : st \in ToSet(q) <=> \E j \in J :
            st = trigger(triggers[j]) \/ (engine # "sqlite" /\ st = function(triggers[j]))
  <2>1. \A j \in J : bodies[j] = CompiledTrigger(engine, triggers[j])
    BY <1>1, <1>3
  <2>2. QED
    BY <1>4, <1>5, <2>1
<1>9. Made(q, "table") = {}
  BY <1>6, <1>8 DEF Made
<1>10. \A o : o \in Made(q, "trigger") <=> \E j \in J : o = triggers[j]
  <2>1. ASSUME NEW o, o \in Made(q, "trigger") PROVE \E j \in J : o = triggers[j]
    <3>1. PICK st \in ToSet(q) : st.kind = "trigger" /\ o = st.object
      BY <2>1 DEF Made
    <3>2. QED
      BY <1>6, <1>8, <3>1
  <2>2. ASSUME NEW j \in J PROVE triggers[j] \in Made(q, "trigger")
    <3>1. trigger(triggers[j]) \in ToSet(q)
      BY <1>8
    <3>2. QED
      BY <1>6, <3>1 DEF Made
  <2>3. QED
    BY <2>1, <2>2
<1>11. \A o : o \in Made(q, "function")
                <=> engine # "sqlite" /\ \E j \in J : o = [name |-> triggers[j].name]
  <2>1. ASSUME NEW o, o \in Made(q, "function")
        PROVE  engine # "sqlite" /\ \E j \in J : o = [name |-> triggers[j].name]
    <3>1. PICK st \in ToSet(q) : st.kind = "function" /\ o = st.object
      BY <2>1 DEF Made
    <3>2. PICK j \in J : engine # "sqlite" /\ st = function(triggers[j])
      BY <1>6, <1>8, <3>1
    <3>3. QED
      BY <1>6, <3>1, <3>2
  <2>2. ASSUME engine # "sqlite", NEW j \in J
        PROVE  [name |-> triggers[j].name] \in Made(q, "function")
    <3>1. function(triggers[j]) \in ToSet(q)
      BY <1>8, <2>2
    <3>2. QED
      BY <1>6, <3>1 DEF Made
  <2>3. QED
    BY <2>1, <2>2
<1>12. QED
  BY <1>7, <1>9, <1>10, <1>11 DEF J, WithTriggers

\* The triggers have names of their own and are on tables of the schema.
LEMMA TriggerOrder ==
    ASSUME NEW s, IsSchema(s), SelfContained(s), NEW i \in DOMAIN s.triggers
    PROVE  /\ \A j \in 1 .. i - 1 : s.triggers[j].name # s.triggers[i].name
           /\ \E t \in ToSet(s.tables) : t.name = s.triggers[i].table
<1> DEFINE G == s.triggers
           e == Empty("postgres")
           b == BaseSchema(s)
           bodies == Bodies("postgres", G)
           S == UNION {ToSet(CompiledTrigger("postgres", g)) : g \in ToSet(G)}
           p == Executed(e, BaseList("postgres", s))
<1>1. Lists(G, ToSet(G)) /\ Len(G) \in Nat /\ DOMAIN G = 1..Len(G)
  BY SchemaParts DEF Lists
<1>2. bodies \in Seq(Seq(S)) /\ Len(bodies) = Len(G)
  BY <1>1, TriggerBodies DEF Bodies
<1>3. AcceptsAll(p, FlattenSeq(bodies))
  BY BaseOnPostgres DEF BodyList
<1>4. IsNew(e) /\ DOMAIN e = DOMAIN Empty("sqlite")
  BY EmptyIsNew DEF IsNew
<1>5. Made(BaseList("postgres", s), "table") =
            {CompiledTable("postgres", t, s.domains) : t \in ToSet(s.tables)}
  <2>1. IsSchema(b) /\ b.tables = s.tables /\ b.domains = s.domains
    BY SchemaSplits DEF BaseSchema, IsSchema
  <2>2. Statements("postgres", b) = BaseList("postgres", s)
    BY SplitStatements
  <2> HIDE DEF b
  <2>3. Made(Statements("postgres", b), "table") =
                {CompiledTable("postgres", t, b.domains) : t \in ToSet(b.tables)}
    BY <2>1, StatementsMade
  <2>4. QED
    BY <2>1, <2>2, <2>3
<1> HIDE DEF e
<1>6. DOMAIN p = DOMAIN Empty("sqlite") /\ p.tables = Made(BaseList("postgres", s), "table")
  BY <1>4, Fields DEF Executed, IsNew
<1> HIDE DEF p
<1>7. PICK f : Partial(f, bodies, S) /\ FlattenSeq(bodies) = f[Len(bodies)]
  <2> HIDE DEF bodies, S
  <2>1. \E f \in [0..Len(bodies) -> Seq(S)] :
            /\ f[0] = <<>> /\ \A n \in 1..Len(bodies) : f[n] = f[n - 1] \o bodies[n]
            /\ FlattenSeq(bodies) = f[Len(bodies)]
    BY <1>2, FlattenSteps
  <2>2. QED
    BY <2>1 DEF Partial
<1>8. AcceptsAll(Executed(p, f[i - 1]), bodies[i])
  <2> HIDE DEF bodies, S
  <2>1. i \in 1..Len(bodies)
    BY <1>1, <1>2
  <2>2. \A n \in 1..Len(bodies) : AcceptsAll(Executed(p, f[n - 1]), bodies[n])
    BY <1>2, <1>3, <1>6, <1>7, AcceptsSteps
  <2>3. QED
    BY <2>1, <2>2
<1> DEFINE d == Executed(p, f[i - 1])
<1>9. /\ DOMAIN d = DOMAIN Empty("sqlite") /\ d.tables = p.tables
      /\ \A j \in 1 .. i - 1 : [name |-> G[j].name] \in d.functions
  <2>1. i \in 1..Len(G) /\ "postgres" # "sqlite"
    BY <1>1
  <2>2. Bodies("postgres", G) \in Seq(Seq(S)) /\ Partial(f, Bodies("postgres", G), S)
    BY <1>2, <1>7
  <2>3. d = Executed(p, f[i - 1])
    OBVIOUS
  <2> HIDE DEF S, G, d
  <2>4. WithTriggers(d, p, "postgres", G, i - 1)
    BY <1>1, <1>6, <2>1, <2>2, <2>3, BodiesBefore, Zenon
  <2>5. QED
    BY <2>1, <2>4 DEF WithTriggers
<1> HIDE DEF d
<1>10. bodies[i] = CompiledTrigger("postgres", G[i])
  BY DEF Bodies
<1>11. G[i].name \notin NamesIn(d.functions) /\ \E t \in d.tables : t.name = G[i].table
  BY <1>8, <1>9, <1>10, BodyNeeds DEF d
<1>12. \A j \in 1 .. i - 1 : G[j].name # G[i].name
  <2>1. ASSUME NEW j \in 1 .. i - 1 PROVE G[j].name \in NamesIn(d.functions)
    <3>1. [name |-> G[j].name] \in d.functions /\ [name |-> G[j].name].name = G[j].name
      BY <1>9
    <3>2. QED
      BY <3>1 DEF NamesIn
  <2>2. QED
    BY <1>11, <2>1
<1>13. \E t \in ToSet(s.tables) : t.name = G[i].table
  <2>1. PICK t \in ToSet(s.tables) : CompiledTable("postgres", t, s.domains).name = G[i].table
    BY <1>5, <1>6, <1>9, <1>11
  <2>2. QED
    BY <2>1 DEF CompiledTable
<1>14. QED
  BY <1>12, <1>13

LEMMA TriggersAccepted ==
    ASSUME NEW s, IsSchema(s), SelfContained(s), NEW c, Fresh(c, s), c.functions = {}, NEW engine
    PROVE  AcceptsAll(c, BodyList(engine, s))
<1> DEFINE G == s.triggers
           bodies == Bodies(engine, G)
           S == UNION {ToSet(CompiledTrigger(engine, g)) : g \in ToSet(G)}
<1>1. Lists(G, ToSet(G)) /\ Len(G) \in Nat /\ DOMAIN G = 1..Len(G)
  BY SchemaParts DEF Lists
<1>2. bodies \in Seq(Seq(S)) /\ Len(bodies) = Len(G)
  BY <1>1, TriggerBodies DEF Bodies
<1>3. DOMAIN c = DOMAIN Empty("sqlite") /\ c.triggers = {}
  BY DEF Fresh
<1>4. PICK f : Partial(f, bodies, S) /\ FlattenSeq(bodies) = f[Len(bodies)]
  <2> HIDE DEF bodies, S
  <2>1. \E f \in [0..Len(bodies) -> Seq(S)] :
            /\ f[0] = <<>> /\ \A n \in 1..Len(bodies) : f[n] = f[n - 1] \o bodies[n]
            /\ FlattenSeq(bodies) = f[Len(bodies)]
    BY <1>2, FlattenSteps
  <2>2. QED
    BY <2>1 DEF Partial
<1>5. ASSUME NEW n \in 1..Len(bodies) PROVE AcceptsAll(Executed(c, f[n - 1]), bodies[n])
  <2> DEFINE d == Executed(c, f[n - 1])
             g == G[n]
  <2>1. n \in 1..Len(G) /\ n \in DOMAIN s.triggers
    BY <1>1, <1>2
  <2>2. /\ \A j \in 1 .. n - 1 : G[j].name # g.name
        /\ \E t \in ToSet(s.tables) : t.name = g.table
    BY <2>1, TriggerOrder
  <2>3. bodies[n] = CompiledTrigger(engine, g)
    BY <2>1 DEF Bodies
  <2>4. /\ DOMAIN d = DOMAIN Empty("sqlite") /\ d.tables = c.tables
        /\ \A o \in d.triggers : o \in c.triggers \/ \E j \in 1 .. n - 1 : o = G[j]
        /\ \A o \in d.functions : \/ o \in c.functions
                                  \/ \E j \in 1 .. n - 1 : o = [name |-> G[j].name]
    <3>1. Bodies(engine, G) \in Seq(Seq(S)) /\ Partial(f, Bodies(engine, G), S)
      BY <1>2, <1>4
    <3>2. d = Executed(c, f[n - 1])
      OBVIOUS
    <3> HIDE DEF S, G, d
    <3>3. WithTriggers(d, c, engine, G, n - 1)
      BY <1>1, <1>3, <2>1, <3>1, <3>2, BodiesBefore, Zenon
    <3>4. QED
      BY <3>3 DEF WithTriggers
  <2> HIDE DEF d, g, G
  <2>5. g.name \notin NamesIn(d.triggers)
    BY <1>3, <2>2, <2>4 DEF NamesIn
  <2>6. g.name \notin NamesIn(d.functions)
    <3>1. \A j : [name |-> G[j].name].name = G[j].name
      OBVIOUS
    <3>2. \A o \in d.functions : \E j \in 1 .. n - 1 : o = [name |-> G[j].name]
      BY <2>4
    <3>3. QED
      BY <2>2, <3>1, <3>2 DEF NamesIn
  <2>7. \E t \in d.tables : t.name = g.table
    BY <2>2, <2>4 DEF Fresh, NamesIn
  <2>8. AcceptsAll(d, CompiledTrigger(engine, g))
    BY <2>4, <2>5, <2>6, <2>7, BodySuffices
  <2>9. QED
    BY <2>3, <2>8 DEF d
<1>6. AcceptsAll(c, f[Len(bodies)])
  <2> HIDE DEF bodies, S
  <2>1. QED
    BY <1>2, <1>3, <1>4, <1>5, AcceptsSteps
<1>7. QED
  BY <1>4, <1>6 DEF BodyList

-----------------------------------------------------------------------------
(* Imports.                                                                *)

\* The base schema in a new database: empty tables and nothing else.
LEMMA BaseCreated ==
    ASSUME NEW db, IsDatabase(db), IsNew(db), NEW s, IsSchema(s), SelfContained(s)
    PROVE  LET c == Created(db, BaseSchema(s))
           IN  /\ Creatable(db, BaseSchema(s)) /\ Fresh(c, s) /\ c.functions = {}
               /\ c.engine = db.engine
<1> DEFINE b == BaseSchema(s)
           c == Created(db, b)
           q == Statements(db.engine, b)
<1>1. IsSchema(b) /\ b.tables = s.tables /\ b.domains = s.domains /\ b.triggers = <<>>
  BY SchemaSplits DEF BaseSchema, IsSchema
<1>2. q = BaseList(db.engine, s)
  BY SplitStatements
<1>3. Creatable(db, b)
  BY <1>2, BaseAccepted DEF Creatable
<1>4. UniquelyNamed(db.domains) /\ UniquelyNamed(db.tables)
  BY DEF IsNew, UniquelyNamed
<1> HIDE DEF b
<1>5. /\ IsDatabase(c) /\ Has(c, b) /\ c.engine = db.engine
      /\ UniquelyNamed(c.tables)
  BY <1>1, <1>3, <1>4, CreatedDatabase, CreatedNames
<1>6. \A t \in ToSet(b.tables) : t.name \in NamesIn(c.tables) /\ c.rows[t.name] = {}
  BY <1>1, <1>3, CreatedRows
<1>7. c.triggers = Made(q, "trigger") /\ c.functions = Made(q, "function")
  BY Fields DEF Created, Executed, IsNew
<1>8. Lists(q, StatementsOf(db.engine, b))
  BY <1>1, StatementElements
<1>9. ToSet(b.triggers) = {}
  BY <1>1 DEF ToSet
<1>10. \A st \in StatementsOf(db.engine, b) : st.kind \notin {"trigger", "function"}
  BY <1>9 DEF StatementsOf, Creations
<1>11. c.triggers = {} /\ c.functions = {}
  BY <1>7, <1>8, <1>10 DEF Made, Lists
<1> HIDE DEF c, q
<1>12. ASSUME NEW t \in ToSet(s.tables)
       PROVE  /\ t.name \in NamesIn(c.tables) /\ t.name \in DOMAIN c.rows /\ c.rows[t.name] = {}
              /\ Named(c.tables, t.name).constraints =
                    {CompiledConstraint(n) : n \in ToSet(t.constraints)}
  <2>1. Named(c.tables, t.name) = CompiledTable(c.engine, t, b.domains)
    BY <1>1, <1>5, TableThere
  <2>2. CompiledTable(c.engine, t, b.domains).constraints =
            {CompiledConstraint(n) : n \in ToSet(t.constraints)}
    BY DEF CompiledTable
  <2>3. QED
    BY <1>1, <1>5, <1>6, <2>1, <2>2 DEF IsDatabase
<1>13. Fresh(c, s)
  BY <1>5, <1>11, <1>12 DEF Fresh, IsDatabase
<1>14. QED
  BY <1>3, <1>5, <1>11, <1>13 DEF b, c

LEMMA NewImports ==
    ASSUME NEW db, IsDatabase(db), IsNew(db), NEW s, IsSchema(s), SelfContained(s),
           NEW rows, NEW lists \in Orders(rows),
           \A t \in ToSet(s.tables) : t.name \in DOMAIN rows /\ rows[t.name] \in RowSets,
           Referring(s, rows, lists)
    PROVE  Importable(db, s, lists)
<1> DEFINE b == BaseSchema(s)
           g == TriggerSchema(s)
           c == Created(db, b)
           w == WithRows(db, s, lists)
<1>0. Ordered(s, rows, lists)
  BY OrderedRows
<1>1. Creatable(db, b) /\ Fresh(c, s) /\ c.functions = {} /\ c.engine = db.engine
  BY BaseCreated
<1>2. IsDatabase(w) /\ Catalog(w) = Catalog(c)
  BY <1>0, <1>1, WithRowsDatabase
<1> HIDE DEF c
<1>3. CanInsertAll(c, ImportRows(s, lists))
  BY <1>1, RowsAccepted
<1> HIDE DEF w, b
<1>4. Alike(w, c)
  <2>1. DOMAIN w = DOMAIN Empty("sqlite") /\ DOMAIN c = DOMAIN Empty("sqlite")
    BY <1>1, <1>2 DEF IsDatabase, Fresh
  <2>2. QED
    BY <1>2, <2>1, CatalogFields DEF Alike
<1>5. Creatable(w, g)
  <2>1. AcceptsAll(c, BodyList(w.engine, s))
    BY <1>1, TriggersAccepted
  <2>2. AcceptsAll(w, BodyList(w.engine, s))
    BY <1>4, <2>1, AlikeAcceptsAll
  <2>3. Statements(w.engine, g) = BodyList(w.engine, s)
    BY SplitStatements
  <2>4. QED
    BY <2>2, <2>3 DEF Creatable
<1>6. QED
  BY <1>1, <1>3, <1>5 DEF Importable, b, c, w

\* What compiles and every reference of which resolves on PostgreSQL is
\* imported into an empty database of either engine, in whatever order its rows
\* were read, unless one comes before the row it refers to or that row was not
\* read: no order of the tables, no name and no trigger stands in the way of a
\* copy (ddl.go:24-65, store.go:166-198).
THEOREM ImportsValid == Spec => []ValidSchemaImports
<1>1. IndInv => ValidSchemaImports
  <2>1. SUFFICES ASSUME IndInv, step = "import", before = Empty(before.engine),
                        Compiles(config.schema), SelfContained(config.schema),
                        NEW lists \in Orders(snapshot),
                        Referring(config.schema, snapshot, lists)
                 PROVE  Importable(destination, config.schema, lists)
    <3>1. \A lists \in Orders(snapshot) :
                ~Referring(config.schema, snapshot, lists) => BreaksForeignKey(lists)
      BY DEF Referring, BreaksForeignKey, Tables
    <3>2. QED
      BY <3>1 DEF ValidSchemaImports, ImportSucceeds
  <2> DEFINE s == config.schema
  <2>2. /\ config \in Configs /\ IsDatabase(destination)
        /\ Catalog(destination) = Catalog(before) /\ snapshot \in [AllTables -> RowSets]
    BY <2>1 DEF IndInv, RunInv, TypeOK, RunOK, DatabaseOK
  <2>3. IsSchema(s)
    BY <2>2, ConfigSchema
  <2>4. \A t \in ToSet(s.tables) : t.name \in DOMAIN snapshot /\ snapshot[t.name] \in RowSets
    <3>1. AllTables = {t.name : t \in ToSet(Tables)} /\ Tables = s.tables
      BY <2>2, ConfigSchema DEF AllTables, FirstTables, ToSet, Tables
    <3>2. QED
      BY <2>2, <3>1
  <2>5. IsNew(destination)
    <3>1. IsNew(before)
      BY <2>1, EmptyIsNew
    <3>2. DOMAIN before = DOMAIN Empty("sqlite") /\ DOMAIN destination = DOMAIN Empty("sqlite")
      BY <2>2, <3>1 DEF IsNew, IsDatabase
    <3>3. QED
      BY <2>2, <3>1, <3>2, CatalogFields DEF IsNew
  <2> HIDE DEF s
  <2>6. Importable(destination, s, lists)
    BY <2>1, <2>2, <2>3, <2>4, <2>5, NewImports DEF s
  <2>7. QED
    BY <2>6 DEF s
<1>2. QED
  BY <1>1, CatalogsInductive, PTL

-----------------------------------------------------------------------------
(* Values.                                                                 *)

\* A day is its own day, and printing an instant does not change it.
LEMMA TimesAsPrinted ==
    /\ \A d \in Days : d \in DOMAIN DateOf /\ DateOf[d] = d /\ d \notin DOMAIN Printed
    /\ \A t \in DOMAIN Printed : Printed[t] \in DOMAIN RFC3339 /\ RFC3339[Printed[t]] = RFC3339[t]
<1>1. ASSUME NEW d \in Days
      PROVE  d \in DOMAIN DateOf /\ DateOf[d] = d
  <2>1. PICK t \in DOMAIN DateOf : d = DateOf[t]
    BY <1>1 DEF Days
  <2>2. QED
    BY <2>1, ValuesAssumption DEF Idempotent
<1>2. QED
  BY <1>1, ValuesAssumption

\* Seventeen digits read back as the float they were printed from.
LEMMA FloatsAsPrinted ==
    \A x \in Floats : /\ x \in DOMAIN Nearest /\ Nearest[x] = x
                      /\ Seventeen[x] \in DOMAIN Nearest /\ Nearest[Seventeen[x]] = x
BY ValuesAssumption

\* A row trigger and a driver tell the same canonical value of a column, for
\* every type of column on either engine (hazard store.go:270).
THEOREM JournaledAsScanned ==
    ASSUME NEW engine \in Engines, NEW declared, NEW family \in Families, NEW s,
           Typed(engine, declared, family), Suits(engine, declared, family, s)
    PROVE  CanonicalValue(family, Unpacked(family, Journaled(engine, family, s)))
             = CanonicalValue(family, Scanned(engine, declared, s))
<1> DEFINE told == CanonicalValue(family, Unpacked(family, Journaled(engine, family, s)))
           read == CanonicalValue(family, Scanned(engine, declared, s))
<1>1. ASSUME engine = "sqlite", declared \in {"TIMESTAMP", "DATE"}
      PROVE  family = (IF declared = "DATE" THEN "date" ELSE "timestamp")
  BY <1>1 DEF Typed, FamilyOf, CompiledType
<1>2. CASE s = Null
  BY <1>2 DEF Null, Stored, Journaled, Unpacked, Scanned, CanonicalValue
<1>3. CASE s # Null
  <2>1. s = [class |-> s.class, data |-> s.data]
    BY <1>3 DEF Suits, Stored
  <2>2. CASE family = "boolean"
    <3>1. s.class \in {"integer", "text"}
      BY <1>3, <2>2 DEF Suits
    <3>2. told = Value("boolean", BooleanText(s.data))
      BY <2>1, <2>2, <3>1 DEF Journaled, CastToText, Unpacked, CanonicalValue, Stored
    <3>3. Scanned(engine, declared, s) = s
      BY <1>1, <2>1, <2>2, <3>1 DEF Scanned
    <3>4. read = Value("boolean", BooleanText(s.data))
      BY <2>2, <3>1, <3>3 DEF CanonicalValue
    <3>5. QED
      BY <3>2, <3>4
  <2>3. CASE family \in {"integer", "text", "uuid"}
    <3>1. s.class \in {"integer", "text"}
      BY <1>3, <2>3 DEF Suits
    <3>2. told = Value(family, s.data)
      BY <2>1, <2>3, <3>1 DEF Journaled, CastToText, Unpacked, CanonicalValue, Stored
    <3>3. Scanned(engine, declared, s) = s
      BY <1>1, <2>1, <2>3, <3>1 DEF Scanned
    <3>4. read = Value(family, s.data)
      BY <2>3, <3>1, <3>3 DEF CanonicalValue
    <3>5. QED
      BY <3>2, <3>4
  <2>4. CASE family = "decimal"
    <3>1. Scanned(engine, declared, s) = s
      BY <1>1, <2>4 DEF Scanned
    <3>2. CASE s.class = "real"
      <4>1. engine = "sqlite" /\ s.data \in Floats
        BY <1>3, <2>4, <3>2 DEF Suits
      <4>2. told = Value("decimal", Nearest[Seventeen[s.data]])
        BY <2>4, <3>2, <4>1 DEF Journaled, RealText, Unpacked, CanonicalValue, Stored
      <4>3. read = Value("decimal", Nearest[s.data])
        BY <2>4, <3>1, <3>2 DEF CanonicalValue
      <4>4. QED
        BY <4>1, <4>2, <4>3, FloatsAsPrinted
    <3>3. CASE s.class # "real"
      <4>1. s.class \in {"integer", "text"}
        BY <1>3, <2>4, <3>3 DEF Suits
      <4>2. told = Value("decimal", s.data)
        BY <2>4, <4>1 DEF Journaled, CastToText, Unpacked, CanonicalValue, Stored
      <4>3. read = Value("decimal", s.data)
        BY <2>4, <3>1, <4>1 DEF CanonicalValue
      <4>4. QED
        BY <4>2, <4>3
    <3>4. QED
      BY <3>2, <3>3
  <2>5. CASE family = "float"
    <3>1. s.class = "real" /\ s.data \in Floats
      BY <1>3, <2>5 DEF Suits
    <3>2. Scanned(engine, declared, s) = s
      BY <3>1 DEF Scanned
    <3>3. read = Value("float", s.data)
      BY <2>5, <3>1, <3>2, FloatsAsPrinted DEF CanonicalValue
    <3>4. told = Value("float", s.data)
      <4>1. CASE engine = "sqlite"
        <5>1. told = CanonicalValue(family, Stored("text", Seventeen[s.data]))
          BY <2>5, <3>1, <4>1 DEF Journaled, RealText, Unpacked, Stored
        <5>2. QED
          BY <2>5, <3>1, <5>1, FloatsAsPrinted DEF CanonicalValue, Stored
      <4>2. CASE engine = "postgres"
        <5>1. told = CanonicalValue(family, Stored("text", s.data))
          BY <2>5, <3>1, <4>2 DEF Journaled, CastToText, Unpacked, Stored
        <5>2. QED
          BY <2>5, <3>1, <5>1, FloatsAsPrinted DEF CanonicalValue, Stored
      <4>3. QED
        BY <4>1, <4>2 DEF Engines
    <3>5. QED
      BY <3>3, <3>4
  <2>6. CASE family = "binary"
    BY <1>3, <2>1, <2>6
       DEF Suits, Journaled, Unpacked, Scanned, CanonicalValue, Stored
  <2>7. CASE family = "date"
    <3>1. s.class \in {"time", "text"} /\ s.data \in Days
      BY <1>3, <2>7 DEF Suits
    <3>2. told = Value("date", s.data)
      BY <2>7, <3>1, TimesAsPrinted DEF Journaled, CastToText, Unpacked, CanonicalValue, Stored
    <3>3. Scanned(engine, declared, s) \in {s, Stored("time", s.data)}
      BY DEF Scanned
    <3>4. read \in {Value("date", s.data), Value("date", DateOf[s.data])}
      BY <2>7, <3>1, <3>3 DEF CanonicalValue, Stored
    <3>5. QED
      BY <3>1, <3>2, <3>4, TimesAsPrinted
  <2>8. CASE family = "timestamp"
    <3>1. s.class \in {"time", "text"} /\ s.data \in DOMAIN RFC3339
      BY <1>3, <2>8 DEF Suits
    <3>2. PICK text : /\ text \in DOMAIN RFC3339 /\ RFC3339[text] = RFC3339[s.data]
                      /\ Journaled(engine, family, s) = Stored("text", text)
      <4>1. Journaled(engine, family, s) = Stored("text", CastToText(engine, s))
        BY <2>8, <3>1 DEF Journaled
      <4>2. CastToText(engine, s) = s.data
              \/ (s.data \in DOMAIN Printed /\ CastToText(engine, s) = Printed[s.data])
        BY <3>1 DEF CastToText
      <4>3. QED
        BY <3>1, <4>1, <4>2, TimesAsPrinted
    <3>3. told = Value("timestamp", RFC3339[s.data])
      BY <2>8, <3>2 DEF Unpacked, CanonicalValue, Stored
    <3>4. Scanned(engine, declared, s) \in {s, Stored("time", s.data)}
      BY DEF Scanned
    <3>5. read = Value("timestamp", RFC3339[s.data])
      BY <2>8, <3>1, <3>4 DEF CanonicalValue, Stored
    <3>6. QED
      BY <3>3, <3>5
  <2>9. CASE family \in {"json", "vector"}
    <3>1. s.class = "text"
      BY <1>3, <2>9 DEF Suits
    <3>2. Scanned(engine, declared, s) = s
      BY <1>1, <2>9 DEF Scanned
    <3>3. Unpacked(family, Journaled(engine, family, s)) = s
      BY <2>1, <2>9, <3>1 DEF Journaled, CastToText, Unpacked, Stored
    <3>4. QED
      BY <3>2, <3>3
  <2>10. QED
    BY <2>2, <2>3, <2>4, <2>5, <2>6, <2>7, <2>8, <2>9 DEF Families
<1>4. QED
  BY <1>2, <1>3

\* What is read of a column is a canonical value of its family.
LEMMA ReadIsCanonical ==
    ASSUME NEW engine \in Engines, NEW declared, NEW family \in Families, NEW s,
           Typed(engine, declared, family), Suits(engine, declared, family, s)
    PROVE  Canonical(family, CanonicalValue(family, Scanned(engine, declared, s)))
<1> DEFINE read == CanonicalValue(family, Scanned(engine, declared, s))
<1>1. ASSUME engine = "sqlite", declared \in {"TIMESTAMP", "DATE"}
      PROVE  family = (IF declared = "DATE" THEN "date" ELSE "timestamp")
  BY <1>1 DEF Typed, FamilyOf, CompiledType
<1>2. CASE s = Null
  BY <1>2 DEF Null, Stored, Scanned, CanonicalValue, Canonical
<1>3. CASE s # Null
  <2>1. CASE family = "boolean"
    <3>1. s.class \in {"integer", "text"}
      BY <1>3, <2>1 DEF Suits
    <3>2. Scanned(engine, declared, s) = s
      BY <1>1, <2>1 DEF Scanned
    <3>3. read = Value("boolean", BooleanText(s.data))
      BY <2>1, <3>1, <3>2 DEF CanonicalValue
    <3>4. QED
      BY <2>1, <3>3 DEF BooleanText, Canonical, Value
  <2>2. CASE family \in {"integer", "text", "uuid"}
    <3>1. s.class \in {"integer", "text"} /\ (family = "integer" => s.data \in Integers)
      BY <1>3, <2>2 DEF Suits
    <3>2. Scanned(engine, declared, s) = s
      BY <1>1, <2>2 DEF Scanned
    <3>3. read = Value(family, s.data)
      BY <2>2, <3>1, <3>2 DEF CanonicalValue
    <3>4. QED
      BY <2>2, <3>1, <3>3 DEF Canonical, Value
  <2>3. CASE family = "decimal"
    <3>1. s.class \in {"real", "integer", "text"}
      BY <1>3, <2>3 DEF Suits
    <3>2. Scanned(engine, declared, s) = s
      BY <1>1, <2>3 DEF Scanned
    <3>3. read \in {Value("decimal", s.data), Value("decimal", Nearest[s.data])}
      BY <2>3, <3>1, <3>2 DEF CanonicalValue
    <3>4. QED
      BY <2>3, <3>3 DEF Canonical, Value
  <2>4. CASE family = "float"
    <3>1. s.class = "real" /\ s.data \in Floats
      BY <1>3, <2>4 DEF Suits
    <3>2. read = Value("float", s.data)
      BY <2>4, <3>1, FloatsAsPrinted DEF Scanned, CanonicalValue
    <3>3. QED
      BY <2>4, <3>1, <3>2 DEF Canonical, Value
  <2>5. CASE family = "binary"
    <3>1. s.class = "blob"
      BY <1>3, <2>5 DEF Suits
    <3>2. read = Value("binary", s.data)
      BY <2>5, <3>1 DEF Scanned, CanonicalValue
    <3>3. QED
      BY <2>5, <3>2 DEF Canonical, Value
  <2>6. CASE family = "date"
    <3>1. s.class \in {"time", "text"} /\ s.data \in Days
      BY <1>3, <2>6 DEF Suits
    <3>2. Scanned(engine, declared, s) \in {s, Stored("time", s.data)}
      BY DEF Scanned
    <3>3. read \in {Value("date", s.data), Value("date", DateOf[s.data])}
      BY <2>6, <3>1, <3>2 DEF CanonicalValue, Stored
    <3>4. QED
      BY <2>6, <3>1, <3>3, TimesAsPrinted DEF Canonical, Value
  <2>7. CASE family = "timestamp"
    <3>1. s.class \in {"time", "text"} /\ s.data \in DOMAIN RFC3339
      BY <1>3, <2>7 DEF Suits
    <3>2. Scanned(engine, declared, s) \in {s, Stored("time", s.data)}
      BY DEF Scanned
    <3>3. read = Value("timestamp", RFC3339[s.data])
      BY <2>7, <3>1, <3>2 DEF CanonicalValue, Stored
    <3>4. RFC3339[s.data] \in DOMAIN RFC3339 /\ RFC3339[RFC3339[s.data]] = RFC3339[s.data]
      BY <3>1, ValuesAssumption DEF Idempotent
    <3>5. QED
      BY <2>7, <3>3, <3>4 DEF Canonical, Value
  <2>8. CASE family = "json"
    <3>1. s.class = "text" /\ s.data \in DOMAIN Sorted
      BY <1>3, <2>8 DEF Suits
    <3>2. read = Value("json", Sorted[s.data])
      BY <1>1, <2>8, <3>1 DEF Scanned, CanonicalValue
    <3>3. Sorted[s.data] \in DOMAIN Sorted /\ Sorted[Sorted[s.data]] = Sorted[s.data]
      BY <3>1, ValuesAssumption DEF Idempotent
    <3>4. QED
      BY <2>8, <3>2, <3>3 DEF Canonical, Value
  <2>9. CASE family = "vector"
    <3>1. s.class = "text" /\ s.data \in DOMAIN Components
      BY <1>3, <2>9 DEF Suits
    <3>2. read = Value("vector", Components[s.data])
      BY <1>1, <2>9, <3>1 DEF Scanned, CanonicalValue
    <3>3. Components[s.data] \in DOMAIN Components
          /\ Components[Components[s.data]] = Components[s.data]
      BY <3>1, ValuesAssumption DEF Idempotent
    <3>4. QED
      BY <2>9, <3>2, <3>3 DEF Canonical, Value
  <2>10. QED
    BY <2>1, <2>2, <2>3, <2>4, <2>5, <2>6, <2>7, <2>8, <2>9 DEF Families
<1>4. QED
  BY <1>2, <1>3

\* What a column declared for its family stores of a text.
LEMMA TextStored ==
    ASSUME NEW class \in {"integer", "text"}, NEW text
    PROVE  /\ text \in Integers => Store("sqlite", "INTEGER", Stored(class, text)) = Stored("integer", text)
           /\ text \in DOMAIN Nearest => Store("sqlite", "REAL", Stored(class, text)) = Stored("real", Nearest[text])
           /\ Store("sqlite", "TEXT", Stored(class, text)) = Stored("text", text)
           /\ Store("postgres", "bigint", Stored(class, text)) = Stored("integer", text)
           /\ Store("postgres", "double precision", Stored(class, text)) = Stored("real", Nearest[text])
           /\ text \in DOMAIN Numeric =>
                    Store("postgres", "numeric", Stored(class, text)) = Stored("text", Numeric[text])
           /\ text \in DOMAIN Rounded =>
                    Store("postgres", "vector", Stored(class, text)) = Stored("text", Rounded[text])
           /\ \A declared \in {"boolean", "text"} :
                    Store("postgres", declared, Stored(class, text)) = Stored("text", text)
<1> DEFINE a == Stored(class, text)
<1>1. a.class \notin {"null", "blob"} /\ a.data = text
  BY DEF Stored
<1> HIDE DEF a
<1>2. /\ Affinity("INTEGER") = "integer" /\ Affinity("REAL") = "real" /\ Affinity("TEXT") = "text"
  BY DEF Affinity
<1>3. ASSUME text \in Integers
      PROVE  Store("sqlite", "INTEGER", a) = Stored("integer", text)
  BY <1>1, <1>2, <1>3 DEF Store
<1>4. ASSUME text \in DOMAIN Nearest
      PROVE  Store("sqlite", "REAL", a) = Stored("real", Nearest[text])
  BY <1>1, <1>2, <1>4 DEF Store
<1>5. Store("sqlite", "TEXT", a) = Stored("text", text)
  BY <1>1, <1>2 DEF Store
<1>6. /\ Store("postgres", "bigint", a) = Stored("integer", text)
      /\ Store("postgres", "double precision", a) = Stored("real", Nearest[text])
  BY <1>1 DEF Store
<1>7. ASSUME text \in DOMAIN Numeric
      PROVE  Store("postgres", "numeric", a) = Stored("text", Numeric[text])
  BY <1>1, <1>7 DEF Store
<1>8. ASSUME text \in DOMAIN Rounded
      PROVE  Store("postgres", "vector", a) = Stored("text", Rounded[text])
  BY <1>1, <1>8 DEF Store
<1>9. ASSUME NEW declared \in {"boolean", "text"}
      PROVE  Store("postgres", declared, a) = Stored("text", text)
  BY <1>1 DEF Store
<1>10. QED
  BY <1>3, <1>4, <1>5, <1>6, <1>7, <1>8, <1>9 DEF a

\* Only the decimals and vectors of PostgreSQL are respelled.
LEMMA KeptSpelling ==
    ASSUME NEW engine \in Engines, NEW family, NEW v,
           engine = "sqlite" \/ v = NullValue \/ family \notin {"decimal", "vector"}
    PROVE  Respelled(engine, family, v) = v
BY DEF Respelled, Engines

\* What PostgreSQL respelled it keeps.
LEMMA RespelledOnce ==
    ASSUME NEW engine \in Engines, NEW family \in Families, NEW v,
           Taken(engine, family, v)
    PROVE  /\ Taken(engine, family, Respelled(engine, family, v))
           /\ Respelled(engine, family, Respelled(engine, family, v)) = Respelled(engine, family, v)
<1> DEFINE w == Respelled(engine, family, v)
<1>1. CASE engine = "sqlite" \/ v = NullValue \/ family \notin {"decimal", "vector"}
  BY <1>1, KeptSpelling
<1>2. CASE engine = "postgres" /\ v # NullValue /\ family = "decimal"
  <2>1. v.text \in DOMAIN Numeric /\ w = Value("decimal", Numeric[v.text])
    BY <1>2 DEF Taken, Respelled
  <2>2. Numeric[v.text] \in DOMAIN Numeric /\ Numeric[Numeric[v.text]] = Numeric[v.text]
    BY <2>1, ValuesAssumption DEF Idempotent
  <2>3. w.text = Numeric[v.text] /\ w # NullValue
    BY <2>1 DEF Value, NullValue
  <2> HIDE DEF w
  <2>4. Taken(engine, family, w) /\ Respelled(engine, family, w) = w
    BY <1>2, <2>1, <2>2, <2>3 DEF Taken, Respelled
  <2>5. QED
    BY <2>4 DEF w
<1>3. CASE engine = "postgres" /\ v # NullValue /\ family = "vector"
  <2>1. v.text \in DOMAIN Rounded /\ w = Value("vector", Components[Rounded[v.text]])
    BY <1>3 DEF Taken, Respelled
  <2>2. /\ Components[Rounded[v.text]] \in DOMAIN Rounded
        /\ Rounded[Components[Rounded[v.text]]] = Rounded[v.text]
    BY <2>1, ValuesAssumption
  <2>3. w.text = Components[Rounded[v.text]] /\ w # NullValue
    BY <2>1 DEF Value, NullValue
  <2> HIDE DEF w
  <2>4. Taken(engine, family, w) /\ Respelled(engine, family, w) = w
    BY <1>3, <2>1, <2>2, <2>3 DEF Taken, Respelled
  <2>5. QED
    BY <2>4 DEF w
<1>4. QED
  BY <1>1, <1>2, <1>3 DEF Engines

\* A canonical value that the engine takes into the column declared for its
\* family is read back from it, as the engine spells it.
LEMMA WrittenIsRead ==
    ASSUME NEW engine \in Engines, NEW family \in Families, NEW v, Canonical(family, v),
           Taken(engine, family, v)
    PROVE  LET declared == CompiledType(engine, family)
               s == Store(engine, declared, DriverValue(engine, v))
           IN  /\ Suits(engine, declared, family, s)
               /\ CanonicalValue(family, Scanned(engine, declared, s))
                    = Respelled(engine, family, v)
<1> DEFINE declared == CompiledType(engine, family)
           s == Store(engine, declared, DriverValue(engine, v))
           read == CanonicalValue(family, Scanned(engine, declared, s))
<1>1. CASE v = NullValue
  <2>1. DriverValue(engine, v) = Null
    BY <1>1 DEF DriverValue, NullValue, Value
  <2>2. s = Null
    BY <2>1 DEF Store, Null, Stored
  <2>3. QED
    BY <1>1, <2>2, KeptSpelling DEF Suits, Scanned, CanonicalValue, Null, Stored
<1>2. CASE v # NullValue
  <2>1. v.kind = family /\ v = [kind |-> family, text |-> v.text]
    BY <1>2 DEF Canonical, Value
  <2>2. declared \notin {"TIMESTAMP", "DATE", "date", "timestamptz", "jsonb"}
    BY DEF CompiledType
  <2>3. CASE family = "boolean" /\ engine = "sqlite"
    <3>1. v.text \in {"true", "false"}
      BY <1>2, <2>3 DEF Canonical
    <3>2. s = Stored("integer", IF v.text = "true" THEN "1" ELSE "0")
      <4>1. DriverValue(engine, v) = Stored("integer", IF v.text = "true" THEN "1" ELSE "0")
        BY <2>1, <2>3 DEF DriverValue
      <4>2. CompiledType(engine, family) = "INTEGER"
        BY <2>3 DEF CompiledType
      <4>3. (IF v.text = "true" THEN "1" ELSE "0") \in Integers
        BY ValuesAssumption
      <4>4. QED
        BY <2>3, <4>1, <4>2, <4>3, TextStored
    <3>3. QED
      BY <2>1, <2>3, <3>1, <3>2, KeptSpelling
         DEF Suits, Scanned, CanonicalValue, BooleanText, Stored, Value
  <2>4. CASE family = "binary"
    <3>1. s = Stored("blob", v.text)
      BY <2>1, <2>4 DEF DriverValue, Store, Stored
    <3>2. QED
      BY <2>1, <2>4, <3>1, KeptSpelling DEF Suits, Scanned, CanonicalValue, Stored, Value
  <2>5. CASE family # "binary" /\ ~(family = "boolean" /\ engine = "sqlite")
    <3>1. DriverValue(engine, v) = Stored("text", v.text)
      BY <2>1, <2>5 DEF DriverValue, Families
    <3>2. CASE family = "integer"
      <4>1. v.text \in Integers
        BY <1>2, <3>2 DEF Canonical
      <4>2. s = Stored("integer", v.text)
        <5>1. CompiledType(engine, family) = IF engine = "sqlite" THEN "INTEGER" ELSE "bigint"
          BY <3>2 DEF CompiledType
        <5>2. QED
          BY <3>1, <4>1, <5>1, TextStored DEF Engines
      <4>3. QED
        BY <2>1, <3>2, <4>1, <4>2, KeptSpelling DEF Suits, Scanned, CanonicalValue, Stored, Value
    <3>3. CASE family = "float"
      <4>1. v.text \in Floats
        BY <1>2, <3>3 DEF Canonical
      <4>2. s = Stored("real", Nearest[v.text])
        <5>1. CompiledType(engine, family)
                = IF engine = "sqlite" THEN "REAL" ELSE "double precision"
          BY <3>3 DEF CompiledType
        <5>2. QED
          BY <3>1, <4>1, <5>1, TextStored, FloatsAsPrinted DEF Engines
      <4>3. QED
        BY <2>1, <3>3, <4>1, <4>2, FloatsAsPrinted, KeptSpelling
           DEF Suits, Scanned, CanonicalValue, Stored, Value
    <3>4. CASE family = "vector" /\ engine = "postgres"
      <4>1. v.text \in DOMAIN Rounded
        BY <1>2, <3>4 DEF Taken
      <4>2. s = Stored("text", Rounded[v.text])
        <5>1. CompiledType(engine, family) = "vector"
          BY <3>4 DEF CompiledType
        <5>2. QED
          BY <3>1, <3>4, <4>1, <5>1, TextStored
      <4>3. /\ Rounded[v.text] \in DOMAIN Components
            /\ Components[Rounded[v.text]] \in DOMAIN Rounded
            /\ Rounded[Components[Rounded[v.text]]] = Rounded[v.text]
        BY <4>1, ValuesAssumption
      <4>4. Respelled(engine, family, v) = Value("vector", Components[Rounded[v.text]])
        BY <1>2, <3>4 DEF Respelled
      <4>5. Scanned(engine, declared, s) = s
        BY <2>2 DEF Scanned
      <4>6. QED
        BY <3>4, <4>2, <4>3, <4>4, <4>5 DEF Suits, CanonicalValue, Stored
    <3>5. CASE family = "vector" /\ engine = "sqlite"
      <4>1. v.text \in DOMAIN Components /\ Components[v.text] = v.text
        BY <1>2, <3>5 DEF Canonical
      <4>2. s = Stored("text", v.text)
        <5>1. CompiledType(engine, family) = "TEXT"
          BY <3>5 DEF CompiledType
        <5>2. QED
          BY <3>1, <3>5, <5>1, TextStored
      <4>3. QED
        BY <2>1, <2>2, <3>5, <4>1, <4>2, KeptSpelling
           DEF Suits, Scanned, CanonicalValue, Stored, Value
    <3>6. CASE family = "decimal" /\ engine = "postgres"
      <4>1. v.text \in DOMAIN Numeric
        BY <1>2, <3>6 DEF Taken
      <4>2. s = Stored("text", Numeric[v.text])
        <5>1. CompiledType(engine, family) = "numeric"
          BY <3>6 DEF CompiledType
        <5>2. QED
          BY <3>1, <3>6, <4>1, <5>1, TextStored
      <4>3. Numeric[v.text] \in DOMAIN Numeric /\ Numeric[Numeric[v.text]] = Numeric[v.text]
        BY <4>1, ValuesAssumption DEF Idempotent
      <4>4. Respelled(engine, family, v) = Value("decimal", Numeric[v.text])
        BY <1>2, <3>6 DEF Respelled
      <4>5. Scanned(engine, declared, s) = s
        BY <2>2 DEF Scanned
      <4>6. QED
        BY <3>6, <4>2, <4>3, <4>4, <4>5 DEF Suits, CanonicalValue, Stored
    <3>7. CASE /\ family \notin {"integer", "float", "vector"}
               /\ ~(family = "decimal" /\ engine = "postgres")
      <4>1. s = Stored("text", v.text)
        <5>1. CASE engine = "sqlite"
          <6>1. declared = "TEXT"
            BY <2>5, <3>7, <5>1 DEF CompiledType
          <6>2. QED
            BY <3>1, <5>1, <6>1, TextStored
        <5>2. CASE engine = "postgres"
          <6>1. declared \in {"boolean", "text"}
            BY <2>5, <3>7, <5>2 DEF CompiledType
          <6>2. QED
            BY <3>1, <5>2, <6>1, TextStored
        <5>3. QED
          BY <5>1, <5>2 DEF Engines
      <4>2. Scanned(engine, declared, s) = s
        BY <2>2 DEF Scanned
      <4>3. Respelled(engine, family, v) = v
        BY <2>5, <3>7, KeptSpelling DEF Engines
      <4>4. CASE family = "boolean"
        BY <1>2, <2>1, <2>5, <4>1, <4>2, <4>3, <4>4
           DEF Canonical, Suits, CanonicalValue, BooleanText, Stored, Value
      <4>5. CASE family \in {"decimal", "text", "uuid"}
        BY <2>1, <3>7, <4>1, <4>2, <4>3, <4>5 DEF Suits, CanonicalValue, Stored, Value
      <4>6. CASE family = "date"
        BY <1>2, <2>1, <2>2, <4>1, <4>2, <4>3, <4>6 DEF Canonical, Suits, CanonicalValue, Stored, Value
      <4>7. CASE family = "timestamp"
        BY <1>2, <2>1, <2>2, <4>1, <4>2, <4>3, <4>7 DEF Canonical, Suits, CanonicalValue, Stored, Value
      <4>8. CASE family = "json"
        BY <1>2, <2>1, <4>1, <4>2, <4>3, <4>8 DEF Canonical, Suits, CanonicalValue, Stored, Value
      <4>9. QED
        BY <2>5, <3>7, <4>4, <4>5, <4>6, <4>7, <4>8 DEF Families
    <3>8. QED
      BY <3>2, <3>3, <3>4, <3>5, <3>6, <3>7 DEF Engines
  <2>6. QED
    BY <2>3, <2>4, <2>5
<1>3. QED
  BY <1>1, <1>2

\* What a column of PostgreSQL gives is spelled as PostgreSQL spells it.
LEMMA SpelledByPostgres ==
    ASSUME NEW declared, NEW family \in Families, NEW s,
           Typed("postgres", declared, family), Suits("postgres", declared, family, s)
    PROVE  LET v == CanonicalValue(family, Scanned("postgres", declared, s))
           IN  /\ Taken("postgres", family, v)
               /\ Respelled("postgres", family, v) = v
<1> DEFINE v == CanonicalValue(family, Scanned("postgres", declared, s))
<1>1. Scanned("postgres", declared, s) = s
  BY DEF Scanned
<1>2. CASE s = Null
  <2>1. v = NullValue
    BY <1>1, <1>2 DEF CanonicalValue, Null, Stored
  <2>2. QED
    BY <2>1 DEF Taken, Respelled
<1>3. CASE s # Null /\ family = "decimal"
  <2>1. s.class = "text" /\ s.data \in DOMAIN Numeric /\ Numeric[s.data] = s.data
    BY <1>3 DEF Suits
  <2>2. v = Value("decimal", s.data)
    BY <1>1, <1>3, <2>1 DEF CanonicalValue
  <2>3. v.text = s.data
    BY <2>2 DEF Value
  <2> HIDE DEF v
  <2>4. Taken("postgres", family, v) /\ Respelled("postgres", family, v) = v
    BY <1>3, <2>1, <2>2, <2>3 DEF Taken, Respelled
  <2>5. QED
    BY <2>4 DEF v
<1>4. CASE s # Null /\ family = "vector"
  <2>1. /\ s.class = "text" /\ s.data \in DOMAIN Components
        /\ Components[s.data] \in DOMAIN Rounded /\ Rounded[Components[s.data]] = s.data
    BY <1>4 DEF Suits
  <2>2. v = Value("vector", Components[s.data])
    BY <1>1, <1>4, <2>1 DEF CanonicalValue
  <2>3. v.text = Components[s.data]
    BY <2>2 DEF Value
  <2> HIDE DEF v
  <2>4. Taken("postgres", family, v) /\ Respelled("postgres", family, v) = v
    BY <1>4, <2>1, <2>2, <2>3 DEF Taken, Respelled
  <2>5. QED
    BY <2>4 DEF v
<1>5. CASE family \notin {"decimal", "vector"}
  BY <1>5 DEF Taken, Respelled
<1>6. QED
  BY <1>2, <1>3, <1>4, <1>5

\* A value that the copy takes fits the column the copy declares, whether it
\* comes from a snapshot or from the journal.  It is read there as it was at the
\* source but for the spelling of PostgreSQL, it is journaled there as it is
\* read, and copied once more it changes no further.  PostgreSQL takes what
\* PostgreSQL gave, as it is spelled; SQLite takes everything so (hazards
\* store.go:270, ddl.go:291).
THEOREM CopiedAlike ==
    ASSUME NEW engine \in Engines, NEW declared, NEW family \in Families, NEW s,
           Typed(engine, declared, family), Suits(engine, declared, family, s),
           NEW other \in Engines
    PROVE  LET v == CanonicalValue(family, Scanned(engine, declared, s))
               type == CompiledType(other, family)
               written == Store(other, type, DriverValue(other, v))
               read == CanonicalValue(family, Scanned(other, type, written))
           IN  /\ Taken(other, family, v) =>
                    /\ Suits(other, type, family, written)
                    /\ read = Respelled(other, family, v)
                    /\ CanonicalValue(family, Unpacked(family, Journaled(other, family, written))) = read
                    /\ Taken(other, family, read) /\ Respelled(other, family, read) = read
               /\ engine = "postgres" \/ other = "sqlite" =>
                    Taken(other, family, v) /\ Respelled(other, family, v) = v
<1> DEFINE v == CanonicalValue(family, Scanned(engine, declared, s))
           type == CompiledType(other, family)
           written == Store(other, type, DriverValue(other, v))
           read == CanonicalValue(family, Scanned(other, type, written))
<1>1. Canonical(family, v)
  BY ReadIsCanonical
<1>2. ASSUME engine = "postgres" \/ other = "sqlite"
      PROVE  Taken(other, family, v) /\ Respelled(other, family, v) = v
  <2>1. CASE other = "sqlite"
    BY <2>1, KeptSpelling DEF Taken
  <2>2. CASE other = "postgres" /\ engine = "postgres"
    BY <2>2, SpelledByPostgres
  <2>3. QED
    BY <1>2, <2>1, <2>2 DEF Engines
<1>3. ASSUME Taken(other, family, v)
      PROVE  /\ Suits(other, type, family, written)
             /\ read = Respelled(other, family, v)
             /\ CanonicalValue(family, Unpacked(family, Journaled(other, family, written))) = read
             /\ Taken(other, family, read) /\ Respelled(other, family, read) = read
  <2> HIDE DEF v
  <2>1. Suits(other, type, family, written) /\ read = Respelled(other, family, v)
    BY <1>1, <1>3, WrittenIsRead
  <2>2. Typed(other, type, family)
    BY DEF Typed
  <2>3. CanonicalValue(family, Unpacked(family, Journaled(other, family, written))) = read
    <3> HIDE DEF written, type
    <3>1. QED
      BY <2>1, <2>2, JournaledAsScanned
  <2> HIDE DEF read
  <2>4. Taken(other, family, read) /\ Respelled(other, family, read) = read
    BY <1>3, <2>1, RespelledOnce
  <2>5. QED
    BY <2>1, <2>3, <2>4
<1>4. QED
  BY <1>2, <1>3

===============================================================================
