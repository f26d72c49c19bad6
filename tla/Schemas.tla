------------------------------- MODULE Schemas -------------------------------
(***************************************************************************)
(* The canonical schema: what Schema.Validate asks of it                   *)
(* (compat/schema.go), the statements CompileDDL makes of it for an engine *)
(* (compat/ddl.go) and the capabilities it takes (compat/features.go,      *)
(* compat/spec.go).                                                        *)
(*                                                                         *)
(* An expression is a pair: what it computes, and the column it is about.  *)
(* Its text and its parts are the subject of Expressions.  A query is the  *)
(* relations it reads and how many columns it projects.                    *)
(***************************************************************************)
EXTENDS Integers, Sequences, SequencesExt, Types

None == <<>>

Names(objects) == [i \in DOMAIN objects |-> objects[i].name]

Distinct(names) == IsInjective(names)

\* A schema lists what it declares.
IsSchema(s) ==
    /\ DOMAIN s = {"domains", "tables", "indexes", "views", "triggers", "routines"}
    /\ \A part \in DOMAIN s : s[part] \in Seq(ToSet(s[part]))
    /\ \A t \in ToSet(s.tables) :
        /\ t.columns \in Seq(ToSet(t.columns)) /\ t.constraints \in Seq(ToSet(t.constraints))
        /\ \A n \in ToSet(t.constraints) :
            /\ n = [field \in {"kind", "columns", "parent", "parentColumns", "onUpdate",
                                "onDelete", "expression"} |-> n[field]]
            /\ n.columns \in Seq(ToSet(n.columns))

\* The names the layer keeps for its own tables.
Reserved == {"__compat_schema", "__compat_applied_changes",
             "__compat_capture_state", "__compat_change_journal"}

-----------------------------------------------------------------------------
(* Schema.Validate.                                                        *)

Families == {"boolean", "integer", "decimal", "float", "text", "binary", "date",
             "timestamp", "json", "uuid", "vector"}

\* expressionIsNonDeterministic
IsNonDeterministic(e) == e # None /\ e[1] = "gen_random_uuid"

ValidType(type) ==
    /\ type.family \in Families
    /\ type.family = "vector" => Len(type.arguments) = 1 /\ type.arguments[1] > 0

\* validateDomains
ValidDomains(domains) ==
    /\ \A d \in ToSet(domains) :
        d.name # "" /\ ValidType(d.type) /\ ~IsNonDeterministic(d.check)
    /\ Distinct(Names(domains))

DomainOf(c, domains) == CHOOSE d \in ToSet(domains) : d.name = c.domain

\* A column of a domain adds nothing of its own.
NeutralColumn(c, domains) ==
    /\ \E d \in ToSet(domains) : d.name = c.domain
    /\ c.type = DomainOf(c, domains).type
    /\ c.nullable /\ c.default = None /\ c.generated = None

\* validateTableColumn
ValidColumn(c, domains) ==
    /\ c.name # "" /\ ValidType(c.type)
    /\ c.domain # "" => NeutralColumn(c, domains)
    /\ c.generated # None => c.stored /\ c.default = None

\* A generated column is no part of a key.
KeyIsStored(t, constraint) ==
    constraint.kind = "primary_key" =>
        \A c \in ToSet(t.columns) : c.generated # None => ~Contains(constraint.columns, c.name)

Actions == {"", "no_action", "restrict", "cascade", "set_null", "set_default"}

ValidConstraint(t, constraint) ==
    /\ KeyIsStored(t, constraint)
    /\ constraint.kind = "check" => ~IsNonDeterministic(constraint.expression)
    /\ constraint.kind = "foreign_key" =>
            constraint.onUpdate \in Actions /\ constraint.onDelete \in Actions

\* validateTable
ValidTable(t, domains) ==
    /\ t.name # "" /\ t.name \notin Reserved
    /\ \A c \in ToSet(t.columns) : ValidColumn(c, domains)
    /\ Distinct(Names(t.columns))
    /\ \A constraint \in ToSet(t.constraints) : ValidConstraint(t, constraint)

\* validateIndexes
ValidIndexes(indexes, tables) ==
    /\ \A index \in ToSet(indexes) :
        /\ index.name # "" /\ index.columns # <<>>
        /\ \E t \in ToSet(tables) :
            /\ t.name = index.table
            /\ \A key \in ToSet(index.columns) :
                IF key.expression # None THEN key.column = ""
                ELSE Contains(Names(t.columns), key.column)
    /\ Distinct(Names(indexes))

\* validateViews
ValidViews(views, tables) ==
    /\ \A v \in ToSet(views) :
        /\ v.name # "" /\ ~Contains(Names(tables), v.name)
        /\ v.reads # {} /\ v.projections > 0
    /\ Distinct(Names(views))

\* validateTriggers
ValidTriggers(triggers) ==
    /\ \A g \in ToSet(triggers) :
        /\ g.name # "" /\ g.table # ""
        /\ g.timing \in {"before", "after"} /\ g.event \in {"insert", "update", "delete"}
        /\ g.actions # <<>>
    /\ Distinct(Names(triggers))

\* validateRoutines
ValidRoutines(routines) ==
    /\ \A r \in ToSet(routines) :
        /\ r.name # "" /\ r.actions # <<>>
        /\ \A p \in ToSet(r.parameters) : p.name # "" /\ p.type.family \in Families
        /\ Distinct(Names(r.parameters))
    /\ Distinct(Names(routines))

Validate(s) ==
    /\ ValidDomains(s.domains)
    /\ \A t \in ToSet(s.tables) : ValidTable(t, s.domains)
    /\ Distinct(Names(s.tables))
    /\ ValidIndexes(s.indexes, s.tables)
    /\ ValidViews(s.views, s.tables)
    /\ ValidTriggers(s.triggers)
    /\ ValidRoutines(s.routines)

-----------------------------------------------------------------------------
(* CompileDDL.                                                             *)

\* compileType
ColumnType(engine, type) ==
    <<CompiledType(engine, type.family),
      IF engine = "postgres" /\ type.family \in {"decimal", "vector"}
      THEN type.arguments ELSE <<>>>>

\* substituteDomainValue
SubstituteDomainValue(check, column) ==
    IF check # None /\ check[2] = "VALUE" THEN <<check[1], column>> ELSE check

\* compileColumnWithDomain: a reference on PostgreSQL, inlined on SQLite.
DomainColumn(engine, c, d) ==
    IF engine = "postgres"
    THEN [name |-> c.name, type |-> ColumnType(engine, d.type), domain |-> d.name,
          notNull |-> FALSE, default |-> None, generated |-> None, check |-> None]
    ELSE [name |-> c.name, type |-> ColumnType(engine, d.type), domain |-> "",
          notNull |-> d.notNull, default |-> d.default, generated |-> None,
          check |-> SubstituteDomainValue(d.check, c.name)]

\* The columns of compileTable.
CompiledColumn(engine, c, domains) ==
    IF c.domain # "" THEN DomainColumn(engine, c, DomainOf(c, domains))
    ELSE [name |-> c.name, type |-> ColumnType(engine, c.type), domain |-> "",
          notNull |-> ~c.nullable, default |-> c.default,
          generated |-> c.generated, check |-> None]

\* No clause stands for NO ACTION.
CompiledAction(action) == IF action = "" THEN "no_action" ELSE action

\* Faulty: ON UPDATE gets the action of ON DELETE, and the other way round.
CompiledConstraint_Swapped(constraint) ==
    IF constraint.kind = "foreign_key"
    THEN [constraint EXCEPT !.onUpdate = CompiledAction(constraint.onDelete),
                            !.onDelete = CompiledAction(constraint.onUpdate)]
    ELSE constraint

\* compileConstraint
CompiledConstraint(constraint) ==
    IF constraint.kind = "foreign_key"
    THEN [constraint EXCEPT !.onUpdate = CompiledAction(@), !.onDelete = CompiledAction(@)]
    ELSE constraint

\* compileTable
CompiledTable(engine, t, domains) ==
    [name |-> t.name,
     columns |-> [i \in DOMAIN t.columns |-> CompiledColumn(engine, t.columns[i], domains)],
     constraints |-> {CompiledConstraint(constraint) : constraint \in ToSet(t.constraints)}]

\* compileTrigger: on PostgreSQL the body is a function of its own.
CompiledTrigger(engine, g) ==
    IF engine = "sqlite" THEN <<[kind |-> "trigger", object |-> g]>>
    ELSE <<[kind |-> "function", object |-> [name |-> g.name]],
           [kind |-> "trigger", object |-> g]>>

Creating(kind, objects) ==
    [i \in DOMAIN objects |-> [kind |-> kind, object |-> objects[i]]]

\* CompileDDL: domains, tables, indexes, views and triggers, each kind in the
\* order of the schema.
Statements(engine, s) ==
    Creating("domain", IF engine = "postgres" THEN s.domains ELSE <<>>)
    \o Creating("table", [i \in DOMAIN s.tables |-> CompiledTable(engine, s.tables[i], s.domains)])
    \o Creating("index", s.indexes)
    \o Creating("view", s.views)
    \o FlattenSeq([i \in DOMAIN s.triggers |-> CompiledTrigger(engine, s.triggers[i])])

\* What compileConstraint and compileTriggerAction refuse.
Compiles(s) ==
    /\ Validate(s)
    /\ \A t \in ToSet(s.tables) : \A constraint \in ToSet(t.constraints) :
        IF constraint.kind = "check" THEN constraint.expression # None
        ELSE /\ constraint.kind \in {"primary_key", "unique", "foreign_key"}
             /\ constraint.columns # <<>>
             /\ constraint.kind = "foreign_key" =>
                    constraint.parent # "" /\ constraint.parentColumns # <<>>
    /\ \A g \in ToSet(s.triggers) : \A target \in ToSet(g.actions) : target # ""

-----------------------------------------------------------------------------
(* The audit.                                                              *)

\* Target.Validate
ValidTarget(target) ==
    /\ target.engine \in {"sqlite", "postgres"}
    /\ \A i \in 1..3 : target.version[i] >= 0
    /\ \E i \in 1..3 : target.version[i] # 0

\* Contract.Validate
ValidContract(contract) ==
    /\ ValidTarget(contract.source) /\ ValidTarget(contract.destination)
    /\ contract.source.engine # contract.destination.engine

\* assess: every other feature is unknown.
ExactFeatures ==
    {"tables", "primary_keys", "transactions", "canonical_foreign_keys",
     "canonical_check_constraints", "canonical_indexes", "canonical_views",
     "canonical_triggers", "canonical_routines", "canonical_full_text",
     "canonical_vectors", "json", "uuid"}

InferFeatures(s) ==
    LET families == {c.type.family : c \in UNION {ToSet(t.columns) : t \in ToSet(s.tables)}}
        kinds == {n.kind : n \in UNION {ToSet(t.constraints) : t \in ToSet(s.tables)}}
    IN  {"tables", "canonical_full_text"}
        \cup {f \in {"canonical_views"} : s.views # <<>>}
        \cup {f \in {"canonical_triggers"} : s.triggers # <<>>}
        \cup {f \in {"canonical_routines"} : s.routines # <<>>}
        \cup {f \in {"canonical_indexes"} : s.indexes # <<>>}
        \cup (families \cap {"json", "uuid"})
        \cup {f \in {"canonical_vectors"} : "vector" \in families}
        \cup {f \in {"primary_keys"} : "primary_key" \in kinds}
        \cup {f \in {"canonical_foreign_keys"} : "foreign_key" \in kinds}
        \cup {f \in {"canonical_check_constraints"} : "check" \in kinds}

\* Audit and RequireExact.
IsExact(contract, s) ==
    (contract.features \cup InferFeatures(s)) \subseteq ExactFeatures

==============================================================================
