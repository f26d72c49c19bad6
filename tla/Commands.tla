------------------------------ MODULE Commands ------------------------------
(***************************************************************************)
(* Triggers and the statements they run: the text compileTrigger           *)
(* (compat/ddl.go) gives one and what compat/sqltrigger.go makes of the    *)
(* text in a catalog.  SQLite keeps the whole statement; PostgreSQL keeps  *)
(* the body of the function, and prints the rest anew.                     *)
(***************************************************************************)
EXTENDS Selects

Action(kind, table, assignments, where) ==
    [kind |-> kind, table |-> table, assignments |-> assignments, where |-> where]

Trigger(timing, event, table, when, actions) ==
    [timing |-> timing, event |-> event, table |-> table, when |-> when, actions |-> actions]

Timings == {"BEFORE", "AFTER"}
Events == {"INSERT", "UPDATE", "DELETE"}

-----------------------------------------------------------------------------
(* To text.                                                                *)

\* compileTriggerAction
ActionText(engine, a) ==
    LET columns == [i \in DOMAIN a.assignments |-> <<a.assignments[i].column>>]
        values == Texts(engine, [i \in DOMAIN a.assignments |-> a.assignments[i].value])
        sets == [i \in DOMAIN columns |-> columns[i] \o <<"=">> \o values[i]]
        where == <<"WHERE">> \o FlattenSeq(Texts(engine, a.where))
    IN  CASE a.kind = "insert" ->
                <<"INSERT INTO", a.table>> \o Parenthesized(Joined(columns, ","))
                    \o <<"VALUES">> \o Parenthesized(Joined(values, ","))
          [] a.kind = "update" -> <<"UPDATE", a.table, "SET">> \o Joined(sets, ",") \o where
          [] a.kind = "delete" -> <<"DELETE FROM", a.table>> \o where

StatementsText(engine, actions) ==
    FlattenSeq([i \in DOMAIN actions |-> ActionText(engine, actions[i]) \o <<";">>])

\* What the catalog keeps verbatim of a compiled trigger.
TriggerText(engine, t) ==
    LET header == <<"CREATE TRIGGER", "trigger", t.timing, t.event, "ON", t.table, "FOR EACH ROW">>
        body == StatementsText(engine, t.actions)
        row == IF t.event = "DELETE" THEN "OLD" ELSE "NEW"
    IN  IF engine = "sqlite"
        THEN header \o Optional("WHEN", FlattenSeq(Texts(engine, t.when)))
                 \o <<"BEGIN">> \o body \o <<"END">>
        ELSE <<"BEGIN">> \o body \o <<"RETURN", row, ";", "END">>

\* What compileTrigger and Validate refuse.
TriggerCompiles(t) ==
    /\ t.actions # <<>>
    /\ \A i \in DOMAIN t.actions :
           LET a == t.actions[i]
           IN  /\ a.kind \in {"insert", "update"} => a.assignments # <<>>
               /\ a.kind \in {"update", "delete"} => a.where # <<>>

-----------------------------------------------------------------------------
(* From text.                                                              *)

RejectedAction == Action("rejected", "", <<>>, <<>>)

\* parseCatalogAssignment
ParseAssignment(column, value) ==
    IF Len(column) = 1 /\ IsName(column[1])
    THEN [column |-> column[1], value |-> Parse(value)]
    ELSE [column |-> "", value |-> Rejected]

Sound(assignments) == \A i \in DOMAIN assignments : assignments[i].value # Rejected

\* An action all parts of which could be read.
CheckedAction(a) ==
    IF Sound(a.assignments) /\ a.where # <<Rejected>> THEN a ELSE RejectedAction

IsList(t) == Len(t) > 2 /\ ClosesAtEnd(t, 1)

\* The names of the columns, and their values.
Inserting(table, columns, values) ==
    IF Len(columns) # Len(values) THEN RejectedAction
    ELSE CheckedAction(Action("insert", table,
            [i \in DOMAIN columns |-> ParseAssignment(columns[i], values[i])], <<>>))

\* The list of columns and the list of values.
ParseInsert(table, parts) ==
    IF Len(parts) = 2 /\ IsList(parts[1]) /\ IsList(parts[2])
    THEN Inserting(table, Items(Inner(parts[1])), Items(Inner(parts[2]))) ELSE RejectedAction

\* The last = of an assignment parts the column from its value.
ParseSet(t) ==
    LET at == {j \in Splits(t, Top(t), 5) : t[j] = "="}
        i == SplitPoint(at)
    IN  IF at = {} THEN [column |-> "", value |-> Rejected]
        ELSE ParseAssignment(Before(t, i), After(t, i))

Updating(table, items, condition) ==
    CheckedAction(Action("update", table, [i \in DOMAIN items |-> ParseSet(items[i])],
                         <<Parse(condition)>>))

\* The last WHERE parts the assignments from the condition.
ParseUpdate(table, t, wheres) ==
    IF t = <<>> \/ t[1] # "SET" \/ wheres = {} THEN RejectedAction
    ELSE Updating(table, Items(SubSeq(t, 2, SplitPoint(wheres) - 1)), After(t, SplitPoint(wheres)))

ParseDelete(table, t) ==
    IF t # <<>> /\ t[1] = "WHERE"
    THEN CheckedAction(Action("delete", table, <<>>, <<Parse(Tail(t))>>)) ELSE RejectedAction

\* parseCatalogTriggerAction: the word, the table and what follows them.
ParseCommand(word, table, rest) ==
    CASE word = "INSERT INTO" -> ParseInsert(table, Pieces(rest, FirstOf(rest, {"VALUES"})))
      [] word = "UPDATE" -> ParseUpdate(table, rest, {i \in Outside(rest) : rest[i] = "WHERE"})
      [] word = "DELETE FROM" -> ParseDelete(table, rest)
      [] OTHER -> RejectedAction

ParseAction(t) ==
    IF Len(t) < 2 THEN RejectedAction ELSE ParseCommand(t[1], t[2], SubSeq(t, 3, Len(t)))

\* splitCatalogStatements
StatementsOf(t) ==
    SelectSeq(Pieces(t, {i \in Outside(t) : t[i] = ";"}), LAMBDA s : s # <<>>)

\* parseCatalogTriggerActions
ParseStatements(s) == [i \in DOMAIN s |-> ParseAction(s[i])]

ParseActions(t) == ParseStatements(StatementsOf(t))

Acceptable(actions) == actions # <<>> /\ \A i \in DOMAIN actions : actions[i] # RejectedAction

CheckedTrigger(t) ==
    IF t.when # <<Rejected>> /\ Acceptable(t.actions) THEN t ELSE Rejected

\* What is before the first BEGIN, and after it: FOR EACH ROW and WHEN may be
\* missing.
ParseTriggerParts(head, body) ==
    LET rest == SubSeq(head, IF Len(head) > 6 /\ head[7] = "FOR EACH ROW" THEN 8 ELSE 7, Len(head))
    IN  IF /\ body # <<>> /\ Last(body) = "END" /\ Len(head) >= 6
           /\ head[1] = "CREATE TRIGGER" /\ head[3] \in Timings /\ head[4] \in Events /\ head[5] = "ON"
           /\ rest # <<>> => Len(rest) > 1 /\ rest[1] = "WHEN"
        THEN CheckedTrigger(Trigger(head[3], head[4], head[6],
                IF rest = <<>> THEN <<>> ELSE <<Parse(Tail(rest))>>, ParseActions(Front(body))))
        ELSE Rejected

\* parseSQLiteCatalogTrigger
ParseSQLiteTrigger(t) ==
    LET begins == {i \in 1..Len(t) : t[i] = "BEGIN"}
    IN  IF begins = {} THEN Rejected
        ELSE ParseTriggerParts(Before(t, Min(begins)), After(t, Min(begins)))

CheckedBody(actions) == IF Acceptable(actions) THEN [actions |-> actions] ELSE Rejected

\* parsePostgresCatalogTrigger, the body of the function: what is between BEGIN
\* and the last RETURN.
ParsePostgresBody(t) ==
    LET returns == {i \in 1..Len(t) : t[i] = "RETURN"}
    IN  IF returns = {} THEN Rejected
        ELSE CheckedBody(ParseActions(
                SubSeq(t, IF t[1] = "BEGIN" THEN 2 ELSE 1, SplitPoint(returns) - 1)))

-----------------------------------------------------------------------------
(* The routines of PostgreSQL: a body in plpgsql, or statements in SQL.    *)

\* A canonical routine; its parameters as a set of names.
Routine(parameters, actions) == [parameters |-> parameters, actions |-> actions]

Constants == {"null", "string", "integer", "decimal", "boolean"}

WhereKinds == {"and", "or", "eq", "ne", "lt", "lte", "gt", "gte", "like", "not", "is_null", "is_not_null"}

\* A name of a parameter is the parameter.
Resolved(name, parameters) == Leaf(IF name \in parameters THEN "parameter" ELSE "column", name)

\* routineCatalogWhereExpression
RECURSIVE RoutineWhere(_, _)
RoutineWhere(e, parameters) ==
    CASE e.kind = "column" -> Resolved(e.value, parameters)
      [] e.kind \in Constants -> e
      [] e.kind \in WhereKinds ->
            Build(e.kind, [i \in DOMAIN e.args |-> RoutineWhere(e.args[i], parameters)])
      [] OTHER -> Rejected

\* routineCatalogExpression
RoutineValue(e, parameters) ==
    IF e.kind \in Constants \/ (e.kind = "column" /\ e.value \in parameters)
    THEN IF e.kind = "column" THEN Leaf("parameter", e.value) ELSE e
    ELSE Rejected

RoutineAction(a, parameters) ==
    [a EXCEPT !.assignments = [i \in DOMAIN a.assignments |->
                                 [@[i] EXCEPT !.value = RoutineValue(@, parameters)]],
              !.where = [i \in DOMAIN a.where |-> RoutineWhere(a.where[i], parameters)]]

CheckedRoutine(parameters, actions) ==
    IF /\ Acceptable(actions)
       /\ \A i \in DOMAIN actions : CheckedAction(actions[i]) # RejectedAction
    THEN Routine(parameters, actions) ELSE Rejected

\* parsePostgresCatalogRoutine
RoutineActions(read, parameters) ==
    [i \in DOMAIN read |-> RoutineAction(read[i], parameters)]

ParseRoutine(t, parameters) ==
    LET block == t[1] = "BEGIN"
    IN  IF block /\ Last(t) # "END" THEN Rejected
        ELSE CheckedRoutine(parameters,
                RoutineActions(ParseActions(IF block THEN Inner(t) ELSE t), parameters))

=============================================================================
