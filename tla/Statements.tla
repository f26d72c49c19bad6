------------------------------ MODULE Statements ------------------------------
(***************************************************************************)
(* The statements the layer sends with arguments: insertRow (store.go),    *)
(* updateRow, deleteRow and rowPredicate (replicate.go) and the actions of *)
(* a routine (runtime.go).  PostgreSQL numbers its placeholders; those of  *)
(* SQLite take the arguments in the order of the text.                     *)
(*                                                                         *)
(* A table is a record: its columns in schema order, the declared type and *)
(* the family of each, the primary key, the generated columns (each the    *)
(* copy of another one) and its engine.  Its rows are a set of functions   *)
(* from columns to stored values.                                          *)
(***************************************************************************)
EXTENDS Trees, Values, Sequences, FiniteSets, SequencesExt

\* A statement: SET or VALUES as pairs of a column and a placeholder, a
\* predicate, the arguments.
Statement(kind, sets, where, args) == [kind |-> kind, sets |-> sets, where |-> where, args |-> args]

True == Leaf("true", "")

Slot(n) == [kind |-> "slot", value |-> "", args |-> <<>>, number |-> n]

Written(table) == SelectSeq(table.columns, LAMBDA c : c \notin DOMAIN table.generated)

\* The written columns of a row, numbered without a gap.
Sets(table, row) == LET cs == Written(table) IN [i \in DOMAIN cs |-> <<cs[i], i>>]

Arguments(table, row) ==
    LET cs == Written(table) IN [i \in DOMAIN cs |-> DriverValue(table.engine, row[cs[i]])]

\* insertRow.  It fails when the row lacks a column: here none does.
InsertRow(table, row) ==
    Statement("insert", Sets(table, row), True, Arguments(table, row))

Conjunction(trees) == FoldLeft(LAMBDA left, t : IF left = True THEN t ELSE Node("and", <<left, t>>), True, trees)

\* How many of the columns before the i-th took an argument.
NumbersBefore(columns, values, i) ==
    Cardinality({j \in 1..(i - 1) : values[columns[j]] # NullValue})

\* rowPredicate, with placeholders from start.
RowPredicate(table, values, start) ==
    LET cs == SelectSeq(table.columns, LAMBDA c : c \in DOMAIN values)
        Test(i) == IF values[cs[i]] = NullValue
                   THEN Node("is_null", <<Leaf("column", cs[i])>>)
                   ELSE Node("eq", <<Leaf("column", cs[i]), Slot(start + NumbersBefore(cs, values, i))>>)
        bound == SelectSeq(cs, LAMBDA c : values[c] # NullValue)
    IN  [where |-> Conjunction([i \in DOMAIN cs |-> Test(i)]),
         args |-> [i \in DOMAIN bound |-> DriverValue(table.engine, values[bound[i]])]]

\* Faulty: the predicate is numbered from the start again.
UpdateRow_Renumbered(table, key, after) ==
    LET set == Arguments(table, after)
        predicate == RowPredicate(table, key, 1)
    IN  Statement("update", Sets(table, after), predicate.where, set \o predicate.args)

UpdateRow(table, key, after) ==
    LET set == Arguments(table, after)
        predicate == RowPredicate(table, key, Len(set) + 1)
    IN  Statement("update", Sets(table, after), predicate.where, set \o predicate.args)

DeleteRow(table, key) ==
    LET predicate == RowPredicate(table, key, 1)
    IN  Statement("delete", <<>>, predicate.where, predicate.args)

-----------------------------------------------------------------------------
(* The actions of a routine.                                               *)

\* routineValue
RoutineValue(e, arguments) ==
    CASE e.kind = "parameter" -> arguments[e.value]
      [] e.kind = "null" -> NullValue
      [] OTHER -> Value(e.kind, e.value)

\* Faulty: the right side of an operator is numbered like its left side.
NextPosition_Same(position, left) == position

\* The right side of an operator goes on where its left side ended.
NextPosition(position, left) == left.position

\* compileRoutineWhere: the predicate, the arguments so far and the position of
\* the next placeholder.
RECURSIVE RoutineWhere(_, _, _, _, _)
RoutineWhere(engine, e, arguments, args, position) ==
    CASE e.kind \in {"column", "null"} -> [where |-> e, args |-> args, position |-> position]
      [] e.kind \in {"not", "is_null", "is_not_null"} ->
            LET inner == RoutineWhere(engine, e.args[1], arguments, args, position)
            IN  [inner EXCEPT !.where = Node(e.kind, <<@>>)]
      [] e.kind \in {"and", "or", "eq", "ne"} ->
            LET left == RoutineWhere(engine, e.args[1], arguments, args, position)
                right == RoutineWhere(engine, e.args[2], arguments, left.args, NextPosition(position, left))
            IN  [right EXCEPT !.where = Node(e.kind, <<left.where, @>>)]
      [] OTHER -> [where |-> Slot(position),
                   args |-> Append(args, DriverValue(engine, RoutineValue(e, arguments))),
                   position |-> position + 1]

RoutineStatement(table, action, arguments) ==
    LET as == action.assignments
        values == [i \in DOMAIN as |-> DriverValue(table.engine, RoutineValue(as[i].value, arguments))]
        sets == [i \in DOMAIN as |-> <<as[i].column, i>>]
        Predicate(args) == RoutineWhere(table.engine, action.where[1], arguments, args, Len(args) + 1)
        row == [c \in {as[i].column : i \in DOMAIN as} |->
                    RoutineValue(as[CHOOSE i \in DOMAIN as : as[i].column = c].value, arguments)]
    IN  CASE action.kind = "insert" -> InsertRow(table, row)
          [] action.kind = "update" ->
                Statement("update", sets, Predicate(values).where, Predicate(values).args)
          [] action.kind = "delete" ->
                Statement("delete", <<>>, Predicate(<<>>).where, Predicate(<<>>).args)

-----------------------------------------------------------------------------
(* The engines: what a statement does to the rows of a table.              *)

RECURSIVE Slots(_)
Slots(e) == IF e.kind = "slot" THEN 1 ELSE FoldLeft(LAMBDA n, a : n + Slots(a), 0, e.args)

\* The argument of the placeholder with this number that is the k-th of its
\* text.
Bound(table, args, number, k) == args[IF table.engine = "postgres" THEN number ELSE k]

\* Three-valued truth of a predicate whose text has k placeholders before it.
RECURSIVE Truth(_, _, _, _, _)
Truth(table, row, args, e, k) ==
    LET after == k + Slots(e.args[1])
        first == Truth(table, row, args, e.args[1], k)
        both == {first, Truth(table, row, args, e.args[2], after)}
        \* A placeholder takes the type of the column it is compared with (and
        \* here its scale: a row found only because of that is respelled, and
        \* applyChange compares the rows it finds in full).
        columns == {x.value : x \in {y \in Range(e.args) : y.kind = "column"}}
        declared == IF columns = {} THEN "TEXT" ELSE table.declared[CHOOSE c \in columns : TRUE]
        Operand(x, j) ==
            CASE x.kind = "column" -> row[x.value]
              [] x.kind = "null" -> Null
              [] x.kind = "slot" -> Store(table.engine, declared, Bound(table, args, x.number, j + 1))
        left == Operand(e.args[1], k)
        right == Operand(e.args[2], after)
        As(b) == IF b THEN "true" ELSE "false"
    IN  CASE e.kind = "true" -> "true"
          [] e.kind = "and" -> IF "false" \in both THEN "false"
                               ELSE IF "unknown" \in both THEN "unknown" ELSE "true"
          [] e.kind = "or" -> IF "true" \in both THEN "true"
                              ELSE IF "unknown" \in both THEN "unknown" ELSE "false"
          [] e.kind = "not" -> IF first = "unknown" THEN first ELSE As(first = "false")
          [] e.kind = "is_null" -> As(left = Null)
          [] e.kind = "is_not_null" -> As(left # Null)
          [] e.kind \in {"eq", "ne"} ->
                IF Null \in {left, right} THEN "unknown" ELSE As((left = right) = (e.kind = "eq"))

\* The generated columns follow the ones they copy.
Regenerated(table, row) ==
    [c \in DOMAIN row |-> IF c \in DOMAIN table.generated THEN row[table.generated[c]] ELSE row[c]]

Rewritten(table, row, statement) ==
    LET sets == statement.sets
        New(c) == LET i == CHOOSE i \in DOMAIN sets : sets[i][1] = c
                  IN  Store(table.engine, table.declared[c],
                            Bound(table, statement.args, sets[i][2], i))
    IN  Regenerated(table, [c \in DOMAIN row |->
            IF \E i \in DOMAIN sets : sets[i][1] = c THEN New(c) ELSE row[c]])

Empty(table) == [c \in Range(table.columns) |-> Null]

KeyOf(table, row) == [c \in table.primary |-> row[c]]

\* The outcome: the new rows, and the pairs of images that row triggers see;
\* two rows with one key are an error, and so is a value the engine refuses.
Executed(table, rows, statement) ==
    LET hit == {r \in rows : Truth(table, r, statement.args, statement.where, Len(statement.sets)) = "true"}
        pairs == CASE statement.kind = "insert" ->
                        {<<Empty(table), Rewritten(table, Empty(table), statement)>>}
                   [] statement.kind = "update" -> {<<r, Rewritten(table, r, statement)>> : r \in hit}
                   [] statement.kind = "delete" -> {<<r, Empty(table)>> : r \in hit}
        kept == IF statement.kind = "insert" THEN rows ELSE rows \ hit
        new == {p[2] : p \in pairs} \ {Empty(table)}
        keys == {KeyOf(table, r) : r \in new}
    IN  [rows |-> kept \cup new,
         pairs |-> pairs,
         fails |-> \/ \E r \in new : \E c \in DOMAIN r : r[c] = Refused
                   \/ \E r \in kept : KeyOf(table, r) \in keys
                   \/ Cardinality(keys) < Cardinality({p \in pairs : p[2] # Empty(table)})]

=============================================================================
