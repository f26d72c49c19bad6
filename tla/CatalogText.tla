----------------------------- MODULE CatalogText -----------------------------
(***************************************************************************)
(* The life of a definition: somebody writes it into a database by hand,   *)
(* or a compiled one is created there; the inspection reads it; what was   *)
(* read is compiled into another database, inspected again, and so on.     *)
(***************************************************************************)
EXTENDS Commands

CONSTANTS
    Definitions,    \* what is written: records [sort, tree, listed];
                    \* listed: a view with column names, a routine in SQL
    Dialect,        \* how tightly the operators of handwritten text bind
    MaxCopies       \* bound: how often what was read is written again

VARIABLES
    meant,          \* the definition as its author understands it
    engine,         \* the engine of the database that holds it
    text,           \* its text in the catalog
    read,           \* what the last inspection made of the text
    copies          \* how often it was compiled since

vars == <<meant, engine, text, read, copies>>

NotRead == Leaf("unread", "")

-----------------------------------------------------------------------------
(* Handwriting: parentheses only where the dialect needs them.             *)

Predicates == {"eq", "ne", "lt", "lte", "gt", "gte", "like", "between", "not_between", "in", "not_in"}

Inequalities == {"lt", "lte", "gt", "gte"}

OperatorKinds == Predicates \cup InfixKinds \cup {"not", "is_null", "is_not_null"}

\* The levels docs/COMPATIBILITY.md lists.
Documented ==
    [k \in OperatorKinds |->
        CASE k = "or" -> 1 [] k = "and" -> 2 [] k = "not" -> 3
          [] k \in {"is_null", "is_not_null"} -> 4 [] k \in Predicates -> 5
          [] k = "concat" -> 6 [] k \in {"add", "sub"} -> 7 [] OTHER -> 8]

\* SQLite's own levels.
SQLiteLevels ==
    [k \in OperatorKinds |->
        CASE k = "or" -> 1 [] k = "and" -> 2 [] k = "not" -> 3
          [] k \in Inequalities -> 5
          [] k \in (Predicates \ Inequalities) \cup {"is_null", "is_not_null"} -> 4
          [] k \in {"add", "sub"} -> 7 [] k \in {"mul", "div"} -> 8 [] k = "concat" -> 9]

Binds(e) == IF e.kind \in OperatorKinds THEN Dialect[e.kind] ELSE 10

RECURSIVE Handwritten(_)

Operand(e, least) == IF Binds(e) < least THEN Parenthesized(Handwritten(e)) ELSE Handwritten(e)

\* Operators of one level associate to the left, predicates not at all.
Handwritten(e) ==
    LET n == Binds(e)
        all == [i \in DOMAIN e.args |-> Handwritten(e.args[i])]
        left == Operand(e.args[1], IF e.kind \in Predicates THEN n + 1 ELSE n)
        inner == [i \in DOMAIN e.args |-> Operand(e.args[i], n + 1)]
        list == Parenthesized(Joined(Tail(all), ","))
    IN  CASE e.kind = "not" /\ e.args[1].kind = "like" ->
                LET like == e.args[1].args
                IN  Operand(like[1], Dialect["like"] + 1) \o <<"NOT", "LIKE">>
                        \o Operand(like[2], Dialect["like"] + 1)
          [] e.kind = "not" /\ e.args[1].kind # "like" -> <<"NOT">> \o left
          [] e.kind \in InfixKinds -> left \o <<TokenOf(e.kind)>> \o inner[2]
          [] e.kind \in {"is_null", "is_not_null"} -> left \o <<TokenOf(e.kind)>>
          [] e.kind = "between" -> left \o <<"BETWEEN">> \o inner[2] \o <<"AND">> \o inner[3]
          [] e.kind = "not_between" ->
                left \o <<"NOT", "BETWEEN">> \o inner[2] \o <<"AND">> \o inner[3]
          [] e.kind = "in" -> left \o <<"IN">> \o list
          [] e.kind = "not_in" -> left \o <<"NOT", "IN">> \o list
          [] e.kind = "case" -> CaseText(all)
          [] e.kind = "integer" /\ \E h \in DOMAIN HexValue : HexValue[h] = e.value ->
                <<CHOOSE h \in DOMAIN HexValue : HexValue[h] = e.value>>
          [] OTHER -> Compile("sqlite", e)

\* INNER, ASC and FOR EACH ROW go without saying.
Casual(t) ==
    LET plain == SelectSeq(t, LAMBDA w : w \notin {"ASC", "FOR EACH ROW"})
    IN  [i \in DOMAIN plain |-> CASE plain[i] = "INNER JOIN" -> "JOIN"
                                  [] plain[i] = "LEFT JOIN" -> "LEFT OUTER JOIN"
                                  [] OTHER -> plain[i]]

\* A view may list the names of its columns before the query.
HandwrittenView(d) ==
    LET columns == d.tree.columns
        names == [i \in DOMAIN columns |-> <<columns[i].alias>>]
        query == [d.tree EXCEPT !.columns = [i \in DOMAIN columns |-> [columns[i] EXCEPT !.alias = ""]]]
    IN  <<"CREATE", "VIEW", "view">>
            \o (IF d.listed THEN Parenthesized(Joined(names, ",")) ELSE <<>>)
            \o <<"AS">> \o Casual(SelectText("sqlite", IF d.listed THEN query ELSE d.tree))

ByHand(d) ==
    CASE d.sort = "expression" -> Handwritten(d.tree)
      [] d.sort = "view" -> HandwrittenView(d)
      [] d.sort = "trigger" -> Casual(TriggerText("sqlite", d.tree))
      [] d.sort = "routine" ->
            LET body == StatementsText("sqlite", d.tree.actions)
            IN  IF d.listed THEN body ELSE <<"BEGIN">> \o body \o <<"END">>

-----------------------------------------------------------------------------
(* The layer.                                                              *)

CompiledText(to, sort, tree) ==
    CASE sort = "expression" -> Compile(to, tree)
      [] sort = "view" -> <<"CREATE", "VIEW", "view", "AS">> \o SelectText(to, tree)
      [] sort = "trigger" -> TriggerText(to, tree)

Understood(from, sort, t) ==
    CASE sort = "expression" -> Parse(t)
      [] sort = "view" -> ParseSelect(t)
      [] sort = "trigger" -> IF from = "sqlite" THEN ParseSQLiteTrigger(t) ELSE ParsePostgresBody(t)
      [] sort = "routine" -> ParseRoutine(t, meant.tree.parameters)

\* The commands a canonical routine can hold.
RoutineFits(tree) ==
    \A i \in DOMAIN tree.actions :
        LET a == tree.actions[i]
        IN  /\ \A k \in DOMAIN a.assignments : a.assignments[k].value.kind \in Constants \cup {"parameter"}
            /\ \A e \in Range(a.where) : ~\E k \in {"between", "case", "sub", "in"} : Uses(k, e)

\* What CREATE, or the layer before it, would refuse.
Writable(sort, tree) ==
    CASE sort = "expression" -> TRUE
      [] sort = "view" -> Compiles(tree)
      [] sort = "trigger" -> TriggerCompiles(tree)
      [] sort = "routine" -> RoutineFits(tree)

Init ==
    /\ meant \in Definitions
    /\ engine = IF meant.sort = "routine" THEN "postgres" ELSE "sqlite"
    /\ text = ByHand(meant)
    /\ read = NotRead
    /\ copies = 0

\* InspectSchema, on a database without stored metadata.
Inspect ==
    /\ read = NotRead
    /\ read' = Understood(engine, meant.sort, text)
    /\ UNCHANGED <<meant, engine, text, copies>>

\* The object a body belongs to: its header is printed anew by PostgreSQL.
Whole == IF meant.sort = "trigger" /\ engine = "postgres"
         THEN [meant.tree EXCEPT !.actions = read.actions] ELSE read

\* ApplySchema of what was read.  PostgreSQL prints views and expressions in
\* its own words, which are not modelled: only triggers are copied there.  No
\* text is compiled for a routine.
Recreate(to) ==
    /\ read \notin {NotRead, Rejected}
    /\ copies < MaxCopies
    /\ to = "postgres" => meant.sort = "trigger"
    /\ meant.sort # "routine"
    /\ Writable(meant.sort, Whole)
    /\ engine' = to
    /\ text' = CompiledText(to, meant.sort, Whole)
    /\ read' = NotRead
    /\ copies' = copies + 1
    /\ UNCHANGED meant

Next ==
    \/ Inspect
    \/ \E to \in {"sqlite", "postgres"} : Recreate(to)

Spec == Init /\ [][Next]_vars

-----------------------------------------------------------------------------
(* Properties.                                                             *)

\* The expressions whose text the catalog keeps verbatim.
ExpressionsOf(d) ==
    CASE d.sort = "expression" -> {d.tree}
      [] d.sort \in {"view", "routine"} -> {}
      [] d.sort = "trigger" ->
            UNION {Range(d.tree.actions[i].where)
                   \cup {d.tree.actions[i].assignments[k].value : k \in DOMAIN d.tree.actions[i].assignments}
                      : i \in DOMAIN d.tree.actions}

\* What the layer writes and cannot read: the functions that stand for a UUID on
\* SQLite, and ILIKE in a PostgreSQL function.
Unreadable ==
    \E e \in ExpressionsOf(meant) :
        Uses(IF engine = "sqlite" THEN "gen_random_uuid" ELSE "like", e)

\* A text written by hand within the documented grammar, with no more
\* parentheses than the documented levels ask for, is read as its author means
\* it, whatever operators, CASEs, BETWEENs, lists, joins, set operations and
\* named queries are nested; what cannot be shared is refused.
\* Hazard: sqlparse.go:262, sqlselect.go:142.
ReadAsWritten ==
    copies = 0 /\ read # NotRead =>
        read = IF Writable(meant.sort, meant.tree) /\ ~Unreadable THEN meant.tree ELSE Rejected

\* However often a definition is read and created again, the object stays the
\* one its author meant; a text the layer itself wrote and cannot read is
\* refused, never misread.
\* Hazard: ddl.go:386, sqltrigger.go:103.
CopyIsFaithful ==
    copies > 0 /\ read # NotRead =>
        IF Unreadable THEN read = Rejected ELSE read # Rejected /\ Whole = meant.tree

\* What the inspection accepts, ApplySchema can write.
\* Hazard: sqlselect.go:106.
ReadIsWritable == read \notin {NotRead, Rejected} => Writable(meant.sort, Whole)

\* Whatever a catalog holds, the layer never takes it for something else: a
\* text is read as the engine reads it, or reported as unresolved
\* (sqlparse.go:9-12).
NothingMisread == read \in {NotRead, Rejected, meant.tree}

=============================================================================
