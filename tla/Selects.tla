------------------------------- MODULE Selects -------------------------------
(***************************************************************************)
(* The queries of views: the text compileSelect (compat/ddl.go) gives one, *)
(* and what parseCatalogSelect (compat/sqlselect.go) makes of the          *)
(* definition of a view.  Texts are sequences of tokens, as in             *)
(* Expressions; GROUP BY, ORDER BY, UNION ALL and the joins are one token  *)
(* each.  A clause that may be missing is a sequence of at most one.       *)
(***************************************************************************)
EXTENDS Expressions

JoinKinds ==
    [j \in {"JOIN", "INNER JOIN", "LEFT JOIN", "LEFT OUTER JOIN", "CROSS JOIN"} |->
        CASE j \in {"JOIN", "INNER JOIN"} -> "inner"
          [] j \in {"LEFT JOIN", "LEFT OUTER JOIN"} -> "left"
          [] OTHER -> "cross"]

CompoundKinds ==
    [o \in {"UNION ALL", "UNION", "INTERSECT", "EXCEPT"} |->
        CASE o = "UNION ALL" -> "union_all" [] o = "UNION" -> "union"
          [] o = "INTERSECT" -> "intersect" [] OTHER -> "except"]

Clauses == {"WHERE", "GROUP BY", "HAVING", "ORDER BY", "LIMIT", "OFFSET"}

\* One table of FROM: a name, or a parenthesized query.
TableSource(table, subquery, alias) == [table |-> table, subquery |-> subquery, alias |-> alias]

\* SELECT columns FROM from, everything else missing.
Select(columns, from) ==
    [with |-> <<>>, distinct |-> FALSE, columns |-> columns, from |-> from, joins |-> <<>>,
     where |-> <<>>, groupBy |-> <<>>, having |-> <<>>, compounds |-> <<>>,
     orderBy |-> <<>>, limit |-> <<>>, offset |-> <<>>]

\* Does a query read, anywhere in its FROMs, a table of this name?  A WITH of
\* its own that takes the name hides it.
RECURSIVE RefersTo(_, _)
RefersTo(q, name) ==
    LET sources == {q.from} \cup {q.joins[i].table : i \in DOMAIN q.joins}
    IN  /\ \A i \in DOMAIN q.with : q.with[i].name # name
        /\ \/ \E i \in DOMAIN q.with : RefersTo(q.with[i].query, name)
           \/ \E s \in sources : IF s.subquery = <<>> THEN s.table = name
                                 ELSE RefersTo(s.subquery[1], name)
           \/ \E i \in DOMAIN q.compounds : RefersTo(q.compounds[i].query, name)

\* INTERSECT binds tighter on PostgreSQL only: no chain may mix it.
ChainIsShared(operators) ==
    (\E i \in DOMAIN operators : operators[i] = "intersect")
        => \A i \in DOMAIN operators : operators[i] = "intersect"

HasTrailing(q) == q.orderBy # <<>> \/ q.limit # <<>> \/ q.offset # <<>>

-----------------------------------------------------------------------------
(* From the query to an engine's text.                                     *)

Optional(word, text) == IF text = <<>> THEN <<>> ELSE <<word>> \o text

Texts(engine, expressions) == [i \in DOMAIN expressions |-> Compile(engine, expressions[i])]

As(alias) == IF alias = "" THEN <<>> ELSE <<"AS", alias>>

RECURSIVE SelectText(_, _)

SourceText(engine, s) ==
    (IF s.subquery = <<>> THEN <<s.table>> ELSE Parenthesized(SelectText(engine, s.subquery[1])))
        \o As(s.alias)

\* A RIGHT or FULL join is only ever written by hand.
JoinText(engine, j) ==
    (CASE j.kind = "inner" -> <<"INNER JOIN">> [] j.kind = "left" -> <<"LEFT JOIN">>
       [] j.kind = "cross" -> <<"CROSS JOIN">> [] j.kind = "right" -> <<"RIGHT", "JOIN">>
       [] j.kind = "full" -> <<"FULL", "JOIN">>)
        \o SourceText(engine, j.table)
        \o Optional("ON", FlattenSeq(Texts(engine, j.on)))

\* compileSelectCore
CoreText(engine, q) ==
    LET Column(c) == Compile(engine, c.expression) \o As(c.alias)
    IN  <<"SELECT">> \o (IF q.distinct THEN <<"DISTINCT">> ELSE <<>>)
            \o Joined([i \in DOMAIN q.columns |-> Column(q.columns[i])], ",")
            \o <<"FROM">> \o SourceText(engine, q.from)
            \o FlattenSeq([i \in DOMAIN q.joins |-> JoinText(engine, q.joins[i])])
            \o Optional("WHERE", FlattenSeq(Texts(engine, q.where)))
            \o Optional("GROUP BY", Joined(Texts(engine, q.groupBy), ","))
            \o Optional("HAVING", FlattenSeq(Texts(engine, q.having)))

OrderText(engine, o) ==
    Compile(engine, o.expression) \o (IF o.descending THEN <<"DESC">> ELSE <<"ASC">>)

\* compileSelectTrailing: of the whole chain, so after its last branch.
TrailingText(engine, q) ==
    Optional("ORDER BY", Joined([i \in DOMAIN q.orderBy |-> OrderText(engine, q.orderBy[i])], ","))
        \o Optional("LIMIT", q.limit) \o Optional("OFFSET", q.offset)

WithText(engine, ctes) ==
    LET One(c) == <<c.name, "AS">> \o Parenthesized(SelectText(engine, c.query))
    IN  Optional("WITH", Joined([i \in DOMAIN ctes |-> One(ctes[i])], ","))

BranchText(engine, c) ==
    <<CHOOSE o \in DOMAIN CompoundKinds : CompoundKinds[o] = c.operator>> \o CoreText(engine, c.query)

SelectText(engine, q) ==
    WithText(engine, q.with) \o CoreText(engine, q)
        \o FlattenSeq([i \in DOMAIN q.compounds |-> BranchText(engine, q.compounds[i])])
        \o TrailingText(engine, q)

\* What compileSelect refuses to write.
RECURSIVE Compiles(_)
Compiles(q) ==
    LET sources == {q.from} \cup {q.joins[i].table : i \in DOMAIN q.joins}
        branches == {q.compounds[i].query : i \in DOMAIN q.compounds}
    IN  /\ q.columns # <<>>
        /\ \A s \in sources : s.subquery # <<>> => Compiles(s.subquery[1])
        /\ \A i \in DOMAIN q.joins : \/ q.joins[i].kind = "cross"
                                     \/ q.joins[i].kind \in {"inner", "left"} /\ q.joins[i].on # <<>>
        /\ ChainIsShared([i \in DOMAIN q.compounds |-> q.compounds[i].operator])
        /\ \A b \in branches : ~HasTrailing(b) /\ b.compounds = <<>> /\ Compiles(b)
        /\ \A i \in DOMAIN q.with :
               Compiles(q.with[i].query) /\ ~RefersTo(q.with[i].query, q.with[i].name)

-----------------------------------------------------------------------------
(* From the definition of a view to the query.                             *)

\* The first of some words outside parentheses, if any.
FirstOf(t, words) ==
    LET at == {i \in Outside(t) : t[i] \in words} IN {i \in at : \A j \in at : i <= j}

\* Where the parenthesis that opens a text closes.
Closing(t) == CHOOSE i \in 2..Len(t) : t[i] = ")" /\ Depth(t, i) = 1 /\ \A j \in 2..i : Depth(t, j) >= 1

\* stripCatalogViewPrefix: everything before AS SELECT or AS WITH is skipped, a
\* list of column names included.
WithoutPrefix(t) ==
    LET starts == {i \in Outside(t) : t[i] = "AS" /\ i < Len(t) /\ t[i + 1] \in {"SELECT", "WITH"}}
    IN  IF t = <<>> \/ t[1] # "CREATE" THEN t
        ELSE IF starts = {} THEN <<>>
        ELSE After(t, CHOOSE i \in starts : \A j \in starts : i <= j)

RECURSIVE ParseSelect(_)

\* What may follow a source: nothing, or a name; <<>> is anything else.
AliasOf(rest) ==
    CASE rest = <<>> -> <<"">>
      [] Len(rest) = 1 /\ IsName(rest[1]) -> rest
      [] Len(rest) = 2 /\ rest[1] = "AS" /\ IsName(rest[2]) -> Tail(rest)
      [] OTHER -> <<>>

NamedTable(name, alias) ==
    IF IsName(name) /\ alias # <<>> THEN TableSource(name, <<>>, alias[1]) ELSE Rejected

NamedQuery(query, alias) ==
    IF query # Rejected /\ alias \notin {<<>>, <<"">>}
    THEN TableSource("", <<query>>, alias[1]) ELSE Rejected

\* A name with an optional alias, or a query with one.
ParseSource(t) ==
    IF t = <<>> THEN Rejected
    ELSE IF t[1] = "("
    THEN NamedQuery(ParseSelect(SubSeq(t, 2, Closing(t) - 1)), AliasOf(After(t, Closing(t))))
    ELSE NamedTable(t[1], AliasOf(Tail(t)))

\* Faulty: the condition of a join is not required.
JoinNeedsOn_Never(kind) == FALSE

JoinNeedsOn(kind) == kind # "cross"

Join(kind, table, on) ==
    IF table = Rejected \/ Rejected \in ToSet(on) \/ (JoinNeedsOn(kind) /\ on = <<>>)
    THEN Rejected ELSE [kind |-> kind, table |-> table, on |-> on]

\* The source, and what follows ON.
ParseJoin(kind, parts) == Join(kind, ParseSource(parts[1]), ParseAll(Tail(parts)))

JoinParts(kind, t) == IF JoinNeedsOn(kind) THEN Pieces(t, FirstOf(t, {"ON"})) ELSE <<t>>

\* The sources of FROM: the first one, then each join with its word.
ParseSources(words, parts) ==
    <<ParseSource(parts[1])>>
        \o [k \in DOMAIN words |->
              ParseJoin(JoinKinds[words[k]], JoinParts(JoinKinds[words[k]], parts[k + 1]))]

ParseFrom(t) ==
    LET joins == {i \in Outside(t) : t[i] \in DOMAIN JoinKinds}
    IN  ParseSources(TokensAt(t, joins), Pieces(t, joins))

ParseColumn(t) ==
    LET as == FirstOf(t, {"AS"})
        aliased == as # {} /\ \A i \in as : i = Len(t) - 1 /\ IsName(t[Len(t)])
    IN  [expression |-> Parse(IF aliased THEN SubSeq(t, 1, Len(t) - 2) ELSE t),
         alias |-> IF aliased THEN t[Len(t)] ELSE ""]

ParseOrdering(t) ==
    LET directed == t # <<>> /\ t[Len(t)] \in {"ASC", "DESC"} /\ Len(t) > 1
    IN  [expression |-> Parse(IF directed THEN Front(t) ELSE t),
         descending |-> directed /\ t[Len(t)] = "DESC"]

IsCount(t) == Len(t) = 1 /\ t[1] \in Integers

\* The text between a clause of FROM and the next one.
ClauseText(t, starts, i) ==
    SubSeq(t, i + 1, Min({s \in starts : s > i} \cup {Len(t) + 1}) - 1)

\* What follows FROM, clause by clause; position 0 is FROM itself.
ClausesAt(t, starts) ==
    [c \in Clauses \cup {"FROM"} |->
        SetToSeq({ClauseText(t, starts, i) : i \in IF c = "FROM" THEN {0} ELSE FirstOf(t, {c})})]

ClausesOf(t) == ClausesAt(t, UNION {FirstOf(t, {c}) : c \in Clauses})

ItemsOf(clause) == FlattenSeq([i \in DOMAIN clause |-> Items(clause[i])])

\* One branch of a query, of what its words part.
Assembled(distinct, columns, sources, clause) ==
    LET ordering == ItemsOf(clause["ORDER BY"])
    IN  [Select([i \in DOMAIN columns |-> ParseColumn(columns[i])], sources[1]) EXCEPT
            !.distinct = distinct, !.joins = Tail(sources),
            !.where = ParseAll(clause["WHERE"]), !.having = ParseAll(clause["HAVING"]),
            !.groupBy = ParseAll(ItemsOf(clause["GROUP BY"])),
            !.orderBy = [i \in DOMAIN ordering |-> ParseOrdering(ordering[i])],
            !.limit = FlattenSeq(clause["LIMIT"]), !.offset = FlattenSeq(clause["OFFSET"])]

PartsOf(q) ==
    {q.from} \cup ToSet(q.joins) \cup ToSet(q.where) \cup ToSet(q.groupBy) \cup ToSet(q.having)
        \cup {q.columns[i].expression : i \in DOMAIN q.columns}
        \cup {q.orderBy[i].expression : i \in DOMAIN q.orderBy}

\* A branch all parts of which could be read.
CheckedBranch(q) ==
    IF /\ Rejected \notin PartsOf(q)
       /\ q.limit = <<>> \/ IsCount(q.limit)
       /\ q.offset = <<>> \/ IsCount(q.offset)
    THEN q ELSE Rejected

WithClauses(distinct, list, clause) ==
    IF \E c \in DOMAIN clause : <<>> \in ToSet(clause[c]) THEN Rejected
    ELSE CheckedBranch(Assembled(distinct, Items(list), ParseFrom(StripParentheses(clause["FROM"][1])), clause))

\* parseSingleCatalogSelect
ParseSingle(t) ==
    LET distinct == Len(t) > 1 /\ t[2] = "DISTINCT"
        parts == Pieces(t, FirstOf(t, {"FROM"}))
    IN  IF t = <<>> \/ t[1] # "SELECT" \/ Len(parts) = 1 THEN Rejected
        ELSE WithClauses(distinct, After(parts[1], IF distinct THEN 2 ELSE 1), ClausesOf(parts[2]))

\* Faulty: the ordering stays with the branch it is written after.
Lifted_Not(head, last) == head

\* ORDER BY, LIMIT and OFFSET after the last branch are of the whole chain.
Lifted(head, last) ==
    [head EXCEPT !.orderBy = last.orderBy, !.limit = last.limit, !.offset = last.offset]

Bare(q) == [q EXCEPT !.orderBy = <<>>, !.limit = <<>>, !.offset = <<>>]

Chained(operators, branch) ==
    LET n == Len(operators)
    IN  IF n = 0 THEN branch[1]
        ELSE IF \/ ~ChainIsShared(operators)
                \/ \E k \in DOMAIN branch : branch[k] = Rejected
                \/ \E k \in 1..n : HasTrailing(branch[k])
        THEN Rejected
        ELSE [Lifted(branch[1], branch[n + 1]) EXCEPT
                 !.compounds = [k \in 1..n |-> [operator |-> operators[k], query |-> Bare(branch[k + 1])]]]

ParseParts(words, texts) ==
    Chained([k \in DOMAIN words |-> CompoundKinds[words[k]]],
            [k \in DOMAIN texts |-> ParseSingle(texts[k])])

\* parseCatalogSelectBody
ParseChain(t) ==
    LET at == {i \in Outside(t) : t[i] \in DOMAIN CompoundKinds}
    IN  ParseParts(TokensAt(t, at), Pieces(t, at))

RECURSIVE ParseWith(_)

Preceded(ctes, others) ==
    IF others = Rejected THEN Rejected
    ELSE [ctes |-> ctes \o others.ctes, rest |-> others.rest]

\* One named query and the text after it.
WithOne(name, query, rest) ==
    IF query = Rejected \/ RefersTo(query, name) THEN Rejected
    ELSE IF rest # <<>> /\ rest[1] = ","
    THEN Preceded(<<[name |-> name, query |-> query]>>, ParseWith(Tail(rest)))
    ELSE [ctes |-> <<[name |-> name, query |-> query]>>, rest |-> rest]

\* stripCatalogWith, once WITH is past: the named queries and the text after
\* them.
ParseWith(t) ==
    LET body == After(t, 2)
    IN  IF Len(t) < 3 \/ t[2] # "AS" \/ ~IsName(t[1]) \/ body[1] # "(" THEN Rejected
        ELSE WithOne(t[1], ParseSelect(SubSeq(body, 2, Closing(body) - 1)),
                     After(body, Closing(body)))

Headed(ctes, query) ==
    IF query = Rejected THEN Rejected ELSE [query EXCEPT !.with = ctes]

QueryAfter(with) == IF with = Rejected THEN Rejected ELSE Headed(with.ctes, ParseChain(with.rest))

ParseQuery(t) ==
    IF t = <<>> THEN Rejected
    ELSE IF t[1] # "WITH" THEN ParseChain(t)
    ELSE IF Len(t) > 1 /\ t[2] = "RECURSIVE" THEN Rejected
    ELSE QueryAfter(ParseWith(Tail(t)))

\* parseCatalogSelect
ParseSelect(definition) == ParseQuery(WithoutPrefix(definition))

=============================================================================
