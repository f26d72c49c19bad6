---------------------------- MODULE MCCatalogText ----------------------------
(* CatalogText for TLC: every expression with two levels of operators over *)
(* small operands, and views and triggers that use each clause.            *)
EXTENDS CatalogText

SomeNames == {"x", "y", "t", "u", "c", "k"}

SomeHex == [h \in {"0x1F"} |-> "31"]

x == Leaf("column", "x")
y == Leaf("column", "y")
one == Leaf("integer", "1")
hex == Leaf("integer", "31")

SomeLiterals == {<<"'s'", "string">>, <<"1.5", "decimal">>, <<"TRUE", "boolean">>}

\* Every kind of node once over operands of two sets.
Over(S, T) ==
    {Node(k, <<a, b>>) : k \in InfixKinds \cup {"nullif", "coalesce", "case"}, a \in S, b \in T}
    \cup {Node(k, <<a>>) : k \in {"not", "is_null", "is_not_null", "count", "lower"}, a \in S}
    \cup {Node(k, <<a, b, c>>) : k \in {"between", "not_between"}, a \in S, b \in T, c \in S}
    \cup {Node(k, <<a, b, c>>) : k \in {"in", "not_in", "case", "replace"}, a \in S, b \in T, c \in T}

Simple == Over({x}, {one})

Nested == Over(Simple \cup {x}, {one}) \cup Over({x}, Simple)

Leaves == {Leaf(l[2], l[1]) : l \in SomeLiterals} \cup {x, hex, Node("sub", <<x, hex>>), Leaf("null", ""), Leaf("gen_random_uuid", ""),
           Node("count", <<Leaf("star", "")>>), Node("eq", <<x, Leaf("gen_random_uuid", "")>>)}

\* Operators three deep, where the levels meet: a predicate under NOT under AND.
Deep == {Node(k, <<Node(j, <<Node(i, <<x, one>>), y>>), Node("between", <<x, one, y>>)>>) :
            k \in {"or", "and"}, j \in {"and", "or", "eq"}, i \in {"sub", "like", "and"}}

T(name, alias) == TableSource(name, <<>>, alias)

Column(e, alias) == [expression |-> e, alias |-> alias]

Plain == Select(<<Column(x, "")>>, T("t", ""))

Joined2(kind, on) ==
    [Plain EXCEPT !.joins = <<[kind |-> kind, table |-> T("u", "c"), on |-> on]>>]

Both(kinds) ==
    [Plain EXCEPT !.compounds = [i \in DOMAIN kinds |-> [operator |-> kinds[i], query |-> Joined2("left", <<x>>)]]]

Sorted(q) == [q EXCEPT !.orderBy = <<[expression |-> x, descending |-> TRUE],
                                      [expression |-> Node("sub", <<x, one>>), descending |-> FALSE]>>,
                       !.limit = <<"1">>, !.offset = <<"1">>]

Cores ==
    {Plain, [Plain EXCEPT !.distinct = TRUE, !.columns = <<Column(Node("sub", <<x, one>>), "y"), Column(y, "")>>],
     [Plain EXCEPT !.where = <<Node("between", <<x, one, y>>)>>, !.groupBy = <<x, y>>,
                   !.having = <<Node("lt", <<Node("count", <<Leaf("star", "")>>), one>>)>>],
     Joined2("inner", <<Node("eq", <<x, y>>)>>), Joined2("cross", <<>>), Joined2("inner", <<>>),
     [Joined2("left", <<Node("case", <<x, y, one>>)>>) EXCEPT !.from = TableSource("", <<Plain>>, "c")],
     Both(<<"union">>), Both(<<"union_all", "except">>), Both(<<"intersect", "intersect">>),
     Both(<<"union", "intersect">>)}

Named(q, inner) == [q EXCEPT !.with = <<[name |-> "t", query |-> inner], [name |-> "c", query |-> Plain]>>]

Queries ==
    Cores \cup {Sorted(q) : q \in Cores}
    \cup {Named(Sorted(q), [i EXCEPT !.from = T("u", "")]) : q \in Cores, i \in Cores}
    \cup {Named(Plain, i) : i \in Cores}
    \cup {[Plain EXCEPT !.from = TableSource("", <<Sorted(q)>>, "c")] : q \in Cores}

Statements ==
    {Action("insert", "u", <<[column |-> "x", value |-> x], [column |-> "y", value |-> e]>>, <<>>) :
        e \in {one, Node("like", <<x, y>>), Node("coalesce", <<x, one>>), Leaf("gen_random_uuid", "")}}
    \cup {Action("update", "u", <<[column |-> "x", value |-> v], [column |-> "y", value |-> one]>>, <<w>>) :
            v \in {x, Node("eq", <<x, y>>)}, w \in {Node("eq", <<x, y>>), Node("in", <<x, one, y>>)}}
    \cup {Action("delete", "u", <<>>, <<w>>) : w \in {Node("like", <<x, y>>), Node("not", <<Node("lt", <<x, y>>)>>)}}

Triggers ==
    {Trigger(timing, event, "t", when, actions) :
        timing \in Timings, event \in {"INSERT", "DELETE"}, when \in {<<>>, <<Node("case", <<x, y>>)>>},
        actions \in {<<s>> : s \in Statements} \cup {<<s, r>> : s, r \in Statements} \cup {<<>>}}

given == Leaf("parameter", "k")

RoutinePredicates ==
    {Node("and", <<Node("eq", <<x, given>>), Node("not", <<Node("is_null", <<y>>)>>)>>),
     Node("or", <<Node("lt", <<given, one>>), Node("ne", <<y, Leaf("string", "'s'")>>)>>),
     Node("between", <<x, one, given>>), Node("eq", <<Node("sub", <<x, one>>), given>>)}

RoutineCommands ==
    {Action("insert", "u", <<[column |-> "x", value |-> given], [column |-> "y", value |-> e]>>, <<>>) :
        e \in {one, Leaf("null", ""), x, Node("sub", <<given, one>>)}}
    \cup {Action("update", "u", <<[column |-> "y", value |-> given]>>, <<w>>) : w \in RoutinePredicates}
    \cup {Action("delete", "u", <<>>, <<w>>) : w \in RoutinePredicates}

Routines == {Routine({"k"}, <<a, b>>) : a, b \in RoutineCommands}

Define(sort, trees) == {[sort |-> sort, tree |-> e, listed |-> FALSE] : e \in trees}

Grammar == Define("expression", Nested \cup Leaves \cup Deep) \cup Define("view", Queries)
               \cup Define("trigger", Triggers)
               \cup {[sort |-> "routine", tree |-> r, listed |-> b] : r \in Routines, b \in BOOLEAN}

\* SQL that SQLite takes and that is not in the layer's grammar: a predicate on
\* the outcome of IS NULL, columns named before the query, other joins; and a
\* function in SQL, where a column hides a parameter of its name.
Foreign ==
    Define("expression", {Node(k, <<Node("is_null", <<x>>), y>>) : k \in {"eq", "ne"}})
    \cup Define("view", {Joined2(k, <<Node("eq", <<x, y>>)>>) : k \in {"right", "full"}})
    \cup {[sort |-> "view", tree |-> [Plain EXCEPT !.columns = <<Column(x, "c")>>], listed |-> TRUE]}
    \cup {[sort |-> "routine", listed |-> TRUE,
           tree |-> Routine({"x"}, <<Action("delete", "u", <<>>, <<Node("eq", <<x, one>>)>>)>>)]}

=============================================================================
