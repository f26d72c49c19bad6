----------------------------- MODULE MCRowTravel -----------------------------
(* RowTravel for TLC: one table for each type a column v can have on each  *)
(* engine, with a generated column before, between or after the others.    *)
EXTENDS RowTravel

\* 1.2345678901234567e+14 needs more than the 15 digits CAST gives it, 0.1 is
\* printed with 17 where 15 would do, 2 is printed with a point.
big == "1.2345678901234567e+14"

SomeSeventeen ==
    [f \in {big, "0.1", "2", "7.25", "1.23456789012346e+14"} |->
        CASE f = big -> "123456789012345.67" [] f = "0.1" -> "0.10000000000000001"
          [] f = "2" -> "2.0" [] f = "7.25" -> "7.25" [] OTHER -> "123456789012346.0"]

SomeFifteen == [SomeSeventeen EXCEPT ![big] = "123456789012346.0", !["0.1"] = "0.1"]

\* NUMERIC(17,2): the scale rounds, pads and drops the exponent.
SomeNumeric ==
    [t \in {"0.10000000000000001", "0.10", "7", "7.00", "7.25", "2", "2.00", big, "123456789012345.67"} |->
        CASE t = "0.10000000000000001" -> "0.10" [] t = "7" -> "7.00" [] t = "2" -> "2.00"
          [] t = big -> "123456789012345.67" [] OTHER -> t]

\* Too large for it.
huge == "12345678901234567890"

SomeNearest ==
    [t \in Floats \cup {SomeSeventeen[f] : f \in Floats} \cup {"1.50", "7"} |->
        IF \E f \in Floats : t \in {f, SomeSeventeen[f]}
        THEN CHOOSE f \in Floats : t \in {f, SomeSeventeen[f]}
        ELSE IF t = "1.50" THEN "1.5" ELSE t]

noon == "2020-01-02T12:00:00Z"
night == "2020-01-01T23:30:00Z"

SomeRFC3339 ==
    [t \in {noon, night, "2020-01-02 12:00:00+00", "2020-01-02 01:30:00+02:00"} |->
        IF t \in {noon, "2020-01-02 12:00:00+00"} THEN noon ELSE night]

SomePrinted == [t \in {noon} |-> "2020-01-02 12:00:00+00"]

SomeDateOf == [t \in {"2020-01-02"} |-> t]

SomeSorted == [t \in {"{\"b\": 1, \"a\": 2}", "{\"a\":2,\"b\":1}"} |-> "{\"a\":2,\"b\":1}"]

SomeComponents ==
    [t \in {"[1.0, 2]", "[1,2]", "[0.123456789,2]", "[0.12345679,2]"} |->
        IF t = "[1.0, 2]" THEN "[1,2]" ELSE t]

SomeRounded ==
    [t \in {"[1,2]", "[0.123456789,2]", "[0.12345679,2]"} |->
        IF t = "[0.123456789,2]" THEN "[0.12345679,2]" ELSE t]

\* What a column of a type holds, by engine, declared type and family.
S(class, texts) == {Stored(class, t) : t \in texts} \cup {Null}

Kinds ==
    {[engine |-> "sqlite", declared |-> d, family |-> FamilyOf("sqlite", d)] :
        d \in {"BOOLEAN", "DECIMAL", "REAL", "TEXT", "BLOB", "JSON", "TIMESTAMP", "DATE"}}
    \cup {[engine |-> "sqlite", declared |-> CompiledType("sqlite", f), family |-> f] :
            f \in {"boolean", "decimal", "json", "timestamp", "date", "vector"}}
    \cup {[engine |-> "postgres", declared |-> d, family |-> FamilyOf("postgres", d)] :
            d \in {"boolean", "numeric", "double precision", "text", "bytea", "date", "timestamptz",
                   "jsonb", "vector"}}

DataOf(k) ==
        CASE k.family = "boolean" ->
                IF k.engine = "sqlite" THEN S("integer", {"0", "1"}) ELSE S("text", {"true", "false"})
          [] k.declared = "DECIMAL" -> S("integer", {"7"}) \cup S("real", {big})
          [] k.declared = "numeric" -> S("text", {"7.25"})
          [] k.family = "decimal" -> S("text", {"0.10000000000000001", "7.25"})
          [] k.family = "float" -> S("real", {big, "2"})
          [] k.family = "binary" -> S("blob", {"bytes"})
          [] k.declared = "timestamptz" -> S("time", {noon})
          [] k.declared = "date" -> S("time", {"2020-01-02"})
          [] k.family = "date" -> S("text", {"2020-01-02"})
          [] k.family = "timestamp" -> S("text", {"2020-01-02 01:30:00+02:00"})
          [] k.declared = "jsonb" -> S("text", {"{\"a\":2,\"b\":1}"})
          [] k.family = "json" -> S("text", {"{\"b\": 1, \"a\": 2}"})
          [] k.declared = "vector" -> S("text", {"[1,2]"})
          [] k.family = "vector" -> S("text", {"[1.0, 2]", "[0.123456789,2]"})
          [] OTHER -> S("text", {"a"})

SomeIds == {Stored("integer", "1"), Stored("integer", "7")}

Table(kind, columns, primary, routines) ==
    [data |-> DataOf(kind), routines |-> routines, engine |-> kind.engine, columns |-> columns, primary |-> primary,
     declared |-> [c \in {"id", "v", "g"} |->
                      IF c # "id" THEN kind.declared
                      ELSE IF kind.engine = "sqlite" THEN "INTEGER" ELSE "bigint"],
     family |-> [c \in {"id", "v", "g"} |-> IF c = "id" THEN "integer" ELSE kind.family],
     generated |-> [c \in {"g"} |-> "v"]]

-----------------------------------------------------------------------------

Action(kind, assignments, where) == [kind |-> kind, assignments |-> assignments, where |-> where]

To(column, e) == [column |-> column, value |-> e]

key == Leaf("parameter", "key")
value == Leaf("parameter", "value")
id == Leaf("column", "id")
v == Leaf("column", "v")

Add == Action("insert", <<To("id", key), To("v", value)>>, <<>>)

\* UPDATE ... SET v = value WHERE id = 1 AND NOT (id <> key)
Set == Action("update", <<To("v", value)>>,
              <<Node("and", <<Node("eq", <<id, Leaf("integer", "1")>>),
                              Node("not", <<Node("ne", <<id, key>>)>>)>>)>>)

\* DELETE ... WHERE (id = key AND v IS NULL) OR id = NULL OR 7 = id
Drop == Action("delete", <<>>,
               <<Node("or", <<Node("or", <<Node("and", <<Node("eq", <<id, key>>), Node("is_null", <<v>>)>>),
                                           Node("eq", <<id, Leaf("null", "")>>)>>),
                              Node("eq", <<Leaf("integer", "7"), id>>)>>)>>)

Clear == Action("delete", <<>>, <<Node("is_not_null", <<v>>)>>)

SomeRoutines == {<<Set>>, <<Drop, Add>>, <<Clear, Set>>, <<Set, Add>>}

\* Every type once, some with each place of the generated column and each key,
\* one with a value that PostgreSQL does not take, one with a real it keeps.
SomeTables ==
    LET orders == {<<"g", "v", "id">>, <<"v", "g", "id">>}
        decimals == {k \in Kinds : k.family = "decimal"}
        Plain(k) == Table(k, <<"id", "v", "g">>, {"id"}, {})
        Declared(type) == {k \in decimals : k.declared = type}
    IN  {Plain(k) : k \in Kinds}
            \cup {[Plain(k) EXCEPT !.data = S("text", {huge})] : k \in Declared("TEXT")}
            \cup {[Plain(k) EXCEPT !.data = S("real", {"7.25", "2"})] : k \in Declared("DECIMAL")}
            \cup {Table(k, columns, {"id"}, SomeRoutines) : k \in decimals, columns \in orders}
            \cup {Table(k, columns, {"id", "v"}, {}) : k \in decimals, columns \in orders}

=============================================================================
