----------------------------- MODULE MCMigration -----------------------------
(* Command lines and schemas for Migration: one that is right in all and    *)
(* the ways to be wrong one at a time.                                      *)
EXTENDS Migration

Col(name, family) ==
    [name |-> name, type |-> [family |-> family, arguments |-> <<>>], nullable |-> TRUE,
     default |-> None, generated |-> None, stored |-> FALSE, domain |-> ""]

Rule(kind, columns) ==
    [kind |-> kind, columns |-> columns, parent |-> "", parentColumns |-> <<>>,
     onUpdate |-> "", onDelete |-> "", expression |-> None]

Email == [name |-> "email", type |-> [family |-> "text", arguments |-> <<>>],
          check |-> <<"like", "VALUE">>, notNull |-> TRUE, default |-> <<"literal", "none">>]

Key == [Col("id", "integer") EXCEPT !.nullable = FALSE]

Parent ==
    [name |-> "parent",
     columns |-> <<Key, [Col("mail", "text") EXCEPT !.domain = "email"],
                   [Col("data", "json") EXCEPT !.default = <<"literal", "null">>]>>,
     constraints |-> <<Rule("primary_key", <<"id">>), Rule("unique", <<"mail", "data">>)>>]

\* The key of the child is declared in another order than its columns.
Child ==
    [name |-> "child",
     columns |-> <<Key, [Col("amount", "decimal") EXCEPT !.nullable = FALSE,
                                                         !.type.arguments = <<8, 2>>],
                   [Col("code", "text") EXCEPT !.generated = <<"lower", "amount">>,
                                               !.stored = TRUE]>>,
     constraints |-> <<Rule("primary_key", <<"amount", "id">>),
                       [Rule("foreign_key", <<"id">>) EXCEPT
                            !.parent = "parent", !.parentColumns = <<"id">>,
                            !.onDelete = "cascade"],
                       [Rule("check", <<>>) EXCEPT !.expression = <<"positive", "amount">>]>>]

AuditTable == [name |-> "audit", columns |-> <<Key>>, constraints |-> <<>>]

Good ==
    [domains |-> <<Email>>,
     tables |-> <<Parent, Child, AuditTable>>,
     indexes |-> <<[name |-> "by_code", table |-> "child",
                    columns |-> <<[column |-> "code", expression |-> None],
                                  [column |-> "", expression |-> <<"lower", "code">>]>>]>>,
     views |-> <<[name |-> "mails", reads |-> {"parent"}, projections |-> 1],
                 [name |-> "known", reads |-> {"mails", "child"}, projections |-> 2]>>,
     triggers |-> <<[name |-> "audited", table |-> "parent", timing |-> "after",
                     event |-> "insert", actions |-> <<"audit">>]>>,
     routines |-> <<[name |-> "add", actions |-> <<"parent">>,
                     parameters |-> <<[name |-> "id", type |-> Key.type]>>]>>]

\* One table.
Small ==
    [Good EXCEPT !.domains = <<>>, !.tables = <<AuditTable>>, !.indexes = <<>>,
                 !.views = <<>>, !.triggers = <<>>, !.routines = <<>>]

\* Without a domain.
Plain == [Good EXCEPT !.domains = <<>>, !.tables[1].columns[2] = Col("mail", "text")]

\* Rows of a table that refer to rows of the same table.
Nested ==
    [Plain EXCEPT !.tables[3] =
        [name |-> "audit", columns |-> <<Key, Col("above", "integer")>>,
         constraints |-> <<Rule("primary_key", <<"id">>),
                           [Rule("foreign_key", <<"above">>) EXCEPT
                                !.parent = "audit", !.parentColumns = <<"id">>]>>]]

\* What an engine's catalog writes in its own way, and where it does.
MCUnreadable == {<<"postgres", "cast">>, <<"postgres", "odd">>, <<"sqlite", "glob">>}

Reworded ==
    {[Plain EXCEPT !.tables[1].columns[3].default = <<"cast", "null">>],
     [Plain EXCEPT !.tables[2].columns[3].generated = <<"cast", "amount">>],
     [Plain EXCEPT !.tables[2].constraints[3].expression = <<"cast", "amount">>],
     [Plain EXCEPT !.indexes[1].columns[2].expression = <<"cast", "code">>],
     [Plain EXCEPT !.views[2].name = "odd"],
     [Plain EXCEPT !.triggers[1].name = "odd"],
     [Good EXCEPT !.domains[1].check = <<"glob", "VALUE">>]}

Broken ==
    {[Good EXCEPT !.domains[1].check = <<"gen_random_uuid", "VALUE">>],
     [Good EXCEPT !.domains[1].name = "mail"],
     [Good EXCEPT !.domains = <<Email, Email>>],
     [Good EXCEPT !.tables[1].columns[2].nullable = FALSE],
     [Good EXCEPT !.tables[1].columns[1].type.family = "money"],
     [Good EXCEPT !.tables[1].columns[1].type.family = "vector"],
     [Good EXCEPT !.tables[1].columns[3].name = "id"],
     [Good EXCEPT !.tables[2].columns[3].stored = FALSE],
     [Good EXCEPT !.tables[2].columns[3].default = <<"literal", "x">>],
     [Good EXCEPT !.tables[2].constraints[1].columns = <<"id", "code">>],
     [Good EXCEPT !.tables[2].constraints[2].onUpdate = "ignore"],
     [Good EXCEPT !.tables[2].constraints[2].onDelete = "ignore"],
     [Good EXCEPT !.tables[2].constraints[2].parent = ""],
     [Good EXCEPT !.tables[2].constraints[2].parent = "nowhere"],
     [Good EXCEPT !.tables[2].constraints[2].parentColumns = <<"data">>],
     [Good EXCEPT !.tables[2].constraints[3].expression = None],
     [Good EXCEPT !.tables[2].constraints[3].expression = <<"gen_random_uuid", "id">>],
     [Good EXCEPT !.tables[2].constraints[3].kind = "exclude"],
     [Good EXCEPT !.tables[3].name = "__compat_change_journal"],
     [Good EXCEPT !.tables[3].name = "child"],
     [Good EXCEPT !.tables = <<Child, Parent, AuditTable>>],
     [Good EXCEPT !.tables = <<>>],
     [Good EXCEPT !.indexes[1].columns[1].column = "nowhere"],
     [Good EXCEPT !.indexes[1].columns[2].column = "code"],
     [Good EXCEPT !.indexes[1].table = "nowhere"],
     [Good EXCEPT !.indexes[1].name = "parent"],
     [Good EXCEPT !.views[1].name = "child"],
     [Good EXCEPT !.views[1].projections = 0],
     [Good EXCEPT !.views[2].reads = {"nowhere"}],
     [Good EXCEPT !.views = <<Good.views[2], Good.views[1]>>],
     [Good EXCEPT !.triggers[1].actions = <<>>],
     [Good EXCEPT !.triggers[1].actions = <<"">>],
     [Good EXCEPT !.triggers[1].table = "nowhere"],
     [Good EXCEPT !.triggers[1].timing = "instead"],
     [Good EXCEPT !.triggers = Good.triggers \o Good.triggers],
     [Good EXCEPT !.routines = Good.routines \o Good.routines],
     [Good EXCEPT !.routines[1].parameters[1].name = ""]}

Target(engine) == [engine |-> engine, version |-> <<1, 0, 0>>]

Contract(from, to) ==
    [source |-> Target(from), destination |-> Target(to), features |-> {"transactions"}]

There == Contract("sqlite", "postgres")
Back == Contract("postgres", "sqlite")

Given(args, contract, schema) ==
    [args |-> args, decodes |-> TRUE, contract |-> contract, schema |-> schema,
     given |-> {"inline"}]

Copy == <<"copy", "m">>

\* Command lines, over a configuration that is right in all.
Lines ==
    {<<>>, <<"--">>, <<"m">>, <<"--help">>, <<"copy">>, <<"copy", "m", "m">>,
     <<"--", "copy", "m">>, <<"copy", "--", "-m">>, <<"copy", "--dry-run", "m">>,
     <<"--dry-run", "cutover", "m">>, <<"cutover", "m">>, <<"cutover", "--dry-run", "m">>,
     <<"cutover", "m", "--dry-run">>, <<"cutover", "--dry-run", "--dry-run", "m">>,
     <<"cutover", "--", "--dry-run">>, <<"audit", "m">>}

MCConfigs ==
    {Given(args, There, Small) : args \in Lines}
    \cup {Given(Copy, contract, s) : contract \in {There, Back}, s \in {Good, Nested} \cup Broken}
    \cup {Given(<<"audit", "m">>, contract, s) : contract \in {There, Back}, s \in Reworded}
    \cup {Given(args, contract, Small) :
            args \in {Copy, <<"audit", "m">>},
            contract \in {Contract("sqlite", "sqlite"),
                          [There EXCEPT !.source.version = <<0, 0, 0>>],
                          [There EXCEPT !.destination.version = <<-1, 0, 0>>],
                          [There EXCEPT !.features = {"wal"}]}}
    \cup {[Given(args, There, s) EXCEPT !.given = where] :
            args \in {Copy, <<"cutover", "--dry-run", "m">>}, s \in {Small, NoSchema},
            where \in {{}, {"file"}, {"no file"}, {"inline", "file"}}}
    \cup {[Given(Copy, There, Small) EXCEPT !.decodes = FALSE],
          Given(<<"cutover", "--dry-run", "m">>, Back, Good),
          Given(<<"cutover", "--dry-run", "m">>, Back,
                [Good EXCEPT !.tables[2].constraints[2].parent = "nowhere"])}

\* Of two rows the first may refer to the second.
MCAbove == [id \in Ids |-> IF id = 1 /\ 2 \in Ids THEN 2 ELSE id]

MCEarlier ==
    {Small}

MCDashed == {"--", "--dry-run", "--help", "-m"}

==============================================================================
