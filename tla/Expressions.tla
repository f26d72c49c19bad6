----------------------------- MODULE Expressions -----------------------------
(***************************************************************************)
(* The canonical expressions: the text compileExpression (compat/ddl.go)   *)
(* gives one, and what parseCatalogExpression (compat/sqlparse.go) makes   *)
(* of a text found in a catalog.  SQLite keeps every definition verbatim;  *)
(* PostgreSQL keeps the bodies of functions verbatim.                      *)
(*                                                                         *)
(* A text is a sequence of tokens.  What is inside a quoted string or      *)
(* identifier, letter case, blanks, and the quotes an identifier has once  *)
(* it is compiled are below this level; IS NULL and IS NOT NULL are one    *)
(* token each.  A NOT is written with a blank after it.                    *)
(***************************************************************************)
EXTENDS Trees, Naturals, Sequences, FiniteSets, SequencesExt

CONSTANTS
    Names,      \* names of tables and columns, as tokens
    Integers,   \* decimal integer literals
    Literals,   \* the other literals, each with its kind: <<text, kind>>
    HexValue    \* the hexadecimal literals, each with its value in decimal

-----------------------------------------------------------------------------
(* The tree.                                                               *)

\* An error of the parser.
Rejected == Leaf("rejected", "")

\* The node, unless an operand was rejected.
Build(kind, args) ==
    IF \E i \in DOMAIN args : args[i] = Rejected THEN Rejected ELSE Node(kind, args)

RECURSIVE Uses(_, _)
Uses(kind, e) == e.kind = kind \/ \E i \in DOMAIN e.args : Uses(kind, e.args[i])

\* The operators: the stage of the parser that splits at each one, its token
\* and the kind of its node.  != is written <> here.
Operators ==
    {<<1, "OR", "or">>, <<2, "AND", "and">>,
     <<4, "IS NULL", "is_null">>, <<4, "IS NOT NULL", "is_not_null">>,
     <<5, "=", "eq">>, <<5, "<>", "ne">>, <<5, "<", "lt">>, <<5, "<=", "lte">>,
     <<5, ">", "gt">>, <<5, ">=", "gte">>, <<5, "LIKE", "like">>,
     <<8, "||", "concat">>, <<9, "+", "add">>, <<9, "-", "sub">>,
     <<10, "*", "mul">>, <<10, "/", "div">>}

SplitStages == {o[1] : o \in Operators}

PostfixStage == 4

KindOf(token) == (CHOOSE o \in Operators : o[2] = token)[3]

TokenOf(kind) == (CHOOSE o \in Operators : o[3] = kind)[2]

InfixKinds == {o[3] : o \in {x \in Operators : x[1] # PostfixStage}}

\* Functions, and how many arguments the parser takes.
Functions1 == [COUNT |-> "count", SUM |-> "sum", AVG |-> "avg", MIN |-> "min", MAX |-> "max",
               LOWER |-> "lower", UPPER |-> "upper", LENGTH |-> "length", ABS |-> "abs",
               TRIM |-> "trim"]

FunctionsN == [COALESCE |-> "coalesce", REPLACE |-> "replace", NULLIF |-> "nullif"]

StarFunctions == {"COUNT", "SUM", "AVG", "MIN", "MAX", "LOWER", "UPPER"}

ArityFits(kind, n) ==
    CASE kind = "coalesce" -> n >= 1
      [] kind = "replace"  -> n = 3
      [] kind = "nullif"   -> n = 2

NameOf(table, kind) == CHOOSE f \in DOMAIN table : table[f] = kind

-----------------------------------------------------------------------------
(* From the tree to an engine's text.                                      *)

\* texts joined by a separator
Joined(texts, separator) ==
    FlattenSeq([i \in DOMAIN texts |-> IF i = 1 THEN texts[1] ELSE <<separator>> \o texts[i]])

\* SQLite has no UUID function: the text calls functions the parser rejects.
UUIDText(engine) ==
    IF engine = "sqlite"
    THEN <<"(", "LOWER", "(", "HEX", "(", "RANDOMBLOB", "(", "4", ")", ")", ")", ")">>
    ELSE <<"GEN_RANDOM_UUID", "(", ")">>

\* LIKE ignores case on SQLite; ILIKE does on PostgreSQL.
InfixToken(engine, kind) ==
    IF kind = "like" /\ engine = "postgres" THEN "ILIKE" ELSE TokenOf(kind)

\* The branches of a CASE whose operands have these texts, the last one the
\* ELSE when their number is odd.
CaseText(texts) ==
    LET n == Len(texts) \div 2
        When(i) == <<"WHEN">> \o texts[2 * i - 1] \o <<"THEN">> \o texts[2 * i]
    IN  <<"CASE">> \o FlattenSeq([i \in 1..n |-> When(i)])
            \o (IF Len(texts) % 2 = 1 THEN <<"ELSE">> \o Last(texts) ELSE <<>>) \o <<"END">>

Parenthesized(text) == <<"(">> \o text \o <<")">>

\* The compilers put every operator with its operands in parentheses.
Compound(text) == Parenthesized(text)

RECURSIVE Compile(_, _)
Compile(engine, e) ==
    LET arg == [i \in DOMAIN e.args |-> Compile(engine, e.args[i])]
        rest == Tail(arg)
    IN  CASE e.kind = "null" -> <<"NULL">>
          [] e.kind = "star" -> <<"*">>
          [] e.kind \in InfixKinds -> Compound(arg[1] \o <<InfixToken(engine, e.kind)>> \o arg[2])
          [] e.kind = "not" -> Compound(<<"NOT">> \o arg[1])
          [] e.kind = "is_null" -> Compound(arg[1] \o <<"IS NULL">>)
          [] e.kind = "is_not_null" -> Compound(arg[1] \o <<"IS NOT NULL">>)
          [] e.kind = "between" ->
                Compound(arg[1] \o <<"BETWEEN">> \o arg[2] \o <<"AND">> \o arg[3])
          [] e.kind = "not_between" ->
                Compound(arg[1] \o <<"NOT", "BETWEEN">> \o arg[2] \o <<"AND">> \o arg[3])
          [] e.kind = "in" -> Compound(arg[1] \o <<"IN">> \o Parenthesized(Joined(rest, ",")))
          [] e.kind = "not_in" ->
                Compound(arg[1] \o <<"NOT", "IN">> \o Parenthesized(Joined(rest, ",")))
          [] e.kind = "case" -> CaseText(arg)
          [] e.kind = "gen_random_uuid" -> UUIDText(engine)
          [] e.kind \in {"coalesce", "replace", "nullif"} ->
                <<NameOf(FunctionsN, e.kind)>> \o Parenthesized(Joined(arg, ","))
          [] \E f \in DOMAIN Functions1 : Functions1[f] = e.kind ->
                <<NameOf(Functions1, e.kind)>> \o Parenthesized(arg[1])
          [] OTHER -> <<e.value>>

-----------------------------------------------------------------------------
(* Scanning a text.                                                        *)

Count(t, positions, token) == Cardinality({i \in positions : t[i] = token})

\* How many parentheses are open before position i.
Depth(t, i) == Count(t, 1..(i - 1), "(") - Count(t, 1..(i - 1), ")")

Outside(t) == {i \in 1..Len(t) : t[i] \notin {"(", ")"} /\ Depth(t, i) = 0}

\* Every CASE among the words CASE and END of a text, with the END that closes it.
CasesAmong(t, words) ==
    LET Open(c, e) == Count(t, words \cap (c..e), "CASE") - Count(t, words \cap (c..e), "END")
    IN  {p \in (words \X words) : /\ t[p[1]] = "CASE" /\ p[1] < p[2] /\ Open(p[1], p[2]) = 0
                                /\ \A f \in words : p[1] <= f /\ f < p[2] => Open(p[1], f) > 0}

ClosedCases(t) == CasesAmong(t, {i \in Outside(t) : t[i] \in {"CASE", "END"}})

\* caseSpanMask: the positions from a CASE to its END.
CaseSpans(t) == UNION {p[1]..p[2] : p \in ClosedCases(t)}

\* Positions outside parentheses and CASEs.
Top(t) == Outside(t) \ CaseSpans(t)

\* findCatalogKeyword
Leftmost(t, top, word) == {i \in top : t[i] = word /\ \A j \in top : t[j] = word => i <= j}

\* betweenDelimiterANDs: the ANDs with a BETWEEN before them that no AND has
\* taken yet.
DelimiterANDs(t, top) ==
    {i \in top : /\ t[i] = "AND"
                 /\ \E b \in top : LET between == top \cap (b..(i - 1))
                                   IN  Count(t, between, "BETWEEN") > Count(t, between, "AND")}

\* The pieces between the separators at the top of a text.
RECURSIVE Pieces(_, _)
Pieces(t, separators) ==
    IF separators = {} THEN <<t>>
    ELSE LET first == CHOOSE i \in separators : \A j \in separators : i <= j
         IN  <<SubSeq(t, 1, first - 1)>>
                 \o Pieces(SubSeq(t, first + 1, Len(t)), {i - first : i \in separators \ {first}})

\* splitTopLevelCommas: CASEs are not masked here.
Items(t) == Pieces(t, {i \in 1..Len(t) : t[i] = "," /\ Depth(t, i) = 0})

\* The tokens at some positions, from left to right.
TokensAt(t, positions) ==
    [k \in 1..Cardinality(positions) |->
        t[CHOOSE i \in positions : Cardinality({j \in positions : j <= i}) = k]]

Before(t, i) == SubSeq(t, 1, i - 1)
After(t, i) == SubSeq(t, i + 1, Len(t))

\* A text without its first and its last token.
Inner(t) == SubSeq(t, 2, Len(t) - 1)

\* Does the parenthesis at position i close at the end of the text?
ClosesAtEnd(t, i) ==
    /\ i < Len(t) /\ t[i] = "(" /\ Last(t) = ")"
    /\ \A j \in (i + 1)..Len(t) : Depth(t, j) > Depth(t, i)

RECURSIVE StripParentheses(_)
StripParentheses(t) ==
    IF Len(t) >= 2 /\ ClosesAtEnd(t, 1) THEN StripParentheses(Inner(t)) ELSE t

-----------------------------------------------------------------------------
(* From a text to the tree.  parseCatalogExpression tries one stage after  *)
(* another: 3 is a leading NOT, 6 is BETWEEN, 7 is IN, 11 is what has no   *)
(* operator, the others are the operators of Operators, loosest first.     *)

\* Where a stage can split a text: an operand on both sides, or on the left of
\* IS NULL.
Splits(t, top, stage) ==
    {i \in top :
        /\ \E o \in Operators : o[1] = stage /\ o[2] = t[i]
        /\ i > 1
        /\ i < Len(t) \/ stage = PostfixStage
        /\ stage = 2 => i \notin DelimiterANDs(t, top)}

StageApplies(t, top, stage) ==
    CASE stage = 3 -> t[1] = "NOT" /\ Len(t) > 1
      [] stage = 6 -> Leftmost(t, top, "BETWEEN") # {}
      [] stage = 7 -> Leftmost(t, top, "IN") # {}
      [] stage = 11 -> TRUE
      [] OTHER -> Splits(t, top, stage) # {}

\* Faulty: the leftmost operator of a level splits the text.
SplitPoint_Leftmost(splits) == Min(splits)

\* The rightmost operator of a level splits the text.
SplitPoint(splits) == Max(splits)

\* stripTrailingNot
EndsInNot(t) == Len(t) > 1 /\ Last(t) = "NOT"

WithoutNot(t) == IF EndsInNot(t) THEN Front(t) ELSE t

RECURSIVE Parse(_)

ParseAll(texts) == [i \in DOMAIN texts |-> Parse(texts[i])]

\* a NOT LIKE b is the negation of a LIKE b.
FoldNot(like) == Build("not", <<like>>)

\* The node of an operator and its sides; what follows an IS NULL is not
\* looked at.
ParseSides(operator, left, right) ==
    CASE operator \in {"IS NULL", "IS NOT NULL"} -> Build(KindOf(operator), ParseAll(<<left>>))
      [] operator = "LIKE" /\ EndsInNot(left) ->
            FoldNot(Build("like", ParseAll(<<Front(left), right>>)))
      [] OTHER -> Build(KindOf(operator), ParseAll(<<left, right>>))

\* splitCatalogOperator
ParseSplit(t, i) == ParseSides(t[i], Before(t, i), After(t, i))

\* What is before BETWEEN, and after it.
ParseBetween(left, rest) ==
    LET ands == Leftmost(rest, Top(rest), "AND")
    IN  IF left = <<>> \/ ands = {} THEN Rejected
        ELSE Build(IF EndsInNot(left) THEN "not_between" ELSE "between",
                   ParseAll(<<WithoutNot(left)>> \o Pieces(rest, ands)))

\* What is before IN, and after it.
ParseIn(left, rest) ==
    IF left = <<>> \/ Len(rest) < 3 \/ ~ClosesAtEnd(rest, 1) THEN Rejected
    ELSE Build(IF EndsInNot(left) THEN "not_in" ELSE "in",
               ParseAll(<<WithoutNot(left)>> \o Items(Inner(rest))))

\* Where the CASE that opens a text ends.
CaseEnd(t) == {p[2] : p \in {c \in ClosedCases(t) : c[1] = 1}}

BranchMarks == {"WHEN", "THEN", "ELSE"}

\* Only the searched form is known: the words that part it are WHEN, THEN, ...,
\* WHEN, THEN and possibly ELSE, with something after each and nothing before.
ParseBranches(words, parts) ==
    LET paired == Len(words) - (Len(words) % 2)
    IN  IF /\ Len(words) >= 2
           /\ \A k \in 1..paired : words[k] = IF k % 2 = 1 THEN "WHEN" ELSE "THEN"
           /\ Len(words) > paired => Last(words) = "ELSE"
           /\ parts[1] = <<>>
           /\ \A k \in 2..Len(parts) : parts[k] # <<>>
        THEN Build("case", ParseAll(Tail(parts)))
        ELSE Rejected

ParseCase(inside) ==
    LET marks == {i \in Top(inside) : inside[i] \in BranchMarks}
    IN  ParseBranches(TokensAt(inside, marks), Pieces(inside, marks))

ParseCall(f, inner) ==
    CASE f \in StarFunctions /\ inner = <<"*">> -> Node(Functions1[f], <<Leaf("star", "")>>)
      [] f \in DOMAIN Functions1 /\ ~(f \in StarFunctions /\ inner = <<"*">>) ->
            Build(Functions1[f], <<Parse(inner)>>)
      [] f \in DOMAIN FunctionsN ->
            IF ArityFits(FunctionsN[f], Len(Items(inner)))
            THEN Build(FunctionsN[f], ParseAll(Items(inner))) ELSE Rejected
      [] f = "GEN_RANDOM_UUID" /\ inner = <<>> -> Leaf("gen_random_uuid", "")
      [] OTHER -> Rejected

\* Words of a statement that mean nothing here: each reads as an identifier.
LooseWords == {"RIGHT", "FULL", "NATURAL", "OUTER", "DISTINCT", "ALL", "ASC", "DESC"}

IsName(token) == token \in Names \cup LooseWords

HexDigits(token) == HexValue[token]

ParsePrimary(t) ==
    CASE Len(t) = 1 /\ t[1] = "NULL" -> Leaf("null", "")
      [] Len(t) = 1 /\ t[1] \in DOMAIN HexValue -> Leaf("integer", HexDigits(t[1]))
      [] Len(t) = 1 /\ t[1] \in Integers -> Leaf("integer", t[1])
      [] Len(t) = 1 /\ \E l \in Literals : l[1] = t[1] ->
            Leaf((CHOOSE l \in Literals : l[1] = t[1])[2], t[1])
      [] Len(t) = 1 /\ IsName(t[1]) -> Leaf("column", t[1])
      [] Len(t) > 2 /\ ClosesAtEnd(t, 2) -> ParseCall(t[1], SubSeq(t, 3, Len(t) - 1))
      [] OTHER -> Rejected

FirstStage(t, top) == Min({s \in 1..11 : StageApplies(t, top, s)})

ParseStage(t, top, stage) ==
    LET At(word) == CHOOSE i \in Leftmost(t, top, word) : TRUE
    IN  CASE stage = 3 -> Build("not", <<Parse(Tail(t))>>)
          [] stage = 6 -> ParseBetween(Before(t, At("BETWEEN")), After(t, At("BETWEEN")))
          [] stage = 7 -> ParseIn(Before(t, At("IN")), After(t, At("IN")))
          [] stage = 11 -> ParsePrimary(t)
          [] OTHER -> ParseSplit(t, SplitPoint(Splits(t, top, stage)))

ParseOperators(t, top) == ParseStage(t, top, FirstStage(t, top))

ParseStripped(t) ==
    IF t = <<>> THEN Rejected
    ELSE IF t[1] = "CASE" /\ Len(t) \in CaseEnd(t) THEN ParseCase(Inner(t))
    ELSE IF t[1] = "CASE" /\ CaseEnd(t) = {} THEN Rejected
    ELSE ParseOperators(t, Top(t))

Parse(text) == ParseStripped(StripParentheses(text))

=============================================================================
