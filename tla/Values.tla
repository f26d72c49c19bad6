-------------------------------- MODULE Values --------------------------------
(***************************************************************************)
(* One value on its way between two databases: what a column stores, what  *)
(* the driver scans, the text a capture trigger journals, the canonical    *)
(* Value (compat/store.go) and the argument that writes it again.          *)
(*                                                                         *)
(* A text is an opaque string.  A float64 is named by the shortest text    *)
(* that reads back as it; other spellings of it are other texts.           *)
(*                                                                         *)
(* PostgreSQL does not keep the text of every value: a NUMERIC is rounded  *)
(* and padded to its scale and written without exponent or leading zeros,  *)
(* the components of a vector are rounded to float32.  One NUMERIC type,   *)
(* whatever its precision and scale, stands for all.                       *)
(***************************************************************************)
EXTENDS Naturals, Types

CONSTANTS
    Integers,       \* texts that spell an integer
    Nearest,        \* [numeric texts -> floats]: the float a text reads as
    Seventeen,      \* [floats -> texts]: printf('%!.17g', x)
    Fifteen,        \* [floats -> texts]: CAST(x AS TEXT) on SQLite
    RFC3339,        \* [texts of instants -> texts]: the same instant in UTC
    Printed,        \* [instants in UTC -> texts]: timestamptz cast to text
    DateOf,         \* [texts of dates and instants -> texts]: the day, in UTC
    Sorted,         \* [JSON texts -> texts]: keys sorted, no blanks
    Components,     \* [vector texts -> texts]: every component shortest
    Numeric,        \* [texts a NUMERIC column takes -> texts]: what it prints
    Rounded         \* [texts a vector column takes -> texts]: what it prints

Floats == DOMAIN Seventeen

Days == {DateOf[t] : t \in DOMAIN DateOf}

\* A text normalised is as it should be.
Idempotent(f) == \A t \in DOMAIN f : f[t] \in DOMAIN f /\ f[f[t]] = f[t]

\* 17 digits tell a float64, an instant printed in UTC is the same instant, a
\* day is no instant, what a vector column prints it takes again.
ASSUME ValuesAssumption ==
    /\ {"0", "1"} \subseteq Integers
    /\ \A x \in Floats : /\ x \in DOMAIN Nearest /\ Nearest[x] = x
                         /\ Seventeen[x] \in DOMAIN Nearest /\ Nearest[Seventeen[x]] = x
    /\ \A t \in DOMAIN Printed : /\ t \in DOMAIN RFC3339 /\ Printed[t] \in DOMAIN RFC3339
                                 /\ RFC3339[Printed[t]] = RFC3339[t]
    /\ Idempotent(RFC3339) /\ Idempotent(DateOf) /\ Idempotent(Sorted) /\ Idempotent(Components)
    /\ Days \cap DOMAIN Printed = {}
    /\ Idempotent(Numeric)
    /\ \A t \in DOMAIN Rounded :
        LET again == Components[Rounded[t]]
        IN  /\ Rounded[t] \in DOMAIN Components
            /\ again \in DOMAIN Rounded /\ Rounded[again] = Rounded[t]

\* What a column holds, what a driver returns, what a statement is given.
Stored(class, data) == [class |-> class, data |-> data]

Value(kind, text) == [kind |-> kind, text |-> text]

Null == Stored("null", "none")
NullValue == Value("null", "none")
Invalid == Value("error", "none")

\* The engine refuses what a statement is given.
Refused == Stored("refused", "none")

-----------------------------------------------------------------------------
(* The engines.                                                            *)

\* The affinity SQLite derives from a declared type.
Affinity(declared) ==
    CASE declared = "INTEGER" -> "integer"
      [] declared = "REAL" -> "real"
      [] declared = "BLOB" -> "blob"
      [] declared = "TEXT" -> "text"
      [] OTHER -> "numeric"

\* What a column stores when it is given an argument.
Store(engine, declared, a) ==
    IF a.class \in {"null", "blob"} THEN a
    ELSE IF engine = "sqlite"
    THEN IF Affinity(declared) \in {"integer", "numeric"} /\ a.data \in Integers
         THEN Stored("integer", a.data)
         ELSE IF Affinity(declared) \in {"integer", "numeric", "real"} /\ a.data \in DOMAIN Nearest
         THEN Stored("real", Nearest[a.data])
         ELSE Stored("text", a.data)
    ELSE CASE declared = "bigint" -> Stored("integer", a.data)
           [] declared = "double precision" -> Stored("real", Nearest[a.data])
           [] declared = "timestamptz" -> Stored("time", RFC3339[a.data])
           [] declared = "date" -> Stored("time", a.data)
           [] declared = "jsonb" -> Stored("text", Sorted[a.data])
           [] declared = "numeric" ->
                IF a.data \in DOMAIN Numeric THEN Stored("text", Numeric[a.data]) ELSE Refused
           [] declared = "vector" ->
                IF a.data \in DOMAIN Rounded THEN Stored("text", Rounded[a.data]) ELSE Refused
           [] OTHER -> Stored("text", a.data)

\* What the driver returns for it: times are parsed in columns declared so.
Scanned(engine, declared, s) ==
    IF engine = "sqlite" /\ s.class = "text" /\ declared \in {"TIMESTAMP", "DATE"}
    THEN Stored("time", s.data) ELSE s

\* CAST(x AS TEXT): PostgreSQL prints a float so that it reads back.
CastToText(engine, s) ==
    CASE s.class = "real" /\ engine = "sqlite" -> Fifteen[s.data]
      [] s.class = "time" /\ s.data \in DOMAIN Printed -> Printed[s.data]
      [] OTHER -> s.data

-----------------------------------------------------------------------------
(* The layer.                                                              *)

\* Faulty: a real in a DECIMAL column is journaled without its marker.
RealText_NoMarker(family, s) == Stored("text", Seventeen[s.data])

\* Reals keep their 17 digits; in a DECIMAL column they carry a marker.
RealText(family, s) ==
    IF family = "decimal" THEN Stored("marked", Seventeen[s.data])
    ELSE Stored("text", Seventeen[s.data])

\* captureJSONExpression: bytes in hexadecimal, everything else as text.
Journaled(engine, family, s) ==
    CASE s.class = "null" -> Null
      [] s.class = "blob" -> Stored("hex", s.data)
      [] engine = "sqlite" /\ s.class = "real" /\ family \in {"float", "decimal"} ->
            RealText(family, s)
      [] OTHER -> Stored("text", CastToText(engine, s))

\* The hexadecimal text of decodeCapturedRow.
Unpacked(family, j) == IF family = "binary" /\ j.class = "hex" THEN Stored("blob", j.data) ELSE j

BooleanText(text) == IF text \in {"1", "t", "true"} THEN "true" ELSE "false"

\* canonicalValue of what a driver scanned or a journal entry holds.
CanonicalValue(family, s) ==
    CASE s.class = "null" -> NullValue
      [] s.class = "blob" -> IF family = "binary" THEN Value("binary", s.data) ELSE Invalid
      [] s.class = "time" ->
            IF family = "date" THEN Value("date", DateOf[s.data])
            ELSE Value("timestamp", RFC3339[s.data])
      [] OTHER ->
            CASE family = "boolean" -> Value("boolean", BooleanText(s.data))
              [] family = "decimal" ->
                    IF s.class \in {"real", "marked"} THEN Value("decimal", Nearest[s.data])
                    ELSE Value("decimal", s.data)
              [] family = "float" ->
                    IF s.data \in DOMAIN Nearest THEN Value("float", Nearest[s.data]) ELSE Invalid
              [] family = "timestamp" ->
                    IF s.data \in DOMAIN RFC3339 THEN Value("timestamp", RFC3339[s.data]) ELSE Invalid
              [] family = "json" ->
                    IF s.data \in DOMAIN Sorted THEN Value("json", Sorted[s.data]) ELSE Invalid
              [] family = "vector" ->
                    IF s.data \in DOMAIN Components THEN Value("vector", Components[s.data]) ELSE Invalid
              [] family = "binary" -> Invalid
              [] OTHER -> Value(family, s.data)

\* Faulty: SQLite is given a boolean as PostgreSQL is.
DriverValue_BooleanText(engine, v) ==
    CASE v.kind = "null" -> Null
      [] v.kind = "binary" -> Stored("blob", v.text)
      [] OTHER -> Stored("text", v.text)

\* driverValue
DriverValue(engine, v) ==
    CASE v.kind = "null" -> Null
      [] v.kind = "binary" -> Stored("blob", v.text)
      [] v.kind = "boolean" /\ engine = "sqlite" ->
            Stored("integer", IF v.text = "true" THEN "1" ELSE "0")
      [] OTHER -> Stored("text", v.text)

-----------------------------------------------------------------------------
(* What a value is expected to be on its way.                              *)

\* A column has the family an inspection gives its type, or the type the
\* compiler gives its family.
Typed(engine, declared, family) ==
    family = FamilyOf(engine, declared) \/ declared = CompiledType(engine, family)

\* What a column of the family holds when what it was given suits the family.
Suits(engine, declared, family, s) ==
    \/ s = Null
    \/ /\ s = Stored(s.class, s.data)
       /\ CASE family = "boolean" ->
                 IF engine = "sqlite" THEN s.class = "integer" /\ s.data \in {"0", "1"}
                 ELSE s.class = "text" /\ s.data \in {"true", "false"}
            [] family = "integer" -> s.class = "integer" /\ s.data \in Integers
            [] family = "decimal" ->
                 \/ /\ s.class = "text"
                    /\ engine = "postgres" =>
                            s.data \in DOMAIN Numeric /\ Numeric[s.data] = s.data
                 \/ engine = "sqlite" /\ s.class = "integer"
                 \/ engine = "sqlite" /\ s.class = "real" /\ s.data \in Floats
            [] family = "float" -> s.class = "real" /\ s.data \in Floats
            [] family = "binary" -> s.class = "blob"
            [] family = "date" ->
                 s.class = (IF declared = "date" THEN "time" ELSE "text") /\ s.data \in Days
            [] family = "timestamp" ->
                 s.class = (IF declared = "timestamptz" THEN "time" ELSE "text")
                    /\ s.data \in DOMAIN RFC3339
            [] family = "json" -> s.class = "text" /\ s.data \in DOMAIN Sorted
            [] family = "vector" ->
                 /\ s.class = "text" /\ s.data \in DOMAIN Components
                 /\ engine = "postgres" =>
                        /\ Components[s.data] \in DOMAIN Rounded
                        /\ Rounded[Components[s.data]] = s.data
            [] OTHER -> s.class = "text"

\* The canonical values of a family.
Canonical(family, v) ==
    \/ v = NullValue
    \/ /\ v = Value(family, v.text)
       /\ CASE family = "boolean" -> v.text \in {"true", "false"}
            [] family = "integer" -> v.text \in Integers
            [] family = "float" -> v.text \in Floats
            [] family = "date" -> v.text \in Days
            [] family = "timestamp" -> v.text \in DOMAIN RFC3339 /\ RFC3339[v.text] = v.text
            [] family = "json" -> v.text \in DOMAIN Sorted /\ Sorted[v.text] = v.text
            [] family = "vector" -> v.text \in DOMAIN Components /\ Components[v.text] = v.text
            [] OTHER -> TRUE

\* The engine takes the canonical value into the column declared for its family.
Taken(engine, family, v) ==
    engine = "postgres" /\ v # NullValue =>
        /\ family = "decimal" => v.text \in DOMAIN Numeric
        /\ family = "vector" => v.text \in DOMAIN Rounded

\* What the column gives back of it: PostgreSQL respells decimals and vectors.
Respelled(engine, family, v) ==
    IF engine = "sqlite" \/ v = NullValue THEN v
    ELSE IF family = "decimal" THEN Value(family, Numeric[v.text])
    ELSE IF family = "vector" THEN Value(family, Components[Rounded[v.text]])
    ELSE v

=============================================================================
