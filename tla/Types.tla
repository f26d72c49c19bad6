-------------------------------- MODULE Types --------------------------------
(* Canonical type families and the column types the engines declare them   *)
(* as: compileType (compat/ddl.go) and its way back (compat/inspect.go).   *)

\* sqliteTypeFamily and postgresTypeFamily, of the declared types used here.
FamilyOf(engine, declared) ==
    IF engine = "sqlite"
    THEN CASE declared = "BOOLEAN" -> "boolean"
           [] declared = "INTEGER" -> "integer"
           [] declared = "DECIMAL" -> "decimal"
           [] declared = "REAL" -> "float"
           [] declared = "BLOB" -> "binary"
           [] declared = "JSON" -> "json"
           [] declared = "TIMESTAMP" -> "timestamp"
           [] declared = "DATE" -> "date"
           [] OTHER -> "text"
    ELSE CASE declared = "boolean" -> "boolean"
           [] declared = "bigint" -> "integer"
           [] declared = "numeric" -> "decimal"
           [] declared = "double precision" -> "float"
           [] declared = "bytea" -> "binary"
           [] declared = "date" -> "date"
           [] declared = "timestamptz" -> "timestamp"
           [] declared = "jsonb" -> "json"
           [] declared = "vector" -> "vector"
           [] OTHER -> "text"

\* Faulty: decimals are numbers on SQLite.
CompiledType_NumericDecimal(engine, family) ==
    IF engine = "sqlite"
    THEN CASE family \in {"boolean", "integer"} -> "INTEGER"
           [] family = "decimal" -> "DECIMAL"
           [] family = "float" -> "REAL"
           [] family = "binary" -> "BLOB"
           [] OTHER -> "TEXT"
    ELSE CASE family = "decimal" -> "numeric" [] family = "integer" -> "bigint" [] OTHER -> "text"

\* compileType
CompiledType(engine, family) ==
    IF engine = "sqlite"
    THEN CASE family \in {"boolean", "integer"} -> "INTEGER"
           [] family = "float" -> "REAL"
           [] family = "binary" -> "BLOB"
           [] OTHER -> "TEXT"
    ELSE CASE family = "boolean" -> "boolean"
           [] family = "integer" -> "bigint"
           [] family = "decimal" -> "numeric"
           [] family = "float" -> "double precision"
           [] family = "binary" -> "bytea"
           [] family = "vector" -> "vector"
           [] OTHER -> "text"

==============================================================================
