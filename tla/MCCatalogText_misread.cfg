CONSTANTS
    Names <- SomeNames
    Integers = {"1", "31"}
    Literals <- SomeLiterals
    HexValue <- SomeHex
    Definitions <- Foreign
    Dialect <- SQLiteLevels
    MaxCopies = 2
SPECIFICATION Spec
\* A definition that is unresolved, or copied often enough, is left alone.
CHECK_DEADLOCK FALSE
INVARIANTS
    NothingMisread
