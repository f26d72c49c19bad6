CONSTANTS
    Names <- SomeNames
    Integers = {"1", "31"}
    Literals <- SomeLiterals
    HexValue <- SomeHex
    Definitions <- Grammar
    Dialect <- Documented
    MaxCopies = 2
SPECIFICATION Spec
\* A definition that is unresolved, or copied often enough, is left alone.
CHECK_DEADLOCK FALSE
INVARIANTS
    ReadAsWritten
    CopyIsFaithful
    ReadIsWritable
