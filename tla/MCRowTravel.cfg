CONSTANTS
    Integers = {"0", "1", "7"}
    Nearest <- SomeNearest
    Seventeen <- SomeSeventeen
    Fifteen <- SomeFifteen
    RFC3339 <- SomeRFC3339
    Printed <- SomePrinted
    DateOf <- SomeDateOf
    Sorted <- SomeSorted
    Components <- SomeComponents
    Numeric <- SomeNumeric
    Rounded <- SomeRounded
    SourceTables <- SomeTables
    CopyEngines = {"sqlite", "postgres"}
    Ids <- SomeIds
    MaxChanges = 2
SPECIFICATION Spec
\* The journal is full and applied, or the table was never copied.
CHECK_DEADLOCK FALSE
INVARIANTS
    ColumnsHold
    JournalTellsRows
    NothingRefused
    CopyIsEquivalent
    CallDoesWhatItSays
