CONSTANTS
    Keys = {k1, k2}
    Values = {v1, v2}
    NoRow = NoRow
    Sessions = {s1, s2}
    OnPostgres = FALSE
    ReadLimit = 2
    MaxEntries = 3
SPECIFICATION FairSpec

\* The bound on sequences stops the writers.
CHECK_DEADLOCK FALSE
INVARIANTS
    IndInv
    JournalRetellsTable
    NothingSkipped
PROPERTIES
    EventuallyDelivered
