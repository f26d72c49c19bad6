CONSTANTS
    Keys = {k1, k2}
    Values = {v1, v2}
    NoRow = NoRow
    Sessions = {s1, s2}
    OnPostgres = TRUE
    ReadLimit = 2
    MaxEntries = 4
SPECIFICATION Spec
SYMMETRY Symmetry
\* The bound on sequences stops the writers.
CHECK_DEADLOCK FALSE
INVARIANTS
    NothingSkipped
