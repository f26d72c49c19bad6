CONSTANTS
    Keys = {p1, p2, c1}
    Parents = {p1, p2}
    Children = {c1}
    Data = {v1}
    Values = {v1, p1, p2}
    NoRow = NoRow
    BatchLimit = 2
    DrainPolls = 2
    MaxWrites = 3
    MaxRuns = 2
SPECIFICATION FairSpec
\* The bounds on writes and runs stop the system.
CHECK_DEADLOCK FALSE
INVARIANTS
    IndInv
    DrainedIsSourceVersion
    FailsOnlyInOverlap
PROPERTIES
    RunsEnd
