CONSTANTS
    Keys = {p1, p2, c1}
    Parents = {p1, p2}
    Children = {c1}
    Data = {v1, v2}
    Values = {v1, v2, p1, p2}
    NoRow = NoRow
    BatchLimit = 2
    DrainPolls = 2
    MaxWrites = 1
    MaxRuns = 1
SPECIFICATION Spec
SYMMETRY Symmetry
\* The bounds on writes and runs stop the system.
CHECK_DEADLOCK FALSE
INVARIANTS
    NoSpuriousConflict
