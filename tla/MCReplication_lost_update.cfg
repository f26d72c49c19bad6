CONSTANTS
    Keys = {k1, k2}
    Values = {v1, v2}
    NoRow = NoRow
    NodeA = A
    NodeB = B
    PostgresNodes = {B}
    AppNodes = {A, B}
    BatchLimit = 2
    MaxWrites = 2
    MaxCrashes = 0
SPECIFICATION Spec
SYMMETRY Symmetry
\* The bounds on writes and crashes stop the system.
CHECK_DEADLOCK FALSE
PROPERTIES
    NoLostUpdate
