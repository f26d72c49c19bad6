CONSTANTS
    Keys = {k1, k2}
    Values = {v1, v2}
    NoRow = NoRow
    NodeA = A
    NodeB = B
    PostgresNodes = {B}
    AppNodes = {A}
    BatchLimit = 2
    MaxWrites = 3
    MaxCrashes = 2
SPECIFICATION FairSpec
\* The bounds on writes and crashes stop the system.
CHECK_DEADLOCK FALSE
INVARIANTS
    OneWayInv
    OneWayNeverFails
PROPERTIES
    IsDelayedReplica
    EventuallyApplied
