CONSTANTS
    k1 = k1
    k2 = k2
    k3 = k3
    s1 = s1
    s2 = s2
    Keys <- SomeKeys
    v1 = v1
    Values = {v1}
    NoRow = NoRow
    Workers = {w1, w2}
    Streams <- SomeStreams
    KeysOf <- TwoRowsAndOne
    Identity <- Targets
    BatchLimit = 2
    MaxChanges = 3
    Base <- FullTable
    MaxCrashes = 1
SPECIFICATION FairSpec
\* The workers stop when every journal is applied.
CHECK_DEADLOCK FALSE
INVARIANTS
    IndInv
    AppliedIsHistory
    CursorIsCovered
    NoDeadlock
PROPERTIES
    EventuallyDrained
