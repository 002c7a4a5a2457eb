\* Four rebuilds of an indexed source, in two server processes.
CONSTANTS
    r1 = r1
    r2 = r2
    r3 = r3
    r4 = r4
    p1 = p1
    p2 = p2
    b0 = b0
    NoBatch = NoBatch
    Rebuilds = {r1, r2, r3, r4}
    Process <- TwoProcesses
    Indexed = b0
SPECIFICATION IndexFairSpec
INVARIANTS
    NeverEmptied
    SummaryDescribesIndex
    GuardCoversWork
PROPERTIES
    RebuildsEnd
CHECK_DEADLOCK FALSE
