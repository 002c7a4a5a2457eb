\* Every route of the graph under LangGraph's default limit, one node less than the
\* longest of them takes (25 < 9 * 2 + 8).
CONSTANTS
    t1 = t1
    t2 = t2
    Tables = {t1, t2}
    Invented = invented
    Synthetic = synthetic
    MaxTables = 1
    MaxAttempts = 2
    RecursionLimit = 25
    ExpandOnRetry = TRUE
    SchemaScoped = TRUE
SPECIFICATION FairSpec
INVARIANTS
    EvidenceConsistent
    KeepsFirstResult
PROPERTIES
    ImplementsBudget
    Terminates
CHECK_DEADLOCK FALSE
