\* Three questions of one conversation, two of them from two tabs at once.
CONSTANTS
    r1 = r1
    r2 = r2
    r3 = r3
    l1 = l1
    None = None
    Requests = {r1, r2, r3}
    Streamed = {r2}
    Continues <- TwoTabs
    Question <- SameQuestion
    Reloads = {l1}
    Reopens <- ReopensFirst
    HistoryLimit = 3
SPECIFICATION FairSpec
INVARIANTS
    TurnStoredWhole
    TurnsPaired
    PriorSqlFresh
PROPERTIES
    RequestsEnd
CHECK_DEADLOCK FALSE
