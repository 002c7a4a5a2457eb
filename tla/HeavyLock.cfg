\* Two speech workers and three pool threads: the pool never runs dry.
CONSTANTS
    a1 = a1
    a2 = a2
    a3 = a3
    s1 = s1
    s2 = s2
    Asks = {a1, a2, a3}
    Streamed = {a3}
    Speaks = {s1, s2}
    Chunked = {s2}
    PoolSize = 3
    MaxHops = 1
    Sentences = 2
    NoOne = NoOne
SPECIFICATION FairSpec
INVARIANTS
    LockDiscipline
    NeverStacked
PROPERTIES
    AsksFinish
    SpeaksFinish
CHECK_DEADLOCK FALSE
