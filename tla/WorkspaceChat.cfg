\* Two sources, one of them saved before; the user waits for what is under way.
CONSTANTS
    w1 = w1
    w2 = w2
    Sources = {w1, w2}
    Listed = {w1}
    Waits = TRUE
    MaxAsks = 3
    MaxMounts = 4
    None = None
SPECIFICATION FairSpec
INVARIANTS
    OneConversation
    SessionsKeepSource
PROPERTIES
    BusyEnds
CHECK_DEADLOCK FALSE
