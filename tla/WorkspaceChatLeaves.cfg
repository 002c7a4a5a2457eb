\* Two sources, one of them saved before; the user switches while an answer is awaited.
CONSTANTS
    w1 = w1
    w2 = w2
    Sources = {w1, w2}
    Listed = {w1}
    Waits = FALSE
    MaxAsks = 2
    MaxMounts = 4
    None = None
SPECIFICATION Spec
INVARIANTS
    SessionsKeepSource
CHECK_DEADLOCK FALSE
