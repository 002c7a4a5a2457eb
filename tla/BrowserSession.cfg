\* Two tabs, two calls in either, one expiry, one login or logout and one lost answer.
CONSTANTS
    a = a
    b = b
    c1 = c1
    c2 = c2
    Tabs = {a, b}
    Calls = {c1, c2}
    Insistent = {c2}
    MaxExpiries = 1
    MaxSignings = 1
    MaxLost = 1
SPECIFICATION FairSpec
INVARIANTS
    WaitersHaveRefresh
    JarLive
    LogoutRevokes
    ExpiryIsHidden
PROPERTIES
    CallsEnd
CHECK_DEADLOCK FALSE
