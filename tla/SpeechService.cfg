\* One text asked for by three requests, a cap on keys that one address too many exceeds.
CONSTANTS
    r1 = r1
    r2 = r2
    r3 = r3
    r4 = r4
    i1 = i1
    i2 = i2
    u1 = u1
    u2 = u2
    t1 = t1
    t2 = t2
    Requests = {r1, r2, r3, r4}
    Piecewise = {r1, r2, r3}
    Of <- Callers
    Content <- TwoTexts
    MaxChars = 6
    FirstChars = 3
    MinFragment = 4
    Sizes <- Varying
    MaxEntries = 1
    MaxBytes = 4
    RateLimit = 2
    MinIdentityLimit = 2
    Window = 0
    MaxKeys = 3
    MaxTime = 1
    MaxMoves = 1
SYMMETRY Twins
SPECIFICATION SpeechSpec
INVARIANTS
    AccountExact
    PlaysWhole
    RateKept
CHECK_DEADLOCK FALSE
