\* Two answers with a button each, two presses, and everything may fail.
CONSTANTS
    first = first
    second = second
    t1 = t1
    t2 = t2
    None = None
    Buttons = {first, second}
    TextOf <- TwoButtons
    N = 2
    MaxPresses = 2
    MaxAnswers = 2
    Failures = {"audio", "stream"}
SPECIFICATION FairSpec
INVARIANTS
    OneVoice
    StoppedStaysSilent
    SpokenInOrder
PROPERTIES
    PlaybackEnds
CHECK_DEADLOCK FALSE
