SPECIFICATION FairSpec
CONSTANTS
    g1 = g1
    g2 = g2
    g3 = g3
    Gs = {g1, g2, g3}
    None = None
    Half = 4
    Start = 7
    Programs <- SmallPrograms
CHECK_DEADLOCK FALSE
INVARIANTS Exclusion WaitersExact NoSleepOnToken TurnsKept
PROPERTY AllFinish
