SPECIFICATION FairSpec
CONSTANTS
    g1 = g1
    g2 = g2
    Gs = {g1, g2}
    Main = g1
    Outsider = Outsider
    Ctl = Ctl
    Delays = {0, 1}
    Periods = {0, 1}
    MaxNow = 2
    Budget <- SmallBudget
    None = None
CHECK_DEADLOCK FALSE
INVARIANTS CountsExact WaitIsQuiet VerdictIsReal
PROPERTIES TimeMovesWhenIdle BubbleEnds
