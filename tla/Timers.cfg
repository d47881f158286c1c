SPECIFICATION FairSpec
CONSTANTS
    t1 = t1
    t2 = t2
    t3 = t3
    Timers = {t1, t2, t3}
    Whens = {0, 2}
    Periods = {0, 2}
    MaxWhen = 3
    MaxNow = 2
    MaxWait = 1
    MaxOps = 3
    None = None
CHECK_DEADLOCK FALSE
INVARIANTS SleepCoversHead Accounted PreventedNeverRuns OnGrid HeapCorrect
PROPERTIES DueRuns
