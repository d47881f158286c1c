SPECIFICATION FairPullSpec
CONSTANTS
    g1 = g1
    g2 = g2
    g3 = g3
    Goroutines = {g1, g2, g3}
    Chans = {1, 2, 3, 4, 5}
    NilChan = NilChan
    Cap <- PullCap
    Menus <- PullMenus
    None = None
    Consumer = g1
    Producer = g2
    resume = 1
    values = 3
    stopCh = 4
    doneCh = 5
    PullMenu <- Pulls
    MaxCalls = 3
    MaxYields = 2
CHECK_DEADLOCK FALSE
INVARIANTS CoroutineTurns EndIsFinal
PROPERTIES OperationsEnd PullReturns
