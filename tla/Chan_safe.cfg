SPECIFICATION Spec
CONSTANTS
    g1 = g1
    g2 = g2
    g3 = g3
    Goroutines = {g1, g2, g3}
    Chans = {1, 2}
    NilChan = NilChan
    Cap <- TwoCap
    Menus <- SafeMenus
    None = None
CHECK_DEADLOCK FALSE
INVARIANTS CloseNotMissed RecvReadyExact SignalLifetime NoMissedPartner
PROPERTY ImplementsChannelSpec
