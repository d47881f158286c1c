CONSTANTS
    Threads = {t1, t2}
    MaxStops = 2
    MaxWaits = 2
    None = None
SPECIFICATION FairSpec
INVARIANTS CountsExact CollectAlone
PROPERTIES SuspendedReturns DrainEnds YieldReturns
