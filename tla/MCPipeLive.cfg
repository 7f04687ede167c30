SPECIFICATION FairSpec
CONSTANTS
    Callers = {c1, c2}
    Closers = {k1}
    Bg = Bg
    Cap = 1
    Settings <- Fates
    MaxCalls = 2
    None = None
CHECK_DEADLOCK FALSE
PROPERTIES
    EveryCallReturns
    WorkerStops
    CloseReturns
