SPECIFICATION Spec
CONSTANTS
    Callers = {c1}
    Closers = {k1}
    Bg = Bg
    Cap = 2
    Settings <- OnlyClosed
    MaxCalls = 1
    None = None
INVARIANTS
    CloseHasWorker
