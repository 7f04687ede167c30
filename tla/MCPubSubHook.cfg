SPECIFICATION FairSpec
CONSTANTS
    r1 = r1
    r2 = r2
    h1 = h1
    h2 = h2
    a = a
    b = b
    Receivers = {r1, r2}
    Setters = {h1, h2}
    Channels = {a, b}
    Cap = 1
    Settings <- OnlyWaiting
    None = None
PROPERTIES
    EveryReceiveReturns
CHECK_DEADLOCK FALSE
