SPECIFICATION PushesSpec
CONSTANTS
    r1 = r1
    r2 = r2
    h1 = h1
    h2 = h2
    a = a
    b = b
    Receivers = {r1, r2}
    Setters = {h1, h2}
    Channels = {a, b}
    Cap = 1
    Settings <- AllCircumstances
    Callers = {c1, c2}
    Slots = {s1, s2}
    MaxFilled = 1
    MaxCalls = 3
    MaxWrites = 2
    Pending = Pending
    None = None
    KeyOf <- OneKey
    Nil = Nil
INVARIANTS
    NoPanic
    NoMessageMissed
    NilMeansUnsubscribed
    Coherent
PROPERTIES
    MonotonicReads
    EveryCallReturns
    HookChannelsClose
