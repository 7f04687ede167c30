SPECIFICATION PipeTimersSpec
CONSTANTS
    Callers = {c1, c2}
    Closers = {k1}
    Bg = Bg
    Cap = 2
    Settings <- SyncStart
    MaxCalls = 2
    Users = {"u", "v"}
    Callbacks = {"f", "g"}
    Stoppers = {"close", "worker"}
    MaxFires = 2
    MaxUses = 2
    None = None
SYMMETRY CallerSymmetry
CHECK_DEADLOCK FALSE
INVARIANTS
    SyncIsAlone
    NoCallLeftBehind
    CloseWaitsForCalls
    BlockSignalExact
    NoTimerOutlivesPipe
