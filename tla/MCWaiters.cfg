SPECIFICATION WaitersSpec
CONSTANTS
    None = None
    Nodes = {"n1", "n2"}
    Sentinels = {"s1", "s2"}
    Watchers = {"w1", "w2"}
    Retriers = {"r1"}
    Switchers = {"x1", "x2", "x3"}
    MaxConns = 3
    Buffer = 2
    Scenarios <- SentinelScenarios
    Nil = Nil
    Callers = {"a", "b", "c"}
    Lockers = {"l1", "l2"}
    Options <- LockOptions
INVARIANTS
    NeverServesClosed CloseLeavesNothing
    MutualExclusion GateExact
PROPERTIES
    HealsItself CloseEndsAll LostLockIsCancelled FreeLockIsTaken
CHECK_DEADLOCK FALSE
