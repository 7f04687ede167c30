SPECIFICATION SentinelSpec
CONSTANTS
    Nodes = {"n1", "n2"}
    Sentinels = {"s1"}
    Watchers = {"w1", "w2"}
    Retriers = {"r1"}
    Switchers = {"x1", "x2", "x3", "x4"}
    MaxConns = 3
    Buffer = 2
    Scenarios <- OneFailover
    None = None
INVARIANTS
    AlwaysServesOpen
CHECK_DEADLOCK FALSE
