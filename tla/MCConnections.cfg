SPECIFICATION ConnectionsSpec
CONSTANTS
    Callers = {c1, c2, c3}
    Wires = {w1, w2}
    MaxCalls = 3
    Users = {u1, u2, u3}
    Cap = 1
    MinSize = 0
    MaxUses = 3
    MaxFaults = 1
    None = None
    PoolWires = {w1, w2}
    Uses <- BlockingOrStream
    NoWire = NoWire
INVARIANTS
    SingleConnection
    NoOrphan
    WithinCap
    WireHasOneOwner
    CloseLeavesNothingOpen
PROPERTIES
    EveryWaitEnds
CHECK_DEADLOCK FALSE
