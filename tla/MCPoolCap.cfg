SPECIFICATION PoolSpec
CONSTANTS
    Users = {u1, u2}
    PoolWires = {w1, w2}
    Cap = 1
    MinSize = 0
    Uses <- CancelledBlocking
    MaxUses = 4
    MaxFaults = 0
    NoWire = NoWire
INVARIANTS
    WithinCap
