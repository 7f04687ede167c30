SPECIFICATION Spec
CONSTANTS
    Callers = {c1}
    Wires = {w1, w2}
    MaxCalls = 2
    None = None
INVARIANTS
    RejectedAfterClose
