SPECIFICATION QueuesSpec
CONSTANTS
    Callers = {c1, c2, c3}
    Size = 2
    Wrap = 4
    MultiLens = {2}
    BufCap = 6
    MaxCalls = 5
    MaxPushes = 1
    None = None
INVARIANTS
    RepliesMatchCommands
    ResultGoesToItsCaller
    NoLostWakeup
    SendsNeverBlock
PROPERTIES
    EveryCallReturns
    QueuesImplementCallQueue
CHECK_DEADLOCK FALSE
