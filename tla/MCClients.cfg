SPECIFICATION ClientsSpec
CONSTANTS
    None = None
    Clients = {"c", "d"}
    Slots = {"s"}
    Addrs = {"n1", "n2"}
    InitAddress = {"n1"}
    MaxConns = 3
    MaxMoved = 2
    Scenarios <- ClusterScenarios
    Callers = {"x", "y"}
    Hosts = {"h1", "h2", "h3"}
    MaxLinks = 2
    MaxDos = 2
    MaxMoves = 2
    MaxFailures = 1
    Getters = {"a", "b", "c"}
    AsideClients = {"p", "q"}
    Home <- TwoAndOne
    MaxIds = 2
    AsideScenarios <- GetScenarios
INVARIANTS
    NoConnLost ServesOpenConns NoStaleValue OneLoader
PROPERTIES
    EveryCallReturns
CHECK_DEADLOCK FALSE
