SPECIFICATION Spec
CONSTANTS
    c1 = c1
    c2 = c2
    n1 = n1
    n2 = n2
    Clients <- MCClients
    Namespaces <- MCOneNamespace
    NoNamespace = NoNamespace
    Leavers <- MCClients
    AcksInOrder = FALSE
    LookupFails = FALSE
    MaxBatch = 1
    MaxSockets = 2
    MaxMessages = 2
    MaxQueue = 2
    MaxCrashes = 0
INVARIANTS
    NoSocketWithoutClients
CHECK_DEADLOCK FALSE
