SPECIFICATION HeartbeatLiveSpec
CONSTANTS
    c1 = c1
    c2 = c2
    n1 = n1
    n2 = n2
    Clients <- MCClients
    Namespaces <- MCOneNamespace
    NoNamespace = NoNamespace
    Leavers <- MCLeavers
    Prompt <- MCPrompt
    AcksInOrder = TRUE
    LookupFails = FALSE
    MaxBatch = 1
    MaxSockets = 2
    MaxMessages = 3
    MaxQueue = 1
    MaxCrashes = 0
INVARIANTS
    VanishedWithinTwoTicks
PROPERTIES
    OnlyUnansweredTerminated
    VanishedDisconnected
    AllBatchesCompleted
CHECK_DEADLOCK FALSE
