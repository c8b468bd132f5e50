SPECIFICATION Spec
CONSTANTS
    c1 = c1
    c2 = c2
    n1 = n1
    n2 = n2
    Clients <- MCClients
    Namespaces <- MCOneNamespace
    NoNamespace = NoNamespace
    Leavers <- MCClients
    AcksInOrder = FALSE
    LookupFails = TRUE
    MaxBatch = 2
    MaxSockets = 3
    MaxMessages = 3
    MaxQueue = 2
    MaxCrashes = 1
SYMMETRY MCSymmetry
INVARIANTS
    TypeOK
    NoBatchSkipped
    HandedOutInOrder
    RegistryConsistent
    HolderIsClient
PROPERTIES
    OneBatchAtATime
    LeakedOnlyByRaces
    ForgottenOnlyBySlips
    ImplementsAtLeastOnce
CHECK_DEADLOCK FALSE
