SPECIFICATION Spec
CONSTANTS
    a1 = a1
    a2 = a2
    k1 = k1
    d1 = d1
    w1 = w1
    Transfer = Transfer
    Approval = Approval
    TokenPoolCreation = TokenPoolCreation
    Activations <- MCActivations
    Creations <- MCCreations
    Deactivations <- MCDeactivations
    Connections <- MCConnections
    PoolEvents <- MCPoolEvents
    FactoryEvents <- MCFactoryEvents
    MaxRequests = 3
    MaxFailures = 1
    MaxCrashes = 1
SYMMETRY MCSymmetry
INVARIANTS
    RetriesNeverDuplicate
    StreamsKept
PROPERTIES
    ActivationComplete
    DeactivationComplete
CHECK_DEADLOCK FALSE
