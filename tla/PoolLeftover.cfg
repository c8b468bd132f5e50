SPECIFICATION Spec
CONSTANTS
    a1 = a1
    a2 = a2
    k1 = k1
    d1 = d1
    w1 = w1
    Transfer = Transfer
    Approval = Approval
    TokenPoolCreation = TokenPoolCreation
    Activations <- MCOneActivation
    Creations <- MCNone
    Deactivations <- MCDeactivations
    Connections <- MCNone
    PoolEvents <- MCPoolEvents
    FactoryEvents <- MCFactoryEvents
    MaxRequests = 2
    MaxFailures = 1
    MaxCrashes = 0
PROPERTIES
    DeactivatedStaysSilent
CHECK_DEADLOCK FALSE
