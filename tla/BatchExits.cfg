SPECIFICATION Spec
CONSTANTS
    a = a
    b = b
    coin = coin
    nft = nft
    factory = factory
    stray = stray
    data = data
    Undefined = Undefined
    ZERO_ADDRESS = ZERO_ADDRESS
    Accounts <- MCAccounts
    Tokens <- MCTokens
    Pools <- MCPools
    Factories <- MCFactories
    Strays <- MCStrays
    ChainEvents <- MCEvents
    MaxEvents = 2
    MaxOrphans = 1
    MaxExits = 1
INVARIANTS
    FailuresOnlyLogged
CHECK_DEADLOCK FALSE
