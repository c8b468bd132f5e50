SPECIFICATION LiveSpec
CONSTANTS
    a = a
    b = b
    coin = coin
    nft = nft
    factory = factory
    stray = stray
    data = data
    Undefined = Undefined
    ZERO_ADDRESS = ZERO_ADDRESS
    Accounts <- MCAccounts
    Tokens <- MCTokens
    Pools <- MCPools
    Factories <- MCFactories
    Strays <- MCStrays
    ChainEvents <- MCEvents
    MaxEvents = 3
    MaxOrphans = 1
    MaxExits = 1
INVARIANTS
    TypeOK
    LedgerFollowed
    AnswerAwaited
PROPERTIES
    ReaderFollows
    PromisesAdvance
    LoneFailureContained
    TaskEnds
CHECK_DEADLOCK FALSE
