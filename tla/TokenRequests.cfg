SPECIFICATION LiveSpec
CONSTANTS
    ZERO_ADDRESS = "zero"
    first = first
    second = second
    Requests <- MCRequests
    Contracts <- MCContracts
    Dtos <- MCDtos
    RetriesMax = 1
INVARIANTS
    TypeOK
    OnlyFailuresMislead
    MethodOnContract
    DoesWhatWasAsked
    InterfaceSuffices
    AnswersTruthful
PROPERTIES
    AnswerNears
    AllAnswered
CHECK_DEADLOCK FALSE
