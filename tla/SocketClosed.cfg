SPECIFICATION Spec
CONSTANTS
    MaxConnections = 3
    MaxAbandoned = 2
INVARIANTS
    ClosedForGood
CHECK_DEADLOCK FALSE
