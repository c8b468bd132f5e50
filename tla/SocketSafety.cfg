SPECIFICATION LiveSpec
CONSTANTS
    MaxConnections = 3
    MaxAbandoned = 2
INVARIANTS
    TypeOK
    ReconnectScheduledOnce
    Watched
    PingLoopsBounded
    FirstConnectionTimesOutOnlySilence
PROPERTIES
    ImplementsLifecycle
    HalfOpenDetected
    Reconnects
CHECK_DEADLOCK FALSE
