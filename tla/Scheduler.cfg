SPECIFICATION FairSpec
CONSTANTS
    Period = 3
    MaxJitter = 1
    CycleLimit = 4
    HeartbeatTimeout = 4
INVARIANTS
    TypeOK
    HealthAgreesWithHeartbeat
    HealthNeverStale
PROPERTIES
    ImplementsLoop
    NoBurst
    ShutdownStops
    KeepsCollecting
CHECK_DEADLOCK FALSE
