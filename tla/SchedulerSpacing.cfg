SPECIFICATION Spec
CONSTANTS
    Period = 3
    MaxJitter = 0
    CycleLimit = 1
    HeartbeatTimeout = 2
PROPERTY
    StartsSpaced
CHECK_DEADLOCK FALSE
