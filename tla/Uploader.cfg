SPECIFICATION FairSpec
CONSTANTS
    MaxCalls = 2
    MaxRetries = 2
    InitialDelay = 1
    RequestTimeout = 1
    TransitLimit = 1
    Window = 1
    Statuses = {202, 403, 429, 500}
    RetryAfters = {2}
    NoSeconds = NoSeconds
INVARIANTS
    TypeOK
    SignaturesStayFresh
    DuplicatesOnlyInDoubt
    RefusalIsFinal
    ReportsLastFailure
    UploadBounded
PROPERTIES
    ImplementsDelivery
    EveryUploadReturns
CHECK_DEADLOCK FALSE
