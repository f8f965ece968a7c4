SPECIFICATION Spec
CONSTANTS
    Values <- MCValues
    Documents <- SampleDocuments
    Strings <- MCStrings
    MaxDocs = 4
    MaxDepth = 3
    MaxPaths = 4
    MaxArrayElements = 2
    DistinctCap = 2
    SampleSlots = 1
    MaxDistinctTracked = 3
INVARIANTS
    TypeOK
    PresenceWithinSample
    PositionsDense
    MemoryBounded
    CountsMatchSample
    ColumnsAreHonest
CHECK_DEADLOCK FALSE
