SPECIFICATION Spec
CONSTANTS
    Values <- MCValues
    Documents <- SampleDocuments
    Strings <- MCStrings
    MaxDocs = 2
    MaxDepth = 3
    MaxPaths = 4
    MaxArrayElements = 2
    DistinctCap = 2
    SampleSlots = 1
    MaxDistinctTracked = 100
INVARIANT
    NullRateIsFraction
CHECK_DEADLOCK FALSE
