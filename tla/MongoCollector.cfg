SPECIFICATION FairSpec
CONSTANTS
    Collections = {"orders", "users", "system.views"}
    System = {"system.views"}
    Indexes = {"_id_"}
    IndexSets = {{"_id_"}}
    Sizes = {2, 9}
    MinSamples = 3
    MaxSamples = 4
    OneIn = 2
    MaxChanges = 1
    MaxFailing = 1
    None = None
INVARIANTS
    TypeOK
    TornOnlyByChange
    FailureStaysLocal
PROPERTY
    CollectReturns
CHECK_DEADLOCK FALSE
