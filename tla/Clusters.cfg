CONSTANTS
    NPages = 3
    MinPages = 2
    MinNew = 1
    MaxAttempts = 1
    MaxJobs = 2
    MaxTroubles = 1
SPECIFICATION FairSpec
INVARIANTS
    OnePlace
    LineageAccounts
PROPERTIES
    StableIds
    NewPagesClustered
CHECK_DEADLOCK FALSE
