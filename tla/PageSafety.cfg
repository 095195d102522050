SPECIFICATION PSpec
CONSTANTS
    p1 = p1
    c1 = c1
    Pages <- OnePage
    Jobs <- PageJobs
    NoJob = NoJob
    Callers <- OneCaller
    MaxAttempts = 2
    MaxDeferrals = 1
    MaxRetries = 1
    MaxStrandings = 1
    MaxStops = 0
    MaxCrashes = 1
    LateOps <- AllLateOps
    CleanupMayFail = TRUE
INVARIANTS
    IndexedIsRetrievable
    EntityJobFollows
    StatusesAgree
CHECK_DEADLOCK FALSE
