SPECIFICATION PFairSpec
CONSTANTS
    p1 = p1
    c1 = c1
    Pages <- OnePage
    Jobs <- PageJobs
    NoJob = NoJob
    Callers <- OneCaller
    MaxAttempts = 2
    MaxDeferrals = 0
    MaxRetries = 0
    MaxStrandings = 0
    MaxStops = 1
    MaxCrashes = 1
    LateOps <- NoLateOps
    CleanupMayFail = FALSE
PROPERTIES
    EverythingSettles
CHECK_DEADLOCK FALSE
