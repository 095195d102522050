SPECIFICATION JobsAndLogSpec
CONSTANTS
    Jobs <- TwoJobs
    j1 = j1
    j2 = j2
    NoJob = NoJob
    Callers <- OneCaller
    c1 = c1
    MaxAttempts = 2
    MaxDeferrals = 1
    MaxRetries = 1
    MaxStrandings = 1
    MaxStops = 1
    MaxCrashes = 2
    p1 = p1
    p2 = p2
    LoggedRuns <- ThreeRuns
    LabelPages <- TwoPages
    ScoreAsks <- SomeScores
    TraceAsks <- SomeTraces
    MaxLabels = 2
    ReplayAttempts = 2
    LogTroubles = 1
    HistoryEnd = 4
    SampleEvery = 1
    WindowSizes = {1, 2, 3}
    MaxCount = 3
    MaxRestarts = 1
SYMMETRY Symmetry
INVARIANTS
    PendingNotLost
    StopLeavesNothing
    DeadMeansExhausted
    DoneHasReport
    RiseIsAccounted
PROPERTIES
    FinishedNotRerun
    AttemptsNeverLost
    LedgerPromise
    ReportsAreTrue
CHECK_DEADLOCK FALSE
