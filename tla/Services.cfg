CONSTANTS
    c1 = c1
    c2 = c2
    c3 = c3
    Calls <- ThreeCalls
    FailureThreshold = 3
    Attempts = 3
    WatchClients = {c1}
    Intervals = {2, 3}
    WatchEnd = 4
    WatchIds = 1
    WatchRequests = 1
    WatchTroubles = 1
    StreamJobs = {j1, j2}
    Streams = {s1, s2}
    QueueSize = 2
    MaxSubscribers = 1
    Transitions = 3
    SinkRoom = 2
    BatchMax = 2
    SinkRows = 6
SPECIFICATION ServicesSpec
INVARIANTS
    HalfOpenHasProbe
    PollsApart
    ClientSeesLedger
    LossIsCounted
PROPERTIES
    ScheduleAdvances
    ClosesEnd
CHECK_DEADLOCK FALSE
