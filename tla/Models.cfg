SPECIFICATION CourseSpec
CONSTANTS
    m1 = m1
    m2 = m2
    c1 = c1
    c2 = c2
    Models <- TwoModels
    First = m1
    Clients <- TwoClients
    NumPages = 2
    PageBatch = 2
    MaxAttempts = 2
    MaxStarts = 2
    MaxRetires = 1
    Filled <- OnlyNew
    MaxTroubles = 1
INVARIANTS
    OneModelActive
    SearchSeesCorpus
PROPERTIES
    BackfillEnds
CHECK_DEADLOCK FALSE
