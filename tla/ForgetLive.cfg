SPECIFICATION FairSpec
CONSTANTS
    p1 = p1
    p2 = p2
    c1 = c1
    Pages <- OnePage
    Domain = Domain
    Ingests <- OneIngest
    NoPage = NoPage
    MaxAttempts = 2
    MaxFailures = 1
    MaxCrashes = 1
    MaxLates = 0
PROPERTIES
    StrayPointsVanish
