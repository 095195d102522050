CONSTANTS
    PageOf <- ChunkPage
    RrfK = 1
    RollupM = 2
    Candidates = 3
    Models <- ThreeModels
    First = "m2"
    Nearness <- ModelNearness
    Words <- ChunkWords
    Relevance <- ChunkRelevance
    Kinship <- PageKinship
    Membership <- PageMembership
    Waiting = {2}
    DomainOf <- PageDomain
    Age <- PageAge
    SeenAt <- PageSeenAt
    Second = 2
    About <- PageAbout
    DomainLimit = 2
    MaxEntityPages = 1
    Requests <- AllRequests
    Upheavals <- AllUpheavals
    Origins = {"video", "audio", "episode", "article"}
    Transcripts <- ShortTranscripts
    ChapterLists <- ShortChapters
    ChunkChars = 3
    ChunkOverlap = 1
    Runs = 2
    Batches <- SomeBatches
    Targets <- SomeTargets
    Listings <- SomeListings
    Posters = {"c1", "c2"}
    Asks = 3
    TrackingParams = {"utm", "si"}
    VideoIds = {"id1", "id2"}
    Handles = {"@h"}
    AudioNames = {"x.mp3"}
    NameOrder <- SomeNames
SPECIFICATION Spec
INVARIANTS
    SearchAnswers
    SlicesTile
    CompareIsolates
    LiftIsExact
    SectionsTile
    TempsAccounted
    RulesHold
    UrlsAgree
CHECK_DEADLOCK FALSE
