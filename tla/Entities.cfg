SPECIFICATION Spec
CONSTANTS
    p1 = p1
    p2 = p2
    c1 = c1
    Surfaces <- Forms
    Norm <- NormOf
    LinkClose <- NoPairs
    MergeClose <- AllPairs
    Says <- TwoPages
    Clients <- OneClient
    Clocks <- OneClock
    MaxLinks = 3
    MaxMerges = 3
    MaxTroubles = 1
INVARIANTS
    MentionsKept
PROPERTIES
    UndoRestores
CHECK_DEADLOCK FALSE
