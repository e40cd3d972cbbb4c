SPECIFICATION ETagSpec
CONSTANTS
    Stops = {s1, s2}
    MaxSources = 2
    h1 = h1
    h2 = h2
    HashOf <- TwoFiles
    MaxCrashes = 1
    NoFeed = NoFeed
    Nothing = Nothing
    Clients = {c1}
    NumReads = 2
    NoTag = NoTag
INVARIANTS
    BoundsNotOlderThanCache
    CopyUnderCurrentTagIsCurrent
PROPERTIES
    BoundsCatchUp
    CopiesCatchUp
