SPECIFICATION Spec
CONSTANTS
    Stops = {s1}
    MaxSources = 2
    h1 = h1
    h2 = h2
    HashOf <- TwoFiles
    MaxCrashes = 1
    NoFeed = NoFeed
    Nothing = Nothing
    Calls = {c1, c2}
    NumShapes = 1
INVARIANTS
    CacheServesCurrentFeed
    AnswersNotOlderThanGeneration
    NoRecomputation
PROPERTY
    CallsAnswered
