SPECIFICATION Spec
CONSTANTS
    Null = Null
    NoText = NoText
    Horizon = 7
    Day = 144
    RunningLate = 3
    RunningEarly = 1
    GoodMatch = 2
    EarlyExit = 1
    DeviationLimit = 6
    StaleAge = 1
    OffRoute = 1
    Zones <- MCZones
    Suffixed <- MCSuffixed
    Feeds <- MCFeeds
    Routes <- MCRoutes
    Areas <- MCAreas
    Realtimes <- MCRealtimes
    Failures <- MCFailures
    Times <- MCTimes
INVARIANTS
    ActiveBlocksFound
    FoundTripsInService
    HandlersAgree
    ReferencesResolve
    TripsAtStopsFound
