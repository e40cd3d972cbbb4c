SPECIFICATION Spec
CONSTANTS
    Null = Null
    NoText = NoText
    Horizon = 7
    Day = 144
    RunningLate = 3
    RunningEarly = 1
    GoodMatch = 2
    EarlyExit = 1
    DeviationLimit = 6
    StaleAge = 1
    OffRoute = 1
    Feeds <- MCFeeds
    Zone <- MCZone
    Realtimes <- MCRealtimes
    Failures <- MCFailures
    MaxRows = 2
    FirstTime = 282
    LastTime = 296
INVARIANTS
    MemoIsOwnSnapshot
    BlockDrivesForward
    ResolvedDayRuns
    DeviationOfRunningShift
    StaleVehicleDoesNotMoveTrip
