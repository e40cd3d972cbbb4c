SPECIFICATION Spec
CONSTANTS
    VehicleKeys = {v1}
    TripIds = {t1}
    NoKey = NoKey
    NoTrip = NoTrip
    NoTime = NoTime
    StaleVehicleTimeout = 3
    NumFeeds = 2
    Subfeeds <- VehiclesThenAll
    AgencyFiltered = {2}
    Alerts = {a1}
    RefreshInterval <- TwoAndThreeSeconds
    MaxInterval = 2
    JitterPercent = 50
    StaleFeedThreshold = 2
    FetchTimeout = 1
    Reports <- SomeReports
    Times = {1}
    MaxHeader = 1
    MaxTime = 7
INVARIANTS
    PublishedIsCurrent
    TripLookupFindsLatestReport
    ClearedFeedIsEmpty
    OutageBounded
CHECK_DEADLOCK FALSE
