SPECIFICATION Spec
CONSTANTS
    VehicleKeys = {v1, v2}
    TripIds = {t1}
    NoKey = NoKey
    NoTrip = NoTrip
    NoTime = NoTime
    StaleVehicleTimeout = 2
    NumFeeds = 1
    Subfeeds <- VehiclesOnly
    AgencyFiltered = {}
    Alerts = {}
    RefreshInterval <- OneSecond
    MaxInterval = 1
    JitterPercent = 0
    StaleFeedThreshold = 1
    FetchTimeout = 1
    Reports <- AllReports
    Times = {NoTime, 1, 2}
    MaxHeader = 2
    MaxTime = 6
INVARIANTS
    TypeOK
    SeenVehiclesStored
    TripSharedOnlyWithinOneMessage
    RetentionWindowKept
PROPERTIES
    PositionsNeverGoBack
CHECK_DEADLOCK FALSE
