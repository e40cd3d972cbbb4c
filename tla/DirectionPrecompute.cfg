SPECIFICATION Spec
CONSTANTS
    NumStops = 5
    NumWorkers = 2
    ResultsCapacity = 1
    BatchSize = 3
INVARIANTS
    NoSendOnClosedChannel
    EveryStopOnce
    ResultsComplete
PROPERTIES
    AllGoroutinesEnd
