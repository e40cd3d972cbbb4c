SPECIFICATION Spec
CONSTANTS
    Feeds = {f1, f2}
    Requests = {r1, r2}
    LocalFile = FALSE
    NumRetries = 2
PROPERTIES
    DatabaseLeased
    StopsWhenCancelled
