SPECIFICATION Spec
CONSTANTS
    Urls = {u1}
    NoUrl = NoUrl
    MaxTime = 2
    MaxClosed = 2
    BackwardClock = TRUE
    Reimport = FALSE
PROPERTIES
    DeletionReadable
CHECK_DEADLOCK FALSE
