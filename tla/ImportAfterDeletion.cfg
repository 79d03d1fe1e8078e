SPECIFICATION Spec
CONSTANTS
    Urls = {u1}
    NoUrl = NoUrl
    MaxTime = 2
    MaxClosed = 2
    BackwardClock = FALSE
    Reimport = TRUE
PROPERTIES
    ImportReadable
CHECK_DEADLOCK FALSE
