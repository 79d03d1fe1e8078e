SPECIFICATION Spec
CONSTANTS
    Certificates = {c1}
    Life <- MCLife
    Windows <- MCWindows
    Retries = {1, 5}
    Minute = 1
    CheckDay = 2
    ErrorDelay = 2
    Short = 4
    Spread = 3
    MaxFailures = 2
    MaxTime = 5
    MaxSteps = 1
    MaxProviderWait = 4
    LeaseTime = 2
INVARIANTS
    TimingSaved
PROPERTIES
    CallsSpaced
    NeverPostponed
CHECK_DEADLOCK FALSE
