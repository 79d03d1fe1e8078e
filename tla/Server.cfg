SPECIFICATION FairSpec
CONSTANTS
    Nobody = Nobody
    Requests = {r}
    Sessions = {s}
    MaxSessions = 1
    MaxRevision = 2
    MaxGeneration = 2
    MaxCalls = 2
INVARIANTS
    TypeOK
    WorkersOrderly
    SessionsRespected
PROPERTIES
    WorksAlone
    StopsInTheEnd
    SlotsComeFree
CHECK_DEADLOCK FALSE
