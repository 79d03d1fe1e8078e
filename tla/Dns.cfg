SPECIFICATION Spec
CONSTANTS
    Rows = {r1}
    MaxAttempts = 2
    MaxProviderWait = 2
    Week = 2
    Day = 1
    Unit = 1
    MaxJitter = 0
    MaxTime = 5
    MaxMaintenance = 1
    OrderLife = 2
    MaxIds = 2
    MaxConfigs = 2
    Waits = {2}
INVARIANTS
    PlanKept
    Mutations
    OutcomeSaveable
PROPERTIES
    WaitRespected
CHECK_DEADLOCK FALSE
