SPECIFICATION Spec
CONSTANTS
    Certs = {1, 2}
    Keys = {1, 2}
    Pairs <- MCPairs
    Authorities = {2}
    Owners = {o1}
    Locations = {l1, l2}
    Nothing = Nothing
    MaxRecords = 2
    MaxLocations = 2
    MaxGeneration = 4
    MaxUncertain = 1
INVARIANTS
    ImageSound
PROPERTIES
    ChangesWhatItShows
    RecordsKept
CHECK_DEADLOCK FALSE
