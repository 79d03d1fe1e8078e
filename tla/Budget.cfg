SPECIFICATION BudgetSpec
CONSTANTS
    Rows = {r1}
    Certificates = {c1}
    MaxGeneration = 25
    MaxHistory = 16
    MinArchive = 6
    MaxArchives = 1
    MaxRecords = 2
    MaxClosed = 2
    MinClosed = 1
    MaxClosedPages = 1
    MaxReserve = 10
    MaxAttempts = 2
INVARIANTS
    OwedFits
    ArchiveHelps
    OfferedStarts
CHECK_DEADLOCK FALSE
