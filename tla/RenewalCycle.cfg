SPECIFICATION Spec
CONSTANTS
    Urls = {u1, u2}
    NoUrl = NoUrl
    MaxTime = 2
    MaxClosed = 2
    BackwardClock = TRUE
    Reimport = TRUE
SYMMETRY Symmetry
INVARIANTS
    Custody
    SingleAuthority
    IntentKept
PROPERTIES
    StaysReadable
    LedgerKept
    FinalizeUnderIntent
    DeadlineNarrows
    ImplementsAuthority
CHECK_DEADLOCK FALSE
