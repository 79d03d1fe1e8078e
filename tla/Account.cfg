SPECIFICATION FairSpec
CONSTANTS
    Sessions = {s1}
    Terms = {t1, t2}
    Nothing = Nothing
    MaxTime = 2
    PreviewLife = 1
    BackwardClock = TRUE
    MaxGeneration = 7
    MaxPreviews = 2
    MaxSent = 2
    MaxTroubles = 2
INVARIANTS
    Registered
PROPERTIES
    NotSentTwice
    Settles
CHECK_DEADLOCK FALSE
