SPECIFICATION FairSpec
CONSTANTS
    Rows <- MCRows
    MaxTries = 2
    ActionLimit = 20
    PollLimit = 2
    MaxRoom = 2
    MaxTroubles = 2
INVARIANTS
    JobState
    ProposalAccepted
PROPERTIES
    JobSteps
    Completes
CHECK_DEADLOCK FALSE
