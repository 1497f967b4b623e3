\* Two runs, one disruption.
SPECIFICATION FairSpec
CONSTANTS
    HasMaxAge = TRUE
    MaxJobs = 2
    MaxDisruptions = 1
INVARIANTS
    TypeOK
    CompletedHasSuccess
    PollingGoesOn
PROPERTIES
    TerminalIsFinal
    FollowsJobs
CHECK_DEADLOCK FALSE
