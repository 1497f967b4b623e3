\* Convergence after an edit, a re-creation and third-party deletions.
SPECIFICATION FairSpec
CONSTANTS
    Records = {}
    MaxBackupCount = 0
    ThirdParty = TRUE
    MaxUid = 2
    MaxGen = 2
    MaxRuns = 1
    MaxDisruptions = 1
PROPERTIES
    Converges
CHECK_DEADLOCK FALSE
