\* Two incarnations of the task, an edit, a Job and its record, one disruption.
SPECIFICATION Spec
CONSTANTS
    Records = {r1}
    MaxBackupCount = 0
    ThirdParty = FALSE
    MaxUid = 2
    MaxGen = 2
    MaxRuns = 1
    MaxDisruptions = 1
INVARIANTS
    TypeOK
    OwnershipInv
    CronJobHasLiveOwner
    ObservedGenerationApplied
    NeverForgotten
PROPERTIES
    ImplementsPromise
    FinalizationSparesLiveTask
    SettledStays
    PassEnds
CHECK_DEADLOCK FALSE
