\* Three Jobs, two edits, one lost CronJob.
SPECIFICATION FairSpec
CONSTANTS
    MaxClock = 3
    MaxRuns = 3
    MaxEdits = 2
    MaxLosses = 1
INVARIANTS
    TypeOK
PROPERTIES
    ScheduleNeverForgotten
    StatusCatchesUp
