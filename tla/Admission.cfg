\* Three writes of 21 specifications, validation put in force at any time.
SPECIFICATION FairSpec
CONSTANTS
    None = None
    Specs <- MCSpecs
    CronSchedules = {"daily", "hourly"}
    MaxWrites = 3
INVARIANTS
    TypeOK
    CheckedIsUsable
PROPERTIES
    EditsSurvive
    DeletionCompletes
CHECK_DEADLOCK FALSE
