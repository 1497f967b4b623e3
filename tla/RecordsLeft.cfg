\* One incarnation, one record, one failing call.
SPECIFICATION Spec
CONSTANTS
    Records = {r1, r2}
    MaxBackupCount = 2
    ThirdParty = FALSE
    MaxUid = 1
    MaxGen = 1
    MaxRuns = 1
    MaxDisruptions = 1
PROPERTIES
    RecordsGoWithTask
CHECK_DEADLOCK FALSE
