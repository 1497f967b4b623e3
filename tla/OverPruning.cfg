\* One incarnation, two records, one to keep.
SPECIFICATION Spec
CONSTANTS
    Records = {r1, r2}
    MaxBackupCount = 1
    ThirdParty = FALSE
    MaxUid = 1
    MaxGen = 1
    MaxRuns = 1
    MaxDisruptions = 0
PROPERTIES
    RetentionKeepsCount
CHECK_DEADLOCK FALSE
