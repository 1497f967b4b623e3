\* Limits of four and five days where a duration holds four and a half.
SPECIFICATION Spec
CONSTANTS
    Records = {r1, r2}
    None = None
    Policies <- LongPolicies
    Day = 2
    DurationLimit = 9
    MaxClock = 4
    MaxEdits = 1
PROPERTIES
    AgeKeepsDays
CHECK_DEADLOCK FALSE
