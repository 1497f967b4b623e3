\* Three records, five policies, two edits, stale lists.
SPECIFICATION FairSpec
CONSTANTS
    Records = {r1, r2, r3}
    None = None
    Policies <- SomePolicies
    Day = 1
    DurationLimit = 3
    MaxClock = 3
    MaxEdits = 2
INVARIANTS
    TypeOK
    CurrentPassKeepsCount
    FilterRightWhenSorted
PROPERTIES
    DeletionsJustified
    RetentionSettles
CHECK_DEADLOCK FALSE
