\* Two operators, two incarnations; creations, edits, deletions and stops in any mix.
SPECIFICATION FairSpec
CONSTANTS
    Operators = {o1, o2}
    MaxUid = 2
    MaxDisturbances = 3
INVARIANTS
    TypeOK
    NeverForgotten
PROPERTIES
    FinalizerKept
    SettledStays
    Converges
CHECK_DEADLOCK FALSE
