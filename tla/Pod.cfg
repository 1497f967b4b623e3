\* Two edits, stale reads, pods the server refuses, both controllers.
SPECIFICATION FairSpec
CONSTANTS
    None = None
    data = data
    logs = logs
    dotted = dotted
    Controllers = {"internal", "older"}
    Specs <- Written
    Prefix <- PrefixOf
    NoLabel = {dotted}
    MaxEdits = 2
INVARIANTS
    TypeOK
    MountsBacked
    WrittenExactly
PROPERTIES
    DeclaredPodRuns
    BackupsGoOn
