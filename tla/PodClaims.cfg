\* One edit.
SPECIFICATION FairSpec
CONSTANTS
    None = None
    data = data
    logs = logs
    dotted = dotted
    Controllers = {"internal"}
    Specs <- SharedClaims
    Prefix <- PrefixOf
    NoLabel = {dotted}
    MaxEdits = 1
PROPERTIES
    ClaimsMounted
