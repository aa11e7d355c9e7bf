SPECIFICATION FetchSpec
CONSTANTS
    Fetchers = {f1, f2}
    Registries = {g1, g2}
    Attempts = 3
    MaxRevision = 2
    FetchFaults = 0
    NoPackument = NoPackument
    TornPackument = TornPackument
CHECK_DEADLOCK FALSE
INVARIANTS
    RightRegistry
