SPECIFICATION FairSpec
CONSTANTS
    Packages = {p, q}
    Versions = {v}
    Commands <- AllCommands
    MaxInterrupts = 1
    Windows = TRUE
    None = None
    Absent = Absent
    Torn = Torn
INVARIANTS
    TreeKept
    CiExact
    PlanHonoured
PROPERTIES
    LockFollowsTree
    CommandEnds
