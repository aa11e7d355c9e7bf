SPECIFICATION Spec
CONSTANTS
    Packages = {p, q}
    Versions = {v}
    Commands <- ArboristCommands
    MaxInterrupts = 1
    Windows = FALSE
    None = None
    Absent = Absent
    Torn = Torn
INVARIANTS
    PlanExact
