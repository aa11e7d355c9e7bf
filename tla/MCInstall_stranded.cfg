SPECIFICATION Spec
CONSTANTS
    Packages = {p, q}
    Versions = {v}
    Commands <- WindowsCommands
    MaxInterrupts = 1
    Windows = TRUE
    None = None
    Absent = Absent
    Torn = Torn
INVARIANTS
    TreeRecovered
