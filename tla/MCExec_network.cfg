SPECIFICATION ExecSpec
CONSTANTS
    x1 = x1
    x2 = x2
    Runners = {x1, x2}
    Scenarios <- DenyingScenarios
    NoFile = NoFile
    TornFile = TornFile
    AgesInHours = {30, 50}
    ExecCrashes = 0
CHECK_DEADLOCK FALSE
INVARIANTS
    NetworkDenied
