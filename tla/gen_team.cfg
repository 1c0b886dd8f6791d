CONSTANTS
    Requests = {r1, r2}
    Jobs = {j1, j2}
    UseCelery = TRUE
    Sources = {"conversation"}
    TeamRuns = TRUE
    Faults = {"worker", "child", "generate", "broker", "request", "duplicate"}
    MaxFaults = 3
    MaxVersion = 2
SPECIFICATION Spec
SYMMETRY RunSymmetry
INVARIANTS CodesHaveContent
CHECK_DEADLOCK FALSE
