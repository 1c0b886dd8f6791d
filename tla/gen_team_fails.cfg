CONSTANTS
    Requests = {r1}
    Jobs = {j1, j2}
    UseCelery = TRUE
    Sources = {"conversation"}
    TeamRuns = TRUE
    Faults = {"generate"}
    MaxFaults = 1
    MaxVersion = 2
SPECIFICATION FairSpec
PROPERTIES PendingResolves
CHECK_DEADLOCK FALSE
