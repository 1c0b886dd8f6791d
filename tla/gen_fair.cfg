CONSTANTS
    Requests = {r1}
    Jobs = {j1, j2}
    UseCelery = TRUE
    Sources = {"conversation", "questionnaire"}
    TeamRuns = FALSE
    Faults = {"worker", "child", "generate"}
    MaxFaults = 3
    MaxVersion = 1
SPECIFICATION FairSpec
INVARIANTS TypeOK CodesHaveContent RevealedOnce
  
CHECK_DEADLOCK FALSE
