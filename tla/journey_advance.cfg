CONSTANTS
    Leads = {l1}
    NoLead = NoLead
    Actors = {a1, a2}
    TeamEvents <- ClimbEvents
    MaxInvites = 1
    MaxLog = 8
SPECIFICATION AdvanceSpec
SYMMETRY ActorSymmetry
INVARIANTS LogTailIsState ValueFirst ContractEarned
PROPERTIES ClimbsFromEarned
CHECK_DEADLOCK FALSE
