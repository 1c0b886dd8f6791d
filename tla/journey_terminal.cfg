CONSTANTS
    Leads = {l1}
    NoLead = NoLead
    Actors = {a1, a2}
    TeamEvents <- MainEvents
    MaxInvites = 1
    MaxLog = 9
SPECIFICATION AdvanceSpec
PROPERTIES CustomerSuccessTerminal
CHECK_DEADLOCK FALSE
