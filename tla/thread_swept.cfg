CONSTANTS
    Sockets = {s1}
    Requests = {r1}
    Leads = {l1}
    NoLead = NoLead
    Turns <- SmallTalk
    MaxMessages = 2
    MaxFaults = 0
SPECIFICATION Spec
PROPERTIES ClaimedIsKept
CHECK_DEADLOCK FALSE
