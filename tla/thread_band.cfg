CONSTANTS
    Sockets = {s1}
    Requests = {r1}
    Leads = {l1}
    NoLead = NoLead
    Turns <- ShortWay
    MaxMessages = 3
    MaxFaults = 0
SPECIFICATION Spec
INVARIANTS TypeOK NoHoles ReviewIsAskedFor
CHECK_DEADLOCK FALSE
