CONSTANTS
    Sockets = {s1}
    Requests = {r1}
    Leads = {l1}
    NoLead = NoLead
    Turns <- SmallTalk
    MaxMessages = 2
    MaxFaults = 0
SPECIFICATION Spec
INVARIANTS SeqsAreUnique
CHECK_DEADLOCK FALSE
