CONSTANTS
    Sockets = {}
    Requests = {r1, r2}
    Leads = {l1}
    NoLead = NoLead
    Turns <- SmallTalk
    MaxMessages = 4
    MaxFaults = 1
SPECIFICATION Spec
SYMMETRY RequestSymmetry
INVARIANTS NoHoles AnsweredOnce
CHECK_DEADLOCK FALSE
