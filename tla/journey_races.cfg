CONSTANTS
    Leads = {l1}
    NoLead = NoLead
    Actors = {a1, a2}
    TeamEvents <- MainEvents
    MaxInvites = 2
    MaxLog = 4
SPECIFICATION Spec
SYMMETRY ActorSymmetry
INVARIANTS TypeOK EveryRungEarned ClientsWereInvited Lockstep
PROPERTIES StaysOnEarned OnlyStaleLeavesTable
CHECK_DEADLOCK FALSE
