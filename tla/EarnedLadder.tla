------------------------------ MODULE EarnedLadder ------------------------------
(***************************************************************************)
(* What the journey promises about a lead, with no requests, instances or  *)
(* audit rows: the state it is `at' and the states it has `earned', over   *)
(* any transition table.  A lead is born at the state its creator gives    *)
(* it; that one comes free, every other has to be earned.  Two             *)
(* specifications, for the two sets of writers:                            *)
(*   ClimbSpec   every step is an edge of the table out of a state the     *)
(*               lead has earned (creators, and writers that advance());   *)
(*   Spec        ... or puts it back at a state it has earned (the lead    *)
(*               editor and a resubmitted questionnaire write the column). *)
(***************************************************************************)
CONSTANTS
    Leads,
    Unborn,  \* where a lead is that does not exist yet
    Starts,  \* the states a lead may begin at
    Edges    \* the table: triples <<from, event, to>>

VARIABLES at, earned

vars == <<at, earned>>

Init ==
    /\ at = [l \in Leads |-> Unborn]
    /\ earned = [l \in Leads |-> {}]

\* A creator inserts the lead.
Create(l) ==
    /\ at[l] = Unborn
    /\ \E s \in Starts :
          /\ at' = [at EXCEPT ![l] = s]
          /\ earned' = [earned EXCEPT ![l] = {s}]

\* Take an edge out of any state the lead has earned.
Climb(l) ==
    \E edge \in Edges :
        /\ edge[1] \in earned[l]
        /\ at' = [at EXCEPT ![l] = edge[3]]
        /\ earned' = [earned EXCEPT ![l] = @ \cup {edge[3]}]

Restore(l) ==
    /\ \E s \in earned[l] : at' = [at EXCEPT ![l] = s]
    /\ UNCHANGED earned

ClimbNext == \E l \in Leads : Create(l) \/ Climb(l)

Next == ClimbNext \/ \E l \in Leads : Restore(l)

ClimbSpec == Init /\ [][ClimbNext]_vars
Spec == Init /\ [][Next]_vars

================================================================================
