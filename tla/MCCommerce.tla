------------------------------- MODULE MCCommerce -------------------------------
(***************************************************************************)
(* An instance of Commerce for TLC.  Orders only meet through their trial, *)
(* their referral and their owner, so each behaviour opens the orders of   *)
(* one scene: a trial with two years competing to follow it; three legacy  *)
(* orders of two buyers who refer each other; an organization's seats.     *)
(***************************************************************************)
EXTENDS Commerce

CONSTANTS ann, bob, trial, year, rival, first, second, again, team

VARIABLE scene

MCOrders  == {trial, year, rival, first, second, again, team}
MCOwner   == [o \in MCOrders |-> IF o \in {second, team} THEN bob ELSE ann]
MCPurpose == [o \in MCOrders |-> CASE o = trial           -> "trial"
                                   [] o \in {year, rival} -> "annual"
                                   [] OTHER               -> "legacy"]
MCTrial   == [o \in MCOrders |-> IF o \in {year, rival} THEN trial ELSE None]
MCLimit   == [o \in MCOrders |-> IF o = team THEN 2 ELSE 1]

Joining ==
    \/ \E o \in {trial, year, rival} : Buying(o)
    \/ \E o \in {trial, year} : Pass(o) \/ Closing(o)
    \/ Renewing(year)

Branching == \E o \in {first, second, again} :
    \/ Buying(o) \/ Referring(o) \/ Pass(o)
    \/ RequestRefund(o, 0) \/ ApproveRefund(o, 0) \/ ReviewRevoke(o)

Seating == Pass(team) \/ Buying(team) \/ Using(team) \/ Closing(team)

MCInit == Init /\ scene \in {"join", "branch", "seats"}

MCNext == /\ \/ scene = "join" /\ Joining
             \/ scene = "branch" /\ Branching
             \/ scene = "seats" /\ Seating
          /\ UNCHANGED scene

MCSpec == /\ MCInit /\ [][MCNext]_<<vars, scene>>
          /\ \A o \in Years : WF_<<vars, scene>>(SyncCancellation(o) /\ UNCHANGED scene)
=================================================================================
