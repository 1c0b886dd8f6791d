-------------------------------- MODULE Approvals --------------------------------
(***************************************************************************)
(* The approval queue (apps/governance): an outbound message above the     *)
(* automatic threshold is held with a request; governance admins approve,  *)
(* edit or reject it, and a claim of level 4 or 5 takes two of them.       *)
(*                                                                         *)
(* The view reads the request without a lock and the router decides on     *)
(* that instance, so an admin's call is two steps: the read, and one       *)
(* transaction that saves the call's own columns over the row as it is now *)
(* and applies the outcome to the message.                                 *)
(***************************************************************************)

EXTENDS Naturals, FiniteSets

CONSTANTS
    Messages,   \* outbound messages that governance holds; one request each
    Admins,     \* governance admins
    TwoPerson,  \* messages with a claim_level in SECOND_APPROVER_LEVELS
    Nobody,     \* no approver; as a wording: the message's own draft
    MaxCalls    \* bound: calls in progress at the same time

ASSUME ApprovalAssumption ==
    TwoPerson \subseteq Messages /\ Nobody \notin Admins /\ MaxCalls \in Nat

VARIABLES
    request,    \* the ApprovalRequest row of each message
    held,       \* Message.governance_status
    wording,    \* Message.body: whose wording it carries
    opened,     \* calls that have read their request: the instance they decide on
    agreed,     \* history: who approved or edited a message
    overtaken   \* history: messages with a call decided on an instance no longer current

approvalVars == <<request, held, wording, opened, agreed, overtaken>>

Open == {"pending", "awaiting_second"}
Resolved == {"approved", "edited", "rejected"}
Requests == [status : {"none"} \cup Open \cup Resolved, first : Admins \cup {Nobody},
             second : Admins \cup {Nobody}, final_body : Admins \cup {Nobody}]
Calls == [by : Admins, about : Messages, seen : Requests]

NoRequest == [status |-> "none", first |-> Nobody, second |-> Nobody, final_body |-> Nobody]

ApprovalInit ==
    /\ request = [m \in Messages |-> NoRequest]
    /\ held = [m \in Messages |-> "none"] /\ wording = [m \in Messages |-> Nobody]
    /\ opened = {} /\ agreed = [m \in Messages |-> {}] /\ overtaken = {}

\* govern_and_broadcast: the message is held and its request queued.  If governance or the
\* queue fails the message stays held with no request, and residual language blocks it.
Hold(m) ==
    /\ held[m] = "none"
    /\ \/ held' = [held EXCEPT ![m] = "pending"]
          /\ \/ request' = [request EXCEPT ![m].status = "pending"]
             \/ UNCHANGED request
       \/ held' = [held EXCEPT ![m] = "blocked"] /\ UNCHANGED request
    /\ UNCHANGED <<wording, opened, agreed, overtaken>>

Opens(a, m) ==
    /\ request[m].status # "none" /\ Cardinality(opened) < MaxCalls
    /\ opened' = opened \cup {[by |-> a, about |-> m, seen |-> request[m]]}
    /\ UNCHANGED <<request, held, wording, agreed, overtaken>>

IsDecided(r) == r.status \in {"approved", "rejected"}

IsResolved(r) == r.status \in Resolved

\* The call ends here; seen is compared with the row only to know which calls were overtaken.
Decides(c) ==
    /\ c \in opened /\ opened' = opened \ {c}
    /\ overtaken' = IF c.seen = request[c.about] THEN overtaken ELSE overtaken \cup {c.about}

RefusedResolved(c) == IsResolved(c.seen)

\* A resolved request, or a second approval by the first approver, is refused (409).
Refused(c) == \/ IsResolved(c.seen)
              \/ /\ c.about \in TwoPerson /\ c.seen.status = "awaiting_second"
                 /\ c.seen.first = c.by

Refuse(c) == Decides(c) /\ Refused(c) /\ UNCHANGED <<request, held, wording, agreed>>

\* approve carries a new wording or leaves the instance's; edit always carries one.
FinalBody(c, op) == {c.by} \cup IF op = "approved" THEN {c.seen.final_body} ELSE {}

\* The first of two approvals only moves the request on.
FirstApproval(c) == c.about \in TwoPerson /\ c.seen.status = "pending"

Agrees(c) ==
    /\ Decides(c) /\ ~Refused(c)
    /\ agreed' = [agreed EXCEPT ![c.about] = @ \cup {c.by}]

ApproveFirst(c, op) ==
    /\ Agrees(c) /\ FirstApproval(c)
    /\ \E b \in FinalBody(c, op) :
          request' = [request EXCEPT ![c.about].first = c.by, ![c.about].final_body = b,
                                     ![c.about].status = "awaiting_second"]
    /\ UNCHANGED <<held, wording>>

\* _finalize and _apply_to_message: the message is delivered in the final wording.
Finalize(c, op) ==
    /\ Agrees(c) /\ ~FirstApproval(c)
    /\ \E b \in FinalBody(c, op) :
          /\ request' = [request EXCEPT
                ![c.about].status = op, ![c.about].final_body = b,
                ![c.about].second = IF c.about \in TwoPerson THEN c.by ELSE c.seen.second]
          /\ wording' = [wording EXCEPT ![c.about] = IF b = Nobody THEN @ ELSE b]
    /\ held' = [held EXCEPT ![c.about] = "approved"]

Reject(c) ==
    /\ Decides(c) /\ ~IsResolved(c.seen)
    /\ request' = [request EXCEPT
          ![c.about].status = "rejected",
          ![c.about].first = IF c.seen.first = Nobody THEN c.by ELSE c.seen.first]
    /\ held' = [held EXCEPT ![c.about] = "blocked"]
    /\ UNCHANGED <<wording, agreed>>

ApprovalSteps(m) ==
    \/ Hold(m) \/ \E a \in Admins : Opens(a, m)
    \/ \E c \in opened :
          /\ c.about = m
          /\ \/ Refuse(c) \/ Reject(c)
             \/ \E op \in {"approved", "edited"} : ApproveFirst(c, op) \/ Finalize(c, op)

ApprovalNext == \E m \in Messages : ApprovalSteps(m)

ApprovalSpec == ApprovalInit /\ [][ApprovalNext]_approvalVars

-----------------------------------------------------------------------------
(* Properties *)

ApprovalsTypeOK ==
    /\ request \in [Messages -> Requests]
    /\ held \in [Messages -> {"none", "pending", "approved", "blocked"}]
    /\ wording \in [Messages -> Admins \cup {Nobody}]
    /\ opened \subseteq Calls /\ agreed \in [Messages -> SUBSET Admins]
    /\ overtaken \subseteq Messages

\* A message of level 4 or 5 goes out only after two different people approved or edited
\* it, whatever stale requests they and others decided on in between: the row may end up
\* naming one person twice, the deed does not (approve, edit).
TwoPeopleAgree == \A m \in TwoPerson : held[m] = "approved" =>
    \E a, b \in agreed[m] : a # b

\* As long as no call decides on an overtaken request, a resolved request is final and the
\* message is what it says: rejected and blocked for good, or delivered in the final wording,
\* on the word of two different people where it takes two (module header, reject).
ResolvedIsFinal == [][\A m \in Messages \ overtaken' :
    /\ request[m].status \in Resolved =>
          request'[m] = request[m] /\ held'[m] = held[m] /\ wording'[m] = wording[m]
    /\ request'[m].status = "rejected" => held'[m] = "blocked"
    /\ held'[m] = "approved" =>
          /\ request'[m].status \in {"approved", "edited"}
          /\ request'[m].final_body \in {Nobody, wording'[m]}
          /\ m \in TwoPerson => request'[m].first # request'[m].second]_approvalVars
=================================================================================
