----------------------------- MODULE ApprovalProofs -----------------------------
(***************************************************************************)
(* Theorems about Approvals.  TwoPeopleAgree is strengthened with what a   *)
(* first approval leaves behind: wherever a request awaits a second        *)
(* approver, in the row or in the instance a call decides on, its first    *)
(* approver is one of those who agreed, and every call has read a request. *)
(***************************************************************************)
EXTENDS Approvals, TLAPS

FirstAgreed == \A m \in Messages :
    request[m].status = "awaiting_second" => request[m].first \in agreed[m]

CallsAgreed == \A c \in opened :
    /\ c.seen.status # "none"
    /\ c.seen.status = "awaiting_second" => c.seen.first \in agreed[c.about]

ApprovalsInv == ApprovalsTypeOK /\ FirstAgreed /\ CallsAgreed /\ TwoPeopleAgree

LEMMA ApprovalsInitEstablishes == ApprovalInit => ApprovalsInv
<1> SUFFICES ASSUME ApprovalInit PROVE ApprovalsInv
    OBVIOUS
<1>1. NoRequest \in Requests
      BY DEF NoRequest, Requests
<1>2. ApprovalsTypeOK
      BY <1>1 DEF ApprovalInit, ApprovalsTypeOK
<1>3. FirstAgreed /\ CallsAgreed
      BY DEF ApprovalInit, FirstAgreed, CallsAgreed, NoRequest
<1>4. TwoPeopleAgree
      BY ApprovalAssumption DEF ApprovalInit, TwoPeopleAgree
<1>5. QED BY <1>2, <1>3, <1>4 DEF ApprovalsInv

-----------------------------------------------------------------------------
(* Types, one action at a time *)

LEMMA CallTyped == ASSUME ApprovalsTypeOK, NEW c \in opened
                   PROVE  c.by \in Admins /\ c.about \in Messages /\ c.seen \in Requests
BY DEF ApprovalsTypeOK, Calls

LEMMA HoldTyped == ASSUME ApprovalsTypeOK, NEW m \in Messages, Hold(m) PROVE ApprovalsTypeOK'
<1>1. [request[m] EXCEPT !.status = "pending"] \in Requests
      BY DEF ApprovalsTypeOK, Requests, Open
<1>2. QED BY <1>1 DEF ApprovalsTypeOK, Hold

LEMMA OpensTyped == ASSUME ApprovalsTypeOK, NEW m \in Messages, NEW a \in Admins, Opens(a, m)
                    PROVE  ApprovalsTypeOK'
BY DEF ApprovalsTypeOK, Opens, Calls

LEMMA RefuseTyped == ASSUME ApprovalsTypeOK, NEW c \in opened, Refuse(c) PROVE ApprovalsTypeOK'
BY CallTyped DEF ApprovalsTypeOK, Refuse, Decides

LEMMA FinalBodyTyped == ASSUME ApprovalsTypeOK, NEW c \in opened, NEW op
                        PROVE  FinalBody(c, op) \subseteq Admins \cup {Nobody}
BY CallTyped DEF FinalBody, Requests

LEMMA AgreesTyped == ASSUME ApprovalsTypeOK, NEW c \in opened, Agrees(c)
                     PROVE  /\ opened' \subseteq Calls /\ agreed' \in [Messages -> SUBSET Admins]
                            /\ overtaken' \subseteq Messages
BY CallTyped DEF ApprovalsTypeOK, Agrees, Decides

LEMMA ApproveFirstTyped == ASSUME ApprovalsTypeOK, NEW c \in opened,
                                  NEW op \in {"approved", "edited"}, ApproveFirst(c, op)
                           PROVE  ApprovalsTypeOK'
<1>1. PICK b \in FinalBody(c, op) :
         request' = [request EXCEPT ![c.about].first = c.by, ![c.about].final_body = b,
                                    ![c.about].status = "awaiting_second"]
      BY DEF ApproveFirst
<1>2. request' \in [Messages -> Requests]
  <2>1. b \in Admins \cup {Nobody} /\ c.by \in Admins /\ c.about \in Messages
        BY CallTyped, FinalBodyTyped
  <2>2. \A r \in Requests : [r EXCEPT !.first = c.by, !.final_body = b,
                                      !.status = "awaiting_second"] \in Requests
        BY <2>1 DEF Requests, Open
  <2>3. request' = [request EXCEPT ![c.about] = [@ EXCEPT !.first = c.by, !.final_body = b,
                                                          !.status = "awaiting_second"]]
        BY <1>1, <2>1 DEF ApprovalsTypeOK, Requests
  <2>4. QED BY <2>1, <2>2, <2>3 DEF ApprovalsTypeOK
<1>3. held' = held /\ wording' = wording /\ Agrees(c)
      BY DEF ApproveFirst
<1>4. QED BY <1>2, <1>3, AgreesTyped DEF ApprovalsTypeOK

LEMMA FinalizeTyped == ASSUME ApprovalsTypeOK, NEW c \in opened,
                              NEW op \in {"approved", "edited"}, Finalize(c, op)
                       PROVE  ApprovalsTypeOK'
<1>1. PICK b \in FinalBody(c, op) :
         /\ request' = [request EXCEPT
               ![c.about].status = op, ![c.about].final_body = b,
               ![c.about].second = IF c.about \in TwoPerson THEN c.by ELSE c.seen.second]
         /\ wording' = [wording EXCEPT ![c.about] = IF b = Nobody THEN @ ELSE b]
      BY DEF Finalize
<1>2. request' \in [Messages -> Requests]
  <2> DEFINE s == IF c.about \in TwoPerson THEN c.by ELSE c.seen.second
  <2>1. b \in Admins \cup {Nobody} /\ s \in Admins \cup {Nobody} /\ c.about \in Messages
        BY CallTyped, FinalBodyTyped DEF Requests
  <2>2. \A r \in Requests : [r EXCEPT !.status = op, !.final_body = b, !.second = s] \in Requests
        BY <2>1 DEF Requests, Resolved
  <2>3. request' = [request EXCEPT ![c.about] = [@ EXCEPT !.status = op, !.final_body = b,
                                                          !.second = s]]
        BY <1>1, <2>1 DEF ApprovalsTypeOK, Requests
  <2>4. QED BY <2>1, <2>2, <2>3 DEF ApprovalsTypeOK
<1>3. wording' \in [Messages -> Admins \cup {Nobody}]
      BY <1>1, CallTyped, FinalBodyTyped DEF ApprovalsTypeOK
<1>4. held' \in [Messages -> {"none", "pending", "approved", "blocked"}] /\ Agrees(c)
      BY CallTyped DEF Finalize, ApprovalsTypeOK
<1>5. QED BY <1>2, <1>3, <1>4, AgreesTyped DEF ApprovalsTypeOK

LEMMA RejectTyped == ASSUME ApprovalsTypeOK, NEW c \in opened, Reject(c) PROVE ApprovalsTypeOK'
<1>1. request' \in [Messages -> Requests]
      BY CallTyped DEF Reject, ApprovalsTypeOK, Requests, Resolved
<1>2. /\ held' \in [Messages -> {"none", "pending", "approved", "blocked"}]
      /\ wording' = wording /\ agreed' = agreed
      BY CallTyped DEF Reject, ApprovalsTypeOK
<1>3. opened' \subseteq Calls /\ overtaken' \subseteq Messages
      BY CallTyped DEF Reject, Decides, ApprovalsTypeOK
<1>4. QED BY <1>1, <1>2, <1>3 DEF ApprovalsTypeOK

LEMMA StepIsOne ==
    ASSUME ApprovalNext
    PROVE  \/ \E m \in Messages : Hold(m)
           \/ \E m \in Messages, a \in Admins : Opens(a, m)
           \/ \E c \in opened : Refuse(c) \/ Reject(c)
           \/ \E c \in opened, op \in {"approved", "edited"} : ApproveFirst(c, op) \/ Finalize(c, op)
BY DEF ApprovalNext, ApprovalSteps

LEMMA TypePreserved == ASSUME ApprovalsTypeOK, [ApprovalNext]_approvalVars PROVE ApprovalsTypeOK'
<1>1. CASE UNCHANGED approvalVars
      BY <1>1 DEF ApprovalsTypeOK, approvalVars
<1>2. CASE ApprovalNext
      BY <1>2, StepIsOne, HoldTyped, OpensTyped, RefuseTyped, RejectTyped, ApproveFirstTyped,
         FinalizeTyped
<1>3. QED BY <1>1, <1>2

\* Every reachable state of the approval queue is well typed (ApprovalRequest, Message).
THEOREM ApprovalsTypeCorrect == ApprovalSpec => []ApprovalsTypeOK
<1>1. ApprovalInit => ApprovalsTypeOK
      BY ApprovalsInitEstablishes DEF ApprovalsInv
<1>2. QED BY <1>1, TypePreserved, PTL DEF ApprovalSpec

-----------------------------------------------------------------------------
(* Two people *)

LEMMA HoldAgrees == ASSUME ApprovalsInv, NEW m \in Messages, Hold(m)
                    PROVE  FirstAgreed' /\ CallsAgreed' /\ TwoPeopleAgree'
<1>1. opened' = opened /\ agreed' = agreed /\ ApprovalsTypeOK
      BY DEF Hold, ApprovalsInv
<1>2. \A n \in Messages : request'[n].status = "awaiting_second" => request'[n] = request[n]
      BY <1>1 DEF Hold, ApprovalsTypeOK, Requests
<1>3. \A n \in Messages : held'[n] = "approved" => held[n] = "approved"
      BY <1>1 DEF Hold, ApprovalsTypeOK
<1>4. FirstAgreed'
      BY <1>1, <1>2 DEF FirstAgreed, ApprovalsInv
<1>5. CallsAgreed'
      BY <1>1 DEF CallsAgreed, ApprovalsInv
<1>6. TwoPeopleAgree'
      BY <1>1, <1>3, ApprovalAssumption DEF TwoPeopleAgree, ApprovalsInv
<1>7. QED BY <1>4, <1>5, <1>6

LEMMA OpensAgrees == ASSUME ApprovalsInv, NEW m \in Messages, NEW a \in Admins, Opens(a, m)
                     PROVE  FirstAgreed' /\ CallsAgreed' /\ TwoPeopleAgree'
<1>1. request' = request /\ held' = held /\ agreed' = agreed
      BY DEF Opens
<1>2. FirstAgreed' /\ TwoPeopleAgree'
      BY <1>1 DEF FirstAgreed, TwoPeopleAgree, ApprovalsInv
<1>3. ASSUME NEW c \in opened'
      PROVE  /\ c.seen.status # "none"
             /\ c.seen.status = "awaiting_second" => c.seen.first \in agreed[c.about]
  <2>1. CASE c \in opened
        BY <2>1 DEF ApprovalsInv, CallsAgreed
  <2>2. CASE c = [by |-> a, about |-> m, seen |-> request[m]]
        BY <2>2 DEF ApprovalsInv, FirstAgreed, Opens
  <2>3. QED BY <2>1, <2>2 DEF Opens
<1>4. CallsAgreed'
      BY <1>1, <1>3 DEF CallsAgreed
<1>5. QED BY <1>2, <1>4

LEMMA RefuseAgrees == ASSUME ApprovalsInv, NEW c \in opened, Refuse(c)
                      PROVE  FirstAgreed' /\ CallsAgreed' /\ TwoPeopleAgree'
<1>1. request' = request /\ held' = held /\ agreed' = agreed /\ opened' \subseteq opened
      BY DEF Refuse, Decides
<1>2. QED BY <1>1 DEF FirstAgreed, CallsAgreed, TwoPeopleAgree, ApprovalsInv

LEMMA RejectAgrees == ASSUME ApprovalsInv, NEW c \in opened, Reject(c)
                      PROVE  FirstAgreed' /\ CallsAgreed' /\ TwoPeopleAgree'
<1>1. agreed' = agreed /\ opened' \subseteq opened /\ ApprovalsTypeOK /\ c.about \in Messages
      BY CallTyped DEF Reject, Decides, ApprovalsInv
<1>2. \A n \in Messages : request'[n].status = "awaiting_second" => request'[n] = request[n]
      BY <1>1 DEF Reject, ApprovalsTypeOK, Requests
<1>3. \A n \in Messages : held'[n] = "approved" => held[n] = "approved"
      BY <1>1 DEF Reject, ApprovalsTypeOK
<1>4. FirstAgreed'
      BY <1>1, <1>2 DEF FirstAgreed, ApprovalsInv
<1>5. CallsAgreed'
      BY <1>1 DEF CallsAgreed, ApprovalsInv
<1>6. TwoPeopleAgree'
      BY <1>1, <1>3, ApprovalAssumption DEF TwoPeopleAgree, ApprovalsInv
<1>7. QED BY <1>4, <1>5, <1>6

\* Agreement only grows, so what the other calls rest on remains.
LEMMA AgreementGrows ==
    ASSUME ApprovalsInv, NEW c \in opened, Agrees(c)
    PROVE  /\ \A m \in Messages : agreed[m] \subseteq agreed'[m]
           /\ c.by \in agreed'[c.about] /\ CallsAgreed'
<1>1. ApprovalsTypeOK /\ c.about \in Messages
      BY CallTyped DEF ApprovalsInv
<1>2. \A m \in Messages : agreed[m] \subseteq agreed'[m]
      BY <1>1 DEF Agrees, ApprovalsTypeOK
<1>3. c.by \in agreed'[c.about]
      BY <1>1 DEF Agrees, ApprovalsTypeOK
<1>4. opened' \subseteq opened
      BY DEF Agrees, Decides
<1>5. \A d \in opened : d.about \in Messages
      BY <1>1, CallTyped
<1>6. CallsAgreed'
      BY <1>2, <1>4, <1>5 DEF CallsAgreed, ApprovalsInv
<1>7. QED BY <1>2, <1>3, <1>6

LEMMA ApproveFirstAgrees == ASSUME ApprovalsInv, NEW c \in opened,
                                   NEW op \in {"approved", "edited"}, ApproveFirst(c, op)
                            PROVE  FirstAgreed' /\ CallsAgreed' /\ TwoPeopleAgree'
<1>1. Agrees(c) /\ held' = held /\ ApprovalsTypeOK /\ c.about \in Messages
      BY CallTyped DEF ApproveFirst, ApprovalsInv
<1>2. PICK b \in FinalBody(c, op) :
         request' = [request EXCEPT ![c.about].first = c.by, ![c.about].final_body = b,
                                    ![c.about].status = "awaiting_second"]
      BY DEF ApproveFirst
<1>3. request'[c.about].first = c.by
      BY <1>1, <1>2 DEF ApprovalsTypeOK, Requests
<1>4. \A n \in Messages \ {c.about} : request'[n] = request[n]
      BY <1>1, <1>2 DEF ApprovalsTypeOK
<1>5. FirstAgreed'
      BY <1>1, <1>3, <1>4, AgreementGrows DEF FirstAgreed, ApprovalsInv
<1>6. TwoPeopleAgree'
      BY <1>1, AgreementGrows, ApprovalAssumption DEF TwoPeopleAgree, ApprovalsInv
<1>7. QED BY <1>1, <1>5, <1>6, AgreementGrows

\* The last approval finds the first one recorded, by somebody else.
LEMMA FinalizeAgrees == ASSUME ApprovalsInv, NEW c \in opened, NEW op \in {"approved", "edited"},
                               Finalize(c, op)
                        PROVE  FirstAgreed' /\ CallsAgreed' /\ TwoPeopleAgree'
<1>1. Agrees(c) /\ ApprovalsTypeOK /\ c.about \in Messages /\ c.seen \in Requests
      BY CallTyped DEF Finalize, ApprovalsInv
<1>2. PICK b \in FinalBody(c, op) :
         request' = [request EXCEPT
               ![c.about].status = op, ![c.about].final_body = b,
               ![c.about].second = IF c.about \in TwoPerson THEN c.by ELSE c.seen.second]
      BY DEF Finalize
<1>3. \A n \in Messages : request'[n].status = "awaiting_second" => request'[n] = request[n]
      BY <1>1, <1>2 DEF ApprovalsTypeOK, Requests
<1>4. FirstAgreed'
      BY <1>1, <1>3, AgreementGrows DEF FirstAgreed, ApprovalsInv
<1>5. ASSUME c.about \in TwoPerson
      PROVE  c.seen.first \in agreed'[c.about] /\ c.by \in agreed'[c.about] /\ c.seen.first # c.by
  <2>1. c.seen.status = "awaiting_second"
        BY <1>1, <1>5 DEF Finalize, FirstApproval, Agrees, Refused, IsResolved, Requests, Open,
           ApprovalsInv, CallsAgreed
  <2>2. c.seen.first \in agreed[c.about]
        BY <2>1 DEF ApprovalsInv, CallsAgreed
  <2>3. c.seen.first # c.by
        BY <1>1, <1>5, <2>1 DEF Agrees, Refused
  <2>4. QED BY <1>1, <2>2, <2>3, AgreementGrows
<1>6. \A n \in Messages \ {c.about} : held'[n] = held[n]
      BY <1>1 DEF Finalize, ApprovalsTypeOK
<1>7. TwoPeopleAgree'
  <2> SUFFICES ASSUME NEW n \in TwoPerson, held'[n] = "approved"
               PROVE  \E x, y \in agreed'[n] : x # y
      BY DEF TwoPeopleAgree
  <2>1. CASE n = c.about
        BY <1>5, <2>1
  <2>2. CASE n # c.about
        BY <1>1, <1>6, <2>2, AgreementGrows, ApprovalAssumption DEF TwoPeopleAgree, ApprovalsInv
  <2>3. QED BY <2>1, <2>2
<1>8. QED BY <1>1, <1>4, <1>7, AgreementGrows

LEMMA InvPreserved == ASSUME ApprovalsInv, [ApprovalNext]_approvalVars PROVE ApprovalsInv'
<1>1. ApprovalsTypeOK'
      BY TypePreserved DEF ApprovalsInv
<1>2. FirstAgreed' /\ CallsAgreed' /\ TwoPeopleAgree'
  <2>1. CASE UNCHANGED approvalVars
        BY <2>1 DEF ApprovalsInv, FirstAgreed, CallsAgreed, TwoPeopleAgree, approvalVars
  <2>2. CASE ApprovalNext
        BY <2>2, StepIsOne, HoldAgrees, OpensAgrees, RefuseAgrees, RejectAgrees,
           ApproveFirstAgrees, FinalizeAgrees
  <2>3. QED BY <2>1, <2>2
<1>3. QED BY <1>1, <1>2 DEF ApprovalsInv

\* A message of level 4 or 5 goes out only after two different people approved or edited it,
\* for any number of messages, admins and calls in progress (approve, edit).
THEOREM TwoPeopleAlwaysAgree == ApprovalSpec => []TwoPeopleAgree
<1>1. ApprovalsInv => TwoPeopleAgree
      BY DEF ApprovalsInv
<1>2. QED BY <1>1, ApprovalsInitEstablishes, InvPreserved, PTL DEF ApprovalSpec

-----------------------------------------------------------------------------
(* What is resolved stays resolved *)

Tells(m) ==
    /\ request[m].status = "rejected" => held[m] = "blocked"
    /\ held[m] = "approved" =>
          /\ request[m].status \in {"approved", "edited"}
          /\ request[m].final_body \in {Nobody, wording[m]}
          /\ m \in TwoPerson => request[m].first # request[m].second

Keeps(m) == request[m].status \in Resolved =>
    request'[m] = request[m] /\ held'[m] = held[m] /\ wording'[m] = wording[m]

Settled(m) == Tells(m) /\ (held[m] = "none" => request[m].status = "none")

AllSettled == \A m \in Messages \ overtaken : Settled(m)

LEMMA InitSettles == ApprovalInit => AllSettled
BY DEF ApprovalInit, AllSettled, Settled, Tells, NoRequest

LEMMA SameSettles ==
    ASSUME NEW m, Settled(m), request'[m] = request[m], held'[m] = held[m],
           wording'[m] = wording[m]
    PROVE  Settled(m)' /\ Keeps(m)
BY DEF Settled, Tells, Keeps

LEMMA HoldSettles == ASSUME ApprovalsInv, AllSettled, NEW m \in Messages, Hold(m),
                            NEW n \in Messages \ overtaken'
                     PROVE  Settled(n)' /\ Keeps(n)
<1>1. Settled(n) /\ ApprovalsTypeOK
      BY DEF Hold, AllSettled, ApprovalsInv
<1>2. CASE n = m
  <2>1. held[m] = "none" /\ request[m].status = "none" /\ request[m] \in Requests
        BY <1>1, <1>2 DEF Hold, Settled, ApprovalsTypeOK
  <2>2. held'[m] \in {"pending", "blocked"} /\ request'[m].status \in {"none", "pending"}
        BY <1>1, <2>1 DEF Hold, ApprovalsTypeOK, Requests
  <2>3. QED BY <1>2, <2>1, <2>2 DEF Settled, Tells, Keeps, Resolved
<1>3. CASE n # m
  <2>1. request'[n] = request[n] /\ held'[n] = held[n] /\ wording'[n] = wording[n]
        BY <1>1, <1>3 DEF Hold, ApprovalsTypeOK
  <2>2. QED BY <1>1, <2>1, SameSettles
<1>4. QED BY <1>2, <1>3

\* A call that leaves its message unovertaken decides on the row as it is.
LEMMA DecidesOnTheRow ==
    ASSUME ApprovalsInv, AllSettled, NEW c \in opened, Decides(c), c.about \notin overtaken'
    PROVE  /\ c.seen = request[c.about] /\ Settled(c.about) /\ c.about \in Messages
           /\ request[c.about] \in Requests /\ request[c.about].status # "none"
<1>1. c.about \in Messages /\ ApprovalsTypeOK
      BY CallTyped DEF ApprovalsInv
<1>2. c.seen = request[c.about] /\ c.about \notin overtaken
      BY DEF Decides
<1>3. c.seen.status # "none"
      BY DEF ApprovalsInv, CallsAgreed
<1>4. QED BY <1>1, <1>2, <1>3 DEF AllSettled, ApprovalsTypeOK

LEMMA RejectSettles == ASSUME ApprovalsInv, AllSettled, NEW c \in opened, Reject(c),
                              c.about \notin overtaken'
                       PROVE  Settled(c.about)' /\ Keeps(c.about)
<1>1. /\ c.seen = request[c.about] /\ c.about \in Messages
      /\ request[c.about] \in Requests /\ ApprovalsTypeOK
      BY DecidesOnTheRow DEF Reject, ApprovalsInv
<1>2. request'[c.about].status = "rejected" /\ held'[c.about] = "blocked"
      BY <1>1 DEF Reject, ApprovalsTypeOK, Requests
<1>3. request[c.about].status \notin Resolved
      BY <1>1 DEF Reject, IsResolved
<1>4. QED BY <1>2, <1>3 DEF Settled, Tells, Keeps

LEMMA ApproveFirstSettles ==
    ASSUME ApprovalsInv, AllSettled, NEW c \in opened, NEW op \in {"approved", "edited"},
           ApproveFirst(c, op), c.about \notin overtaken'
    PROVE  Settled(c.about)' /\ Keeps(c.about)
<1>1. /\ c.seen = request[c.about] /\ Settled(c.about) /\ c.about \in Messages
      /\ request[c.about] \in Requests /\ ApprovalsTypeOK
      BY DecidesOnTheRow DEF ApproveFirst, Agrees, ApprovalsInv
<1>2. request[c.about].status = "pending"
      BY <1>1 DEF ApproveFirst, FirstApproval
<1>3. held[c.about] \notin {"none", "approved"} /\ held' = held
      BY <1>1, <1>2 DEF Settled, Tells, ApproveFirst
<1>4. request'[c.about].status = "awaiting_second"
      BY <1>1 DEF ApproveFirst, ApprovalsTypeOK, Requests
<1>5. QED BY <1>2, <1>3, <1>4 DEF Settled, Tells, Keeps, Resolved

LEMMA FinalizeSettles ==
    ASSUME ApprovalsInv, AllSettled, NEW c \in opened, NEW op \in {"approved", "edited"},
           Finalize(c, op), c.about \notin overtaken'
    PROVE  Settled(c.about)' /\ Keeps(c.about)
<1> DEFINE m == c.about
<1>1. /\ c.seen = request[m] /\ m \in Messages /\ request[m] \in Requests
      /\ request[m].status # "none" /\ ApprovalsTypeOK
      BY DecidesOnTheRow DEF Finalize, Agrees, ApprovalsInv
<1>2. request[m].status \notin Resolved
      BY <1>1 DEF Finalize, Agrees, Refused, IsResolved
<1>3. PICK b \in FinalBody(c, op) :
         /\ request' = [request EXCEPT
               ![c.about].status = op, ![c.about].final_body = b,
               ![c.about].second = IF c.about \in TwoPerson THEN c.by ELSE c.seen.second]
         /\ wording' = [wording EXCEPT ![c.about] = IF b = Nobody THEN @ ELSE b]
      BY DEF Finalize
<1>4. /\ request'[m].status = op /\ request'[m].final_body = b
      /\ request'[m].first = request[m].first
      /\ m \in TwoPerson => request'[m].second = c.by
      BY <1>1, <1>3 DEF ApprovalsTypeOK, Requests
<1>5. b \in {Nobody, wording'[m]}
      BY <1>1, <1>3 DEF ApprovalsTypeOK
<1>6. m \in TwoPerson => request[m].first # c.by
      BY <1>1, <1>2 DEF Finalize, FirstApproval, Agrees, Refused, Requests, Open
<1>7. held'[m] = "approved"
      BY <1>1 DEF Finalize, ApprovalsTypeOK
<1>8. op \in {"approved", "edited"} /\ op # "rejected"
      OBVIOUS
<1>9. Settled(m)'
      BY <1>4, <1>5, <1>6, <1>7, <1>8 DEF Settled, Tells
<1>10. QED BY <1>2, <1>9 DEF Keeps

LEMMA CallSettles ==
    ASSUME ApprovalsInv, AllSettled, NEW c \in opened, NEW op \in {"approved", "edited"},
           Refuse(c) \/ Reject(c) \/ ApproveFirst(c, op) \/ Finalize(c, op),
           NEW n \in Messages \ overtaken'
    PROVE  Settled(n)' /\ Keeps(n)
<1>1. Decides(c) /\ ApprovalsTypeOK /\ c.about \in Messages
      BY CallTyped DEF Refuse, Reject, ApproveFirst, Finalize, Agrees, ApprovalsInv
<1>2. Settled(n)
      BY <1>1 DEF Decides, AllSettled
<1>3. CASE n # c.about \/ Refuse(c)
  <2>1. request'[n] = request[n] /\ held'[n] = held[n] /\ wording'[n] = wording[n]
        BY <1>1, <1>3 DEF Refuse, Reject, ApproveFirst, Finalize, ApprovalsTypeOK
  <2>2. QED BY <1>2, <2>1, SameSettles
<1>4. CASE n = c.about /\ ~Refuse(c)
      BY <1>4, RejectSettles, ApproveFirstSettles, FinalizeSettles
<1>5. QED BY <1>3, <1>4

LEMMA StepSettles == ASSUME ApprovalsInv, AllSettled, [ApprovalNext]_approvalVars
                     PROVE  \A n \in Messages \ overtaken' : Settled(n)' /\ Keeps(n)
<1> SUFFICES ASSUME NEW n \in Messages \ overtaken' PROVE Settled(n)' /\ Keeps(n)
    OBVIOUS
<1>1. CASE UNCHANGED approvalVars \/ \E m \in Messages, a \in Admins : Opens(a, m)
  <2>1. /\ request' = request /\ held' = held /\ wording' = wording
        /\ overtaken' = overtaken
        BY <1>1 DEF approvalVars, Opens
  <2>2. Settled(n)
        BY <2>1 DEF AllSettled
  <2>3. QED BY <2>1, <2>2, SameSettles
<1>2. CASE \E m \in Messages : Hold(m)
      BY <1>2, HoldSettles
<1>3. CASE \E c \in opened : Refuse(c) \/ Reject(c)
      BY <1>3, CallSettles
<1>4. CASE \E c \in opened, op \in {"approved", "edited"} : ApproveFirst(c, op) \/ Finalize(c, op)
      BY <1>4, CallSettles
<1>5. QED BY <1>1, <1>2, <1>3, <1>4, StepIsOne

\* As long as no call decides on an overtaken request, a resolved request is final and its
\* message is blocked or delivered as it says, whatever else is queued (approve, reject).
THEOREM ResolutionIsFinal == ApprovalSpec => ResolvedIsFinal
<1>1. ApprovalsInv /\ AllSettled /\ [ApprovalNext]_approvalVars => AllSettled'
      BY StepSettles DEF AllSettled
<1>2. ApprovalsInv /\ AllSettled /\ [ApprovalNext]_approvalVars =>
      [\A m \in Messages \ overtaken' :
          /\ request[m].status \in Resolved =>
                request'[m] = request[m] /\ held'[m] = held[m] /\ wording'[m] = wording[m]
          /\ request'[m].status = "rejected" => held'[m] = "blocked"
          /\ held'[m] = "approved" =>
                /\ request'[m].status \in {"approved", "edited"}
                /\ request'[m].final_body \in {Nobody, wording'[m]}
                /\ m \in TwoPerson => request'[m].first # request'[m].second]_approvalVars
      BY StepSettles DEF Settled, Tells, Keeps
<1>3. QED BY <1>1, <1>2, ApprovalsInitEstablishes, InitSettles, InvPreserved, PTL
          DEF ApprovalSpec, ResolvedIsFinal
=================================================================================
