--------------------------------- MODULE MCDesk ---------------------------------
(***************************************************************************)
(* An instance of the three desks of the team for TLC: uploaded files,     *)
(* the approval queue, and a lead's commercial engagement.  They share no  *)
(* state, so each behaviour is a scene of one of them: one file with       *)
(* everything that can happen to it; two files of one thread with every    *)
(* upload, binding and purge; a message that takes two approvers, and one  *)
(* that takes one; a trusted, qualified lead's whole engagement; a new     *)
(* lead whose trust, account and agreement change under an engagement that *)
(* comes with complete paperwork; and a lead in good standing, with an     *)
(* engagement at its first stage or none: once under whole-row saves of    *)
(* the lead, once with every evaluation.                                   *)
(***************************************************************************)
EXTENDS Attachments, Approvals, Engagement

CONSTANTS f1, f2, m1, m2

ASSUME DeskAssumption == {f1, f2} \subseteq Files /\ {m1, m2} \subseteq Messages

VARIABLE scene

Scenes == {"file", "pair", "two", "one", "deal", "lead", "edit", "alpha"}

\* A trusted, qualified lead under an agreement, before its engagement.
Standing ==
    /\ trust = [l \in Leads |-> "pass"] /\ escalated = {} /\ screening = {}
    /\ edits = {} /\ loaded = {} /\ qualified = Leads /\ nda = Leads
    /\ deal = [l \in Leads |-> NoDeal]
    /\ evaluations = [l \in Leads |-> <<>>]
    /\ flags = [l \in Leads |-> {}]

DeskInit ==
    /\ scene \in Scenes
    /\ FileInit /\ ApprovalInit
    /\ IF scene \in {"deal", "edit", "alpha"} THEN Standing ELSE EngagementInit

PairSteps(f) ==
    \/ Write(f) \/ StageFails(f) \/ \E t \in Threads \cup {Unbound} : Stage(f, t)
    \/ Expire(f) \/ VisitorDeletes(f) \/ Purge(f)

Binding == \E t \in Threads : BindReads(f1, t) \/ BindWrites(f1, t)

ThreadSteps == \/ \E t \in Threads : ThreadDeletes(t) \/ ThreadGoes(t) \/ ThreadExpires(t)
               \/ SweepLists

Papers == {u \in Bodies : u.evidence = "proven" /\ u.terms = "final" /\ u.ready /\ u.built}

Dealing(l) == \/ \E s \in Stages, u \in Papers : Progress(l, s, u)
              \/ Activate(l, "none") \/ RevokeEntitlement(l)

\* What the gates of a lead's evaluations rest on.
Standings(l) == \/ \E v \in {"pass", "review", "reject"} : Review(l, v)
                \/ Requalify(l) \/ Agreement(l)
                \/ \E u \in Papers : /\ u.executed = NoDate /\ ~u.activate
                                     /\ Progress(l, "identify_qualify", u)

\* Whole-row saves of the lead, and the mirror they leave behind.  Bound: one instance at a time.
Editing(l) == \/ edits = {} /\ EditReads(l)
              \/ \E e \in edits : e.lead = l /\ EditWrites(e)
              \/ \E v \in {"pass", "review", "reject"} : ScreenReads(l, v) \/ ScreenWrites(l, v)
              \/ CatchesUp(l) \/ LoadLead(l)

DeskNext ==
    /\ UNCHANGED scene
    /\ \/ /\ scene = "file" /\ (FileSteps(f1) \/ ThreadSteps)
          /\ UNCHANGED <<approvalVars, engagementVars>>
       \/ /\ scene = "pair" /\ (PairSteps(f1) \/ PairSteps(f2) \/ Binding \/ ThreadSteps)
          /\ UNCHANGED <<approvalVars, engagementVars>>
       \/ /\ scene = "two" /\ ApprovalSteps(m1)
          /\ UNCHANGED <<fileVars, engagementVars>>
       \/ /\ scene = "one" /\ ApprovalSteps(m2)
          /\ UNCHANGED <<fileVars, engagementVars>>
       \/ /\ scene = "deal" /\ \E l \in Leads : DealSteps(l, Bodies)
          /\ UNCHANGED <<fileVars, approvalVars>>
       \/ /\ scene = "lead" /\ \E l \in Leads : LeadSteps(l) \/ Dealing(l)
          /\ UNCHANGED <<fileVars, approvalVars>>
       \/ /\ scene = "edit" /\ \E l \in Leads : Editing(l) \/ OpenAssessment(l) \/ Standings(l)
          /\ UNCHANGED <<fileVars, approvalVars>>
       \/ /\ scene = "alpha" /\ \E l \in Leads : AlphaSteps(l) \/ Standings(l)
          /\ UNCHANGED <<fileVars, approvalVars>>

deskVars == <<fileVars, approvalVars, engagementVars, scene>>

DeskSpec == DeskInit /\ [][DeskNext]_deskVars /\ FileFairness

\* Every table's columns hold values of their kinds.
DeskTypeOK == FilesTypeOK /\ ApprovalsTypeOK /\ EngagementTypeOK
=================================================================================
