-------------------------------- MODULE Journey --------------------------------
(***************************************************************************)
(* The journey of a lead: its creators, journey.advance() and every        *)
(* program path that reaches it with a Lead instance of its own.           *)
(*                                                                         *)
(* Leads are not all born alike (origin): from the dashboard or open       *)
(* registration at ARRIVED, from a submitted questionnaire at IN_REVIEW,   *)
(* from a governed conversation at DIAGNOSED.  No creator writes an audit  *)
(* row, the derived columns or the value stamp.                            *)
(*                                                                         *)
(* A request (or the dormancy sweep) first SELECTs the lead and only later *)
(* calls advance() on that in-memory instance; advance() is one database   *)
(* transaction but it neither locks nor re-reads the row.  `held' is the   *)
(* instance an actor holds between the two steps, so a step here is either *)
(* the read or the write, and any other actor may run in between.          *)
(* Two writers save every column of such an instance without advance(): a  *)
(* PATCH of the lead, and a resubmitted questionnaire, which also puts the *)
(* lead back IN_REVIEW.  Claiming an invite locks the row and is one step. *)
(***************************************************************************)
EXTENDS JourneyLadder, Sequences, FiniteSets

CONSTANTS
    Leads,        \* the leads of the instance
    NoLead,       \* what an idle actor works on
    Actors,       \* concurrent requests and background jobs
    TeamEvents,   \* the events the team submits to POST journey/leads/{id}/advance/
    MaxInvites,   \* bound: unconsumed invite tokens of one lead
    MaxLog        \* bound: JourneyTransition rows of one lead

ASSUME NoLeadAssumption == NoLead \notin Leads
ASSUME TeamEventsAssumption == TeamEvents \subseteq Events
ASSUME BoundsAssumption == MaxInvites \in Nat /\ MaxLog \in Nat

VARIABLES
    origin,       \* who created each lead ("none": it does not exist)
    row,          \* leads_lead: the journey columns of each lead
    log,          \* journey_journeytransition, oldest first
    clients,      \* the leads that have a Client
    payers,       \* the clients with first_payment_recorded_at set
    contracted,   \* the clients with contract_state "executed"
    invites,      \* account_invite tokens minted and not yet consumed
    held          \* the in-memory Lead instance of each actor

vars == <<origin, row, log, clients, payers, contracted, invites, held>>

\* The state each creator inserts the lead at.
Birth == [ dashboard |-> "ARRIVED", registration |-> "ARRIVED",
           questionnaire |-> "IN_REVIEW", conversation |-> "DIAGNOSED" ]
Origins == { "dashboard", "registration", "questionnaire", "conversation" }

known == { l \in Leads : origin[l] # "none" }
registered == { l \in Leads : origin[l] = "registration" }

Rows == [ journey_state : States, journey_number : 0..10,
          state_key : States \cup {""}, value_delivered : BOOLEAN ]

\* A lead inserted at s: the other columns keep the defaults of leads.Lead.
NewRow(s) == [ journey_state |-> s, journey_number |-> NULL,
               state_key |-> "", value_delivered |-> FALSE ]

Transitions == [ from : States, event : Events, to : States ]

Tasks == {"idle", "advance", "sweep", "edit", "resubmit", "qualify"}
Instances == [ task : Tasks, lead : Leads \cup {NoLead}, row : Rows ]
Idle == [ task |-> "idle", lead |-> NoLead, row |-> NewRow("ARRIVED") ]

TypeOK ==
    /\ origin \in [Leads -> Origins \cup {"none"}]
    /\ row \in [Leads -> Rows]
    /\ log \in [Leads -> Seq(Transitions)]
    /\ clients \subseteq Leads
    /\ payers \subseteq Leads
    /\ contracted \subseteq Leads
    /\ invites \in [Leads -> 0..MaxInvites]
    /\ held \in [Actors -> Instances]
    /\ \A a \in Actors : held[a] = Idle \/ (held[a].task # "idle" /\ held[a].lead \in known)

Init ==
    /\ origin = [l \in Leads |-> "none"]
    /\ row = [l \in Leads |-> NewRow("ARRIVED")]
    /\ log = [l \in Leads |-> <<>>]
    /\ clients = {}
    /\ payers = {}
    /\ contracted = {}
    /\ invites = [l \in Leads |-> 0]
    /\ held = [a \in Actors |-> Idle]

--------------------------------------------------------------------------------
(* journey.advance(lead, event), on the instance r of lead l.              *)

\* Mutant: state_key is forgotten in update_fields.
SavedWithoutKey(current, r, t) ==
    [ current EXCEPT
        !.journey_state = t,
        !.journey_number = Number(t),
        !.value_delivered = @ \/ (t = "DIAGNOSED" /\ ~r.value_delivered) ]

\* Mutant: value_delivered_at is always saved, from the instance.
SavedStaleValue(current, r, t) ==
    [ current EXCEPT
        !.journey_state = t,
        !.journey_number = Number(t),
        !.state_key = t,
        !.value_delivered = r.value_delivered \/ t = "DIAGNOSED" ]

\* The columns `update_fields` names, over what the row holds by now.
\* value_delivered_at is written only when the INSTANCE has none.
Saved(current, r, t) ==
    [ current EXCEPT
        !.journey_state = t,
        !.journey_number = Number(t),
        !.state_key = t,
        !.value_delivered = @ \/ (t = "DIAGNOSED" /\ ~r.value_delivered) ]

Write(l, r, e, t) ==
    /\ Len(log[l]) < MaxLog
    /\ row' = [row EXCEPT ![l] = Saved(@, r, t)]
    /\ log' = [log EXCEPT ![l] =
                  Append(@, [from |-> r.journey_state, event |-> e, to |-> t])]

\* _activate_success_overlay and _mark_contracted: only for a lead with a Client.
Hooks(l, e, t) ==
    /\ payers' = IF (e = "first_payment" \/ t = "ASSESSMENT") /\ l \in clients
                 THEN payers \cup {l} ELSE payers
    /\ contracted' = IF e = "contract_executed" /\ l \in clients
                     THEN contracted \cup {l} ELSE contracted

\* Mutant: the client page's own credential also opens an account.
MintEarly(l, s) ==
    invites' = IF s \in {"CLIENT_PAGE", "INVITED"} /\ invites[l] < MaxInvites
               THEN [invites EXCEPT ![l] = @ + 1] ELSE invites

\* Revealing INVITED mints a single-use account_invite token.
Mint(l, s) ==
    invites' = IF s = "INVITED" /\ invites[l] < MaxInvites
               THEN [invites EXCEPT ![l] = @ + 1] ELSE invites

Move(l, r, e) ==
    \E t \in Targets(r.journey_state, e) :
        /\ Write(l, r, e, t)
        /\ Hooks(l, e, t)
        /\ IF t # r.journey_state THEN Mint(l, t) ELSE UNCHANGED invites

\* Mutant: the no-op saves the instance it was given.
TolerateSaves(l, r, e) ==
    /\ Targets(r.journey_state, e) = {}
    /\ Satisfied(r.journey_state, e)
    /\ Mint(l, r.journey_state)
    /\ row' = [row EXCEPT ![l] = Saved(@, r, r.journey_state)]
    /\ UNCHANGED <<log, payers, contracted>>

\* The satisfied no-op: nothing is written, but the state's reveal is built anew.
Tolerate(l, r, e) ==
    /\ Targets(r.journey_state, e) = {}
    /\ Satisfied(r.journey_state, e)
    /\ Mint(l, r.journey_state)
    /\ UNCHANGED <<row, log, payers, contracted>>

\* InvalidTransition: 409 for the team, logged by the sweep.
Refuse(r, e) ==
    /\ Refused(r.journey_state, e)
    /\ UNCHANGED <<row, log, payers, contracted, invites>>

Advance(l, r, e) == Move(l, r, e) \/ Tolerate(l, r, e) \/ Refuse(r, e)

--------------------------------------------------------------------------------
(* The creators.                                                           *)

Born(l, o) ==
    /\ origin[l] = "none"
    /\ origin' = [origin EXCEPT ![l] = o]
    /\ row' = [row EXCEPT ![l] = NewRow(Birth[o])]

\* POST /leads/: every field of the create serializer is read-only.
CreateLead(l) ==
    /\ Born(l, "dashboard")
    /\ UNCHANGED <<log, clients, payers, contracted, invites, held>>

\* Open registration: the lead and its Client in one transaction, no advance.
RegisterClient(l) ==
    /\ Born(l, "registration")
    /\ clients' = clients \cup {l}
    /\ UNCHANGED <<log, payers, contracted, invites, held>>

\* _create_conversation_lead: inserted as already diagnosed.
CreateConversationLead(l) ==
    /\ Born(l, "conversation")
    /\ UNCHANGED <<log, clients, payers, contracted, invites, held>>

\* create_from_review, first submission: the insert, and the instance its
\* mark_diagnosed will work on.
SubmitReview(a, l) ==
    /\ held[a] = Idle
    /\ Born(l, "questionnaire")
    /\ held' = [held EXCEPT ![a] = [task |-> "qualify", lead |-> l, row |-> row'[l]]]
    /\ UNCHANGED <<log, clients, payers, contracted, invites>>

--------------------------------------------------------------------------------
(* Requests and jobs that hold an instance.                                *)

Fetch(a, task, l) ==
    /\ held[a] = Idle
    /\ l \in known
    /\ held' = [held EXCEPT ![a] = [task |-> task, lead |-> l, row |-> row[l]]]
    /\ UNCHANGED <<origin, row, log, clients, payers, contracted, invites>>

Release(a) ==
    /\ held' = [held EXCEPT ![a] = Idle]
    /\ UNCHANGED <<origin, clients>>

\* A request dies between its read and its write; mark_diagnosed's caller
\* swallows whatever it raises, and advance() has been rolled back.
Abandon(a) ==
    /\ held[a] # Idle
    /\ Release(a)
    /\ UNCHANGED <<row, log, payers, contracted, invites>>

\* mark_diagnosed on the instance the submission saved.  The instance says
\* DIAGNOSED before advance() saves anything, so process_qualification's own
\* write of the column after it has nothing left to do.
QualifyAdvance(a) ==
    /\ held[a].task = "qualify"
    /\ Advance(held[a].lead, held[a].row, "qualify")
    /\ Release(a)

\* create_from_review, submitted again: the lead of the session is fetched ...
ResubmitRead(a, l) ==
    /\ origin[l] = "questionnaire"
    /\ Fetch(a, "resubmit", l)

\* Mutant: the resubmission puts the lead at the state it is about to earn.
ResubmitSaveDiagnosed(a) ==
    LET h == held[a]
        r == [h.row EXCEPT !.journey_state = "DIAGNOSED"]
    IN
    /\ h.task = "resubmit"
    /\ row' = [row EXCEPT ![h.lead] = r]
    /\ held' = [held EXCEPT ![a] = [h EXCEPT !.task = "qualify", !.row = r]]
    /\ UNCHANGED <<origin, log, clients, payers, contracted, invites>>

\* ... and every column of that instance saved, its journey_state IN_REVIEW.
ResubmitSave(a) ==
    LET h == held[a]
        r == [h.row EXCEPT !.journey_state = "IN_REVIEW"]
    IN
    /\ h.task = "resubmit"
    /\ row' = [row EXCEPT ![h.lead] = r]
    /\ held' = [held EXCEPT ![a] = [h EXCEPT !.task = "qualify", !.row = r]]
    /\ UNCHANGED <<origin, log, clients, payers, contracted, invites>>

\* JourneyAdvanceView.post: get_object_or_404, then advance().
TeamFetch(a, l) == Fetch(a, "advance", l)

TeamAdvance(a, e) ==
    /\ held[a].task = "advance"
    /\ Advance(held[a].lead, held[a].row, e)
    /\ Release(a)

\* sweep_dormant_task: the cursor hands out rows that were stale when it opened.
SweepRead(a, l) ==
    /\ row[l].journey_state \in {"CLIENT_PAGE", "INVITED"}
    /\ Fetch(a, "sweep", l)

SweepAdvance(a) ==
    /\ held[a].task = "sweep"
    /\ Advance(held[a].lead, held[a].row, "gate_dormant")
    /\ Release(a)

\* PATCH /leads/{id}/: perform_update saves all columns of the fetched instance.
EditRead(a, l) == Fetch(a, "edit", l)

EditSave(a) ==
    /\ held[a].task = "edit"
    /\ row' = [row EXCEPT ![held[a].lead] = held[a].row]
    /\ Release(a)
    /\ UNCHANGED <<log, payers, contracted, invites>>

\* Mutant: the claim moves the lead whatever state it is in.
AcceptInviteAnywhere(l) == Write(l, row[l], "accept_invite", "NDA_REVIEW")

\* Mutant: the claim sets the state without an audit row.
AcceptInviteUnlogged(l) ==
    /\ row' = IF row[l].journey_state = "INVITED"
              THEN [row EXCEPT ![l] = Saved(@, row[l], "NDA_REVIEW")] ELSE row
    /\ UNCHANGED log

\* accept_invite inside create_client_for_lead: a failed advance is swallowed.
AcceptInvite(l) ==
    IF row[l].journey_state = "INVITED"
    THEN Write(l, row[l], "accept_invite", "NDA_REVIEW")
    ELSE UNCHANGED <<row, log>>

\* claim_invite, first use: the gate looks at the lead's tier and not at its
\* journey state; a refusal rolls everything back and is no step at all.
ClaimInvite(l) ==
    /\ l \in known \ clients
    /\ invites[l] > 0
    /\ invites' = [invites EXCEPT ![l] = @ - 1]
    /\ clients' = clients \cup {l}
    /\ AcceptInvite(l)
    /\ UNCHANGED <<origin, payers, contracted, held>>

\* Mutant: the recovery path runs before the nonce is burnt.
RecoverClaimReplayed(l) ==
    /\ l \in clients
    /\ invites' = [invites EXCEPT ![l] = @ - 1]
    /\ UNCHANGED <<origin, row, log, clients, payers, contracted, held>>

\* claim_invite when the Client exists: the token burns, the account is returned.
RecoverClaim(l) ==
    /\ l \in clients
    /\ invites[l] > 0
    /\ invites' = [invites EXCEPT ![l] = @ - 1]
    /\ UNCHANGED <<origin, row, log, clients, payers, contracted, held>>

--------------------------------------------------------------------------------
Arrive(l) == CreateLead(l) \/ RegisterClient(l) \/ CreateConversationLead(l)
Claim(l) == ClaimInvite(l) \/ RecoverClaim(l)

Begin(a, l) == SubmitReview(a, l) \/ TeamFetch(a, l) \/ SweepRead(a, l)

Apply(a) ==
    \/ \E e \in TeamEvents : TeamAdvance(a, e)
    \/ SweepAdvance(a)
    \/ QualifyAdvance(a)
    \/ Abandon(a)

\* The creators, and every writer that goes through advance().
AdvanceNext ==
    \/ \E l \in Leads : Arrive(l) \/ Claim(l)
    \/ \E a \in Actors : Apply(a) \/ \E l \in Leads : Begin(a, l)

\* The two that write the journey columns without it: the lead editor and a
\* questionnaire that is submitted again.
Rewrite(a) ==
    \/ EditSave(a)
    \/ ResubmitSave(a)
    \/ \E l \in Leads : EditRead(a, l) \/ ResubmitRead(a, l)

Next == AdvanceNext \/ \E a \in Actors : Rewrite(a)

Spec == Init /\ [][Next]_vars

AdvanceSpec == Init /\ [][AdvanceNext]_vars

--------------------------------------------------------------------------------
(* Properties.                                                             *)

\* Where a lead has been, up to and including its n-th audit row: the state it was
\* born at, and those the rows lead to.
Visited(l, n) ==
    { Birth[o] : o \in Origins \cap {origin[l]} } \cup { log[l][i].to : i \in 1..n }
Reached(l) == Visited(l, Len(log[l]))

\* No state is ever entered that was not earned: every audited transition is an
\* edge out of a state the lead had been in before, and what the row or any held
\* instance shows is a state the lead was in.  Stale instances and resubmissions
\* may drag a lead back along the ladder, but not past a rung it never stood on.
EveryRungEarned ==
    \A l \in known :
        /\ \A i \in 1..Len(log[l]) :
               /\ <<log[l][i].from, log[l][i].event, log[l][i].to>> \in Edges
               /\ log[l][i].from \in Visited(l, i - 1)
        /\ row[l].journey_state \in Reached(l)
        /\ \A a \in Actors : held[a].lead = l => held[a].row.journey_state \in Reached(l)

\* contract_state "executed" means the customer really went the whole way:
\* _mark_contracted ran for a client, after the NDA, the paid assessment, the
\* PoC and the integration were each entered.
ContractEarned ==
    \A l \in contracted :
        /\ l \in clients
        /\ {"NDA_REVIEW", "ASSESSMENT", "POC", "INTEGRATION"} \subseteq Reached(l)

\* A Client exists only through open registration or an invitation that was
\* revealed: claim_invite cannot be reached by a lead that was never INVITED.
ClientsWereInvited ==
    \A l \in clients : l \in registered \/ "INVITED" \in Reached(l)

\* The derived columns of r belong together, and to its state: they are both
\* unset as the creator left them, or those of the state; only a lead whose
\* questionnaire was resubmitted shows those of another state it has been in.
InStep(l, r) ==
    \/ r = NewRow(Birth[origin[l]])
    \/ /\ r.state_key \in Reached(l)
       /\ r.journey_number = Number(r.state_key)
       /\ \/ r.journey_state = r.state_key
          \/ origin[l] = "questionnaire" /\ r.journey_state = "IN_REVIEW"

\* ... in the database and in memory, whichever stale instance was saved last.
Lockstep ==
    \A l \in known :
        /\ InStep(l, row[l])
        /\ \A a \in Actors : held[a].lead = l => InStep(l, held[a].row)

\* The audit trail tells the truth: the lead is as its creator left it, or in the
\* state its last JourneyTransition row names.
LogTailIsState ==
    \A l \in known :
        IF log[l] = <<>> THEN row[l] = NewRow(Birth[origin[l]])
                         ELSE row[l].journey_state = log[l][Len(log[l])].to

\* Value first: value_delivered_at is set just when the lead has got to DIAGNOSED
\* by an advance, whatever instance the stamping request held.  A conversation
\* lead is born there: it goes on to its client page and never carries the stamp.
ValueFirst ==
    \A l \in known :
        row[l].value_delivered <=>
            /\ origin[l] # "conversation"
            /\ ~(Reached(l) \subseteq {"ARRIVED", "IN_REVIEW"})

Ladder == INSTANCE EarnedLadder WITH
    Unborn <- "unborn",
    Starts <- { Birth[o] : o \in Origins },
    at <- [l \in Leads |-> IF l \in known THEN row[l].journey_state ELSE "unborn"],
    earned <- [l \in Leads |-> Reached(l)]

\* advance() validates the transition against the state its instance shows: a lead
\* that moves off the table was put back IN_REVIEW by its own questionnaire, or
\* moved by a request that is just letting go of an instance it read before somebody
\* else moved the lead; never by a claim, which locks the row.
OnlyStaleLeavesTable ==
    [][\A l \in known :
        \/ row'[l].journey_state = row[l].journey_state
        \/ \E e \in Events : row'[l].journey_state \in Targets(row[l].journey_state, e)
        \/ \E a \in Actors :
              /\ held[a].lead = l /\ held[a].task = "resubmit"
              /\ held'[a].task = "qualify" /\ row'[l].journey_state = "IN_REVIEW"
        \/ \E a \in Actors :
              /\ held[a].lead = l /\ held'[a] = Idle
              /\ held[a].row.journey_state # row[l].journey_state]_vars

\* Requests that overlap may still only take edges out of states the lead has
\* been in: advance() works from an instance that was true once.
ClimbsFromEarned == Ladder!ClimbSpec

\* The lead editor and a resubmission can set a lead back to a state it has been
\* in, no more.
StaysOnEarned == Ladder!Spec

\* CUSTOMER_SUCCESS is terminal: nothing ever moves the customer out of it.
CustomerSuccessTerminal ==
    [][\A l \in known :
        row[l].journey_state = "CUSTOMER_SUCCESS" =>
            row'[l].journey_state = "CUSTOMER_SUCCESS"]_vars

\* ... except that a resubmitted questionnaire puts its lead back IN_REVIEW.
OnlyResubmissionRecalls ==
    [][\A l \in known :
        row[l].journey_state = "CUSTOMER_SUCCESS" =>
            \/ row'[l].journey_state = "CUSTOMER_SUCCESS"
            \/ origin[l] = "questionnaire" /\ row'[l].journey_state = "IN_REVIEW"]_vars

================================================================================
