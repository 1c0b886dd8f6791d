------------------------------- MODULE Engagement -------------------------------
(***************************************************************************)
(* A lead's commercial engagement (apps/leads): trust screening and its    *)
(* human review, the staged ASTOP record with its License-Out terms,       *)
(* readiness and entitlement, the evaluations with the ALPHA gates, and    *)
(* the progression flags mirrored on the lead.                             *)
(*                                                                         *)
(* The services lock the engagement and are one action each.  Three things *)
(* are read earlier: the views load the lead, trust status included,       *)
(* before the service locks the record; the guard of the screening view    *)
(* reads the trust status it protects without a lock; and a PATCH of the   *)
(* lead saves every column as it was when the request fetched it.          *)
(*                                                                         *)
(* Evaluations are also written outside the gates: anybody of the team may *)
(* create one for any lead, and PATCH every fact of one in both            *)
(* directions.  The mirror is a best effort: the signals that keep it      *)
(* swallow whatever its derivation raises.                                 *)
(***************************************************************************)

EXTENDS Naturals, Sequences

CONSTANTS
    Leads,      \* rows of Lead
    Dates,      \* execution dates a License-Out may carry
    NoDate,     \* not executed
    MaxEvaluations  \* bound: evaluations of one lead

ASSUME EngagementAssumption == NoDate \notin Dates /\ MaxEvaluations \in Nat

VARIABLES
    trust,      \* Lead.trust_status
    escalated,  \* leads with Lead.escalated
    screening,  \* screenings past their guard, and the verdict they will save
    edits,      \* the trust columns of the instances whole-row saves will write
    loaded,     \* leads a request still holds as they were with a trust pass
    qualified,  \* leads with a verified active account and a complete qualification
    nda,        \* leads with a signed NDA
    deal,       \* the ASTOPEngagement row of each lead
    evaluations,  \* the Evaluation rows of each lead, oldest first
    flags       \* gates mirrored in Lead.commercial_progress

leadRows == <<trust, escalated, screening, edits, qualified, nda>>
engagementVars == <<leadRows, loaded, deal, evaluations, flags>>

TrustStates == {"unreviewed", "pass", "review", "reject"}
Ladder == <<"identify_qualify", "nda_briefing", "controlled_evaluation", "lo_deployment",
            "verify_expand">>
Stages == {Ladder[i] : i \in 1..5} \cup {"closed"}

\* What the record holds, by the gates it passes: evidence up to an agreed evaluation scope or
\* the complete proof; an lo_scope with or without final governed terms.
Evidence == {"none", "scoped", "proven"}
Terms    == {"none", "scope", "final"}

Deals == [stage : {"none"} \cup Stages, evidence : Evidence, value : BOOLEAN, terms : Terms,
          ready : BOOLEAN, executed : Dates \cup {NoDate}, built : BOOLEAN,
          entitlement : {"pending", "active", "expired", "revoked"},
          expiry : {"none", "future", "past"}]

\* What the progression endpoint may send along with a stage.
Bodies == {u \in [evidence : Evidence, value : BOOLEAN, terms : Terms, ready : BOOLEAN,
                  executed : Dates \cup {NoDate}, built : BOOLEAN, activate : BOOLEAN] :
              u.ready => u.terms # "none"}

\* An evaluation: proposed or in progress; the workload and technical route named; the software
\* proof validated with the whole hardware case.
Packages == {"compute", "core", "combined"}
Evaluations == [pkg : Packages, open : BOOLEAN, routed : BOOLEAN, proven : BOOLEAN]

NoDeal == [stage |-> "none", evidence |-> "none", value |-> FALSE, terms |-> "none",
           ready |-> FALSE, executed |-> NoDate, built |-> FALSE,
           entitlement |-> "pending", expiry |-> "none"]

EngagementInit ==
    /\ trust = [l \in Leads |-> "unreviewed"] /\ escalated = {} /\ screening = {}
    /\ edits = {} /\ loaded = {} /\ qualified = {} /\ nda = {}
    /\ deal = [l \in Leads |-> NoDeal]
    /\ evaluations = [l \in Leads |-> <<>>]
    /\ flags = [l \in Leads |-> {}]

-----------------------------------------------------------------------------
(* Gates *)

\* entitlement_lifecycle_state
EntitlementState(d) == IF d.entitlement # "revoked" /\ d.expiry = "past" THEN "expired"
                                                                         ELSE d.entitlement

\* _production_entitlement_reasons
Licensed(d) == /\ d.executed # NoDate /\ d.terms # "none" /\ d.built
               /\ EntitlementState(d) = "active"

StageGateUnlicensed(ok, signed, d) ==
    /\ d.stage \notin {Ladder[1], "closed"} => ok
    /\ d.stage \in {Ladder[3], Ladder[4], Ladder[5]} => signed /\ d.evidence # "none"
    /\ d.stage \in {Ladder[4], Ladder[5]} => d.evidence = "proven"
    /\ d.stage = Ladder[5] => d.value

\* _stage_gate_reasons; ok: the request sees a trusted, qualified counterparty.
StageGate(ok, signed, d) ==
    /\ d.stage \notin {Ladder[1], "closed"} => ok
    /\ d.stage \in {Ladder[3], Ladder[4], Ladder[5]} => signed /\ d.evidence # "none"
    /\ d.stage \in {Ladder[4], Ladder[5]} => d.evidence = "proven"
    /\ d.stage = Ladder[5] => Licensed(d) /\ d.value

\* A request's lead may be the one it loaded earlier.
Accepted(l) == (trust[l] = "pass" \/ l \in loaded) /\ l \in qualified
MayHold(l, d) == StageGate(Accepted(l), l \in nda, d)

\* _transition_reasons
Reaches(from, to) ==
    \/ to \in {from, "closed"}
    \/ from = "none" /\ to \in {Ladder[1], Ladder[2]}
    \/ \E i \in 1..4 : from = Ladder[i] /\ to = Ladder[i + 1]

SaveGuardOnTerms(old, new) == old.stage # "none" =>
    /\ new.executed # old.executed => new.stage \in {Ladder[4], Ladder[5]} /\ new.terms = "final"
    /\ new.entitlement = old.entitlement

\* pre_save of an existing record: an execution date is set once, from the License-Out stage
\* on final terms, and entitlements are left to their own service.  A new record is not
\* looked at.
SaveGuard(old, new) == old.stage # "none" =>
    /\ new.executed # old.executed =>
          /\ old.executed = NoDate
          /\ new.stage \in {Ladder[4], Ladder[5]} /\ new.terms = "final"
    /\ new.entitlement = old.entitlement

-----------------------------------------------------------------------------
(* The mirror: derive_progression_state, on the rows as they are *)

Latest(s, i) == /\ s[i].pkg = "compute"
                /\ \A k \in DOMAIN s : s[k].pkg = "compute" => k <= i

\* alpha_compute_gate, on the rows as they are.
ComputeGate(t, q, n, e) == t = "pass" /\ q /\ n /\ e.routed

\* alpha_core_gate
CoreGate(e) == e.pkg = "compute" /\ e.proven

FlagsOf(t, q, n, s, d) ==
    LET compute == \E i \in DOMAIN s : Latest(s, i) /\ ComputeGate(t, q, n, s[i])
        core    == compute /\ \E i \in DOMAIN s : Latest(s, i) /\ CoreGate(s[i])
    IN  {f \in {"value", "compute", "core"} :
            /\ f = "value" => d.value /\ d.stage = Ladder[5] /\ d.evidence = "proven"
            /\ f = "compute" => compute
            /\ f = "core" => core}

SyncBefore(l) == flags' = [flags EXCEPT ![l] =
    FlagsOf(trust[l], l \in qualified, l \in nda, evaluations[l], deal[l])]

Sync(l) == flags' = [flags EXCEPT ![l] =
    FlagsOf(trust'[l], l \in qualified', l \in nda', evaluations'[l], deal'[l])]

\* _sync runs after the save it mirrors and swallows every exception: until it has run, and
\* for good if it raised, the lead shows whatever the request's own instance of it carried,
\* which is not followed further.
Behind == {"behind"}
FallsBehind(l) == flags' = [flags EXCEPT ![l] = Behind]

Mirrored(l) == Sync(l) \/ FallsBehind(l)

CatchesUp(l) ==
    /\ flags[l] = Behind
    /\ UNCHANGED <<leadRows, loaded, deal, evaluations>> /\ Sync(l)

-----------------------------------------------------------------------------
(* The lead: screening, review, account and agreement *)

\* A request loads the lead it will act on.
LoadLead(l) ==
    /\ trust[l] = "pass" /\ loaded' = loaded \cup {l}
    /\ UNCHANGED <<leadRows, deal, evaluations, flags>>

Forget(l) == loaded' \in {loaded, loaded \ {l}}

\* The account is verified or closed, the qualification completed or emptied.
Requalify(l) ==
    /\ qualified' \in {qualified \cup {l}, qualified \ {l}}
    /\ UNCHANGED <<trust, escalated, screening, edits, nda, loaded, deal, evaluations, flags>>

\* NDARecord: signed, or declined or expired afterwards.
Agreement(l) ==
    /\ nda' \in {nda \cup {l}, nda \ {l}}
    /\ UNCHANGED <<trust, escalated, screening, edits, qualified, loaded, deal, evaluations, flags>>

GuardedReview(l) == trust[l] = "review"

\* The guard lets a screening change the status unless a review holds the lead.
Guarded(l) == trust[l] \in {"review", "reject"}

ScreenReads(l, v) ==
    /\ ~Guarded(l) /\ screening' = screening \cup {<<l, v>>}
    /\ UNCHANGED <<trust, escalated, edits, qualified, nda, loaded, deal, evaluations, flags>>

ScreenWrites(l, v) ==
    /\ <<l, v>> \in screening /\ screening' = screening \ {<<l, v>>}
    /\ trust' = [trust EXCEPT ![l] = v]
    /\ escalated' = IF v = "pass" THEN escalated \ {l} ELSE escalated \cup {l}
    /\ UNCHANGED <<edits, qualified, nda, loaded, deal, evaluations, flags>>

\* PATCH /leads/{id}/: perform_update saves all columns of the fetched instance.  The guard
\* compares the instance with the row before the save, at the earliest when they agree.
EditReads(l) ==
    /\ edits' = edits \cup {[lead |-> l, trust |-> trust[l], escalated |-> l \in escalated]}
    /\ UNCHANGED <<trust, escalated, screening, qualified, nda, loaded, deal, evaluations, flags>>

\* _lead_denormalized_progress_changed: the save is mirrored where there is something to mirror.
Governed(l) == \/ deal[l].stage # "none"
               \/ \E i \in DOMAIN evaluations[l] : evaluations[l][i].pkg # "combined"

\* The row gets the trust status, the qualification and the mirror the instance was fetched with.
EditWrites(e) ==
    /\ e \in edits /\ edits' = edits \ {e}
    /\ trust' = [trust EXCEPT ![e.lead] = e.trust]
    /\ escalated' = IF e.escalated THEN escalated \cup {e.lead} ELSE escalated \ {e.lead}
    /\ qualified' \in {qualified \cup {e.lead}, qualified \ {e.lead}}
    /\ UNCHANGED <<screening, nda, loaded, deal, evaluations>>
    /\ \/ FallsBehind(e.lead)
       \/ IF Governed(e.lead) THEN Sync(e.lead) ELSE UNCHANGED flags

\* resolve_trust_review, on the locked lead: a rejection is not reconsidered.
Reviewable(l, v) == /\ trust[l] # "unreviewed"
                    /\ trust[l] = "reject" => v = "reject"
                    /\ trust[l] = "pass" /\ l \notin escalated => v = "pass"

Review(l, v) ==
    /\ Reviewable(l, v)
    /\ trust' = [trust EXCEPT ![l] = v]
    /\ escalated' = IF v = "pass" THEN escalated ELSE escalated \cup {l}
    /\ UNCHANGED <<screening, edits, qualified, nda, loaded, deal, evaluations>> /\ Sync(l)

-----------------------------------------------------------------------------
(* The engagement *)

Saves(l, d) ==
    /\ deal' = [deal EXCEPT ![l] = d] /\ Forget(l)
    /\ UNCHANGED <<leadRows, evaluations>> /\ Mirrored(l)

Update(old, s, u) ==
    [old EXCEPT !.stage = s, !.evidence = u.evidence, !.value = u.value, !.terms = u.terms,
                !.ready = u.ready, !.built = u.built, !.executed = u.executed,
                !.entitlement = IF u.activate THEN "active" ELSE @]

\* apply_astop_progress: value needs the last stage, and an active entitlement in the
\* License-Out stage its prerequisites.
Consistent(d) ==
    /\ d.value => d.stage = Ladder[5]
    /\ d.stage = Ladder[4] /\ d.entitlement = "active" => Licensed(d)

Progress(l, s, u) ==
    /\ Reaches(deal[l].stage, s)
    /\ LET d == Update(deal[l], s, u) IN
       /\ Consistent(d) /\ SaveGuard(deal[l], d) /\ MayHold(l, d)
       /\ Saves(l, d)

\* set_governed_lo_terms: draft or final; after the execution only an identical replay.
SetTerms(l, t) ==
    /\ deal[l].stage \in {"controlled_evaluation", "lo_deployment"}
    /\ deal[l].executed = NoDate
    /\ Saves(l, [deal[l] EXCEPT !.terms = t])

SetReadinessUnrecorded(l, r) ==
    /\ deal[l].stage # "closed"
    /\ Saves(l, [deal[l] EXCEPT !.ready = r, !.terms = IF @ = "none" THEN "scope" ELSE @])

\* set_astop_readiness
SetReadiness(l, r) ==
    /\ deal[l].stage \notin {"none", "closed"}
    /\ Saves(l, [deal[l] EXCEPT !.ready = r, !.terms = IF @ = "none" THEN "scope" ELSE @])

\* update_astop_entitlement, on the locked record of a license-out.
Entitling(l) == deal[l].stage \in {"lo_deployment", "verify_expand"}

Activate(l, x) ==
    /\ Entitling(l) /\ EntitlementState(deal[l]) \in {"pending", "active"}
    /\ LET d == [deal[l] EXCEPT !.entitlement = "active", !.expiry = IF x = "none" THEN @ ELSE x]
       IN  /\ MayHold(l, d) /\ Licensed(d) /\ d.terms = "final" /\ d.ready
           /\ Saves(l, d)

ExpireEntitlement(l) ==
    /\ Entitling(l) /\ EntitlementState(deal[l]) = "active"
    /\ Saves(l, [deal[l] EXCEPT !.entitlement = "expired", !.expiry = "past"])

RevokeEntitlement(l) ==
    /\ Entitling(l) /\ EntitlementState(deal[l]) \in {"pending", "active"}
    /\ Saves(l, [deal[l] EXCEPT !.entitlement = "revoked"])

\* The clock passes entitlement_expires_at: no row is written.
EntitlementRunsOut(l) ==
    /\ deal[l].expiry = "future" /\ deal' = [deal EXCEPT ![l].expiry = "past"]
    /\ UNCHANGED <<leadRows, loaded, evaluations, flags>>

-----------------------------------------------------------------------------
(* Evaluations: created and changed by the team, and by ALPHA behind its gates *)

Evaluates(l, s) == evaluations' = [evaluations EXCEPT ![l] = s]
Adds(l, e) == Len(evaluations[l]) < MaxEvaluations /\ Evaluates(l, Append(evaluations[l], e))

\* _evaluation_changed: rows of other packages are passed over without an engagement.
EvaluationSaved(l, e) ==
    IF e.pkg = "core" \/ deal[l].stage # "none" THEN Mirrored(l) ELSE UNCHANGED flags

\* create_evaluation_for_lead: for any lead, unless one of its evaluations is open.
CreateEvaluation(l, p) ==
    LET e == [pkg |-> p, open |-> TRUE, routed |-> FALSE, proven |-> FALSE] IN
    /\ \A i \in DOMAIN evaluations[l] : ~evaluations[l][i].open
    /\ UNCHANGED <<leadRows, loaded, deal>>
    /\ Adds(l, e) /\ EvaluationSaved(l, e)

\* PATCH /evaluations/{id}/: package, status, route, proof and hardware case, either way.
PatchEvaluation(l, i, e) ==
    /\ i \in DOMAIN evaluations[l] /\ Evaluates(l, [evaluations[l] EXCEPT ![i] = e])
    /\ UNCHANGED <<leadRows, loaded, deal>> /\ EvaluationSaved(l, e)

\* create_alpha_compute_assessment, behind its gate: an open one is returned as it is.
OpenAssessment(l) ==
    /\ Accepted(l) /\ l \in nda
    /\ \A i \in DOMAIN evaluations[l] :
          ~(evaluations[l][i].pkg = "compute" /\ evaluations[l][i].open)
    /\ Adds(l, [pkg |-> "compute", open |-> TRUE, routed |-> TRUE, proven |-> FALSE])
    /\ Forget(l) /\ UNCHANGED <<leadRows, deal>> /\ Mirrored(l)

\* open_alpha_core_opportunity, on a Compute evaluation locked with its lead; an open
\* opportunity is returned as it is.
OpenCore(l, i) ==
    /\ i \in DOMAIN evaluations[l]
    /\ CoreGate(evaluations[l][i])
    /\ ComputeGate(trust[l], l \in qualified, l \in nda, evaluations[l][i])
    /\ \A k \in DOMAIN evaluations[l] :
          ~(evaluations[l][k].pkg = "core" /\ evaluations[l][k].open)
    /\ Adds(l, [pkg |-> "core", open |-> TRUE, routed |-> FALSE, proven |-> FALSE])
    /\ UNCHANGED <<leadRows, loaded, deal>> /\ Mirrored(l)

LeadSteps(l) ==
    \/ LoadLead(l) \/ Requalify(l) \/ Agreement(l) \/ CatchesUp(l)
    \/ \E v \in {"pass", "review", "reject"} :
          ScreenReads(l, v) \/ ScreenWrites(l, v) \/ Review(l, v)

EditSteps(l) == EditReads(l) \/ \E e \in edits : e.lead = l /\ EditWrites(e)

DealSteps(l, sent) ==
    \/ \E s \in Stages, u \in sent : Progress(l, s, u)
    \/ \E t \in {"scope", "final"} : SetTerms(l, t)
    \/ \E r \in BOOLEAN : SetReadiness(l, r)
    \/ \E x \in {"none", "future"} : Activate(l, x)
    \/ ExpireEntitlement(l) \/ RevokeEntitlement(l) \/ EntitlementRunsOut(l)

AlphaSteps(l) ==
    \/ OpenAssessment(l) \/ \E p \in Packages : CreateEvaluation(l, p)
    \/ \E i \in 1..MaxEvaluations :
          OpenCore(l, i) \/ \E e \in Evaluations : PatchEvaluation(l, i, e)

EngagementNext == \E l \in Leads :
    LeadSteps(l) \/ EditSteps(l) \/ DealSteps(l, Bodies) \/ AlphaSteps(l)

EngagementSpec == EngagementInit /\ [][EngagementNext]_engagementVars

-----------------------------------------------------------------------------
(* Properties *)

EngagementTypeOK ==
    /\ trust \in [Leads -> TrustStates] /\ escalated \subseteq Leads
    /\ screening \subseteq Leads \X {"pass", "review", "reject"}
    /\ edits \subseteq [lead : Leads, trust : TrustStates, escalated : BOOLEAN]
    /\ loaded \subseteq Leads /\ qualified \subseteq Leads /\ nda \subseteq Leads
    /\ deal \in [Leads -> Deals]
    /\ \A l \in Leads : deal[l].stage = "none" => deal[l] = NoDeal
    /\ evaluations \in [Leads -> Seq(Evaluations)]
    /\ \A l \in Leads : Len(evaluations[l]) <= MaxEvaluations
    /\ flags \in [Leads -> (SUBSET {"value", "compute", "core"}) \cup {Behind}]

\* Verified value is claimed only of an engagement at its last stage, and that stage stands
\* on the whole climb: complete proof, an executed License-Out with a scope and a controlled
\* build, and an entitlement that was active (_verify_expand_reasons).
ValueIsEarned == \A l \in Leads :
    /\ deal[l].value => deal[l].stage = "verify_expand"
    /\ deal[l].stage = "verify_expand" =>
          /\ deal[l].evidence = "proven" /\ deal[l].executed # NoDate
          /\ deal[l].terms # "none" /\ deal[l].built /\ deal[l].entitlement # "pending"

\* What ended stays ended under every writer and the clock: a closed engagement does not
\* reopen, an expired or revoked entitlement is never active again, an execution date never
\* changes (apply_astop_progress, update_astop_entitlement, the pre_save guard).
EndedStaysEnded == [][\A l \in Leads :
    /\ deal[l].stage = "closed" => deal'[l].stage = "closed"
    /\ EntitlementState(deal[l]) \in {"expired", "revoked"} =>
          EntitlementState(deal'[l]) \in {"expired", "revoked"}
    /\ deal[l].executed # NoDate => deal'[l].executed = deal[l].executed]_engagementVars

Undisturbed(l) == /\ l \notin loaded /\ \A v \in TrustStates : <<l, v>> \notin screening
                  /\ \A e \in edits : e.lead = l => e.trust = "reject"

\* A rejected prospect goes nowhere, once no screening and no request that read the lead
\* before is still under way: the rejection stands and none begins, the engagement climbs no rung past its first, no
\* mirror brought up to date shows a new ALPHA gate, whatever evaluation is created or
\* patched, and no entitlement of a recorded engagement becomes active
\* (resolve_trust_review, _protect_governed_trust_resolution).
RejectedGoesNowhere == [][\A l \in Leads :
    trust[l] = "reject" /\ Undisturbed(l) =>
        /\ trust'[l] = "reject" /\ Undisturbed(l)'
        /\ deal'[l].stage \in {deal[l].stage, "identify_qualify", "closed"}
        /\ deal[l].stage # "none" /\ deal'[l].entitlement = "active" =>
              deal[l].entitlement = "active"
        /\ flags'[l] \cap {"compute", "core"} \subseteq flags[l]]_engagementVars

\* Unless the last write of the mirror was swallowed, the flags the cockpit reads on the lead
\* claim verified value just when the record bears it, and a core gate only beside the
\* compute gate it rests on (sync_progression_state, run by every writer of the record).
FlagsFollowTheDeal == \A l \in Leads : flags[l] # Behind =>
    /\ "value" \in flags[l] <=> deal[l].value
    /\ "core" \in flags[l] => "compute" \in flags[l]
=================================================================================
