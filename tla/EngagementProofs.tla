---------------------------- MODULE EngagementProofs ----------------------------
(***************************************************************************)
(* Theorems about Engagement.  Its invariants are inductive together: the  *)
(* flags equal the record's value only because the record is Earned, and a *)
(* record is Earned because the gate of the last stage reads it.  Every    *)
(* writer of a record ends in Saves, so the proofs ask of each writer only *)
(* what it says of the record it saves.                                    *)
(***************************************************************************)
EXTENDS Engagement, TLAPS

Earned(d) ==
    /\ d.value => d.stage = "verify_expand"
    /\ d.stage = "verify_expand" => /\ d.evidence = "proven" /\ d.executed # NoDate
                                    /\ d.terms # "none" /\ d.built /\ d.entitlement # "pending"

Ended(old, new) ==
    /\ old.stage = "closed" => new.stage = "closed"
    /\ EntitlementState(old) \in {"expired", "revoked"} =>
          EntitlementState(new) \in {"expired", "revoked"}
    /\ old.executed # NoDate => new.executed = old.executed

EngagementInv == EngagementTypeOK /\ ValueIsEarned /\ FlagsFollowTheDeal

LEMMA Rungs == /\ Ladder[1] = "identify_qualify" /\ Ladder[2] = "nda_briefing"
               /\ Ladder[3] = "controlled_evaluation" /\ Ladder[4] = "lo_deployment"
               /\ Ladder[5] = "verify_expand"
BY DEF Ladder

LEMMA AllStages == Stages = {"identify_qualify", "nda_briefing", "controlled_evaluation",
                             "lo_deployment", "verify_expand", "closed"}
<1>1. 1..5 = {1, 2, 3, 4, 5}
      OBVIOUS
<1>2. QED BY <1>1, Rungs DEF Stages

LEMMA NoDealTyped == NoDeal \in Deals /\ Earned(NoDeal)
BY EngagementAssumption DEF NoDeal, Deals, Earned, Evidence, Terms

LEMMA DealTyped == ASSUME EngagementTypeOK, NEW l \in Leads PROVE deal[l] \in Deals
BY DEF EngagementTypeOK

LEMMA DealEarned == ASSUME ValueIsEarned, NEW l \in Leads PROVE Earned(deal[l])
BY DEF ValueIsEarned, Earned

LEMMA EngagementInitEstablishes == EngagementInit => EngagementInv
<1> SUFFICES ASSUME EngagementInit PROVE EngagementInv
    OBVIOUS
<1>1. EngagementTypeOK
  <2>1. <<>> \in Seq(Evaluations) /\ Len(<<>>) <= MaxEvaluations
        BY EngagementAssumption
  <2>2. QED BY <2>1, NoDealTyped DEF EngagementInit, EngagementTypeOK, TrustStates
<1>2. ValueIsEarned
      BY DEF EngagementInit, ValueIsEarned, NoDeal
<1>3. FlagsFollowTheDeal
      BY DEF EngagementInit, FlagsFollowTheDeal, NoDeal
<1>4. QED BY <1>1, <1>2, <1>3 DEF EngagementInv

-----------------------------------------------------------------------------
(* The mirror *)

LEMMA FlagsSay ==
    ASSUME NEW t, NEW q, NEW n, NEW e, NEW d, Earned(d), d.value \in BOOLEAN
    PROVE  LET F == FlagsOf(t, q, n, e, d)
           IN  /\ "value" \in F <=> d.value
               /\ "core" \in F => "compute" \in F
               /\ F \in SUBSET {"value", "compute", "core"}
BY Rungs DEF FlagsOf, Earned

\* A mirror brought up to date over Earned records follows them; one that fell behind is free.
LEMMA MirrorFollows ==
    ASSUME EngagementInv, NEW l \in Leads, Mirrored(l), deal'[l] \in Deals, Earned(deal'[l]),
           \A k \in Leads : k # l => deal'[k] = deal[k]
    PROVE  FlagsFollowTheDeal' /\ flags' \in [Leads -> (SUBSET {"value", "compute", "core"}) \cup {Behind}]
<1>1. PICK F : /\ flags' = [flags EXCEPT ![l] = F]
               /\ F # Behind => /\ "value" \in F <=> deal'[l].value
                                /\ "core" \in F => "compute" \in F
               /\ F \in (SUBSET {"value", "compute", "core"}) \cup {Behind}
  <2>1. CASE FallsBehind(l)
        BY <2>1 DEF FallsBehind
  <2>2. CASE Sync(l)
    <3> DEFINE F == FlagsOf(trust'[l], l \in qualified', l \in nda', evaluations'[l], deal'[l])
    <3>1. flags' = [flags EXCEPT ![l] = F]
          BY <2>2 DEF Sync
    <3>2. deal'[l].value \in BOOLEAN
          BY DEF Deals
    <3>3. /\ "value" \in F <=> deal'[l].value
          /\ "core" \in F => "compute" \in F
          /\ F \in SUBSET {"value", "compute", "core"}
          BY <3>2, FlagsSay
    <3> HIDE DEF F
    <3>4. QED BY <3>1, <3>3
  <2>3. QED BY <2>1, <2>2 DEF Mirrored
<1>2. QED BY <1>1 DEF EngagementInv, FlagsFollowTheDeal, EngagementTypeOK

\* A writer that saves a record keeps the invariant if the record is Earned.
LEMMA SavesKeeps ==
    ASSUME EngagementInv, NEW l \in Leads, NEW d \in Deals, d.stage # "none", Earned(d), Saves(l, d)
    PROVE  EngagementInv'
<1>1. /\ deal' = [deal EXCEPT ![l] = d] /\ loaded' \subseteq Leads
      /\ UNCHANGED <<trust, escalated, screening, edits, qualified, nda, evaluations>>
      BY DEF Saves, Forget, leadRows, EngagementInv, EngagementTypeOK
<1>2. deal'[l] = d /\ \A k \in Leads : k # l => deal'[k] = deal[k]
      BY <1>1 DEF EngagementInv, EngagementTypeOK
<1>3. ValueIsEarned'
      BY <1>2 DEF EngagementInv, ValueIsEarned, Earned
<1>4. FlagsFollowTheDeal' /\ flags' \in [Leads -> (SUBSET {"value", "compute", "core"}) \cup {Behind}]
      BY <1>2, MirrorFollows DEF Saves
<1>5. deal' \in [Leads -> Deals] /\ \A k \in Leads : deal'[k].stage = "none" => deal'[k] = NoDeal
      BY <1>1, <1>2 DEF EngagementInv, EngagementTypeOK
<1>6. EngagementTypeOK'
      BY <1>1, <1>4, <1>5 DEF EngagementInv, EngagementTypeOK
<1>7. QED BY <1>3, <1>4, <1>6 DEF EngagementInv

-----------------------------------------------------------------------------
(* The writers of a record *)

LEMMA UpdateTyped ==
    ASSUME NEW old \in Deals, NEW s \in Stages, NEW u \in Bodies
    PROVE  /\ Update(old, s, u) \in Deals /\ Update(old, s, u).stage = s
           /\ Update(old, s, u).executed = u.executed
           /\ Update(old, s, u).expiry = old.expiry
<1>1. /\ u.evidence \in Evidence /\ u.value \in BOOLEAN /\ u.terms \in Terms /\ u.ready \in BOOLEAN
      /\ u.executed \in Dates \cup {NoDate} /\ u.built \in BOOLEAN
      BY DEF Bodies
<1>2. QED BY <1>1 DEF Update, Deals

\* What reaches the last stage through its gate is Earned; what does not claims no value.
LEMMA GateEarns ==
    ASSUME NEW ok, NEW signed, NEW d \in Deals, StageGate(ok, signed, d), Consistent(d)
    PROVE  Earned(d)
<1>1. d.value => d.stage = "verify_expand"
      BY Rungs DEF Consistent
<1>2. d.stage = "verify_expand" => d.evidence = "proven" /\ Licensed(d)
      BY Rungs DEF StageGate
<1>3. Licensed(d) => d.executed # NoDate /\ d.terms # "none" /\ d.built /\ d.entitlement # "pending"
      BY DEF Licensed, EntitlementState
<1>4. QED BY <1>1, <1>2, <1>3 DEF Earned

LEMMA ProgressKeeps ==
    ASSUME EngagementInv, NEW l \in Leads, NEW s \in Stages, NEW u \in Bodies, Progress(l, s, u)
    PROVE  EngagementInv'
<1> DEFINE d == Update(deal[l], s, u)
<1>1. d \in Deals /\ d.stage = s
      BY UpdateTyped, DealTyped DEF EngagementInv
<1>2. Consistent(d) /\ MayHold(l, d) /\ Saves(l, d)
      BY DEF Progress
<1>3. Earned(d)
      BY <1>1, <1>2, GateEarns DEF MayHold
<1>4. d.stage # "none"
      BY <1>1, AllStages
<1> HIDE DEF d
<1>5. QED BY <1>1, <1>2, <1>3, <1>4, SavesKeeps

LEMMA SetTermsKeeps ==
    ASSUME EngagementInv, NEW l \in Leads, NEW t \in {"scope", "final"}, SetTerms(l, t)
    PROVE  EngagementInv'
<1>1. \A r \in Deals : /\ [r EXCEPT !.terms = t] \in Deals
                       /\ [r EXCEPT !.terms = t].stage = r.stage
                       /\ [r EXCEPT !.terms = t].value = r.value
      BY DEF Deals, Terms
<1>2. deal[l] \in Deals /\ Earned(deal[l])
      BY DealTyped, DealEarned DEF EngagementInv
<1>3. Earned([deal[l] EXCEPT !.terms = t])
      BY <1>1, <1>2 DEF SetTerms, Earned
<1>4. [deal[l] EXCEPT !.terms = t].stage # "none"
      BY <1>1, <1>2 DEF SetTerms
<1>5. QED BY <1>1, <1>2, <1>3, <1>4, SavesKeeps DEF SetTerms

LEMMA SetReadinessKeeps ==
    ASSUME EngagementInv, NEW l \in Leads, NEW r \in BOOLEAN, SetReadiness(l, r)
    PROVE  EngagementInv'
<1> DEFINE d == [deal[l] EXCEPT !.ready = r, !.terms = IF @ = "none" THEN "scope" ELSE @]
<1>1. deal[l] \in Deals /\ Earned(deal[l])
      BY DealTyped, DealEarned DEF EngagementInv
<1>2. /\ d \in Deals /\ d.stage = deal[l].stage /\ d.value = deal[l].value
      /\ d.evidence = deal[l].evidence /\ d.executed = deal[l].executed
      /\ d.built = deal[l].built /\ d.entitlement = deal[l].entitlement
      /\ d.terms # "none"
      BY <1>1 DEF Deals, Terms
<1>3. Earned(d) /\ d.stage # "none" /\ Saves(l, d)
      BY <1>1, <1>2 DEF Earned, SetReadiness
<1> HIDE DEF d
<1>4. QED BY <1>2, <1>3, SavesKeeps

\* Activating, expiring and revoking change the entitlement, never back to pending.
LEMMA EntitlesTyped ==
    ASSUME NEW old \in Deals, Earned(old), NEW e \in {"active", "expired", "revoked"},
           NEW x \in {"none", "future", "past"}
    PROVE  LET d == [old EXCEPT !.entitlement = e, !.expiry = x]
           IN  /\ d \in Deals /\ d.stage = old.stage /\ Earned(d)
BY DEF Deals, Earned

LEMMA ActivateKeeps ==
    ASSUME EngagementInv, NEW l \in Leads, NEW x \in {"none", "future"}, Activate(l, x)
    PROVE  EngagementInv'
<1> DEFINE y == IF x = "none" THEN deal[l].expiry ELSE x
           d == [deal[l] EXCEPT !.entitlement = "active", !.expiry = y]
<1>1. deal[l] \in Deals /\ Earned(deal[l])
      BY DealTyped, DealEarned DEF EngagementInv
<1>2. y \in {"none", "future", "past"}
      BY <1>1 DEF Deals
<1>3. Saves(l, d) /\ deal[l].stage # "none"
      BY <1>1 DEF Activate, Entitling
<1>4. d \in Deals /\ d.stage = deal[l].stage /\ Earned(d)
      BY <1>1, <1>2, EntitlesTyped
<1> HIDE DEF d
<1>5. QED BY <1>3, <1>4, SavesKeeps

LEMMA ExpireKeeps ==
    ASSUME EngagementInv, NEW l \in Leads, ExpireEntitlement(l) PROVE EngagementInv'
<1> DEFINE d == [deal[l] EXCEPT !.entitlement = "expired", !.expiry = "past"]
<1>1. deal[l] \in Deals /\ Earned(deal[l])
      BY DealTyped, DealEarned DEF EngagementInv
<1>2. Saves(l, d) /\ deal[l].stage # "none"
      BY DEF ExpireEntitlement, Entitling
<1>3. d \in Deals /\ d.stage = deal[l].stage /\ Earned(d)
      BY <1>1, EntitlesTyped
<1> HIDE DEF d
<1>4. QED BY <1>2, <1>3, SavesKeeps

LEMMA RevokeKeeps ==
    ASSUME EngagementInv, NEW l \in Leads, RevokeEntitlement(l) PROVE EngagementInv'
<1> DEFINE d == [deal[l] EXCEPT !.entitlement = "revoked"]
<1>1. deal[l] \in Deals /\ Earned(deal[l])
      BY DealTyped, DealEarned DEF EngagementInv
<1>2. Saves(l, d) /\ deal[l].stage # "none"
      BY DEF RevokeEntitlement, Entitling
<1>3. d \in Deals /\ d.stage = deal[l].stage /\ Earned(d)
      BY <1>1 DEF Deals, Earned
<1> HIDE DEF d
<1>4. QED BY <1>2, <1>3, SavesKeeps

LEMMA RunsOutKeeps ==
    ASSUME EngagementInv, NEW l \in Leads, EntitlementRunsOut(l) PROVE EngagementInv'
<1> DEFINE d == [deal[l] EXCEPT !.expiry = "past"]
<1>1. deal[l] \in Deals /\ Earned(deal[l])
      BY DealTyped, DealEarned DEF EngagementInv
<1>2. /\ d \in Deals /\ d.stage = deal[l].stage /\ Earned(d) /\ d.value = deal[l].value
      /\ d # NoDeal => d.stage # "none"
  <2>1. d.expiry = "past" /\ deal[l].expiry = "future"
        BY <1>1 DEF Deals, EntitlementRunsOut
  <2>2. deal[l].stage # "none"
        BY <2>1 DEF EngagementInv, EngagementTypeOK, NoDeal
  <2>3. QED BY <1>1, <2>2 DEF Deals, Earned
<1>3. deal' = [deal EXCEPT ![l] = d]
      BY DEF EntitlementRunsOut
<1>4. d.stage # "none"
  <2>1. deal[l].expiry = "future"
        BY DEF EntitlementRunsOut
  <2>2. QED BY <1>2, <2>1 DEF EngagementInv, EngagementTypeOK, NoDeal
<1> HIDE DEF d
<1>5. deal'[l] = d /\ \A k \in Leads : k # l => deal'[k] = deal[k]
      BY <1>3 DEF EngagementInv, EngagementTypeOK
<1>6. EngagementTypeOK'
      BY <1>2, <1>3, <1>4, <1>5 DEF EngagementInv, EngagementTypeOK, EntitlementRunsOut, leadRows
<1>7. ValueIsEarned'
      BY <1>2, <1>5 DEF EngagementInv, ValueIsEarned, Earned
<1>8. FlagsFollowTheDeal'
      BY <1>2, <1>5 DEF EngagementInv, FlagsFollowTheDeal, EntitlementRunsOut
<1>9. QED BY <1>6, <1>7, <1>8 DEF EngagementInv

-----------------------------------------------------------------------------
(* Everything else *)

\* What leaves the record, the evaluations and the flags alone disturbs only types.
LEMMA OthersKeep ==
    ASSUME EngagementInv, UNCHANGED <<deal, evaluations, flags>>,
           trust' \in [Leads -> TrustStates], escalated' \subseteq Leads,
           screening' \subseteq Leads \X {"pass", "review", "reject"},
           edits' \subseteq [lead : Leads, trust : TrustStates, escalated : BOOLEAN],
           loaded' \subseteq Leads, qualified' \subseteq Leads, nda' \subseteq Leads
    PROVE  EngagementInv'
BY DEF EngagementInv, EngagementTypeOK, ValueIsEarned, FlagsFollowTheDeal

LEMMA RowsKeep ==
    ASSUME EngagementInv, NEW l \in Leads, LoadLead(l) \/ Requalify(l) \/ Agreement(l)
    PROVE  EngagementInv'
<1>1. CASE LoadLead(l)
      BY <1>1, OthersKeep DEF LoadLead, leadRows, EngagementInv, EngagementTypeOK
<1>2. CASE Requalify(l)
      BY <1>2, OthersKeep DEF Requalify, EngagementInv, EngagementTypeOK
<1>3. CASE Agreement(l)
      BY <1>3, OthersKeep DEF Agreement, EngagementInv, EngagementTypeOK
<1>4. QED BY <1>1, <1>2, <1>3

LEMMA ScreeningKeeps ==
    ASSUME EngagementInv, NEW l \in Leads, NEW v \in {"pass", "review", "reject"},
           ScreenReads(l, v) \/ ScreenWrites(l, v)
    PROVE  EngagementInv'
<1>1. CASE ScreenReads(l, v)
      BY <1>1, OthersKeep DEF ScreenReads, EngagementInv, EngagementTypeOK
<1>2. CASE ScreenWrites(l, v)
      BY <1>2, OthersKeep DEF ScreenWrites, EngagementInv, EngagementTypeOK, TrustStates
<1>3. QED BY <1>1, <1>2

LEMMA ReviewKeeps ==
    ASSUME EngagementInv, NEW l \in Leads, NEW v \in {"pass", "review", "reject"}, Review(l, v)
    PROVE  EngagementInv'
<1>1. Sync(l) /\ UNCHANGED <<deal, evaluations>>
      BY DEF Review
<1>2. FlagsFollowTheDeal' /\ flags' \in [Leads -> (SUBSET {"value", "compute", "core"}) \cup {Behind}]
      BY <1>1, MirrorFollows, DealTyped, DealEarned DEF Mirrored, EngagementInv
<1>3. trust' \in [Leads -> TrustStates] /\ escalated' \subseteq Leads
      BY DEF Review, EngagementInv, EngagementTypeOK, TrustStates
<1>4. EngagementTypeOK'
      BY <1>1, <1>2, <1>3 DEF Review, EngagementInv, EngagementTypeOK
<1>5. ValueIsEarned'
      BY <1>1 DEF EngagementInv, ValueIsEarned
<1>6. QED BY <1>2, <1>4, <1>5 DEF EngagementInv

\* A whole-row save puts columns of their kinds back, over records it does not touch.
LEMMA EditReadsKeeps == ASSUME EngagementInv, NEW l \in Leads, EditReads(l) PROVE EngagementInv'
<1>1. [lead |-> l, trust |-> trust[l], escalated |-> l \in escalated]
          \in [lead : Leads, trust : TrustStates, escalated : BOOLEAN]
  <2>1. trust[l] \in TrustStates /\ (l \in escalated) \in BOOLEAN
        BY DEF EngagementInv, EngagementTypeOK
  <2>2. QED BY <2>1
<1>2. QED BY <1>1, OthersKeep DEF EditReads, EngagementInv, EngagementTypeOK

LEMMA EditWritesKeeps ==
    ASSUME EngagementInv, NEW e \in edits, e.lead \in Leads, EditWrites(e)
    PROVE  EngagementInv'
<1>1. /\ deal' = deal /\ UNCHANGED <<screening, nda, loaded, evaluations>> /\ edits' \subseteq edits
      /\ Mirrored(e.lead) \/ UNCHANGED flags
      BY DEF EditWrites, Mirrored
<1>2. FlagsFollowTheDeal' /\ flags' \in [Leads -> (SUBSET {"value", "compute", "core"}) \cup {Behind}]
  <2>1. CASE Mirrored(e.lead)
        BY <1>1, <2>1, MirrorFollows, DealTyped, DealEarned DEF EngagementInv
  <2>2. CASE UNCHANGED flags
        BY <1>1, <2>2 DEF EngagementInv, FlagsFollowTheDeal, EngagementTypeOK
  <2>3. QED BY <1>1, <2>1, <2>2
<1>3. trust' \in [Leads -> TrustStates] /\ escalated' \subseteq Leads /\ qualified' \subseteq Leads
  <2>1. e.trust \in TrustStates
        BY DEF EngagementInv, EngagementTypeOK
  <2>2. QED BY <2>1 DEF EditWrites, EngagementInv, EngagementTypeOK
<1>4. EngagementTypeOK'
      BY <1>1, <1>2, <1>3 DEF EngagementInv, EngagementTypeOK
<1>5. ValueIsEarned'
      BY <1>1 DEF EngagementInv, ValueIsEarned
<1>6. QED BY <1>2, <1>4, <1>5 DEF EngagementInv

LEMMA EditKeeps == ASSUME EngagementInv, NEW l \in Leads, EditSteps(l) PROVE EngagementInv'
BY EditReadsKeeps, EditWritesKeeps DEF EditSteps

LEMMA CatchesUpKeeps == ASSUME EngagementInv, NEW l \in Leads, CatchesUp(l) PROVE EngagementInv'
<1>1. Sync(l) /\ UNCHANGED <<leadRows, loaded, deal, evaluations>>
      BY DEF CatchesUp
<1>2. FlagsFollowTheDeal' /\ flags' \in [Leads -> (SUBSET {"value", "compute", "core"}) \cup {Behind}]
      BY <1>1, MirrorFollows, DealTyped, DealEarned DEF Mirrored, EngagementInv
<1>3. EngagementTypeOK' /\ ValueIsEarned'
      BY <1>1, <1>2 DEF leadRows, EngagementInv, EngagementTypeOK, ValueIsEarned
<1>4. QED BY <1>2, <1>3 DEF EngagementInv

\* What ALPHA and the team write touches the evaluations, and the mirror if anything.
LEMMA EvaluationsKeep ==
    ASSUME EngagementInv, NEW l \in Leads, NEW s \in Seq(Evaluations), Len(s) <= MaxEvaluations,
           Evaluates(l, s), Mirrored(l) \/ UNCHANGED flags,
           UNCHANGED <<leadRows, deal>>, loaded' \subseteq loaded
    PROVE  EngagementInv'
<1>1. /\ evaluations' \in [Leads -> Seq(Evaluations)]
      /\ \A k \in Leads : Len(evaluations'[k]) <= MaxEvaluations
      BY DEF Evaluates, EngagementInv, EngagementTypeOK
<1>2. FlagsFollowTheDeal' /\ flags' \in [Leads -> (SUBSET {"value", "compute", "core"}) \cup {Behind}]
  <2>1. CASE Mirrored(l)
        BY <2>1, MirrorFollows, DealTyped, DealEarned DEF EngagementInv
  <2>2. CASE UNCHANGED flags
        BY <2>2 DEF EngagementInv, FlagsFollowTheDeal, EngagementTypeOK
  <2>3. QED BY <2>1, <2>2
<1>3. EngagementTypeOK'
      BY <1>1, <1>2 DEF leadRows, EngagementInv, EngagementTypeOK
<1>4. ValueIsEarned'
      BY DEF EngagementInv, ValueIsEarned
<1>5. QED BY <1>2, <1>3, <1>4 DEF EngagementInv

\* An evaluation added fits the bound; one changed leaves their number.
LEMMA AddsTyped ==
    ASSUME EngagementInv, NEW l \in Leads, NEW e \in Evaluations, Adds(l, e)
    PROVE  /\ Evaluates(l, Append(evaluations[l], e))
           /\ Append(evaluations[l], e) \in Seq(Evaluations)
           /\ Len(Append(evaluations[l], e)) <= MaxEvaluations
<1>1. evaluations[l] \in Seq(Evaluations)
      BY DEF EngagementInv, EngagementTypeOK
<1>2. QED BY <1>1, EngagementAssumption DEF Adds

LEMMA PatchTyped ==
    ASSUME EngagementInv, NEW l \in Leads, NEW i \in DOMAIN evaluations[l], NEW e \in Evaluations
    PROVE  /\ [evaluations[l] EXCEPT ![i] = e] \in Seq(Evaluations)
           /\ Len([evaluations[l] EXCEPT ![i] = e]) <= MaxEvaluations
<1>1. evaluations[l] \in Seq(Evaluations) /\ Len(evaluations[l]) <= MaxEvaluations
      BY DEF EngagementInv, EngagementTypeOK
<1>2. QED BY <1>1

LEMMA AlphaKeeps == ASSUME EngagementInv, NEW l \in Leads, AlphaSteps(l) PROVE EngagementInv'
<1>1. CASE \E p \in Packages : CreateEvaluation(l, p)
  <2>1. PICK p \in Packages : CreateEvaluation(l, p)
        BY <1>1
  <2> DEFINE e == [pkg |-> p, open |-> TRUE, routed |-> FALSE, proven |-> FALSE]
  <2>2. e \in Evaluations /\ Adds(l, e) /\ EvaluationSaved(l, e) /\ UNCHANGED <<leadRows, loaded, deal>>
        BY <2>1 DEF CreateEvaluation, Evaluations
  <2>3. Mirrored(l) \/ UNCHANGED flags
        BY <2>2 DEF EvaluationSaved
  <2> HIDE DEF e
  <2>4. QED BY <2>2, <2>3, AddsTyped, EvaluationsKeep
<1>2. CASE OpenAssessment(l)
  <2> DEFINE e == [pkg |-> "compute", open |-> TRUE, routed |-> TRUE, proven |-> FALSE]
  <2>1. /\ e \in Evaluations /\ Adds(l, e) /\ Mirrored(l) /\ UNCHANGED <<leadRows, deal>>
        /\ loaded' \subseteq loaded
        BY <1>2 DEF OpenAssessment, Evaluations, Packages, Forget
  <2> HIDE DEF e
  <2>2. QED BY <2>1, AddsTyped, EvaluationsKeep
<1>3. CASE \E i \in 1..MaxEvaluations : OpenCore(l, i)
  <2> DEFINE e == [pkg |-> "core", open |-> TRUE, routed |-> FALSE, proven |-> FALSE]
  <2>1. e \in Evaluations /\ Adds(l, e) /\ Mirrored(l) /\ UNCHANGED <<leadRows, loaded, deal>>
        BY <1>3 DEF OpenCore, Evaluations, Packages
  <2> HIDE DEF e
  <2>2. QED BY <2>1, AddsTyped, EvaluationsKeep
<1>4. CASE \E i \in 1..MaxEvaluations, e \in Evaluations : PatchEvaluation(l, i, e)
  <2>1. PICK i \in 1..MaxEvaluations, e \in Evaluations : PatchEvaluation(l, i, e)
        BY <1>4
  <2>2. /\ i \in DOMAIN evaluations[l] /\ Evaluates(l, [evaluations[l] EXCEPT ![i] = e])
        /\ UNCHANGED <<leadRows, loaded, deal>> /\ EvaluationSaved(l, e)
        BY <2>1 DEF PatchEvaluation
  <2>3. Mirrored(l) \/ UNCHANGED flags
        BY <2>2 DEF EvaluationSaved
  <2>4. QED BY <2>2, <2>3, PatchTyped, EvaluationsKeep
<1>5. QED BY <1>1, <1>2, <1>3, <1>4 DEF AlphaSteps

LEMMA LeadKeeps == ASSUME EngagementInv, NEW l \in Leads, LeadSteps(l) PROVE EngagementInv'
BY RowsKeep, CatchesUpKeeps, ScreeningKeeps, ReviewKeeps DEF LeadSteps

LEMMA DealKeeps == ASSUME EngagementInv, NEW l \in Leads, DealSteps(l, Bodies) PROVE EngagementInv'
<1>1. CASE \E s \in Stages, u \in Bodies : Progress(l, s, u)
      BY <1>1, ProgressKeeps
<1>2. CASE \E t \in {"scope", "final"} : SetTerms(l, t)
      BY <1>2, SetTermsKeeps
<1>3. CASE \E r \in BOOLEAN : SetReadiness(l, r)
      BY <1>3, SetReadinessKeeps
<1>4. CASE \E x \in {"none", "future"} : Activate(l, x)
      BY <1>4, ActivateKeeps
<1>5. CASE ExpireEntitlement(l) \/ RevokeEntitlement(l) \/ EntitlementRunsOut(l)
      BY <1>5, ExpireKeeps, RevokeKeeps, RunsOutKeeps
<1>6. QED BY <1>1, <1>2, <1>3, <1>4, <1>5 DEF DealSteps

LEMMA EngagementStutterKeeps == ASSUME EngagementInv, UNCHANGED engagementVars PROVE EngagementInv'
BY DEF engagementVars, leadRows, EngagementInv, EngagementTypeOK, ValueIsEarned, FlagsFollowTheDeal

LEMMA EngagementNextKeeps == EngagementInv /\ [EngagementNext]_engagementVars => EngagementInv'
BY LeadKeeps, EditKeeps, DealKeeps, AlphaKeeps, EngagementStutterKeeps DEF EngagementNext

LEMMA EngagementInvariance == EngagementSpec => []EngagementInv
<1>1. QED BY EngagementInitEstablishes, EngagementNextKeeps, PTL DEF EngagementSpec

\* Type correctness, for every number of leads and every set of dates; a lead without an
\* engagement holds the empty record.
THEOREM EngagementTypeCorrect == EngagementSpec => []EngagementTypeOK
<1>1. EngagementInv => EngagementTypeOK
      BY DEF EngagementInv
<1>2. QED BY <1>1, EngagementInvariance, PTL

\* No sequence of progressions, terms, readiness changes and entitlement decisions leaves a
\* record that claims verified value without the whole climb behind it.
THEOREM ValueIsAlwaysEarned == EngagementSpec => []ValueIsEarned
<1>1. EngagementInv => ValueIsEarned
      BY DEF EngagementInv
<1>2. QED BY <1>1, EngagementInvariance, PTL

\* Unless the last write of the mirror was swallowed, the flags on the lead claim verified
\* value exactly when the record bears it, and a core gate only beside the compute gate.
THEOREM FlagsAlwaysFollow == EngagementSpec => []FlagsFollowTheDeal
<1>1. EngagementInv => FlagsFollowTheDeal
      BY DEF EngagementInv
<1>2. QED BY <1>1, EngagementInvariance, PTL
-----------------------------------------------------------------------------
(* What ended stays ended *)

LEMMA SavesEnds ==
    ASSUME EngagementInv, NEW l \in Leads, NEW d, Saves(l, d), Ended(deal[l], d), NEW k \in Leads
    PROVE  Ended(deal[k], deal'[k])
<1>1. deal'[l] = d /\ (k # l => deal'[k] = deal[k])
      BY DEF Saves, EngagementInv, EngagementTypeOK
<1>2. Ended(deal[k], deal[k])
      BY DEF Ended
<1>3. QED BY <1>1, <1>2

LEMMA SameEnds == ASSUME deal' = deal, NEW k \in Leads PROVE Ended(deal[k], deal'[k])
BY DEF Ended

\* The guard of every save of an existing record.
LEMMA ProgressEnds ==
    ASSUME EngagementInv, NEW l \in Leads, NEW s \in Stages, NEW u \in Bodies, Progress(l, s, u),
           NEW k \in Leads
    PROVE  Ended(deal[k], deal'[k])
<1> DEFINE d == Update(deal[l], s, u)
<1>1. deal[l] \in Deals
      BY DealTyped DEF EngagementInv
<1>2. d \in Deals /\ d.stage = s /\ d.expiry = deal[l].expiry
      BY <1>1, UpdateTyped
<1>3. Reaches(deal[l].stage, s) /\ SaveGuard(deal[l], d) /\ Saves(l, d)
      BY DEF Progress
<1>4. deal[l].stage = "closed" => s = "closed"
      BY <1>3, Rungs DEF Reaches
<1>5. CASE deal[l].stage = "none"
  <2>1. deal[l] = NoDeal
        BY <1>5 DEF EngagementInv, EngagementTypeOK
  <2>2. Ended(deal[l], d)
        BY <2>1 DEF Ended, EntitlementState, NoDeal
  <2> HIDE DEF d
  <2>3. QED BY <1>3, <2>2, SavesEnds
<1>6. CASE deal[l].stage # "none"
  <2>1. d.entitlement = deal[l].entitlement
        BY <1>3, <1>6 DEF SaveGuard
  <2>2. deal[l].executed # NoDate => d.executed = deal[l].executed
        BY <1>3, <1>6 DEF SaveGuard
  <2> HIDE DEF d
  <2>3. Ended(deal[l], d)
        BY <1>2, <1>4, <2>1, <2>2 DEF Ended, EntitlementState
  <2>4. QED BY <1>3, <2>3, SavesEnds
<1>7. QED BY <1>5, <1>6

LEMMA TermsEnd ==
    ASSUME EngagementInv, NEW l \in Leads, NEW k \in Leads,
           \/ \E t \in {"scope", "final"} : SetTerms(l, t)
           \/ \E r \in BOOLEAN : SetReadiness(l, r)
    PROVE  Ended(deal[k], deal'[k])
<1>1. deal[l] \in Deals
      BY DealTyped DEF EngagementInv
<1>2. PICK d : /\ Saves(l, d)
               /\ d.stage = deal[l].stage /\ d.executed = deal[l].executed
               /\ d.entitlement = deal[l].entitlement /\ d.expiry = deal[l].expiry
  <2>1. CASE \E t \in {"scope", "final"} : SetTerms(l, t)
    <3>1. PICK t \in {"scope", "final"} : Saves(l, [deal[l] EXCEPT !.terms = t])
          BY <2>1 DEF SetTerms
    <3> DEFINE d == [deal[l] EXCEPT !.terms = t]
    <3>2. /\ d.stage = deal[l].stage /\ d.executed = deal[l].executed
          /\ d.entitlement = deal[l].entitlement /\ d.expiry = deal[l].expiry
          BY <1>1 DEF Deals
    <3>3. QED BY <3>1, <3>2
  <2>2. CASE \E r \in BOOLEAN : SetReadiness(l, r)
    <3>1. PICK r \in BOOLEAN : Saves(l, [deal[l] EXCEPT !.ready = r,
                                           !.terms = IF @ = "none" THEN "scope" ELSE @])
          BY <2>2 DEF SetReadiness
    <3> DEFINE d == [deal[l] EXCEPT !.ready = r, !.terms = IF @ = "none" THEN "scope" ELSE @]
    <3>2. /\ d.stage = deal[l].stage /\ d.executed = deal[l].executed
          /\ d.entitlement = deal[l].entitlement /\ d.expiry = deal[l].expiry
          BY <1>1 DEF Deals
    <3>3. QED BY <3>1, <3>2
  <2>3. QED BY <2>1, <2>2
<1>3. Ended(deal[l], d)
      BY <1>2 DEF Ended, EntitlementState
<1>4. QED BY <1>2, <1>3, SavesEnds

LEMMA EntitlementEnds ==
    ASSUME EngagementInv, NEW l \in Leads, NEW k \in Leads,
           \/ \E x \in {"none", "future"} : Activate(l, x)
           \/ ExpireEntitlement(l) \/ RevokeEntitlement(l)
    PROVE  Ended(deal[k], deal'[k])
<1>1. deal[l] \in Deals
      BY DealTyped DEF EngagementInv
<1>2. CASE \E x \in {"none", "future"} : Activate(l, x)
  <2>1. PICK x \in {"none", "future"} : Activate(l, x)
        BY <1>2
  <2> DEFINE d == [deal[l] EXCEPT !.entitlement = "active", !.expiry = IF x = "none" THEN @ ELSE x]
  <2>2. Saves(l, d) /\ EntitlementState(deal[l]) \in {"pending", "active"}
        BY <2>1 DEF Activate
  <2>3. d.stage = deal[l].stage /\ d.executed = deal[l].executed
        BY <1>1 DEF Deals
  <2> HIDE DEF d
  <2>4. Ended(deal[l], d)
        BY <2>2, <2>3 DEF Ended
  <2>5. QED BY <2>2, <2>4, SavesEnds
<1>3. CASE ExpireEntitlement(l)
  <2> DEFINE d == [deal[l] EXCEPT !.entitlement = "expired", !.expiry = "past"]
  <2>1. Saves(l, d)
        BY <1>3 DEF ExpireEntitlement
  <2>2. /\ d.stage = deal[l].stage /\ d.executed = deal[l].executed
        /\ d.entitlement = "expired"
        BY <1>1 DEF Deals
  <2> HIDE DEF d
  <2>3. Ended(deal[l], d)
        BY <2>2 DEF Ended, EntitlementState
  <2>4. QED BY <2>1, <2>3, SavesEnds
<1>4. CASE RevokeEntitlement(l)
  <2> DEFINE d == [deal[l] EXCEPT !.entitlement = "revoked"]
  <2>1. Saves(l, d)
        BY <1>4 DEF RevokeEntitlement
  <2>2. /\ d.stage = deal[l].stage /\ d.executed = deal[l].executed
        /\ d.entitlement = "revoked"
        BY <1>1 DEF Deals
  <2> HIDE DEF d
  <2>3. Ended(deal[l], d)
        BY <2>2 DEF Ended, EntitlementState
  <2>4. QED BY <2>1, <2>3, SavesEnds
<1>5. QED BY <1>2, <1>3, <1>4

LEMMA ClockEnds ==
    ASSUME EngagementInv, NEW l \in Leads, NEW k \in Leads, EntitlementRunsOut(l)
    PROVE  Ended(deal[k], deal'[k])
<1> DEFINE d == [deal[l] EXCEPT !.expiry = "past"]
<1>1. deal' = [deal EXCEPT ![l] = d] /\ deal[l] \in Deals
      BY DealTyped DEF EntitlementRunsOut, EngagementInv
<1>2. /\ d.stage = deal[l].stage /\ d.executed = deal[l].executed
      /\ d.entitlement = deal[l].entitlement /\ d.expiry = "past"
      BY <1>1 DEF Deals
<1> HIDE DEF d
<1>3. Ended(deal[l], d)
      BY <1>1, <1>2 DEF Ended, EntitlementState, Deals
<1>4. deal'[l] = d /\ (k # l => deal'[k] = deal[k])
      BY <1>1 DEF EngagementInv, EngagementTypeOK
<1>5. Ended(deal[k], deal[k])
      BY DEF Ended
<1>6. QED BY <1>3, <1>4, <1>5

LEMMA NextEnds ==
    ASSUME EngagementInv, [EngagementNext]_engagementVars, NEW k \in Leads
    PROVE  Ended(deal[k], deal'[k])
<1>1. CASE UNCHANGED engagementVars
      BY <1>1, SameEnds DEF engagementVars
<1>2. ASSUME NEW l \in Leads, LeadSteps(l) PROVE Ended(deal[k], deal'[k])
  <2>1. deal' = deal
        BY <1>2 DEF LeadSteps, LoadLead, Requalify, Agreement, CatchesUp, ScreenReads, ScreenWrites, Review
  <2>2. QED BY <2>1, SameEnds
<1>3. ASSUME NEW l \in Leads, EditSteps(l) \/ AlphaSteps(l) PROVE Ended(deal[k], deal'[k])
  <2>1. deal' = deal
        BY <1>3 DEF EditSteps, EditReads, EditWrites, AlphaSteps, CreateEvaluation, PatchEvaluation,
                    OpenAssessment, OpenCore
  <2>2. QED BY <2>1, SameEnds
<1>4. ASSUME NEW l \in Leads, DealSteps(l, Bodies) PROVE Ended(deal[k], deal'[k])
  <2>1. CASE \E s \in Stages, u \in Bodies : Progress(l, s, u)
        BY <2>1, ProgressEnds
  <2>2. CASE EntitlementRunsOut(l)
        BY <2>2, ClockEnds
  <2>3. QED BY <1>4, <2>1, <2>2, TermsEnd, EntitlementEnds DEF DealSteps
<1>5. QED BY <1>1, <1>2, <1>3, <1>4 DEF EngagementNext

\* A closed engagement, an ended entitlement and an execution date are final under every
\* writer of the record and the clock.
THEOREM EndIsFinal == EngagementSpec => EndedStaysEnded
<1>1. EngagementInv /\ [EngagementNext]_engagementVars =>
         [\A l \in Leads :
            /\ deal[l].stage = "closed" => deal'[l].stage = "closed"
            /\ EntitlementState(deal[l]) \in {"expired", "revoked"} =>
                  EntitlementState(deal'[l]) \in {"expired", "revoked"}
            /\ deal[l].executed # NoDate => deal'[l].executed = deal[l].executed]_engagementVars
      BY NextEnds DEF Ended
<1>2. QED BY <1>1, EngagementInvariance, PTL DEF EngagementSpec, EndedStaysEnded
-----------------------------------------------------------------------------
(* A rejected prospect *)

Rejected(k) == trust[k] = "reject" /\ Undisturbed(k)

\* What a record may become while its lead is rejected.
Halted(old, new) ==
    /\ new.stage \in {old.stage, "identify_qualify", "closed"}
    /\ old.stage # "none" /\ new.entitlement = "active" => old.entitlement = "active"

GoesNowhere(k) ==
    /\ trust'[k] = "reject" /\ Undisturbed(k)'
    /\ deal'[k].stage \in {deal[k].stage, "identify_qualify", "closed"}
    /\ deal[k].stage # "none" /\ deal'[k].entitlement = "active" => deal[k].entitlement = "active"
    /\ flags'[k] \cap {"compute", "core"} \subseteq flags[k]

LEMMA NotAccepted == ASSUME NEW k \in Leads, Rejected(k) PROVE ~Accepted(k)
BY DEF Rejected, Undisturbed, Accepted

\* No mirror written while the lead is rejected shows an ALPHA gate.
LEMMA MirrorHalts ==
    ASSUME EngagementInv, NEW l \in Leads, NEW k \in Leads, trust'[k] = "reject",
           Mirrored(l) \/ UNCHANGED flags
    PROVE  flags'[k] \cap {"compute", "core"} \subseteq flags[k]
<1>1. CASE UNCHANGED flags \/ k # l
      BY <1>1 DEF Mirrored, Sync, FallsBehind, EngagementInv, EngagementTypeOK
<1>2. CASE k = l /\ FallsBehind(l)
  <2>1. flags'[k] = {"behind"}
        BY <1>2 DEF FallsBehind, Behind, EngagementInv, EngagementTypeOK
  <2>2. QED BY <2>1
<1>3. CASE k = l /\ Sync(l)
  <2>1. flags'[k] = FlagsOf(trust'[k], k \in qualified', k \in nda', evaluations'[k], deal'[k])
        BY <1>3 DEF Sync, EngagementInv, EngagementTypeOK
  <2>2. "compute" \notin flags'[k] /\ "core" \notin flags'[k]
        BY <2>1 DEF FlagsOf, ComputeGate
  <2>3. QED BY <2>2
<1>4. QED BY <1>1, <1>2, <1>3 DEF Mirrored

\* A writer of a record leaves the rest of the lead alone.
LEMMA SavesHalt ==
    ASSUME EngagementInv, NEW l \in Leads, NEW k \in Leads, Rejected(k), NEW d, Saves(l, d),
           k = l => Halted(deal[k], d)
    PROVE  GoesNowhere(k)
<1>1. deal'[l] = d /\ (k # l => deal'[k] = deal[k])
      BY DEF Saves, EngagementInv, EngagementTypeOK
<1>2. trust' = trust /\ screening' = screening /\ edits' = edits /\ loaded' \subseteq loaded
      BY DEF Saves, Forget, leadRows
<1>3. trust'[k] = "reject" /\ Undisturbed(k)'
      BY <1>2 DEF Rejected, Undisturbed
<1>4. flags'[k] \cap {"compute", "core"} \subseteq flags[k]
      BY <1>3, MirrorHalts DEF Saves
<1>5. QED BY <1>1, <1>3, <1>4 DEF GoesNowhere, Halted

LEMMA LeadHalts ==
    ASSUME EngagementInv, NEW l \in Leads, NEW k \in Leads, Rejected(k), LeadSteps(l)
    PROVE  GoesNowhere(k)
<1>1. deal' = deal
      BY DEF LeadSteps, LoadLead, Requalify, Agreement, CatchesUp, ScreenReads, ScreenWrites, Review
<1>2. trust'[k] = "reject" /\ k \notin loaded'
  <2>1. CASE LoadLead(l) \/ Requalify(l) \/ Agreement(l) \/ CatchesUp(l)
        BY <2>1 DEF LoadLead, Requalify, Agreement, CatchesUp, leadRows, Rejected, Undisturbed
  <2>2. CASE \E v \in {"pass", "review", "reject"} : ScreenReads(l, v) \/ Review(l, v)
        BY <2>2 DEF ScreenReads, Review, Reviewable, Rejected, Undisturbed, EngagementInv,
           EngagementTypeOK
  <2>3. CASE \E v \in {"pass", "review", "reject"} : ScreenWrites(l, v)
    <3>1. PICK v \in {"pass", "review", "reject"} : ScreenWrites(l, v)
          BY <2>3
    <3>2. k # l
          BY <3>1 DEF ScreenWrites, Rejected, Undisturbed, TrustStates
    <3>3. QED BY <3>1, <3>2 DEF ScreenWrites, Rejected, Undisturbed, EngagementInv, EngagementTypeOK
  <2>4. QED BY <2>1, <2>2, <2>3 DEF LeadSteps
<1>3. \A v \in TrustStates : <<k, v>> \notin screening'
  <2>1. screening' \subseteq screening \/ \E v : screening' = screening \cup {<<l, v>>} /\ ~Guarded(l)
        BY DEF LeadSteps, LoadLead, Requalify, Agreement, CatchesUp, ScreenReads, ScreenWrites, Review, leadRows
  <2>2. ~Guarded(l) => k # l
        BY DEF Guarded, Rejected
  <2>3. QED BY <2>1, <2>2 DEF Rejected, Undisturbed
<1>4. flags'[k] \cap {"compute", "core"} \subseteq flags[k]
  <2>1. Mirrored(l) \/ UNCHANGED flags
        BY DEF LeadSteps, LoadLead, Requalify, Agreement, CatchesUp, ScreenReads, ScreenWrites,
               Review, Mirrored
  <2>2. QED BY <1>2, <2>1, MirrorHalts
<1>5. edits' = edits
      BY DEF LeadSteps, LoadLead, Requalify, Agreement, CatchesUp, ScreenReads, ScreenWrites,
             Review, leadRows
<1>6. QED BY <1>1, <1>2, <1>3, <1>4, <1>5 DEF GoesNowhere, Rejected, Undisturbed

\* An instance fetched while the rejection stood writes it back.
LEMMA EditHalts ==
    ASSUME EngagementInv, NEW l \in Leads, NEW k \in Leads, Rejected(k), EditSteps(l)
    PROVE  GoesNowhere(k)
<1>1. /\ UNCHANGED <<deal, screening, loaded>>
      /\ Mirrored(l) \/ UNCHANGED flags
      BY DEF EditSteps, EditReads, EditWrites, Mirrored
<1>2. trust'[k] = "reject" /\ \A e \in edits' : e.lead = k => e.trust = "reject"
  <2>1. CASE EditReads(l)
        BY <2>1 DEF EditReads, Rejected, Undisturbed
  <2>2. ASSUME NEW e \in edits, EditWrites(e)
        PROVE  trust'[k] = "reject" /\ \A x \in edits' : x.lead = k => x.trust = "reject"
    <3>1. edits' \subseteq edits /\ trust' = [trust EXCEPT ![e.lead] = e.trust]
          BY <2>2 DEF EditWrites
    <3>2. e.lead = k => e.trust = "reject"
          BY DEF Rejected, Undisturbed
    <3>3. QED BY <3>1, <3>2 DEF Rejected, Undisturbed, EngagementInv, EngagementTypeOK
  <2>3. QED BY <2>1, <2>2 DEF EditSteps
<1>3. flags'[k] \cap {"compute", "core"} \subseteq flags[k]
      BY <1>1, <1>2, MirrorHalts
<1>4. QED BY <1>1, <1>2, <1>3 DEF GoesNowhere, Rejected, Undisturbed

LEMMA ProgressHalts ==
    ASSUME EngagementInv, NEW l \in Leads, NEW s \in Stages, NEW u \in Bodies, Progress(l, s, u),
           NEW k \in Leads, Rejected(k)
    PROVE  GoesNowhere(k)
<1> DEFINE d == Update(deal[l], s, u)
<1>1. d \in Deals /\ d.stage = s
      BY UpdateTyped, DealTyped DEF EngagementInv
<1>2. SaveGuard(deal[l], d) /\ MayHold(l, d) /\ Saves(l, d)
      BY DEF Progress
<1>3. k = l => s \in {"identify_qualify", "closed"}
      BY <1>1, <1>2, NotAccepted, Rungs DEF MayHold, StageGate
<1>4. deal[l].stage # "none" => d.entitlement = deal[l].entitlement
      BY <1>2 DEF SaveGuard
<1> HIDE DEF d
<1>5. k = l => Halted(deal[k], d)
      BY <1>1, <1>3, <1>4 DEF Halted
<1>6. QED BY <1>2, <1>5, SavesHalt

LEMMA TermsHalt ==
    ASSUME EngagementInv, NEW l \in Leads, NEW k \in Leads, Rejected(k),
           \/ \E t \in {"scope", "final"} : SetTerms(l, t)
           \/ \E r \in BOOLEAN : SetReadiness(l, r)
    PROVE  GoesNowhere(k)
<1>1. deal[l] \in Deals
      BY DealTyped DEF EngagementInv
<1>2. CASE \E t \in {"scope", "final"} : SetTerms(l, t)
  <2>1. PICK t \in {"scope", "final"} : Saves(l, [deal[l] EXCEPT !.terms = t])
        BY <1>2 DEF SetTerms
  <2>2. Halted(deal[l], [deal[l] EXCEPT !.terms = t])
        BY <1>1 DEF Halted, Deals
  <2>3. QED BY <2>1, <2>2, SavesHalt
<1>3. CASE \E r \in BOOLEAN : SetReadiness(l, r)
  <2>1. PICK r \in BOOLEAN : Saves(l, [deal[l] EXCEPT !.ready = r,
                                         !.terms = IF @ = "none" THEN "scope" ELSE @])
        BY <1>3 DEF SetReadiness
  <2>2. Halted(deal[l], [deal[l] EXCEPT !.ready = r, !.terms = IF @ = "none" THEN "scope" ELSE @])
        BY <1>1 DEF Halted, Deals
  <2>3. QED BY <2>1, <2>2, SavesHalt
<1>4. QED BY <1>2, <1>3

LEMMA EntitlementHalts ==
    ASSUME EngagementInv, NEW l \in Leads, NEW k \in Leads, Rejected(k),
           \/ \E x \in {"none", "future"} : Activate(l, x)
           \/ ExpireEntitlement(l) \/ RevokeEntitlement(l)
    PROVE  GoesNowhere(k)
<1>1. deal[l] \in Deals
      BY DealTyped DEF EngagementInv
<1>2. CASE \E x \in {"none", "future"} : Activate(l, x)
  <2>1. PICK x \in {"none", "future"} : Activate(l, x)
        BY <1>2
  <2> DEFINE d == [deal[l] EXCEPT !.entitlement = "active", !.expiry = IF x = "none" THEN @ ELSE x]
  <2>2. Saves(l, d) /\ MayHold(l, d) /\ Entitling(l)
        BY <2>1 DEF Activate
  <2>3. d.stage = deal[l].stage
        BY <1>1 DEF Deals
  <2> HIDE DEF d
  <2>4. k # l
        BY <2>2, <2>3, NotAccepted, Rungs DEF MayHold, StageGate, Entitling
  <2>5. QED BY <2>2, <2>4, SavesHalt
<1>3. CASE ExpireEntitlement(l)
  <2>1. Halted(deal[l], [deal[l] EXCEPT !.entitlement = "expired", !.expiry = "past"])
        BY <1>1 DEF Halted, Deals
  <2>2. QED BY <1>3, <2>1, SavesHalt DEF ExpireEntitlement
<1>4. CASE RevokeEntitlement(l)
  <2>1. Halted(deal[l], [deal[l] EXCEPT !.entitlement = "revoked"])
        BY <1>1 DEF Halted, Deals
  <2>2. QED BY <1>4, <2>1, SavesHalt DEF RevokeEntitlement
<1>5. QED BY <1>2, <1>3, <1>4

LEMMA ClockHalts ==
    ASSUME EngagementInv, NEW l \in Leads, NEW k \in Leads, Rejected(k), EntitlementRunsOut(l)
    PROVE  GoesNowhere(k)
<1>1. deal' = [deal EXCEPT ![l] = [deal[l] EXCEPT !.expiry = "past"]] /\ deal[l] \in Deals
      BY DealTyped DEF EntitlementRunsOut, EngagementInv
<1>2. Halted(deal[l], [deal[l] EXCEPT !.expiry = "past"])
      BY <1>1 DEF Halted, Deals
<1>3. Halted(deal[k], deal'[k])
      BY <1>1, <1>2 DEF Halted, EngagementInv, EngagementTypeOK
<1>4. QED BY <1>3 DEF GoesNowhere, Halted, EntitlementRunsOut, leadRows, Rejected, Undisturbed

LEMMA AlphaHalts ==
    ASSUME EngagementInv, NEW l \in Leads, NEW k \in Leads, Rejected(k), AlphaSteps(l)
    PROVE  GoesNowhere(k)
<1>1. /\ UNCHANGED <<deal, trust, screening, edits>> /\ loaded' \subseteq loaded
      /\ Mirrored(l) \/ UNCHANGED flags
      BY DEF AlphaSteps, CreateEvaluation, PatchEvaluation, OpenAssessment, OpenCore, EvaluationSaved,
             Forget, leadRows
<1>2. trust'[k] = "reject" /\ Undisturbed(k)'
      BY <1>1 DEF Rejected, Undisturbed
<1>3. flags'[k] \cap {"compute", "core"} \subseteq flags[k]
      BY <1>1, <1>2, MirrorHalts
<1>4. QED BY <1>1, <1>2, <1>3 DEF GoesNowhere

LEMMA NextHalts ==
    ASSUME EngagementInv, [EngagementNext]_engagementVars, NEW k \in Leads, Rejected(k)
    PROVE  GoesNowhere(k)
<1>1. CASE UNCHANGED engagementVars
      BY <1>1 DEF engagementVars, leadRows, GoesNowhere, Rejected, Undisturbed
<1>2. ASSUME NEW l \in Leads, LeadSteps(l) \/ EditSteps(l) \/ AlphaSteps(l) PROVE GoesNowhere(k)
      BY <1>2, LeadHalts, EditHalts, AlphaHalts
<1>3. ASSUME NEW l \in Leads, DealSteps(l, Bodies) PROVE GoesNowhere(k)
  <2>1. CASE \E s \in Stages, u \in Bodies : Progress(l, s, u)
        BY <2>1, ProgressHalts
  <2>2. CASE EntitlementRunsOut(l)
        BY <2>2, ClockHalts
  <2>3. QED BY <1>3, <2>1, <2>2, TermsHalt, EntitlementHalts DEF DealSteps
<1>4. QED BY <1>1, <1>2, <1>3 DEF EngagementNext

\* A rejection that no screening and no request overlaps is final; while it stands no writer
\* moves the engagement towards a deal, and no evaluation opens an ALPHA gate on the lead.
THEOREM RejectionStops == EngagementSpec => RejectedGoesNowhere
<1>1. EngagementInv /\ [EngagementNext]_engagementVars =>
         [\A l \in Leads : trust[l] = "reject" /\ Undisturbed(l) =>
            /\ trust'[l] = "reject" /\ Undisturbed(l)'
            /\ deal'[l].stage \in {deal[l].stage, "identify_qualify", "closed"}
            /\ deal[l].stage # "none" /\ deal'[l].entitlement = "active" =>
                  deal[l].entitlement = "active"
            /\ flags'[l] \cap {"compute", "core"} \subseteq flags[l]]_engagementVars
      BY NextHalts DEF GoesNowhere, Rejected
<1>2. QED BY <1>1, EngagementInvariance, PTL DEF EngagementSpec, RejectedGoesNowhere
=================================================================================
