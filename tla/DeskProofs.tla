------------------------------- MODULE DeskProofs -------------------------------
(***************************************************************************)
(* Theorems about the desks together, MCDesk: each behaviour of the        *)
(* checked instance is a behaviour of each desk, so that what is proved of *)
(* a desk holds of what the run explores, for any number of files,         *)
(* messages, leads and dates.  The engagement is the one desk a scene      *)
(* starts elsewhere, on a lead in good standing; its invariant holds there *)
(* too.                                                                    *)
(***************************************************************************)
EXTENDS MCDesk, AttachmentProofs, ApprovalProofs, EngagementProofs

LEMMA SceneStarts == ASSUME DeskInit
                     PROVE  FileInit /\ ApprovalInit /\ EngagementInv
<1>1. FileInit /\ ApprovalInit
      BY DEF DeskInit
<1>2. CASE EngagementInit
      BY <1>1, <1>2, EngagementInitEstablishes
<1>3. CASE Standing
  <2>1. EngagementTypeOK
    <3>1. <<>> \in Seq(Evaluations) /\ Len(<<>>) <= MaxEvaluations
          BY EngagementAssumption
    <3>2. QED BY <1>3, <3>1, NoDealTyped DEF Standing, EngagementTypeOK, TrustStates
  <2>2. ValueIsEarned /\ FlagsFollowTheDeal
        BY <1>3 DEF Standing, ValueIsEarned, FlagsFollowTheDeal, NoDeal
  <2>3. QED BY <1>1, <2>1, <2>2 DEF EngagementInv
<1>4. QED BY <1>1, <1>2, <1>3 DEF DeskInit

\* Two files of one thread take the steps of a file and no others.
LEMMA PairsAreFiles ==
    ASSUME PairSteps(f1) \/ PairSteps(f2) \/ Binding \/ ThreadSteps PROVE FileNext
<1>1. f1 \in Files /\ f2 \in Files
      BY DeskAssumption
<1>2. CASE PairSteps(f1)
      BY <1>1, <1>2 DEF PairSteps, FileSteps, FileNext
<1>3. CASE PairSteps(f2)
      BY <1>1, <1>3 DEF PairSteps, FileSteps, FileNext
<1>4. CASE Binding
      BY <1>1, <1>4 DEF Binding, FileSteps, FileNext
<1>5. CASE ThreadSteps
      BY <1>5 DEF ThreadSteps, FileNext
<1>6. QED BY <1>2, <1>3, <1>4, <1>5

LEMMA DealingIsDeal == ASSUME NEW l \in Leads, Dealing(l) PROVE DealSteps(l, Bodies)
<1>1. Papers \subseteq Bodies
      BY DEF Papers
<1>2. QED BY <1>1 DEF Dealing, DealSteps

LEMMA StandingsAreSteps ==
    ASSUME NEW l \in Leads, Standings(l) PROVE LeadSteps(l) \/ DealSteps(l, Bodies)
<1>1. Papers \subseteq Bodies /\ "identify_qualify" \in Stages
      BY AllStages DEF Papers
<1>2. QED BY <1>1 DEF Standings, LeadSteps, DealSteps

LEMMA EditingIsSteps ==
    ASSUME NEW l \in Leads, Editing(l) PROVE EditSteps(l) \/ LeadSteps(l)
BY DEF Editing, EditSteps, LeadSteps

\* A step of a scene is a step of its desk, and the other desks stay as they are.
LEMMA ScenesStep ==
    ASSUME DeskNext
    PROVE  [FileNext]_fileVars /\ [ApprovalNext]_approvalVars /\ [EngagementNext]_engagementVars
<1>1. FileSteps(f1) \/ ThreadSteps => FileNext
      BY DeskAssumption DEF ThreadSteps, FileNext
<1>2. PairSteps(f1) \/ PairSteps(f2) \/ Binding => FileNext
      BY PairsAreFiles
<1>3. ApprovalSteps(m1) \/ ApprovalSteps(m2) => ApprovalNext
      BY DeskAssumption DEF ApprovalNext
<1>4. (\E l \in Leads : \/ DealSteps(l, Bodies) \/ LeadSteps(l) \/ AlphaSteps(l)
                        \/ Dealing(l) \/ Standings(l) \/ Editing(l))
      => EngagementNext
      BY DealingIsDeal, StandingsAreSteps, EditingIsSteps DEF EngagementNext
<1>5. \/ /\ FileSteps(f1) \/ ThreadSteps \/ PairSteps(f1) \/ PairSteps(f2) \/ Binding
         /\ UNCHANGED approvalVars /\ UNCHANGED engagementVars
      \/ /\ ApprovalSteps(m1) \/ ApprovalSteps(m2)
         /\ UNCHANGED fileVars /\ UNCHANGED engagementVars
      \/ /\ \E l \in Leads : \/ DealSteps(l, Bodies) \/ LeadSteps(l) \/ AlphaSteps(l)
                             \/ Dealing(l) \/ Standings(l) \/ Editing(l)
         /\ UNCHANGED fileVars /\ UNCHANGED approvalVars
      BY DEF DeskNext, AlphaSteps
<1>6. QED BY <1>1, <1>2, <1>3, <1>4, <1>5

LEMMA DesksStep ==
    [DeskNext]_deskVars =>
        [FileNext]_fileVars /\ [ApprovalNext]_approvalVars /\ [EngagementNext]_engagementVars
BY ScenesStep DEF deskVars

\* What the checked instance does with its files is what the files' specification allows
\* (PairSteps leaves handlers out and adds none).
THEOREM DesksFile == DeskSpec => FileSpec
<1>1. DeskInit => FileInit
      BY SceneStarts
<1>2. [DeskNext]_deskVars => [FileNext]_fileVars
      BY DesksStep
<1>3. QED BY <1>1, <1>2, PTL DEF DeskSpec, FileSpec

\* What it does with its messages is what the approval queue allows.
THEOREM DesksApprove == DeskSpec => ApprovalSpec
<1>1. DeskInit => ApprovalInit
      BY SceneStarts
<1>2. [DeskNext]_deskVars => [ApprovalNext]_approvalVars
      BY DesksStep
<1>3. QED BY <1>1, <1>2, PTL DEF DeskSpec, ApprovalSpec

\* Its engagements keep their invariant from a lead in good standing as from a new one.
THEOREM DesksDeal == DeskSpec => [](EngagementTypeOK /\ ValueIsEarned /\ FlagsFollowTheDeal)
<1>1. DeskInit => EngagementInv
      BY SceneStarts
<1>2. EngagementInv /\ [DeskNext]_deskVars => EngagementInv'
      BY DesksStep, EngagementNextKeeps
<1>3. EngagementInv => EngagementTypeOK /\ ValueIsEarned /\ FlagsFollowTheDeal
      BY DEF EngagementInv
<1>4. QED BY <1>1, <1>2, <1>3, PTL DEF DeskSpec

\* From there, too, what ended stays ended and a rejected prospect goes nowhere.
THEOREM DesksEnd == DeskSpec => EndedStaysEnded /\ RejectedGoesNowhere
<1>1. DeskInit => EngagementInv
      BY SceneStarts
<1>2. EngagementInv /\ [DeskNext]_deskVars => EngagementInv'
      BY DesksStep, EngagementNextKeeps
<1>3. EngagementInv /\ [DeskNext]_deskVars =>
         [\A l \in Leads :
            /\ deal[l].stage = "closed" => deal'[l].stage = "closed"
            /\ EntitlementState(deal[l]) \in {"expired", "revoked"} =>
                  EntitlementState(deal'[l]) \in {"expired", "revoked"}
            /\ deal[l].executed # NoDate => deal'[l].executed = deal[l].executed]_engagementVars
      BY DesksStep, NextEnds DEF Ended
<1>4. EngagementInv /\ [DeskNext]_deskVars =>
         [\A l \in Leads : trust[l] = "reject" /\ Undisturbed(l) =>
            /\ trust'[l] = "reject" /\ Undisturbed(l)'
            /\ deal'[l].stage \in {deal[l].stage, "identify_qualify", "closed"}
            /\ deal[l].stage # "none" /\ deal'[l].entitlement = "active" =>
                  deal[l].entitlement = "active"
            /\ flags'[l] \cap {"compute", "core"} \subseteq flags[l]]_engagementVars
      BY DesksStep, NextHalts DEF GoesNowhere, Rejected
<1>5. QED BY <1>1, <1>2, <1>3, <1>4, PTL DEF DeskSpec, EndedStaysEnded, RejectedGoesNowhere

\* Every table of the three desks is well typed, whatever the sizes of the instance.
THEOREM DeskTypeCorrect == DeskSpec => []DeskTypeOK
<1>1. FilesTypeOK /\ ApprovalsTypeOK /\ EngagementTypeOK => DeskTypeOK
      BY DEF DeskTypeOK
<1>2. DeskSpec => []FilesTypeOK
      BY DesksFile, FilesTypeCorrect, PTL
<1>3. DeskSpec => []ApprovalsTypeOK
      BY DesksApprove, ApprovalsTypeCorrect, PTL
<1>4. QED BY <1>1, <1>2, <1>3, DesksDeal, PTL
=================================================================================
