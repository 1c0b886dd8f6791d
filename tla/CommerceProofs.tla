----------------------------- MODULE CommerceProofs -----------------------------
(***************************************************************************)
(* What holds of the commerce ledger for any orders, clients, branches,    *)
(* seats and number of periods.  IInv is inductive: beside the invariants  *)
(* it says that an order and its licence move together (Linked), that a    *)
(* join in progress still has an accepted order and an open trial          *)
(* (JoinsHold), that a repayment is only ever due on a revoked licence     *)
(* (RepaymentsDue) and that a quoted line never holds the buyer            *)
(* (LineFrozen).  LedgerKeepsPaidAccess is the refinement to PaidAccess;   *)
(* StopsStayDue is what StopReachesProvider needs besides fairness.        *)
(***************************************************************************)
EXTENDS Commerce, FiniteSetTheorems, TLAPS

USE DEF orderRows, clock, licenseRows, branchRows, provider, vars

-----------------------------------------------------------------------------
(* Types.                                                                  *)

LEMMA TypeBuying ==
    ASSUME TypeOK, NEW o \in Orders, Buying(o),
           \A p \in joining : <<p, "capture">> \in sent
    PROVE  TypeOK'
<1> USE DEF TypeOK, OrderStates, LicenseStates, RefundStates, RewardStates, BranchStates, Claims, Years
<1>o. Owner[o] \in Clients BY LedgerAssumption
<1>a. ASSUME BookPayment(o), <<o, "capture">> \in sent
      PROVE  /\ order' \in [Orders -> OrderStates] /\ reward' \in [Orders -> [Clients -> RewardStates]]
             /\ seats' \in [Orders -> SUBSET Clients] /\ events' \subseteq sent
             /\ UNCHANGED <<referral, lineage, clock, cancelled, envs, refund, repaying, branchRows, provider>>
  <2>1. seats' \in [Orders -> SUBSET Clients] BY <1>o, <1>a DEF BookPayment, OpenSeats
  <2>2. reward' \in [Orders -> [Clients -> RewardStates]] BY <1>a DEF BookPayment
  <2> QED BY <1>a, <2>1, <2>2 DEF BookPayment
<1>1. CASE Enroll(o) BY <1>o, <1>1 DEF Enroll, OpenSeats
<1>2. CASE Accept(o) BY <1>2 DEF Accept
<1>3. CASE Capture(o) BY <1>3 DEF Capture
<1>4. CASE RecordPayment(o)
  <2>1. BookPayment(o) /\ <<o, "capture">> \in sent BY <1>4 DEF RecordPayment, CaptureDue
  <2> QED BY <1>4, <1>a, <2>1 DEF RecordPayment
<1>5. CASE JoinReads(o) BY <1>5 DEF JoinReads
<1>6. CASE JoinCommits(o)
  <2>1. BookPayment(o) /\ <<o, "capture">> \in sent BY <1>6 DEF JoinCommits
  <2>2. license' \in [Orders -> LicenseStates] BY <1>6 DEF JoinCommits
  <2>3. joining' \subseteq Orders /\ renews' \subseteq Orders BY <1>6 DEF JoinCommits
  <2> QED BY <1>a, <2>1, <2>2, <2>3
<1>7. CASE JoinRollsBack(o) BY <1>7 DEF JoinRollsBack
<1>8. ASSUME NEW r \in Clients \cup {None}, Quote(o, r) PROVE TypeOK'
  <2>1. r # None => Line(r) \subseteq Clients BY DEF Line, Above
  <2>2. lineage' \in [Orders -> SUBSET Clients] BY <1>8, <2>1 DEF Quote
  <2> QED BY <1>8, <2>2 DEF Quote
<1> HIDE DEF TypeOK
<1> QED BY <1>1, <1>2, <1>3, <1>4, <1>5, <1>6, <1>7, <1>8 DEF Buying

LEMMA TypeUsing ==
    ASSUME TypeOK, NEW o \in Orders, Using(o)
    PROVE  TypeOK'
<1> USE DEF TypeOK
<1>1. ASSUME NEW c \in Clients, NEW x \in Clients \cup {None}, AssignSeat(o, c, x) PROVE TypeOK'
  <2>1. Kept(o, {x, c}) \in [Clients -> SUBSET Envs] BY DEF Kept
  <2> QED BY <1>1, <2>1 DEF AssignSeat
<1>2. ASSUME NEW c \in Clients, NEW e \in Envs, NEW x \in Envs \cup {None}, Activate(o, c, e, x) PROVE TypeOK'
  <2>1. envs' \in [Orders -> [Clients -> SUBSET Envs]] BY <1>2 DEF Activate
  <2> QED BY <1>2, <2>1 DEF Activate
<1> HIDE DEF TypeOK
<1> QED BY <1>1, <1>2 DEF Using

LEMMA TypeClosing ==
    ASSUME TypeOK, NEW o \in Orders, Closing(o)
    PROVE  TypeOK'
<1> USE DEF TypeOK, OrderStates, LicenseStates, RefundStates, RewardStates, BranchStates, Claims
<1>a. ASSUME RevokeOrder(o)
      PROVE  /\ license' \in [Orders -> LicenseStates] /\ renews' \subseteq Orders
             /\ seats' \in [Orders -> SUBSET Clients] /\ envs' \in [Orders -> [Clients -> SUBSET Envs]]
             /\ reward' \in [Orders -> [Clients -> RewardStates]] /\ branch' \in [Clients -> BranchStates]
             /\ UNCHANGED <<referral, lineage, clock, cancelled, joining, qualifying, parent>>
  <2>1. Reversed(o) \in [Clients -> RewardStates] BY DEF Reversed
  <2>2. Nobody({}) \in [Clients -> SUBSET Envs] BY DEF Nobody
  <2> QED BY <1>a, <2>1, <2>2 DEF RevokeOrder
<1>1. ASSUME NEW n \in Claims, RequestRefund(o, n) PROVE TypeOK' BY <1>1 DEF RequestRefund
<1>2. ASSUME NEW n \in Claims, ApproveRefund(o, n) PROVE TypeOK' BY <1>2, <1>a DEF ApproveRefund
<1>3. ASSUME NEW n \in Claims, RepayCalls(o, n) PROVE TypeOK' BY <1>3 DEF RepayCalls
<1>4. ASSUME NEW n \in Claims, RepayRecords(o, n) PROVE TypeOK' BY <1>4 DEF RepayRecords
<1>5. ASSUME NEW n \in Claims, RepayDies(o, n) PROVE TypeOK' BY <1>5 DEF RepayDies
<1>6. ASSUME NEW k \in {"refund", "chargeback"}, Reverse(o, k) PROVE TypeOK' BY <1>6 DEF Reverse
<1>7. ASSUME NEW k \in {"refund", "chargeback"}, RecordReversal(o, k) PROVE TypeOK'
  BY <1>7, <1>a DEF RecordReversal
<1>8. CASE Suspend(o)
  <2>1. Nobody({}) \in [Clients -> SUBSET Envs] BY DEF Nobody
  <2> QED BY <1>8, <2>1 DEF Suspend
<1>9. CASE Restore(o) BY <1>9 DEF Restore
<1>10. CASE ReviewRevoke(o) BY <1>10, <1>a DEF ReviewRevoke
<1> HIDE DEF TypeOK
<1> QED BY <1>1, <1>2, <1>3, <1>4, <1>5, <1>6, <1>7, <1>8, <1>9, <1>10 DEF Closing

LEMMA TypeRenewing ==
    ASSUME TypeOK, NEW o \in Orders, Renewing(o) \/ Pass(o)
    PROVE  TypeOK'
<1> USE DEF TypeOK, Claims
<1>1. CASE Cancel(o) BY <1>1 DEF Cancel
<1>2. CASE SyncCancellation(o) BY <1>2 DEF SyncCancellation
<1>3. CASE Charge(o) 
  <2>1. period[o] + 1 \in 0..MaxPeriods BY <1>3, LedgerAssumption DEF Charge
  <2> QED BY <1>3, <2>1 DEF Charge
<1>4. CASE RecordRenewal(o) BY <1>4 DEF RecordRenewal
<1>5. CASE Pass(o)
  <2>0. MaxAge(o) \in 0..4 BY DEF MaxAge
  <2>1. age[o] \in 0..4 /\ age[o] < MaxAge(o) BY <1>5 DEF Pass
  <2>2. age[o] + 1 \in 0..4 BY <2>0, <2>1
  <2>3. age' = [age EXCEPT ![o] = IF Purpose[o] = "trial" THEN 3 ELSE age[o] + 1] BY <1>5 DEF Pass
  <2>4. age' \in [Orders -> 0..4] BY <2>2, <2>3
  <2> QED BY <1>5, <2>4 DEF Pass
<1> HIDE DEF TypeOK
<1> QED BY <1>1, <1>2, <1>3, <1>4, <1>5 DEF Renewing

LEMMA TypeReferring ==
    ASSUME TypeOK, NEW o \in Orders, Referring(o)
    PROVE  TypeOK'
<1> USE DEF TypeOK, BranchStates, RewardStates
<1>1. CASE ApplyBranch(o) BY <1>1 DEF ApplyBranch
<1>2. ASSUME NEW c \in Clients, ReleaseReward(o, c) PROVE TypeOK' BY <1>2 DEF ReleaseReward
<1>3. ASSUME NEW c \in Clients, ApproveBranch(c) PROVE TypeOK' BY <1>3 DEF ApproveBranch
<1>4. ASSUME NEW c \in Clients, qualifying[c] = o, AcceptBranch(c) PROVE TypeOK' BY <1>4 DEF AcceptBranch
<1> HIDE DEF TypeOK
<1> QED BY <1>1, <1>2, <1>3, <1>4 DEF Referring

-----------------------------------------------------------------------------
(* The strengthening: orders and licences move together, and what a running *)
(* join or repayment relies on stays true until it commits.                 *)

Back == {"refund_approved", "refunded", "chargeback"}
Due  == {"repayment_pending", "repaid"}

\* An order and its licence: none before the payment, revoked once the money goes back.
Linked == \A o \in Orders :
    /\ license[o] = "none" <=> order[o] \in {"none", "quoted", "accepted"}
    /\ order[o] \in Back => license[o] = "revoked"
    /\ Purpose[o] = "trial" => order[o] \in {"none", "trial"}
    /\ order[o] = "trial" => Purpose[o] = "trial"
    /\ period[o] # 0 => license[o] # "none"
    /\ period[o] # 0 \/ o \in renews => o \in Years

\* A running join holds its order and its enrolment.
JoinsHold == \A o \in joining :
    /\ o \in Years /\ order[o] = "accepted" /\ license[Trial[o]] # "none"
    /\ <<o, "capture">> \in sent
    /\ \A p \in Years : Trial[p] = Trial[o] => license[p] = "none" /\ (p \in joining => p = o)

\* A repayment is made only of an approved claim, whose licence is revoked.
RepaymentsDue == \A o \in Orders, n \in Claims :
    /\ refund[o][n] # "none" => Purpose[o] # "trial" /\ license[o] # "none"
    /\ refund[o][n] \in Due => license[o] = "revoked" /\ (n = 0 => order[o] \in Back)
    /\ <<o, n>> \in repaying \cup paidBack => refund[o][n] \in Due

\* What an order's lineage was frozen to.
LineFrozen == \A o \in Orders : Owner[o] \notin lineage[o]

IInv == /\ TypeOK /\ Linked /\ JoinsHold /\ RepaymentsDue /\ LineFrozen
        /\ RevokedIsEmpty /\ TrialEndsWithJoin /\ NobodyEarnsOnOwnOrder

\* What each group of actions leaves alone.
LEMMA UsingFrame ==
    ASSUME NEW o \in Orders, Using(o)
    PROVE  UNCHANGED <<order, referral, lineage, clock, license, renews, cancelled, joining, refund,
                       repaying, events, reward, branchRows, sent, charges, subscribed, paidBack>>
BY DEF Using, AssignSeat, Activate

LEMMA RenewingFrame ==
    ASSUME NEW o \in Orders, Renewing(o) \/ Pass(o)
    PROVE  UNCHANGED <<order, referral, lineage, license, seats, envs, joining, refund,
                       repaying, events, reward, branchRows, sent, paidBack>>
BY DEF Renewing, Pass, Cancel, SyncCancellation, Charge, RecordRenewal

LEMMA ReferringFrame ==
    ASSUME NEW o \in Orders, Referring(o)
    PROVE  UNCHANGED <<order, referral, lineage, clock, license, renews, cancelled, seats, envs, joining,
                       refund, repaying, events, sent, charges, subscribed, paidBack>>
BY DEF Referring, ApplyBranch, ApproveBranch, AcceptBranch, ReleaseReward

\* The facts about single rows that the step lemmas need.
LEMMA RowFacts ==
    ASSUME TypeOK, Linked, JoinsHold, RepaymentsDue
    PROVE  /\ order \in [Orders -> OrderStates] /\ license \in [Orders -> LicenseStates]
           /\ period \in [Orders -> 0..MaxPeriods] /\ 0 \in Claims
           /\ \A q \in Orders :
                 /\ license[q] = "none" <=> order[q] \in {"none", "quoted", "accepted"}
                 /\ q \in Years <=> Purpose[q] = "annual"
                 /\ Purpose[q] = "trial" => order[q] \in {"none", "trial"}
                 /\ q \in Years => Trial[q] \in Orders /\ Purpose[Trial[q]] = "trial"
           /\ \A q \in Orders, n \in Claims :
                 /\ refund[q][n] # "none" => Purpose[q] # "trial" /\ license[q] # "none"
                 /\ refund[q][n] \in Due => license[q] = "revoked" /\ (n = 0 => order[q] \in Back)
           /\ \A q \in joining : /\ q \in Orders /\ q \in Years /\ order[q] = "accepted"
                                 /\ license[q] = "none" /\ license[Trial[q]] # "none"
<1>1. order \in [Orders -> OrderStates] /\ license \in [Orders -> LicenseStates]
      /\ period \in [Orders -> 0..MaxPeriods]
  BY DEF TypeOK
<1>2. 0 \in Claims BY LedgerAssumption DEF Claims
<1>3. \A q \in Orders : /\ license[q] = "none" <=> order[q] \in {"none", "quoted", "accepted"}
                        /\ q \in Years <=> Purpose[q] = "annual"
                        /\ Purpose[q] = "trial" => order[q] \in {"none", "trial"}
                        /\ q \in Years => Trial[q] \in Orders /\ Purpose[Trial[q]] = "trial"
  BY LedgerAssumption DEF Linked, Years
<1>4. \A q \in Orders, n \in Claims :
          /\ refund[q][n] # "none" => Purpose[q] # "trial" /\ license[q] # "none"
          /\ refund[q][n] \in Due => license[q] = "revoked" /\ (n = 0 => order[q] \in Back)
  BY DEF RepaymentsDue
<1>5. \A q \in joining : /\ q \in Orders /\ q \in Years /\ order[q] = "accepted"
                         /\ license[q] = "none" /\ license[Trial[q]] # "none"
  BY DEF JoinsHold, Years
<1> QED BY <1>1, <1>2, <1>3, <1>4, <1>5

LEMMA LinkedStep ==
    ASSUME TypeOK, Linked, JoinsHold, RepaymentsDue, NEW o \in Orders, Step(o)
    PROVE  Linked'
<1> USE DEF Linked, Back, Due
<1>1. CASE Enroll(o) BY RowFacts, <1>1 DEF Enroll
<1>2. CASE Accept(o) BY RowFacts, <1>2 DEF Accept
<1>3. CASE Capture(o) BY RowFacts, <1>3 DEF Capture
<1>4. CASE RecordPayment(o) BY RowFacts, <1>4
    DEF RecordPayment, CaptureDue, BookPayment
<1>5. CASE JoinReads(o) BY RowFacts, <1>5
    DEF JoinReads, CaptureDue, JoinOpen, EnrolmentFree
<1>6. CASE JoinCommits(o) BY RowFacts, <1>6 DEF JoinCommits, BookPayment
<1>7. CASE JoinRollsBack(o) BY RowFacts, <1>7 DEF JoinRollsBack
<1>8. ASSUME NEW r \in Clients \cup {None}, Quote(o, r) PROVE Linked'
  BY RowFacts, <1>8 DEF Quote, JoinOpen, Refers
<1>9. CASE Using(o) BY RowFacts, <1>9, UsingFrame
<1>10. ASSUME NEW n \in Claims, RequestRefund(o, n) PROVE Linked'
  BY RowFacts, <1>10 DEF RequestRefund, RefundOpen
<1>11. ASSUME NEW n \in Claims, ApproveRefund(o, n) PROVE Linked'
  BY RowFacts, <1>11 DEF ApproveRefund, RevokeOrder
<1>12. ASSUME NEW n \in Claims, RepayCalls(o, n) PROVE Linked'
  BY RowFacts, <1>12 DEF RepayCalls, Repayable
<1>13. ASSUME NEW n \in Claims, RepayRecords(o, n) PROVE Linked'
  BY RowFacts, <1>13 DEF RepayRecords, Repayable
<1>14. ASSUME NEW n \in Claims, RepayDies(o, n) PROVE Linked'
  BY RowFacts, <1>14 DEF RepayDies
<1>15. ASSUME NEW k \in {"refund", "chargeback"}, Reverse(o, k) PROVE Linked'
  BY RowFacts, <1>15 DEF Reverse
<1>16. ASSUME NEW k \in {"refund", "chargeback"}, RecordReversal(o, k) PROVE Linked'
  BY RowFacts, <1>16 DEF RecordReversal, RevokeOrder
<1>17. CASE Suspend(o) BY RowFacts, <1>17 DEF Suspend
<1>18. CASE Restore(o) BY RowFacts, <1>18 DEF Restore, Restorable
<1>19. CASE ReviewRevoke(o) BY RowFacts, <1>19 DEF ReviewRevoke, RevokeOrder
<1>20. CASE Cancel(o) BY RowFacts, <1>20 DEF Cancel
<1>21. CASE SyncCancellation(o) BY RowFacts, <1>21 DEF SyncCancellation
<1>22. CASE Charge(o) BY RowFacts, <1>22 DEF Charge
<1>23. CASE RecordRenewal(o) BY RowFacts, <1>23 DEF RecordRenewal
<1>24. CASE Pass(o) BY RowFacts, <1>24 DEF Pass
<1>25. CASE Referring(o) BY RowFacts, <1>25, ReferringFrame
<1> QED BY <1>1, <1>2, <1>3, <1>4, <1>5, <1>6, <1>7, <1>8, <1>9, <1>10, <1>11, <1>12, <1>13,
           <1>14, <1>15, <1>16, <1>17, <1>18, <1>19, <1>20, <1>21, <1>22, <1>23, <1>24, <1>25 DEF
           Step, Buying, Closing, Renewing

LEMMA LineFrozenStep ==
    ASSUME TypeOK, LineFrozen, NEW o \in Orders, Step(o)
    PROVE  LineFrozen'
<1> USE DEF TypeOK, LineFrozen
<1>1. CASE Enroll(o) BY <1>1 DEF Enroll, OpenSeats
<1>2. CASE Accept(o) BY <1>2 DEF Accept
<1>3. CASE Capture(o) BY <1>3 DEF Capture
<1>4. CASE RecordPayment(o) BY <1>4 DEF RecordPayment, CaptureDue, BookPayment, OpenSeats
<1>5. CASE JoinReads(o) BY <1>5 DEF JoinReads, CaptureDue, JoinOpen, EnrolmentFree
<1>6. CASE JoinCommits(o) BY <1>6 DEF JoinCommits, BookPayment, OpenSeats
<1>7. CASE JoinRollsBack(o) BY <1>7 DEF JoinRollsBack
<1>8. ASSUME NEW r \in Clients \cup {None}, Quote(o, r) PROVE LineFrozen'
  BY <1>8 DEF Quote, JoinOpen, Refers
<1>9. CASE Using(o) BY <1>9, UsingFrame
<1>10. ASSUME NEW n \in Claims, RequestRefund(o, n) PROVE LineFrozen'
  BY <1>10 DEF RequestRefund, RefundOpen
<1>11. ASSUME NEW n \in Claims, ApproveRefund(o, n) PROVE LineFrozen'
  BY <1>11 DEF ApproveRefund, RevokeOrder
<1>12. ASSUME NEW n \in Claims, RepayCalls(o, n) PROVE LineFrozen'
  BY <1>12 DEF RepayCalls, Repayable
<1>13. ASSUME NEW n \in Claims, RepayRecords(o, n) PROVE LineFrozen'
  BY <1>13 DEF RepayRecords, Repayable
<1>14. ASSUME NEW n \in Claims, RepayDies(o, n) PROVE LineFrozen'
  BY <1>14 DEF RepayDies
<1>15. ASSUME NEW k \in {"refund", "chargeback"}, Reverse(o, k) PROVE LineFrozen'
  BY <1>15 DEF Reverse
<1>16. ASSUME NEW k \in {"refund", "chargeback"}, RecordReversal(o, k) PROVE LineFrozen'
  BY <1>16 DEF RecordReversal, RevokeOrder
<1>17. CASE Suspend(o) BY <1>17 DEF Suspend
<1>18. CASE Restore(o) BY <1>18 DEF Restore, Restorable
<1>19. CASE ReviewRevoke(o) BY <1>19 DEF ReviewRevoke, RevokeOrder
<1>20. CASE Renewing(o) \/ Pass(o) BY <1>20, RenewingFrame
<1>21. CASE Referring(o) BY <1>21, ReferringFrame
<1> QED BY <1>1, <1>2, <1>3, <1>4, <1>5, <1>6, <1>7, <1>8, <1>9, <1>10, <1>11, <1>12, <1>13,
           <1>14, <1>15, <1>16, <1>17, <1>18, <1>19, <1>20, <1>21 DEF Step, Buying, Closing

\* How the order and the licence of any p may move in a step of o.
Moves(p) ==
    /\ license[p] # "none" => license'[p] # "none"
    /\ license[p] = "revoked" /\ Purpose[p] # "trial" => license'[p] = "revoked"
    /\ license[p] \in {"converted", "revoked"} => license'[p] \in {"converted", "revoked"}
    /\ p \in Years /\ license[p] = "none" => license'[p] = "none" \/ JoinCommits(p)
    /\ order[p] \in Back => order'[p] \in Back
    /\ p \in joining => order'[p] = "accepted" \/ JoinCommits(p)

LEMMA MovesStep ==
    ASSUME TypeOK, Linked, JoinsHold, RepaymentsDue,
           NEW p \in Orders, NEW o \in Orders, Step(o)
    PROVE  Moves(p)
<1> USE DEF Moves, Back, Due
<1>1. CASE Enroll(o) BY RowFacts, <1>1 DEF Enroll
<1>2. CASE Accept(o) BY RowFacts, <1>2 DEF Accept
<1>3. CASE Capture(o) BY RowFacts, <1>3 DEF Capture
<1>4. CASE RecordPayment(o) BY RowFacts, <1>4
    DEF RecordPayment, CaptureDue, BookPayment
<1>5. CASE JoinReads(o) BY RowFacts, <1>5
    DEF JoinReads, CaptureDue, JoinOpen, EnrolmentFree
<1>6. CASE JoinCommits(o)
  <2>1. o \in joining /\ license' = [license EXCEPT ![o] = "active", ![Trial[o]] = "converted"]
    BY <1>6 DEF JoinCommits
  <2>2. order' = [order EXCEPT ![o] = "paid"] BY <1>6 DEF JoinCommits, BookPayment
  <2>3. license'[p] = IF p = Trial[o] THEN "converted" ELSE IF p = o THEN "active" ELSE license[p]
    BY RowFacts, <2>1
  <2> QED BY RowFacts, <1>6, <2>1, <2>2, <2>3
<1>7. CASE JoinRollsBack(o) BY RowFacts, <1>7 DEF JoinRollsBack
<1>8. ASSUME NEW r \in Clients \cup {None}, Quote(o, r) PROVE Moves(p)
  BY RowFacts, <1>8 DEF Quote, JoinOpen, Refers
<1>9. CASE Using(o) BY RowFacts, <1>9, UsingFrame
<1>10. ASSUME NEW n \in Claims, RequestRefund(o, n) PROVE Moves(p)
  BY RowFacts, <1>10 DEF RequestRefund, RefundOpen
<1>11. ASSUME NEW n \in Claims, ApproveRefund(o, n) PROVE Moves(p)
  BY RowFacts, <1>11 DEF ApproveRefund, RevokeOrder
<1>12. ASSUME NEW n \in Claims, RepayCalls(o, n) PROVE Moves(p)
  BY RowFacts, <1>12 DEF RepayCalls, Repayable
<1>13. ASSUME NEW n \in Claims, RepayRecords(o, n) PROVE Moves(p)
  BY RowFacts, <1>13 DEF RepayRecords, Repayable
<1>14. ASSUME NEW n \in Claims, RepayDies(o, n) PROVE Moves(p)
  BY RowFacts, <1>14 DEF RepayDies
<1>15. ASSUME NEW k \in {"refund", "chargeback"}, Reverse(o, k) PROVE Moves(p)
  BY RowFacts, <1>15 DEF Reverse
<1>16. ASSUME NEW k \in {"refund", "chargeback"}, RecordReversal(o, k) PROVE Moves(p)
  BY RowFacts, <1>16 DEF RecordReversal, RevokeOrder
<1>17. CASE Suspend(o) BY RowFacts, <1>17 DEF Suspend
<1>18. CASE Restore(o) BY RowFacts, <1>18 DEF Restore, Restorable
<1>19. CASE ReviewRevoke(o) BY RowFacts, <1>19 DEF ReviewRevoke, RevokeOrder
<1>20. CASE Renewing(o) \/ Pass(o) BY RowFacts, <1>20, RenewingFrame
<1>21. CASE Referring(o) BY RowFacts, <1>21, ReferringFrame
<1> QED BY <1>1, <1>2, <1>3, <1>4, <1>5, <1>6, <1>7, <1>8, <1>9, <1>10, <1>11, <1>12, <1>13,
           <1>14, <1>15, <1>16, <1>17, <1>18, <1>19, <1>20, <1>21 DEF Step, Buying, Closing

\* What a step of o may do to joins, repayments and the provider's webhooks.
Keeps(o) ==
    /\ sent \subseteq sent'
    /\ joining' \subseteq joining \/ JoinReads(o)
    /\ \/ UNCHANGED <<refund, repaying, paidBack>>
       \/ \E n \in Claims : \/ RequestRefund(o, n) \/ ApproveRefund(o, n) \/ RepayCalls(o, n)
                            \/ RepayRecords(o, n) \/ RepayDies(o, n)

LEMMA KeepsStep ==
    ASSUME NEW o \in Orders, Step(o)
    PROVE  Keeps(o)
<1> USE DEF Keeps
<1>1. CASE Enroll(o) BY <1>1 DEF Enroll
<1>2. CASE Accept(o) BY <1>2 DEF Accept
<1>3. CASE Capture(o) BY <1>3 DEF Capture
<1>4. CASE RecordPayment(o) BY <1>4 DEF RecordPayment, CaptureDue, BookPayment
<1>5. CASE JoinReads(o) BY <1>5 DEF JoinReads, CaptureDue, JoinOpen, EnrolmentFree
<1>6. CASE JoinCommits(o) BY <1>6 DEF JoinCommits, BookPayment
<1>7. CASE JoinRollsBack(o) BY <1>7 DEF JoinRollsBack
<1>8. ASSUME NEW r \in Clients \cup {None}, Quote(o, r) PROVE Keeps(o)
  BY <1>8 DEF Quote, JoinOpen, Refers
<1>9. CASE Using(o) BY <1>9, UsingFrame
<1>10. ASSUME NEW n \in Claims, RequestRefund(o, n) PROVE Keeps(o)
  BY <1>10 DEF RequestRefund, RefundOpen
<1>11. ASSUME NEW n \in Claims, ApproveRefund(o, n) PROVE Keeps(o)
  BY <1>11 DEF ApproveRefund, RevokeOrder
<1>12. ASSUME NEW n \in Claims, RepayCalls(o, n) PROVE Keeps(o)
  BY <1>12 DEF RepayCalls, Repayable
<1>13. ASSUME NEW n \in Claims, RepayRecords(o, n) PROVE Keeps(o)
  BY <1>13 DEF RepayRecords, Repayable
<1>14. ASSUME NEW n \in Claims, RepayDies(o, n) PROVE Keeps(o)
  BY <1>14 DEF RepayDies
<1>15. ASSUME NEW k \in {"refund", "chargeback"}, Reverse(o, k) PROVE Keeps(o)
  BY <1>15 DEF Reverse
<1>16. ASSUME NEW k \in {"refund", "chargeback"}, RecordReversal(o, k) PROVE Keeps(o)
  BY <1>16 DEF RecordReversal, RevokeOrder
<1>17. CASE Suspend(o) BY <1>17 DEF Suspend
<1>18. CASE Restore(o) BY <1>18 DEF Restore, Restorable
<1>19. CASE ReviewRevoke(o) BY <1>19 DEF ReviewRevoke, RevokeOrder
<1>20. CASE Renewing(o) \/ Pass(o) BY <1>20, RenewingFrame
<1>21. CASE Referring(o) BY <1>21, ReferringFrame
<1> QED BY <1>1, <1>2, <1>3, <1>4, <1>5, <1>6, <1>7, <1>8, <1>9, <1>10, <1>11, <1>12, <1>13,
           <1>14, <1>15, <1>16, <1>17, <1>18, <1>19, <1>20, <1>21 DEF Step, Buying, Closing

LEMMA JoinsHoldStep ==
    ASSUME TypeOK, Linked, JoinsHold, RepaymentsDue, NEW o \in Orders, Step(o)
    PROVE  JoinsHold'
<1>1. \A p \in Orders : Moves(p) BY MovesStep
<1>2. Keeps(o) BY KeepsStep
<1>3. \A q \in Years : q \in Orders /\ Trial[q] \in Orders BY LedgerAssumption DEF Years
<1> SUFFICES ASSUME NEW j \in joining'
             PROVE  /\ j \in Years /\ order'[j] = "accepted" /\ license'[Trial[j]] # "none"
                    /\ <<j, "capture">> \in sent'
                    /\ \A p \in Years : Trial[p] = Trial[j] => license'[p] = "none" /\ (p \in joining' => p = j)
  BY DEF JoinsHold, Years
<1>4. CASE JoinReads(o)
  <2>1. /\ o \in Years /\ order[o] = "accepted" /\ license[Trial[o]] = "active" /\ <<o, "capture">> \in sent
        /\ \A p \in Years : Trial[p] = Trial[o] => license[p] = "none"
        /\ \A p \in joining : Trial[p] # Trial[o]
        /\ joining' = joining \cup {o} /\ UNCHANGED <<order, license, sent>>
    BY <1>4 DEF JoinReads, CaptureDue, JoinOpen, EnrolmentFree, Years
  <2>2. CASE j = o BY <2>1, <2>2
  <2>3. CASE j # o BY <2>1, <2>3 DEF JoinsHold
  <2> QED BY <2>2, <2>3
<1>5. CASE ~JoinReads(o)
  <2>1. j \in joining /\ joining' \subseteq joining /\ sent \subseteq sent' BY <1>2, <1>5 DEF Keeps
  <2>2. /\ j \in Years /\ order[j] = "accepted" /\ license[Trial[j]] # "none" /\ <<j, "capture">> \in sent
        /\ \A p \in Years : Trial[p] = Trial[j] => license[p] = "none" /\ (p \in joining => p = j)
    BY <2>1 DEF JoinsHold
  <2>3. \A p \in Years : Trial[p] = Trial[j] => ~JoinCommits(p)
    <3>1. SUFFICES ASSUME NEW p \in Years, Trial[p] = Trial[j], JoinCommits(p) PROVE FALSE OBVIOUS
    <3>2. p \in joining /\ joining' = joining \ {p} BY <3>1 DEF JoinCommits
    <3> QED BY <2>2, <3>1, <3>2
  <2>4. ~JoinCommits(j) BY <2>2, <2>3
  <2> QED BY <1>1, <1>3, <2>1, <2>2, <2>3, <2>4 DEF Moves
<1> QED BY <1>4, <1>5

\* What RepaymentsDue says of claim m of order q.
ClaimDue(q, m) ==
    /\ refund[q][m] # "none" => Purpose[q] # "trial" /\ license[q] # "none"
    /\ refund[q][m] \in Due => license[q] = "revoked" /\ (m = 0 => order[q] \in Back)
    /\ <<q, m>> \in repaying \cup paidBack => refund[q][m] \in Due

LEMMA RepaymentsDueStep ==
    ASSUME TypeOK, Linked, JoinsHold, RepaymentsDue, NEW o \in Orders, Step(o)
    PROVE  RepaymentsDue'
<1>1. \A p \in Orders : Moves(p) BY MovesStep
<1>2. Keeps(o) BY KeepsStep
<1>3. refund \in [Orders -> [Claims -> RefundStates]] BY DEF TypeOK
<1> SUFFICES ASSUME NEW q \in Orders, NEW m \in Claims PROVE ClaimDue(q, m)'
  BY DEF RepaymentsDue, ClaimDue
<1>4. ClaimDue(q, m) BY DEF RepaymentsDue, ClaimDue
<1>5. CASE UNCHANGED <<refund, repaying, paidBack>> BY <1>1, <1>4, <1>5 DEF Moves, ClaimDue, Due
<1>6. ASSUME NEW n \in Claims, RequestRefund(o, n) PROVE ClaimDue(q, m)'
  <2>1. Purpose[o] # "trial" /\ license[o] # "none"
    <3>1. CASE n = 0 BY <1>6, <3>1, RowFacts DEF RequestRefund
    <3>2. CASE n # 0
      <4>1. period[o] # 0 BY <1>6, <3>2 DEF RequestRefund, RefundOpen
      <4> QED BY <4>1 DEF Linked, Years
    <3> QED BY <3>1, <3>2
  <2>2. /\ refund[o][n] = "none" /\ refund' = [refund EXCEPT ![o][n] = "requested"]
        /\ UNCHANGED <<order, license, repaying, paidBack>>
    BY <1>6 DEF RequestRefund
  <2> QED BY <1>3, <1>4, <2>1, <2>2 DEF ClaimDue, Due
<1>7. ASSUME NEW n \in Claims, ApproveRefund(o, n) PROVE ClaimDue(q, m)'
  <2>1. Purpose[o] # "trial" BY <1>7, RowFacts DEF ApproveRefund
  <2>2. /\ refund' = [refund EXCEPT ![o][n] = "repayment_pending"]
        /\ license'[o] = "revoked" /\ (n = 0 => order'[o] \in Back)
        /\ UNCHANGED <<repaying, paidBack>>
    BY <1>7, RowFacts DEF ApproveRefund, RevokeOrder, Back
  <2> QED BY <1>1, <1>3, <1>4, <2>1, <2>2 DEF ClaimDue, Due, Moves
<1>8. ASSUME NEW n \in Claims, RepayCalls(o, n) PROVE ClaimDue(q, m)'
  BY <1>4, <1>8 DEF ClaimDue, Due, RepayCalls, Repayable
<1>9. ASSUME NEW n \in Claims, RepayRecords(o, n) PROVE ClaimDue(q, m)'
  <2>1. /\ refund' = [refund EXCEPT ![o][n] = "repaid"] /\ refund[o][n] \in Due
        /\ repaying' = repaying \ {<<o, n>>} /\ UNCHANGED paidBack
    BY <1>9 DEF RepayRecords, RepaymentsDue
  <2> QED BY <1>1, <1>3, <1>4, <2>1 DEF ClaimDue, Due, Moves
<1>10. ASSUME NEW n \in Claims, RepayDies(o, n) PROVE ClaimDue(q, m)'
  BY <1>4, <1>10 DEF ClaimDue, Due, RepayDies
<1> QED BY <1>2, <1>5, <1>6, <1>7, <1>8, <1>9, <1>10 DEF Keeps

LEMMA TrialEndsStep ==
    ASSUME TypeOK, Linked, JoinsHold, RepaymentsDue, TrialEndsWithJoin, NEW o \in Orders, Step(o)
    PROVE  TrialEndsWithJoin'
<1>1. \A p \in Orders : Moves(p) BY MovesStep
<1>2. \A q \in Years : q \in Orders /\ Trial[q] \in Orders BY LedgerAssumption DEF Years
<1>3. license \in [Orders -> LicenseStates] BY DEF TypeOK
<1> SUFFICES ASSUME NEW p \in Years, NEW q \in Years, Trial[p] = Trial[q], license'[p] # "none"
             PROVE  /\ license'[q] # "none" => p = q
                    /\ license'[Trial[p]] \in {"converted", "revoked"}
  BY DEF TrialEndsWithJoin, Years
<1>4. ASSUME NEW j \in Years, JoinCommits(j)
      PROVE  /\ license'[Trial[j]] = "converted"
             /\ \A y \in Years : Trial[y] = Trial[j] => license'[y] = "none" \/ y = j
  <2>1. /\ license' = [license EXCEPT ![j] = "active", ![Trial[j]] = "converted"] /\ j \in joining
    BY <1>4 DEF JoinCommits
  <2>2. \A y \in Years : Trial[y] = Trial[j] => license[y] = "none" BY <2>1 DEF JoinsHold
  <2>3. \A y \in Years : y # Trial[j] BY LedgerAssumption DEF Years
  <2> QED BY <1>2, <1>3, <2>1, <2>2, <2>3
<1>5. CASE \E j \in Years : JoinCommits(j) /\ Trial[j] = Trial[p] BY <1>4, <1>5
<1>6. CASE \A j \in Years : Trial[j] = Trial[p] => ~JoinCommits(j)
  <2>1. license[p] # "none" /\ (license'[q] # "none" => license[q] # "none") BY <1>1, <1>2, <1>6 DEF Moves
  <2>2. license[Trial[p]] \in {"converted", "revoked"} /\ (license[q] # "none" => p = q)
    BY <2>1 DEF TrialEndsWithJoin
  <2> QED BY <1>1, <1>2, <2>1, <2>2 DEF Moves
<1> QED BY <1>5, <1>6

\* What RevokedIsEmpty says of order q.
EmptyIfRevoked(q) == license[q] = "revoked" =>
    /\ seats[q] = {} /\ q \notin renews
    /\ \A c \in Clients : /\ envs[q][c] = {}
                          /\ reward[q][c] \in {"none", "reversed"}
                          /\ qualifying[c] = q => branch[c] = "suspended"

LEMMA RevokedIsEmptyStep ==
    ASSUME TypeOK, Linked, JoinsHold, RepaymentsDue, RevokedIsEmpty, NEW o \in Orders, Step(o)
    PROVE  RevokedIsEmpty'
<1> SUFFICES ASSUME NEW q \in Orders PROVE EmptyIfRevoked(q)' BY DEF RevokedIsEmpty, EmptyIfRevoked
<1>a. EmptyIfRevoked(q) BY DEF RevokedIsEmpty, EmptyIfRevoked
<1>b. /\ license \in [Orders -> LicenseStates] /\ seats \in [Orders -> SUBSET Clients]
      /\ envs \in [Orders -> [Clients -> SUBSET Envs]] /\ reward \in [Orders -> [Clients -> RewardStates]]
      /\ branch \in [Clients -> BranchStates] /\ qualifying \in [Clients -> Orders \cup {None}]
      /\ Owner[o] \in Clients
  BY LedgerAssumption DEF TypeOK
<1> USE DEF EmptyIfRevoked
<1>r. ASSUME RevokeOrder(o) PROVE EmptyIfRevoked(q)'
  <2>1. CASE q = o BY <1>b, <1>r, <2>1 DEF RevokeOrder, Reversed, Nobody
  <2>2. CASE q # o BY <1>a, <1>b, <1>r, <2>2 DEF RevokeOrder
  <2> QED BY <2>1, <2>2
<1>p. ASSUME BookPayment(o), license'[o] = "active",
             q # o => license'[q] \in {license[q], "converted"} /\ (q \in renews' <=> q \in renews)
      PROVE  EmptyIfRevoked(q)'
  <2>1. CASE q = o BY <1>p, <2>1
  <2>2. CASE q # o BY <1>a, <1>b, <1>p, <2>2 DEF BookPayment, OpenSeats
  <2> QED BY <2>1, <2>2
<1>u. ASSUME UNCHANGED <<license, seats, envs, reward, branch, qualifying>>, renews' \subseteq renews
      PROVE  EmptyIfRevoked(q)'
  BY <1>a, <1>u
<1>1. CASE Enroll(o)
  <2>1. license' = [license EXCEPT ![o] = "active"] /\ UNCHANGED <<renews, envs, reward, branch, qualifying>>
    BY <1>1 DEF Enroll
  <2>2. q # o => seats'[q] = seats[q] BY <1>b, <1>1 DEF Enroll, OpenSeats
  <2> QED BY <1>a, <1>b, <2>1, <2>2
<1>2. CASE Accept(o) \/ Capture(o) \/ JoinReads(o) \/ JoinRollsBack(o)
  BY <1>2, <1>u DEF Accept, Capture, JoinReads, JoinRollsBack
<1>3. CASE RecordPayment(o) BY <1>3, <1>b, <1>p DEF RecordPayment
<1>4. CASE JoinCommits(o)
  <2>1. Trial[o] \in Orders /\ Trial[o] # o BY <1>4, LedgerAssumption DEF JoinCommits, JoinsHold, Years
  <2>2. license' = [license EXCEPT ![o] = "active", ![Trial[o]] = "converted"] BY <1>4 DEF JoinCommits
  <2>3. license'[o] = "active" /\ (q # o => license'[q] \in {license[q], "converted"}) BY <1>b, <2>1, <2>2
  <2>4. BookPayment(o) /\ (q # o => (q \in renews' <=> q \in renews)) BY <1>4 DEF JoinCommits
  <2> QED BY <1>p, <2>3, <2>4
<1>5. ASSUME NEW r \in Clients \cup {None}, Quote(o, r) PROVE EmptyIfRevoked(q)' BY <1>5, <1>u DEF Quote
<1>6. ASSUME NEW c \in Clients, NEW x \in Clients \cup {None}, AssignSeat(o, c, x) PROVE EmptyIfRevoked(q)'
  BY <1>6, <1>a, <1>b DEF AssignSeat, Entitled
<1>7. ASSUME NEW c \in Clients, NEW e \in Envs, NEW x \in Envs \cup {None}, Activate(o, c, e, x)
      PROVE  EmptyIfRevoked(q)'
  BY <1>7, <1>a, <1>b DEF Activate, Entitled
<1>8. ASSUME NEW n \in Claims,
             RequestRefund(o, n) \/ RepayCalls(o, n) \/ RepayRecords(o, n) \/ RepayDies(o, n)
      PROVE  EmptyIfRevoked(q)'
  BY <1>8, <1>u DEF RequestRefund, RepayCalls, RepayRecords, RepayDies
<1>9. ASSUME NEW k \in {"refund", "chargeback"}, Reverse(o, k) PROVE EmptyIfRevoked(q)'
  BY <1>9, <1>u DEF Reverse
<1>10. ASSUME NEW n \in Claims, ApproveRefund(o, n) PROVE EmptyIfRevoked(q)' BY <1>10, <1>r DEF ApproveRefund
<1>11. ASSUME NEW k \in {"refund", "chargeback"}, RecordReversal(o, k) PROVE EmptyIfRevoked(q)'
  BY <1>11, <1>r DEF RecordReversal
<1>12. CASE ReviewRevoke(o) BY <1>12, <1>r DEF ReviewRevoke
<1>13. CASE Suspend(o)
  <2>1. q # o => envs'[q] = envs[q] BY <1>b, <1>13 DEF Suspend
  <2> QED BY <1>13, <1>a, <1>b, <2>1 DEF Suspend
<1>14. CASE Restore(o) BY <1>14, <1>a, <1>b DEF Restore
<1>15. CASE Renewing(o) \/ Pass(o)
  <2>1. renews' \subseteq renews BY <1>15 DEF Renewing, Pass, Cancel, SyncCancellation, Charge, RecordRenewal
  <2> QED BY <1>15, <1>u, <2>1, RenewingFrame
<1>16. CASE ApplyBranch(o) BY <1>16, <1>a, <1>b DEF ApplyBranch, Entitled
<1>17. ASSUME NEW c \in Clients, ReleaseReward(o, c) PROVE EmptyIfRevoked(q)'
  BY <1>17, <1>a, <1>b DEF ReleaseReward, Entitled
<1>18. ASSUME NEW c \in Clients, ApproveBranch(c) \/ AcceptBranch(c) PROVE EmptyIfRevoked(q)'
  BY <1>18, <1>a, <1>b DEF ApproveBranch, AcceptBranch, Entitled
<1> QED BY <1>1, <1>2, <1>3, <1>4, <1>5, <1>6, <1>7, <1>8, <1>9, <1>10, <1>11, <1>12, <1>13,
           <1>14, <1>15, <1>16, <1>17, <1>18 DEF Step, Buying, Using, Closing, Referring

LEMMA NobodyEarnsStep ==
    ASSUME TypeOK, LineFrozen, NobodyEarnsOnOwnOrder, NEW o \in Orders, Step(o)
    PROVE  NobodyEarnsOnOwnOrder'
<1> SUFFICES ASSUME NEW q \in Orders PROVE reward'[q][Owner[q]] = "none" BY DEF NobodyEarnsOnOwnOrder
<1>a. /\ reward \in [Orders -> [Clients -> RewardStates]] /\ Owner[q] \in Clients /\ Owner[o] \in Clients
      /\ reward[q][Owner[q]] = "none" /\ Owner[q] \notin lineage[q]
  BY LedgerAssumption DEF TypeOK, LineFrozen, NobodyEarnsOnOwnOrder
<1>u. ASSUME UNCHANGED reward PROVE reward'[q][Owner[q]] = "none" BY <1>a, <1>u
<1>r. ASSUME RevokeOrder(o) PROVE reward'[q][Owner[q]] = "none" BY <1>a, <1>r DEF RevokeOrder, Reversed
<1>p. ASSUME BookPayment(o) PROVE reward'[q][Owner[q]] = "none" BY <1>a, <1>p DEF BookPayment
<1>1. CASE Enroll(o) \/ Accept(o) \/ Capture(o) \/ JoinReads(o) \/ JoinRollsBack(o)
  BY <1>1, <1>u DEF Enroll, Accept, Capture, JoinReads, JoinRollsBack
<1>2. CASE RecordPayment(o) \/ JoinCommits(o) BY <1>2, <1>p DEF RecordPayment, JoinCommits
<1>3. ASSUME NEW r \in Clients \cup {None}, Quote(o, r) PROVE reward'[q][Owner[q]] = "none"
  BY <1>3, <1>u DEF Quote
<1>4. CASE Using(o) BY <1>4, <1>u, UsingFrame
<1>5. ASSUME NEW n \in Claims,
             RequestRefund(o, n) \/ RepayCalls(o, n) \/ RepayRecords(o, n) \/ RepayDies(o, n)
      PROVE  reward'[q][Owner[q]] = "none"
  BY <1>5, <1>u DEF RequestRefund, RepayCalls, RepayRecords, RepayDies
<1>6. ASSUME NEW n \in Claims, ApproveRefund(o, n) PROVE reward'[q][Owner[q]] = "none"
  BY <1>6, <1>r DEF ApproveRefund
<1>7. ASSUME NEW k \in {"refund", "chargeback"}, Reverse(o, k) \/ RecordReversal(o, k)
      PROVE  reward'[q][Owner[q]] = "none"
  BY <1>7, <1>u, <1>r DEF Reverse, RecordReversal
<1>8. CASE Suspend(o) \/ Restore(o) \/ ReviewRevoke(o) BY <1>8, <1>u, <1>r DEF Suspend, Restore, ReviewRevoke
<1>9. CASE Renewing(o) \/ Pass(o) BY <1>9, <1>u, RenewingFrame
<1>10. ASSUME NEW c \in Clients, ReleaseReward(o, c) PROVE reward'[q][Owner[q]] = "none"
  BY <1>10, <1>a DEF ReleaseReward
<1>11. ASSUME NEW c \in Clients, ApplyBranch(o) \/ ApproveBranch(c) \/ AcceptBranch(c)
       PROVE  reward'[q][Owner[q]] = "none"
  BY <1>11, <1>u DEF ApplyBranch, ApproveBranch, AcceptBranch
<1>12. Clients # {} BY <1>a
<1> QED BY <1>1, <1>2, <1>3, <1>4, <1>5, <1>6, <1>7, <1>8, <1>9, <1>10, <1>11, <1>12 DEF Step,
           Buying, Closing, Referring

-----------------------------------------------------------------------------
(* The theorems.  All of them for any orders, buyers and numbers of renewals. *)

LEMMA Start == Init => IInv
<1> SUFFICES ASSUME Init PROVE IInv OBVIOUS
<1> USE LedgerAssumption DEF Init, Nobody
<1>1. TypeOK BY DEF TypeOK, OrderStates, LicenseStates, RefundStates, RewardStates, BranchStates, Claims
<1>2. Linked /\ JoinsHold /\ RepaymentsDue /\ LineFrozen
  BY DEF Linked, JoinsHold, RepaymentsDue, LineFrozen, Back, Due
<1>3. RevokedIsEmpty /\ TrialEndsWithJoin /\ NobodyEarnsOnOwnOrder
  BY DEF RevokedIsEmpty, TrialEndsWithJoin, NobodyEarnsOnOwnOrder, Years
<1> QED BY <1>1, <1>2, <1>3 DEF IInv

LEMMA Preserved == IInv /\ [Next]_vars => IInv'
<1>1. ASSUME IInv, NEW o \in Orders, Step(o) PROVE IInv'
  <2>1. /\ TypeOK /\ Linked /\ JoinsHold /\ RepaymentsDue /\ LineFrozen
        /\ RevokedIsEmpty /\ TrialEndsWithJoin /\ NobodyEarnsOnOwnOrder
    BY <1>1 DEF IInv
  <2>2. \A p \in joining : <<p, "capture">> \in sent BY <2>1 DEF JoinsHold
  <2>3. TypeOK' BY <1>1, <2>1, <2>2, TypeBuying, TypeUsing, TypeClosing, TypeRenewing, TypeReferring DEF Step
  <2>4. Linked' /\ JoinsHold' /\ RepaymentsDue' /\ LineFrozen'
    BY <1>1, <2>1, LinkedStep, JoinsHoldStep, RepaymentsDueStep, LineFrozenStep
  <2>5. RevokedIsEmpty' /\ TrialEndsWithJoin' /\ NobodyEarnsOnOwnOrder'
    BY <1>1, <2>1, RevokedIsEmptyStep, TrialEndsStep, NobodyEarnsStep
  <2> QED BY <2>3, <2>4, <2>5 DEF IInv
<1>2. ASSUME IInv, UNCHANGED vars PROVE IInv'
  BY <1>2 DEF IInv, TypeOK, Linked, JoinsHold, RepaymentsDue, LineFrozen, RevokedIsEmpty,
              TrialEndsWithJoin, NobodyEarnsOnOwnOrder
<1> QED BY <1>1, <1>2 DEF Next

LEMMA Invariance == Spec => []IInv
BY Start, Preserved, PTL DEF Spec

\* Every variable stays in its type, and no payment event is recorded that the provider did
\* not send (record_payment, record_reversal).
THEOREM TypeCorrect == Spec => []TypeOK
<1>1. IInv => TypeOK BY DEF IInv
<1> QED BY <1>1, Invariance, PTL

\* Money never goes back while the licence gives access (approve_refund, repay_refund,
\* record_reversal), for any interleaving of repayments, webhooks and reviews.
THEOREM MoneyBackClosesAccess == Spec => []MoneyBackIsRevoked
<1>1. IInv => MoneyBackIsRevoked BY DEF IInv, Linked, RepaymentsDue, MoneyBackIsRevoked, Back
<1> QED BY <1>1, Invariance, PTL

\* What hangs on a revoked licence is gone for good (revoke_order against assign_seat,
\* activate, release_reward and the branch's own steps).
THEOREM RevocationIsComplete == Spec => []RevokedIsEmpty
<1>1. IInv => RevokedIsEmpty BY DEF IInv
<1> QED BY <1>1, Invariance, PTL

\* One year at most follows a trial, and the trial never gives access again (record_payment).
THEOREM TrialIsJoinedOnce == Spec => []TrialEndsWithJoin
<1>1. IInv => TrialEndsWithJoin BY DEF IInv
<1> QED BY <1>1, Invariance, PTL

\* Nobody is rewarded for an own purchase, at any level of the line (quote, record_payment).
THEOREM NoSelfReward == Spec => []NobodyEarnsOnOwnOrder
<1>1. IInv => NobodyEarnsOnOwnOrder BY DEF IInv
<1> QED BY <1>1, Invariance, PTL

-----------------------------------------------------------------------------
(* Seats and environments stay within their limits.                        *)

\* What SeatsHoldTheirLimits says of order q, with the finiteness it rests on.
SeatsHold(q) ==
    /\ IsFiniteSet(seats[q]) /\ Cardinality(seats[q]) <= SeatLimit[q]
    /\ \A c \in Clients :
          /\ IsFiniteSet(envs[q][c]) /\ Cardinality(envs[q][c]) <= MaxEnvs
          /\ envs[q][c] # {} => c \in seats[q] /\ license[q] \notin {"none", "suspended"}

\* Replacing members of a finite set that has room for one more.
LEMMA OneMore ==
    ASSUME NEW S, IsFiniteSet(S), NEW x, NEW y, NEW limit \in Nat, Cardinality(S \ {x}) < limit
    PROVE  IsFiniteSet((S \ {x}) \cup {y}) /\ Cardinality((S \ {x}) \cup {y}) <= limit
<1>1. IsFiniteSet(S \ {x}) BY FS_RemoveElement
<1>2. Cardinality(S \ {x}) \in Nat BY <1>1, FS_CardinalityType
<1>3. /\ IsFiniteSet((S \ {x}) \cup {y})
      /\ \/ Cardinality((S \ {x}) \cup {y}) = Cardinality(S \ {x})
         \/ Cardinality((S \ {x}) \cup {y}) = Cardinality(S \ {x}) + 1
  BY <1>1, FS_AddElement
<1> QED BY <1>2, <1>3

LEMMA SeatsHoldStep ==
    ASSUME IInv, \A p \in Orders : SeatsHold(p), NEW o \in Orders, Step(o), NEW q \in Orders
    PROVE  SeatsHold(q)'
<1>a. /\ license \in [Orders -> LicenseStates] /\ seats \in [Orders -> SUBSET Clients]
      /\ envs \in [Orders -> [Clients -> SUBSET Envs]]
      /\ order[o] \in {"none", "quoted", "accepted"} => license[o] = "none"
      /\ o \in joining => order[o] = "accepted" /\ license[Trial[o]] # "none"
  <2>1. TypeOK /\ Linked /\ JoinsHold /\ RepaymentsDue BY DEF IInv
  <2>2. /\ license \in [Orders -> LicenseStates] /\ seats \in [Orders -> SUBSET Clients]
        /\ envs \in [Orders -> [Clients -> SUBSET Envs]]
    BY <2>1 DEF TypeOK
  <2>3. order[o] \in {"none", "quoted", "accepted"} => license[o] = "none" BY <2>1, RowFacts
  <2>4. o \in joining => order[o] = "accepted" /\ license[Trial[o]] # "none" BY <2>1, RowFacts
  <2> QED BY <2>2, <2>3, <2>4
<1>b. SeatLimit[o] \in Nat /\ SeatLimit[o] >= 1 /\ MaxEnvs \in Nat /\ MaxEnvs >= 1
  <2>1. SeatLimit \in [Orders -> Nat] /\ MaxEnvs \in Nat \ {0} BY LedgerAssumption
  <2>2. SeatLimit[o] >= 1 BY LedgerAssumption
  <2> QED BY <2>1, <2>2
<1>c. IsFiniteSet({}) /\ Cardinality({}) = 0 BY FS_EmptySet
<1>d. SeatsHold(q) /\ SeatsHold(o) OBVIOUS
<1>f. /\ IsFiniteSet(seats[o]) /\ Cardinality(seats[o]) <= SeatLimit[o]
      /\ \A c \in Clients : IsFiniteSet(envs[o][c]) /\ Cardinality(envs[o][c]) <= MaxEnvs
      /\ \A c \in Clients : envs[o][c] # {} => c \in seats[o] /\ license[o] \notin {"none", "suspended"}
  BY <1>d DEF SeatsHold
<1>s. ASSUME q = o, IsFiniteSet(seats'[o]), Cardinality(seats'[o]) <= SeatLimit[o],
             \A c \in Clients : IsFiniteSet(envs'[o][c]) /\ Cardinality(envs'[o][c]) <= MaxEnvs,
             \A c \in Clients : envs'[o][c] # {} =>
                                   c \in seats'[o] /\ license'[o] \notin {"none", "suspended"}
      PROVE  SeatsHold(q)'
  BY <1>s DEF SeatsHold
<1>u. ASSUME seats'[q] = seats[q], envs'[q] = envs[q],
             license'[q] \in {"none", "suspended"} => license[q] \in {"none", "suspended"}
      PROVE  SeatsHold(q)'
  BY <1>d, <1>u DEF SeatsHold
<1>n. ASSUME UNCHANGED <<license, seats, envs>> PROVE SeatsHold(q)' BY <1>u, <1>n
<1>e. ASSUME q = o, seats'[o] = {} \/ \E x : seats'[o] = {x}, envs'[o] = Nobody({})
      PROVE  SeatsHold(q)'
  <2>1. IsFiniteSet(seats'[o]) /\ Cardinality(seats'[o]) \in {0, 1}
    <3>1. CASE seats'[o] = {} BY <1>c, <3>1
    <3>2. ASSUME NEW x, seats'[o] = {x} PROVE IsFiniteSet(seats'[o]) /\ Cardinality(seats'[o]) = 1
      BY <3>2, FS_Singleton
    <3> QED BY <1>e, <3>1, <3>2
  <2>2. \A c \in Clients : envs'[o][c] = {} BY <1>e DEF Nobody
  <2>3. Cardinality(seats'[o]) <= SeatLimit[o] BY <1>b, <2>1
  <2>4. \A c \in Clients : IsFiniteSet(envs'[o][c]) /\ Cardinality(envs'[o][c]) <= MaxEnvs
    BY <1>b, <1>c, <2>2
  <2> QED BY <1>e, <1>s, <2>1, <2>2, <2>3, <2>4
<1>r. ASSUME RevokeOrder(o) PROVE SeatsHold(q)'
  <2>1. CASE q = o
    <3>1. seats'[o] = {} /\ envs'[o] = Nobody({}) BY <1>a, <1>r DEF RevokeOrder
    <3> QED BY <1>e, <2>1, <3>1
  <2>2. CASE q # o BY <1>a, <1>r, <1>u, <2>2 DEF RevokeOrder
  <2> QED BY <2>1, <2>2
<1>p. ASSUME OpenSeats(o), license[o] = "none", UNCHANGED envs,
             q # o => license'[q] = license[q] \/ license'[q] = "converted"
      PROVE  SeatsHold(q)'
  <2>1. CASE q = o
    <3>1. \A c \in Clients : envs[o][c] = {} BY <1>f, <1>p
    <3>2. envs'[o] = Nobody({}) BY <1>a, <1>p, <3>1 DEF Nobody
    <3>3. seats'[o] = {} \/ seats'[o] = {Owner[o]} BY <1>a, <1>p DEF OpenSeats
    <3> QED BY <1>e, <2>1, <3>2, <3>3
  <2>2. CASE q # o
    <3>1. seats'[q] = seats[q] BY <1>a, <1>p, <2>2 DEF OpenSeats
    <3> QED BY <1>p, <1>u, <2>2, <3>1
  <2> QED BY <2>1, <2>2
<1>1. CASE Enroll(o)
  <2>1. license'[q] = license[q] \/ q = o BY <1>1, <1>a DEF Enroll
  <2> QED BY <1>1, <1>a, <1>p, <2>1 DEF Enroll
<1>2. CASE Accept(o) \/ Capture(o) \/ JoinReads(o) \/ JoinRollsBack(o)
  BY <1>2, <1>n DEF Accept, Capture, JoinReads, JoinRollsBack
<1>3. CASE RecordPayment(o)
  <2>1. license'[q] = license[q] \/ q = o BY <1>3, <1>a DEF RecordPayment
  <2> QED BY <1>3, <1>a, <1>p, <2>1 DEF RecordPayment, CaptureDue, BookPayment
<1>4. CASE JoinCommits(o)
  <2>1. license' = [license EXCEPT ![o] = "active", ![Trial[o]] = "converted"] BY <1>4 DEF JoinCommits
  <2>2. q = o \/ license'[q] = license[q] \/ license'[q] = "converted" BY <1>a, <2>1
  <2> QED BY <1>4, <1>a, <1>p, <2>2 DEF JoinCommits, BookPayment
<1>5. ASSUME NEW r \in Clients \cup {None}, Quote(o, r) PROVE SeatsHold(q)' BY <1>5, <1>n DEF Quote
<1>6. ASSUME NEW c \in Clients, NEW x \in Clients \cup {None}, AssignSeat(o, c, x) PROVE SeatsHold(q)'
  <2>1. CASE q = o
    <3>1. /\ seats'[o] = (seats[o] \ {x}) \cup {c} /\ Cardinality(seats[o] \ {x}) < SeatLimit[o]
          /\ UNCHANGED license
      BY <1>6, <1>a DEF AssignSeat
    <3>2. \A d \in Clients : envs'[o][d] = IF d \in {x, c} THEN {} ELSE envs[o][d]
      BY <1>6, <1>a DEF AssignSeat, Kept
    <3>3. IsFiniteSet(seats'[o]) /\ Cardinality(seats'[o]) <= SeatLimit[o]
      <4>1. IsFiniteSet(seats[o]) /\ SeatLimit[o] \in Nat /\ Cardinality(seats[o] \ {x}) < SeatLimit[o]
        BY <1>b, <1>f, <3>1
      <4>2. /\ IsFiniteSet((seats[o] \ {x}) \cup {c})
            /\ Cardinality((seats[o] \ {x}) \cup {c}) <= SeatLimit[o]
        BY <4>1, OneMore
      <4> QED BY <3>1, <4>2
    <3>4. \A d \in Clients : IsFiniteSet(envs'[o][d]) /\ Cardinality(envs'[o][d]) <= MaxEnvs
      <4>1. 0 <= MaxEnvs BY <1>b
      <4>2. TAKE d \in Clients
      <4>3. CASE d \in {x, c} BY <1>c, <3>2, <4>1, <4>3
      <4>4. CASE d \notin {x, c} BY <1>f, <3>2, <4>4
      <4> QED BY <4>3, <4>4
    <3>5. \A d \in Clients : envs'[o][d] # {} =>
                               d \in seats'[o] /\ license'[o] \notin {"none", "suspended"}
      BY <1>f, <3>1, <3>2
    <3> QED BY <1>s, <2>1, <3>3, <3>4, <3>5
  <2>2. CASE q # o BY <1>6, <1>a, <1>u, <2>2 DEF AssignSeat
  <2> QED BY <2>1, <2>2
<1>7. ASSUME NEW c \in Clients, NEW e \in Envs, NEW x \in Envs \cup {None}, Activate(o, c, e, x)
      PROVE  SeatsHold(q)'
  <2>1. CASE q = o
    <3>1. /\ Cardinality(envs[o][c] \ {x}) < MaxEnvs /\ UNCHANGED <<license, seats>>
          /\ license[o] = "active" /\ c \in seats[o]
      BY <1>7 DEF Activate, Entitled
    <3>2. \A d \in Clients : envs'[o][d] = IF d = c THEN (envs[o][c] \ {x}) \cup {e} ELSE envs[o][d]
      BY <1>7, <1>a DEF Activate
    <3>3. /\ IsFiniteSet((envs[o][c] \ {x}) \cup {e})
          /\ Cardinality((envs[o][c] \ {x}) \cup {e}) <= MaxEnvs
      BY <1>b, <1>f, <3>1, OneMore
    <3>4. \A d \in Clients : IsFiniteSet(envs'[o][d]) /\ Cardinality(envs'[o][d]) <= MaxEnvs
      BY <1>f, <3>2, <3>3
    <3>5. seats'[o] = seats[o] /\ license'[o] = "active" BY <3>1
    <3>6. \A d \in Clients : envs'[o][d] # {} =>
                               d \in seats'[o] /\ license'[o] \notin {"none", "suspended"}
      BY <1>f, <3>1, <3>2, <3>5
    <3> QED BY <1>f, <1>s, <2>1, <3>4, <3>5, <3>6
  <2>2. CASE q # o BY <1>7, <1>a, <1>u, <2>2 DEF Activate
  <2> QED BY <2>1, <2>2
<1>8. ASSUME NEW n \in Claims,
             RequestRefund(o, n) \/ RepayCalls(o, n) \/ RepayRecords(o, n) \/ RepayDies(o, n)
      PROVE  SeatsHold(q)'
  BY <1>8, <1>n DEF RequestRefund, RepayCalls, RepayRecords, RepayDies
<1>9. ASSUME NEW k \in {"refund", "chargeback"}, Reverse(o, k) PROVE SeatsHold(q)' BY <1>9, <1>n DEF Reverse
<1>10. ASSUME NEW n \in Claims, ApproveRefund(o, n) PROVE SeatsHold(q)' BY <1>10, <1>r DEF ApproveRefund
<1>11. ASSUME NEW k \in {"refund", "chargeback"}, RecordReversal(o, k) PROVE SeatsHold(q)'
  BY <1>11, <1>r DEF RecordReversal
<1>12. CASE ReviewRevoke(o) BY <1>12, <1>r DEF ReviewRevoke
<1>13. CASE Suspend(o)
  <2>1. CASE q = o
    <3>1. seats'[o] = seats[o] /\ envs'[o] = Nobody({}) BY <1>a, <1>13 DEF Suspend
    <3>2. \A c \in Clients : envs'[o][c] = {} BY <3>1 DEF Nobody
    <3>3. \A c \in Clients : IsFiniteSet(envs'[o][c]) /\ Cardinality(envs'[o][c]) <= MaxEnvs
      BY <1>b, <1>c, <3>2
    <3> QED BY <1>f, <1>s, <2>1, <3>1, <3>2, <3>3
  <2>2. CASE q # o BY <1>13, <1>a, <1>u, <2>2 DEF Suspend
  <2> QED BY <2>1, <2>2
<1>14. CASE Restore(o)
  <2>1. /\ license'[q] \in {"none", "suspended"} => license[q] \in {"none", "suspended"}
        /\ UNCHANGED <<seats, envs>>
    BY <1>14, <1>a DEF Restore
  <2> QED BY <1>u, <2>1
<1>15. CASE Renewing(o) \/ Pass(o) BY <1>15, <1>n, RenewingFrame
<1>16. CASE Referring(o) BY <1>16, <1>n, ReferringFrame
<1> QED BY <1>1, <1>2, <1>3, <1>4, <1>5, <1>6, <1>7, <1>8, <1>9, <1>10, <1>11, <1>12, <1>13, <1>14,
           <1>15, <1>16 DEF Step, Buying, Using, Closing

\* Environments are registered only for active seats of a licence that is not suspended, within
\* the limits of both, for any number of seats (assign_seat, activate, review_license).
THEOREM SeatLimitsHold == Spec => []SeatsHoldTheirLimits
<1> DEFINE All == \A q \in Orders : SeatsHold(q)
<1>1. Init => All
  <2>1. IsFiniteSet({}) /\ Cardinality({}) = 0 BY FS_EmptySet
  <2> QED BY <2>1, LedgerAssumption DEF Init, Nobody, SeatsHold
<1>2. IInv /\ All /\ [Next]_vars => All'
  <2>1. ASSUME IInv, All, Next PROVE All' BY <2>1, SeatsHoldStep DEF Next
  <2>2. ASSUME All, UNCHANGED vars PROVE All' BY <2>2 DEF SeatsHold
  <2> QED BY <2>1, <2>2
<1>3. All => SeatsHoldTheirLimits BY DEF SeatsHold, SeatsHoldTheirLimits
<1> QED BY <1>1, <1>2, <1>3, Invariance, PTL DEF Spec

-----------------------------------------------------------------------------
(* The ledger implements PaidAccess for every order.                       *)

\* A step of o moves another order's access and money only if it joins its trial.
LEMMA PromiseStep ==
    ASSUME IInv, NEW o \in Orders, Step(o), NEW q \in Orders
    PROVE  [Promise(q)!Next]_<<Access(q), Money(q)>>
<1>a. /\ order \in [Orders -> OrderStates] /\ license \in [Orders -> LicenseStates]
      /\ \A p \in Orders : /\ license[p] = "none" <=> order[p] \in {"none", "quoted", "accepted"}
                           /\ order[p] \in Back => license[p] = "revoked"
                           /\ Purpose[p] = "trial" => order[p] \in {"none", "trial"}
                           /\ p \in Years <=> Purpose[p] = "annual"
      /\ refund[o][0] \in Due => order[o] \in Back
  BY RowFacts DEF IInv, TypeOK, Linked, RepaymentsDue
<1>f. \A n \in Claims : refund[o][n] # "none" => license[o] # "none" BY RowFacts DEF IInv
<1> USE DEF Promise!Next, Promise!Grant, Promise!Hold, Promise!GiveBack, Promise!Close, Access, Money,
            Back, Due, OrderStates, LicenseStates
<1>u. ASSUME UNCHANGED <<order, license>> PROVE [Promise(q)!Next]_<<Access(q), Money(q)>> BY <1>u
<1>r. ASSUME license' = [license EXCEPT ![o] = "revoked"], license[o] # "none",
             \/ order' = order
             \/ order[o] \in {"paid"} \cup Back /\ \E b \in Back : order' = [order EXCEPT ![o] = b]
      PROVE  [Promise(q)!Next]_<<Access(q), Money(q)>>
  BY <1>a, <1>r
<1>1. CASE Enroll(o) BY <1>1, <1>a DEF Enroll
<1>2. CASE Accept(o) BY <1>2, <1>a DEF Accept
<1>3. CASE Capture(o) \/ JoinReads(o) \/ JoinRollsBack(o) BY <1>3, <1>u DEF Capture, JoinReads, JoinRollsBack
<1>4. CASE RecordPayment(o) BY <1>4, <1>a DEF RecordPayment, CaptureDue, BookPayment
<1>5. CASE JoinCommits(o)
  <2>1. /\ order[o] = "accepted" /\ order' = [order EXCEPT ![o] = "paid"]
        /\ license' = [license EXCEPT ![o] = "active", ![Trial[o]] = "converted"]
        /\ license[Trial[o]] # "none" /\ Trial[o] \in Orders /\ Trial[o] # o
    BY <1>5, RowFacts DEF IInv, JoinCommits, BookPayment
  <2>2. CASE q = o BY <1>a, <2>1, <2>2
  <2>3. CASE q # o BY <1>a, <2>1, <2>3
  <2> QED BY <2>2, <2>3
<1>6. ASSUME NEW r \in Clients \cup {None}, Quote(o, r) PROVE [Promise(q)!Next]_<<Access(q), Money(q)>>
  BY <1>6, <1>a DEF Quote
<1>7. CASE Using(o) BY <1>7, <1>u, UsingFrame
<1>8. ASSUME NEW n \in Claims, RequestRefund(o, n) \/ RepayCalls(o, n) \/ RepayDies(o, n)
      PROVE  [Promise(q)!Next]_<<Access(q), Money(q)>>
  BY <1>8, <1>u DEF RequestRefund, RepayCalls, RepayDies
<1>9. ASSUME NEW n \in Claims, ApproveRefund(o, n) PROVE [Promise(q)!Next]_<<Access(q), Money(q)>>
  <2>1. license[o] # "none" BY <1>9, <1>f DEF ApproveRefund
  <2>2. /\ license' = [license EXCEPT ![o] = "revoked"]
        /\ order' = order \/ (order[o] = "paid" /\ order' = [order EXCEPT ![o] = "refund_approved"])
    BY <1>9 DEF ApproveRefund, RevokeOrder
  <2> QED BY <1>r, <2>1, <2>2
<1>10. ASSUME NEW n \in Claims, RepayRecords(o, n) PROVE [Promise(q)!Next]_<<Access(q), Money(q)>>
  BY <1>10, <1>a DEF RepayRecords, Repayable
<1>11. ASSUME NEW k \in {"refund", "chargeback"}, Reverse(o, k) PROVE [Promise(q)!Next]_<<Access(q), Money(q)>>
  BY <1>11, <1>u DEF Reverse
<1>12. ASSUME NEW k \in {"refund", "chargeback"}, RecordReversal(o, k)
       PROVE  [Promise(q)!Next]_<<Access(q), Money(q)>>
  <2>1. order[o] \in {"paid"} \cup Back BY <1>12, <1>a, RowFacts DEF IInv, RecordReversal, Linked
  <2> QED BY <1>12, <1>r, <2>1 DEF RecordReversal, RevokeOrder
<1>13. CASE Suspend(o) BY <1>13, <1>a DEF Suspend
<1>14. CASE Restore(o) BY <1>14, <1>a DEF Restore, Restorable
<1>15. CASE ReviewRevoke(o) BY <1>15, <1>r DEF ReviewRevoke, RevokeOrder
<1>16. CASE Renewing(o) \/ Pass(o) BY <1>16, <1>u, RenewingFrame
<1>17. CASE Referring(o) BY <1>17, <1>u, ReferringFrame
<1> QED BY <1>1, <1>2, <1>3, <1>4, <1>5, <1>6, <1>7, <1>8, <1>9, <1>10, <1>11, <1>12, <1>13, <1>14,
           <1>15, <1>16, <1>17 DEF Step, Buying, Closing

\* The ledger keeps the abstract promise to every order: access is opened once, given back only
\* while the order is paid, and closed for good when the money goes back.
THEOREM LedgerKeepsPaidAccess == Spec => KeepsPaidAccess
<1>1. Init => \A o \in Orders : Promise(o)!Init BY DEF Init, Promise!Init, Access, Money
<1>2. IInv /\ [Next]_vars => [\A o \in Orders : [Promise(o)!Next]_<<Access(o), Money(o)>>]_vars
  <2>1. ASSUME IInv, Next PROVE \A q \in Orders : [Promise(q)!Next]_<<Access(q), Money(q)>>
    BY <2>1, PromiseStep DEF Next
  <2> QED BY <2>1
<1> QED BY <1>1, <1>2, Invariance, PTL DEF Spec, KeepsPaidAccess

-----------------------------------------------------------------------------
(* What StopReachesProvider rests on.  That the provider is told in the end *)
(* is left to TLC; that a stop is the sweep's to tell, stays so and is not  *)
(* undone by another capture are facts about states and steps.              *)

\* What sync_membership_cancellations asks of a stopped membership, beside its being stopped.
StopIsDue == \A o \in Years : Stopped(o) => license[o] # "none" /\ o \notin renews

\* The same of every order, whose cancellation follows its licence.
Stops(q) == /\ q \in cancelled => license[q] # "none"
            /\ Stopped(q) => q \notin renews

Final(q) == q \in cancelled \/ license[q] = "revoked"

LEMMA StopsStep ==
    ASSUME IInv, \A q \in Orders : Stops(q), NEW o \in Orders, Step(o), NEW q \in Orders
    PROVE  Stops(q)'
<1>a. Stops(q) /\ TypeOK /\ Linked /\ JoinsHold /\ RepaymentsDue BY DEF IInv
<1>b. license \in [Orders -> LicenseStates] BY <1>a DEF TypeOK
<1> USE DEF Stops, Stopped
<1>u. ASSUME UNCHANGED <<license, cancelled>>, renews' \subseteq renews PROVE Stops(q)' BY <1>a, <1>u
<1>r. ASSUME RevokeOrder(o) PROVE Stops(q)' BY <1>a, <1>b, <1>r DEF RevokeOrder
<1>1. CASE Enroll(o) BY <1>1, <1>a, <1>b DEF Enroll
<1>2. CASE Accept(o) \/ Capture(o) \/ JoinReads(o) \/ JoinRollsBack(o)
  BY <1>2, <1>u DEF Accept, Capture, JoinReads, JoinRollsBack
<1>3. CASE RecordPayment(o) BY <1>3, <1>a, <1>b DEF RecordPayment, BookPayment
<1>4. CASE JoinCommits(o)
  <2>1. license[o] = "none" /\ Trial[o] \in Orders /\ Trial[o] # o
    BY <1>4, <1>a, RowFacts DEF JoinCommits
  <2>2. o \notin cancelled BY <2>1 DEF IInv
  <2>3. /\ license' = [license EXCEPT ![o] = "active", ![Trial[o]] = "converted"]
        /\ renews' = renews \cup {o} /\ UNCHANGED cancelled
    BY <1>4 DEF JoinCommits, BookPayment
  <2> QED BY <1>a, <1>b, <2>1, <2>2, <2>3
<1>5. ASSUME NEW r \in Clients \cup {None}, Quote(o, r) PROVE Stops(q)' BY <1>5, <1>u DEF Quote
<1>6. CASE Using(o) BY <1>6, <1>u, UsingFrame
<1>7. ASSUME NEW n \in Claims,
             RequestRefund(o, n) \/ RepayCalls(o, n) \/ RepayRecords(o, n) \/ RepayDies(o, n)
      PROVE  Stops(q)'
  BY <1>7, <1>u DEF RequestRefund, RepayCalls, RepayRecords, RepayDies
<1>8. ASSUME NEW n \in Claims, ApproveRefund(o, n) PROVE Stops(q)' BY <1>8, <1>r DEF ApproveRefund
<1>9. ASSUME NEW k \in {"refund", "chargeback"}, Reverse(o, k) \/ RecordReversal(o, k) PROVE Stops(q)'
  BY <1>9, <1>u, <1>r DEF Reverse, RecordReversal
<1>10. CASE ReviewRevoke(o) BY <1>10, <1>r DEF ReviewRevoke
<1>11. CASE Suspend(o) BY <1>11, <1>a, <1>b DEF Suspend
<1>12. CASE Restore(o) BY <1>12, <1>a, <1>b DEF Restore
<1>13. CASE Cancel(o) BY <1>13, <1>a DEF Cancel
<1>14. CASE SyncCancellation(o) \/ Charge(o) \/ RecordRenewal(o) \/ Pass(o)
  BY <1>14, <1>u DEF SyncCancellation, Charge, RecordRenewal, Pass
<1>15. CASE Referring(o) BY <1>15, <1>u, ReferringFrame
<1> QED BY <1>1, <1>2, <1>3, <1>4, <1>5, <1>6, <1>7, <1>8, <1>9, <1>10, <1>11, <1>12, <1>13,
           <1>14, <1>15 DEF Step, Buying, Closing, Renewing

\* A cancelled or revoked year stays so, and no capture subscribes it again.
LEMMA FinalStep ==
    ASSUME IInv, \A q \in Orders : Stops(q), NEW o \in Orders, Step(o), NEW q \in Years, Final(q)
    PROVE  Final(q)' /\ (q \in subscribed' => q \in subscribed)
<1>a. /\ TypeOK /\ Linked /\ JoinsHold /\ RepaymentsDue /\ q \in Orders /\ Purpose[q] # "trial"
      /\ license[q] # "none"
  BY DEF IInv, Final, Stops, Years
<1>1. cancelled \subseteq cancelled'
  <2>1. RevokeOrder(o) => UNCHANGED cancelled BY DEF RevokeOrder
  <2>2. BookPayment(o) => UNCHANGED cancelled BY DEF BookPayment
  <2>3. Buying(o) \/ Using(o) \/ Referring(o) => UNCHANGED cancelled
    BY <2>2, UsingFrame, ReferringFrame DEF Buying, Enroll, Accept, Capture, RecordPayment, JoinReads,
       JoinCommits, JoinRollsBack, Quote
  <2>4. Closing(o) => UNCHANGED cancelled
    BY <2>1 DEF Closing, RequestRefund, ApproveRefund, RepayCalls, RepayRecords, RepayDies, Reverse,
       RecordReversal, Suspend, Restore, ReviewRevoke
  <2>5. Renewing(o) \/ Pass(o) => cancelled \subseteq cancelled'
    BY DEF Renewing, Pass, Cancel, SyncCancellation, Charge, RecordRenewal
  <2> QED BY <2>3, <2>4, <2>5 DEF Step
<1>2. license[q] = "revoked" => license'[q] = "revoked" BY <1>a, MovesStep DEF Moves
<1>3. q \in subscribed' => q \in subscribed
  <2>1. CASE Capture(o)
    <3>1. q # o BY <1>a, <2>1, RowFacts DEF Capture
    <3> QED BY <2>1, <3>1 DEF Capture
  <2>2. CASE ~Capture(o)
    <3>1. subscribed' \subseteq subscribed
      BY <2>2, UsingFrame, ReferringFrame DEF Step, Buying, Enroll, Accept, RecordPayment, JoinReads,
         JoinCommits, JoinRollsBack, Quote, BookPayment, Closing, RequestRefund, ApproveRefund,
         RepayCalls, RepayRecords, RepayDies, Reverse, RecordReversal, Suspend, Restore, ReviewRevoke,
         Renewing, Pass, Cancel, SyncCancellation, Charge, RecordRenewal
    <3> QED BY <3>1
  <2> QED BY <2>1, <2>2
<1> QED BY <1>1, <1>2, <1>3 DEF Final

LEMMA StopsPreserved ==
    ASSUME IInv, \A q \in Orders : Stops(q), [Next]_vars
    PROVE  /\ \A q \in Orders : Stops(q)'
           /\ \A q \in Years : Final(q) => Final(q)' /\ (q \in subscribed' => q \in subscribed)
<1>1. CASE UNCHANGED vars BY <1>1 DEF Stops, Stopped, Final
<1>2. CASE Next BY <1>2, StopsStep, FinalStep DEF Next
<1> QED BY <1>1, <1>2

\* A membership that is cancelled, suspended or revoked is always one the sweep tells the
\* provider about; and once cancelled or revoked it stays so, and no later capture subscribes
\* it again (sync_membership_cancellations, cancel, revoke_order).
THEOREM StopsStayDue ==
    Spec => /\ []StopIsDue
            /\ [][\A o \in Years : o \in cancelled \/ license[o] = "revoked" =>
                     /\ o \in cancelled' \/ license'[o] = "revoked"
                     /\ o \in subscribed' => o \in subscribed]_vars
<1>1. Init => \A q \in Orders : Stops(q) BY DEF Init, Stops, Stopped
<1>2. IInv /\ (\A q \in Orders : Stops(q)) /\ [Next]_vars => (\A q \in Orders : Stops(q))'
  BY StopsPreserved
<1>3. IInv /\ (\A q \in Orders : Stops(q)) => StopIsDue
  BY DEF Stops, Stopped, StopIsDue, Years, IInv
<1>4. IInv /\ (\A q \in Orders : Stops(q)) /\ [Next]_vars =>
         [\A o \in Years : o \in cancelled \/ license[o] = "revoked" =>
             /\ o \in cancelled' \/ license'[o] = "revoked"
             /\ o \in subscribed' => o \in subscribed]_vars
  BY StopsPreserved DEF Final
<1> QED BY <1>1, <1>2, <1>3, <1>4, Invariance, PTL DEF Spec
=================================================================================
