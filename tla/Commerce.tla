-------------------------------- MODULE Commerce --------------------------------
(***************************************************************************)
(* The commerce ledger (apps/commerce): orders and their licences, refunds *)
(* and reversals, the annual membership that follows a trial, seats and    *)
(* registered environments, and the referral branches with their rewards.  *)
(*                                                                         *)
(* Every service function is one database transaction that first locks the *)
(* order, licence, refund or branch it decides on, so it is one action; the *)
(* exceptions are split: joining reads the trial's licence without a lock  *)
(* and writes it back, and a repayment calls the provider between two      *)
(* transactions.  The payment provider is outside: what it has sent stays  *)
(* in a set, so a webhook may come late, twice or in any order.            *)
(***************************************************************************)
EXTENDS Naturals, FiniteSets

CONSTANTS
    Orders,         \* rows of Order, with the License that hangs on each
    Clients,        \* buyers; also the seat users, whose e-mail is the seat's
    Envs,           \* environment hashes
    None,           \* no row
    Owner,          \* Order.client
    Purpose,        \* Order.purpose: "trial", "annual" or "legacy"
    Trial,          \* the trial an annual order follows (Order.trial)
    Organizations,  \* orders of kind organization
    SeatLimit,      \* Order.seats
    MaxEnvs,        \* activation_policy: 3 environments per seat
    MaxPeriods      \* bound: renewals the provider charges

ASSUME LedgerAssumption ==
    /\ None \notin Orders \cup Clients
    /\ Owner \in [Orders -> Clients]
    /\ Purpose \in [Orders -> {"trial", "annual", "legacy"}]
    /\ Trial \in [Orders -> Orders \cup {None}]
    /\ \A o \in Orders : Purpose[o] = "annual" =>
          Trial[o] \in Orders /\ Purpose[Trial[o]] = "trial" /\ Owner[Trial[o]] = Owner[o]
    /\ Organizations \subseteq Orders
    /\ SeatLimit \in [Orders -> Nat]
    /\ \A o \in Orders : SeatLimit[o] >= 1
    /\ MaxEnvs \in Nat \ {0} /\ MaxPeriods \in Nat

VARIABLES
    order,       \* Order.status; "none" before the row exists
    referral,    \* Order.referral: whose branch code was used
    lineage,     \* Order.lineage: whose branches are rewarded, frozen at the quote
    age,         \* how long ago the running period was paid (see the ages below)
    period,      \* RenewalRecords of the order's licence
    license,     \* License.status
    renews,      \* licences with auto_renew
    cancelled,   \* licences with cancelled_at
    seats,       \* e-mails of the active Seat rows
    envs,        \* per seat, environments of its unrevoked Activation rows
    joining,     \* joins that have read their trial's licence and not committed
    refund,      \* Refund.status (0) and RenewalRecord.refund_status (1, 2, ...)
    repaying,    \* repayments the provider confirmed and no row records yet
    events,      \* PaymentEvent rows
    reward,      \* Reward.status
    branch,      \* Branch.status
    qualifying,  \* Branch.qualifying_order
    parent,      \* Branch.parent
    sent,        \* the provider's webhooks, never taken back
    charges,     \* the provider's renewal webhooks
    subscribed,  \* orders the provider charges again every year
    paidBack     \* repayments the provider made at our request

orderRows   == <<order, referral, lineage>>
clock       == <<age, period>>
licenseRows == <<license, renews, cancelled, seats, envs>>
branchRows  == <<branch, qualifying, parent>>
provider    == <<sent, charges, subscribed, paidBack>>
vars == <<orderRows, clock, licenseRows, joining, refund, repaying, events, reward, branchRows, provider>>

Years == {o \in Orders : Purpose[o] = "annual"}
Claims == 0..MaxPeriods      \* what can be refunded: the order, then each renewal

OrderStates   == {"none", "trial", "quoted", "accepted", "paid",
                  "refund_approved", "refunded", "chargeback"}
LicenseStates == {"none", "active", "suspended", "revoked", "converted"}
RefundStates  == {"none", "requested", "repayment_pending", "repaid"}
RewardStates  == {"none", "pending", "eligible", "reversed"}
BranchStates  == {"none", "applied", "approved", "active", "suspended"}

-----------------------------------------------------------------------------
(* Ages of the running period: 0 within 14 days of its payment, 1 within   *)
(* 30, 2 later, 3 past its end (License.ends_at), 4 a whole period past it. *)

MaxAge(o) == CASE Purpose[o] = "legacy" -> 2
               [] Purpose[o] = "trial"  -> 3
               [] OTHER                 -> 4

\* request_refund's window (Order.refund_days: 30 for a legacy order, 14 for a year).
RefundOpen(o, n) == /\ period[o] = n
                    /\ age[o] <= IF n = 0 /\ Purpose[o] = "legacy" THEN 1 ELSE 0

\* Reward.eligible_at: 30 days after the order was paid.
HoldOver(o) == period[o] > 0 \/ age[o] >= 2

\* require_entitlement
Entitled(o) == license[o] = "active" /\ (Purpose[o] = "legacy" \/ age[o] < 3)

\* require_join: the trial has run out, was not converted and is in good standing.
JoinOpen(o) == LET t == Trial[o] IN
    /\ license[t] = "active" /\ age[t] >= 3
    /\ \A p \in Years : Trial[p] = t => license[p] = "none"

\* The branches whose sale it is when r's code is used: r and the four levels above (RATES).
Above(C) == {parent[c] : c \in C} \ {None}
Line(r) == LET up2 == Above({r})  up3 == Above(up2)  up4 == Above(up3)
           IN  {r} \cup up2 \cup up3 \cup up4 \cup Above(up4)

Nobody(v) == [c \in Clients |-> v]

Init ==
    /\ order = [o \in Orders |-> "none"] /\ referral = [o \in Orders |-> None]
    /\ lineage = [o \in Orders |-> {}]
    /\ age = [o \in Orders |-> 0] /\ period = [o \in Orders |-> 0]
    /\ license = [o \in Orders |-> "none"] /\ renews = {} /\ cancelled = {}
    /\ seats = [o \in Orders |-> {}] /\ envs = [o \in Orders |-> Nobody({})]
    /\ joining = {} /\ repaying = {} /\ events = {}
    /\ refund = [o \in Orders |-> [n \in Claims |-> "none"]]
    /\ reward = [o \in Orders |-> Nobody("none")]
    /\ branch = Nobody("none") /\ qualifying = Nobody(None) /\ parent = Nobody(None)
    /\ sent = {} /\ charges = {} /\ subscribed = {} /\ paidBack = {}

\* Time passes for one order's running period.
Pass(o) ==
    /\ license[o] # "none" /\ age[o] < MaxAge(o)
    /\ age' = [age EXCEPT ![o] = IF Purpose[o] = "trial" THEN 3 ELSE @ + 1]
    /\ UNCHANGED <<orderRows, period, licenseRows, joining, refund, repaying, events, reward,
                   branchRows, provider>>

-----------------------------------------------------------------------------
(* Buying *)

\* Opening a licence: an individual's one seat is made with it.
OpenSeats(o) == seats' = [seats EXCEPT ![o] = IF o \in Organizations THEN {} ELSE {Owner[o]}]

Enroll(o) ==
    /\ Purpose[o] = "trial"
    /\ \A p \in Orders : Purpose[p] = "trial" /\ Owner[p] = Owner[o] => order[p] = "none"
    /\ order' = [order EXCEPT ![o] = "trial"]
    /\ license' = [license EXCEPT ![o] = "active"]
    /\ OpenSeats(o)
    /\ UNCHANGED <<referral, lineage, clock, renews, cancelled, envs, joining, refund, repaying,
                   events, reward, branchRows, provider>>

\* Whether r's code may be used for o: r's line is active and the buyer is not in it.
RefersAnother(r, o) == branch[r] = "active" /\ r # Owner[o]
Refers(r, o) == /\ branch[r] = "active" /\ Owner[o] \notin Line(r)
                /\ \A c \in Line(r) : branch[c] = "active"

\* quote, without a code (r = None) or with the code of r's branch.
Quote(o, r) ==
    /\ Purpose[o] # "trial" /\ order[o] = "none"
    /\ Purpose[o] = "annual" => JoinOpen(o)
    /\ r # None => Refers(r, o)
    /\ order' = [order EXCEPT ![o] = "quoted"]
    /\ referral' = [referral EXCEPT ![o] = r]
    /\ lineage' = [lineage EXCEPT ![o] = IF r = None THEN {} ELSE Line(r)]
    /\ UNCHANGED <<clock, licenseRows, joining, refund, repaying, events, reward, branchRows, provider>>

Accept(o) ==
    /\ order[o] = "quoted"
    /\ Purpose[o] = "annual" => JoinOpen(o)
    /\ order' = [order EXCEPT ![o] = "accepted"]
    /\ UNCHANGED <<referral, lineage, clock, licenseRows, joining, refund, repaying, events, reward,
                   branchRows, provider>>

\* The provider takes the money of an accepted order, once; a year is a subscription.
Capture(o) ==
    /\ order[o] = "accepted" /\ <<o, "capture">> \notin sent
    /\ sent' = sent \cup {<<o, "capture">>}
    /\ subscribed' = IF Purpose[o] = "annual" THEN subscribed \cup {o} ELSE subscribed
    /\ UNCHANGED <<orderRows, clock, licenseRows, joining, refund, repaying, events, reward,
                   branchRows, charges, paidBack>>

CaptureDueUnverified(o) == order[o] = "accepted"
CaptureDue(o) == <<o, "capture">> \in sent \ events /\ order[o] = "accepted"

\* What record_payment writes for every order.
BookPayment(o) ==
    /\ events' = events \cup {<<o, "capture">>}
    /\ order' = [order EXCEPT ![o] = "paid"]
    /\ reward' = [reward EXCEPT ![o] = [c \in Clients |-> IF c \in lineage[o] THEN "pending" ELSE "none"]]
    /\ OpenSeats(o)
    /\ UNCHANGED <<referral, lineage, clock, cancelled, envs, refund, repaying, branchRows, provider>>

\* record_payment of a legacy order.
RecordPayment(o) ==
    /\ Purpose[o] = "legacy" /\ CaptureDue(o)
    /\ license' = [license EXCEPT ![o] = "active"]
    /\ BookPayment(o)
    /\ UNCHANGED <<renews, joining>>

EnrolmentUnlocked(o) == o \notin joining
EnrolmentFree(o) == \A p \in joining : Trial[p] # Trial[o]

\* record_payment of a year: it locks the order and the enrolment and reads the trial's licence ...
JoinReads(o) ==
    /\ Purpose[o] = "annual" /\ CaptureDue(o) /\ JoinOpen(o)
    /\ EnrolmentFree(o)
    /\ joining' = joining \cup {o}
    /\ UNCHANGED <<orderRows, clock, licenseRows, refund, repaying, events, reward, branchRows, provider>>

\* ... and writes it back converted, whatever was done to it since.
JoinCommits(o) ==
    /\ o \in joining
    /\ joining' = joining \ {o}
    /\ license' = [license EXCEPT ![o] = "active", ![Trial[o]] = "converted"]
    /\ renews' = renews \cup {o}
    /\ BookPayment(o)

JoinRollsBack(o) ==
    /\ o \in joining
    /\ joining' = joining \ {o}
    /\ UNCHANGED <<orderRows, clock, licenseRows, refund, repaying, events, reward, branchRows, provider>>

-----------------------------------------------------------------------------
(* Seats and environments *)

\* The environments that stay registered when those of the seats ds are revoked.
KeptAll(o, ds) == envs[o]
Kept(o, ds) == [d \in Clients |-> IF d \in ds THEN {} ELSE envs[o][d]]

AssignSeat(o, c, replaced) ==
    /\ o \in Organizations /\ Entitled(o)
    /\ replaced = None \/ replaced \in seats[o]
    /\ c \notin seats[o] \ {replaced}
    /\ Cardinality(seats[o] \ {replaced}) < SeatLimit[o]
    /\ seats' = [seats EXCEPT ![o] = (@ \ {replaced}) \cup {c}]
    /\ envs' = [envs EXCEPT ![o] = Kept(o, {replaced, c})]
    /\ UNCHANGED <<orderRows, clock, license, renews, cancelled, joining, refund, repaying, events,
                   reward, branchRows, provider>>

\* activate of an environment that is not registered yet (a known one is only validated again).
Activate(o, c, e, replaced) ==
    /\ Entitled(o) /\ c \in seats[o]
    /\ e \notin envs[o][c]
    /\ replaced = None \/ replaced \in envs[o][c]
    /\ Cardinality(envs[o][c] \ {replaced}) < MaxEnvs
    /\ envs' = [envs EXCEPT ![o][c] = (@ \ {replaced}) \cup {e}]
    /\ UNCHANGED <<orderRows, clock, license, renews, cancelled, seats, joining, refund, repaying,
                   events, reward, branchRows, provider>>

-----------------------------------------------------------------------------
(* Closing: refunds, reversals, reviews *)

\* The rewards of an order whose money goes back.
ReversedPending(o) == [c \in Clients |-> IF reward[o][c] = "pending" THEN "reversed" ELSE reward[o][c]]
Reversed(o) == [c \in Clients |-> IF reward[o][c] = "none" THEN "none" ELSE "reversed"]

\* revoke_order: licence, environments, seats, rewards and the branch the order earned.
RevokeOrder(o) ==
    /\ license' = [license EXCEPT ![o] = "revoked"]
    /\ renews' = renews \ {o}
    /\ seats' = [seats EXCEPT ![o] = {}]
    /\ envs' = [envs EXCEPT ![o] = Nobody({})]
    /\ reward' = [reward EXCEPT ![o] = Reversed(o)]
    /\ branch' = [c \in Clients |-> IF qualifying[c] = o THEN "suspended" ELSE branch[c]]
    /\ UNCHANGED <<referral, lineage, clock, cancelled, joining, qualifying, parent>>

RequestRefund(o, n) ==
    /\ n = 0 => order[o] = "paid"
    /\ RefundOpen(o, n) /\ refund[o][n] = "none"
    /\ refund' = [refund EXCEPT ![o][n] = "requested"]
    /\ UNCHANGED <<orderRows, clock, licenseRows, joining, repaying, events, reward, branchRows, provider>>

\* approve_refund (n = 0) and approve_renewal_refund, which leaves the order paid.
ApproveRefund(o, n) ==
    /\ refund[o][n] = "requested"
    /\ n = 0 => order[o] = "paid"
    /\ RevokeOrder(o)
    /\ refund' = [refund EXCEPT ![o][n] = "repayment_pending"]
    /\ order' = IF n = 0 THEN [order EXCEPT ![o] = "refund_approved"] ELSE order
    /\ UNCHANGED <<repaying, events, provider>>

RepayableUnapproved(o, n) == refund[o][n] \in {"requested", "repayment_pending"}
Repayable(o, n) == refund[o][n] = "repayment_pending"

\* repay_refund, before its transaction: the key makes the provider repay a claim once.
RepayCalls(o, n) ==
    /\ Repayable(o, n)
    /\ paidBack' = paidBack \cup {<<o, n>>}
    /\ repaying' = repaying \cup {<<o, n>>}
    /\ UNCHANGED <<orderRows, clock, licenseRows, joining, refund, events, reward, branchRows,
                   sent, charges, subscribed>>

RepayRecords(o, n) ==
    /\ <<o, n>> \in repaying
    /\ repaying' = repaying \ {<<o, n>>}
    /\ refund' = [refund EXCEPT ![o][n] = "repaid"]
    /\ order' = IF n = 0 /\ Repayable(o, n)
                THEN [order EXCEPT ![o] = "refunded"] ELSE order
    /\ UNCHANGED <<referral, lineage, clock, licenseRows, joining, events, reward, branchRows, provider>>

\* The request dies between the provider's answer and its transaction.
RepayDies(o, n) ==
    /\ <<o, n>> \in repaying
    /\ repaying' = repaying \ {<<o, n>>}
    /\ UNCHANGED <<orderRows, clock, licenseRows, joining, refund, events, reward, branchRows, provider>>

\* The bank charges back, or the provider reports a refund (its own or ours).
Reverse(o, kind) ==
    /\ <<o, "capture">> \in sent /\ <<o, kind>> \notin sent
    /\ sent' = sent \cup {<<o, kind>>}
    /\ UNCHANGED <<orderRows, clock, licenseRows, joining, refund, repaying, events, reward,
                   branchRows, charges, subscribed, paidBack>>

RecordReversal(o, kind) ==
    /\ <<o, kind>> \in sent \ events
    /\ Purpose[o] # "trial" /\ license[o] # "none"      \* order.paid_at
    /\ RevokeOrder(o)
    /\ events' = events \cup {<<o, kind>>}
    /\ order' = [order EXCEPT ![o] = IF kind = "chargeback" THEN "chargeback" ELSE "refunded"]
    /\ UNCHANGED <<refund, repaying, provider>>

\* review_license
Suspend(o) ==
    /\ license[o] = "active"
    /\ license' = [license EXCEPT ![o] = "suspended"]
    /\ renews' = renews \ {o}
    /\ envs' = [envs EXCEPT ![o] = Nobody({})]
    /\ UNCHANGED <<orderRows, clock, cancelled, seats, joining, refund, repaying, events, reward,
                   branchRows, provider>>

RestorableClosed(o) == license[o] \in {"suspended", "revoked"} /\ order[o] = "paid"
Restorable(o) == license[o] = "suspended" /\ order[o] = "paid"

Restore(o) ==
    /\ Restorable(o)
    /\ license' = [license EXCEPT ![o] = "active"]
    /\ UNCHANGED <<orderRows, clock, renews, cancelled, seats, envs, joining, refund, repaying,
                   events, reward, branchRows, provider>>

ReviewRevoke(o) ==
    /\ license[o] # "none"
    /\ RevokeOrder(o)
    /\ UNCHANGED <<order, refund, repaying, events, provider>>

-----------------------------------------------------------------------------
(* Renewal and its cancellation *)

Cancel(o) ==
    /\ Purpose[o] = "annual" /\ license[o] # "none" /\ o \notin cancelled
    /\ cancelled' = cancelled \cup {o}
    /\ renews' = renews \ {o}
    /\ UNCHANGED <<orderRows, clock, license, seats, envs, joining, refund, repaying, events, reward,
                   branchRows, provider>>

StoppedByClient(o) == o \in cancelled
Stopped(o) == o \in cancelled \/ license[o] \in {"revoked", "suspended"}

\* sync_cancellation, for the client who cancelled or from sync_membership_cancellations.
SyncCancellation(o) ==
    /\ Purpose[o] = "annual" /\ license[o] # "none" /\ o \notin renews
    /\ Stopped(o)
    /\ subscribed' = subscribed \ {o}
    /\ UNCHANGED <<orderRows, clock, licenseRows, joining, refund, repaying, events, reward,
                   branchRows, sent, charges, paidBack>>

\* The provider charges the next year of a subscription it was not told to stop.
Charge(o) ==
    /\ o \in subscribed /\ age[o] >= 3 /\ period[o] < MaxPeriods
    /\ charges' = charges \cup {<<o, period[o] + 1>>}
    /\ UNCHANGED <<orderRows, clock, licenseRows, joining, refund, repaying, events, reward,
                   branchRows, sent, subscribed, paidBack>>

RecordRenewal(o) ==
    /\ <<o, period[o] + 1>> \in charges
    /\ license[o] = "active" /\ o \in renews /\ o \notin cancelled
    /\ age[o] = 3
    /\ period' = [period EXCEPT ![o] = @ + 1]
    /\ age' = [age EXCEPT ![o] = 0]
    /\ UNCHANGED <<orderRows, licenseRows, joining, refund, repaying, events, reward, branchRows, provider>>

-----------------------------------------------------------------------------
(* Branches and rewards *)

ApplyBranch(o) == LET c == Owner[o] IN
    /\ order[o] = "paid" /\ Entitled(o) /\ branch[c] = "none"
    /\ branch' = [branch EXCEPT ![c] = "applied"]
    /\ qualifying' = [qualifying EXCEPT ![c] = o]
    /\ UNCHANGED <<orderRows, clock, licenseRows, joining, refund, repaying, events, reward, parent, provider>>

ApproveBranch(c) ==
    /\ branch[c] = "applied" /\ Entitled(qualifying[c])
    /\ branch' = [branch EXCEPT ![c] = "approved"]
    /\ UNCHANGED <<orderRows, clock, licenseRows, joining, refund, repaying, events, reward,
                   qualifying, parent, provider>>

AcceptBranch(c) == LET p == referral[qualifying[c]] IN
    /\ branch[c] = "approved" /\ Entitled(qualifying[c])
    /\ p # None => branch[p] = "active" /\ p # c
    /\ branch' = [branch EXCEPT ![c] = "active"]
    /\ parent' = [parent EXCEPT ![c] = p]
    /\ UNCHANGED <<orderRows, clock, licenseRows, joining, refund, repaying, events, reward,
                   qualifying, provider>>

ReleaseReward(o, c) ==
    /\ reward[o][c] = "pending" /\ HoldOver(o)
    /\ order[o] = "paid" /\ Entitled(o) /\ branch[c] = "active"
    /\ refund[o][0] = "none"
    /\ reward' = [reward EXCEPT ![o][c] = "eligible"]
    /\ UNCHANGED <<orderRows, clock, licenseRows, joining, refund, repaying, events, branchRows, provider>>

-----------------------------------------------------------------------------
Buying(o)   == \/ Enroll(o) \/ Accept(o) \/ Capture(o) \/ RecordPayment(o)
               \/ JoinReads(o) \/ JoinCommits(o) \/ JoinRollsBack(o)
               \/ \E r \in Clients \cup {None} : Quote(o, r)
Using(o)    == \E c \in Clients : \/ \E x \in Clients \cup {None} : AssignSeat(o, c, x)
                                  \/ \E e \in Envs, x \in Envs \cup {None} : Activate(o, c, e, x)
Closing(o)  == \/ \E n \in Claims : \/ RequestRefund(o, n) \/ ApproveRefund(o, n)
                                    \/ RepayCalls(o, n) \/ RepayRecords(o, n) \/ RepayDies(o, n)
               \/ \E kind \in {"refund", "chargeback"} : Reverse(o, kind) \/ RecordReversal(o, kind)
               \/ Suspend(o) \/ Restore(o) \/ ReviewRevoke(o)
Renewing(o) == Cancel(o) \/ SyncCancellation(o) \/ Charge(o) \/ RecordRenewal(o)
Referring(o) == \/ ApplyBranch(o)
                \/ \E c \in Clients : \/ ReleaseReward(o, c)
                                      \/ qualifying[c] = o /\ (ApproveBranch(c) \/ AcceptBranch(c))

\* What happens to one order, and to the branch it qualified.
Step(o) == Pass(o) \/ Buying(o) \/ Using(o) \/ Closing(o) \/ Renewing(o) \/ Referring(o)

Next == \E o \in Orders : Step(o)

Spec == Init /\ [][Next]_vars

\* sync_membership_cancellations is run again and again and the provider answers in the end.
FairSpec == Spec /\ \A o \in Years : WF_vars(SyncCancellation(o))

-----------------------------------------------------------------------------
(* Properties *)

TypeOK ==
    /\ order \in [Orders -> OrderStates] /\ referral \in [Orders -> Clients \cup {None}]
    /\ lineage \in [Orders -> SUBSET Clients]
    /\ age \in [Orders -> 0..4] /\ period \in [Orders -> 0..MaxPeriods]
    /\ license \in [Orders -> LicenseStates] /\ renews \subseteq Orders /\ cancelled \subseteq Orders
    /\ seats \in [Orders -> SUBSET Clients] /\ envs \in [Orders -> [Clients -> SUBSET Envs]]
    /\ joining \subseteq Orders /\ repaying \subseteq Orders \X Claims
    /\ refund \in [Orders -> [Claims -> RefundStates]]
    /\ events \subseteq sent
    /\ reward \in [Orders -> [Clients -> RewardStates]]
    /\ branch \in [Clients -> BranchStates] /\ qualifying \in [Clients -> Orders \cup {None}]
    /\ parent \in [Clients -> Clients \cup {None}]
    /\ sent \subseteq Orders \X {"capture", "refund", "chargeback"}
    /\ charges \subseteq Orders \X Claims /\ subscribed \subseteq Orders
    /\ paidBack \subseteq Orders \X Claims

\* Money never goes back while the licence gives access: an order that was refunded,
\* charged back or approved for it, and any order the provider repaid a claim of at our
\* request, has its licence revoked (approve_refund revokes before it queues the repayment).
MoneyBackIsRevoked == \A o \in Orders :
    \/ order[o] \in {"refund_approved", "refunded", "chargeback"}
    \/ \E n \in Claims : <<o, n>> \in paidBack
    => license[o] = "revoked"

\* What hangs on a revoked licence is gone for good: no seat, no registered environment, no
\* renewal, no reward that may still be paid, and the branch it earned is suspended, in
\* whatever order seats, applications and approvals raced the revocation (revoke_order).
RevokedIsEmpty == \A o \in Orders : license[o] = "revoked" =>
    /\ seats[o] = {} /\ o \notin renews
    /\ \A c \in Clients : /\ envs[o][c] = {}
                          /\ reward[o][c] \in {"none", "reversed"}
                          /\ qualifying[c] = o => branch[c] = "suspended"

\* Environments are registered only for active seats of a licence that is not suspended, at
\* most MaxEnvs to a seat, and seats stay within the order, through replacements of both
\* (assign_seat, activate, review_license).
SeatsHoldTheirLimits == \A o \in Orders :
    /\ Cardinality(seats[o]) <= SeatLimit[o]
    /\ \A c \in Clients : /\ Cardinality(envs[o][c]) <= MaxEnvs
                          /\ envs[o][c] # {} => c \in seats[o] /\ license[o] # "suspended"

\* A trial is joined by one year at most, however many were quoted, accepted and even
\* captured for it, and never gives access again once it was joined, also when it was
\* reviewed while the join was being recorded (record_payment, require_join).
TrialEndsWithJoin == \A p, q \in Years :
    Trial[p] = Trial[q] /\ license[p] # "none" =>
        /\ license[q] # "none" => p = q
        /\ license[Trial[p]] \in {"converted", "revoked"}

\* Nobody is rewarded for an own purchase, at any level of the line (quote).
NobodyEarnsOnOwnOrder == \A o \in Orders : reward[o][Owner[o]] = "none"

\* A cancelled or revoked membership is in the end no longer charged by the provider.
StopReachesProvider == \A o \in Years :
    (o \in cancelled \/ license[o] = "revoked") ~> o \notin subscribed

\* One order's access and money, as PaidAccess states them.
Access(o) == IF license[o] = "none"      THEN "none"
        ELSE IF license[o] = "active"    THEN "open"
        ELSE IF license[o] = "suspended" THEN "held" ELSE "closed"
Money(o)  == IF order[o] = "trial" THEN "free"
        ELSE IF order[o] = "paid"  THEN "paid"
        ELSE IF order[o] \in {"none", "quoted", "accepted"} THEN "unpaid" ELSE "back"
Promise(o) == INSTANCE PaidAccess WITH access <- Access(o), money <- Money(o)

\* Every step of the ledger keeps, for every order, the abstract promise: access is never
\* opened twice nor given back after it was closed, and money goes back with it or after it.
\* (For all o, Promise(o)!Spec.)
KeepsPaidAccess == /\ \A o \in Orders : Promise(o)!Init
                   /\ [][\A o \in Orders : [Promise(o)!Next]_<<Access(o), Money(o)>>]_vars
=================================================================================
