------------------------------- MODULE PaidAccess -------------------------------
(***************************************************************************)
(* What the commerce ledger promises of one order, without saying how:     *)
(* access is opened once, when the order is paid or is a trial, may be     *)
(* held and given back while the order is paid, and is closed for good;    *)
(* money goes back only from an order whose access is closed.              *)
(***************************************************************************)
VARIABLES access,  \* "none", "open", "held" or "closed"
          money    \* "unpaid", "free" (a trial), "paid" or "back"

Init == access = "none" /\ money = "unpaid"

Grant == /\ access = "none" /\ access' = "open"
         /\ money = "unpaid" /\ money' \in {"paid", "free"}

Hold == access = "open" /\ access' = "held" /\ UNCHANGED money

GiveBack == access = "held" /\ money = "paid" /\ access' = "open" /\ UNCHANGED money

Close == /\ access # "none" /\ access' = "closed"
         /\ money' = money \/ (money = "paid" /\ money' = "back")

Next == Grant \/ Hold \/ GiveBack \/ Close

Spec == Init /\ [][Next]_<<access, money>>
=================================================================================
