------------------------------- MODULE Orders -------------------------------
(***************************************************************************)
(* Recharge and withdrawal orders of im-server.  A user files an order, an *)
(* administrator approves or rejects it.  A review is one transaction in   *)
(* MySQL, but its first statement reads the order without locking it: the  *)
(* code asks for FOR UPDATE through an option that GORM 2 ignores.  The    *)
(* user row is locked later, when the money moves, and by then the status  *)
(* that was read may be old.  A review is therefore two actions, and two   *)
(* reviews of one order may both decide it.                                *)
(*                                                                         *)
(* An order stands for one attempt at filing; a recharge is filed in two   *)
(* steps, a search for a duplicate and the insert.                         *)
(***************************************************************************)
EXTENDS OrderData, FiniteSetsExt

VARIABLES
  status,    \* progress of the attempt, then status of the order row
  recent,    \* recharge orders filed in the last 600 seconds
  rows,      \* wallet_transaction rows of an order, counted by title
  adjusted,  \* sum of a user's adjustment rows
  adjusts,   \* number of adjustments made
  review,    \* review handlers
  overtaken  \* history: orders decided while another review of them was under way

ovars == <<status, recent, rows, adjusted, adjusts, review, overtaken>>
vars == <<bal, frz, ovars>>

Titles == {"credit", "freeze", "payout", "fee", "unfreeze"}
Filed == {"pending", "approved", "rejected"}
NotReviewing == [phase |-> "idle"]
Review == [phase : {"read"}, order : OrderIDs, verdict : {"approve", "reject"}]

\* Every state is well typed: in particular no review and no adjustment takes a
\* balance or frozen money below zero.
TypeOK ==
  /\ WalletType
  /\ status \in [OrderIDs -> Filed \cup {"new", "looked", "replayed", "dead"}]
  /\ recent \in SUBSET OrderIDs
  /\ rows \in [OrderIDs -> [Titles -> Nat]]
  /\ adjusted \in [Users -> Int]
  /\ adjusts \in Nat
  /\ review \in [Reviewers -> Review \cup {NotReviewing}]
  /\ overtaken \in SUBSET OrderIDs

Init ==
  /\ WalletInit
  /\ status = [o \in OrderIDs |-> "new"]
  /\ recent = {}
  /\ rows = [o \in OrderIDs |-> [t \in Titles |-> 0]]
  /\ adjusted = [u \in Users |-> 0]
  /\ adjusts = 0
  /\ review = [r \in Reviewers |-> NotReviewing]
  /\ overtaken = {}

Owner(o) == Order[o].user
IsRecharge(o) == Order[o].kind = "recharge"

SetStatus(o, s) == status' = [status EXCEPT ![o] = s]
AddRows(o, S) == rows' = [rows EXCEPT ![o] =
                             [t \in Titles |-> @[t] + (IF t \in S THEN 1 ELSE 0)]]

-----------------------------------------------------------------------------
(* The user's side.                                                        *)

SameRecharge(o, p) == /\ IsRecharge(o) /\ IsRecharge(p)
                      /\ Owner(o) = Owner(p)
                      /\ Order[o].proof = Order[p].proof
                      /\ Order[o].amount = Order[p].amount

\* UserRechargeSubmit looks for a pending order with the same proof...
RechargeLookup(o) ==
  /\ status[o] = "new" /\ IsRecharge(o)
  /\ SetStatus(o, IF \E p \in recent : SameRecharge(o, p) /\ status[p] = "pending"
                  THEN "replayed" ELSE "looked")
  /\ UNCHANGED <<bal, frz, recent, rows, adjusted, adjusts, review, overtaken>>

\* ...and files the order when there was none.
RechargeSubmit(o) ==
  /\ status[o] = "looked"
  /\ SetStatus(o, "pending")
  /\ recent' = recent \cup {o}
  /\ UNCHANGED <<bal, frz, rows, adjusted, adjusts, review, overtaken>>

\* 600 seconds have passed.
Age(o) ==
  /\ o \in recent
  /\ recent' = recent \ {o}
  /\ UNCHANGED <<bal, frz, status, rows, adjusted, adjusts, review, overtaken>>

\* Fault: the fee is frozen too.
WithdrawFreezeFee(o) == Order[o].amount + Order[o].fee

WithdrawFreeze(o) == Order[o].amount

\* UserWithdrawSubmit: the order and the freeze are one transaction.
WithdrawSubmit(o) ==
  /\ status[o] = "new" /\ ~IsRecharge(o)
  /\ MutateUser(Owner(o), -WithdrawFreeze(o), WithdrawFreeze(o))
  /\ AddRows(o, {"freeze"})
  /\ SetStatus(o, "pending")
  /\ UNCHANGED <<recent, adjusted, adjusts, review, overtaken>>

-----------------------------------------------------------------------------
(* The administrator's side.                                               *)

\* AdminWalletAdjust and AdminUserRecharge, both WalletApply.
WalletApply(u, delta) ==
  /\ adjusts < MaxAdjust
  /\ delta # 0 /\ MutateUser(u, delta, 0)
  /\ adjusted' = [adjusted EXCEPT ![u] = @ + delta]
  /\ adjusts' = adjusts + 1
  /\ UNCHANGED <<status, recent, rows, review, overtaken>>

\* Fault: an order that was rejected may still be approved.
ReviewableUnlessApproved(o) == status[o] \in {"pending", "rejected"}

Reviewable(o) == status[o] = "pending"

\* A review reads the order; one that is decided already changes nothing.
ReadOrder(r, o, verdict) ==
  /\ review[r] = NotReviewing
  /\ Reviewable(o)
  /\ review' = [review EXCEPT ![r] = [phase |-> "read", order |-> o, verdict |-> verdict]]
  /\ UNCHANGED <<bal, frz, status, recent, rows, adjusted, adjusts, overtaken>>

EndReview(r) == review' = [review EXCEPT ![r] = NotReviewing]

ReviewedBy(o, S) == \E s \in S : review[s] # NotReviewing /\ review[s].order = o

\* A decision ends the review, and overtakes the other reviews of the order.
EndDecision(r) ==
  LET o == review[r].order
  IN /\ EndReview(r)
     /\ overtaken' = IF ReviewedBy(o, Reviewers \ {r}) THEN overtaken \cup {o} ELSE overtaken

Deciding(r, verdict, kind) == /\ review[r] # NotReviewing
                              /\ review[r].verdict = verdict
                              /\ Order[review[r].order].kind = kind

RechargeApprove(r) ==
  /\ Deciding(r, "approve", "recharge")
  /\ LET o == review[r].order
     IN /\ MutateUser(Owner(o), Order[o].amount, 0)
        /\ AddRows(o, {"credit"})
        /\ SetStatus(o, "approved")
  /\ EndDecision(r)
  /\ UNCHANGED <<recent, adjusted, adjusts>>

RechargeReject(r) ==
  /\ Deciding(r, "reject", "recharge")
  /\ SetStatus(review[r].order, "rejected")
  /\ EndDecision(r)
  /\ UNCHANGED <<bal, frz, recent, rows, adjusted, adjusts>>

\* Fault: the principal also leaves the balance.
PayoutTwice(o) == Order[o].amount + Order[o].fee

\* What leaves the balance when the principal leaves the frozen money.
PayoutFee(o) == Order[o].fee

\* The principal leaves the frozen money and then the fee leaves the balance,
\* each checked; a user who cannot pay the fee rolls both back.
WithdrawApprove(r) ==
  /\ Deciding(r, "approve", "withdraw")
  /\ LET o == review[r].order
     IN /\ MutateUser(Owner(o), -PayoutFee(o), -Order[o].amount)
        /\ AddRows(o, {"payout"} \cup (IF Order[o].fee > 0 THEN {"fee"} ELSE {}))
        /\ SetStatus(o, "approved")
  /\ EndDecision(r)
  /\ UNCHANGED <<recent, adjusted, adjusts>>

\* Fault: the money comes back and the status does not change.
RejectedStatusLost == "pending"

RejectedStatus == "rejected"

WithdrawReject(r) ==
  /\ Deciding(r, "reject", "withdraw")
  /\ LET o == review[r].order
     IN /\ MutateUser(Owner(o), Order[o].amount, -Order[o].amount)
        /\ AddRows(o, {"unfreeze"})
        /\ SetStatus(o, RejectedStatus)
  /\ EndDecision(r)
  /\ UNCHANGED <<recent, adjusted, adjusts>>

\* The transaction is rolled back.
ReviewFails(r) ==
  /\ review[r] # NotReviewing
  /\ EndReview(r)
  /\ UNCHANGED <<bal, frz, status, recent, rows, adjusted, adjusts, overtaken>>

\* Whether a handler is at work.
Busy == \/ \E o \in OrderIDs : status[o] = "looked"
        \/ \E r \in Reviewers : review[r] # NotReviewing

\* Handlers die with their process; what they wrote stays.
HandlersDie ==
  /\ status' = [o \in OrderIDs |-> IF status[o] = "looked" THEN "dead" ELSE status[o]]
  /\ review' = [r \in Reviewers |-> NotReviewing]
  /\ UNCHANGED <<bal, frz, recent, rows, adjusted, adjusts, overtaken>>

\* The api process dies and is started again.
Crash == Busy /\ HandlersDie

FileStep(o) == RechargeLookup(o) \/ RechargeSubmit(o) \/ Age(o) \/ WithdrawSubmit(o)

ReviewStep(r) ==
  \/ \E o \in OrderIDs, verdict \in {"approve", "reject"} : ReadOrder(r, o, verdict)
  \/ RechargeApprove(r) \/ RechargeReject(r)
  \/ WithdrawApprove(r) \/ WithdrawReject(r) \/ ReviewFails(r)

Next ==
  \/ \E o \in OrderIDs : FileStep(o)
  \/ \E u \in Users, delta \in Deltas : WalletApply(u, delta)
  \/ \E r \in Reviewers : ReviewStep(r)
  \/ Crash

Spec == Init /\ [][Next]_vars
=============================================================================
