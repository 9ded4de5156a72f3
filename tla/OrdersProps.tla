----------------------------- MODULE OrdersProps -----------------------------
(***************************************************************************)
(* What must be true of the orders.                                        *)
(***************************************************************************)
EXTENDS Orders, TLC

\* Whether an order must have a transaction row of a title, given its status.
Due(o, t) ==
  \/ t = "credit"   /\ IsRecharge(o)  /\ status[o] = "approved"
  \/ t = "freeze"   /\ ~IsRecharge(o) /\ status[o] \in Filed
  \/ t = "payout"   /\ ~IsRecharge(o) /\ status[o] = "approved"
  \/ t = "fee"      /\ ~IsRecharge(o) /\ status[o] = "approved" /\ Order[o].fee > 0
  \/ t = "unfreeze" /\ ~IsRecharge(o) /\ status[o] = "rejected"

Booked(o) ==
  /\ o \notin overtaken => \A t \in Titles : rows[o][t] = IF Due(o, t) THEN 1 ELSE 0
  /\ \A t \in Titles : Due(o, t) => rows[o][t] >= 1
  /\ rows[o]["freeze"] = IF Due(o, "freeze") THEN 1 ELSE 0
  /\ rows[o]["fee"] = IF Order[o].fee > 0 THEN rows[o]["payout"] ELSE 0
  /\ IF IsRecharge(o) THEN rows[o]["payout"] = 0 /\ rows[o]["unfreeze"] = 0
                      ELSE rows[o]["credit"] = 0

\* The books tell the same story as the orders: an approved recharge was
\* credited once, a withdrawal was frozen once and then paid out or given
\* back, once, and nothing else was booked.  An order that was decided while
\* another review of it was under way may have been decided again by that
\* one: it has every row its status calls for and none of the other kind of
\* order, was still frozen once, and what was paid out has been charged its
\* fee each time.
BooksMatchOrders == \A o \in OrderIDs : Booked(o)

\* An order that was approved or rejected stays so, unless another review had
\* read it before it was decided, and is never put back to be decided anew.
DecisionIsFinal ==
  [][\A o \in OrderIDs : status[o] \in {"approved", "rejected"} =>
       /\ status'[o] \in {"approved", "rejected"}
       /\ o \notin overtaken' => status'[o] = status[o] /\ rows'[o] = rows[o]]_vars

\* What the rows of an order say they added to the balance and to the frozen
\* money of its owner.
BalanceRows ==
  [o \in OrderIDs |->
     Order[o].amount * (rows[o]["credit"] + rows[o]["unfreeze"] - rows[o]["freeze"])
     - Order[o].fee * rows[o]["fee"]]

FrozenRows ==
  [o \in OrderIDs |->
     Order[o].amount * (rows[o]["freeze"] - rows[o]["unfreeze"] - rows[o]["payout"])]

OrdersOf(u) == {o \in OrderIDs : Owner(o) = u}

\* The identities of WalletReconcile between users and transaction rows: the
\* rows explain every user's balance and frozen money, whoever reviews what.
BooksExplainWallet ==
  \A u \in Users :
    /\ bal[u] = InitBalance[u] + adjusted[u] + SumFunctionOnSet(BalanceRows, OrdersOf(u))
    /\ frz[u] = SumFunctionOnSet(FrozenRows, OrdersOf(u))

\* What the rows say an order brought in, or took out, in all.
BroughtRows == [o \in OrderIDs |-> BalanceRows[o] + FrozenRows[o]]

\* The money a withdrawal holds frozen while it waits for its review.
PendingOf ==
  [o \in OrderIDs |-> IF ~IsRecharge(o) /\ status[o] = "pending" THEN Order[o].amount ELSE 0]

-----------------------------------------------------------------------------
(* The inductive invariant behind BooksMatchOrders and DecisionIsFinal.    *)

\* An order under review is still pending, unless another review of it has
\* been quicker.
ReviewIsFresh ==
  \A r \in Reviewers : review[r] # NotReviewing =>
    status[review[r].order] = "pending" \/ review[r].order \in overtaken

\* That, with the books in order and searches made for recharges only.
OrdersInv == /\ ReviewIsFresh
             /\ BooksMatchOrders
             /\ \A o \in OrderIDs : status[o] = "looked" => IsRecharge(o)
             /\ \A o \in overtaken : status[o] \in {"approved", "rejected"}

\* The same with the types: no balance and no frozen amount is negative.
OrdersSafety == TypeOK /\ OrdersInv

-----------------------------------------------------------------------------
(* A claim of the source's comments that the code does not keep.           *)

\* AdminRechargeOrderApprove: approving again is idempotent, so one order is
\* credited at most once.
CreditedOnce == \A o \in OrderIDs : rows[o]["credit"] <= 1
=============================================================================
