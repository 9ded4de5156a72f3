----------------------------- MODULE OrderData -----------------------------
(***************************************************************************)
(* What users and administrators ask of the wallet beside money packets:   *)
(* recharges, withdrawals and adjustments.                                 *)
(***************************************************************************)
EXTENDS Wallet

CONSTANTS
  OrderIDs,   \* attempts at filing an order
  Order,      \* what attempt o asks for
  Reviewers,  \* review handlers that may run at the same time
  Deltas,     \* amounts of manual adjustments
  MaxAdjust   \* how many adjustments are made (bound)

\* proof is the screenshot of the payment; fee is computed at filing.
OrderType == [user : Users, kind : {"recharge", "withdraw"}, proof : STRING,
              amount : Nat \ {0}, fee : Nat]

ASSUME OrdersAssumption == Order \in [OrderIDs -> OrderType] /\ Deltas \subseteq Int

ASSUME FiniteOrders == IsFiniteSet(OrderIDs)
=============================================================================
