------------------------------ MODULE MCOrders ------------------------------
(***************************************************************************)
(* Instances of the orders small enough for TLC.                           *)
(***************************************************************************)
EXTENDS OrdersProps

CONSTANTS u1, o1, o2, o3, r1, r2

Balance2 == [u \in Users |-> 2]

Ask(user, kind, proof, amount, fee) ==
  [user |-> user, kind |-> kind, proof |-> proof, amount |-> amount, fee |-> fee]

\* The same recharge filed twice, and a withdrawal.
TwiceOrders == o1 :> Ask(u1, "recharge", "p", 2, 0)
            @@ o2 :> Ask(u1, "recharge", "p", 2, 0)
            @@ o3 :> Ask(u1, "withdraw", "", 1, 1)

Adjustments == {-1, 2}
=============================================================================
