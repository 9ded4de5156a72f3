--------------------------- MODULE MCWalletSystem ---------------------------
(***************************************************************************)
(* Instances of the whole wallet small enough for TLC.                     *)
(***************************************************************************)
EXTENDS WalletSystem

CONSTANTS u1, u2, m1, o1, o2, r1, r2

Balance4 == [u \in Users |-> 4]

Ask(kind, amount, fee) ==
  [user |-> u1, kind |-> kind, proof |-> "", amount |-> amount, fee |-> fee]

\* A normal red packet of 2 shares of 1 cent beside a withdrawal with a fee
\* and a recharge of the same user.
OnePacket == m1 :> [sender |-> u1, cmid |-> "a", kind |-> "red", mode |-> "normal",
                    amount |-> 1, count |-> 2]
Orders2   == o1 :> Ask("withdraw", 2, 1) @@ o2 :> Ask("recharge", 1, 0)

Deduct == {-1}
=============================================================================
