--------------------------- MODULE MCPacketLocks ---------------------------
(***************************************************************************)
(* Instances of the packet transactions small enough for TLC.              *)
(***************************************************************************)
EXTENDS PacketLocks, TLC

CONSTANTS u1, u2, m1, m2

Balance3 == [u \in Users |-> 3]

Do(op, msg, user, amount) == [op |-> op, msg |-> msg, user |-> user, amount |-> amount]

\* Two users each send a packet of 2 cents in 2 shares, and each claims from
\* the other; one packet is also claimed by its sender, one is also refunded.
Funds == m1 :> [sender |-> u1, total |-> 2, count |-> 2]
      @@ m2 :> [sender |-> u2, total |-> 2, count |-> 2]

Jobs == 1 :> Do("freeze", m1, u1, 1)
     @@ 2 :> Do("freeze", m2, u2, 1)
     @@ 3 :> Do("settle", m1, u2, 1)
     @@ 4 :> Do("settle", m2, u1, 1)
     @@ 5 :> Do("settle", m1, u1, 2)
     @@ 6 :> Do("refund", m2, u2, 1)
=============================================================================
