--------------------------- MODULE MCMoneyPacket ---------------------------
(***************************************************************************)
(* Instances of the money packets small enough for TLC.                    *)
(***************************************************************************)
EXTENDS MoneyPacketProps

CONSTANTS u1, u2, u3, m1, m2

Balance3 == [u \in Users |-> 3]
Balance6 == [u \in Users |-> 6]

Msg(sender, cmid, kind, mode, amount, count) ==
  [sender |-> sender, cmid |-> cmid, kind |-> kind, mode |-> mode,
   amount |-> amount, count |-> count]

\* One user sends a lucky packet of 3 cents in 2 shares, which may finish with
\* a cent left over, and a transfer of 1.
MixedContent == m1 :> Msg(u1, "a", "red", "lucky", 3, 2)
             @@ m2 :> Msg(u1, "b", "transfer", "normal", 1, 0)

\* Two attempts at one lucky packet of 3 cents in 2 shares by a client that
\* resends, open to three users.
ResendContent == m1 :> Msg(u1, "a", "red", "lucky", 3, 2)
              @@ m2 :> Msg(u1, "a", "red", "lucky", 3, 2)

Symmetry == Permutations(Requests)
=============================================================================
