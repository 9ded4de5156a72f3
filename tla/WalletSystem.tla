---------------------------- MODULE WalletSystem ----------------------------
(***************************************************************************)
(* Money packets and orders together: both move the same two columns of    *)
(* the user row, and one api process runs the handlers of both.            *)
(***************************************************************************)
EXTENDS MoneyPacketProps, OrderData

VARIABLES status, recent, rows, adjusted, adjusts, review, overtaken

O == INSTANCE OrdersProps

packetvars == <<phase, packet, claims, msg, req>>
ordervars == <<status, recent, rows, adjusted, adjusts, review, overtaken>>
sysvars == <<bal, frz, packetvars, ordervars>>

SysInit == Init /\ O!Init

PacketStep ==
  /\ \/ \E m \in MsgIDs : SendStep(m) \/ Expire(m) \/ RefundOne(m)
     \/ \E r \in Requests : ClaimStep(r)
  /\ UNCHANGED ordervars

OrderStep ==
  /\ \/ \E o \in OrderIDs : O!FileStep(o)
     \/ \E u \in Users, delta \in Deltas : O!WalletApply(u, delta)
     \/ \E r \in Reviewers : O!ReviewStep(r)
  /\ UNCHANGED packetvars

SysCrash == (Busy \/ O!Busy) /\ HandlersDie /\ O!HandlersDie

SysNext == PacketStep \/ OrderStep \/ SysCrash

\* The clock and the expiry worker, as in MoneyPacket.
SysFairness ==
  \A m \in MsgIDs : /\ WF_sysvars(Expire(m) /\ UNCHANGED ordervars)
                    /\ WF_sysvars(RefundOne(m) /\ UNCHANGED ordervars)

SysSpec == SysInit /\ [][SysNext]_sysvars /\ SysFairness

-----------------------------------------------------------------------------
\* The frozen money that the rows of a user's orders add up to.
KeptByOrders(u) == SumFunctionOnSet(O!FrozenRows, O!OrdersOf(u))

\* Frozen money belongs to somebody: what a user's packets have not paid out
\* and what the rows of the user's orders keep are exactly the frozen money.
\* An order keeps its principal while it is a pending withdrawal and nothing
\* else, so neither spends the other's; only an order that two reviews have
\* decided takes more out than it put in.
FrozenIsOwned ==
  /\ \A u \in Users : frz[u] = HeldBy(u) + KeptByOrders(u)
  /\ \A o \in OrderIDs \ overtaken : O!FrozenRows[o] = O!PendingOf[o]

\* Money enters by the credits of recharges and by adjustments, and leaves by
\* the payouts of withdrawals with their fees, and no other way, also when an
\* order is decided twice.
MoneyEntersByOrders ==
  Assets = SumFunction(InitBalance) + SumFunction(adjusted) + SumFunction(O!BroughtRows)

\* An open packet is resolved also beside withdrawals that freeze, pay out
\* and give back money of the same user, unless one of them was decided by
\* two reviews, which may leave too little frozen for the refund.
PacketResolvedBesideOrders ==
  \A m \in MsgIDs :
    packet[m].status = "open" ~>
      \/ packet[m].status # "open"
      \/ \E o \in overtaken : O!Owner(o) = Sender(m) /\ ~O!IsRecharge(o)

\* The properties of the orders, of the orders beside the packets: the books
\* match the orders, a decision is final, and what they rest on.
OrdersSafety == O!OrdersSafety
BooksMatchOrders == O!BooksMatchOrders
DecisionIsFinal == O!DecisionIsFinal
=============================================================================
