-------------------------- MODULE MoneyPacketProps --------------------------
(***************************************************************************)
(* What must be true of the money packets.                                 *)
(***************************************************************************)
EXTENDS MoneyPacket, TLC

\* A packet whose money is still in the sender's frozen column: the worker and
\* the compensation give back what is left of an open one only, so a finished
\* one keeps its rest, if it has any.
Holding(m) == packet[m].status \in {"open", "finished"}

\* What a packet holds of its sender's money, and what a user's packets hold.
AbsHeld == [m \in MsgIDs |-> IF Holding(m) THEN Remain(m) ELSE 0]
HeldBy(u) == SumFunctionOnSet(AbsHeld, {m \in MsgIDs : Sender(m) = u})

\* No cent appears or vanishes: whatever interleaving of freezes, claims,
\* compensations and expiry, spendable and frozen money add up to the start.
MoneyConserved == Assets = SumFunction(InitBalance)

\* A lucky packet all of whose shares are taken: shares that were drawn from
\* one stale read may add up to less than the whole.
AllTaken(m) ==
  ~IsTransfer(m) /\ Content[m].mode = "lucky" /\ packet[m].cnt = ShareCount(m)

\* A user's frozen money is exactly what the user's open packets have not paid
\* out and what lucky packets that are all taken have left over, so a refund
\* or a settlement never fails for lack of frozen money (error 4102).  A
\* transfer or a packet of equal shares leaves nothing over.
FrozenBacksPackets ==
  /\ \A u \in Users : frz[u] = HeldBy(u)
  /\ \A m \in MsgIDs : packet[m].status = "finished" /\ Remain(m) # 0 => AllTaken(m)

\* A packet pays no more money and no more shares than it was funded for,
\* although every claimer computes a share from an unlocked, perhaps stale
\* read of the packet.
NeverOverpaid ==
  \A m \in MsgIDs : /\ packet[m].claimed <= Total(m)
                     /\ packet[m].cnt <= ShareCount(m)

\* The claim rows, which the clients list and the duplicate check counts,
\* account for every share and every cent the packet says it has paid.
ClaimsAccounted ==
  \A m \in MsgIDs :
    /\ packet[m].claimed = SumFunction([c \in claims[m] |-> c.amount])
    /\ packet[m].cnt = Cardinality(claims[m])

\* Money is paid only for a message that reached MongoDB, and a transfer is
\* paid in full, once, to somebody other than its sender.
TransferPaidOnce ==
  \A m \in MsgIDs : claims[m] # {} =>
    /\ msg[m] # "none"
    /\ IsTransfer(m) => \E u \in Users \ {Sender(m)} :
                          claims[m] = {[user |-> u, amount |-> Total(m), seq |-> 1]}

\* A packet that was given back is over: no claim and no second refund
\* touches it, whatever a handler had read of it before.
ReturnedIsFinal ==
  [][\A m \in MsgIDs : packet[m].status \in {"expired", "closed"} =>
       packet'[m] = packet[m] /\ claims'[m] = claims[m]]_vars

\* Resending does not pay twice: of two attempts at one message that both
\* keep money, one is not over yet, or its handler died, or it never learned
\* that the money is frozen, or its compensation failed.
ResendFreezesOnce ==
  \A m, n \in MsgIDs : m # n /\ SameMessage(m, n) /\ Holding(m) /\ Holding(n) =>
    \E k \in {m, n} : phase[k] \in InFlight \cup {"dead", "unanswered", "uncompensated"}

\* An open packet does not stay open: it is claimed to the end, compensated
\* or refunded, also when the server dies between freezing and storing.
PacketResolved ==
  \A m \in MsgIDs : packet[m].status = "open" ~> packet[m].status # "open"

\* Refinement: the packets implement Escrow, the frozen column being the
\* money the escrows hold.
AbsLife == [m \in MsgIDs |-> IF packet[m].status = "absent" THEN "unfunded"
                             ELSE IF Holding(m) THEN "holding" ELSE "returned"]

E == INSTANCE Escrow WITH
       Escrows <- MsgIDs,
       Funder <- [m \in MsgIDs |-> Sender(m)],
       Price <- [m \in MsgIDs |-> Total(m)],
       held <- AbsHeld,
       life <- AbsLife

ImplementsEscrow == E!EscrowSpec

-----------------------------------------------------------------------------
(* The inductive invariant behind NeverOverpaid, TransferPaidOnce,         *)
(* ReturnedIsFinal and ImplementsEscrow.                                   *)

\* A packet row is created with the freeze, before the message is stored, and
\* its claim rows, its counters and the message agree.
RowInv(m) ==
  /\ packet[m].claimed <= Total(m)
  /\ packet[m].cnt <= ShareCount(m)
  /\ phase[m] \in {"new", "looked"} => packet[m].status = "absent"
  /\ phase[m] = "frozen" => packet[m].status # "absent"
  /\ packet[m].status = "absent" => claims[m] = {} /\ msg[m] = "none"
  /\ claims[m] = {} => packet[m].claimed = 0 /\ packet[m].cnt = 0
  /\ claims[m] # {} => msg[m] # "none"
  /\ claims[m] # {} /\ IsTransfer(m) =>
       \E u \in Users \ {Sender(m)} :
         claims[m] = {[user |-> u, amount |-> Total(m), seq |-> 1]}

\* A handler past its checks works on a stored message, for an amount of at
\* least a cent, and on a transfer for the whole of it and for another user.
HandlerInv(r) ==
  /\ req[r].phase = "loaded" /\ ~IsTransfer(req[r].msg) => msg[req[r].msg] # "none"
  /\ req[r].phase = "priced" =>
       /\ msg[req[r].msg] # "none"
       /\ req[r].amt >= 1
       /\ IsTransfer(req[r].msg) =>
            req[r].amt = Total(req[r].msg) /\ req[r].user # Sender(req[r].msg)

\* The packets and the handlers are always as above.
PacketInv == /\ \A m \in MsgIDs : RowInv(m)
             /\ \A r \in Requests : HandlerInv(r)

\* The whole of it: no balance and no frozen amount is negative, and rows,
\* claims, messages and handlers agree.
PacketSafety == TypeOK /\ PacketInv

-----------------------------------------------------------------------------
(* The inductive invariant behind what FrozenBacksPackets says of rests.   *)

EqualShares(m) == ~IsTransfer(m) /\ Content[m].mode # "lucky"

\* A packet of equal shares has paid whole shares, and handlers ask for one.
RestInv ==
  /\ \A m \in MsgIDs :
       /\ EqualShares(m) => packet[m].claimed = Content[m].amount * packet[m].cnt
       /\ packet[m].status = "finished" /\ Remain(m) # 0 => AllTaken(m)
  /\ \A r \in Requests : req[r].phase = "priced" /\ EqualShares(req[r].msg) =>
       req[r].amt = Content[req[r].msg].amount

-----------------------------------------------------------------------------
(* The inductive invariant behind ClaimsAccounted.                         *)

\* Claim rows are numbered in the order they were paid, so no two are alike.
RowsAreNumbered ==
  \A m \in MsgIDs : /\ IsFiniteSet(claims[m])
                     /\ \A c \in claims[m] : c.seq <= packet[m].cnt

ClaimBooks == RowsAreNumbered /\ ClaimsAccounted

-----------------------------------------------------------------------------
(* The inductive invariant behind ResendFreezesOnce.                       *)

\* An attempt that found the message stored or could not pay for it keeps
\* nothing, one that succeeded has a document, and one that was compensated
\* keeps money only if somebody had claimed before.
AttemptInv(m) ==
  /\ phase[m] \in {"replayed", "refused"} => packet[m].status = "absent"
  /\ phase[m] = "sent" => msg[m] # "none"
  /\ packet[m].status = "finished" => claims[m] # {}
  /\ phase[m] = "compensated" /\ Holding(m) => claims[m] # {}

\* The unique index on sender and client message id.
OneDocument ==
  \A m, n \in MsgIDs :
    SameMessage(m, n) /\ msg[m] # "none" /\ msg[n] # "none" => m = n

ResendInv == OneDocument /\ \A m \in MsgIDs : AttemptInv(m)

-----------------------------------------------------------------------------
(* A claim of the source's comments that the code does not keep.           *)

OpenRest == [m \in MsgIDs |-> IF packet[m].status = "open" THEN Remain(m) ELSE 0]

\* money_packet.go and model/money_packet.go: at every moment the frozen money
\* of all users is what the open packets have not paid out.
ReconciledByOpen == SumFunction(frz) = SumFunction(OpenRest)
=============================================================================
