----------------------------- MODULE MoneyPacket -----------------------------
(***************************************************************************)
(* Red packets and transfers of im-server.  A money message freezes the    *)
(* sender's money in MySQL before the message is stored in MongoDB; the    *)
(* two stores share no transaction, so a failed insert is compensated by   *)
(* unfreezing.  Claims settle out of the frozen money; a background worker *)
(* gives back what is left after 24 hours.                                 *)
(*                                                                         *)
(* A MySQL transaction is one action (see Wallet).  A handler is as many   *)
(* actions as it makes separate reads and transactions, so that what it    *)
(* read may be stale when it uses it.  A crash kills every handler in      *)
(* flight and leaves the two stores as they are.                           *)
(***************************************************************************)
EXTENDS Wallet, FiniteSetsExt

CONSTANTS
  MsgIDs,     \* message ids; SendMessage draws a fresh one for every attempt
  Content,    \* what attempt m asks to send
  Requests    \* claim handlers that may run at the same time

\* cmid is the client's idempotency key: attempts of one sender with one key
\* are resends of one message.  amount is in cents: the total of a lucky
\* packet or a transfer, one share of a normal packet.
ContentType == [sender : Users, cmid : STRING, kind : {"red", "transfer"},
                mode : {"lucky", "normal"}, amount : Nat \ {0}, count : Nat]

ASSUME ContentAssumption == Content \in [MsgIDs -> ContentType]
ASSUME FiniteMessages == IsFiniteSet(MsgIDs)

VARIABLES
  phase,    \* progress of the SendMessage call that drew id m
  packet,   \* rows of money_packet
  claims,   \* rows of red_packet_claim and transfer_claim
  msg,      \* documents of the message collection
  req       \* claim handlers

vars == <<bal, frz, phase, packet, claims, msg, req>>
stores == <<bal, frz, packet, claims, msg>>

-----------------------------------------------------------------------------
(* What a money message is worth.                                          *)

Sender(m)     == Content[m].sender
IsTransfer(m) == Content[m].kind = "transfer"

ShareCount(m) == IF ~IsTransfer(m) /\ Content[m].count >= 1
                 THEN Content[m].count ELSE 1

Total(m) == IF ~IsTransfer(m) /\ Content[m].mode # "lucky"
            THEN Content[m].amount * ShareCount(m)
            ELSE Content[m].amount

Remain(m) == Total(m) - packet[m].claimed

\* The amounts one random draw can give: below twice the mean of the rest,
\* at least a cent, rounded to the cent; the last share takes the rest.
LuckyAmount(remain, remainCnt) ==
  IF remainCnt <= 1
  THEN {remain}
  ELSE {k \in 1..remain : k = 1 \/ (2 * k - 1) * remainCnt < 4 * remain}

-----------------------------------------------------------------------------
(* Types and initial state.                                                *)

Phases == {"new", "looked", "frozen", "insertErr",
           "sent", "replayed", "refused", "unanswered", "compensated", "uncompensated",
           "dead"}
Statuses == {"absent", "open", "finished", "expired", "closed"}
PacketRow == [status : Statuses, claimed : Nat, cnt : Nat, due : BOOLEAN]
ClaimRow  == [user : Users, amount : Nat, seq : Nat]

Idle == [phase |-> "idle"]
Handler == [phase : {"loaded", "priced"}, user : Users, msg : MsgIDs,
            cnt : Nat, claimed : Nat, amt : Nat]

\* Every state is well typed: in particular no transaction takes a balance or
\* frozen money below zero, or counts a claimed cent that is not there.
TypeOK ==
  /\ WalletType
  /\ phase \in [MsgIDs -> Phases]
  /\ packet \in [MsgIDs -> PacketRow]
  /\ claims \in [MsgIDs -> SUBSET ClaimRow]
  /\ msg \in [MsgIDs -> {"none", "stored", "recalled"}]
  /\ req \in [Requests -> Handler \cup {Idle}]

NoPacket == [status |-> "absent", claimed |-> 0, cnt |-> 0, due |-> FALSE]

Init ==
  /\ WalletInit
  /\ phase = [m \in MsgIDs |-> "new"]
  /\ packet = [m \in MsgIDs |-> NoPacket]
  /\ claims = [m \in MsgIDs |-> {}]
  /\ msg = [m \in MsgIDs |-> "none"]
  /\ req = [r \in Requests |-> Idle]

-----------------------------------------------------------------------------
(* SendMessage for a money message.                                        *)

SameMessage(m, n) == /\ Content[n].sender = Content[m].sender
                     /\ Content[n].cmid = Content[m].cmid

Stored(m) == \E n \in MsgIDs : SameMessage(m, n) /\ msg[n] # "none"

SetPhase(m, p) == phase' = [phase EXCEPT ![m] = p]

\* The idempotency lookup: a resend of a stored message returns it.
SendLookup(m) ==
  /\ phase[m] = "new"
  /\ SetPhase(m, IF Stored(m) THEN "replayed" ELSE "looked")
  /\ UNCHANGED <<stores, req>>

SendMoneyFreeze(m) ==
  /\ phase[m] = "looked"
  /\ MutateUser(Sender(m), -Total(m), Total(m))
  /\ packet' = [packet EXCEPT ![m].status = "open"]
  /\ \/ SetPhase(m, "frozen")
     \/ SetPhase(m, "unanswered")  \* committed, but the answer was lost
  /\ UNCHANGED <<claims, msg, req>>

\* Not enough balance, or the transaction is rolled back: nothing is left behind.
FreezeFails(m) ==
  /\ phase[m] = "looked"
  /\ SetPhase(m, "refused")
  /\ UNCHANGED <<stores, req>>

\* The unique index on (sender_id, client_msg_id) admits one of the resends.
InsertMessage(m) ==
  /\ phase[m] = "frozen"
  /\ ~Stored(m)
  /\ msg' = [msg EXCEPT ![m] = "stored"]
  /\ \/ SetPhase(m, "sent")
     \/ SetPhase(m, "insertErr")   \* written, but the answer was lost
  /\ UNCHANGED <<bal, frz, packet, claims, req>>

\* Fault: the error is returned without compensating.
InsertFailsUncompensated(m) ==
  /\ phase[m] = "frozen"
  /\ SetPhase(m, "compensated")
  /\ UNCHANGED <<stores, req>>

\* Duplicate key, or MongoDB unavailable.
InsertFails(m) ==
  /\ phase[m] = "frozen"
  /\ SetPhase(m, "insertErr")
  /\ UNCHANGED <<stores, req>>

\* Fault: any packet nobody claimed is refundable, open or not.
CompensableUnclaimed(m) == packet[m].claimed = 0

Compensable(m) == packet[m].status = "open" /\ packet[m].claimed = 0

\* The compensation: unfreeze everything, unless somebody has claimed.
RefundMoneyPacket(m) ==
  /\ phase[m] = "insertErr"
  /\ SetPhase(m, "compensated")
  /\ IF Compensable(m)
     THEN /\ MutateUser(Sender(m), Total(m), -Total(m))
          /\ packet' = [packet EXCEPT ![m].status = "closed"]
     ELSE UNCHANGED <<bal, frz, packet>>
  /\ UNCHANGED <<claims, msg, req>>

\* Its transaction fails; the error is dropped and the expiry worker is left
\* to return the money.
RefundMoneyPacketFails(m) ==
  /\ phase[m] = "insertErr"
  /\ SetPhase(m, "uncompensated")
  /\ UNCHANGED <<stores, req>>

\* A sender, or an administrator of the group, recalls the message.  The
\* packet behind it is not touched.
RecallMessage(m) ==
  /\ msg[m] = "stored"
  /\ msg' = [msg EXCEPT ![m] = "recalled"]
  /\ UNCHANGED <<bal, frz, phase, packet, claims, req>>

-----------------------------------------------------------------------------
(* Expiry.                                                                 *)

\* 24 hours have passed since the freeze.
Expire(m) ==
  /\ packet[m].status = "open" /\ ~packet[m].due
  /\ packet' = [packet EXCEPT ![m].due = TRUE]
  /\ UNCHANGED <<bal, frz, phase, claims, msg, req>>

\* Fault: the refund forgets what has been claimed.
RefundableWhole(m) == Total(m)

Refundable(m) == Total(m) - packet[m].claimed

\* Fault: only packets nobody has claimed are scanned.
ExpiredUnclaimed(m) == packet[m].status = "open" /\ packet[m].due /\ packet[m].cnt = 0

Expired(m) == packet[m].status = "open" /\ packet[m].due

\* The transaction of the worker for one packet, also run by a claim that
\* meets an expired packet the worker has not reached yet.
RefundOne(m) ==
  /\ Expired(m)
  /\ MutateUser(Sender(m), Refundable(m), -Refundable(m))
  /\ packet' = [packet EXCEPT ![m].status = "expired"]
  /\ UNCHANGED <<phase, claims, msg, req>>

-----------------------------------------------------------------------------
(* Claims.                                                                 *)

SetReq(r, h) == req' = [req EXCEPT ![r] = h]

\* loadRedPacket and the checks on what it read; the packet row is read
\* without a lock, and a recalled message is not turned away.
LoadRedPacket(r, u, m) ==
  /\ req[r] = Idle
  /\ ~IsTransfer(m) /\ msg[m] # "none"
  /\ packet[m].status = "open" /\ ~packet[m].due
  /\ packet[m].cnt < ShareCount(m)
  /\ SetReq(r, [phase |-> "loaded", user |-> u, msg |-> m,
                cnt |-> packet[m].cnt, claimed |-> packet[m].claimed, amt |-> 0])
  /\ UNCHANGED <<stores, phase>>

\* The duplicate check, then the amount of the share from the earlier read.
PriceRedPacket(r) ==
  /\ req[r].phase = "loaded" /\ ~IsTransfer(req[r].msg)
  /\ LET m == req[r].msg
         rest == Content[m].amount - req[r].claimed
     IN \/ /\ \/ \E c \in claims[m] : c.user = req[r].user
              \/ Content[m].mode = "lucky" /\ rest < 1
           /\ SetReq(r, Idle)
        \/ /\ \A c \in claims[m] : c.user # req[r].user
           /\ \E a \in IF Content[m].mode = "lucky"
                       THEN LuckyAmount(rest, ShareCount(m) - req[r].cnt)
                       ELSE {Content[m].amount} :
                a >= 1 /\ SetReq(r, [req[r] EXCEPT !.phase = "priced", !.amt = a])
  /\ UNCHANGED <<stores, phase>>

\* WalletTransferAccept up to its MongoDB read: no claim row, no packet that is
\* over.  expire_at is not looked at.
LoadTransfer(r, u, m) ==
  /\ req[r] = Idle
  /\ IsTransfer(m) /\ claims[m] = {} /\ packet[m].status \in {"absent", "open"}
  /\ SetReq(r, [phase |-> "loaded", user |-> u, msg |-> m,
                cnt |-> 0, claimed |-> 0, amt |-> 0])
  /\ UNCHANGED <<stores, phase>>

\* Fault: the sender may accept.
AcceptableByAnyone(m, u) == msg[m] = "stored"

\* The message must be there, not recalled, and sent by somebody else.
Acceptable(m, u) == msg[m] = "stored" /\ Sender(m) # u

CheckTransfer(r) ==
  /\ req[r].phase = "loaded" /\ IsTransfer(req[r].msg)
  /\ LET m == req[r].msg
     IN IF Acceptable(m, req[r].user)
        THEN SetReq(r, [req[r] EXCEPT !.phase = "priced", !.amt = Content[m].amount])
        ELSE SetReq(r, Idle)
  /\ UNCHANGED <<stores, phase>>

\* Fault: what is left is not looked at.
SettleAmountAsked(m, amount) == amount

\* What the settling transaction pays: never more than what is left.
SettleAmount(m, amount) == IF amount > Remain(m) THEN Remain(m) ELSE amount

\* Fault: a packet that has been given back still pays.
ClaimableWhenReturned(m) == /\ packet[m].status # "finished"
                            /\ packet[m].cnt < ShareCount(m)
                            /\ Remain(m) >= 1

Claimable(m) == /\ packet[m].status = "open"
                /\ packet[m].cnt < ShareCount(m)
                /\ Remain(m) >= 1

\* The packet once a share has brought it to claimed and cnt.
SettledRow(m, claimed, cnt) ==
  [packet[m] EXCEPT
     !.claimed = claimed,
     !.cnt = cnt,
     !.status = IF cnt >= ShareCount(m) \/ Total(m) - claimed < 1
                THEN "finished" ELSE "open"]

\* Fault: the row is computed from the read made before the lock.
SettleFromRead(r, a) ==
  SettledRow(req[r].msg, req[r].claimed + a, req[r].cnt + 1)

Settle(r, a) ==
  SettledRow(req[r].msg, packet[req[r].msg].claimed + a, packet[req[r].msg].cnt + 1)

\* Fault: the claimer is credited what was asked for, not what was settled.
CreditAsked(r, a) == req[r].amt

Credit(r, a) == a

\* SettleClaim with the hook that inserts the claim row: the sender's frozen
\* money goes to the claimer's balance.
SettleClaim(r) ==
  LET u == req[r].user
      m == req[r].msg
      a == SettleAmount(m, req[r].amt)
  IN /\ req[r].phase = "priced"
     /\ Claimable(m)
     /\ frz[Sender(m)] >= a
     /\ IsTransfer(m) => claims[m] = {}      \* uk_msg of transfer_claim
     /\ bal' = [bal EXCEPT ![u] = @ + Credit(r, a)]
     /\ frz' = [frz EXCEPT ![Sender(m)] = @ - a]
     /\ claims' = [claims EXCEPT ![m] =
                     @ \cup {[user |-> u, amount |-> a, seq |-> packet[m].cnt + 1]}]
     /\ packet' = [packet EXCEPT ![m] = Settle(r, a)]
     /\ SetReq(r, Idle)
     /\ UNCHANGED <<phase, msg>>

\* The transaction refuses, or is rolled back (a deadlock victim, a lost
\* connection): the handler answers with an error.
SettleFails(r) ==
  /\ req[r].phase = "priced"
  /\ SetReq(r, Idle)
  /\ UNCHANGED <<stores, phase>>

-----------------------------------------------------------------------------
InFlight == {"looked", "frozen", "insertErr"}

\* Whether a handler is at work.
Busy == \/ \E m \in MsgIDs : phase[m] \in InFlight
        \/ \E r \in Requests : req[r] # Idle

\* Handlers die with their process; what they wrote stays.
HandlersDie ==
  /\ phase' = [m \in MsgIDs |-> IF phase[m] \in InFlight THEN "dead" ELSE phase[m]]
  /\ req' = [r \in Requests |-> Idle]
  /\ UNCHANGED stores

\* The api process dies and is started again.
Crash == Busy /\ HandlersDie

SendStep(m) ==
  \/ SendLookup(m) \/ SendMoneyFreeze(m) \/ FreezeFails(m)
  \/ InsertMessage(m) \/ InsertFails(m)
  \/ RefundMoneyPacket(m) \/ RefundMoneyPacketFails(m)
  \/ RecallMessage(m)

ClaimStep(r) ==
  \/ \E u \in Users, m \in MsgIDs : LoadRedPacket(r, u, m) \/ LoadTransfer(r, u, m)
  \/ PriceRedPacket(r) \/ CheckTransfer(r)
  \/ SettleClaim(r) \/ SettleFails(r)

Next ==
  \/ \E m \in MsgIDs : SendStep(m) \/ Expire(m) \/ RefundOne(m)
  \/ \E r \in Requests : ClaimStep(r)
  \/ Crash

\* Time passes, and the worker started by main scans every minute, also after
\* a restart.  Users and handlers owe nothing.
Fairness == \A m \in MsgIDs : WF_vars(Expire(m)) /\ WF_vars(RefundOne(m))

Spec == Init /\ [][Next]_vars /\ Fairness
=============================================================================
