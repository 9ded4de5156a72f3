------------------------- MODULE WalletSystemProofs -------------------------
(***************************************************************************)
(* Theorems about the money of the users.  The first part is about the     *)
(* packets, for any users, messages, contents, balances and number of      *)
(* concurrent claim handlers; the second about packets and orders on one   *)
(* wallet, however many reviewers decide one order: every frozen cent is   *)
(* explained, and only an order that two reviews decided can spend what is *)
(* another's.  The third shows that transactions which lock row by row act *)
(* as one step each, the commit, which is what lets the first two take a   *)
(* transaction for one step.                                               *)
(***************************************************************************)
EXTENDS WalletSystem, PacketLocks, Sums

USE ContentAssumption, WalletAssumption

LEMMA Worth ==
  ASSUME NEW m \in MsgIDs
  PROVE  /\ Sender(m) \in Users
         /\ IsTransfer(m) \in BOOLEAN
         /\ ShareCount(m) \in Nat \ {0}
         /\ Total(m) \in Nat \ {0}
         /\ IsTransfer(m) => Total(m) = Content[m].amount
<1>1. Content[m] \in ContentType
  OBVIOUS
<1>2. Content[m].amount \in Nat \ {0} /\ ShareCount(m) \in Nat \ {0}
  BY <1>1 DEF ContentType, ShareCount
<1>3. \A a, c \in Nat \ {0} : a * c \in Nat \ {0}
  BY SMT
<1>4. Total(m) \in Nat \ {0}
  <2>1. CASE ~IsTransfer(m) /\ Content[m].mode # "lucky"
    BY <2>1, <1>2, <1>3 DEF Total
  <2>2. CASE ~(~IsTransfer(m) /\ Content[m].mode # "lucky")
    BY <2>2, <1>2 DEF Total
  <2> QED BY <2>1, <2>2
<1> QED BY <1>1, <1>2, <1>4 DEF ContentType, Sender, IsTransfer, Total

(***************************************************************************)
(* Type correctness.                                                       *)
(***************************************************************************)
\* Server, sender and clock steps.
LEMMA TypeSend ==
  ASSUME TypeOK, NEW m \in MsgIDs, SendStep(m) \/ Expire(m) \/ RefundOne(m)
  PROVE  TypeOK'
<1> USE DEF TypeOK, WalletType, stores, SetPhase, Phases, PacketRow, Statuses
<1>0. Sender(m) \in Users /\ Total(m) \in Nat
  BY Worth
<1>1. CASE SendLookup(m)
  BY <1>1 DEF SendLookup
<1>2. CASE SendMoneyFreeze(m)
  <2>1. phase' \in [MsgIDs -> Phases]
    BY <1>2 DEF SendMoneyFreeze
  <2>2. bal' \in [Users -> Nat] /\ frz' \in [Users -> Nat]
    BY <1>0, <1>2 DEF SendMoneyFreeze, MutateUser, CanMutate
  <2>3. packet' \in [MsgIDs -> PacketRow] /\ UNCHANGED <<claims, msg, req>>
    BY <1>2 DEF SendMoneyFreeze
  <2> QED BY <2>1, <2>2, <2>3
<1>3. CASE FreezeFails(m) \/ InsertFails(m) \/ RefundMoneyPacketFails(m)
  BY <1>3 DEF FreezeFails, InsertFails, RefundMoneyPacketFails
<1>4. CASE InsertMessage(m)
  BY <1>4 DEF InsertMessage
<1>5. CASE RefundMoneyPacket(m)
  <2>1. phase' \in [MsgIDs -> Phases] /\ UNCHANGED <<claims, msg, req>>
    BY <1>5 DEF RefundMoneyPacket
  <2>2. CASE Compensable(m)
    <3>1. MutateUser(Sender(m), Total(m), -Total(m))
          /\ packet' = [packet EXCEPT ![m].status = "closed"]
      BY <1>5, <2>2 DEF RefundMoneyPacket
    <3>2. WalletType'
      BY <1>0, <3>1 DEF MutateUser, CanMutate
    <3>3. packet' \in [MsgIDs -> PacketRow]
      BY <3>1
    <3> QED BY <2>1, <3>2, <3>3
  <2>3. CASE ~Compensable(m)
    BY <1>5, <2>1, <2>3 DEF RefundMoneyPacket
  <2> QED BY <2>2, <2>3
<1>6. CASE RecallMessage(m)
  BY <1>6 DEF RecallMessage
<1>7. CASE Expire(m)
  BY <1>7 DEF Expire
<1>8. CASE RefundOne(m)
  <2>1. Refundable(m) \in Int
    BY <1>0 DEF Refundable
  <2> QED BY <1>0, <1>8, <2>1 DEF RefundOne, MutateUser, CanMutate
<1> QED BY <1>1, <1>2, <1>3, <1>4, <1>5, <1>6, <1>7, <1>8 DEF SendStep

\* A handler that is pricing or settling works for some user on some message.
LEMMA HandlerAtWork ==
  ASSUME TypeOK, NEW r \in Requests, req[r].phase \in {"loaded", "priced"}
  PROVE  req[r] \in Handler
BY DEF TypeOK, Idle

LEMMA ShareIsNat ==
  ASSUME NEW rest \in Int, NEW n \in Int, NEW a \in LuckyAmount(rest, n), a >= 1
  PROVE  a \in Nat
BY DEF LuckyAmount

\* A settled share is at least a cent and at most what is left.
LEMMA ShareBounds ==
  ASSUME TypeOK, NEW m \in MsgIDs, Claimable(m), NEW amount \in Nat, amount >= 1
  PROVE  /\ SettleAmount(m, amount) \in 1..Remain(m)
         /\ Remain(m) \in Nat
         /\ amount >= Remain(m) => SettleAmount(m, amount) = Remain(m)
<1>1. packet[m] \in PacketRow /\ Total(m) \in Nat
  BY Worth DEF TypeOK
<1>2. Remain(m) \in Int /\ Remain(m) >= 1
  BY <1>1 DEF PacketRow, Remain, Claimable
<1> QED BY <1>2 DEF SettleAmount

LEMMA SettledRowType ==
  ASSUME NEW m \in MsgIDs, packet[m] \in PacketRow, NEW c \in Nat, NEW n \in Nat
  PROVE  SettledRow(m, c, n) \in PacketRow
<1> DEFINE st == IF n >= ShareCount(m) \/ Total(m) - c < 1 THEN "finished" ELSE "open"
<1>1. st \in Statuses
  BY DEF Statuses
<1>2. SettledRow(m, c, n) = [packet[m] EXCEPT !.claimed = c, !.cnt = n, !.status = st]
  BY DEF SettledRow
<1> HIDE DEF st
<1> QED BY <1>1, <1>2 DEF PacketRow

LEMMA TypeClaim ==
  ASSUME TypeOK, NEW r \in Requests, ClaimStep(r),
         req[r].phase = "priced" => req[r].amt >= 1
  PROVE  TypeOK'
<1> USE DEF TypeOK, WalletType, stores, SetReq, PacketRow
<1>1. ASSUME NEW u \in Users, NEW m \in MsgIDs,
             LoadRedPacket(r, u, m) \/ LoadTransfer(r, u, m)
      PROVE  TypeOK'
  BY <1>1 DEF LoadRedPacket, LoadTransfer, Handler
<1>2. CASE PriceRedPacket(r)
  <2>1. req[r] \in Handler
    BY <1>2, HandlerAtWork DEF PriceRedPacket
  <2> DEFINE m == req[r].msg
             rest == Content[m].amount - req[r].claimed
             left == ShareCount(m) - req[r].cnt
  <2>2. m \in MsgIDs /\ rest \in Int /\ left \in Int /\ Content[m].amount \in Nat
    BY <2>1, Worth DEF Handler, ContentType
  <2>3. CASE req' = [req EXCEPT ![r] = Idle]
    BY <1>2, <2>3 DEF PriceRedPacket
  <2>4. ASSUME NEW a \in IF Content[m].mode = "lucky"
                        THEN LuckyAmount(rest, left) ELSE {Content[m].amount},
               a >= 1, req' = [req EXCEPT ![r] = [req[r] EXCEPT !.phase = "priced", !.amt = a]]
        PROVE  TypeOK'
    <3>1. a \in Nat
      BY <2>2, <2>4, ShareIsNat
    <3>2. [req[r] EXCEPT !.phase = "priced", !.amt = a] \in Handler
      BY <2>1, <3>1 DEF Handler
    <3> QED BY <1>2, <2>4, <3>2 DEF PriceRedPacket
  <2> QED BY <1>2, <2>3, <2>4 DEF PriceRedPacket
<1>3. CASE CheckTransfer(r)
  <2>1. req[r] \in Handler
    BY <1>3, HandlerAtWork DEF CheckTransfer
  <2>2. Content[req[r].msg].amount \in Nat
    BY <2>1 DEF Handler, ContentType
  <2>3. [req[r] EXCEPT !.phase = "priced", !.amt = Content[req[r].msg].amount] \in Handler
    BY <2>1, <2>2 DEF Handler
  <2> QED BY <1>3, <2>3 DEF CheckTransfer
<1>4. CASE SettleClaim(r)
  <2>1. req[r] \in Handler
    BY <1>4, HandlerAtWork DEF SettleClaim
  <2> DEFINE u == req[r].user
             m == req[r].msg
             a == SettleAmount(m, req[r].amt)
  <2>2. u \in Users /\ m \in MsgIDs /\ Sender(m) \in Users /\ packet[m] \in PacketRow
    BY <2>1, Worth DEF Handler
  <2>3. a \in Nat
    BY <1>4, <2>1, <2>2, ShareBounds DEF SettleClaim, Handler
  <2>4. bal' = [bal EXCEPT ![u] = @ + a] /\ frz' = [frz EXCEPT ![Sender(m)] = @ - a]
    BY <1>4 DEF SettleClaim, Credit
  <2>5. WalletType'
    <3>1. frz[Sender(m)] - a \in Nat /\ bal[u] + a \in Nat
      BY <1>4, <2>2, <2>3 DEF SettleClaim
    <3> HIDE DEF a
    <3> QED BY <2>2, <2>4, <3>1
  <2>6. Settle(r, a) \in PacketRow
    <3>1. packet[m].claimed + a \in Nat /\ packet[m].cnt + 1 \in Nat
      BY <2>2, <2>3
    <3> HIDE DEF a, m
    <3>2. SettledRow(m, packet[m].claimed + a, packet[m].cnt + 1) \in PacketRow
      BY <2>2, <3>1, SettledRowType
    <3> QED BY <3>2 DEF Settle, m
  <2>7. packet' \in [MsgIDs -> PacketRow]
    BY <1>4, <2>6 DEF SettleClaim
  <2> DEFINE row == [user |-> u, amount |-> a, seq |-> packet[m].cnt + 1]
  <2>8. row \in ClaimRow
    BY <2>2, <2>3 DEF ClaimRow
  <2>9. claims' \in [MsgIDs -> SUBSET ClaimRow]
    <3>1. claims' = [claims EXCEPT ![m] = @ \cup {row}]
      BY <1>4 DEF SettleClaim
    <3> HIDE DEF row
    <3> QED BY <2>2, <2>8, <3>1
  <2> QED BY <1>4, <2>5, <2>7, <2>9 DEF SettleClaim
<1>5. CASE SettleFails(r)
  BY <1>5 DEF SettleFails
<1> QED BY <1>1, <1>2, <1>3, <1>4, <1>5 DEF ClaimStep

LEMMA TypeCrash == TypeOK /\ HandlersDie => TypeOK'
BY DEF TypeOK, WalletType, HandlersDie, stores, Phases

(***************************************************************************)
(* The invariant.                                                          *)
(***************************************************************************)
\* A step of the sender, of the clock or of the worker on m leaves the claim
\* rows and every other packet alone, and never removes a message.
LEMMA SendFrame ==
  ASSUME TypeOK, NEW m \in MsgIDs, SendStep(m) \/ Expire(m) \/ RefundOne(m)
  PROVE  /\ UNCHANGED <<claims, req>>
         /\ \A n \in MsgIDs : msg[n] # "none" => msg'[n] # "none"
         /\ \A n \in MsgIDs \ {m} :
              packet'[n] = packet[n] /\ phase'[n] = phase[n] /\ msg'[n] = msg[n]
<1> USE DEF TypeOK, stores, SetPhase
<1>1. CASE SendLookup(m) \/ FreezeFails(m) \/ InsertFails(m) \/ RefundMoneyPacketFails(m)
  BY <1>1 DEF SendLookup, FreezeFails, InsertFails, RefundMoneyPacketFails
<1>2. CASE SendMoneyFreeze(m)
  BY <1>2 DEF SendMoneyFreeze
<1>3. CASE InsertMessage(m)
  BY <1>3 DEF InsertMessage
<1>4. CASE RefundMoneyPacket(m)
  BY <1>4 DEF RefundMoneyPacket
<1>5. CASE RecallMessage(m)
  BY <1>5 DEF RecallMessage
<1>6. CASE Expire(m)
  BY <1>6 DEF Expire
<1>7. CASE RefundOne(m)
  BY <1>7 DEF RefundOne
<1> QED BY <1>1, <1>2, <1>3, <1>4, <1>5, <1>6, <1>7 DEF SendStep

LEMMA InvSend ==
  ASSUME TypeOK, PacketInv, NEW m \in MsgIDs, SendStep(m) \/ Expire(m) \/ RefundOne(m)
  PROVE  PacketInv'
<1>1. \A r \in Requests : HandlerInv(r)'
  <2> SUFFICES ASSUME NEW r \in Requests, req[r] # Idle PROVE HandlerInv(r)'
    BY SendFrame DEF HandlerInv, Idle
  <2>1. req[r] \in Handler
    BY DEF TypeOK
  <2> QED BY <2>1, SendFrame DEF PacketInv, HandlerInv, Handler
<1>2. \A n \in MsgIDs \ {m} : RowInv(n)'
  BY SendFrame DEF PacketInv, RowInv
<1>3. RowInv(m)'
  <2> USE DEF TypeOK, stores, SetPhase, PacketRow
  <2>0. RowInv(m) /\ claims' = claims
    BY SendFrame DEF PacketInv
  <2>1. CASE SendLookup(m) \/ FreezeFails(m) \/ InsertFails(m) \/ RefundMoneyPacketFails(m)
    BY <2>0, <2>1 DEF RowInv, SendLookup, FreezeFails, InsertFails, RefundMoneyPacketFails
  <2>2. CASE SendMoneyFreeze(m)
    BY <2>0, <2>2 DEF RowInv, SendMoneyFreeze
  <2>3. CASE InsertMessage(m)
    BY <2>0, <2>3 DEF RowInv, InsertMessage
  <2>4. CASE RefundMoneyPacket(m)
    BY <2>0, <2>4 DEF RowInv, RefundMoneyPacket, Compensable
  <2>5. CASE RecallMessage(m)
    BY <2>0, <2>5 DEF RowInv, RecallMessage
  <2>6. CASE Expire(m)
    BY <2>0, <2>6 DEF RowInv, Expire
  <2>7. CASE RefundOne(m)
    BY <2>0, <2>7 DEF RowInv, RefundOne, Expired
  <2> QED BY <2>1, <2>2, <2>3, <2>4, <2>5, <2>6, <2>7 DEF SendStep
<1> QED BY <1>1, <1>2, <1>3 DEF PacketInv

\* Steps that only move a handler on.
LEMMA InvHandler ==
  ASSUME TypeOK, PacketInv, NEW r \in Requests, NEW h,
         UNCHANGED <<stores, phase>>, req' = [req EXCEPT ![r] = h],
         HandlerInv(r)'
  PROVE  PacketInv'
<1>1. \A m \in MsgIDs : RowInv(m)'
  BY DEF PacketInv, RowInv, stores
<1>2. \A s \in Requests \ {r} : HandlerInv(s)'
  <2>1. \A s \in Requests \ {r} : req'[s] = req[s] /\ msg' = msg
    BY DEF TypeOK, stores
  <2> QED BY <2>1 DEF PacketInv, HandlerInv
<1> QED BY <1>1, <1>2 DEF PacketInv

LEMMA IdleInv ==
  ASSUME NEW r \in Requests, TypeOK, req' = [req EXCEPT ![r] = Idle]
  PROVE  HandlerInv(r)'
BY DEF TypeOK, HandlerInv, Idle

LEMMA InvLoad ==
  ASSUME TypeOK, PacketInv, NEW r \in Requests, NEW u \in Users, NEW m \in MsgIDs,
         LoadRedPacket(r, u, m) \/ LoadTransfer(r, u, m)
  PROVE  PacketInv'
<1>1. req'[r].phase = "loaded" /\ req'[r].msg = m /\ msg' = msg
  BY DEF LoadRedPacket, LoadTransfer, SetReq, TypeOK, stores
<1>2. ~IsTransfer(m) => msg[m] # "none"
  BY DEF LoadRedPacket, LoadTransfer
<1>3. HandlerInv(r)'
  BY <1>1, <1>2 DEF HandlerInv
<1> QED BY <1>3, InvHandler DEF LoadRedPacket, LoadTransfer, SetReq

LEMMA InvPrice ==
  ASSUME TypeOK, PacketInv, NEW r \in Requests, PriceRedPacket(r) \/ CheckTransfer(r)
  PROVE  PacketInv'
<1>0. req[r] \in Handler
  BY HandlerAtWork DEF PriceRedPacket, CheckTransfer
<1> DEFINE m == req[r].msg
<1>1. CASE req' = [req EXCEPT ![r] = Idle]
  BY <1>1, IdleInv, InvHandler DEF PriceRedPacket, CheckTransfer
<1>2. ASSUME NEW a, a >= 1, msg[m] # "none",
             IsTransfer(m) => a = Total(m) /\ req[r].user # Sender(m),
             req' = [req EXCEPT ![r] = [req[r] EXCEPT !.phase = "priced", !.amt = a]]
      PROVE  PacketInv'
  <2>1. /\ req'[r].phase = "priced" /\ req'[r].msg = m /\ req'[r].amt = a
        /\ req'[r].user = req[r].user
    BY <1>0, <1>2 DEF TypeOK, Handler
  <2>2. msg' = msg
    BY DEF PriceRedPacket, CheckTransfer, stores
  <2>3. HandlerInv(r)'
    BY <1>2, <2>1, <2>2 DEF HandlerInv
  <2> QED BY <1>2, <2>3, InvHandler DEF PriceRedPacket, CheckTransfer
<1>3. CASE PriceRedPacket(r) /\ req' # [req EXCEPT ![r] = Idle]
  <2>1. msg[m] # "none" /\ ~IsTransfer(m)
    BY <1>3 DEF PriceRedPacket, PacketInv, HandlerInv
  <2>2. PICK a : a >= 1 /\ req' = [req EXCEPT ![r] = [req[r] EXCEPT !.phase = "priced", !.amt = a]]
    BY <1>3, ZenonT(30) DEF PriceRedPacket, SetReq
  <2> QED BY <1>2, <2>1, <2>2
<1>4. CASE CheckTransfer(r) /\ req' # [req EXCEPT ![r] = Idle]
  <2> DEFINE a == Content[m].amount
  <2>1. /\ IsTransfer(m) /\ msg[m] = "stored" /\ Sender(m) # req[r].user
        /\ req' = [req EXCEPT ![r] = [req[r] EXCEPT !.phase = "priced", !.amt = a]]
    BY <1>4 DEF CheckTransfer, SetReq, Acceptable
  <2>2. m \in MsgIDs
    BY <1>0 DEF Handler
  <2>3. a = Total(m) /\ a >= 1
    BY <2>1, <2>2, Worth
  <2> QED BY <1>2, <2>1, <2>3
<1> QED BY <1>1, <1>3, <1>4

LEMMA InvSettle ==
  ASSUME TypeOK, PacketInv, NEW r \in Requests, SettleClaim(r)
  PROVE  PacketInv'
<1>0. req[r] \in Handler /\ req[r].phase = "priced"
  BY HandlerAtWork DEF SettleClaim
<1> DEFINE m == req[r].msg
           u == req[r].user
           a == SettleAmount(m, req[r].amt)
<1>1. m \in MsgIDs /\ u \in Users /\ req[r].amt \in Nat /\ packet[m] \in PacketRow
  BY <1>0 DEF Handler, TypeOK
<1>2. HandlerInv(r) /\ RowInv(m) /\ Claimable(m)
  BY <1>1 DEF PacketInv, SettleClaim
<1>3. a \in 1..Remain(m) /\ Remain(m) \in Nat
      /\ (req[r].amt >= Remain(m) => a = Remain(m))
  BY <1>0, <1>1, <1>2, ShareBounds DEF HandlerInv
<1>4. /\ packet' = [packet EXCEPT ![m] = SettledRow(m, packet[m].claimed + a, packet[m].cnt + 1)]
      /\ claims' = [claims EXCEPT ![m] =
                      @ \cup {[user |-> u, amount |-> a, seq |-> packet[m].cnt + 1]}]
      /\ UNCHANGED <<phase, msg>>
      /\ req' = [req EXCEPT ![r] = Idle]
  BY DEF SettleClaim, Settle, SetReq
<1>5. \A s \in Requests : HandlerInv(s)'
  <2>1. HandlerInv(r)'
    BY <1>4, IdleInv
  <2>2. \A s \in Requests \ {r} : req'[s] = req[s]
    BY <1>4 DEF TypeOK
  <2> QED BY <1>4, <2>1, <2>2 DEF PacketInv, HandlerInv
<1>6. \A n \in MsgIDs \ {m} : RowInv(n)'
  BY <1>4 DEF TypeOK, PacketInv, RowInv
<1>7. ASSUME NEW n \in MsgIDs, n = m PROVE RowInv(n)'
  <2> DEFINE row == [user |-> u, amount |-> a, seq |-> packet[m].cnt + 1]
  <2>1. /\ packet'[m].claimed = packet[m].claimed + a
        /\ packet'[m].cnt = packet[m].cnt + 1
        /\ packet'[m].status \in {"open", "finished"}
    <3> HIDE DEF a, m
    <3> QED BY <1>1, <1>4 DEF TypeOK, SettledRow, PacketRow
  <2>2. claims'[m] = claims[m] \cup {row}
    BY <1>1, <1>4 DEF TypeOK
  <2>3. Total(m) \in Nat /\ ShareCount(m) \in Nat /\ Remain(m) = Total(m) - packet[m].claimed
    BY <1>1, Worth DEF Remain
  <2>4. packet'[m].claimed <= Total(m) /\ packet'[m].cnt <= ShareCount(m)
    <3> HIDE DEF a, m
    <3> QED BY <1>1, <1>2, <1>3, <2>1, <2>3 DEF Claimable, PacketRow
  <2>5. packet[m].status # "absent" /\ msg[m] # "none"
    BY <1>0, <1>2 DEF Claimable, HandlerInv
  <2>6. claims'[m] # {}
    BY <2>2
  <2>7. IsTransfer(m) => /\ u \in Users \ {Sender(m)}
                         /\ claims'[m] = {[user |-> u, amount |-> Total(m), seq |-> 1]}
    <3> SUFFICES ASSUME IsTransfer(m)
                 PROVE  /\ u \in Users \ {Sender(m)}
                        /\ claims'[m] = {[user |-> u, amount |-> Total(m), seq |-> 1]}
      OBVIOUS
    <3>1. claims[m] = {} /\ packet[m].claimed = 0 /\ packet[m].cnt = 0
      BY <1>2 DEF SettleClaim, RowInv
    <3>2. req[r].amt = Total(m) /\ u # Sender(m)
      BY <1>0, <1>2 DEF HandlerInv
    <3>3. a = Total(m)
      BY <1>3, <2>3, <3>1, <3>2
    <3> QED BY <1>1, <2>2, <3>1, <3>2, <3>3
  <2>8. phase[m] \notin {"new", "looked"}
    BY <1>2, <2>5 DEF RowInv
  <2>9. msg'[n] # "none" /\ phase'[n] \notin {"new", "looked"} /\ packet'[n].status # "absent"
    BY <1>4, <1>7, <2>1, <2>5, <2>8
  <2> HIDE DEF a, m, u, row
  <2> QED BY <1>7, <2>1, <2>4, <2>6, <2>7, <2>9 DEF RowInv
<1> QED BY <1>5, <1>6, <1>7 DEF PacketInv

LEMMA InvCrash ==
  ASSUME TypeOK, PacketInv, HandlersDie
  PROVE  PacketInv'
<1>1. \A r \in Requests : HandlerInv(r)'
  BY DEF HandlersDie, HandlerInv, Idle
<1>2. \A m \in MsgIDs : RowInv(m)'
  BY DEF HandlersDie, PacketInv, RowInv, stores, TypeOK, InFlight
<1> QED BY <1>1, <1>2 DEF PacketInv

(***************************************************************************)
(* Theorems of the specification.                                          *)
(***************************************************************************)
LEMMA InitSafe == Init => TypeOK /\ PacketInv
<1> SUFFICES ASSUME Init PROVE TypeOK /\ PacketInv
  OBVIOUS
<1>1. TypeOK
  BY DEF Init, TypeOK, WalletInit, WalletType, NoPacket, PacketRow, Statuses, Phases
<1>2. \A m \in MsgIDs : RowInv(m)
  BY Worth DEF Init, NoPacket, RowInv
<1>3. \A r \in Requests : HandlerInv(r)
  BY DEF Init, HandlerInv, Idle
<1> QED BY <1>1, <1>2, <1>3 DEF PacketInv

LEMMA NextSafe == TypeOK /\ PacketInv /\ [Next]_vars => TypeOK' /\ PacketInv'
<1> SUFFICES ASSUME TypeOK, PacketInv, [Next]_vars PROVE TypeOK' /\ PacketInv'
  OBVIOUS
<1>1. ASSUME NEW m \in MsgIDs, SendStep(m) \/ Expire(m) \/ RefundOne(m)
      PROVE  TypeOK' /\ PacketInv'
  BY <1>1, TypeSend, InvSend
<1>2. ASSUME NEW r \in Requests, ClaimStep(r)
      PROVE  TypeOK' /\ PacketInv'
  <2>1. TypeOK'
    BY <1>2, TypeClaim DEF PacketInv, HandlerInv
  <2>2. CASE SettleFails(r)
    <3>1. UNCHANGED <<stores, phase>> /\ req' = [req EXCEPT ![r] = Idle]
      BY <2>2 DEF SettleFails, SetReq
    <3>2. HandlerInv(r)'
      BY <3>1, IdleInv
    <3> HIDE DEF Idle
    <3> QED BY <2>1, <3>1, <3>2, InvHandler
  <2> QED BY <1>2, <2>1, <2>2, InvLoad, InvPrice, InvSettle DEF ClaimStep
<1>3. CASE Crash
  BY <1>3, TypeCrash, InvCrash DEF Crash
<1>4. CASE UNCHANGED vars
  <2>1. TypeOK'
    BY <1>4 DEF vars, TypeOK, WalletType
  <2>2. PacketInv'
    BY <1>4 DEF vars, PacketInv, RowInv, HandlerInv
  <2> QED BY <2>1, <2>2
<1> QED BY <1>1, <1>2, <1>3, <1>4 DEF Next

\* The invariant on which every theorem below rests, inductive together with
\* TypeOK: the packet rows, their claim rows, the messages and the handlers of
\* money_packet.go and wallet.go agree in every reachable state.
THEOREM Safe == Spec => [](TypeOK /\ PacketInv)
<1> QED BY InitSafe, NextSafe, PTL DEF Spec

\* Every state is well typed: in particular mutateUser and SettleClaim never
\* leave a negative balance or a negative frozen amount.
THEOREM TypeCorrect == Spec => []TypeOK
BY Safe, PTL

\* Types and agreement, as the runs check them.
THEOREM PacketAgreement == Spec => []PacketSafety
BY Safe, PTL DEF PacketSafety

\* SettleClaim never pays more than the packet was funded for, however many
\* handlers computed their share from a stale read.
THEOREM Solvent == Spec => []NeverOverpaid
<1>1. PacketInv => NeverOverpaid
  BY DEF PacketInv, RowInv, NeverOverpaid
<1> QED BY <1>1, Safe, PTL

\* No money leaves a packet whose message was never stored, and a transfer is
\* accepted in full, once, by somebody other than its sender.
THEOREM TransfersOnce == Spec => []TransferPaidOnce
<1>1. PacketInv => TransferPaidOnce
  BY DEF PacketInv, RowInv, TransferPaidOnce
<1> QED BY <1>1, Safe, PTL

(***************************************************************************)
(* What was given back stays given back.                                   *)
(***************************************************************************)
LEMMA SendLeavesReturned ==
  ASSUME TypeOK, PacketInv, NEW m \in MsgIDs, SendStep(m) \/ Expire(m) \/ RefundOne(m),
         packet[m].status \in {"expired", "closed"}
  PROVE  packet' = packet
<1>1. phase[m] # "looked"
  BY DEF PacketInv, RowInv
<1> USE DEF stores
<1>2. CASE SendLookup(m) \/ SendMoneyFreeze(m) \/ FreezeFails(m) \/ InsertMessage(m)
           \/ InsertFails(m) \/ RefundMoneyPacketFails(m) \/ RecallMessage(m)
  BY <1>1, <1>2 DEF SendLookup, SendMoneyFreeze, FreezeFails, InsertMessage, InsertFails,
                    RefundMoneyPacketFails, RecallMessage
<1>3. CASE RefundMoneyPacket(m)
  BY <1>3 DEF RefundMoneyPacket, Compensable
<1>4. CASE Expire(m) \/ RefundOne(m)
  BY <1>4 DEF Expire, RefundOne, Expired
<1> QED BY <1>2, <1>3, <1>4 DEF SendStep

\* The part of a claim handler's step that is not a settlement writes nothing.
LEMMA ClaimReads ==
  ASSUME NEW r \in Requests, ClaimStep(r), ~SettleClaim(r)
  PROVE  UNCHANGED stores
BY DEF ClaimStep, LoadRedPacket, LoadTransfer, PriceRedPacket, CheckTransfer, SettleFails

\* A settlement touches one packet, which is open.
LEMMA SettleFrame ==
  ASSUME TypeOK, NEW r \in Requests, SettleClaim(r)
  PROVE  \E m \in MsgIDs :
           /\ m = req[r].msg
           /\ packet[m].status = "open"
           /\ \A n \in MsgIDs \ {m} : packet'[n] = packet[n] /\ claims'[n] = claims[n]
<1>1. req[r].msg \in MsgIDs
  BY HandlerAtWork DEF SettleClaim, Handler
<1>2. PICK p, c : /\ packet' = [packet EXCEPT ![req[r].msg] = p]
                  /\ claims' = [claims EXCEPT ![req[r].msg] = c]
  BY DEF SettleClaim
<1> QED BY <1>1, <1>2 DEF SettleClaim, Claimable, TypeOK

\* A packet that was refunded or compensated is never paid from, refunded or
\* compensated again, whatever a handler had read of it before.
THEOREM ReturnedStays == Spec => ReturnedIsFinal
<1>1. ASSUME TypeOK, PacketInv, [Next]_vars, NEW n \in MsgIDs,
             packet[n].status \in {"expired", "closed"}
      PROVE  packet'[n] = packet[n] /\ claims'[n] = claims[n]
  <2>1. ASSUME NEW m \in MsgIDs, SendStep(m) \/ Expire(m) \/ RefundOne(m)
        PROVE  packet'[n] = packet[n] /\ claims'[n] = claims[n]
    <3>1. CASE m = n
      BY <1>1, <2>1, <3>1, SendLeavesReturned, SendFrame
    <3>2. CASE m # n
      BY <1>1, <2>1, <3>2, SendFrame
    <3> QED BY <3>1, <3>2
  <2>2. ASSUME NEW r \in Requests, ClaimStep(r)
        PROVE  packet'[n] = packet[n] /\ claims'[n] = claims[n]
    <3>1. CASE SettleClaim(r)
      BY <1>1, <3>1, SettleFrame
    <3>2. CASE ~SettleClaim(r)
      BY <2>2, <3>2, ClaimReads DEF stores
    <3> QED BY <3>1, <3>2
  <2>3. CASE Crash \/ UNCHANGED vars
    BY <2>3 DEF Crash, HandlersDie, stores, vars
  <2> QED BY <1>1, <2>1, <2>2, <2>3 DEF Next
<1>2. TypeOK /\ PacketInv /\ [Next]_vars =>
        [\A m \in MsgIDs : packet[m].status \in {"expired", "closed"} =>
           packet'[m] = packet[m] /\ claims'[m] = claims[m]]_vars
  BY <1>1
<1> QED BY <1>2, Safe, PTL DEF Spec, ReturnedIsFinal

(***************************************************************************)
(* Resending does not pay twice.                                           *)
(***************************************************************************)
\* Only InsertMessage stores a document, and no document of its message is
\* there when it does.
LEMMA DocumentSend ==
  ASSUME TypeOK, NEW m \in MsgIDs, SendStep(m) \/ Expire(m) \/ RefundOne(m)
  PROVE  msg[m] = "none" /\ msg'[m] # "none" => ~Stored(m)
<1> USE DEF stores
<1>1. CASE SendLookup(m) \/ SendMoneyFreeze(m) \/ FreezeFails(m) \/ InsertFails(m)
           \/ RefundMoneyPacket(m) \/ RefundMoneyPacketFails(m) \/ Expire(m) \/ RefundOne(m)
  BY <1>1 DEF SendLookup, SendMoneyFreeze, FreezeFails, InsertFails, RefundMoneyPacket,
              RefundMoneyPacketFails, Expire, RefundOne
<1>2. CASE InsertMessage(m)
  BY <1>2 DEF InsertMessage
<1>3. CASE RecallMessage(m)
  BY <1>3 DEF RecallMessage
<1> QED BY <1>1, <1>2, <1>3 DEF SendStep

LEMMA OneSend ==
  ASSUME TypeOK, OneDocument, NEW m \in MsgIDs, SendStep(m) \/ Expire(m) \/ RefundOne(m)
  PROVE  OneDocument'
<1> SUFFICES ASSUME NEW k \in MsgIDs, NEW n \in MsgIDs, SameMessage(k, n),
                    msg'[k] # "none", msg'[n] # "none", k # n
             PROVE  FALSE
  BY DEF OneDocument, SameMessage
<1>1. SameMessage(n, k)
  BY DEF SameMessage
<1>2. CASE k = m
  <2>1. msg[n] # "none"
    BY <1>2, SendFrame
  <2>2. msg[m] = "none"
    BY <1>2, <2>1 DEF OneDocument
  <2> QED BY <1>2, <2>1, <2>2, DocumentSend DEF Stored
<1>3. CASE n = m
  <2>1. msg[k] # "none"
    BY <1>3, SendFrame
  <2>2. msg[m] = "none"
    BY <1>3, <2>1 DEF OneDocument
  <2> QED BY <1>1, <1>3, <2>1, <2>2, DocumentSend DEF Stored
<1>4. CASE k # m /\ n # m
  BY <1>4, SendFrame DEF OneDocument
<1> QED BY <1>2, <1>3, <1>4

LEMMA AttemptSend ==
  ASSUME TypeOK, PacketInv, NEW m \in MsgIDs, AttemptInv(m),
         SendStep(m) \/ Expire(m) \/ RefundOne(m)
  PROVE  AttemptInv(m)'
<1> USE DEF TypeOK, stores, SetPhase, PacketRow, Holding
<1>0. RowInv(m) /\ claims' = claims /\ packet[m] \in PacketRow
  BY SendFrame DEF PacketInv
<1>1. CASE SendLookup(m) \/ FreezeFails(m) \/ InsertFails(m) \/ RefundMoneyPacketFails(m)
  BY <1>0, <1>1 DEF AttemptInv, RowInv, SendLookup, FreezeFails, InsertFails,
                    RefundMoneyPacketFails
<1>2. CASE SendMoneyFreeze(m)
  BY <1>0, <1>2 DEF AttemptInv, SendMoneyFreeze
<1>3. CASE InsertMessage(m)
  BY <1>0, <1>3 DEF AttemptInv, InsertMessage
<1>4. CASE RefundMoneyPacket(m)
  <2>1. CASE Compensable(m)
    BY <1>0, <1>4, <2>1 DEF AttemptInv, RefundMoneyPacket
  <2>2. CASE ~Compensable(m)
    <3>1. packet' = packet /\ phase'[m] = "compensated"
      BY <1>4, <2>2 DEF RefundMoneyPacket
    <3>2. Holding(m) => claims[m] # {}
      BY <1>0, <2>2 DEF AttemptInv, RowInv, Compensable
    <3> QED BY <1>0, <3>1, <3>2 DEF AttemptInv
  <2> QED BY <2>1, <2>2
<1>5. CASE RecallMessage(m)
  BY <1>0, <1>5 DEF AttemptInv, RecallMessage
<1>6. CASE Expire(m)
  BY <1>0, <1>6 DEF AttemptInv, Expire
<1>7. CASE RefundOne(m)
  BY <1>0, <1>7 DEF AttemptInv, RefundOne, Expired
<1> QED BY <1>1, <1>2, <1>3, <1>4, <1>5, <1>6, <1>7 DEF SendStep

LEMMA ResendClaim ==
  ASSUME TypeOK, ResendInv, NEW r \in Requests, ClaimStep(r)
  PROVE  ResendInv'
<1>1. CASE ~SettleClaim(r)
  <2>1. UNCHANGED <<packet, claims, msg, phase>>
    BY <1>1, ClaimReads DEF stores, ClaimStep, LoadRedPacket, LoadTransfer, PriceRedPacket,
       CheckTransfer, SettleFails
  <2> QED BY <2>1 DEF ResendInv, OneDocument, AttemptInv, Holding
<1>2. CASE SettleClaim(r)
  <2>1. UNCHANGED <<msg, phase>>
    BY <1>2 DEF SettleClaim
  <2>2. PICK m \in MsgIDs : /\ m = req[r].msg /\ packet[m].status = "open"
                            /\ \A n \in MsgIDs \ {m} : packet'[n] = packet[n]
                                                       /\ claims'[n] = claims[n]
    BY <1>2, SettleFrame
  <2>3. claims'[m] # {}
    BY <1>2, <2>2 DEF SettleClaim, TypeOK
  <2>4. AttemptInv(m)'
    <3>1. phase[m] \notin {"replayed", "refused"}
      BY <2>2 DEF ResendInv, AttemptInv
    <3> QED BY <2>1, <2>3, <3>1 DEF ResendInv, AttemptInv
  <2>5. \A n \in MsgIDs \ {m} : AttemptInv(n)'
    BY <2>1, <2>2 DEF ResendInv, AttemptInv, Holding
  <2>6. OneDocument'
    BY <2>1 DEF ResendInv, OneDocument
  <2> QED BY <2>4, <2>5, <2>6 DEF ResendInv
<1> QED BY <1>1, <1>2

LEMMA NextResend == TypeOK /\ PacketInv /\ ResendInv /\ [Next]_vars => ResendInv'
<1> SUFFICES ASSUME TypeOK, PacketInv, ResendInv, [Next]_vars PROVE ResendInv'
  OBVIOUS
<1>1. ASSUME NEW m \in MsgIDs, SendStep(m) \/ Expire(m) \/ RefundOne(m)
      PROVE  ResendInv'
  <2>1. OneDocument'
    BY <1>1, OneSend DEF ResendInv
  <2>2. AttemptInv(m)'
    BY <1>1, AttemptSend DEF ResendInv
  <2>3. \A n \in MsgIDs \ {m} : AttemptInv(n)'
    BY <1>1, SendFrame DEF ResendInv, AttemptInv, Holding
  <2> QED BY <2>1, <2>2, <2>3 DEF ResendInv
<1>2. CASE Crash
  BY <1>2 DEF Crash, HandlersDie, stores, TypeOK, ResendInv, OneDocument, AttemptInv, Holding,
              InFlight
<1>3. CASE UNCHANGED vars
  BY <1>3 DEF vars, ResendInv, OneDocument, AttemptInv, Holding
<1> QED BY <1>1, <1>2, <1>3, ResendClaim DEF Next

\* SendMessage keeps a sender's money once for a message sent again, however
\* many of the attempts passed the idempotency lookup, unless a handler died
\* or its compensation failed.
THEOREM ResendsFreezeOnce == Spec => []ResendFreezesOnce
<1>1. Init => ResendInv
  BY DEF Init, NoPacket, ResendInv, OneDocument, AttemptInv, Holding
<1>2. TypeOK /\ PacketInv /\ ResendInv => ResendFreezesOnce
  <2> SUFFICES ASSUME TypeOK, PacketInv, ResendInv, NEW m \in MsgIDs, NEW n \in MsgIDs,
                      m # n, SameMessage(m, n), Holding(m), Holding(n),
                      \A k \in {m, n} : phase[k] \notin InFlight \cup {"dead", "unanswered", "uncompensated"}
               PROVE  FALSE
    BY DEF ResendFreezesOnce
  <2>1. \A k \in {m, n} : phase[k] \in {"sent", "compensated"}
    BY DEF TypeOK, Phases, InFlight, Holding, PacketInv, RowInv, ResendInv, AttemptInv
  <2>2. \A k \in {m, n} : msg[k] # "none"
    BY <2>1 DEF PacketInv, RowInv, ResendInv, AttemptInv
  <2> QED BY <2>2 DEF ResendInv, OneDocument
<1> QED BY <1>1, <1>2, NextResend, Safe, PTL DEF Spec

(***************************************************************************)
(* The packets implement Escrow.                                           *)
(***************************************************************************)
\* A step that changes one packet changes one escrow.
LEMMA AbsFrame ==
  ASSUME NEW m \in MsgIDs, \A n \in MsgIDs \ {m} : packet'[n] = packet[n]
  PROVE  /\ AbsHeld' = [AbsHeld EXCEPT ![m] = AbsHeld'[m]]
         /\ AbsLife' = [AbsLife EXCEPT ![m] = AbsLife'[m]]
BY DEF AbsHeld, AbsLife, Holding, Remain

LEMMA AbsStutter ==
  ASSUME bal' = bal,
         \A n \in MsgIDs : /\ packet'[n].status = packet[n].status
                           /\ packet'[n].claimed = packet[n].claimed
  PROVE  UNCHANGED E!evars
BY DEF E!evars, AbsHeld, AbsLife, Holding, Remain

LEMMA FundStep ==
  ASSUME TypeOK, PacketInv, NEW m \in MsgIDs, SendMoneyFreeze(m)
  PROVE  E!Fund(m)
<1>0. Sender(m) \in Users /\ Total(m) \in Nat
  BY Worth
<1>1. packet[m].status = "absent" /\ packet[m].claimed = 0
  BY DEF SendMoneyFreeze, PacketInv, RowInv
<1>2. packet' = [packet EXCEPT ![m].status = "open"]
  BY DEF SendMoneyFreeze
<1>3. \A n \in MsgIDs \ {m} : packet'[n] = packet[n]
  BY <1>2 DEF TypeOK
<1>4. packet'[m].status = "open" /\ packet'[m].claimed = 0
  BY <1>1, <1>2 DEF TypeOK, PacketRow
<1>5. AbsLife[m] = "unfunded" /\ AbsLife'[m] = "holding" /\ AbsHeld'[m] = Total(m)
  BY <1>0, <1>1, <1>4 DEF AbsLife, AbsHeld, Holding, Remain
<1>6. bal[Sender(m)] >= Total(m) /\ bal' = [bal EXCEPT ![Sender(m)] = @ - Total(m)]
  <2>1. \A t \in Nat, b \in Nat : /\ b + (-t) >= 0 => b >= t
                                   /\ b + (-t) = b - t
    OBVIOUS
  <2>2. bal[Sender(m)] \in Nat
    BY <1>0 DEF TypeOK, WalletType
  <2>3. bal[Sender(m)] + (-Total(m)) >= 0
        /\ bal' = [bal EXCEPT ![Sender(m)] = bal[Sender(m)] + (-Total(m))]
    BY DEF SendMoneyFreeze, MutateUser, CanMutate
  <2> QED BY <1>0, <2>1, <2>2, <2>3
<1> QED BY <1>3, <1>5, <1>6, AbsFrame DEF E!Fund

LEMMA GiveBackStep ==
  ASSUME TypeOK, PacketInv, NEW m \in MsgIDs, packet[m].status = "open",
         NEW st \in {"closed", "expired"},
         packet' = [packet EXCEPT ![m].status = st],
         bal' = [bal EXCEPT ![Sender(m)] = @ + Remain(m)]
  PROVE  E!GiveBack(m)
<1>1. \A n \in MsgIDs \ {m} : packet'[n] = packet[n]
  BY DEF TypeOK
<1>2. packet'[m].status = st
  BY DEF TypeOK, PacketRow
<1>3. /\ AbsLife[m] = "holding" /\ AbsLife'[m] = "returned"
      /\ AbsHeld[m] = Remain(m) /\ AbsHeld'[m] = 0
  BY <1>2 DEF AbsLife, AbsHeld, Holding
<1> QED BY <1>1, <1>3, AbsFrame DEF E!GiveBack

LEMMA PayStep ==
  ASSUME TypeOK, PacketInv, NEW r \in Requests, SettleClaim(r)
  PROVE  E!EscrowNext
<1>0. req[r] \in Handler /\ req[r].phase = "priced"
  BY HandlerAtWork DEF SettleClaim
<1>1. PICK m \in MsgIDs, u \in Users : m = req[r].msg /\ u = req[r].user
  BY <1>0 DEF Handler
<1>2. PICK a \in Int : a = SettleAmount(m, req[r].amt) /\ a \in 1..Remain(m)
                       /\ Remain(m) \in Nat
  <2>1. Claimable(m) /\ req[r].amt \in Nat /\ req[r].amt >= 1
    BY <1>0, <1>1 DEF SettleClaim, PacketInv, HandlerInv, Handler
  <2> QED BY <2>1, ShareBounds
<1>3. /\ packet' = [packet EXCEPT ![m] = SettledRow(m, packet[m].claimed + a, packet[m].cnt + 1)]
      /\ bal' = [bal EXCEPT ![u] = @ + a]
      /\ packet[m].status = "open"
  BY <1>1, <1>2 DEF SettleClaim, Settle, Credit, Claimable
<1>4. \A n \in MsgIDs \ {m} : packet'[n] = packet[n]
  BY <1>3 DEF TypeOK
<1>5. packet[m] \in PacketRow /\ Total(m) \in Nat
  BY Worth DEF TypeOK
<1>6. /\ packet'[m].status \in {"open", "finished"}
      /\ packet'[m].claimed = packet[m].claimed + a
  BY <1>3, <1>5 DEF TypeOK, SettledRow, PacketRow
<1>7. /\ AbsLife[m] = "holding" /\ AbsLife'[m] = "holding"
      /\ AbsHeld[m] = Remain(m) /\ AbsHeld'[m] = Remain(m) - a
  BY <1>3, <1>5, <1>6 DEF AbsLife, AbsHeld, Holding, Remain, PacketRow
<1>8. AbsLife' = AbsLife
  BY <1>4, <1>7 DEF AbsLife, Holding
<1>9. E!Pay(m, u, a)
  BY <1>2, <1>3, <1>4, <1>7, <1>8, AbsFrame DEF E!Pay
<1> QED BY <1>2, <1>7, <1>9 DEF E!EscrowNext

\* The packets, with the frozen money as what the escrows hold, do nothing but
\* fund an escrow, pay from it and give back what is left, once.
THEOREM PacketsAreEscrows == Spec => ImplementsEscrow
<1>1. Init => E!EscrowInit
  BY Worth DEF Init, WalletInit, NoPacket, E!EscrowInit, AbsHeld, AbsLife, Holding
<1>2. ASSUME TypeOK, PacketInv, [Next]_vars
      PROVE  [E!EscrowNext]_(E!evars)
  <2>1. ASSUME NEW m \in MsgIDs, SendStep(m) \/ Expire(m) \/ RefundOne(m)
        PROVE  [E!EscrowNext]_(E!evars)
    <3>0. Sender(m) \in Users /\ Total(m) \in Nat /\ packet[m] \in PacketRow
      BY <1>2, Worth DEF TypeOK
    <3>1. CASE SendMoneyFreeze(m)
      BY <1>2, <3>1, FundStep DEF E!EscrowNext
    <3>2. CASE RefundMoneyPacket(m) /\ Compensable(m)
      <4>1. packet[m].status = "open" /\ Remain(m) = Total(m)
        BY <3>0, <3>2 DEF Compensable, Remain
      <4>2. packet' = [packet EXCEPT ![m].status = "closed"]
            /\ bal' = [bal EXCEPT ![Sender(m)] = @ + Total(m)]
        BY <3>2 DEF RefundMoneyPacket, MutateUser
      <4> QED BY <1>2, <4>1, <4>2, GiveBackStep DEF E!EscrowNext
    <3>3. CASE RefundOne(m)
      <4>1. packet[m].status = "open"
            /\ packet' = [packet EXCEPT ![m].status = "expired"]
            /\ bal' = [bal EXCEPT ![Sender(m)] = @ + Remain(m)]
        BY <3>3 DEF RefundOne, Expired, MutateUser, Refundable, Remain
      <4> QED BY <1>2, <4>1, GiveBackStep DEF E!EscrowNext
    <3>4. CASE Expire(m)
      BY <1>2, <3>0, <3>4, AbsStutter DEF Expire, TypeOK, PacketRow
    <3>5. CASE ~SendMoneyFreeze(m) /\ ~(RefundMoneyPacket(m) /\ Compensable(m))
               /\ ~RefundOne(m) /\ ~Expire(m)
      <4>1. UNCHANGED <<bal, packet>>
        BY <2>1, <3>5 DEF SendStep, SendLookup, FreezeFails, InsertMessage, InsertFails,
             RefundMoneyPacket, RefundMoneyPacketFails, RecallMessage, stores
      <4> QED BY <4>1, AbsStutter
    <3> QED BY <3>1, <3>2, <3>3, <3>4, <3>5
  <2>2. ASSUME NEW r \in Requests, ClaimStep(r)
        PROVE  [E!EscrowNext]_(E!evars)
    <3>1. CASE ~SettleClaim(r)
      BY <2>2, <3>1, ClaimReads, AbsStutter DEF stores
    <3> QED BY <1>2, <3>1, PayStep
  <2>3. CASE Crash \/ UNCHANGED vars
    BY <2>3, AbsStutter DEF Crash, HandlersDie, stores, vars
  <2> QED BY <1>2, <2>1, <2>2, <2>3 DEF Next
<1> QED BY <1>1, <1>2, Safe, PTL DEF Spec, ImplementsEscrow, E!EscrowSpec

(***************************************************************************)
(* Sums: the money in the wallets, the packets and the claim rows.         *)
(***************************************************************************)
\* mutateUser and SettleClaim move d from one user's balance to another's, or
\* the same user's, frozen money.
LEMMA AssetsMove ==
  ASSUME WalletType, WalletType', NEW u \in Users, NEW v \in Users, NEW d \in Int,
         bal'[u] = bal[u] - d, \A y \in Users \ {u} : bal'[y] = bal[y],
         frz'[v] = frz[v] + d, \A y \in Users \ {v} : frz'[y] = frz[y]
  PROVE  Assets' = Assets
<1>0. IsFiniteSet(Users)
  BY FiniteUsers
<1>1. /\ bal \in [Users -> Int] /\ bal' \in [Users -> Int]
      /\ frz \in [Users -> Int] /\ frz' \in [Users -> Int]
  BY DEF WalletType
<1>2. SumFunction(bal) \in Int /\ SumFunction(bal') = SumFunction(bal) + (-d)
  <2>1. -d \in Int /\ bal'[u] = bal[u] + (-d)
    BY <1>1
  <2> QED BY <1>0, <1>1, <2>1, SumMoves
<1>3. SumFunction(frz) \in Int /\ SumFunction(frz') = SumFunction(frz) + d
  BY <1>0, <1>1, SumMoves
<1> QED BY <1>2, <1>3 DEF Assets

\* The step moves d cents between a balance and the frozen money of the sender
\* of m, and the packet of m holds d cents more.
Moves(m, u, d) ==
  /\ bal' = [bal EXCEPT ![u] = @ - d]
  /\ frz' = [frz EXCEPT ![Sender(m)] = @ + d]
  /\ AbsHeld' = [AbsHeld EXCEPT ![m] = @ + d]

LEMMA SendMoves ==
  ASSUME TypeOK, PacketInv, NEW m \in MsgIDs, SendStep(m) \/ Expire(m) \/ RefundOne(m)
  PROVE  UNCHANGED <<bal, frz, AbsHeld>> \/ \E u \in Users, d \in Int : Moves(m, u, d)
<1>0. /\ Sender(m) \in Users /\ Total(m) \in Nat /\ packet[m] \in PacketRow
      /\ Remain(m) \in Int /\ bal[Sender(m)] \in Int /\ frz[Sender(m)] \in Int
  BY Worth DEF TypeOK, WalletType, PacketRow, Remain
<1>1. \A n \in MsgIDs \ {m} : AbsHeld'[n] = AbsHeld[n]
  BY SendFrame DEF AbsHeld, Holding, Remain
<1>2. AbsHeld' = [AbsHeld EXCEPT ![m] = AbsHeld'[m]] /\ AbsHeld[m] \in Int
  <2>1. AbsHeld' = [AbsHeld EXCEPT ![m] = AbsHeld'[m]]
    <3>1. \A n \in MsgIDs \ {m} : packet'[n] = packet[n]
      BY SendFrame
    <3> QED BY <3>1, AbsFrame
  <2>2. AbsHeld[m] \in Int
    BY <1>0 DEF AbsHeld
  <2> QED BY <2>1, <2>2
<1>3. ASSUME NEW t \in Int, bal' = [bal EXCEPT ![Sender(m)] = @ + (-t)],
             frz' = [frz EXCEPT ![Sender(m)] = @ + t], AbsHeld'[m] = AbsHeld[m] + t
      PROVE  Moves(m, Sender(m), t)
  BY <1>0, <1>2, <1>3 DEF Moves
<1>4. CASE SendMoneyFreeze(m)
  <2>1. bal' = [bal EXCEPT ![Sender(m)] = @ + (-Total(m))]
        /\ frz' = [frz EXCEPT ![Sender(m)] = @ + Total(m)]
    BY <1>4 DEF SendMoneyFreeze, MutateUser
  <2>2. packet[m].status = "absent" /\ packet[m].claimed = 0
    BY <1>4 DEF SendMoneyFreeze, PacketInv, RowInv
  <2>3. packet'[m].status = "open" /\ packet'[m].claimed = 0
    BY <1>4, <1>0, <2>2 DEF SendMoneyFreeze, TypeOK, PacketRow
  <2>4. AbsHeld'[m] = AbsHeld[m] + Total(m)
    BY <1>0, <2>2, <2>3 DEF AbsHeld, Holding, Remain
  <2>5. Total(m) \in Int
    BY <1>0
  <2> QED BY <1>0, <1>3, <2>1, <2>4, <2>5, Zenon
<1>5. CASE RefundMoneyPacket(m) /\ Compensable(m)
  <2>1. bal' = [bal EXCEPT ![Sender(m)] = @ + Total(m)]
        /\ frz' = [frz EXCEPT ![Sender(m)] = @ + (-Total(m))]
    BY <1>5 DEF RefundMoneyPacket, MutateUser
  <2>2. packet'[m].status = "closed"
    BY <1>5, <1>0 DEF RefundMoneyPacket, TypeOK, PacketRow
  <2>3. AbsHeld'[m] = AbsHeld[m] + (-Total(m))
    BY <1>5, <1>0, <2>2 DEF AbsHeld, Holding, Remain, Compensable
  <2>4. -Total(m) \in Int /\ -(-Total(m)) = Total(m)
    BY <1>0
  <2> QED BY <1>0, <1>3, <2>1, <2>3, <2>4
<1>6. CASE RefundOne(m)
  <2>1. bal' = [bal EXCEPT ![Sender(m)] = @ + Remain(m)]
        /\ frz' = [frz EXCEPT ![Sender(m)] = @ + (-Remain(m))]
    BY <1>6 DEF RefundOne, MutateUser, Refundable, Remain
  <2>2. packet'[m].status = "expired" /\ packet[m].status = "open"
    BY <1>6, <1>0 DEF RefundOne, Expired, TypeOK, PacketRow
  <2>3. AbsHeld'[m] = AbsHeld[m] + (-Remain(m))
    BY <1>0, <2>2 DEF AbsHeld, Holding
  <2>4. -Remain(m) \in Int /\ -(-Remain(m)) = Remain(m)
    BY <1>0
  <2> QED BY <1>0, <1>3, <2>1, <2>3, <2>4
<1>7. CASE Expire(m)
  <2>1. UNCHANGED <<bal, frz>>
    BY <1>7 DEF Expire
  <2>2. packet'[m].status = packet[m].status /\ packet'[m].claimed = packet[m].claimed
    BY <1>7, <1>0 DEF Expire, TypeOK, PacketRow
  <2> QED BY <1>2, <2>1, <2>2 DEF AbsHeld, Holding, Remain
<1>8. CASE ~SendMoneyFreeze(m) /\ ~(RefundMoneyPacket(m) /\ Compensable(m))
           /\ ~RefundOne(m) /\ ~Expire(m)
  <2>1. UNCHANGED <<bal, frz, packet>>
    BY <1>8 DEF SendStep, SendLookup, FreezeFails, InsertMessage, InsertFails,
         RefundMoneyPacket, RefundMoneyPacketFails, RecallMessage, stores
  <2> QED BY <2>1 DEF AbsHeld, Holding, Remain
<1> QED BY <1>4, <1>5, <1>6, <1>7, <1>8

\* What a settlement writes: a cents, at least one and at most what is left.
LEMMA SettleWrites ==
  ASSUME TypeOK, PacketInv, NEW r \in Requests, SettleClaim(r)
  PROVE  \E m \in MsgIDs, u \in Users, a \in Nat :
           /\ bal' = [bal EXCEPT ![u] = @ + a]
           /\ frz' = [frz EXCEPT ![Sender(m)] = @ - a]
           /\ packet[m].status = "open"
           /\ packet' = [packet EXCEPT ![m] = SettledRow(m, packet[m].claimed + a, packet[m].cnt + 1)]
           /\ packet'[m].status \in {"open", "finished"}
           /\ packet'[m].claimed = packet[m].claimed + a
           /\ packet'[m].cnt = packet[m].cnt + 1
           /\ claims' = [claims EXCEPT ![m] =
                           @ \cup {[user |-> u, amount |-> a, seq |-> packet[m].cnt + 1]}]
<1>0. req[r] \in Handler /\ req[r].phase = "priced"
  BY HandlerAtWork DEF SettleClaim
<1>1. PICK m \in MsgIDs, u \in Users : m = req[r].msg /\ u = req[r].user
  BY <1>0 DEF Handler
<1>2. PICK a \in Nat : a = SettleAmount(m, req[r].amt)
  <2>1. Claimable(m) /\ req[r].amt \in Nat /\ req[r].amt >= 1
    BY <1>0, <1>1 DEF SettleClaim, PacketInv, HandlerInv, Handler
  <2> QED BY <2>1, ShareBounds
<1>3. /\ bal' = [bal EXCEPT ![u] = @ + a]
      /\ frz' = [frz EXCEPT ![Sender(m)] = @ - a]
      /\ packet[m].status = "open"
      /\ packet' = [packet EXCEPT ![m] = SettledRow(m, packet[m].claimed + a, packet[m].cnt + 1)]
      /\ claims' = [claims EXCEPT ![m] =
                      @ \cup {[user |-> u, amount |-> a, seq |-> packet[m].cnt + 1]}]
  BY <1>1, <1>2 DEF SettleClaim, Settle, Credit, Claimable
<1>4. packet[m] \in PacketRow
  BY DEF TypeOK
<1>5. /\ packet'[m].status \in {"open", "finished"}
      /\ packet'[m].claimed = packet[m].claimed + a
      /\ packet'[m].cnt = packet[m].cnt + 1
  BY <1>3, <1>4 DEF TypeOK, SettledRow, PacketRow
<1> QED BY <1>3, <1>5

LEMMA ClaimMoves ==
  ASSUME TypeOK, PacketInv, NEW r \in Requests, ClaimStep(r)
  PROVE  UNCHANGED <<bal, frz, AbsHeld>> \/
         \E m \in MsgIDs, u \in Users, d \in Int : Moves(m, u, d)
<1>1. CASE ~SettleClaim(r)
  BY <1>1, ClaimReads DEF stores, AbsHeld, Holding, Remain
<1>2. CASE SettleClaim(r)
  <2>1. PICK m \in MsgIDs, u \in Users, a \in Nat :
           /\ bal' = [bal EXCEPT ![u] = @ + a]
           /\ frz' = [frz EXCEPT ![Sender(m)] = @ - a]
           /\ packet[m].status = "open"
           /\ packet' = [packet EXCEPT ![m] = SettledRow(m, packet[m].claimed + a, packet[m].cnt + 1)]
           /\ packet'[m].status \in {"open", "finished"}
           /\ packet'[m].claimed = packet[m].claimed + a
    BY <1>2, SettleWrites
  <2>2. /\ Sender(m) \in Users /\ Total(m) \in Nat /\ packet[m] \in PacketRow
        /\ bal[u] \in Int /\ frz[Sender(m)] \in Int
    BY Worth DEF TypeOK, WalletType
  <2>3. \A n \in MsgIDs \ {m} : packet'[n] = packet[n]
    BY <2>1 DEF TypeOK
  <2>4. AbsHeld'[m] = AbsHeld[m] + (-a)
    BY <2>1, <2>2 DEF AbsHeld, Holding, Remain, PacketRow
  <2>5. AbsHeld' = [AbsHeld EXCEPT ![m] = @ + (-a)]
    BY <2>3, <2>4 DEF AbsHeld, Holding, Remain
  <2>6. bal[u] + a = bal[u] - (-a) /\ frz[Sender(m)] - a = frz[Sender(m)] + (-a) /\ -a \in Int
    BY <2>2
  <2>7. Moves(m, u, -a)
    BY <2>1, <2>5, <2>6 DEF Moves
  <2> QED BY <2>6, <2>7
<1> QED BY <1>1, <1>2

\* The frozen money of a user and what the user's packets hold move together.
LEMMA HeldFollows ==
  ASSUME WalletType, \A n \in MsgIDs : AbsHeld[n] \in Int, WalletType',
         NEW m \in MsgIDs, NEW u \in Users, NEW d \in Int, Moves(m, u, d)
  PROVE  /\ Assets' = Assets
         /\ \A v \in Users : HeldBy(v)' = HeldBy(v) + (frz'[v] - frz[v])
<1>1. Sender(m) \in Users
  BY Worth
<1>2. Assets' = Assets
  <2>1. /\ bal'[u] = bal[u] - d /\ \A y \in Users \ {u} : bal'[y] = bal[y]
        /\ frz'[Sender(m)] = frz[Sender(m)] + d
        /\ \A y \in Users \ {Sender(m)} : frz'[y] = frz[y]
    BY <1>1 DEF Moves, WalletType
  <2> QED BY <1>1, <2>1, AssetsMove
<1>3. ASSUME NEW v \in Users PROVE HeldBy(v)' = HeldBy(v) + (frz'[v] - frz[v])
  <2> DEFINE S == {n \in MsgIDs : Sender(n) = v}
  <2>1. IsFiniteSet(S)
    BY FiniteMessages, FS_Subset
  <2>2. HeldBy(v) = SumFunctionOnSet(AbsHeld, S) /\ HeldBy(v)' = SumFunctionOnSet(AbsHeld', S)
    BY DEF HeldBy, Sender
  <2>3. \A n \in MsgIDs : AbsHeld'[n] = (IF n = m THEN AbsHeld[n] + d ELSE AbsHeld[n])
    BY DEF Moves, AbsHeld
  <2>4. SumFunctionOnSet(AbsHeld, S) \in Int /\ frz[v] \in Int
    BY <2>1, SumType DEF WalletType
  <2>5. CASE Sender(m) = v
    <3>1. m \in S /\ \A n \in S : AbsHeld[n] \in Int /\ AbsHeld'[n] \in Int
      BY <2>3, <2>5
    <3>2. \A n \in S \ {m} : AbsHeld'[n] = AbsHeld[n]
      BY <2>3
    <3>3. SumFunctionOnSet(AbsHeld', S) = SumFunctionOnSet(AbsHeld, S) + (AbsHeld'[m] - AbsHeld[m])
      BY <2>1, <3>1, <3>2, SumChange
    <3>4. AbsHeld'[m] - AbsHeld[m] = d /\ frz'[v] - frz[v] = d
      BY <2>3, <2>4, <2>5 DEF Moves, WalletType
    <3> QED BY <2>2, <2>4, <3>3, <3>4
  <2>6. CASE Sender(m) # v
    <3>1. \A n \in S : AbsHeld'[n] = AbsHeld[n]
      BY <2>3, <2>6
    <3>2. SumFunctionOnSet(AbsHeld', S) = SumFunctionOnSet(AbsHeld, S)
      BY <2>1, <3>1, SumSame
    <3>3. frz'[v] = frz[v]
      BY <2>6 DEF Moves, WalletType
    <3> QED BY <2>2, <2>4, <3>2, <3>3
  <2> QED BY <2>5, <2>6
<1> QED BY <1>2, <1>3

LEMMA HeldType ==
  ASSUME TypeOK, PacketInv
  PROVE  \A m \in MsgIDs : AbsHeld[m] \in Nat
<1> SUFFICES ASSUME NEW m \in MsgIDs PROVE AbsHeld[m] \in Nat
  OBVIOUS
<1>1. packet[m] \in PacketRow /\ Total(m) \in Nat /\ packet[m].claimed <= Total(m)
  BY Worth DEF TypeOK, PacketInv, RowInv
<1> QED BY <1>1 DEF AbsHeld, Remain, PacketRow

LEMMA HeldByType ==
  ASSUME TypeOK, PacketInv, NEW u \in Users
  PROVE  /\ HeldBy(u) \in Nat
         /\ \A m \in MsgIDs : Sender(m) = u => AbsHeld[m] <= HeldBy(u)
<1> DEFINE S == {n \in MsgIDs : Sender(n) = u}
<1>1. IsFiniteSet(S) /\ \A n \in S : AbsHeld[n] \in Nat
  BY FiniteMessages, FS_Subset, HeldType
<1>2. HeldBy(u) = SumFunctionOnSet(AbsHeld, S)
  BY DEF HeldBy
<1>3. SumFunctionOnSet(AbsHeld, S) \in Nat
  BY <1>1, SumType
<1>4. \A m \in S : SumFunctionOnSet(AbsHeld, S) >= AbsHeld[m]
  BY <1>1, SumAtLeast
<1>5. \A m \in S : AbsHeld[m] <= SumFunctionOnSet(AbsHeld, S)
  BY <1>1, <1>3, <1>4
<1> QED BY <1>2, <1>3, <1>5

\* Every step of the packets keeps what all users own together, and changes a
\* user's frozen money by as much as what the user's packets hold.
LEMMA PacketStepMoves ==
  ASSUME TypeOK, PacketInv, TypeOK',
         \/ \E m \in MsgIDs : SendStep(m) \/ Expire(m) \/ RefundOne(m)
         \/ \E r \in Requests : ClaimStep(r)
  PROVE  /\ Assets' = Assets
         /\ \A v \in Users : HeldBy(v)' = HeldBy(v) + (frz'[v] - frz[v])
<1>1. CASE UNCHANGED <<bal, frz, AbsHeld>>
  <2>1. Assets' = Assets
    BY <1>1 DEF Assets
  <2>2. \A v \in Users : HeldBy(v)' = HeldBy(v)
    BY <1>1 DEF HeldBy, Sender
  <2>3. \A v \in Users : HeldBy(v) \in Int /\ frz[v] \in Int
    BY HeldByType DEF TypeOK, WalletType
  <2> QED BY <1>1, <2>1, <2>2, <2>3
<1>2. ASSUME NEW m \in MsgIDs, NEW u \in Users, NEW d \in Int, Moves(m, u, d)
      PROVE  /\ Assets' = Assets
             /\ \A v \in Users : HeldBy(v)' = HeldBy(v) + (frz'[v] - frz[v])
  <2>1. \A n \in MsgIDs : AbsHeld[n] \in Int
    BY HeldType
  <2> QED BY <1>2, <2>1, HeldFollows DEF TypeOK
<1> QED BY <1>1, <1>2, SendMoves, ClaimMoves

\* The first half of FrozenBacksPackets.
FrozenIsHeld == \A u \in Users : frz[u] = HeldBy(u)

\* Nobody has frozen anything, and no packet holds anything, at the start.
LEMMA InitMoney == Init => MoneyConserved /\ FrozenIsHeld
<1> SUFFICES ASSUME Init PROVE MoneyConserved /\ FrozenIsHeld
  OBVIOUS
<1>1. MoneyConserved
  <2>1. bal = InitBalance /\ frz = [u \in Users |-> 0]
    BY DEF Init, WalletInit
  <2>2. SumFunction(frz) = SumFunctionOnSet(frz, Users)
    BY <2>1 DEF SumFunction
  <2>3. \A u \in Users : frz[u] = 0
    BY <2>1
  <2>4. SumFunction(frz) = 0
    BY <2>2, <2>3, FiniteUsers, SumType
  <2>5. SumFunction(bal) \in Int
    <3>1. SumFunction(bal) = SumFunctionOnSet(bal, Users) /\ \A u \in Users : bal[u] \in Int
      BY <2>1 DEF SumFunction
    <3> QED BY <3>1, FiniteUsers, SumType
  <2> QED BY <2>1, <2>4, <2>5 DEF MoneyConserved, Assets
<1>2. ASSUME NEW u \in Users PROVE frz[u] = HeldBy(u)
  <2> DEFINE S == {n \in MsgIDs : Sender(n) = u}
  <2>1. IsFiniteSet(S)
    BY FiniteMessages, FS_Subset
  <2>2. \A n \in S : AbsHeld[n] = 0
    BY DEF Init, NoPacket, AbsHeld, Holding
  <2>3. HeldBy(u) = SumFunctionOnSet(AbsHeld, S)
    BY DEF HeldBy
  <2>4. HeldBy(u) = 0
    BY <2>1, <2>2, <2>3, SumType
  <2> QED BY <2>4 DEF Init, WalletInit
<1> QED BY <1>1, <1>2 DEF FrozenIsHeld

LEMMA NextMoney ==
  TypeOK /\ PacketInv /\ MoneyConserved /\ FrozenIsHeld /\ [Next]_vars
    => MoneyConserved' /\ FrozenIsHeld'
<1> SUFFICES ASSUME TypeOK, PacketInv, MoneyConserved, FrozenIsHeld, [Next]_vars
             PROVE  MoneyConserved' /\ FrozenIsHeld'
  OBVIOUS
<1>1. TypeOK' /\ PacketInv'
  BY NextSafe
<1>2. SUFFICES /\ Assets' = Assets
               /\ \A v \in Users : HeldBy(v)' = HeldBy(v) + (frz'[v] - frz[v])
  <2>1. MoneyConserved'
    BY <1>2 DEF MoneyConserved
  <2>2. ASSUME NEW v \in Users PROVE frz'[v] = HeldBy(v)'
    <3>1. frz[v] \in Int /\ frz'[v] \in Int
      BY <1>1 DEF TypeOK, WalletType
    <3>2. frz[v] = HeldBy(v)
      BY DEF FrozenIsHeld
    <3> QED BY <1>2, <3>1, <3>2
  <2> QED BY <2>1, <2>2 DEF FrozenIsHeld
<1>3. CASE \/ \E m \in MsgIDs : SendStep(m) \/ Expire(m) \/ RefundOne(m)
           \/ \E r \in Requests : ClaimStep(r)
  BY <1>1, <1>3, PacketStepMoves
<1>4. CASE Crash \/ UNCHANGED vars
  <2>1. UNCHANGED <<bal, frz, packet>>
    BY <1>4 DEF Crash, HandlersDie, stores, vars
  <2>2. AbsHeld' = AbsHeld
    BY <2>1 DEF AbsHeld, Holding, Remain
  <2>3. Assets' = Assets
    BY <2>1 DEF Assets
  <2>4. \A v \in Users : HeldBy(v)' = HeldBy(v)
    BY <2>2 DEF HeldBy, Sender
  <2>5. \A v \in Users : HeldBy(v) \in Int /\ frz[v] \in Int
    BY HeldByType DEF TypeOK, WalletType
  <2> QED BY <2>1, <2>3, <2>4, <2>5
<1> QED BY <1>3, <1>4 DEF Next

\* Money is neither made nor lost: whatever SendMoneyFreeze, SettleClaim,
\* RefundMoneyPacket and the expiry worker do side by side, and wherever the
\* server dies, what all users own together stays what it was.
THEOREM MoneyIsConserved == Spec => []MoneyConserved
BY InitSafe, NextSafe, InitMoney, NextMoney, PTL DEF Spec

-----------------------------------------------------------------------------
(* What packets leave over.                                                *)

LEMMA Products ==
  ASSUME NEW x \in Nat \ {0}, NEW n \in Nat, NEW k \in Nat, k < n
  PROVE  /\ x <= x * n - x * k
         /\ x * (k + 1) = x * k + x
         /\ x * k \in Nat /\ x * n \in Nat
<1>1. /\ x * (k + 1) = x * k + x /\ x * k \in Nat /\ x * n \in Nat
      /\ x * n = x * k + x * (n - k)
  OBVIOUS
<1>2. PICK d \in Nat : n - k = d + 1
  <2>1. n - k - 1 \in Nat /\ n - k = (n - k - 1) + 1
    OBVIOUS
  <2> QED BY <2>1
<1>3. x * (d + 1) = x * d + x /\ x * d \in Nat
  OBVIOUS
<1> QED BY <1>1, <1>2, <1>3

\* Steps of the sender, the clock and the worker count nothing and finish nothing.
LEMMA SendCountsNothing ==
  ASSUME TypeOK, NEW m \in MsgIDs, SendStep(m) \/ Expire(m) \/ RefundOne(m), NEW n \in MsgIDs
  PROVE  /\ packet'[n].claimed = packet[n].claimed /\ packet'[n].cnt = packet[n].cnt
         /\ packet'[n].status = "finished" => packet[n].status = "finished"
<1> USE DEF TypeOK, PacketRow, stores
<1>1. CASE SendLookup(m) \/ FreezeFails(m) \/ InsertMessage(m) \/ InsertFails(m)
           \/ RefundMoneyPacketFails(m) \/ RecallMessage(m)
  BY <1>1 DEF SendLookup, FreezeFails, InsertMessage, InsertFails, RefundMoneyPacketFails,
              RecallMessage
<1>2. CASE SendMoneyFreeze(m)
  BY <1>2 DEF SendMoneyFreeze
<1>3. CASE RefundMoneyPacket(m)
  <2>1. packet' = [packet EXCEPT ![m].status = "closed"] \/ packet' = packet
    BY <1>3 DEF RefundMoneyPacket
  <2> QED BY <2>1
<1>4. CASE Expire(m)
  BY <1>4 DEF Expire
<1>5. CASE RefundOne(m)
  BY <1>5 DEF RefundOne
<1> QED BY <1>1, <1>2, <1>3, <1>4, <1>5 DEF SendStep

\* A step that counts and finishes nothing, and asks for no new amount.
LEMMA RestStays ==
  ASSUME RestInv,
         \A n \in MsgIDs :
           /\ packet'[n].claimed = packet[n].claimed /\ packet'[n].cnt = packet[n].cnt
           /\ packet'[n].status = "finished" => packet[n].status = "finished",
         \A r \in Requests : req'[r].phase = "priced" /\ EqualShares(req'[r].msg) =>
           req'[r].amt = Content[req'[r].msg].amount
  PROVE  RestInv'
BY DEF RestInv, EqualShares, Remain, AllTaken

LEMMA RestSettle ==
  ASSUME TypeOK, PacketInv, RestInv, NEW r \in Requests, SettleClaim(r)
  PROVE  RestInv'
<1>0. req[r] \in Handler /\ req[r].phase = "priced"
  BY HandlerAtWork DEF SettleClaim
<1>1. PICK m \in MsgIDs : m = req[r].msg
  BY <1>0 DEF Handler
<1>2. /\ req[r].amt \in Nat /\ packet[m] \in PacketRow
      /\ HandlerInv(r) /\ RowInv(m) /\ Claimable(m)
  BY <1>0, <1>1 DEF Handler, TypeOK, PacketInv, SettleClaim
<1>3. PICK a : a = SettleAmount(m, req[r].amt)
  OBVIOUS
<1>4. /\ a \in 1..Remain(m) /\ Remain(m) \in Nat
      /\ req[r].amt >= Remain(m) => a = Remain(m)
      /\ req[r].amt <= Remain(m) => a = req[r].amt
  BY <1>0, <1>1, <1>2, <1>3, ShareBounds DEF HandlerInv, SettleAmount
<1>5. /\ packet' = [packet EXCEPT ![m] = SettledRow(m, packet[m].claimed + a, packet[m].cnt + 1)]
      /\ req' = [req EXCEPT ![r] = Idle]
  BY <1>1, <1>3 DEF SettleClaim, Settle, SetReq
<1>6. /\ \A n \in MsgIDs \ {m} : packet'[n] = packet[n]
      /\ packet'[m].claimed = packet[m].claimed + a /\ packet'[m].cnt = packet[m].cnt + 1
      /\ packet'[m].status = IF packet[m].cnt + 1 >= ShareCount(m)
                                \/ Total(m) - (packet[m].claimed + a) < 1
                             THEN "finished" ELSE "open"
  BY <1>2, <1>5 DEF TypeOK, SettledRow, PacketRow
<1>7. /\ ShareCount(m) \in Nat \ {0} /\ Total(m) \in Nat /\ a \in Nat
      /\ packet[m].cnt < ShareCount(m) /\ packet[m].cnt \in Nat /\ packet[m].claimed \in Nat
  BY <1>2, <1>4, Worth DEF Claimable, PacketRow
<1>8. Remain(m) = Total(m) - packet[m].claimed /\ Remain(m)' = Total(m) - packet'[m].claimed
  BY DEF Remain, Total, ShareCount, IsTransfer
<1>9. /\ Remain(m)' = Remain(m) - a /\ Remain(m)' \in Nat
      /\ packet'[m].status = "finished" /\ Remain(m)' # 0 => packet'[m].cnt = ShareCount(m)
  BY <1>4, <1>6, <1>7, <1>8
<1>10. /\ EqualShares(m) => packet'[m].claimed = Content[m].amount * packet'[m].cnt
       /\ packet'[m].status = "finished" /\ Remain(m)' # 0 => AllTaken(m)'
  <2>1. CASE EqualShares(m)
    <3>1. PICK x \in Nat \ {0}, n \in Nat, k \in Nat :
             x = Content[m].amount /\ n = ShareCount(m) /\ k = packet[m].cnt
      BY <1>7 DEF ContentType
    <3>2. /\ Total(m) = x * n /\ packet[m].claimed = x * k /\ req[r].amt = x
      BY <1>0, <1>1, <2>1, <3>1 DEF RestInv, EqualShares, Total
    <3>3. /\ x <= x * n - x * k /\ x * (k + 1) = x * k + x /\ x * k \in Nat /\ x * n \in Nat
      BY <1>7, <3>1, Products
    <3>4. a = x
      BY <1>4, <1>8, <3>2, <3>3
    <3>5. packet'[m].claimed = x * packet'[m].cnt
      BY <1>6, <3>1, <3>2, <3>3, <3>4
    <3>6. packet'[m].cnt = ShareCount(m) => Remain(m)' = 0
      BY <1>8, <3>1, <3>2, <3>3, <3>5
    <3> QED BY <1>9, <3>1, <3>5, <3>6
  <2>2. CASE IsTransfer(m)
    <3>1. claims[m] = {} /\ packet[m].claimed = 0 /\ req[r].amt = Total(m)
      BY <1>0, <1>1, <1>2, <2>2 DEF SettleClaim, RowInv, HandlerInv
    <3>2. Remain(m)' = 0
      BY <1>4, <1>7, <1>8, <1>9, <3>1
    <3> QED BY <2>2, <3>2 DEF EqualShares
  <2>3. CASE ~IsTransfer(m) /\ Content[m].mode = "lucky"
    <3>1. AllTaken(m)' <=> packet'[m].cnt = ShareCount(m)
      BY <2>3 DEF AllTaken, IsTransfer, ShareCount
    <3> QED BY <1>9, <2>3, <3>1 DEF EqualShares
  <2> QED BY <2>1, <2>2, <2>3 DEF EqualShares
<1>11. \A n \in MsgIDs :
         /\ EqualShares(n)' => packet'[n].claimed = Content[n].amount * packet'[n].cnt
         /\ packet'[n].status = "finished" /\ Remain(n)' # 0 => AllTaken(n)'
  <2> SUFFICES ASSUME NEW n \in MsgIDs, n # m
               PROVE  /\ EqualShares(n)' => packet'[n].claimed = Content[n].amount * packet'[n].cnt
                      /\ packet'[n].status = "finished" /\ Remain(n)' # 0 => AllTaken(n)'
    BY <1>10 DEF EqualShares, IsTransfer
  <2> QED BY <1>6 DEF RestInv, EqualShares, Remain, AllTaken, Total, ShareCount, IsTransfer
<1>12. \A s \in Requests : req'[s].phase = "priced" /\ EqualShares(req'[s].msg) =>
         req'[s].amt = Content[req'[s].msg].amount
  BY <1>5 DEF TypeOK, RestInv, Idle
<1> QED BY <1>11, <1>12 DEF RestInv, EqualShares, IsTransfer

LEMMA RestClaim ==
  ASSUME TypeOK, PacketInv, RestInv, NEW r \in Requests, ClaimStep(r)
  PROVE  RestInv'
<1>1. ASSUME UNCHANGED packet, NEW h, req' = [req EXCEPT ![r] = h],
             h.phase = "priced" /\ EqualShares(h.msg) => h.amt = Content[h.msg].amount
      PROVE  RestInv'
  <2>1. \A s \in Requests : req'[s] = IF s = r THEN h ELSE req[s]
    BY <1>1 DEF TypeOK
  <2> QED BY <1>1, <2>1, RestStays DEF RestInv
<1>2. CASE SettleFails(r)
  BY <1>1, <1>2 DEF SettleFails, SetReq, stores, Idle
<1>3. ASSUME NEW u \in Users, NEW m \in MsgIDs, LoadRedPacket(r, u, m) \/ LoadTransfer(r, u, m)
      PROVE  RestInv'
  BY <1>1, <1>3 DEF LoadRedPacket, LoadTransfer, SetReq, stores
<1>4. CASE PriceRedPacket(r)
  <2>0. req[r] \in Handler
    BY <1>4, HandlerAtWork DEF PriceRedPacket
  <2>1. CASE req' = [req EXCEPT ![r] = Idle]
    BY <1>1, <1>4, <2>1 DEF PriceRedPacket, stores, Idle
  <2>2. CASE req' # [req EXCEPT ![r] = Idle]
    <3>1. PICK a : /\ req' = [req EXCEPT ![r] = [req[r] EXCEPT !.phase = "priced", !.amt = a]]
                   /\ EqualShares(req[r].msg) => a = Content[req[r].msg].amount
      BY <1>4, <2>2 DEF PriceRedPacket, SetReq, EqualShares
    <3> DEFINE h == [req[r] EXCEPT !.phase = "priced", !.amt = a]
    <3>2. h.msg = req[r].msg /\ h.amt = a
      BY <2>0 DEF Handler
    <3>3. req' = [req EXCEPT ![r] = h] /\ UNCHANGED packet
      BY <1>4, <3>1 DEF PriceRedPacket, stores
    <3> HIDE DEF h
    <3> QED BY <1>1, <3>1, <3>2, <3>3
  <2> QED BY <2>1, <2>2
<1>5. CASE CheckTransfer(r)
  <2>0. req[r] \in Handler /\ IsTransfer(req[r].msg)
    BY <1>5, HandlerAtWork DEF CheckTransfer
  <2>1. PICK h : req' = [req EXCEPT ![r] = h] /\ (h.phase = "priced" => h.msg = req[r].msg)
    <3>1. CASE req' = [req EXCEPT ![r] = Idle]
      <4>1. Idle.phase # "priced"
        BY DEF Idle
      <4> QED BY <3>1, <4>1
    <3>2. CASE req' # [req EXCEPT ![r] = Idle]
      <4>1. req' = [req EXCEPT ![r] =
                     [req[r] EXCEPT !.phase = "priced", !.amt = Content[req[r].msg].amount]]
        BY <1>5, <3>2 DEF CheckTransfer, SetReq
      <4>2. [req[r] EXCEPT !.phase = "priced", !.amt = Content[req[r].msg].amount].msg = req[r].msg
        BY <2>0 DEF Handler
      <4> QED BY <4>1, <4>2
    <3> QED BY <3>1, <3>2
  <2>2. UNCHANGED packet
    BY <1>5 DEF CheckTransfer, stores
  <2> QED BY <1>1, <2>0, <2>1, <2>2 DEF EqualShares
<1> QED BY <1>2, <1>3, <1>4, <1>5, RestSettle DEF ClaimStep

LEMMA InitRest == Init => RestInv
<1> SUFFICES ASSUME Init PROVE RestInv
  OBVIOUS
<1>1. \A m \in MsgIDs : Content[m].amount \in Nat
  BY DEF ContentType
<1>2. \A m \in MsgIDs : packet[m].claimed = 0 /\ packet[m].cnt = 0 /\ packet[m].status = "absent"
  BY DEF Init, NoPacket
<1>3. \A r \in Requests : req[r].phase # "priced"
  BY DEF Init, Idle
<1>4. \A m \in MsgIDs : Content[m].amount * packet[m].cnt = 0
  BY <1>1, <1>2
<1> QED BY <1>2, <1>3, <1>4 DEF RestInv

LEMMA NextRest == TypeOK /\ PacketInv /\ RestInv /\ [Next]_vars => RestInv'
<1> SUFFICES ASSUME TypeOK, PacketInv, RestInv, [Next]_vars PROVE RestInv'
  OBVIOUS
<1>1. ASSUME NEW m \in MsgIDs, SendStep(m) \/ Expire(m) \/ RefundOne(m) PROVE RestInv'
  <2>1. req' = req
    BY <1>1, SendFrame
  <2> QED BY <1>1, <2>1, SendCountsNothing, RestStays DEF RestInv
<1>2. CASE Crash \/ UNCHANGED vars
  <2>1. packet' = packet /\ \A r \in Requests : req'[r] = req[r] \/ req'[r] = Idle
    BY <1>2 DEF Crash, HandlersDie, stores, vars
  <2> QED BY <2>1, RestStays DEF RestInv, Idle
<1> QED BY <1>1, <1>2, RestClaim DEF Next

\* A user's frozen column is the sum of what the user's packets still hold, and
\* only lucky packets all of whose shares are taken hold a rest for good.
THEOREM FrozenIsBacked == Spec => []FrozenBacksPackets
<1>1. FrozenIsHeld /\ RestInv => FrozenBacksPackets
  BY DEF FrozenIsHeld, RestInv, FrozenBacksPackets
<1> QED BY <1>1, InitSafe, NextSafe, InitMoney, NextMoney, InitRest, NextRest, PTL DEF Spec

\* mutateUser never answers 4102 to the expiry worker, and SettleClaim always
\* finds the share it pays in the sender's frozen money.
RefundsCanPay ==
  \A m \in MsgIDs : packet[m].status = "open" =>
    /\ CanMutate(Sender(m), Refundable(m), -Refundable(m))
    /\ Remain(m) <= frz[Sender(m)]

\* Whoever gives a packet back finds the frozen money he takes back.
THEOREM RefundsNeverLackMoney == Spec => []RefundsCanPay
<1>1. TypeOK /\ PacketInv /\ FrozenBacksPackets => RefundsCanPay
  <2> SUFFICES ASSUME TypeOK, PacketInv, FrozenBacksPackets, NEW m \in MsgIDs,
                      packet[m].status = "open"
               PROVE  /\ CanMutate(Sender(m), Refundable(m), -Refundable(m))
                      /\ Remain(m) <= frz[Sender(m)]
    BY DEF RefundsCanPay
  <2>1. Sender(m) \in Users
    BY Worth
  <2>2. AbsHeld[m] = Remain(m) /\ Remain(m) = Refundable(m) /\ AbsHeld[m] \in Nat
    BY HeldType DEF AbsHeld, Holding, Remain, Refundable
  <2>3. AbsHeld[m] <= frz[Sender(m)] /\ frz[Sender(m)] \in Nat /\ bal[Sender(m)] \in Nat
    BY <2>1, HeldByType DEF FrozenBacksPackets, TypeOK, WalletType
  <2> QED BY <2>2, <2>3 DEF CanMutate
<1> QED BY <1>1, Safe, FrozenIsBacked, PTL

(***************************************************************************)
(* The claim rows.                                                         *)
(***************************************************************************)
\* One more row, numbered after those that are there, adds its amount.
LEMMA OneMoreRow ==
  ASSUME NEW C \in SUBSET ClaimRow, IsFiniteSet(C), NEW n \in Nat, \A c \in C : c.seq <= n,
         NEW row \in ClaimRow, row.seq = n + 1
  PROVE  /\ IsFiniteSet(C \cup {row})
         /\ \A c \in C \cup {row} : c.seq <= n + 1
         /\ Cardinality(C \cup {row}) = Cardinality(C) + 1
         /\ SumFunction([c \in C \cup {row} |-> c.amount]) = SumFunction([c \in C |-> c.amount]) + row.amount
<1> DEFINE D == C \cup {row}
           f == [c \in C |-> c.amount]
           e == [c \in D |-> c.amount]
<1>1. row.amount \in Nat
  BY DEF ClaimRow
<1>2. \A c \in C : c.seq \in Nat /\ c.amount \in Nat
  BY DEF ClaimRow
<1>3. row \notin C
  BY <1>1, <1>2
<1>4. IsFiniteSet(D) /\ Cardinality(D) = Cardinality(C) + 1
  BY <1>3, FS_AddElement
<1>5. \A c \in D : c.seq <= n + 1
  BY <1>1, <1>2
<1>6. SumFunction(f) = SumFunctionOnSet(f, C) /\ SumFunction(e) = SumFunctionOnSet(e, D)
  BY DEF SumFunction
<1>7. SumFunctionOnSet(f, C) = SumFunctionOnSet(e, C)
  <2>1. \A c \in C : f[c] = e[c]
    OBVIOUS
  <2> HIDE DEF f, e
  <2> QED BY <2>1, SumSame
<1>8. SumFunctionOnSet(e, D) = SumFunctionOnSet(e, C) + row.amount
  <2>1. (\A c \in D : e[c] \in Int) /\ e[row] = row.amount
    BY <1>1, <1>2
  <2>2. row \in D /\ D \ {row} = C
    BY <1>3
  <2> HIDE DEF e, D
  <2>3. SumFunctionOnSet(e, D) = e[row] + SumFunctionOnSet(e, D \ {row})
    BY <1>4, <2>1, <2>2, SumRemove
  <2>4. SumFunctionOnSet(e, C) \in Int
    <3>1. \A c \in C : e[c] \in Int
      BY <2>1, <2>2
    <3> QED BY <3>1, SumType
  <2>5. SumFunctionOnSet(e, D) = row.amount + SumFunctionOnSet(e, C)
    BY <2>1, <2>2, <2>3, Zenon
  <2> QED BY <1>1, <2>4, <2>5
<1> QED BY <1>4, <1>5, <1>6, <1>7, <1>8

LEMMA InitBooks == Init => ClaimBooks
<1> SUFFICES ASSUME Init, NEW m \in MsgIDs
             PROVE  /\ IsFiniteSet(claims[m])
                    /\ \A c \in claims[m] : c.seq <= packet[m].cnt
                    /\ packet[m].claimed = SumFunction([c \in claims[m] |-> c.amount])
                    /\ packet[m].cnt = Cardinality(claims[m])
  BY DEF ClaimBooks, RowsAreNumbered, ClaimsAccounted
<1>1. claims[m] = {} /\ packet[m].claimed = 0 /\ packet[m].cnt = 0
  BY DEF Init, NoPacket
<1>2. SumFunction([c \in {} |-> c.amount]) = 0
  BY SumEmpty DEF SumFunction
<1> QED BY <1>1, <1>2, FS_EmptySet

LEMMA NextBooks ==
  TypeOK /\ PacketInv /\ ClaimBooks /\ [Next]_vars => ClaimBooks'
<1> SUFFICES ASSUME TypeOK, PacketInv, ClaimBooks, [Next]_vars PROVE ClaimBooks'
  OBVIOUS
<1> DEFINE Books(m) == /\ IsFiniteSet(claims[m])
                       /\ \A c \in claims[m] : c.seq <= packet[m].cnt
                       /\ packet[m].claimed = SumFunction([c \in claims[m] |-> c.amount])
                       /\ packet[m].cnt = Cardinality(claims[m])
<1>1. SUFFICES ASSUME NEW m \in MsgIDs PROVE Books(m)'
  BY <1>1 DEF ClaimBooks, RowsAreNumbered, ClaimsAccounted
<1>2. Books(m)
  BY DEF ClaimBooks, RowsAreNumbered, ClaimsAccounted
<1>3. CASE /\ claims'[m] = claims[m]
           /\ packet'[m].claimed = packet[m].claimed /\ packet'[m].cnt = packet[m].cnt
  BY <1>2, <1>3
<1>4. ASSUME NEW n \in MsgIDs, SendStep(n) \/ Expire(n) \/ RefundOne(n)
      PROVE  Books(m)'
  <2>1. claims' = claims /\ (m # n => packet'[m] = packet[m])
    BY <1>4, SendFrame
  <2>2. \/ packet' = packet
        \/ \E st \in Statuses : packet' = [packet EXCEPT ![n].status = st]
        \/ packet' = [packet EXCEPT ![n].due = TRUE]
    BY <1>4 DEF SendStep, SendLookup, SendMoneyFreeze, FreezeFails, InsertMessage, InsertFails,
         RefundMoneyPacket, RefundMoneyPacketFails, RecallMessage, Expire, RefundOne, stores,
         Statuses
  <2>3. packet'[m].claimed = packet[m].claimed /\ packet'[m].cnt = packet[m].cnt
    <3>1. packet[m] \in PacketRow /\ packet[n] \in PacketRow /\ DOMAIN packet = MsgIDs
      BY DEF TypeOK
    <3>2. CASE packet' = packet
      BY <3>2
    <3>3. ASSUME NEW st \in Statuses, packet' = [packet EXCEPT ![n].status = st]
          PROVE  packet'[m].claimed = packet[m].claimed /\ packet'[m].cnt = packet[m].cnt
      BY <3>1, <3>3 DEF PacketRow
    <3>4. CASE packet' = [packet EXCEPT ![n].due = TRUE]
      BY <3>1, <3>4 DEF PacketRow
    <3> QED BY <2>2, <3>2, <3>3, <3>4
  <2> QED BY <1>3, <2>1, <2>3
<1>5. ASSUME NEW r \in Requests, ClaimStep(r)
      PROVE  Books(m)'
  <2>1. CASE ~SettleClaim(r)
    BY <1>2, <1>5, <2>1, ClaimReads DEF stores
  <2>2. CASE SettleClaim(r)
    <3>1. PICK n \in MsgIDs, u \in Users, a \in Nat :
             /\ packet' = [packet EXCEPT ![n] = SettledRow(n, packet[n].claimed + a, packet[n].cnt + 1)]
             /\ packet'[n].claimed = packet[n].claimed + a
             /\ packet'[n].cnt = packet[n].cnt + 1
             /\ claims' = [claims EXCEPT ![n] =
                             @ \cup {[user |-> u, amount |-> a, seq |-> packet[n].cnt + 1]}]
      BY <2>2, SettleWrites
    <3>2. CASE n # m
      <4>1. claims'[m] = claims[m] /\ packet'[m] = packet[m]
        BY <3>1, <3>2 DEF TypeOK
      <4> QED BY <1>3, <4>1
    <3>3. CASE n = m
      <4> DEFINE row == [user |-> u, amount |-> a, seq |-> packet[m].cnt + 1]
      <4>1. claims'[m] = claims[m] \cup {row}
        BY <3>1, <3>3 DEF TypeOK
      <4>2. packet[m].cnt \in Nat /\ claims[m] \in SUBSET ClaimRow
        BY DEF TypeOK, PacketRow
      <4>3. /\ IsFiniteSet(claims[m] \cup {row})
            /\ \A c \in claims[m] \cup {row} : c.seq <= packet[m].cnt + 1
            /\ Cardinality(claims[m] \cup {row}) = Cardinality(claims[m]) + 1
            /\ SumFunction([c \in claims[m] \cup {row} |-> c.amount])
                 = SumFunction([c \in claims[m] |-> c.amount]) + a
        <5>1. \A c \in claims[m] : c.seq <= packet[m].cnt
          BY <1>2
        <5>2. IsFiniteSet(claims[m])
          BY <1>2
        <5>3. row \in ClaimRow /\ row.seq = packet[m].cnt + 1 /\ row.amount = a
          BY <4>2 DEF ClaimRow
        <5> HIDE DEF row, Books
        <5> QED BY <4>2, <5>1, <5>2, <5>3, OneMoreRow
      <4> HIDE DEF row
      <4> QED BY <1>2, <3>1, <3>3, <4>1, <4>3
    <3> QED BY <3>2, <3>3
  <2> QED BY <2>1, <2>2
<1>6. CASE Crash \/ UNCHANGED vars
  BY <1>2, <1>6 DEF Crash, HandlersDie, stores, vars
<1> QED BY <1>4, <1>5, <1>6 DEF Next

\* The rows of red_packet_claim and transfer_claim account for every share and
\* every cent a packet says it has paid: SettleClaim and its hook keep them in
\* step, however stale the read the share was computed from.
THEOREM RowsAccount == Spec => []ClaimsAccounted
<1>1. ClaimBooks => ClaimsAccounted
  BY DEF ClaimBooks
<1> QED BY <1>1, InitSafe, NextSafe, InitBooks, NextBooks, PTL DEF Spec

-----------------------------------------------------------------------------
(* Packets and orders on one wallet.                                       *)

OP == INSTANCE OrdersProofs

(***************************************************************************)
(* The facts proved of the orders alone, said of the orders of the system. *)
(***************************************************************************)
LEMMA SameAssumptions ==
  OP!OrdersAssumption /\ OP!FiniteOrders /\ OP!WalletAssumption /\ OP!FiniteUsers
BY OrdersAssumption, FiniteOrders, WalletAssumption, FiniteUsers
   DEF OrdersAssumption, FiniteOrders, OP!OrdersAssumption, OP!FiniteOrders,
       OP!WalletAssumption, OP!FiniteUsers, OrderType, OP!OrderType,
       OP!IsFiniteSet, IsFiniteSet

LEMMA SameState ==
  /\ O!TypeOK <=> OP!TypeOK
  /\ O!OrdersInv <=> OP!OrdersInv
<1>1. O!TypeOK <=> OP!TypeOK
  BY Zenon DEF O!TypeOK, OP!TypeOK, O!WalletType, OP!WalletType, O!Filed, OP!Filed, O!Titles,
     OP!Titles, O!Review, OP!Review, O!NotReviewing, OP!NotReviewing
<1>2. \A o : O!Booked(o) <=> OP!Booked(o)
  BY Zenon DEF O!Booked, OP!Booked, O!Due, OP!Due, O!Titles, OP!Titles, O!Filed, OP!Filed,
     O!IsRecharge, OP!IsRecharge
<1>3. O!ReviewIsFresh <=> OP!ReviewIsFresh
  BY Zenon DEF O!ReviewIsFresh, OP!ReviewIsFresh, O!NotReviewing, OP!NotReviewing
<1> QED BY <1>1, <1>2, <1>3, Zenon DEF O!OrdersInv, OP!OrdersInv, O!BooksMatchOrders,
           OP!BooksMatchOrders, O!IsRecharge, OP!IsRecharge

LEMMA SamePrimed ==
  /\ O!TypeOK' <=> OP!TypeOK'
  /\ O!OrdersInv' <=> OP!OrdersInv'
BY SameState, PTL

LEMMA SameMoves ==
  /\ O!FrozenRows = OP!FrozenRows /\ O!FrozenRows' = OP!FrozenRows'
  /\ O!BroughtRows = OP!BroughtRows /\ O!BroughtRows' = OP!BroughtRows'
BY DEF O!FrozenRows, OP!FrozenRows, O!BroughtRows, OP!BroughtRows, O!BalanceRows, OP!BalanceRows

LEMMA SameFile == \A o \in OrderIDs : O!FileStep(o) <=> OP!FileStep(o)
BY Zenon DEF O!FileStep, OP!FileStep, O!RechargeLookup, OP!RechargeLookup, O!RechargeSubmit,
   OP!RechargeSubmit, O!Age, OP!Age, O!WithdrawSubmit, OP!WithdrawSubmit, O!IsRecharge,
   OP!IsRecharge, O!SetStatus, OP!SetStatus, O!SameRecharge, OP!SameRecharge, O!Owner, OP!Owner,
   O!MutateUser, OP!MutateUser, O!CanMutate, OP!CanMutate, O!WithdrawFreeze, OP!WithdrawFreeze,
   O!AddRows, OP!AddRows, O!Titles, OP!Titles

LEMMA SameReview == \A r \in Reviewers : O!ReviewStep(r) <=> OP!ReviewStep(r)
BY Zenon DEF O!ReviewStep, OP!ReviewStep, O!ReadOrder, OP!ReadOrder, O!Reviewable, OP!Reviewable,
   O!NotReviewing, OP!NotReviewing, O!RechargeApprove, OP!RechargeApprove, O!RechargeReject,
   OP!RechargeReject, O!WithdrawApprove, OP!WithdrawApprove, O!WithdrawReject, OP!WithdrawReject,
   O!ReviewFails, OP!ReviewFails, O!EndReview, OP!EndReview, O!Deciding, OP!Deciding,
   O!EndDecision, OP!EndDecision, O!ReviewedBy, OP!ReviewedBy,
   O!SetStatus, OP!SetStatus, O!Owner, OP!Owner, O!MutateUser, OP!MutateUser, O!CanMutate,
   OP!CanMutate, O!PayoutFee, OP!PayoutFee, O!RejectedStatus, OP!RejectedStatus,
   O!AddRows, OP!AddRows, O!Titles, OP!Titles

LEMMA SameApply ==
  \A u \in Users, delta \in Deltas : O!WalletApply(u, delta) <=> OP!WalletApply(u, delta)
BY Zenon DEF O!WalletApply, OP!WalletApply, O!MutateUser, OP!MutateUser, O!CanMutate, OP!CanMutate

OrderMove ==
  \/ \E o \in OrderIDs : O!FileStep(o)
  \/ \E u \in Users, delta \in Deltas : O!WalletApply(u, delta)
  \/ \E r \in Reviewers : O!ReviewStep(r)

\* Steps of orders keep what is known of the orders, and what was decided.
LEMMA OrdersKeep ==
  ASSUME O!TypeOK, O!OrdersInv, OrderMove
  PROVE  /\ O!TypeOK' /\ O!OrdersInv'
         /\ \A o \in OrderIDs : status[o] \in {"approved", "rejected"} =>
              /\ status'[o] \in {"approved", "rejected"}
              /\ o \notin overtaken' => status'[o] = status[o] /\ rows'[o] = rows[o]
<1>1. OP!Next
  BY SameFile, SameReview, SameApply DEF OrderMove, OP!Next
<1>2. OP!TypeOK /\ OP!OrdersInv
  BY SameState
<1>3. OP!TypeOK'
  BY <1>1, <1>2, SameAssumptions, OP!TypeStep
<1>4. OP!Faithful
  BY <1>1, <1>2, SameAssumptions, OP!OrdersStep
<1> QED BY <1>3, <1>4, SamePrimed DEF OP!Faithful, OP!Decided, OP!SameOrder

\* What a step of order o moves: the owner's money, and what the rows say.
OrderMoved(o, x, y) ==
  /\ O!Owner(o) \in Users
  /\ MutateUser(O!Owner(o), x, y)
  /\ O!FrozenRows'[o] = O!FrozenRows[o] + y
  /\ O!BroughtRows'[o] = O!BroughtRows[o] + (x + y)
  /\ \A p \in OrderIDs \ {o} : O!FrozenRows'[p] = O!FrozenRows[p]
  /\ \A p \in OrderIDs \ {o} : O!BroughtRows'[p] = O!BroughtRows[p]

LEMMA OrdersMove ==
  ASSUME O!TypeOK,
         (\E o \in OrderIDs : O!FileStep(o)) \/ (\E r \in Reviewers : O!ReviewStep(r))
  PROVE  /\ UNCHANGED adjusted
         /\ UNCHANGED <<bal, frz, O!FrozenRows, O!BroughtRows>> \/
            \E o \in OrderIDs, x \in Int, y \in Int : OrderMoved(o, x, y)
<1>1. OP!TypeOK
  BY SameState
<1>2. (\E o \in OrderIDs : OP!FileStep(o)) \/ (\E r \in Reviewers : OP!ReviewStep(r))
  BY SameFile, SameReview
<1>3. /\ UNCHANGED adjusted
      /\ UNCHANGED <<bal, frz, OP!FrozenRows, OP!BroughtRows>> \/
         \E o \in OrderIDs, x \in Int, y \in Int : OP!Moved(o, x, y)
  BY <1>1, <1>2, SameAssumptions, OP!OrderStepMoves
<1>4. ASSUME NEW o \in OrderIDs, NEW x \in Int, NEW y \in Int, OP!Moved(o, x, y)
      PROVE  OrderMoved(o, x, y)
  <2>1. OP!Owner(o) \in Users /\ OP!Owner(o) = O!Owner(o)
    BY SameAssumptions, OP!OrderFacts DEF OP!Owner, O!Owner
  <2>2. MutateUser(O!Owner(o), x, y)
    BY <1>4, <2>1 DEF OP!Moved, OP!MutateUser, OP!CanMutate, MutateUser, CanMutate
  <2> QED BY <1>4, <2>1, <2>2, SameMoves DEF OP!Moved, OrderMoved
<1> QED BY <1>3, <1>4, SameMoves

LEMMA OrderSumsType ==
  ASSUME O!TypeOK, NEW o \in OrderIDs
  PROVE  /\ O!FrozenRows[o] \in Int /\ O!BroughtRows[o] \in Int
         /\ O!Owner(o) \in Users
<1>1. Order[o].user \in Users
  BY OrdersAssumption DEF OrderType
<1>2. OP!BalanceRows[o] \in Int /\ OP!FrozenRows[o] \in Int
  BY SameState, SameAssumptions, OP!BooksType
<1>3. OP!BroughtRows[o] = OP!BalanceRows[o] + OP!FrozenRows[o]
  BY DEF OP!BroughtRows
<1>4. OP!BroughtRows[o] \in Int
  <2> HIDE DEF OP!BalanceRows, OP!FrozenRows, OP!BroughtRows
  <2> QED BY <1>2, <1>3
<1> QED BY <1>1, <1>2, <1>4, SameMoves DEF O!Owner

\* Where no review was overtaken, an order keeps frozen what it asks for while
\* it is a pending withdrawal, and a recharge keeps nothing frozen anyway.
LEMMA OrderKeeps ==
  ASSUME O!TypeOK, O!OrdersInv, NEW o \in OrderIDs
  PROVE  /\ o \notin overtaken => O!FrozenRows[o] = O!PendingOf[o]
         /\ O!IsRecharge(o) => O!FrozenRows[o] = 0
         /\ O!PendingOf[o] \in Nat
<1>1. OP!TypeOK /\ OP!OrdersInv
  BY SameState
<1>2. o \notin overtaken => OP!FrozenRows[o] = OP!PendingOf[o]
  BY <1>1, SameAssumptions, OP!RowsArePending
<1>3. OP!IsRecharge(o) => OP!FrozenRows[o] = 0
  BY <1>1, SameAssumptions, OP!RechargesKeepNothing
<1>4. O!PendingOf[o] = OP!PendingOf[o]
  BY DEF O!PendingOf, OP!PendingOf, O!IsRecharge, OP!IsRecharge
<1>5. O!IsRecharge(o) <=> OP!IsRecharge(o)
  BY DEF O!IsRecharge, OP!IsRecharge
<1>6. O!PendingOf[o] \in Nat
  BY OrdersAssumption DEF O!PendingOf, OrderType
<1> QED BY <1>2, <1>3, <1>4, <1>5, <1>6, SameMoves

LEMMA OrdersAreFinite ==
  /\ IsFiniteSet(OrderIDs)
  /\ \A u : IsFiniteSet(O!OrdersOf(u)) /\ O!OrdersOf(u) \subseteq OrderIDs
BY FiniteOrders, FS_Subset DEF O!OrdersOf

LEMMA KeptType ==
  ASSUME O!TypeOK, NEW u \in Users
  PROVE  KeptByOrders(u) \in Int
<1>1. IsFiniteSet(O!OrdersOf(u)) /\ \A o \in O!OrdersOf(u) : O!FrozenRows[o] \in Int
  BY OrdersAreFinite, OrderSumsType
<1> HIDE DEF O!FrozenRows, O!OrdersOf
<1> QED BY <1>1, SumType DEF KeptByOrders

\* A step of an order changes what its owner's orders keep by as much as the
\* frozen money, and what the users own together by as much as its rows say.
LEMMA KeptFollows ==
  ASSUME O!TypeOK, O!TypeOK', WalletType, NEW o \in OrderIDs, NEW x \in Int, NEW y \in Int,
         OrderMoved(o, x, y), NEW u \in Users
  PROVE  KeptByOrders(u)' = KeptByOrders(u) + (frz'[u] - frz[u])
<1> DEFINE S == O!OrdersOf(u)
<1>1. IsFiniteSet(S) /\ S \subseteq OrderIDs
  BY OrdersAreFinite
<1>2. \A p \in S : O!FrozenRows[p] \in Int /\ O!FrozenRows'[p] \in Int
  <2>1. \A p \in OrderIDs : O!FrozenRows[p] \in Int
    BY OrderSumsType
  <2> QED BY <1>1, <2>1 DEF OrderMoved
<1>3. \A p \in S \ {o} : O!FrozenRows'[p] = O!FrozenRows[p]
  BY <1>1 DEF OrderMoved
<1>4. /\ KeptByOrders(u) = SumFunctionOnSet(O!FrozenRows, S)
      /\ KeptByOrders(u)' = SumFunctionOnSet(O!FrozenRows', S)
  BY DEF KeptByOrders, O!OrdersOf, O!Owner
<1>5. o \in S <=> u = O!Owner(o)
  BY DEF O!OrdersOf
<1>6. /\ frz[u] \in Int
      /\ frz'[u] = IF u = O!Owner(o) THEN frz[u] + y ELSE frz[u]
  BY DEF OrderMoved, MutateUser, WalletType
<1>7. O!FrozenRows[o] \in Int /\ O!FrozenRows'[o] = O!FrozenRows[o] + y
  BY OrderSumsType DEF OrderMoved
<1> HIDE DEF S
<1>8. /\ SumFunctionOnSet(O!FrozenRows, S) \in Int
      /\ o \in S => SumFunctionOnSet(O!FrozenRows', S) =
           SumFunctionOnSet(O!FrozenRows, S) + (O!FrozenRows'[o] - O!FrozenRows[o])
      /\ o \notin S => SumFunctionOnSet(O!FrozenRows', S) = SumFunctionOnSet(O!FrozenRows, S)
  BY <1>1, <1>2, <1>3, SumFollows, Zenon
<1> QED BY <1>4, <1>5, <1>6, <1>7, <1>8

LEMMA BroughtFollows ==
  ASSUME O!TypeOK, WalletType, WalletType', NEW o \in OrderIDs, NEW x \in Int, NEW y \in Int,
         OrderMoved(o, x, y)
  PROVE  /\ Assets \in Int /\ Assets' = Assets + (x + y)
         /\ SumFunction(O!BroughtRows) \in Int
         /\ SumFunction(O!BroughtRows)' = SumFunction(O!BroughtRows) + (x + y)
<1> DEFINE u == O!Owner(o)
<1>1. /\ u \in Users
      /\ bal'[u] = bal[u] + x /\ \A v \in Users \ {u} : bal'[v] = bal[v]
      /\ frz'[u] = frz[u] + y /\ \A v \in Users \ {u} : frz'[v] = frz[v]
  BY DEF OrderMoved, MutateUser, WalletType
<1>2. bal \in [Users -> Int] /\ bal' \in [Users -> Int] /\ frz \in [Users -> Int]
      /\ frz' \in [Users -> Int]
  BY DEF WalletType
<1>3. SumFunction(bal) \in Int /\ SumFunction(bal') = SumFunction(bal) + x
  <2> HIDE DEF u
  <2>1. u \in Users /\ bal'[u] = bal[u] + x /\ \A v \in Users \ {u} : bal'[v] = bal[v]
    BY <1>1
  <2>2. bal \in [Users -> Int] /\ bal' \in [Users -> Int]
    BY <1>2
  <2> QED BY <2>1, <2>2, FiniteUsers, SumMoves
<1>4. SumFunction(frz) \in Int /\ SumFunction(frz') = SumFunction(frz) + y
  <2> HIDE DEF u
  <2>1. u \in Users /\ frz'[u] = frz[u] + y /\ \A v \in Users \ {u} : frz'[v] = frz[v]
    BY <1>1
  <2>2. frz \in [Users -> Int] /\ frz' \in [Users -> Int]
    BY <1>2
  <2> QED BY <2>1, <2>2, FiniteUsers, SumMoves
<1>5. Assets \in Int /\ Assets' = Assets + (x + y)
  BY <1>3, <1>4 DEF Assets
<1>6. O!BroughtRows \in [OrderIDs -> Int] /\ O!BroughtRows' \in [OrderIDs -> Int]
  <2>1. \A p \in OrderIDs : O!BroughtRows[p] \in Int
    BY OrderSumsType
  <2>2. \A p \in OrderIDs : O!BroughtRows'[p] \in Int
    BY <2>1 DEF OrderMoved
  <2> QED BY <2>1, <2>2 DEF O!BroughtRows
<1>7. /\ O!BroughtRows'[o] = O!BroughtRows[o] + (x + y) /\ x + y \in Int
      /\ \A p \in OrderIDs \ {o} : O!BroughtRows'[p] = O!BroughtRows[p]
  BY DEF OrderMoved
<1>8. /\ SumFunction(O!BroughtRows) \in Int
      /\ SumFunction(O!BroughtRows') = SumFunction(O!BroughtRows) + (x + y)
  BY <1>6, <1>7, OrdersAreFinite, SumMoves
<1> QED BY <1>5, <1>8

(***************************************************************************)
(* The whole system.                                                       *)
(***************************************************************************)
\* The first half of FrozenIsOwned.
FrozenAddsUp == \A u \in Users : frz[u] = HeldBy(u) + KeptByOrders(u)

\* What is known of the packets and of the orders, and their shared money.
SysInv == /\ TypeOK /\ PacketInv
          /\ O!TypeOK /\ O!OrdersInv
          /\ FrozenAddsUp
          /\ MoneyEntersByOrders

\* Packets only look at their own state and at the wallet.
LEMMA PacketsKeep ==
  ASSUME TypeOK, PacketInv, WalletType', UNCHANGED packetvars
  PROVE  TypeOK' /\ PacketInv'
<1>1. TypeOK'
  BY DEF TypeOK, packetvars
<1>2. \A m \in MsgIDs : RowInv(m)'
  BY DEF PacketInv, RowInv, packetvars
<1>3. \A r \in Requests : HandlerInv(r)'
  BY DEF PacketInv, HandlerInv, packetvars
<1> QED BY <1>1, <1>2, <1>3 DEF PacketInv

LEMMA OrdersRest ==
  ASSUME O!TypeOK, O!OrdersInv, WalletType', UNCHANGED ordervars
  PROVE  O!TypeOK' /\ O!OrdersInv'
<1>1. O!TypeOK'
  BY DEF O!TypeOK, ordervars, WalletType, O!WalletType
<1>2. O!OrdersInv'
  BY DEF O!OrdersInv, ordervars, O!ReviewIsFresh, O!BooksMatchOrders, O!Booked, O!Due,
         O!IsRecharge
<1> QED BY <1>1, <1>2

\* What a user's packets and orders hold when their rows rest.
LEMMA HeldRests ==
  ASSUME UNCHANGED packet
  PROVE  \A u \in Users : HeldBy(u)' = HeldBy(u)
<1>1. AbsHeld' = AbsHeld
  BY DEF AbsHeld, Holding, Remain
<1> QED BY <1>1 DEF HeldBy, Sender

LEMMA KeptRests ==
  ASSUME UNCHANGED O!FrozenRows
  PROVE  \A u \in Users : KeptByOrders(u)' = KeptByOrders(u)
BY DEF KeptByOrders, O!OrdersOf, O!Owner

LEMMA RowsRest ==
  ASSUME UNCHANGED rows
  PROVE  O!FrozenRows' = O!FrozenRows /\ O!BroughtRows' = O!BroughtRows
BY DEF O!FrozenRows, O!BroughtRows, O!BalanceRows

\* A step of a packet.
LEMMA PacketStepKeeps ==
  ASSUME SysInv, PacketStep
  PROVE  SysInv'
<1>1. TypeOK' /\ PacketInv'
  BY NextSafe DEF SysInv, PacketStep, Next
<1>2. O!TypeOK' /\ O!OrdersInv'
  BY <1>1, OrdersRest DEF SysInv, PacketStep, TypeOK
<1>3. /\ Assets' = Assets
      /\ \A v \in Users : HeldBy(v)' = HeldBy(v) + (frz'[v] - frz[v])
  BY <1>1, PacketStepMoves DEF SysInv, PacketStep
<1>4. O!FrozenRows' = O!FrozenRows /\ O!BroughtRows' = O!BroughtRows /\ adjusted' = adjusted
  BY RowsRest DEF PacketStep, ordervars
<1>5. FrozenAddsUp'
  <2> SUFFICES ASSUME NEW v \in Users PROVE frz'[v] = HeldBy(v)' + KeptByOrders(v)'
    BY DEF FrozenAddsUp
  <2>1. frz[v] \in Int /\ frz'[v] \in Int /\ HeldBy(v) \in Int /\ KeptByOrders(v) \in Int
    BY <1>1, HeldByType, KeptType DEF SysInv, TypeOK, WalletType
  <2>2. KeptByOrders(v)' = KeptByOrders(v)
    BY <1>4, KeptRests
  <2>3. frz[v] = HeldBy(v) + KeptByOrders(v)
    BY DEF SysInv, FrozenAddsUp
  <2> QED BY <1>3, <2>1, <2>2, <2>3
<1>6. MoneyEntersByOrders'
  BY <1>3, <1>4 DEF SysInv, MoneyEntersByOrders
<1> QED BY <1>1, <1>2, <1>5, <1>6 DEF SysInv

\* A step of an order.
LEMMA OrderStepKeeps ==
  ASSUME SysInv, OrderStep
  PROVE  SysInv'
<1>1. O!TypeOK' /\ O!OrdersInv'
  BY OrdersKeep DEF SysInv, OrderStep, OrderMove
<1>2. WalletType /\ WalletType'
  BY <1>1 DEF SysInv, TypeOK, O!TypeOK, O!WalletType, WalletType
<1>3. TypeOK' /\ PacketInv'
  BY <1>2, PacketsKeep DEF SysInv, OrderStep
<1>4. \A v \in Users : HeldBy(v)' = HeldBy(v)
  BY HeldRests DEF OrderStep, packetvars
<1>5. \A v \in Users : /\ frz[v] = HeldBy(v) + KeptByOrders(v)
                       /\ frz[v] \in Int /\ frz'[v] \in Int /\ HeldBy(v) \in Int
                       /\ KeptByOrders(v) \in Int
  BY <1>2, HeldByType, KeptType DEF SysInv, FrozenAddsUp, WalletType
<1>6. Assets = SumFunction(InitBalance) + SumFunction(adjusted) + SumFunction(O!BroughtRows)
  BY DEF SysInv, MoneyEntersByOrders
<1>7. SumFunction(InitBalance) \in Int /\ SumFunction(adjusted) \in Int
  <2>1. InitBalance \in [Users -> Int] /\ adjusted \in [Users -> Int]
    BY WalletAssumption DEF SysInv, O!TypeOK
  <2> QED BY <2>1, FiniteUsers, SumType DEF SumFunction
<1>8. CASE (\E o \in OrderIDs : O!FileStep(o)) \/ (\E r \in Reviewers : O!ReviewStep(r))
  <2>1. UNCHANGED adjusted
    BY <1>8, OrdersMove DEF SysInv
  <2>2. CASE UNCHANGED <<bal, frz, O!FrozenRows, O!BroughtRows>>
    <3>1. FrozenAddsUp'
      BY <1>4, <1>5, <2>2, KeptRests DEF FrozenAddsUp
    <3>2. MoneyEntersByOrders'
      BY <1>6, <2>1, <2>2 DEF MoneyEntersByOrders, Assets
    <3> QED BY <1>1, <1>3, <3>1, <3>2 DEF SysInv
  <2>3. ASSUME NEW o \in OrderIDs, NEW x \in Int, NEW y \in Int, OrderMoved(o, x, y)
        PROVE  SysInv'
    <3>1. \A v \in Users : KeptByOrders(v)' = KeptByOrders(v) + (frz'[v] - frz[v])
      BY <1>1, <1>2, <2>3, KeptFollows DEF SysInv
    <3>2. FrozenAddsUp'
      BY <1>4, <1>5, <3>1 DEF FrozenAddsUp
    <3>3. /\ Assets \in Int /\ Assets' = Assets + (x + y)
          /\ SumFunction(O!BroughtRows) \in Int
          /\ SumFunction(O!BroughtRows)' = SumFunction(O!BroughtRows) + (x + y)
      BY <1>2, <2>3, BroughtFollows DEF SysInv
    <3>4. MoneyEntersByOrders'
      BY <1>6, <1>7, <2>1, <3>3 DEF MoneyEntersByOrders
    <3> QED BY <1>1, <1>3, <3>2, <3>4 DEF SysInv
  <2> QED BY <1>8, <2>2, <2>3, OrdersMove DEF SysInv
<1>9. ASSUME NEW u \in Users, NEW delta \in Deltas, O!WalletApply(u, delta)
      PROVE  SysInv'
  <2>0. delta \in Int
    BY SameAssumptions DEF OP!OrdersAssumption
  <2>1. /\ bal'[u] = bal[u] + delta /\ \A v \in Users \ {u} : bal'[v] = bal[v]
        /\ frz' = frz
    BY <1>2, <1>9, <2>0 DEF O!WalletApply, O!MutateUser, WalletType
  <2>2. /\ adjusted'[u] = adjusted[u] + delta
        /\ \A v \in Users \ {u} : adjusted'[v] = adjusted[v]
        /\ adjusted \in [Users -> Int] /\ adjusted' \in [Users -> Int]
    BY <1>1, <1>9 DEF O!WalletApply, SysInv, O!TypeOK
  <2>3. rows' = rows
    BY <1>9 DEF O!WalletApply
  <2>4. O!FrozenRows' = O!FrozenRows /\ O!BroughtRows' = O!BroughtRows
    BY <2>3, RowsRest
  <2>5. SumFunction(bal) \in Int /\ SumFunction(bal') = SumFunction(bal) + delta
    <3>1. bal \in [Users -> Int] /\ bal' \in [Users -> Int]
      BY <1>2 DEF WalletType
    <3> QED BY <2>0, <2>1, <3>1, FiniteUsers, SumMoves
  <2>6. SumFunction(adjusted') = SumFunction(adjusted) + delta
    BY <2>0, <2>2, FiniteUsers, SumMoves
  <2>7. SumFunction(frz) \in Int
    <3>1. SumFunction(frz) = SumFunctionOnSet(frz, Users) /\ \A v \in Users : frz[v] \in Int
      BY <1>2 DEF WalletType, SumFunction
    <3> QED BY <3>1, FiniteUsers, SumType
  <2>8. SumFunction(O!BroughtRows) \in Int
    <3>1. \A o \in OrderIDs : O!BroughtRows[o] \in Int
      BY OrderSumsType DEF SysInv
    <3>2. SumFunction(O!BroughtRows) = SumFunctionOnSet(O!BroughtRows, OrderIDs)
      BY DEF SumFunction, O!BroughtRows
    <3> QED BY <3>1, <3>2, OrdersAreFinite, SumType
  <2>9. MoneyEntersByOrders'
    <3>1. Assets' = SumFunction(bal) + delta + SumFunction(frz)
      BY <2>1, <2>5 DEF Assets
    <3>2. SumFunction(bal) + SumFunction(frz)
            = SumFunction(InitBalance) + SumFunction(adjusted) + SumFunction(O!BroughtRows)
      BY <1>6 DEF Assets
    <3>3. Assets' = SumFunction(InitBalance) + SumFunction(adjusted') + SumFunction(O!BroughtRows)
      <4>0. SumFunction(bal) \in Int
        BY <2>5
      <4>1. PICK b \in Int, z \in Int, i \in Int, a \in Int, k \in Int :
               /\ b = SumFunction(bal) /\ z = SumFunction(frz) /\ i = SumFunction(InitBalance)
               /\ a = SumFunction(adjusted) /\ k = SumFunction(O!BroughtRows)
        BY <1>7, <2>7, <2>8, <4>0
      <4>2. b + z = i + a + k
        BY <3>2, <4>1
      <4>3. b + delta + z = i + (a + delta) + k
        BY <2>0, <4>2
      <4> QED BY <2>6, <3>1, <4>1, <4>3
    <3> QED BY <2>4, <3>3 DEF MoneyEntersByOrders
  <2>10. FrozenAddsUp'
    BY <1>4, <1>5, <2>1, <2>4, KeptRests DEF FrozenAddsUp
  <2> QED BY <1>1, <1>3, <2>9, <2>10 DEF SysInv
<1> QED BY <1>8, <1>9 DEF OrderStep

\* The api process dies.
LEMMA CrashKeeps ==
  ASSUME SysInv, HandlersDie, O!HandlersDie
  PROVE  SysInv'
<1>1. TypeOK' /\ PacketInv'
  BY TypeCrash, InvCrash DEF SysInv
<1>2. O!TypeOK' /\ O!OrdersInv'
  <2>1. O!TypeOK'
    BY <1>1 DEF SysInv, O!HandlersDie, O!TypeOK, O!Filed, TypeOK, WalletType, O!WalletType,
                O!NotReviewing
  <2>2. O!ReviewIsFresh'
    BY DEF O!HandlersDie, O!ReviewIsFresh
  <2>3. /\ O!BooksMatchOrders' /\ \A o \in OrderIDs : status'[o] = "looked" => O!IsRecharge(o)
        /\ \A o \in overtaken' : status'[o] \in {"approved", "rejected"}
    <3>1. \A o \in OrderIDs : \/ status'[o] = status[o]
                              \/ status[o] = "looked" /\ status'[o] = "dead"
      BY DEF O!HandlersDie
    <3>2. rows' = rows /\ overtaken' = overtaken /\ overtaken \subseteq OrderIDs
      BY DEF O!HandlersDie, SysInv, O!TypeOK
    <3>3. ASSUME NEW o \in OrderIDs PROVE O!Booked(o)'
      <4>1. O!Booked(o) /\ \A t : O!Due(o, t)' <=> O!Due(o, t)
        BY <3>1 DEF SysInv, O!OrdersInv, O!BooksMatchOrders, O!Due, O!Filed, O!IsRecharge
      <4> QED BY <3>2, <4>1 DEF O!Booked, O!IsRecharge
    <3> QED BY <3>1, <3>2, <3>3 DEF SysInv, O!OrdersInv, O!BooksMatchOrders
  <2> QED BY <2>1, <2>2, <2>3 DEF O!OrdersInv, O!IsRecharge
<1>3. UNCHANGED <<bal, frz, packet, adjusted>>
  BY DEF HandlersDie, stores, O!HandlersDie
<1>4. O!FrozenRows' = O!FrozenRows /\ O!BroughtRows' = O!BroughtRows
  BY RowsRest DEF O!HandlersDie
<1>5. FrozenAddsUp'
  BY <1>3, <1>4, HeldRests, KeptRests DEF SysInv, FrozenAddsUp
<1>6. MoneyEntersByOrders'
  BY <1>3, <1>4 DEF SysInv, MoneyEntersByOrders, Assets
<1> QED BY <1>1, <1>2, <1>5, <1>6 DEF SysInv

LEMMA SysKeeps ==
  ASSUME SysInv, [SysNext]_sysvars
  PROVE  SysInv'
<1>1. CASE UNCHANGED sysvars
  <2>1. /\ UNCHANGED <<bal, frz>> /\ UNCHANGED packetvars /\ UNCHANGED ordervars
        /\ UNCHANGED <<packet, status, adjusted>>
    BY <1>1 DEF sysvars, packetvars, ordervars
  <2>2. TypeOK' /\ PacketInv' /\ O!TypeOK' /\ O!OrdersInv'
    BY <2>1, PacketsKeep, OrdersRest DEF SysInv, TypeOK, WalletType
  <2>3. O!FrozenRows' = O!FrozenRows /\ O!BroughtRows' = O!BroughtRows
    BY <2>1, RowsRest DEF ordervars
  <2>4. FrozenAddsUp' /\ MoneyEntersByOrders'
    BY <2>1, <2>3, HeldRests, KeptRests DEF SysInv, FrozenAddsUp, MoneyEntersByOrders, Assets
  <2> QED BY <2>2, <2>4 DEF SysInv
<1> QED BY <1>1, PacketStepKeeps, OrderStepKeeps, CrashKeeps DEF SysNext, SysCrash

LEMMA SysStarts ==
  ASSUME SysInit
  PROVE  SysInv
<1>1. TypeOK /\ PacketInv
  BY InitSafe DEF SysInit
<1>2. O!TypeOK /\ O!OrdersInv
  <2>1. OP!Init
    BY DEF SysInit, O!Init, OP!Init, O!WalletInit, OP!WalletInit, O!Titles, OP!Titles,
           O!NotReviewing, OP!NotReviewing
  <2> QED BY <2>1, SameAssumptions, SameState, OP!TypeInit, OP!OrdersInit
<1>3. bal = InitBalance /\ frz = [u \in Users |-> 0] /\ adjusted = [u \in Users |-> 0]
      /\ rows = [o \in OrderIDs |-> [t \in O!Titles |-> 0]]
  BY DEF SysInit, Init, WalletInit, O!Init
<1>6. \A o \in OrderIDs : O!FrozenRows[o] = 0 /\ O!BroughtRows[o] = 0
  <2> SUFFICES ASSUME NEW o \in OrderIDs PROVE O!FrozenRows[o] = 0 /\ O!BroughtRows[o] = 0
    OBVIOUS
  <2>1. /\ rows[o]["credit"] = 0 /\ rows[o]["freeze"] = 0 /\ rows[o]["payout"] = 0
        /\ rows[o]["fee"] = 0 /\ rows[o]["unfreeze"] = 0
    BY <1>3 DEF O!Titles
  <2>2. PICK a \in Int, f \in Int : Order[o].amount = a /\ Order[o].fee = f
    BY OrdersAssumption DEF OrderType
  <2> QED BY <2>1, <2>2 DEF O!FrozenRows, O!BroughtRows, O!BalanceRows
<1>4. FrozenAddsUp
  <2> SUFFICES ASSUME NEW u \in Users PROVE frz[u] = HeldBy(u) + KeptByOrders(u)
    BY DEF FrozenAddsUp
  <2>1. HeldBy(u) = 0 /\ frz[u] = 0
    BY <1>3, InitMoney DEF SysInit, FrozenIsHeld
  <2>2. \A o \in OrderIDs : O!FrozenRows[o] = 0
    BY <1>6
  <2>3. KeptByOrders(u) = 0
    BY <2>2, OrdersAreFinite, SumType DEF KeptByOrders
  <2> QED BY <2>1, <2>3
<1>5. MoneyEntersByOrders
  <2>1. Assets = SumFunction(InitBalance)
    BY InitMoney DEF SysInit, MoneyConserved
  <2>2. SumFunction(adjusted) = 0
    <3>1. SumFunction(adjusted) = SumFunctionOnSet(adjusted, Users) /\ \A u \in Users : adjusted[u] = 0
      BY <1>3 DEF SumFunction
    <3> QED BY <3>1, FiniteUsers, SumType
  <2>3. SumFunction(O!BroughtRows) = 0
    <3>1. \A o \in OrderIDs : O!BroughtRows[o] = 0
      BY <1>6
    <3>2. SumFunction(O!BroughtRows) = SumFunctionOnSet(O!BroughtRows, OrderIDs)
      BY DEF SumFunction, O!BroughtRows
    <3> QED BY <3>1, <3>2, OrdersAreFinite, SumType
  <2>4. SumFunction(InitBalance) \in Int
    <3>1. SumFunction(InitBalance) = SumFunctionOnSet(InitBalance, Users)
          /\ \A u \in Users : InitBalance[u] \in Int
      BY WalletAssumption DEF SumFunction
    <3> QED BY <3>1, FiniteUsers, SumType
  <2> QED BY <2>1, <2>2, <2>3, <2>4 DEF MoneyEntersByOrders
<1> QED BY <1>1, <1>2, <1>4, <1>5 DEF SysInv

LEMMA SysSafe == SysSpec => []SysInv
<1>1. SysInit => SysInv
  BY SysStarts
<1>2. SysInv /\ [SysNext]_sysvars => SysInv'
  BY SysKeeps
<1> QED BY <1>1, <1>2, PTL DEF SysSpec

\* A user's frozen money is what the user's packets have not paid out and what
\* the rows of the user's orders keep, to the cent, and an order that no two
\* reviews decided keeps exactly what it asks for while it waits: handlers of
\* packets and of orders, working side by side, never spend each other's.
THEOREM FrozenHasOwners == SysSpec => []FrozenIsOwned
<1>1. SysInv => FrozenIsOwned
  BY OrderKeeps DEF SysInv, FrozenIsOwned, FrozenAddsUp
<1> QED BY <1>1, SysSafe, PTL

\* What all users own together changes by the credits of recharges, by what
\* withdrawals pay out with their fees, and by adjustments, and by nothing else.
THEOREM MoneyEntersOnlyByOrders == SysSpec => []MoneyEntersByOrders
<1>1. SysInv => MoneyEntersByOrders
  BY DEF SysInv
<1> QED BY <1>1, SysSafe, PTL

\* Beside the packets, as by themselves, orders are decided from what is still
\* true of them, and every order has the rows its status calls for.
THEOREM SystemBooksAreRight == SysSpec => []OrdersSafety /\ []BooksMatchOrders
<1>1. SysInv => OrdersSafety /\ BooksMatchOrders
  BY DEF SysInv, OrdersSafety, BooksMatchOrders, O!OrdersSafety, O!OrdersInv
<1> QED BY <1>1, SysSafe, PTL

\* Beside the packets, too, only a review that had begun before a decision
\* changes it.
THEOREM SystemDecisionsAreFinal == SysSpec => DecisionIsFinal
<1> DEFINE Kept == \A o \in OrderIDs : status[o] \in {"approved", "rejected"} =>
                     /\ status'[o] \in {"approved", "rejected"}
                     /\ o \notin overtaken' => status'[o] = status[o] /\ rows'[o] = rows[o]
<1>1. SysInv /\ [SysNext]_sysvars => Kept
  <2> SUFFICES ASSUME SysInv, [SysNext]_sysvars PROVE Kept
    OBVIOUS
  <2>1. CASE OrderStep
    BY <2>1, OrdersKeep DEF SysInv, OrderStep, OrderMove
  <2>2. CASE PacketStep \/ UNCHANGED sysvars
    BY <2>2 DEF PacketStep, sysvars, ordervars
  <2>3. CASE SysCrash
    BY <2>3 DEF SysCrash, O!HandlersDie
  <2> QED BY <2>1, <2>2, <2>3 DEF SysNext
<1>2. SysInv /\ [SysNext]_sysvars => [Kept]_O!vars
  BY <1>1
<1> QED BY <1>2, SysSafe, PTL DEF SysSpec, DecisionIsFinal, O!DecisionIsFinal

\* The user has no withdrawal that two reviews have decided.
OnceDecided(u) == \A o \in overtaken : O!Owner(o) = u => O!IsRecharge(o)

\* The expiry worker can always refund an open packet, and a reviewer can
\* always give a pending withdrawal back: mutateUser never answers 4102 for
\* money that the other component has used.  A user with a withdrawal that two
\* reviews have decided may lack it, and nobody else.
FrozenSuffices ==
  /\ \A m \in MsgIDs : packet[m].status = "open" /\ OnceDecided(Sender(m)) =>
       CanMutate(Sender(m), Refundable(m), -Refundable(m))
  /\ \A o \in OrderIDs :
       ~O!IsRecharge(o) /\ status[o] = "pending" /\ OnceDecided(O!Owner(o)) =>
         CanMutate(O!Owner(o), Order[o].amount, -Order[o].amount)

LEMMA KeptWhenOnceDecided ==
  ASSUME SysInv, NEW u \in Users, OnceDecided(u)
  PROVE  /\ KeptByOrders(u) \in Nat
         /\ \A o \in O!OrdersOf(u) : O!FrozenRows[o] \in Nat /\ O!FrozenRows[o] <= KeptByOrders(u)
<1>1. IsFiniteSet(O!OrdersOf(u)) /\ O!OrdersOf(u) \subseteq OrderIDs
  BY OrdersAreFinite
<1>2. \A o \in O!OrdersOf(u) : O!FrozenRows[o] \in Nat
  <2> SUFFICES ASSUME NEW o \in O!OrdersOf(u) PROVE O!FrozenRows[o] \in Nat
    OBVIOUS
  <2>1. o \in OrderIDs /\ (o \in overtaken => O!IsRecharge(o))
    BY <1>1 DEF OnceDecided, O!OrdersOf
  <2> HIDE DEF O!FrozenRows, O!PendingOf
  <2> QED BY <2>1, OrderKeeps DEF SysInv
<1> HIDE DEF O!FrozenRows, O!OrdersOf
<1>3. SumFunctionOnSet(O!FrozenRows, O!OrdersOf(u)) \in Nat
  BY <1>1, <1>2, SumType
<1>4. \A o \in O!OrdersOf(u) : O!FrozenRows[o] <= SumFunctionOnSet(O!FrozenRows, O!OrdersOf(u))
  <2> SUFFICES ASSUME NEW o \in O!OrdersOf(u)
               PROVE  SumFunctionOnSet(O!FrozenRows, O!OrdersOf(u)) >= O!FrozenRows[o]
    BY <1>2, <1>3
  <2> QED BY <1>1, <1>2, SumAtLeast
<1> QED BY <1>2, <1>3, <1>4 DEF KeptByOrders

\* Neither component finds less frozen money than it is about to release.
THEOREM NobodyLacksFrozen == SysSpec => []FrozenSuffices
<1>1. SysInv => FrozenSuffices
  <2> SUFFICES ASSUME SysInv PROVE FrozenSuffices
    OBVIOUS
  <2>1. ASSUME NEW u \in Users
        PROVE  /\ frz[u] = HeldBy(u) + KeptByOrders(u)
               /\ bal[u] \in Nat /\ frz[u] \in Nat /\ HeldBy(u) \in Nat
    BY HeldByType DEF SysInv, FrozenAddsUp, TypeOK, WalletType
  <2>2. ASSUME NEW m \in MsgIDs, packet[m].status = "open", OnceDecided(Sender(m))
        PROVE  CanMutate(Sender(m), Refundable(m), -Refundable(m))
    <3>1. Sender(m) \in Users
      BY Worth
    <3>2. AbsHeld[m] = Refundable(m) /\ AbsHeld[m] \in Nat /\ AbsHeld[m] <= HeldBy(Sender(m))
      BY <2>2, <3>1, HeldType, HeldByType DEF AbsHeld, Holding, Remain, Refundable, SysInv
    <3>3. KeptByOrders(Sender(m)) \in Nat
      BY <2>2, <3>1, KeptWhenOnceDecided
    <3> QED BY <2>1, <3>1, <3>2, <3>3 DEF CanMutate
  <2>3. ASSUME NEW o \in OrderIDs, ~O!IsRecharge(o), status[o] = "pending", OnceDecided(O!Owner(o))
        PROVE  CanMutate(O!Owner(o), Order[o].amount, -Order[o].amount)
    <3>1. O!Owner(o) \in Users /\ o \in O!OrdersOf(O!Owner(o))
      BY OrderSumsType DEF O!OrdersOf, SysInv
    <3>2. o \notin overtaken
      BY <2>3 DEF OnceDecided
    <3>3. /\ O!FrozenRows[o] = O!PendingOf[o]
          /\ O!PendingOf[o] = Order[o].amount /\ O!PendingOf[o] \in Nat
      BY <2>3, <3>2, OrderKeeps DEF O!PendingOf, SysInv
    <3>4. KeptByOrders(O!Owner(o)) \in Nat /\ O!FrozenRows[o] <= KeptByOrders(O!Owner(o))
      BY <2>3, <3>1, KeptWhenOnceDecided
    <3> HIDE DEF O!FrozenRows, O!PendingOf
    <3>5. Order[o].amount \in Nat /\ Order[o].amount <= KeptByOrders(O!Owner(o))
      BY <3>3, <3>4
    <3> QED BY <2>1, <3>1, <3>4, <3>5 DEF CanMutate
  <2> QED BY <2>2, <2>3 DEF FrozenSuffices
<1> QED BY <1>1, SysSafe, PTL

-----------------------------------------------------------------------------
(* Transactions, lock by lock: the constants, and what a transaction's     *)
(* state contains.                                                         *)

LEMMA JobFacts ==
  ASSUME NEW t \in Txs
  PROVE  /\ Op(t) \in {"freeze", "settle", "refund"}
         /\ Msg(t) \in Packets /\ Payer(t) \in Users /\ Claimer(t) \in Users
         /\ Job[t].amount \in Nat \ {0}
         /\ Funding[Msg(t)].total \in Nat \ {0} /\ Funding[Msg(t)].count \in Nat \ {0}
BY LocksAssumption DEF Op, Msg, Payer, Claimer, JobType, FundType

LEMMA RowFacts ==
  /\ \A m \in Packets : <<"packet", m>> \in Rows
  /\ \A u \in Users : <<"user", u>> \in Rows
  /\ \A m, u : <<"packet", m>> # <<"user", u>>
BY DEF Rows

LEMMA ShareFacts ==
  ASSUME LocksType, NEW t \in Txs
  PROVE  /\ Share(t) \in Int
         /\ Left(t, tx[t].read) \in Int
         /\ Usable(t, tx[t].read) /\ Op(t) = "settle" =>
              Share(t) >= 1 /\ Share(t) <= Left(t, tx[t].read)
<1>1. tx[t].read \in StoredRow
  BY DEF LocksType, TxState
<1>2. Left(t, tx[t].read) \in Int
  BY <1>1, JobFacts DEF Left, StoredRow
<1> QED BY <1>2, JobFacts DEF Share, Usable

LEMMA SenderChangeFacts ==
  ASSUME LocksType, NEW t \in Txs
  PROVE  SenderChange(t).bal \in Int /\ SenderChange(t).frz \in Int
BY JobFacts, ShareFacts DEF SenderChange

(***************************************************************************)
(* A step of one transaction leaves the others as they were, unless it     *)
(* takes a lock they hold or changes a row they have read.                 *)
(***************************************************************************)
LEMMA OthersKeep ==
  ASSUME NEW s \in Txs, TxInv(s), tx'[s] = tx[s],
         \A u \in tx[s].wrote : bal'[u] = bal[u] /\ frz'[u] = frz[u]
  PROVE  TxInv(s)'
<1>1. /\ Op(s)' = Op(s) /\ Msg(s)' = Msg(s)
      /\ Payer(s)' = Payer(s) /\ Claimer(s)' = Claimer(s)
  BY DEF Op, Msg, Payer, Claimer
<1>2. Share(s)' = Share(s) /\ Left(s, tx[s].read)' = Left(s, tx[s].read)
  BY DEF Share, Left, Msg
<1>3. SenderChange(s)' = SenderChange(s)
  BY <1>1, <1>2, Zenon DEF SenderChange
<1>4. Paid(s)' = Paid(s)
  BY <1>1, <1>2 DEF Paid
<1>5. Usable(s, tx[s].read)' <=> Usable(s, tx[s].read)
  BY <1>1, <1>2 DEF Usable
<1>6. ASSUME NEW u \in tx[s].wrote
      PROVE  /\ WillWrite(s, u, 0)' = WillWrite(s, u, 0)
             /\ WillWrite(s, u, Paid(s))' = WillWrite(s, u, Paid(s))
  BY <1>1, <1>3, <1>4 DEF WillWrite
<1>7. Payer(s) \in tx[s].wrote => WillWrite(s, Payer(s), 0)' = WillWrite(s, Payer(s), 0)
  BY <1>6
<1> QED BY <1>1, <1>5, <1>6, <1>7 DEF TxInv

\* The lock holders after transaction t has taken row and gone on.
LEMMA HeldAfterAcquire ==
  ASSUME LocksType, LocksHeld, NEW t \in Txs, NEW row \in Rows, Acquire(t, row),
         UNCHANGED stored,
         NEW st \in TxState, tx' = [tx EXCEPT ![t] = st], st.next \in Running,
         \A u \in st.wrote : holder'[<<"user", u>>] = t,
         Op(t) # "freeze" /\ st.next # "packet" =>
           holder'[<<"packet", Msg(t)>>] = t /\ st.read = stored[Msg(t)]
  PROVE  LocksHeld' /\ holder' \in [Rows -> Txs \cup {Free}]
<1>1. /\ tx'[t] = st
      /\ \A s \in Txs \ {t} : tx'[s] = tx[s]
  BY DEF LocksType
<1>2. /\ holder'[row] = t
      /\ \A r \in Rows \ {row} : holder'[r] = holder[r]
      /\ holder' \in [Rows -> Txs \cup {Free}]
  BY DEF Acquire, LocksType
<1>3. \A r \in Rows : holder[r] \notin {Free, t} => holder'[r] = holder[r]
  BY <1>2 DEF Acquire
<1>4. ASSUME NEW r \in Rows, holder'[r] # Free PROVE tx'[holder'[r]].next \in Running
  <2>1. CASE holder'[r] = t
    BY <2>1, <1>1
  <2>2. CASE holder'[r] # t
    <3>1. r # row /\ holder'[r] = holder[r] /\ holder[r] \in Txs
      BY <2>2, <1>2, <1>4 DEF LocksType
    <3> QED BY <3>1, <2>2, <1>1, <1>4 DEF LocksHeld
  <2> QED BY <2>1, <2>2
<1>5. ASSUME NEW s \in Txs, tx'[s].next \in Running
      PROVE  /\ \A u \in tx'[s].wrote : holder'[<<"user", u>>] = s
             /\ Op(s) # "freeze" /\ tx'[s].next # "packet" =>
                  holder'[<<"packet", Msg(s)>>] = s /\ tx'[s].read = stored'[Msg(s)]
  <2>1. CASE s = t
    BY <2>1, <1>1
  <2>2. CASE s # t
    <3>1. tx'[s] = tx[s] /\ s # Free
      BY <2>2, <1>1, LocksAssumption
    <3>2. \A u \in tx[s].wrote : u \in Users
      BY DEF LocksType, TxState
    <3> QED BY <3>1, <3>2, <2>2, <1>3, <1>5, RowFacts, JobFacts DEF LocksHeld
  <2> QED BY <2>1, <2>2
<1>6. Op(t)' = Op(t)
  BY DEF Op
<1> QED BY <1>2, <1>4, <1>5 DEF LocksHeld, Op, Msg

\* The lock holders after transaction t has ended.
LEMMA HeldAfterRelease ==
  ASSUME LocksType, LocksHeld, NEW t \in Txs, NEW how \in Ended, Release(t),
         tx' = [tx EXCEPT ![t].next = how],
         \A s \in Txs \ {t} : tx[s].next \in Running /\ Op(s) # "freeze"
                                /\ tx[s].next # "packet" => stored'[Msg(s)] = stored[Msg(s)]
  PROVE  LocksHeld' /\ holder' \in [Rows -> Txs \cup {Free}]
<1>1. /\ tx'[t].next = how
      /\ \A s \in Txs \ {t} : tx'[s] = tx[s]
  BY DEF LocksType, TxState
<1>2. /\ \A r \in Rows : holder[r] = t => holder'[r] = Free
      /\ \A r \in Rows : holder[r] # t => holder'[r] = holder[r]
      /\ holder' \in [Rows -> Txs \cup {Free}]
  BY DEF Release, LocksType
<1>3. ASSUME NEW r \in Rows, holder'[r] # Free PROVE tx'[holder'[r]].next \in Running
  <2>1. holder[r] # t /\ holder'[r] = holder[r] /\ holder[r] \in Txs
    BY <1>2, <1>3 DEF LocksType
  <2> QED BY <2>1, <1>1, <1>3 DEF LocksHeld
<1>4. ASSUME NEW s \in Txs, tx'[s].next \in Running
      PROVE  /\ \A u \in tx'[s].wrote : holder'[<<"user", u>>] = s
             /\ Op(s) # "freeze" /\ tx'[s].next # "packet" =>
                  holder'[<<"packet", Msg(s)>>] = s /\ tx'[s].read = stored'[Msg(s)]
  <2>1. s # t /\ tx'[s] = tx[s]
    BY <1>1, <1>4 DEF Ended, Running
  <2>2. \A u \in tx[s].wrote : u \in Users
    BY DEF LocksType, TxState
  <2> QED BY <2>1, <2>2, <1>2, <1>4, RowFacts, JobFacts DEF LocksHeld
<1> QED BY <1>2, <1>3, <1>4 DEF LocksHeld, Op, Msg

(***************************************************************************)
(* LocksInv, step by step.                                                 *)
(***************************************************************************)
LEMMA InvEnd ==
  ASSUME LocksInv, NEW t \in Txs, NEW how \in Ended, End(t, how)
  PROVE  LocksInv'
<1>0. LocksType /\ LocksHeld /\ \A s \in Txs : TxInv(s)
  BY DEF LocksInv
<1>1. tx' = [tx EXCEPT ![t].next = how] /\ UNCHANGED <<bal, frz, stored>>
  BY DEF End
<1>2. LocksHeld' /\ holder' \in [Rows -> Txs \cup {Free}]
  BY <1>0, <1>1, HeldAfterRelease DEF End
<1>3. tx' \in [Txs -> TxState] /\ tx'[t].next = how /\ \A s \in Txs \ {t} : tx'[s] = tx[s]
  BY <1>0, <1>1 DEF LocksType, TxState
<1>4. LocksType'
  BY <1>0, <1>1, <1>2, <1>3 DEF LocksType, WalletType
<1>5. TxInv(t)'
  BY <1>3 DEF TxInv, Ended
<1>6. \A s \in Txs \ {t} : TxInv(s)'
  BY <1>0, <1>1, <1>3, OthersKeep
<1> QED BY <1>2, <1>4, <1>5, <1>6 DEF LocksInv

LEMMA InvBegin ==
  ASSUME LocksInv, NEW t \in Txs, Begin(t)
  PROVE  LocksInv'
<1>0. LocksType /\ LocksHeld /\ \A s \in Txs : TxInv(s)
  BY DEF LocksInv
<1> DEFINE nx == IF Op(t) = "freeze" THEN "sender" ELSE "packet"
<1>1. /\ tx' = [tx EXCEPT ![t].next = nx] /\ nx \in {"sender", "packet"}
      /\ UNCHANGED <<bal, frz, stored, holder>> /\ tx[t].next = "begin"
  BY DEF Begin
<1>2. /\ tx'[t] = [tx[t] EXCEPT !.next = nx]
      /\ tx' \in [Txs -> TxState]
      /\ \A s \in Txs \ {t} : tx'[s] = tx[s]
  <2> HIDE DEF nx
  <2>1. tx \in [Txs -> TxState]
    BY <1>0 DEF LocksType
  <2>2. [tx[t] EXCEPT !.next = nx] \in TxState
    BY <1>1, <2>1 DEF TxState, Running
  <2> QED BY <1>1, <2>1, <2>2
<1>3. /\ tx'[t].next = nx /\ tx'[t].wrote = {}
  BY <1>0, <1>1, <1>2 DEF LocksType, TxState, TxInv
<1>4. LocksType'
  BY <1>0, <1>1, <1>2 DEF LocksType, WalletType
<1>5. LocksHeld'
  <2>1. \A row \in Rows : holder[row] # t
    BY <1>0, <1>1, LocksAssumption DEF LocksHeld, Running
  <2>2. \A row \in Rows : holder'[row] # Free => tx'[holder'[row]].next \in Running
    BY <1>0, <1>1, <1>2, <2>1 DEF LocksHeld, LocksType
  <2>3. Op(t) # "freeze" => tx'[t].next = "packet"
    BY <1>3
  <2> QED BY <1>0, <1>1, <1>2, <1>3, <2>2, <2>3 DEF LocksHeld, Op, Msg
<1>6. TxInv(t)'
  BY <1>1, <1>3 DEF TxInv, Op
<1>7. \A s \in Txs \ {t} : TxInv(s)'
  BY <1>0, <1>1, <1>2, OthersKeep
<1> QED BY <1>4, <1>5, <1>6, <1>7 DEF LocksInv

LEMMA InvLockPacket ==
  ASSUME LocksInv, NEW t \in Txs, LockPacket(t)
  PROVE  LocksInv'
<1>0. LocksType /\ LocksHeld /\ \A s \in Txs : TxInv(s)
  BY DEF LocksInv
<1> DEFINE p == stored[Msg(t)]
           st == [tx[t] EXCEPT !.next = "sender", !.read = p]
<1>1. CASE End(t, "rolledback")
  BY <1>1, InvEnd DEF Ended
<1>2. CASE /\ Usable(t, p) /\ Acquire(t, <<"packet", Msg(t)>>)
           /\ tx' = [tx EXCEPT ![t].next = "sender", ![t].read = p]
           /\ UNCHANGED <<bal, frz, stored>>
  <2>1. st \in TxState /\ tx' = [tx EXCEPT ![t] = st]
    BY <1>0, <1>2, JobFacts DEF LocksType, TxState, Running
  <2>2. /\ tx'[t] = st
        /\ \A s \in Txs \ {t} : tx'[s] = tx[s]
        /\ st.next = "sender" /\ st.read = p /\ st.wrote = {}
    BY <1>0, <2>1 DEF LockPacket, LocksType, TxState, TxInv
  <2>3. holder'[<<"packet", Msg(t)>>] = t
    BY <1>0, <1>2, RowFacts, JobFacts DEF Acquire, LocksType
  <2>4. LocksHeld' /\ holder' \in [Rows -> Txs \cup {Free}]
    BY <1>0, <1>2, <2>1, <2>2, <2>3, RowFacts, JobFacts, HeldAfterAcquire DEF Running
  <2>5. LocksType'
    BY <1>0, <1>2, <2>1, <2>4 DEF LocksType, WalletType
  <2>6. TxInv(t)'
    BY <1>2, <2>2 DEF TxInv, Usable, Left, Op, Msg
  <2>7. \A s \in Txs \ {t} : TxInv(s)'
    BY <1>0, <1>2, <2>2, OthersKeep
  <2> QED BY <2>4, <2>5, <2>6, <2>7 DEF LocksInv
<1> QED BY <1>1, <1>2 DEF LockPacket

LEMMA SeesRow ==
  ASSUME LocksType, NEW t \in Txs, NEW u \in Users
  PROVE  Sees(t, u) \in UserRow
BY DEF Sees, LocksType, WalletType, UserRow, TxState

\* A change of a user row ends the transaction or keeps all of LocksInv but
\* what it says of the transaction itself.
LEMMA RowMutated ==
  ASSUME LocksInv, NEW t \in Txs, NEW u \in Users, NEW dBalance \in Int, NEW dFrozen \in Int,
         NEW then \in {"claimer", "commit"}, MutateRow(t, u, dBalance, dFrozen, then),
         tx[t].next \in {"sender", "claimer"},
         ~End(t, "rolledback")
  PROVE  /\ LocksType' /\ LocksHeld' /\ \A s \in Txs \ {t} : TxInv(s)'
         /\ UNCHANGED <<bal, frz, stored>>
         /\ tx'[t].next = then /\ tx'[t].read = tx[t].read
         /\ tx'[t].wrote = tx[t].wrote \cup {u}
         /\ tx'[t].write[u] = [bal |-> Sees(t, u).bal + dBalance,
                              frz |-> Sees(t, u).frz + dFrozen]
         /\ \A v \in Users \ {u} : tx'[t].write[v] = tx[t].write[v]
<1>0. LocksType /\ LocksHeld /\ \A s \in Txs : TxInv(s)
  BY DEF LocksInv
<1> DEFINE new == [bal |-> Sees(t, u).bal + dBalance, frz |-> Sees(t, u).frz + dFrozen]
           st == [tx[t] EXCEPT !.next = then, !.wrote = @ \cup {u},
                               !.write = [@ EXCEPT ![u] = new]]
<1>1. /\ Covered(new) /\ Acquire(t, <<"user", u>>) /\ UNCHANGED <<bal, frz, stored>>
      /\ tx' = [tx EXCEPT ![t].next = then, ![t].wrote = @ \cup {u},
                          ![t].write = [@ EXCEPT ![u] = new]]
  BY DEF MutateRow
<1>2. new \in UserRow
  BY <1>0, <1>1, SeesRow DEF Covered, UserRow
<1>3. /\ tx[t] \in TxState /\ tx \in [Txs -> TxState]
      /\ tx[t].next \in Running
  BY <1>0 DEF LocksType, Running
<1>4. st \in TxState /\ tx' = [tx EXCEPT ![t] = st]
  <2> HIDE DEF new
  <2> QED BY <1>1, <1>2, <1>3 DEF TxState, Running
<1>5. /\ tx'[t] = st
      /\ \A s \in Txs \ {t} : tx'[s] = tx[s]
  BY <1>3, <1>4
<1>6. /\ st.next = then /\ st.read = tx[t].read /\ st.wrote = tx[t].wrote \cup {u}
      /\ st.write[u] = new
      /\ \A v \in Users \ {u} : st.write[v] = tx[t].write[v]
  <2> HIDE DEF new
  <2> QED BY <1>3 DEF TxState
<1>7. \A v \in st.wrote : holder'[<<"user", v>>] = t
  <2>1. \A v \in tx[t].wrote : v \in Users /\ holder[<<"user", v>>] = t
    BY <1>0, <1>3 DEF LocksHeld, TxState
  <2> QED BY <1>0, <1>1, <1>6, <2>1, RowFacts DEF Acquire, LocksType
<1>8. Op(t) # "freeze" /\ st.next # "packet" =>
        holder'[<<"packet", Msg(t)>>] = t /\ st.read = stored[Msg(t)]
  <2>1. Op(t) # "freeze" => holder[<<"packet", Msg(t)>>] = t /\ tx[t].read = stored[Msg(t)]
    BY <1>0, <1>3 DEF LocksHeld
  <2> QED BY <1>0, <1>1, <1>6, <2>1, RowFacts, JobFacts DEF Acquire, LocksType
<1>9. LocksHeld' /\ holder' \in [Rows -> Txs \cup {Free}]
  <2> HIDE DEF st
  <2>1. st.next \in Running
    BY <1>6 DEF Running
  <2> QED BY <1>0, <1>1, <1>4, <1>7, <1>8, <2>1, RowFacts, HeldAfterAcquire
<1>10. LocksType'
  BY <1>0, <1>1, <1>3, <1>4, <1>9 DEF LocksType, WalletType
<1>11. \A s \in Txs \ {t} : TxInv(s)'
  BY <1>0, <1>1, <1>5, OthersKeep
<1> HIDE DEF st
<1> QED BY <1>1, <1>5, <1>6, <1>9, <1>10, <1>11

\* What a transaction computes from its job and from what it read stays the
\* same while it keeps what it read.
LEMMA SameReadSamePlan ==
  ASSUME NEW t \in Txs, NEW u, tx'[t].read = tx[t].read, UNCHANGED <<bal, frz>>
  PROVE  /\ Op(t)' = Op(t) /\ Payer(t)' = Payer(t) /\ Claimer(t)' = Claimer(t)
         /\ Paid(t)' = Paid(t) /\ SenderChange(t)' = SenderChange(t)
         /\ Usable(t, tx[t].read)' <=> Usable(t, tx[t].read)
         /\ WillWrite(t, u, 0)' = WillWrite(t, u, 0)
         /\ WillWrite(t, u, Paid(t))' = WillWrite(t, u, Paid(t))
<1>1. /\ Op(t)' = Op(t) /\ Msg(t)' = Msg(t)
      /\ Payer(t)' = Payer(t) /\ Claimer(t)' = Claimer(t)
  BY DEF Op, Msg, Payer, Claimer
<1>2. Share(t)' = Share(t) /\ Left(t, tx[t].read)' = Left(t, tx[t].read)
  BY DEF Share, Left, Msg
<1>3. SenderChange(t)' = SenderChange(t)
  BY <1>1, <1>2, Zenon DEF SenderChange
<1>4. Paid(t)' = Paid(t)
  BY <1>1, <1>2 DEF Paid
<1>6. /\ WillWrite(t, u, 0)' = WillWrite(t, u, 0)
      /\ WillWrite(t, u, Paid(t))' = WillWrite(t, u, Paid(t))
  BY <1>1, <1>3, <1>4 DEF WillWrite
<1>5. Usable(t, tx[t].read)' <=> Usable(t, tx[t].read)
  BY <1>1, <1>2 DEF Usable
<1> QED BY <1>1, <1>2, <1>3, <1>4, <1>5, <1>6

LEMMA InvMutateSender ==
  ASSUME LocksInv, NEW t \in Txs, MutateSender(t)
  PROVE  LocksInv'
<1>1. CASE End(t, "rolledback")
  BY <1>1, InvEnd DEF Ended
<1>2. CASE ~End(t, "rolledback")
  <2> DEFINE u == Payer(t)
             d == SenderChange(t)
             then == IF Op(t) = "settle" THEN "claimer" ELSE "commit"
  <2>0. LocksType /\ TxInv(t) /\ tx[t].next = "sender"
    BY DEF LocksInv, MutateSender
  <2>1. u \in Users /\ d.bal \in Int /\ d.frz \in Int
    BY <2>0, JobFacts, SenderChangeFacts
  <2>2. MutateRow(t, u, d.bal, d.frz, then)
    BY DEF MutateSender
  <2> HIDE DEF u, d, then
  <2>3. then \in {"claimer", "commit"}
    BY DEF then
  <2>4. /\ LocksType' /\ LocksHeld' /\ \A s \in Txs \ {t} : TxInv(s)'
        /\ UNCHANGED <<bal, frz, stored>>
        /\ tx'[t].next = then /\ tx'[t].read = tx[t].read
        /\ tx'[t].wrote = tx[t].wrote \cup {u}
        /\ tx'[t].write[u] = [bal |-> Sees(t, u).bal + d.bal, frz |-> Sees(t, u).frz + d.frz]
    BY <1>2, <2>0, <2>1, <2>2, <2>3, RowMutated
  <2>5. tx[t].wrote = {} /\ (Op(t) # "freeze" => Usable(t, tx[t].read))
    BY <2>0 DEF TxInv
  <2>6. Sees(t, u) = [bal |-> bal[u], frz |-> frz[u]]
    BY <2>5 DEF Sees
  <2>7. bal[u] \in Int /\ frz[u] \in Int
    BY <2>0, <2>1 DEF LocksType, WalletType
  <2>8. tx'[t].write[u] = WillWrite(t, u, 0)
    BY <2>1, <2>4, <2>6, <2>7 DEF WillWrite, u, d
  <2>9. Op(t) # "settle" => Paid(t) = 0
    BY DEF Paid
  <2>10. TxInv(t)'
    <3>1. tx'[t].wrote = {u}
      BY <2>4, <2>5
    <3>2. /\ Op(t)' = Op(t) /\ Payer(t)' = u /\ Paid(t)' = Paid(t)
          /\ Usable(t, tx[t].read)' <=> Usable(t, tx[t].read)
          /\ WillWrite(t, u, 0)' = WillWrite(t, u, 0)
          /\ WillWrite(t, u, Paid(t))' = WillWrite(t, u, Paid(t))
      BY <2>4, SameReadSamePlan DEF u
    <3>4. CASE Op(t) = "settle"
      <4>1. tx'[t].next = "claimer"
        BY <2>4, <3>4 DEF then
      <4>2. tx'[t].write[u] = WillWrite(t, u, 0)'
        BY <2>8, <3>2
      <4> QED BY <2>5, <3>1, <3>2, <3>4, <4>1, <4>2 DEF TxInv
    <3>5. CASE Op(t) # "settle"
      <4>1. tx'[t].next = "commit"
        BY <2>4, <3>5 DEF then
      <4>2. tx'[t].write[u] = WillWrite(t, u, Paid(t))'
        BY <2>8, <2>9, <3>2, <3>5
      <4> QED BY <2>5, <3>1, <3>2, <3>5, <4>1, <4>2 DEF TxInv
    <3> QED BY <3>4, <3>5
  <2> QED BY <2>4, <2>10 DEF LocksInv
<1> QED BY <1>1, <1>2

LEMMA InvMutateClaimer ==
  ASSUME LocksInv, NEW t \in Txs, MutateClaimer(t)
  PROVE  LocksInv'
<1>1. CASE End(t, "rolledback")
  BY <1>1, InvEnd DEF Ended
<1>2. CASE ~End(t, "rolledback")
  <2> DEFINE u == Claimer(t)
             s == Payer(t)
  <2>0. LocksType /\ TxInv(t) /\ tx[t].next = "claimer"
    BY DEF LocksInv, MutateClaimer
  <2>1. u \in Users /\ s \in Users /\ Share(t) \in Int
    BY <2>0, JobFacts, ShareFacts
  <2>2. MutateRow(t, u, Share(t), 0, "commit")
    BY DEF MutateClaimer
  <2>3. /\ Op(t) = "settle" /\ tx[t].wrote = {s} /\ Usable(t, tx[t].read)
        /\ tx[t].write[s] = WillWrite(t, s, 0)
    BY <2>0 DEF TxInv
  <2> HIDE DEF u, s
  <2>4. 0 \in Int /\ "commit" \in {"claimer", "commit"} /\ tx[t].next \in {"sender", "claimer"}
    BY <2>0
  <2>5. /\ LocksType' /\ LocksHeld' /\ \A v \in Txs \ {t} : TxInv(v)'
        /\ UNCHANGED <<bal, frz, stored>>
        /\ tx'[t].next = "commit" /\ tx'[t].read = tx[t].read
        /\ tx'[t].wrote = tx[t].wrote \cup {u}
        /\ tx'[t].write[u] = [bal |-> Sees(t, u).bal + Share(t), frz |-> Sees(t, u).frz + 0]
        /\ \A v \in Users \ {u} : tx'[t].write[v] = tx[t].write[v]
    BY <1>2, <2>1, <2>2, <2>4, RowMutated
  <2>6. Paid(t) = Share(t)
    BY <2>3 DEF Paid
  <2>7. /\ bal[u] \in Int /\ frz[u] \in Int /\ bal[s] \in Int /\ frz[s] \in Int
        /\ SenderChange(t).bal \in Int /\ SenderChange(t).frz \in Int
    BY <2>0, <2>1, SenderChangeFacts DEF LocksType, WalletType
  <2>8. tx'[t].write[u] = WillWrite(t, u, Paid(t))
    <3>1. CASE u = s
      <4>1. Sees(t, u) = WillWrite(t, s, 0)
        BY <2>3, <3>1 DEF Sees
      <4> QED BY <2>1, <2>5, <2>6, <2>7, <3>1, <4>1 DEF WillWrite, u, s
    <3>2. CASE u # s
      <4>1. Sees(t, u) = [bal |-> bal[u], frz |-> frz[u]]
        BY <2>3, <3>2 DEF Sees
      <4> QED BY <2>1, <2>5, <2>6, <2>7, <3>2, <4>1 DEF WillWrite, u, s
    <3> QED BY <3>1, <3>2
  <2>9. u # s => tx'[t].write[s] = WillWrite(t, s, Paid(t))
    BY <2>1, <2>3, <2>5, <2>7 DEF WillWrite, u, s
  <2>10. /\ Op(t)' = Op(t) /\ Payer(t)' = s /\ Claimer(t)' = u
         /\ Usable(t, tx[t].read)' <=> Usable(t, tx[t].read)
    BY <2>5, SameReadSamePlan DEF u, s
  <2>11. tx'[t].wrote = {s, u}
    BY <2>3, <2>5
  <2>12. ASSUME NEW v \in tx'[t].wrote
         PROVE  tx'[t].write[v] = WillWrite(t, v, Paid(t))'
    <3>1. WillWrite(t, v, Paid(t))' = WillWrite(t, v, Paid(t))
      BY <2>5, SameReadSamePlan
    <3>2. tx'[t].write[v] = WillWrite(t, v, Paid(t))
      BY <2>8, <2>9, <2>11
    <3> QED BY <3>1, <3>2
  <2>13. tx'[t].wrote = {Payer(t)'} \cup (IF Op(t)' = "settle" THEN {Claimer(t)'} ELSE {})
    BY <2>3, <2>10, <2>11
  <2>14. TxInv(t)'
    BY <2>3, <2>5, <2>10, <2>12, <2>13 DEF TxInv
  <2> QED BY <2>5, <2>14 DEF LocksInv
<1> QED BY <1>1, <1>2

\* A commit writes the rows its transaction has locked, and no other.
LEMMA CommitWrites ==
  ASSUME LocksInv, NEW t \in Txs, Commit(t), ~End(t, "rolledback")
  PROVE  /\ \A u \in Users : /\ bal'[u] = Sees(t, u).bal /\ bal'[u] \in Nat
                             /\ frz'[u] = Sees(t, u).frz /\ frz'[u] \in Nat
         /\ \A u \in Users \ tx[t].wrote : bal'[u] = bal[u] /\ frz'[u] = frz[u]
         /\ \A m \in Packets \ {Msg(t)} : stored'[m] = stored[m]
         /\ stored'[Msg(t)] = Written(t)
         /\ Op(t) = "freeze" => stored[Msg(t)].status = "absent"
         /\ Written(t) \in StoredRow
<1>0. LocksType /\ TxInv(t) /\ tx[t].next = "commit"
  BY DEF LocksInv, Commit
<1>1. /\ bal' = [u \in Users |-> Sees(t, u).bal] /\ frz' = [u \in Users |-> Sees(t, u).frz]
      /\ stored' = [stored EXCEPT ![Msg(t)] = Written(t)]
      /\ Op(t) = "freeze" => stored[Msg(t)].status = "absent"
  BY DEF Commit
<1>2. \A u \in Users : Sees(t, u) \in UserRow
  BY <1>0, SeesRow
<1>3. \A u \in Users \ tx[t].wrote : Sees(t, u) = [bal |-> bal[u], frz |-> frz[u]]
  BY DEF Sees
<1>4. Written(t) \in StoredRow
  <2>1. tx[t].read \in StoredRow
    BY <1>0 DEF LocksType, TxState
  <2>2. CASE Op(t) = "freeze"
    BY <2>2 DEF Written, NoRow, StoredRow
  <2>3. CASE Op(t) = "refund"
    BY <2>1, <2>3 DEF Written, StoredRow
  <2>4. CASE Op(t) = "settle"
    <3>1. tx[t].read.claimed + Share(t) \in Nat /\ tx[t].read.cnt + 1 \in Nat
      BY <1>0, <2>1, <2>4, ShareFacts DEF TxInv, StoredRow
    <3> QED BY <2>4, <3>1 DEF Written, StoredRow
  <2> QED BY <2>2, <2>3, <2>4, JobFacts
<1> QED BY <1>0, <1>1, <1>2, <1>3, <1>4, JobFacts DEF UserRow, LocksType

LEMMA InvCommit ==
  ASSUME LocksInv, NEW t \in Txs, Commit(t)
  PROVE  LocksInv'
<1>1. CASE End(t, "rolledback")
  BY <1>1, InvEnd DEF Ended
<1>2. CASE ~End(t, "rolledback")
  <2>0. LocksType /\ LocksHeld /\ \A s \in Txs : TxInv(s)
    BY DEF LocksInv
  <2>1. tx' = [tx EXCEPT ![t].next = "committed"] /\ Release(t) /\ tx[t].next = "commit"
    BY <1>2 DEF Commit
  <2>2. tx' \in [Txs -> TxState] /\ tx'[t].next = "committed" /\ \A s \in Txs \ {t} : tx'[s] = tx[s]
    BY <2>0, <2>1 DEF LocksType, TxState, Ended
  <2>3. ASSUME NEW s \in Txs \ {t}, tx[s].next \in Running, Op(s) # "freeze",
               tx[s].next # "packet"
        PROVE  Msg(s) # Msg(t)
    <3>1. holder[<<"packet", Msg(s)>>] = s /\ tx[s].read = stored[Msg(s)]
      BY <2>0, <2>3 DEF LocksHeld
    <3>2. CASE Op(t) = "freeze"
      <4>1. stored[Msg(t)].status = "absent"
        BY <1>2, <3>2, CommitWrites
      <4>2. Usable(s, tx[s].read)
        BY <2>0, <2>3 DEF TxInv, Running
      <4> QED BY <3>1, <4>1, <4>2 DEF Usable
    <3>3. CASE Op(t) # "freeze"
      <4>1. holder[<<"packet", Msg(t)>>] = t
        BY <2>0, <2>1, <3>3 DEF LocksHeld, Running
      <4> QED BY <3>1, <4>1
    <3> QED BY <3>2, <3>3
  <2>4. \A s \in Txs \ {t} : tx[s].next \in Running /\ Op(s) # "freeze"
                               /\ tx[s].next # "packet" => stored'[Msg(s)] = stored[Msg(s)]
    BY <1>2, <2>3, CommitWrites, JobFacts
  <2>5. LocksHeld' /\ holder' \in [Rows -> Txs \cup {Free}]
    BY <2>0, <2>1, <2>4, HeldAfterRelease DEF Ended
  <2>6. LocksType'
    <3>1. /\ bal' = [u \in Users |-> Sees(t, u).bal] /\ frz' = [u \in Users |-> Sees(t, u).frz]
          /\ stored' = [stored EXCEPT ![Msg(t)] = Written(t)]
      BY <1>2 DEF Commit
    <3>2. bal' \in [Users -> Nat] /\ frz' \in [Users -> Nat]
      BY <1>2, <3>1, CommitWrites
    <3>3. stored' \in [Packets -> StoredRow]
      BY <1>2, <2>0, <3>1, CommitWrites DEF LocksType
    <3> QED BY <2>2, <2>5, <3>2, <3>3 DEF LocksType, WalletType
  <2>7. TxInv(t)'
    BY <2>2 DEF TxInv
  <2>8. ASSUME NEW s \in Txs \ {t} PROVE TxInv(s)'
    <3>1. CASE tx[s].next \in Running
      <4>1. ASSUME NEW u \in tx[s].wrote PROVE bal'[u] = bal[u] /\ frz'[u] = frz[u]
        <5>1. u \in Users /\ holder[<<"user", u>>] = s
          BY <2>0, <3>1 DEF LocksHeld, LocksType, TxState
        <5>2. u \notin tx[t].wrote
          BY <2>0, <2>1, <5>1 DEF LocksHeld, Running
        <5> QED BY <1>2, <5>1, <5>2, CommitWrites
      <4> QED BY <2>0, <2>2, <4>1, OthersKeep
    <3>2. CASE tx[s].next \notin Running
      BY <2>0, <2>2, <3>2 DEF TxInv, Running
    <3> QED BY <3>1, <3>2
  <2> QED BY <2>5, <2>6, <2>7, <2>8 DEF LocksInv
<1> QED BY <1>1, <1>2

(***************************************************************************)
(* Theorems of the specification.                                          *)
(***************************************************************************)
LEMMA InitLocks == LocksInit => LocksInv
<1> SUFFICES ASSUME LocksInit PROVE LocksInv
  OBVIOUS
<1>1. NoRow \in StoredRow /\ NoWrite \in [Users -> UserRow]
  BY DEF NoRow, StoredRow, NoWrite, UserRow
<1>2. LocksType
  BY <1>1, WalletAssumption DEF LocksInit, LocksType, WalletInit, WalletType, TxState
<1>3. LocksHeld
  BY DEF LocksInit, LocksHeld, Running
<1>4. \A t \in Txs : TxInv(t)
  BY DEF LocksInit, TxInv
<1> QED BY <1>2, <1>3, <1>4 DEF LocksInv

LEMMA NextLocks == LocksInv /\ [LocksNext]_lockVars => LocksInv'
<1> SUFFICES ASSUME LocksInv, [LocksNext]_lockVars PROVE LocksInv'
  OBVIOUS
<1>1. ASSUME NEW t \in Txs, Begin(t) \/ Progress(t) \/ Rollback(t)
      PROVE  LocksInv'
  <2>1. CASE Begin(t)
    BY <2>1, InvBegin
  <2>2. CASE LockPacket(t)
    BY <2>2, InvLockPacket
  <2>3. CASE MutateSender(t)
    BY <2>3, InvMutateSender
  <2>4. CASE MutateClaimer(t)
    BY <2>4, InvMutateClaimer
  <2>5. CASE Commit(t)
    BY <2>5, InvCommit
  <2>6. CASE Victim(t) \/ Rollback(t)
    BY <2>6, InvEnd DEF Victim, Rollback, Ended
  <2> QED BY <1>1, <2>1, <2>2, <2>3, <2>4, <2>5, <2>6 DEF Progress
<1>2. CASE UNCHANGED lockVars
  <2>1. LocksType' /\ LocksHeld'
    BY <1>2 DEF lockVars, LocksInv, LocksType, WalletType, LocksHeld, Op, Msg
  <2>2. \A t \in Txs : TxInv(t)'
    BY <1>2, OthersKeep DEF lockVars, LocksInv
  <2> QED BY <2>1, <2>2 DEF LocksInv
<1> QED BY <1>1, <1>2 DEF LocksNext

\* Two-phase locking holds for any number of transactions, whatever they do:
\* no transaction overwrites what another committed after it read.
THEOREM LocksAreKept == LocksSpec => []LocksInv
BY InitLocks, NextLocks, PTL DEF LocksSpec

(***************************************************************************)
(* A commit is a step of Escrow.                                           *)
(***************************************************************************)
\* A step that changes one packet changes one escrow.
LEMMA StoredFrame ==
  ASSUME NEW m \in Packets, \A n \in Packets \ {m} : stored'[n] = stored[n]
  PROVE  /\ StoredHeld' = [StoredHeld EXCEPT ![m] = StoredHeld'[m]]
         /\ StoredLife' = [StoredLife EXCEPT ![m] = StoredLife'[m]]
BY DEF StoredHeld, StoredLife, StillHolds

LEMMA StoredStutter ==
  ASSUME UNCHANGED <<bal, stored>>
  PROVE  UNCHANGED Steps!evars
BY DEF Steps!evars, StoredHeld, StoredLife, StillHolds

LEMMA AddedAt ==
  ASSUME NEW f \in [Users -> Nat], NEW c \in Users, NEW d \in Int, NEW g,
         g = [u \in Users |-> f[u] + (IF u = c THEN d ELSE 0)]
  PROVE  g = [f EXCEPT ![c] = @ + d]
<1>1. \A u \in Users : g[u] = IF u = c THEN f[u] + d ELSE f[u]
  OBVIOUS
<1> QED BY <1>1

\* What a commit does to the balances, by the kind of its transaction.
LEMMA CommittedBalance ==
  ASSUME LocksInv, NEW t \in Txs, Commit(t), ~End(t, "rolledback")
  PROVE  /\ Op(t) = "settle" => bal' = [bal EXCEPT ![Claimer(t)] = @ + Share(t)]
         /\ Op(t) # "settle" => bal' = [bal EXCEPT ![Payer(t)] = @ + SenderChange(t).bal]
<1>0. LocksType /\ TxInv(t) /\ tx[t].next = "commit"
  BY DEF LocksInv, Commit
<1>1. bal \in [Users -> Nat] /\ bal' = [u \in Users |-> Sees(t, u).bal]
  BY <1>0 DEF Commit, LocksType, WalletType
<1>2. /\ Payer(t) \in Users /\ Claimer(t) \in Users /\ Share(t) \in Int
      /\ SenderChange(t).bal \in Int
  BY <1>0, JobFacts, ShareFacts, SenderChangeFacts
<1>3. /\ tx[t].wrote = {Payer(t)} \cup (IF Op(t) = "settle" THEN {Claimer(t)} ELSE {})
      /\ \A u \in tx[t].wrote : tx[t].write[u] = WillWrite(t, u, Paid(t))
  BY <1>0 DEF TxInv
<1>4. \A u \in tx[t].wrote : Sees(t, u).bal = WillWrite(t, u, Paid(t)).bal
  BY <1>3 DEF Sees
<1>5. \A u \in Users \ tx[t].wrote : Sees(t, u).bal = bal[u]
  BY DEF Sees
<1>6. \A u \in Users : WillWrite(t, u, Paid(t)).bal =
        bal[u] + (IF u = Payer(t) THEN SenderChange(t).bal ELSE 0)
               + (IF u = Claimer(t) THEN Paid(t) ELSE 0)
  BY DEF WillWrite
<1>7. CASE Op(t) = "settle"
  <2>1. Paid(t) = Share(t) /\ SenderChange(t).bal = 0
    BY <1>7 DEF Paid, SenderChange
  <2>2. \A u \in Users : Sees(t, u).bal = bal[u] + (IF u = Claimer(t) THEN Share(t) ELSE 0)
    BY <1>1, <1>2, <1>3, <1>4, <1>5, <1>6, <1>7, <2>1
  <2>3. bal' = [u \in Users |-> bal[u] + (IF u = Claimer(t) THEN Share(t) ELSE 0)]
    BY <1>1, <2>2
  <2> QED BY <1>1, <1>2, <1>7, <2>3, AddedAt
<1>8. CASE Op(t) # "settle"
  <2>1. Paid(t) = 0
    BY <1>8 DEF Paid
  <2>2. \A u \in Users : Sees(t, u).bal =
                          bal[u] + (IF u = Payer(t) THEN SenderChange(t).bal ELSE 0)
    BY <1>1, <1>2, <1>3, <1>4, <1>5, <1>6, <1>8, <2>1
  <2>3. bal' = [u \in Users |-> bal[u] + (IF u = Payer(t) THEN SenderChange(t).bal ELSE 0)]
    BY <1>1, <2>2
  <2> QED BY <1>1, <1>2, <1>8, <2>3, AddedAt
<1> QED BY <1>7, <1>8

LEMMA CommitIsEscrowStep ==
  ASSUME LocksInv, NEW t \in Txs, Commit(t), ~End(t, "rolledback")
  PROVE  Steps!EscrowNext
<1> DEFINE m == Msg(t)
           p == tx[t].read
           total == Funding[m].total
<1>0. LocksType /\ LocksHeld /\ TxInv(t) /\ tx[t].next = "commit"
  BY DEF LocksInv, Commit
<1>1. /\ m \in Packets /\ Payer(t) \in Users /\ Claimer(t) \in Users /\ total \in Nat
      /\ Payer(t) = Funding[m].sender
      /\ p \in StoredRow /\ Share(t) \in Int /\ SenderChange(t).bal \in Int
  BY <1>0, JobFacts, ShareFacts, SenderChangeFacts DEF Payer, LocksType, TxState
<1>2. /\ \A n \in Packets \ {m} : stored'[n] = stored[n]
      /\ stored'[m] = Written(t) /\ bal'[Payer(t)] \in Nat
      /\ bal[Payer(t)] \in Nat
  BY <1>0, <1>1, CommitWrites DEF LocksType, WalletType
<1>3. /\ StoredHeld' = [StoredHeld EXCEPT ![m] = StoredHeld'[m]]
      /\ StoredLife' = [StoredLife EXCEPT ![m] = StoredLife'[m]]
  BY <1>1, <1>2, StoredFrame
<1>4. Op(t) # "freeze" => stored[m] = p /\ Usable(t, p)
  BY <1>0 DEF LocksHeld, TxInv, Running
<1>5. Op(t) # "freeze" => StoredLife[m] = "holding" /\ StoredHeld[m] = Left(t, p)
  BY <1>1, <1>4 DEF StoredLife, StoredHeld, StillHolds, Usable, Left
<1>6. CASE Op(t) = "freeze"
  <2>1. stored[m].status = "absent"
    BY <1>6, CommitWrites
  <2>2. stored'[m].status = "open" /\ stored'[m].claimed = 0
    BY <1>2, <1>6 DEF Written, NoRow
  <2>3. StoredLife[m] = "unfunded" /\ StoredLife'[m] = "holding" /\ StoredHeld'[m] = total
    BY <1>1, <2>1, <2>2 DEF StoredLife, StoredHeld, StillHolds
  <2>4. SenderChange(t).bal = -total
    BY <1>6 DEF SenderChange
  <2>5. bal' = [bal EXCEPT ![Payer(t)] = @ + SenderChange(t).bal]
    BY <1>6, CommittedBalance
  <2>6. bal[Payer(t)] >= total /\ bal' = [bal EXCEPT ![Payer(t)] = @ - total]
    <3>1. bal'[Payer(t)] = bal[Payer(t)] + SenderChange(t).bal
      BY <1>0, <1>1, <2>5 DEF LocksType, WalletType
    <3>2. bal[Payer(t)] + SenderChange(t).bal = bal[Payer(t)] - total
      BY <1>1, <1>2, <2>4
    <3>3. bal[Payer(t)] >= total
      BY <1>1, <1>2, <3>1, <3>2
    <3> QED BY <2>5, <3>2, <3>3
  <2>7. Steps!Fund(m)
    BY <1>1, <1>3, <2>3, <2>6 DEF Steps!Fund
  <2> QED BY <1>1, <2>7 DEF Steps!EscrowNext
<1>7. CASE Op(t) = "refund"
  <2>1. stored'[m].status = "expired"
    BY <1>1, <1>2, <1>7 DEF Written, StoredRow
  <2>2. StoredLife'[m] = "returned" /\ StoredHeld'[m] = 0
    BY <1>1, <2>1 DEF StoredLife, StoredHeld, StillHolds
  <2>3. bal' = [bal EXCEPT ![Payer(t)] = @ + StoredHeld[m]]
    <3>1. SenderChange(t).bal = Left(t, p)
      BY <1>7 DEF SenderChange
    <3> QED BY <1>5, <1>7, <3>1, CommittedBalance
  <2>4. Steps!GiveBack(m)
    BY <1>1, <1>3, <1>5, <1>7, <2>2, <2>3 DEF Steps!GiveBack
  <2> QED BY <1>1, <2>4 DEF Steps!EscrowNext
<1>8. CASE Op(t) = "settle"
  <2>1. Share(t) >= 1 /\ Share(t) <= Left(t, p) /\ Left(t, p) \in Int
    BY <1>0, <1>4, <1>8, ShareFacts
  <2>2. /\ stored'[m].status \in {"open", "finished"}
        /\ stored'[m].claimed = p.claimed + Share(t)
    BY <1>2, <1>8 DEF Written
  <2>3. StoredLife'[m] = "holding" /\ StoredHeld'[m] = StoredHeld[m] - Share(t)
    BY <1>1, <1>5, <1>8, <2>2 DEF StoredLife, StoredHeld, StillHolds, Left, StoredRow
  <2>4. StoredLife' = StoredLife
    BY <1>1, <1>3, <1>5, <1>8, <2>3 DEF StoredLife
  <2>5. bal' = [bal EXCEPT ![Claimer(t)] = @ + Share(t)]
    BY <1>8, CommittedBalance
  <2>6. Steps!Pay(m, Claimer(t), Share(t))
    BY <1>1, <1>3, <1>5, <1>8, <2>1, <2>3, <2>4, <2>5 DEF Steps!Pay
  <2>7. Share(t) \in 1..StoredHeld[m]
    BY <1>1, <1>5, <1>8, <2>1
  <2> QED BY <1>1, <2>6, <2>7 DEF Steps!EscrowNext
<1> QED BY <1>6, <1>7, <1>8, JobFacts

\* A transaction acts as one step: nothing it does is seen before it commits,
\* and its commit funds an escrow, pays from it or gives back what is left.
THEOREM TransactionsAreAtomic == LocksSpec => TransactionsAreSteps
<1>1. LocksInit => Steps!EscrowInit
  BY LocksAssumption DEF LocksInit, WalletInit, NoRow, Steps!EscrowInit, StoredHeld, StoredLife, StillHolds
<1>2. ASSUME LocksInv, [LocksNext]_lockVars
      PROVE  [Steps!EscrowNext]_(Steps!evars)
  <2>1. ASSUME NEW t \in Txs, Commit(t), ~End(t, "rolledback")
        PROVE  [Steps!EscrowNext]_(Steps!evars)
    BY <1>2, <2>1, CommitIsEscrowStep
  <2>2. ASSUME NEW t \in Txs, Begin(t) \/ Progress(t) \/ Rollback(t),
               ~Commit(t) \/ End(t, "rolledback")
        PROVE  UNCHANGED <<bal, stored>>
    BY <2>2 DEF Begin, Progress, Rollback, Victim, LockPacket, MutateSender, MutateClaimer,
                MutateRow, End
  <2>3. CASE UNCHANGED lockVars
    BY <2>3, StoredStutter DEF lockVars
  <2> QED BY <1>2, <2>1, <2>2, <2>3, StoredStutter DEF LocksNext, Progress
<1> QED BY <1>1, <1>2, LocksAreKept, PTL DEF LocksSpec, TransactionsAreSteps, Steps!EscrowSpec
=============================================================================
