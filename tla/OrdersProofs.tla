---------------------------- MODULE OrdersProofs ----------------------------
(***************************************************************************)
(* Theorems about the orders, for any users, orders, fees, adjustments and *)
(* reviewers, however many of them review one order at the same time.      *)
(***************************************************************************)
EXTENDS OrdersProps, Sums

USE OrdersAssumption, WalletAssumption

LEMMA OrderFacts ==
  ASSUME NEW o \in OrderIDs
  PROVE  /\ Owner(o) \in Users
         /\ Order[o].amount \in Nat /\ Order[o].fee \in Nat
         /\ IsRecharge(o) \in BOOLEAN
         /\ Order[o].kind = "withdraw" => ~IsRecharge(o)
         /\ Order[o].kind = "recharge" => IsRecharge(o)
<1>1. Order[o] \in OrderType
  OBVIOUS
<1> QED BY <1>1 DEF OrderType, Owner, IsRecharge

\* A wallet stays a wallet whatever is added to it.
LEMMA WalletStep ==
  ASSUME WalletType, NEW u \in Users, NEW x \in Int, NEW y \in Int, MutateUser(u, x, y)
  PROVE  WalletType'
BY DEF WalletType, MutateUser, CanMutate

LEMMA UnderReview ==
  ASSUME TypeOK, NEW r \in Reviewers, review[r] # NotReviewing
  PROVE  review[r] \in Review /\ review[r].order \in OrderIDs
BY DEF TypeOK, Review

\* What a decision writes: the rows and the status of one order.
Decision(r) == RechargeApprove(r) \/ RechargeReject(r) \/ WithdrawApprove(r) \/ WithdrawReject(r)

LEMMA AddRowsType ==
  ASSUME rows \in [OrderIDs -> [Titles -> Nat]], NEW o \in OrderIDs, NEW S, AddRows(o, S)
  PROVE  /\ rows' \in [OrderIDs -> [Titles -> Nat]]
         /\ \A p \in OrderIDs \ {o} : rows'[p] = rows[p]
         /\ \A t \in Titles : rows'[o][t] = rows[o][t] + (IF t \in S THEN 1 ELSE 0)
<1> DEFINE new == [t \in Titles |-> rows[o][t] + (IF t \in S THEN 1 ELSE 0)]
<1>1. new \in [Titles -> Nat] /\ rows' = [rows EXCEPT ![o] = new]
  BY DEF AddRows
<1>2. \A t \in Titles : new[t] = rows[o][t] + (IF t \in S THEN 1 ELSE 0)
  OBVIOUS
<1> HIDE DEF new
<1> QED BY <1>1, <1>2

(***************************************************************************)
(* Type correctness.                                                       *)
(***************************************************************************)
LEMMA TypeStep == TypeOK /\ [Next]_vars => TypeOK'
<1> SUFFICES ASSUME TypeOK, [Next]_vars PROVE TypeOK'
  OBVIOUS
<1> USE DEF TypeOK, SetStatus, EndReview, Filed
<1>1. ASSUME NEW o \in OrderIDs, FileStep(o) PROVE TypeOK'
  <2>1. CASE RechargeLookup(o)
    BY <2>1 DEF RechargeLookup, WalletType
  <2>2. CASE RechargeSubmit(o)
    BY <2>2 DEF RechargeSubmit, WalletType
  <2>3. CASE Age(o)
    BY <2>3 DEF Age, WalletType
  <2>4. CASE WithdrawSubmit(o)
    <3>1. WalletType'
      BY <2>4, OrderFacts, WalletStep DEF WithdrawSubmit, WithdrawFreeze
    <3>2. rows' \in [OrderIDs -> [Titles -> Nat]]
      BY <2>4, AddRowsType DEF WithdrawSubmit
    <3> QED BY <2>4, <3>1, <3>2 DEF WithdrawSubmit
  <2> QED BY <1>1, <2>1, <2>2, <2>3, <2>4 DEF FileStep
<1>2. ASSUME NEW u \in Users, NEW delta \in Deltas, WalletApply(u, delta) PROVE TypeOK'
  <2>1. WalletType'
    BY <1>2, WalletStep DEF WalletApply
  <2> QED BY <1>2, <2>1 DEF WalletApply
<1>3. ASSUME NEW r \in Reviewers, ReviewStep(r) PROVE TypeOK'
  <2>1. ASSUME NEW o \in OrderIDs, NEW verdict \in {"approve", "reject"}, ReadOrder(r, o, verdict)
        PROVE  TypeOK'
    <3>1. [phase |-> "read", order |-> o, verdict |-> verdict] \in Review
      BY DEF Review
    <3> QED BY <2>1, <3>1 DEF ReadOrder, WalletType
  <2>2. CASE ReviewFails(r)
    BY <2>2 DEF ReviewFails, WalletType
  <2>3. CASE Decision(r)
    <3>0. PICK o \in OrderIDs : o = review[r].order
      BY <2>3, UnderReview DEF Decision, RechargeApprove, RechargeReject, WithdrawApprove,
                               WithdrawReject, Deciding
    <3>1. WalletType'
      <4>1. CASE RechargeApprove(r)
        BY <3>0, <4>1, OrderFacts, WalletStep DEF RechargeApprove
      <4>2. CASE RechargeReject(r)
        BY <4>2 DEF RechargeReject, WalletType
      <4>3. CASE WithdrawApprove(r)
        BY <3>0, <4>3, OrderFacts, WalletStep DEF WithdrawApprove, PayoutFee
      <4>4. CASE WithdrawReject(r)
        BY <3>0, <4>4, OrderFacts, WalletStep DEF WithdrawReject
      <4> QED BY <2>3, <4>1, <4>2, <4>3, <4>4 DEF Decision
    <3>2. /\ \E s \in {"approved", "rejected"} : status' = [status EXCEPT ![o] = s]
          /\ review' = [review EXCEPT ![r] = NotReviewing]
          /\ UNCHANGED <<recent, adjusted, adjusts>>
      BY <2>3, <3>0 DEF Decision, RechargeApprove, RechargeReject, WithdrawApprove,
                        WithdrawReject, RejectedStatus, EndDecision
    <3>4. overtaken' \in SUBSET OrderIDs
      <4>1. EndDecision(r)
        BY <2>3 DEF Decision, RechargeApprove, RechargeReject, WithdrawApprove, WithdrawReject
      <4> QED BY <3>0, <4>1 DEF EndDecision
    <3>3. rows' \in [OrderIDs -> [Titles -> Nat]]
      BY <2>3, <3>0, AddRowsType DEF Decision, RechargeApprove, RechargeReject, WithdrawApprove,
                        WithdrawReject
    <3> QED BY <3>1, <3>2, <3>3, <3>4
  <2> QED BY <1>3, <2>1, <2>2, <2>3 DEF ReviewStep, Decision
<1>4. CASE Crash
  BY <1>4 DEF Crash, HandlersDie, WalletType
<1>5. CASE UNCHANGED vars
  BY <1>5 DEF vars, ovars, WalletType
<1> QED BY <1>1, <1>2, <1>3, <1>4, <1>5 DEF Next

LEMMA TypeInit == Init => TypeOK
BY DEF Init, TypeOK, WalletInit, WalletType

\* Every state is well typed; in particular no review takes a user's balance
\* or frozen money below zero, however many reviewers race.
THEOREM OrdersTypeCorrect == Spec => []TypeOK
BY TypeInit, TypeStep, PTL DEF Spec

(***************************************************************************)
(* The books explain the wallets, whoever reviews what.                    *)
(***************************************************************************)
\* An order's rows add to its owner's money what its handler moved.
Books(o, x, y) == /\ \A p \in OrderIDs \ {o} : rows'[p] = rows[p]
                  /\ BalanceRows'[o] = BalanceRows[o] + x
                  /\ FrozenRows'[o] = FrozenRows[o] + y

LEMMA WholeProduct ==
  ASSUME NEW a \in Int, NEW b \in Int PROVE a * b \in Int
OBVIOUS

LEMMA BooksType ==
  ASSUME TypeOK
  PROVE  \A o \in OrderIDs : BalanceRows[o] \in Int /\ FrozenRows[o] \in Int
<1> SUFFICES ASSUME NEW o \in OrderIDs PROVE BalanceRows[o] \in Int /\ FrozenRows[o] \in Int
  OBVIOUS
<1>1. /\ rows[o]["credit"] \in Int /\ rows[o]["freeze"] \in Int /\ rows[o]["payout"] \in Int
      /\ rows[o]["fee"] \in Int /\ rows[o]["unfreeze"] \in Int
  BY DEF TypeOK, Titles
<1>2. PICK a \in Int, f \in Int : Order[o].amount = a /\ Order[o].fee = f
  BY OrderFacts
<1> QED BY <1>1, <1>2, WholeProduct DEF BalanceRows, FrozenRows

LEMMA OrdersOfFacts ==
  ASSUME NEW u \in Users
  PROVE  /\ IsFiniteSet(OrdersOf(u)) /\ OrdersOf(u) \subseteq OrderIDs
         /\ \A o \in OrderIDs : o \in OrdersOf(u) <=> u = Owner(o)
BY FiniteOrders, FS_Subset DEF OrdersOf

\* One function of the orders changes at one order: the sum of its owner's
\* orders follows, the others do not move.
LEMMA OwnersSum ==
  ASSUME NEW f, NEW e, \A p \in OrderIDs : f[p] \in Int /\ e[p] \in Int,
         NEW o \in OrderIDs, \A p \in OrderIDs \ {o} : e[p] = f[p], NEW u \in Users
  PROVE  /\ SumFunctionOnSet(f, OrdersOf(u)) \in Int
         /\ SumFunctionOnSet(e, OrdersOf(u)) =
              SumFunctionOnSet(f, OrdersOf(u)) + (IF u = Owner(o) THEN e[o] - f[o] ELSE 0)
<1>1. /\ IsFiniteSet(OrdersOf(u))
      /\ \A p \in OrdersOf(u) : f[p] \in Int /\ e[p] \in Int
      /\ \A p \in OrdersOf(u) \ {o} : e[p] = f[p]
  BY OrdersOfFacts
<1>2. /\ SumFunctionOnSet(f, OrdersOf(u)) \in Int
      /\ o \in OrdersOf(u) => SumFunctionOnSet(e, OrdersOf(u)) =
                                SumFunctionOnSet(f, OrdersOf(u)) + (e[o] - f[o])
      /\ o \notin OrdersOf(u) => SumFunctionOnSet(e, OrdersOf(u)) = SumFunctionOnSet(f, OrdersOf(u))
  BY <1>1, SumFollows, Zenon
<1> QED BY <1>2, OrdersOfFacts

LEMMA BooksFollow ==
  ASSUME TypeOK, BooksExplainWallet, UNCHANGED adjusted,
         NEW o \in OrderIDs, NEW x \in Int, NEW y \in Int,
         MutateUser(Owner(o), x, y), Books(o, x, y)
  PROVE  BooksExplainWallet'
<1> SUFFICES ASSUME NEW u \in Users
             PROVE  /\ bal'[u] = InitBalance[u] + adjusted[u]
                                 + SumFunctionOnSet(BalanceRows', OrdersOf(u))
                    /\ frz'[u] = SumFunctionOnSet(FrozenRows', OrdersOf(u))
  BY DEF BooksExplainWallet, OrdersOf, Owner
<1>1. /\ \A p \in OrderIDs \ {o} : BalanceRows'[p] = BalanceRows[p]
      /\ \A p \in OrderIDs \ {o} : FrozenRows'[p] = FrozenRows[p]
  BY DEF Books, BalanceRows, FrozenRows
<1>2. \A p \in OrderIDs : BalanceRows[p] \in Int /\ FrozenRows[p] \in Int
  BY BooksType
<1> HIDE DEF BalanceRows, FrozenRows
<1>3. \A p \in OrderIDs : BalanceRows[p] \in Int /\ BalanceRows'[p] \in Int
  BY <1>1, <1>2 DEF Books
<1>4. \A p \in OrderIDs : FrozenRows[p] \in Int /\ FrozenRows'[p] \in Int
  BY <1>1, <1>2 DEF Books
<1>5. /\ SumFunctionOnSet(BalanceRows, OrdersOf(u)) \in Int
      /\ SumFunctionOnSet(BalanceRows', OrdersOf(u)) =
           SumFunctionOnSet(BalanceRows, OrdersOf(u))
           + (IF u = Owner(o) THEN BalanceRows'[o] - BalanceRows[o] ELSE 0)
  BY <1>1, <1>3, OwnersSum, Zenon
<1>6. /\ SumFunctionOnSet(FrozenRows, OrdersOf(u)) \in Int
      /\ SumFunctionOnSet(FrozenRows', OrdersOf(u)) =
           SumFunctionOnSet(FrozenRows, OrdersOf(u))
           + (IF u = Owner(o) THEN FrozenRows'[o] - FrozenRows[o] ELSE 0)
  BY <1>1, <1>4, OwnersSum, Zenon
<1>7. /\ BalanceRows[o] \in Int /\ BalanceRows'[o] = BalanceRows[o] + x
      /\ FrozenRows[o] \in Int /\ FrozenRows'[o] = FrozenRows[o] + y
  BY <1>2 DEF Books
<1>8. /\ bal'[u] = bal[u] + (IF u = Owner(o) THEN x ELSE 0)
      /\ frz'[u] = frz[u] + (IF u = Owner(o) THEN y ELSE 0)
  BY DEF MutateUser, TypeOK, WalletType
<1>9. /\ bal[u] = InitBalance[u] + adjusted[u] + SumFunctionOnSet(BalanceRows, OrdersOf(u))
      /\ frz[u] = SumFunctionOnSet(FrozenRows, OrdersOf(u))
      /\ InitBalance[u] \in Int /\ adjusted[u] \in Int
  BY DEF BooksExplainWallet, TypeOK
<1> QED BY <1>5, <1>6, <1>7, <1>8, <1>9

\* What the handlers book is what they move.
LEMMA HandlersBook ==
  ASSUME TypeOK, NEW o \in OrderIDs
  PROVE  /\ AddRows(o, {"credit"}) => Books(o, Order[o].amount, 0)
         /\ AddRows(o, {"freeze"}) => Books(o, -Order[o].amount, Order[o].amount)
         /\ AddRows(o, {"unfreeze"}) => Books(o, Order[o].amount, -Order[o].amount)
         /\ AddRows(o, {"payout"} \cup (IF Order[o].fee > 0 THEN {"fee"} ELSE {}))
              => Books(o, -Order[o].fee, -Order[o].amount)
<1>1. PICK a \in Int, f \in Nat : Order[o].amount = a /\ Order[o].fee = f
  BY OrderFacts
<1>2. PICK c \in Int, z \in Int, p \in Int, k \in Int, n \in Int :
         rows[o]["credit"] = c /\ rows[o]["freeze"] = z /\ rows[o]["payout"] = p
         /\ rows[o]["fee"] = k /\ rows[o]["unfreeze"] = n
  <2>1. /\ rows[o]["credit"] \in Int /\ rows[o]["freeze"] \in Int /\ rows[o]["payout"] \in Int
        /\ rows[o]["fee"] \in Int /\ rows[o]["unfreeze"] \in Int
    BY DEF TypeOK, Titles
  <2> QED BY <2>1
<1>3. /\ BalanceRows[o] = a * (c + n - z) - f * k
      /\ FrozenRows[o] = a * (z - n - p)
  BY <1>1, <1>2 DEF BalanceRows, FrozenRows
<1>4. ASSUME NEW S, AddRows(o, S)
      PROVE  /\ \A q \in OrderIDs \ {o} : rows'[q] = rows[q]
             /\ rows'[o]["credit"]   = c + (IF "credit" \in S THEN 1 ELSE 0)
             /\ rows'[o]["freeze"]   = z + (IF "freeze" \in S THEN 1 ELSE 0)
             /\ rows'[o]["payout"]   = p + (IF "payout" \in S THEN 1 ELSE 0)
             /\ rows'[o]["fee"]      = k + (IF "fee" \in S THEN 1 ELSE 0)
             /\ rows'[o]["unfreeze"] = n + (IF "unfreeze" \in S THEN 1 ELSE 0)
  BY <1>2, <1>4, AddRowsType DEF TypeOK, Titles
<1>5. /\ BalanceRows'[o] = a * (rows'[o]["credit"] + rows'[o]["unfreeze"] - rows'[o]["freeze"])
                           - f * rows'[o]["fee"]
      /\ FrozenRows'[o] = a * (rows'[o]["freeze"] - rows'[o]["unfreeze"] - rows'[o]["payout"])
  BY <1>1 DEF BalanceRows, FrozenRows
<1>6. ASSUME AddRows(o, {"credit"}) PROVE Books(o, a, 0)
  <2>1. /\ rows'[o]["credit"] = c + 1 /\ rows'[o]["freeze"] = z /\ rows'[o]["payout"] = p
        /\ rows'[o]["fee"] = k /\ rows'[o]["unfreeze"] = n
    BY <1>4, <1>6
  <2>2. BalanceRows'[o] = a * (c + 1 + n - z) - f * k /\ FrozenRows'[o] = a * (z - n - p)
    BY <1>5, <2>1
  <2> QED BY <1>3, <1>4, <1>6, <2>2 DEF Books
<1>7. ASSUME AddRows(o, {"freeze"}) PROVE Books(o, -a, a)
  <2>1. /\ rows'[o]["credit"] = c /\ rows'[o]["freeze"] = z + 1 /\ rows'[o]["payout"] = p
        /\ rows'[o]["fee"] = k /\ rows'[o]["unfreeze"] = n
    BY <1>4, <1>7
  <2>2. BalanceRows'[o] = a * (c + n - (z + 1)) - f * k /\ FrozenRows'[o] = a * (z + 1 - n - p)
    BY <1>5, <2>1
  <2> QED BY <1>3, <1>4, <1>7, <2>2 DEF Books
<1>8. ASSUME AddRows(o, {"unfreeze"}) PROVE Books(o, a, -a)
  <2>1. /\ rows'[o]["credit"] = c /\ rows'[o]["freeze"] = z /\ rows'[o]["payout"] = p
        /\ rows'[o]["fee"] = k /\ rows'[o]["unfreeze"] = n + 1
    BY <1>4, <1>8
  <2>2. BalanceRows'[o] = a * (c + (n + 1) - z) - f * k /\ FrozenRows'[o] = a * (z - (n + 1) - p)
    BY <1>5, <2>1
  <2> QED BY <1>3, <1>4, <1>8, <2>2 DEF Books
<1>9. ASSUME AddRows(o, {"payout"} \cup (IF Order[o].fee > 0 THEN {"fee"} ELSE {}))
      PROVE  Books(o, -f, -a)
  <2> DEFINE S == {"payout"} \cup (IF Order[o].fee > 0 THEN {"fee"} ELSE {})
  <2>1. /\ "payout" \in S /\ "credit" \notin S /\ "freeze" \notin S /\ "unfreeze" \notin S
        /\ "fee" \in S <=> f > 0
    BY <1>1
  <2>2. AddRows(o, S)
    BY <1>9
  <2> HIDE DEF S
  <2>3. /\ rows'[o]["credit"] = c /\ rows'[o]["freeze"] = z /\ rows'[o]["payout"] = p + 1
        /\ rows'[o]["fee"] = k + (IF f > 0 THEN 1 ELSE 0) /\ rows'[o]["unfreeze"] = n
        /\ \A q \in OrderIDs \ {o} : rows'[q] = rows[q]
    BY <1>4, <2>1, <2>2
  <2>4. /\ BalanceRows'[o] = a * (c + n - z) - f * (k + (IF f > 0 THEN 1 ELSE 0))
        /\ FrozenRows'[o] = a * (z - n - (p + 1))
    BY <1>5, <2>3
  <2> QED BY <1>3, <2>3, <2>4 DEF Books
<1> QED BY <1>1, <1>6, <1>7, <1>8, <1>9

LEMMA SameBooks ==
  ASSUME TypeOK, BooksExplainWallet, UNCHANGED <<bal, frz, rows, adjusted>>
  PROVE  BooksExplainWallet'
BY DEF BooksExplainWallet, BalanceRows, FrozenRows, OrdersOf, Owner

LEMMA BooksStep == TypeOK /\ BooksExplainWallet /\ [Next]_vars => BooksExplainWallet'
<1> SUFFICES ASSUME TypeOK, BooksExplainWallet, [Next]_vars PROVE BooksExplainWallet'
  OBVIOUS
<1>1. ASSUME NEW o \in OrderIDs, FileStep(o) PROVE BooksExplainWallet'
  <2>1. CASE WithdrawSubmit(o)
    <3>1. /\ MutateUser(Owner(o), -Order[o].amount, Order[o].amount)
          /\ Books(o, -Order[o].amount, Order[o].amount) /\ UNCHANGED adjusted
      BY <2>1, HandlersBook DEF WithdrawSubmit, WithdrawFreeze
    <3>2. Order[o].amount \in Int /\ -Order[o].amount \in Int
      BY OrderFacts
    <3> QED BY <3>1, <3>2, BooksFollow
  <2>2. CASE RechargeLookup(o) \/ RechargeSubmit(o) \/ Age(o)
    BY <2>2, SameBooks DEF RechargeLookup, RechargeSubmit, Age
  <2> QED BY <1>1, <2>1, <2>2 DEF FileStep
<1>2. ASSUME NEW u \in Users, NEW delta \in Deltas, WalletApply(u, delta)
      PROVE  BooksExplainWallet'
  <2>1. /\ \A v \in Users : bal'[v] = bal[v] + (IF v = u THEN delta ELSE 0)
        /\ \A v \in Users : adjusted'[v] = adjusted[v] + (IF v = u THEN delta ELSE 0)
        /\ \A v \in Users : frz'[v] = frz[v]
        /\ delta \in Int /\ UNCHANGED rows
    BY <1>2 DEF WalletApply, MutateUser, TypeOK, WalletType
  <2>0. BalanceRows' = BalanceRows /\ FrozenRows' = FrozenRows
    BY <2>1 DEF BalanceRows, FrozenRows
  <2> SUFFICES ASSUME NEW v \in Users
               PROVE  /\ bal'[v] = InitBalance[v] + adjusted'[v]
                                   + SumFunctionOnSet(BalanceRows, OrdersOf(v))
                      /\ frz'[v] = SumFunctionOnSet(FrozenRows, OrdersOf(v))
    BY <2>0 DEF BooksExplainWallet, OrdersOf, Owner
  <2>2. SumFunctionOnSet(BalanceRows, OrdersOf(v)) \in Int
    <3>1. \A o \in OrdersOf(v) : BalanceRows[o] \in Int
      BY OrdersOfFacts, BooksType
    <3> QED BY <3>1, OrdersOfFacts, SumType
  <2>3. /\ bal[v] = InitBalance[v] + adjusted[v] + SumFunctionOnSet(BalanceRows, OrdersOf(v))
        /\ frz[v] = SumFunctionOnSet(FrozenRows, OrdersOf(v))
        /\ InitBalance[v] \in Int /\ adjusted[v] \in Int
    BY DEF BooksExplainWallet, TypeOK
  <2> QED BY <2>1, <2>2, <2>3
<1>3. ASSUME NEW r \in Reviewers, ReviewStep(r) PROVE BooksExplainWallet'
  <2>1. CASE RechargeApprove(r) \/ WithdrawApprove(r) \/ WithdrawReject(r)
    <3>1. PICK o \in OrderIDs : o = review[r].order
      BY <2>1, UnderReview DEF RechargeApprove, WithdrawApprove, WithdrawReject, Deciding
    <3>2. PICK x \in Int, y \in Int : MutateUser(Owner(o), x, y) /\ Books(o, x, y)
      <4>1. Order[o].amount \in Int /\ -Order[o].amount \in Int /\ -Order[o].fee \in Int
        BY OrderFacts
      <4>2. CASE RechargeApprove(r)
        <5>1. MutateUser(Owner(o), Order[o].amount, 0) /\ Books(o, Order[o].amount, 0)
          BY <3>1, <4>2, HandlersBook DEF RechargeApprove
        <5> QED BY <4>1, <5>1
      <4>3. CASE WithdrawApprove(r)
        BY <3>1, <4>1, <4>3, HandlersBook DEF WithdrawApprove, PayoutFee
      <4>4. CASE WithdrawReject(r)
        BY <3>1, <4>1, <4>4, HandlersBook DEF WithdrawReject
      <4> QED BY <2>1, <4>2, <4>3, <4>4
    <3>3. UNCHANGED adjusted
      BY <2>1 DEF RechargeApprove, WithdrawApprove, WithdrawReject
    <3> QED BY <3>2, <3>3, BooksFollow
  <2>2. ASSUME NEW o \in OrderIDs, NEW verdict, ReadOrder(r, o, verdict)
        PROVE  BooksExplainWallet'
    BY <2>2, SameBooks DEF ReadOrder
  <2>3. CASE RechargeReject(r) \/ ReviewFails(r)
    BY <2>3, SameBooks DEF RechargeReject, ReviewFails
  <2> QED BY <1>3, <2>1, <2>2, <2>3 DEF ReviewStep
<1>4. CASE Crash
  BY <1>4, SameBooks DEF Crash, HandlersDie
<1>5. CASE UNCHANGED vars
  BY <1>5, SameBooks DEF vars, ovars
<1> QED BY <1>1, <1>2, <1>3, <1>4, <1>5 DEF Next

LEMMA BooksInit == Init => BooksExplainWallet
<1> SUFFICES ASSUME Init, NEW u \in Users
             PROVE  /\ bal[u] = InitBalance[u] + adjusted[u]
                                + SumFunctionOnSet(BalanceRows, OrdersOf(u))
                    /\ frz[u] = SumFunctionOnSet(FrozenRows, OrdersOf(u))
  BY DEF BooksExplainWallet
<1>1. IsFiniteSet(OrdersOf(u))
  BY OrdersOfFacts
<1>2. \A o \in OrdersOf(u) : BalanceRows[o] = 0 /\ FrozenRows[o] = 0
  <2> SUFFICES ASSUME NEW o \in OrderIDs PROVE BalanceRows[o] = 0 /\ FrozenRows[o] = 0
    BY DEF OrdersOf
  <2>1. Order[o].amount \in Int /\ Order[o].fee \in Int
    BY OrderFacts
  <2>2. /\ rows[o]["credit"] = 0 /\ rows[o]["freeze"] = 0 /\ rows[o]["payout"] = 0
        /\ rows[o]["fee"] = 0 /\ rows[o]["unfreeze"] = 0
    BY DEF Init, Titles
  <2> QED BY <2>1, <2>2 DEF BalanceRows, FrozenRows
<1>3. SumFunctionOnSet(BalanceRows, OrdersOf(u)) = 0 /\ SumFunctionOnSet(FrozenRows, OrdersOf(u)) = 0
  BY <1>1, <1>2, SumType
<1> QED BY <1>3 DEF Init, WalletInit

\* The transaction rows explain every user's balance and frozen money, also
\* when two reviewers decide one order, which then is booked twice and paid
\* twice.
THEOREM BooksExplain == Spec => []BooksExplainWallet
<1>1. TypeOK /\ BooksExplainWallet /\ [Next]_vars => TypeOK' /\ BooksExplainWallet'
  BY BooksStep, TypeStep
<1>2. Init => TypeOK /\ BooksExplainWallet
  BY BooksInit, TypeInit
<1> QED BY <1>1, <1>2, PTL DEF Spec

(***************************************************************************)
(* One decision per order, unless reviews of it overlap.                   *)
(***************************************************************************)
Decided == {"approved", "rejected"}

\* Order p is as it was.
SameOrder(p) == status'[p] = status[p] /\ rows'[p] = rows[p]

LEMMA SameBooked ==
  ASSUME NEW p \in OrderIDs, Booked(p), SameOrder(p), overtaken \subseteq overtaken'
  PROVE  Booked(p)'
<1>1. \A t : Due(p, t)' <=> Due(p, t)
  BY DEF SameOrder, Due, IsRecharge
<1> QED BY <1>1 DEF Booked, SameOrder

\* What the rows of an order are once it has been decided.
LEMMA BookedAgain ==
  ASSUME TypeOK, NEW o \in OrderIDs, Booked(o), NEW s \in Decided, status'[o] = s,
         status[o] = "pending" \/ o \in overtaken, status[o] \in Filed,
         overtaken \subseteq overtaken',
         \/ IsRecharge(o) /\ s = "approved" /\ AddRows(o, {"credit"})
         \/ IsRecharge(o) /\ s = "rejected" /\ rows' = rows
         \/ /\ ~IsRecharge(o) /\ s = "approved"
            /\ AddRows(o, {"payout"} \cup (IF Order[o].fee > 0 THEN {"fee"} ELSE {}))
         \/ ~IsRecharge(o) /\ s = "rejected" /\ AddRows(o, {"unfreeze"})
  PROVE  Booked(o)'
<1>1. \A t : Due(o, t)' <=>
        \/ t = "credit"   /\ IsRecharge(o)  /\ s = "approved"
        \/ t = "freeze"   /\ ~IsRecharge(o)
        \/ t = "payout"   /\ ~IsRecharge(o) /\ s = "approved"
        \/ t = "fee"      /\ ~IsRecharge(o) /\ s = "approved" /\ Order[o].fee > 0
        \/ t = "unfreeze" /\ ~IsRecharge(o) /\ s = "rejected"
  BY DEF Due, IsRecharge, Decided, Filed
<1>2. status[o] = "pending" => \A t \in Titles : Due(o, t) <=> t = "freeze" /\ ~IsRecharge(o)
  BY DEF Due, Filed
<1>3. Due(o, "freeze") <=> ~IsRecharge(o)
  BY DEF Due
<1>4. /\ o \notin overtaken' =>
           \A t \in Titles : rows[o][t] = IF t = "freeze" /\ ~IsRecharge(o) THEN 1 ELSE 0
      /\ rows[o]["freeze"] = IF ~IsRecharge(o) THEN 1 ELSE 0
      /\ rows[o]["fee"] = IF Order[o].fee > 0 THEN rows[o]["payout"] ELSE 0
      /\ IF IsRecharge(o) THEN rows[o]["payout"] = 0 /\ rows[o]["unfreeze"] = 0
                          ELSE rows[o]["credit"] = 0
      /\ \A t \in Titles : rows[o][t] \in Nat
      /\ Order[o].fee \in Nat
  BY <1>2, <1>3, OrderFacts DEF Booked, TypeOK
<1>5. Titles = {"credit", "freeze", "payout", "fee", "unfreeze"}
  BY DEF Titles
<1> DEFINE Added(S) == \A t \in Titles : rows'[o][t] = rows[o][t] + (IF t \in S THEN 1 ELSE 0)
<1>6. ASSUME NEW S, AddRows(o, S) PROVE Added(S)
  BY <1>6, AddRowsType DEF TypeOK
<1> HIDE DEF Added
<1>11. /\ o \notin overtaken' => \A t \in Titles : rows'[o][t] = IF Due(o, t)' THEN 1 ELSE 0
       /\ \A t \in Titles : Due(o, t)' => rows'[o][t] >= 1
       /\ rows'[o]["freeze"] = IF Due(o, "freeze")' THEN 1 ELSE 0
       /\ rows'[o]["fee"] = IF Order[o].fee > 0 THEN rows'[o]["payout"] ELSE 0
       /\ IF IsRecharge(o) THEN rows'[o]["payout"] = 0 /\ rows'[o]["unfreeze"] = 0
                           ELSE rows'[o]["credit"] = 0
       => Booked(o)'
  BY DEF Booked, IsRecharge
<1>7. CASE IsRecharge(o) /\ s = "approved" /\ AddRows(o, {"credit"})
  <2>1. Added({"credit"})
    BY <1>6, <1>7
  <2>2. /\ rows'[o]["credit"] = rows[o]["credit"] + 1
        /\ rows'[o]["payout"] = rows[o]["payout"] /\ rows'[o]["fee"] = rows[o]["fee"]
        /\ rows'[o]["freeze"] = rows[o]["freeze"]
        /\ rows'[o]["unfreeze"] = rows[o]["unfreeze"]
    BY <1>4, <1>5, <2>1 DEF Added
  <2> QED BY <1>1, <1>4, <1>5, <1>7, <1>11, <2>2
<1>8. CASE IsRecharge(o) /\ s = "rejected" /\ rows' = rows
  BY <1>1, <1>4, <1>5, <1>8, <1>11
<1>9. CASE /\ ~IsRecharge(o) /\ s = "approved"
           /\ AddRows(o, {"payout"} \cup (IF Order[o].fee > 0 THEN {"fee"} ELSE {}))
  <2> DEFINE S == {"payout"} \cup (IF Order[o].fee > 0 THEN {"fee"} ELSE {})
  <2>1. Added(S)
    BY <1>6, <1>9
  <2>2. /\ "payout" \in S /\ ("fee" \in S <=> Order[o].fee > 0)
        /\ "credit" \notin S /\ "freeze" \notin S /\ "unfreeze" \notin S
    OBVIOUS
  <2> HIDE DEF S
  <2>3. /\ rows'[o]["payout"] = rows[o]["payout"] + 1
        /\ rows'[o]["fee"] = rows[o]["fee"] + (IF Order[o].fee > 0 THEN 1 ELSE 0)
        /\ rows'[o]["credit"] = rows[o]["credit"] /\ rows'[o]["freeze"] = rows[o]["freeze"]
        /\ rows'[o]["unfreeze"] = rows[o]["unfreeze"]
    BY <1>4, <1>5, <2>1, <2>2 DEF Added
  <2>4. o \notin overtaken' => \A t \in Titles : rows'[o][t] = IF Due(o, t)' THEN 1 ELSE 0
    BY <1>1, <1>4, <1>5, <1>9, <2>3
  <2>5. \A t \in Titles : Due(o, t)' => rows'[o][t] >= 1
    BY <1>1, <1>4, <1>5, <1>9, <2>3
  <2>6. rows'[o]["freeze"] = IF Due(o, "freeze")' THEN 1 ELSE 0
    BY <1>1, <1>4, <1>9, <2>3
  <2>7. rows'[o]["fee"] = IF Order[o].fee > 0 THEN rows'[o]["payout"] ELSE 0
    BY <1>4, <2>3
  <2>8. ~IsRecharge(o) /\ rows'[o]["credit"] = 0
    BY <1>4, <1>9, <2>3
  <2> QED BY <1>11, <2>4, <2>5, <2>6, <2>7, <2>8
<1>10. CASE ~IsRecharge(o) /\ s = "rejected" /\ AddRows(o, {"unfreeze"})
  <2>1. Added({"unfreeze"})
    BY <1>6, <1>10
  <2>2. /\ rows'[o]["unfreeze"] = rows[o]["unfreeze"] + 1
        /\ rows'[o]["payout"] = rows[o]["payout"] /\ rows'[o]["fee"] = rows[o]["fee"]
        /\ rows'[o]["freeze"] = rows[o]["freeze"] /\ rows'[o]["credit"] = rows[o]["credit"]
    BY <1>4, <1>5, <2>1 DEF Added
  <2> QED BY <1>1, <1>4, <1>5, <1>10, <1>11, <2>2
<1> QED BY <1>7, <1>8, <1>9, <1>10

\* What a decision reads and writes.
LEMMA DecisionFrame ==
  ASSUME TypeOK, OrdersInv, NEW r \in Reviewers, Decision(r)
  PROVE  \E o \in OrderIDs :
           /\ o = review[r].order
           /\ status[o] = "pending" \/ o \in overtaken
           /\ \A p \in OrderIDs \ {o} : SameOrder(p)
           /\ status'[o] \in Decided
           /\ review' = [review EXCEPT ![r] = NotReviewing]
           /\ overtaken' = IF ReviewedBy(o, Reviewers \ {r}) THEN overtaken \cup {o} ELSE overtaken
           /\ Booked(o)'
<1> USE DEF SetStatus, Deciding
<1>0. review[r] # NotReviewing /\ EndDecision(r)
  BY DEF Decision, RechargeApprove, RechargeReject, WithdrawApprove, WithdrawReject
<1>1. PICK o \in OrderIDs : o = review[r].order
  BY <1>0, UnderReview
<1>2. status[o] = "pending" \/ o \in overtaken
  BY <1>0, <1>1 DEF OrdersInv, ReviewIsFresh
<1>3. /\ review' = [review EXCEPT ![r] = NotReviewing]
      /\ overtaken' = IF ReviewedBy(o, Reviewers \ {r}) THEN overtaken \cup {o} ELSE overtaken
  BY <1>0, <1>1 DEF EndDecision, EndReview
<1>4. PICK s \in Decided :
         /\ status' = [status EXCEPT ![o] = s]
         /\ \/ IsRecharge(o) /\ s = "approved" /\ AddRows(o, {"credit"})
            \/ IsRecharge(o) /\ s = "rejected" /\ rows' = rows
            \/ /\ ~IsRecharge(o) /\ s = "approved"
               /\ AddRows(o, {"payout"} \cup (IF Order[o].fee > 0 THEN {"fee"} ELSE {}))
            \/ ~IsRecharge(o) /\ s = "rejected" /\ AddRows(o, {"unfreeze"})
  <2>1. CASE RechargeApprove(r)
    BY <1>1, <2>1, OrderFacts DEF RechargeApprove, Decided
  <2>2. CASE RechargeReject(r)
    BY <1>1, <2>2, OrderFacts DEF RechargeReject, Decided
  <2>3. CASE WithdrawApprove(r)
    BY <1>1, <2>3, OrderFacts DEF WithdrawApprove, Decided
  <2>4. CASE WithdrawReject(r)
    BY <1>1, <2>4, OrderFacts DEF WithdrawReject, RejectedStatus, Decided
  <2> QED BY <2>1, <2>2, <2>3, <2>4 DEF Decision
<1>5. \A p \in OrderIDs \ {o} : rows'[p] = rows[p]
  BY <1>4, AddRowsType DEF TypeOK
<1>6. status'[o] = s /\ \A p \in OrderIDs \ {o} : status'[p] = status[p]
  BY <1>4 DEF TypeOK
<1>7. status[o] \in Filed /\ Booked(o) /\ overtaken \subseteq overtaken'
  BY <1>2, <1>3 DEF OrdersInv, BooksMatchOrders, Filed
<1>8. Booked(o)'
  BY <1>2, <1>4, <1>6, <1>7, BookedAgain
<1> QED BY <1>1, <1>2, <1>3, <1>4, <1>5, <1>6, <1>8 DEF SameOrder

\* What filing writes: the status of one order that nobody can review yet.
LEMMA FileFrame ==
  ASSUME TypeOK, OrdersInv, NEW o \in OrderIDs, FileStep(o)
  PROVE  /\ review' = review /\ overtaken' = overtaken
         /\ \A p \in OrderIDs \ {o} : SameOrder(p)
         /\ status[o] \in Filed => SameOrder(o)
         /\ status'[o] = "looked" => IsRecharge(o)
         /\ Booked(o)'
<1> USE DEF TypeOK, SetStatus, Filed, SameOrder
<1>0. Booked(o)
  BY DEF OrdersInv, BooksMatchOrders
<1>1. CASE RechargeLookup(o)
  BY <1>0, <1>1 DEF RechargeLookup, Due, Booked, IsRecharge
<1>2. CASE RechargeSubmit(o)
  <2>1. IsRecharge(o) /\ status[o] = "looked" /\ status'[o] = "pending"
        /\ rows' = rows /\ overtaken' = overtaken
    BY <1>2 DEF RechargeSubmit, OrdersInv
  <2>2. \A t : ~Due(o, t) /\ ~Due(o, t)'
    BY <2>1 DEF Due, IsRecharge
  <2>3. Booked(o)'
    BY <1>0, <2>1, <2>2 DEF Booked
  <2> QED BY <1>2, <2>3 DEF RechargeSubmit
<1>3. CASE Age(o)
  <2>1. Booked(o)'
    BY <1>0, <1>3, SameBooked DEF Age
  <2> QED BY <1>3, <2>1 DEF Age, OrdersInv
<1>4. CASE WithdrawSubmit(o)
  <2>1. /\ status[o] = "new" /\ ~IsRecharge(o) /\ AddRows(o, {"freeze"})
        /\ status' = [status EXCEPT ![o] = "pending"] /\ review' = review
        /\ overtaken' = overtaken
    BY <1>4 DEF WithdrawSubmit
  <2>2. \A t \in Titles : rows[o][t] = 0
    BY <1>0, <2>1 DEF Due, Booked, OrdersInv
  <2>3. \A t \in Titles : rows'[o][t] = IF t = "freeze" THEN 1 ELSE 0
    BY <2>1, <2>2, AddRowsType
  <2>4. \A t \in Titles : Due(o, t)' <=> t = "freeze"
    BY <2>1 DEF Due, IsRecharge
  <2>5. Booked(o)'
    BY <2>3, <2>4 DEF Booked, Titles
  <2>6. \A p \in OrderIDs \ {o} : rows'[p] = rows[p]
    BY <2>1, AddRowsType
  <2> QED BY <2>1, <2>5, <2>6
<1> QED BY <1>1, <1>2, <1>3, <1>4 DEF FileStep

\* The step keeps what the orders rest on, and no decision is taken back.
Faithful ==
  /\ OrdersInv'
  /\ \A o \in OrderIDs : status[o] \in Decided =>
       status'[o] \in Decided /\ (o \notin overtaken' => SameOrder(o))

\* A step that decides nothing and files nothing leaves the books alone.
LEMMA OtherFrame ==
  ASSUME TypeOK, OrdersInv, UNCHANGED <<rows, overtaken>>, ReviewIsFresh',
         \A o \in OrderIDs : \/ status'[o] = status[o]
                             \/ status[o] = "looked" /\ status'[o] = "dead"
  PROVE  Faithful
<1>1. BooksMatchOrders'
  <2> SUFFICES ASSUME NEW o \in OrderIDs PROVE Booked(o)'
    BY DEF BooksMatchOrders
  <2>1. Booked(o) /\ \A t : Due(o, t)' <=> Due(o, t)
    BY DEF OrdersInv, BooksMatchOrders, Due, Filed, IsRecharge
  <2> QED BY <2>1 DEF Booked
<1>2. \A o \in overtaken : o \in OrderIDs
  BY DEF TypeOK
<1> QED BY <1>1, <1>2 DEF Faithful, OrdersInv, SameOrder, Decided, IsRecharge

LEMMA OrdersStep ==
  ASSUME TypeOK, OrdersInv, [Next]_vars
  PROVE  Faithful
<1>1. ASSUME NEW o \in OrderIDs, FileStep(o) PROVE Faithful
  <2>1. /\ review' = review /\ overtaken' = overtaken
        /\ \A p \in OrderIDs \ {o} : SameOrder(p)
        /\ status[o] \in Filed => SameOrder(o)
        /\ status'[o] = "looked" => IsRecharge(o)
        /\ Booked(o)'
    BY <1>1, FileFrame
  <2>2. \A p \in OrderIDs : status[p] \in Filed => SameOrder(p)
    BY <2>1
  <2>3. ReviewIsFresh'
    <3> SUFFICES ASSUME NEW r \in Reviewers, review[r] # NotReviewing
                 PROVE  status'[review[r].order] = "pending" \/ review[r].order \in overtaken
      BY <2>1 DEF ReviewIsFresh
    <3>1. review[r].order \in OrderIDs
          /\ (status[review[r].order] = "pending" \/ review[r].order \in overtaken)
      BY UnderReview DEF OrdersInv, ReviewIsFresh
    <3> QED BY <2>2, <3>1 DEF Filed, SameOrder
  <2>4. BooksMatchOrders'
    <3>1. ASSUME NEW p \in OrderIDs, p # o PROVE Booked(p)'
      BY <2>1, <3>1, SameBooked DEF OrdersInv, BooksMatchOrders
    <3> QED BY <2>1, <3>1 DEF BooksMatchOrders
  <2>5. \A p \in OrderIDs : status'[p] = "looked" => IsRecharge(p)
    BY <2>1 DEF OrdersInv, SameOrder
  <2>6. \A p \in overtaken : status'[p] \in Decided
    BY <2>2 DEF OrdersInv, SameOrder, Filed, Decided, TypeOK
  <2> QED BY <2>1, <2>2, <2>3, <2>4, <2>5, <2>6 DEF OrdersInv, Filed, Faithful, Decided, IsRecharge, SameOrder
<1>2. ASSUME NEW r \in Reviewers, Decision(r) PROVE Faithful
  <2>1. PICK o \in OrderIDs :
           /\ o = review[r].order
           /\ status[o] = "pending" \/ o \in overtaken
           /\ \A p \in OrderIDs \ {o} : SameOrder(p)
           /\ status'[o] \in Decided
           /\ review' = [review EXCEPT ![r] = NotReviewing]
           /\ overtaken' = IF ReviewedBy(o, Reviewers \ {r}) THEN overtaken \cup {o} ELSE overtaken
           /\ Booked(o)'
    BY <1>2, DecisionFrame
  <2>2. ReviewIsFresh'
    <3> SUFFICES ASSUME NEW s \in Reviewers, review'[s] # NotReviewing
                 PROVE  status'[review'[s].order] = "pending" \/ review'[s].order \in overtaken'
      BY DEF ReviewIsFresh
    <3>1. s # r /\ review'[s] = review[s]
      BY <2>1 DEF TypeOK
    <3>2. review[s].order \in OrderIDs
          /\ (status[review[s].order] = "pending" \/ review[s].order \in overtaken)
      BY <3>1, UnderReview DEF OrdersInv, ReviewIsFresh
    <3>3. CASE review[s].order = o
      BY <2>1, <3>1, <3>3 DEF ReviewedBy
    <3>4. CASE review[s].order # o
      BY <2>1, <3>1, <3>2, <3>4 DEF SameOrder
    <3> QED BY <3>3, <3>4
  <2>3. BooksMatchOrders'
    <3>1. ASSUME NEW p \in OrderIDs, p # o PROVE Booked(p)'
      BY <2>1, <3>1, SameBooked DEF OrdersInv, BooksMatchOrders
    <3> QED BY <2>1, <3>1 DEF BooksMatchOrders
  <2>4. \A p \in OrderIDs : status'[p] = "looked" => IsRecharge(p)
    BY <2>1 DEF OrdersInv, SameOrder, Decided
  <2>5. \A p \in overtaken' : status'[p] \in Decided
    BY <2>1 DEF OrdersInv, SameOrder, Decided, TypeOK
  <2> QED BY <2>1, <2>2, <2>3, <2>4, <2>5 DEF OrdersInv, Faithful, Decided, IsRecharge, SameOrder
<1>3. ASSUME UNCHANGED <<status, rows, overtaken>>, ReviewIsFresh' PROVE Faithful
  BY <1>3, OtherFrame
<1>4. ASSUME NEW u \in Users, NEW delta \in Deltas, WalletApply(u, delta)
      PROVE  UNCHANGED <<status, rows, overtaken>> /\ ReviewIsFresh'
  BY <1>4 DEF WalletApply, OrdersInv, ReviewIsFresh
<1>5. ASSUME NEW r \in Reviewers, NEW o \in OrderIDs, NEW verdict, ReadOrder(r, o, verdict)
      PROVE  UNCHANGED <<status, rows, overtaken>> /\ ReviewIsFresh'
  BY <1>5 DEF ReadOrder, Reviewable, OrdersInv, ReviewIsFresh, TypeOK
<1>6. ASSUME NEW r \in Reviewers, ReviewFails(r)
      PROVE  UNCHANGED <<status, rows, overtaken>> /\ ReviewIsFresh'
  BY <1>6 DEF ReviewFails, EndReview, OrdersInv, ReviewIsFresh, TypeOK
<1>7. CASE Crash
  <2>1. ReviewIsFresh' /\ UNCHANGED <<rows, overtaken>>
    BY <1>7 DEF Crash, HandlersDie, ReviewIsFresh
  <2>2. \A o \in OrderIDs : \/ status'[o] = status[o]
                            \/ status[o] = "looked" /\ status'[o] = "dead"
    BY <1>7 DEF Crash, HandlersDie
  <2> QED BY <2>1, <2>2, OtherFrame
<1>8. CASE UNCHANGED vars
  <2>1. UNCHANGED <<status, rows, overtaken>> /\ ReviewIsFresh'
    BY <1>8 DEF vars, ovars, OrdersInv, ReviewIsFresh
  <2> QED BY <1>3, <2>1
<1> QED BY <1>1, <1>2, <1>3, <1>4, <1>5, <1>6, <1>7, <1>8 DEF Next, ReviewStep, Decision

(***************************************************************************)
(* What a step moves, for the orders beside other things that share the    *)
(* wallet.                                                                 *)
(***************************************************************************)
\* A step of order o moves money of its owner: as much frozen money as its rows
\* say, and in all as much as they say the order brings in.
Moved(o, x, y) ==
  /\ MutateUser(Owner(o), x, y)
  /\ FrozenRows'[o] = FrozenRows[o] + y
  /\ BroughtRows'[o] = BroughtRows[o] + (x + y)
  /\ \A p \in OrderIDs \ {o} : FrozenRows'[p] = FrozenRows[p] /\ BroughtRows'[p] = BroughtRows[p]

LEMMA MovedBy ==
  ASSUME TypeOK, NEW o \in OrderIDs, NEW x \in Int, NEW y \in Int,
         MutateUser(Owner(o), x, y), Books(o, x, y)
  PROVE  Moved(o, x, y)
<1>1. BalanceRows[o] \in Int /\ FrozenRows[o] \in Int
  BY BooksType
<1>2. /\ BroughtRows[o] = BalanceRows[o] + FrozenRows[o]
      /\ BroughtRows'[o] = BalanceRows'[o] + FrozenRows'[o]
  BY DEF BroughtRows
<1>3. FrozenRows'[o] = FrozenRows[o] + y /\ BalanceRows'[o] = BalanceRows[o] + x
  BY DEF Books
<1>4. BroughtRows'[o] = BroughtRows[o] + (x + y)
  <2> HIDE DEF BalanceRows, FrozenRows, BroughtRows
  <2> QED BY <1>1, <1>2, <1>3
<1>5. \A p \in OrderIDs \ {o} : FrozenRows'[p] = FrozenRows[p] /\ BroughtRows'[p] = BroughtRows[p]
  BY DEF Books, FrozenRows, BroughtRows, BalanceRows
<1> QED BY <1>3, <1>4, <1>5 DEF Moved

LEMMA SameRows ==
  ASSUME UNCHANGED rows PROVE UNCHANGED <<FrozenRows, BroughtRows>>
BY DEF FrozenRows, BroughtRows, BalanceRows

LEMMA OrderStepMoves ==
  ASSUME TypeOK, (\E o \in OrderIDs : FileStep(o)) \/ (\E r \in Reviewers : ReviewStep(r))
  PROVE  /\ UNCHANGED adjusted
         /\ UNCHANGED <<bal, frz, FrozenRows, BroughtRows>> \/
            \E o \in OrderIDs, x \in Int, y \in Int : Moved(o, x, y)
<1>1. ASSUME NEW o \in OrderIDs, WithdrawSubmit(o) PROVE \E x \in Int, y \in Int : Moved(o, x, y)
  <2>1. PICK a \in Int : a = Order[o].amount /\ -a \in Int
    BY OrderFacts
  <2>2. MutateUser(Owner(o), -a, a) /\ Books(o, -a, a)
    BY <1>1, <2>1, HandlersBook DEF WithdrawSubmit, WithdrawFreeze
  <2>3. Moved(o, -a, a)
    BY <2>1, <2>2, MovedBy
  <2> QED BY <2>1, <2>3
<1>2. ASSUME NEW r \in Reviewers,
             RechargeApprove(r) \/ WithdrawApprove(r) \/ WithdrawReject(r)
      PROVE  \E o \in OrderIDs, x \in Int, y \in Int : Moved(o, x, y)
  <2>1. PICK o \in OrderIDs : o = review[r].order
    BY <1>2, UnderReview DEF RechargeApprove, WithdrawApprove, WithdrawReject, Deciding
  <2>2. PICK a \in Int, f \in Int : /\ a = Order[o].amount /\ f = Order[o].fee
                                    /\ -a \in Int /\ -f \in Int
    BY OrderFacts
  <2>3. CASE RechargeApprove(r)
    <3>1. MutateUser(Owner(o), a, 0) /\ Books(o, a, 0)
      BY <2>1, <2>2, <2>3, HandlersBook DEF RechargeApprove
    <3>2. Moved(o, a, 0)
      BY <2>2, <3>1, MovedBy
    <3> QED BY <2>2, <3>2
  <2>4. CASE WithdrawApprove(r)
    <3>1. MutateUser(Owner(o), -f, -a) /\ Books(o, -f, -a)
      BY <2>1, <2>2, <2>4, HandlersBook DEF WithdrawApprove, PayoutFee
    <3>2. Moved(o, -f, -a)
      BY <2>2, <3>1, MovedBy
    <3> QED BY <2>2, <3>2
  <2>5. CASE WithdrawReject(r)
    <3>1. MutateUser(Owner(o), a, -a) /\ Books(o, a, -a)
      BY <2>1, <2>2, <2>5, HandlersBook DEF WithdrawReject
    <3>2. Moved(o, a, -a)
      BY <2>2, <3>1, MovedBy
    <3> QED BY <2>2, <3>2
  <2> QED BY <1>2, <2>3, <2>4, <2>5
<1>3. ASSUME UNCHANGED <<bal, frz, rows, adjusted>>
      PROVE  UNCHANGED adjusted /\ UNCHANGED <<bal, frz, FrozenRows, BroughtRows>>
  BY <1>3, SameRows
<1>4. ASSUME NEW o \in OrderIDs, FileStep(o), ~WithdrawSubmit(o)
      PROVE  UNCHANGED <<bal, frz, rows, adjusted>>
  BY <1>4 DEF FileStep, RechargeLookup, RechargeSubmit, Age
<1>5. ASSUME NEW r \in Reviewers, ReviewStep(r),
             ~(RechargeApprove(r) \/ WithdrawApprove(r) \/ WithdrawReject(r))
      PROVE  UNCHANGED <<bal, frz, rows, adjusted>>
  BY <1>5 DEF ReviewStep, ReadOrder, RechargeReject, ReviewFails
<1>6. ASSUME NEW o \in OrderIDs, WithdrawSubmit(o) PROVE UNCHANGED adjusted
  BY <1>6 DEF WithdrawSubmit
<1>7. ASSUME NEW r \in Reviewers,
             RechargeApprove(r) \/ WithdrawApprove(r) \/ WithdrawReject(r)
      PROVE  UNCHANGED adjusted
  BY <1>7 DEF RechargeApprove, WithdrawApprove, WithdrawReject
<1> QED BY <1>1, <1>2, <1>3, <1>4, <1>5, <1>6, <1>7

\* The rows of an order that no review was overtaken on keep frozen what it
\* asks for while it is a pending withdrawal, and nothing before and after.
LEMMA RowsArePending ==
  ASSUME TypeOK, OrdersInv, NEW o \in OrderIDs \ overtaken
  PROVE  FrozenRows[o] = PendingOf[o]
<1>1. \A t \in Titles : rows[o][t] = IF Due(o, t) THEN 1 ELSE 0
  BY DEF OrdersInv, BooksMatchOrders, Booked
<1>2. PICK a \in Int : Order[o].amount = a
  BY OrderFacts
<1>3. FrozenRows[o] = a * (rows[o]["freeze"] - rows[o]["unfreeze"] - rows[o]["payout"])
  BY <1>2 DEF FrozenRows
<1>4. rows[o]["freeze"] - rows[o]["unfreeze"] - rows[o]["payout"] =
        IF ~IsRecharge(o) /\ status[o] = "pending" THEN 1 ELSE 0
  BY <1>1 DEF Due, Titles, Filed, TypeOK
<1>5. PendingOf[o] = IF ~IsRecharge(o) /\ status[o] = "pending" THEN a ELSE 0
  BY <1>2 DEF PendingOf
<1>6. a * 1 = a /\ a * 0 = 0
  BY <1>2
<1> QED BY <1>3, <1>4, <1>5, <1>6

\* A recharge keeps nothing frozen, whoever decided it.
LEMMA RechargesKeepNothing ==
  ASSUME TypeOK, OrdersInv, NEW o \in OrderIDs, IsRecharge(o)
  PROVE  FrozenRows[o] = 0
<1>1. rows[o]["freeze"] = 0 /\ rows[o]["payout"] = 0 /\ rows[o]["unfreeze"] = 0
  BY DEF OrdersInv, BooksMatchOrders, Booked, Due
<1>2. PICK a \in Int : Order[o].amount = a
  BY OrderFacts
<1> QED BY <1>1, <1>2 DEF FrozenRows

LEMMA OrdersInit == Init => OrdersInv
BY DEF Init, OrdersInv, ReviewIsFresh, BooksMatchOrders, Booked, Due, Filed, Titles

LEMMA OrdersSafe == Spec => [](TypeOK /\ OrdersInv)
<1>1. TypeOK /\ OrdersInv /\ [Next]_vars => TypeOK' /\ OrdersInv'
  BY OrdersStep, TypeStep DEF Faithful
<1> QED BY <1>1, OrdersInit, TypeInit, PTL DEF Spec

\* The review handlers decide an order from what is still true of it, unless
\* another review of the same order was quicker.
THEOREM ReviewsAreFresh == Spec => []OrdersSafety
BY OrdersSafe, PTL DEF OrdersSafety

\* Every order has exactly the transaction rows its status calls for: it was
\* credited, paid out or given back once; one that two reviews decided has them
\* at least once, and is still frozen once and charged for each payout.
THEOREM BooksAreRight == Spec => []BooksMatchOrders
<1>1. OrdersInv => BooksMatchOrders
  BY DEF OrdersInv
<1> QED BY <1>1, OrdersSafe, PTL

\* A decision is changed only by a review that had begun before it.
THEOREM DecisionsAreFinal == Spec => DecisionIsFinal
<1>1. TypeOK /\ OrdersInv /\ [Next]_vars =>
        [\A o \in OrderIDs : status[o] \in {"approved", "rejected"} =>
           /\ status'[o] \in {"approved", "rejected"}
           /\ o \notin overtaken' => status'[o] = status[o] /\ rows'[o] = rows[o]]_vars
  BY OrdersStep DEF Faithful, Decided, SameOrder
<1> QED BY <1>1, OrdersSafe, PTL DEF Spec, DecisionIsFinal
=============================================================================
