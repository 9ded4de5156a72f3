------------------------------- MODULE Wallet -------------------------------
(***************************************************************************)
(* The two money columns of the user table of im-server, balance (money    *)
(* the user can spend) and frozen (money promised to a packet or to a      *)
(* withdrawal), in cents, and the one way the server changes them: inside  *)
(* a MySQL transaction, with the user row locked, refusing to make either  *)
(* column negative.  The row lock is held to the end of the transaction,   *)
(* so a module that uses MutateUser may treat a whole transaction as one   *)
(* step; PacketLocks checks that argument lock by lock.                    *)
(***************************************************************************)
EXTENDS Integers, FiniteSets, Functions

CONSTANTS Users,        \* accounts
          InitBalance   \* what each account starts with

ASSUME WalletAssumption == InitBalance \in [Users -> Nat]
ASSUME FiniteUsers == IsFiniteSet(Users)

VARIABLES bal,   \* user.balance
          frz    \* user.frozen

wallet == <<bal, frz>>

WalletType == /\ bal \in [Users -> Nat]
              /\ frz \in [Users -> Nat]

WalletInit == /\ bal = InitBalance
              /\ frz = [u \in Users |-> 0]

\* Fault: the balance is not checked.
CanMutateOverdrawn(u, dBalance, dFrozen) == frz[u] + dFrozen >= 0

\* mutateUser and WalletMutateInTx: error 4101 when the balance would go below
\* zero, 4102 when the frozen amount would; both roll back.
CanMutate(u, dBalance, dFrozen) == /\ bal[u] + dBalance >= 0
                                   /\ frz[u] + dFrozen >= 0

MutateUser(u, dBalance, dFrozen) ==
  /\ CanMutate(u, dBalance, dFrozen)
  /\ bal' = [bal EXCEPT ![u] = @ + dBalance]
  /\ frz' = [frz EXCEPT ![u] = @ + dFrozen]

\* Everything the server owes its users, spendable or promised.
Assets == SumFunction(bal) + SumFunction(frz)
=============================================================================
