------------------------------- MODULE Escrow -------------------------------
(***************************************************************************)
(* What the money packets promise, without saying how: money put into an   *)
(* escrow leaves its funder's balance, is paid out of the escrow or given  *)
(* back to the funder, and an escrow that has given its rest back is over. *)
(* Every step moves one amount from one place to another, so no step       *)
(* makes money or loses it.                                                *)
(***************************************************************************)
EXTENDS Integers

CONSTANTS
  Users,        \* accounts
  InitBalance,  \* what each can spend at the start
  Escrows,      \* escrows
  Funder,       \* who funds each escrow
  Price         \* with how much

VARIABLES bal,    \* what each user can spend
          held,   \* what each escrow holds
          life    \* "unfunded", "holding" or "returned"

evars == <<bal, held, life>>

EscrowInit == /\ bal = InitBalance
              /\ held = [e \in Escrows |-> 0]
              /\ life = [e \in Escrows |-> "unfunded"]

Fund(e) ==
  /\ life[e] = "unfunded"
  /\ bal[Funder[e]] >= Price[e]
  /\ bal' = [bal EXCEPT ![Funder[e]] = @ - Price[e]]
  /\ held' = [held EXCEPT ![e] = Price[e]]
  /\ life' = [life EXCEPT ![e] = "holding"]

Pay(e, u, a) ==
  /\ life[e] = "holding"
  /\ a >= 1 /\ a <= held[e]
  /\ bal' = [bal EXCEPT ![u] = @ + a]
  /\ held' = [held EXCEPT ![e] = @ - a]
  /\ UNCHANGED life

GiveBack(e) ==
  /\ life[e] = "holding"
  /\ bal' = [bal EXCEPT ![Funder[e]] = @ + held[e]]
  /\ held' = [held EXCEPT ![e] = 0]
  /\ life' = [life EXCEPT ![e] = "returned"]

EscrowNext == \E e \in Escrows :
                \/ Fund(e)
                \/ \E u \in Users, a \in 1..held[e] : Pay(e, u, a)
                \/ GiveBack(e)

EscrowSpec == EscrowInit /\ [][EscrowNext]_evars
=============================================================================
