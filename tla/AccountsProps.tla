---------------------------- MODULE AccountsProps ----------------------------
(***************************************************************************)
(* What registration, login and sessions promise.                          *)
(***************************************************************************)
EXTENDS Accounts

TicketType == [secret : BOOLEAN, status : {"pending", "scanned", "confirmed"},
               uid : People \cup {NoOne}]

\* Every variable has its type, every key of Redis the value its kind calls
\* for, and two users never share a short id.
TypeOK ==
  /\ \A u \in People :
       /\ DOMAIN user[u] = DOMAIN NoUser
       /\ user[u].status \in {"none", "normal", "disabled"}
       /\ \A v \in People \ {u} : user[u].short = user[v].short => user[u].short = 0
  /\ invite \in [InviteCodes -> Phones \cup {NoOne}]
  /\ \A k \in DOMAIN redis :
       /\ k[1] = "ticket" => redis[k].val \in TicketType
       /\ k[1] # "ticket" => redis[k].val \in Nat
       /\ k[1] \in {"captcha", "sms", "bindphone", "refresh"} => redis[k].ttl
  /\ given \in SUBSET [who : People, at : 0..setting.maxTime]
  /\ \A h \in Handlers : hand[h] # Idle => hand[h].todo # <<>>

\* A request gets past a statement that checks something only if that was not
\* wrong at every moment since the request arrived.  So a captcha, an SMS code
\* or an invite code lets a second request pass only beside the first; a
\* device gets a second guest, and an account a second row, only by requests
\* that overlap; an old password, a dropped refresh token, a ban, a ticket
\* that was confirmed, taken or has expired, and a full rate limit hold.
NeverWhollyBarred ==
  \A h \in Handlers : hand[h] # Idle => barred[h] \subseteq Elems(hand[h].todo)

\* Rows and keys are of their types, and no check is passed that was failing
\* throughout.
AccountsInv == TypeOK /\ NeverWhollyBarred

\* An account or a number that has used up its limit may try again some day,
\* unless a call died or failed between counting and setting the end of the
\* window.
LimitLifts ==
  \A k \in RateKeys : (Has(k) /\ faults = 0) ~> (~Has(k) \/ faults > 0)
=============================================================================
