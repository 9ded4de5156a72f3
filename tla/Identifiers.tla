---------------------------- MODULE Identifiers ----------------------------
(***************************************************************************)
(* Both kinds of ids of im-server, what they promise, and their            *)
(* composition: numbers and ids share no state, only the clock's scenario. *)
(***************************************************************************)
EXTENDS ShortIds, Snowflake

allvars == <<vars, sfvars>>

IdsInit == Init /\ SnowflakeInit

\* A scenario lets the clock run, or admins ask.
IdsNext ==
  \/ Next /\ UNCHANGED sfvars
  \/ setting.maxTime > 0 /\ SnowflakeNext /\ UNCHANGED vars

IdsSpec == IdsInit /\ [][IdsNext]_allvars

-----------------------------------------------------------------------------
\* Every variable has its type.
TypeOK ==
  /\ user \in [Users -> [known : BOOLEAN, there : BOOLEAN, short : Numbers \cup {None}]]
  /\ row \in [Numbers -> [status : {"none", "open", "frozen", "used"},
                          by : Users \cup {NoOne}, gone : Nat]]
  /\ edited \subseteq Users /\ crossed \subseteq Users
  /\ step \in [Processes -> 0..(Steps - 1)] /\ last \in [Processes -> 0..MaxClock]

\* No two users have one number, whatever is drawn, edited, assigned and
\* relieved at once.
NumbersUnique ==
  \A u, v \in Users : user[u].short = user[v].short /\ user[u].short # None => u = v

\* A request writes only if what it asks for was allowed at some moment since
\* it arrived.  A number that was frozen all the time is not assigned, nor is
\* one that a user held all the time to whom it is not booked; a number that is
\* booked to another user is taken from him (admin.go:1212), whatever the
\* comment at admin.go:1183 says.  A number that another user held all the time
\* is not given by an edit, one that was booked all the time is not frozen,
\* thawed or deleted, and one that was not booked is not relieved.
NeverWhollyBarred ==
  \A h \in Handlers : hand[h] # Idle /\ (At(h, "set") \/ At(h, "commit") \/ At(h, "write"))
                      => meant[h]

\* A user keeps his number: only a request about him takes it, or one about
\* the number that was read when he had it, or the clearing of all users.  He
\* may have been given another one since it was read, which a relief then takes
\* from him, although admin.go:1313 says that it does not.
NumberHeld ==
  [][\A u \in Users : user[u].short # None /\ user'[u].short # user[u].short =>
       \E h \in Handlers :
         \/ At(h, "write") /\ Req(h).who = u
         \/ At(h, "remove") /\ u \in hand[h].mem
         \/ At(h, "commit") /\ (Req(h).who = u \/ Held(hand[h].mem.user, u, Req(h).num))]_vars

\* The pool's book is right, however requests overlap: a number that is booked
\* to a user is his, unless an admin has edited his number, or a transaction
\* about him wrote when he, or the row of his number, had changed since it was
\* read.  Nobody else is touched by such a transaction.
BooksAgree ==
  \A n \in Numbers : row[n].status = "used" =>
    \A u \in Users \ (edited \cup crossed) : row[n].by = u /\ user[u].there => user[u].short = n

\* Users' numbers are unique always, and booked rightly but for lost updates of
\* the user himself.
NumbersInv == TypeOK /\ NumbersUnique /\ BooksAgree
=============================================================================
