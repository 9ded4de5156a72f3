------------------------------ MODULE ShortIds ------------------------------
(***************************************************************************)
(* The short numbers of users: drawn at registration, edited by admins, or *)
(* reserved in a pool from which admins assign them.                       *)
(*                                                                         *)
(* A request is a sequence of statements.  The transactions of an          *)
(* assignment and of a relief read one snapshot, since the FOR UPDATE they *)
(* set is an option this GORM does not know, and their writes appear when  *)
(* they commit.  A row of the pool is found by its number; its id is the   *)
(* number with the count of deletions before it, so that a row reserved    *)
(* again is another row, which requests for the old one do not find.       *)
(***************************************************************************)
EXTENDS Integers, Sequences

CONSTANTS
  Users,
  Numbers,        \* short numbers
  Tried,          \* those that genShortID tries, in their order
  Scenarios,      \* who has registered, what admins ask, and how often
  Handlers

None == 0
NoOne == "0"      \* used_by of a row that is free

\* who is a user, num a number.
Request == [op : {"update", "assign", "relieve", "freeze", "thaw", "delete", "batch",
                  "register", "clear"},
            who : Users \cup {NoOne}, num : Numbers \cup {None}]

ASSUME ShortIdsAssumption ==
  /\ Numbers \subseteq Nat \ {None} /\ Tried \subseteq Numbers
  /\ \A s \in Scenarios : /\ s.ask \subseteq Request /\ s.users \subseteq Users
                          /\ s.pool \subseteq Numbers
                          /\ s.maxAsked \in Nat /\ s.maxTime \in Nat
                          /\ \A r \in s.ask : r.op \in {"update", "assign", "register"}
                                               => r.who \in Users

VARIABLES
  setting,  \* the scenario
  user,     \* has he registered, is there a row of user, and its short_id
  row,      \* rows of reserved_short_id, by short_id, and how often one was deleted
  hand,     \* requests under way: statements to do, the row's id, what was read
  meant,    \* has what a request asks for been allowed since it arrived (history)?
  crossed,  \* users about whom a transaction wrote what was no longer so (history)
  edited,   \* users whose number AdminUserUpdate has written (history)
  asked

vars == <<setting, user, row, hand, meant, crossed, edited, asked>>

NoRow == [status |-> "none", by |-> NoOne, gone |-> 0]
Idle == [todo |-> <<>>]

Free(r) == [r EXCEPT !.status = "open", !.by = NoOne]
Used(r, u) == [r EXCEPT !.status = "used", !.by = u]
Deleted(r) == [r EXCEPT !.status = "none", !.by = NoOne, !.gone = @ + 1]

There(n) == row[n].status # "none"

-----------------------------------------------------------------------------
(* Requests.                                                               *)

Statements(op) ==
  CASE op = "update"   -> <<"count", "write">>
    [] op = "assign"   -> <<"look", "exists", "begin", "commit">>
    [] op = "relieve"  -> <<"look", "begin", "commit">>
    [] op \in {"freeze", "thaw", "delete"} -> <<"look", "set">>
    [] op = "batch"    -> <<"reserve">>
    [] op = "register" -> <<"draw", "create">>
    [] op = "clear"    -> <<"pluck", "remove", "release">>

At(h, s) == hand[h].todo # <<>> /\ Head(hand[h].todo) = s
Req(h)   == hand[h].req
Op(h)    == Req(h).op
Mine(h)  == There(Req(h).num) /\ row[Req(h).num].gone = hand[h].gone

Onward(x, mem) == IF Len(x.todo) = 1 THEN Idle ELSE [x EXCEPT !.todo = Tail(@), !.mem = mem]
Left(h, mem) == hand' = [hand EXCEPT ![h] = Onward(@, mem)]
Done(h)  == hand' = [hand EXCEPT ![h] = Idle]
Only(h, may, mem) == IF may THEN Left(h, mem) ELSE Done(h)

Held(users, u, n) == users[u].there /\ users[u].short = n
Clash(u, n) == \E v \in Users \ {u} : Held(user, v, n)

\* short_id has a unique index; many users may have none.
Refused(u, n) == n # None /\ Clash(u, n)

-----------------------------------------------------------------------------
(* AdminUserUpdate.  It also tries to mark a row of the pool used, with a   *)
(* column that the table does not have, so that MySQL refuses it.           *)

CountDup(h) ==
  /\ At(h, "count") /\ Only(h, Req(h).num = None \/ ~Clash(Req(h).who, Req(h).num), {})
  /\ UNCHANGED <<user, row, edited, crossed>>

WriteNumber(h) ==
  /\ At(h, "write")
  /\ LET u == Req(h).who IN
       IF Refused(u, Req(h).num) \/ ~user[u].there THEN UNCHANGED <<user, edited>>
       ELSE /\ user' = [user EXCEPT ![u].short = Req(h).num]
            /\ edited' = edited \cup {u}
  /\ Done(h) /\ UNCHANGED <<row, crossed>>

-----------------------------------------------------------------------------
(* Freezing, deleting and reserving.                                        *)

\* Fault: the pool lets any number go.
AllowsAny(op, u, r) == r.status # "none"

\* What an admin may do with a row; an assignment to its user is over at once.
Allows(op, u, r) ==
  CASE op = "assign"  -> r.status \in {"open", "used"} /\ ~(r.status = "used" /\ r.by = u)
    [] op = "relieve" -> r.status = "used" /\ r.by # NoOne
    [] op \in {"freeze", "thaw", "delete"} -> r.status \in {"open", "frozen"}
    [] OTHER -> TRUE

Look(h) ==
  /\ At(h, "look") /\ Only(h, Mine(h) /\ Allows(Op(h), Req(h).who, row[Req(h).num]), {})
  /\ UNCHANGED <<user, row, edited, crossed>>

SetRow(h) ==
  /\ At(h, "set")
  /\ LET n == Req(h).num IN
       row' = IF ~Mine(h) THEN row
              ELSE CASE Op(h) = "freeze" -> [row EXCEPT ![n].status = "frozen"]
                     [] Op(h) = "thaw"   -> [row EXCEPT ![n].status = "open"]
                     [] Op(h) = "delete" -> [row EXCEPT ![n] = Deleted(@)]
  /\ Done(h) /\ UNCHANGED <<user, edited, crossed>>

\* AdminReservedShortIDBatch passes over numbers that are reserved.
Reserve(h) ==
  /\ At(h, "reserve")
  /\ row' = IF There(Req(h).num) THEN row ELSE [row EXCEPT ![Req(h).num] = Free(@)]
  /\ Done(h) /\ UNCHANGED <<user, edited, crossed>>

-----------------------------------------------------------------------------
(* AdminReservedShortIDAssign and Relieve: what their transactions read in  *)
(* the snapshot t, and what they write.                                     *)

\* An assignment asks for the user before its transaction begins.
Exists(h) ==
  /\ At(h, "exists") /\ Only(h, user[Req(h).who].there, {})
  /\ UNCHANGED <<user, row, edited, crossed>>

\* A holder loses the number only if he still has it under the row's book.
Loses(t, n, v) == t.row[n].status = "used" /\ t.row[n].by = v /\ Held(t.user, v, n)

MayAssign(t, u, n) ==
  /\ t.row[n].status \in {"open", "used"} /\ t.user[u].there
  /\ \A v \in Users \ {u} : Held(t.user, v, n) => Loses(t, n, v)

\* Fault: the number the user had stays booked.
ReleasedNever(t, u, m) == FALSE

\* The user's number before goes back to the pool, if it is booked to him.
Released(t, u, m) == t.user[u].short = m /\ t.row[m].by = u

\* A row is written by the id that was read.
Update(t, m, new) == IF There(m) /\ row[m].gone = t.row[m].gone THEN new ELSE row[m]

AssignRows(t, u, n) ==
  [m \in Numbers |->
     IF m = n THEN Update(t, m, Used(row[m], u))
     ELSE IF Released(t, u, m) THEN Update(t, m, Free(row[m]))
     ELSE row[m]]

AssignUsers(t, u, n) ==
  [v \in Users |->
     IF ~user[v].there THEN user[v]
     ELSE IF v = u THEN [user[v] EXCEPT !.short = n]
     ELSE IF Loses(t, n, v) THEN [user[v] EXCEPT !.short = None]
     ELSE user[v]]

\* Fault: whoever the row is booked to loses his number.
RelievedBlind(t, n, v) == t.row[n].by = v

\* Only a user who still has the number loses it.
Relieved(t, n, v) == t.row[n].by = v /\ Held(t.user, v, n)

RelieveUsers(t, n) ==
  [v \in Users |-> IF user[v].there /\ Relieved(t, n, v) THEN [user[v] EXCEPT !.short = None]
                   ELSE user[v]]

Begin(h) ==
  /\ At(h, "begin")
  /\ LET t == [user |-> user, row |-> row]  n == Req(h).num IN
       Only(h, Mine(h) /\ (Op(h) = "assign" => MayAssign(t, Req(h).who, n)), t)
  /\ UNCHANGED <<user, row, edited, crossed>>

\* The user, or the row of the number he has, is no longer as it was read.
Changed(t, v) ==
  user[v] # t.user[v] \/ (user[v].short # None /\ row[user[v].short] # t.row[user[v].short])

Crossing(t, about) == crossed' = crossed \cup {v \in Users \cap about : Changed(t, v)}

\* A transaction commits, or is rolled back: by the unique index, or as the
\* victim of a deadlock.
Commit(h) ==
  /\ At(h, "commit") /\ Done(h)
  /\ LET t == hand[h].mem  u == Req(h).who  n == Req(h).num IN
       \/ UNCHANGED <<user, row, crossed>>
       \/ /\ Op(h) = "assign" /\ Crossing(t, {u, t.row[n].by})
          /\ \A v \in Users \ {u} : Refused(u, n) /\ Held(user, v, n) => Loses(t, n, v)
          /\ user' = AssignUsers(t, u, n) /\ row' = AssignRows(t, u, n)
       \/ /\ Op(h) = "relieve" /\ Crossing(t, {t.row[n].by})
          /\ user' = RelieveUsers(t, n)
          /\ row' = [row EXCEPT ![n] = Update(t, n, Free(@))]
  /\ UNCHANGED edited

-----------------------------------------------------------------------------
(* Registration, and the clearing of all users who are not admins.          *)

Least(S) == CHOOSE n \in S : \A m \in S : n <= m

\* genShortID does not look at the pool.  It asks for one number after another,
\* and takes what the clock says when all that it tries are held.
GenShortID(h) ==
  /\ At(h, "draw")
  /\ LET rest == Tried \ hand[h].mem  n == Least(rest) IN
       \/ rest = {} /\ \E m \in Numbers : Left(h, m)
       \/ rest # {} /\ (\A u \in Users : ~Held(user, u, n)) /\ Left(h, n)
       \/ /\ rest # {} /\ \E u \in Users : Held(user, u, n)
          /\ hand' = [hand EXCEPT ![h].mem = @ \cup {n}]
  /\ UNCHANGED <<user, row, edited, crossed>>

Create(h) ==
  /\ At(h, "create") /\ Done(h)
  /\ user' = IF user[Req(h).who].known \/ Refused(Req(h).who, hand[h].mem) THEN user
             ELSE [user EXCEPT ![Req(h).who] = [known |-> TRUE, there |-> TRUE,
                                                short |-> hand[h].mem]]
  /\ UNCHANGED <<row, edited, crossed>>

ClearUsers(h) ==
  /\ \/ /\ At(h, "pluck") /\ Left(h, {u \in Users : user[u].there})
        /\ UNCHANGED <<user, row>>
     \/ /\ At(h, "remove") /\ Left(h, hand[h].mem) /\ UNCHANGED row
        /\ user' = [u \in Users |-> IF u \in hand[h].mem
                                    THEN [user[u] EXCEPT !.there = FALSE, !.short = None]
                                    ELSE user[u]]
     \/ /\ At(h, "release") /\ Done(h) /\ UNCHANGED user
        /\ row' = [n \in Numbers |-> IF row[n].status = "used" /\ row[n].by \in hand[h].mem
                                     THEN Free(row[n]) ELSE row[n]]
  /\ UNCHANGED <<edited, crossed>>

-----------------------------------------------------------------------------
Meant(h) ==
  LET r == Req(h) IN
  CASE r.op = "update" -> r.num = None \/ ~Clash(r.who, r.num)
    [] r.op = "assign" -> /\ Mine(h) /\ row[r.num].status \in {"open", "used"} /\ user[r.who].there
                          /\ \A v \in Users \ {r.who} : Held(user, v, r.num) => row[r.num].by = v
    [] r.op = "relieve" -> Mine(h) /\ row[r.num].status = "used"
    [] r.op \in {"freeze", "thaw", "delete"} -> Mine(h) /\ row[r.num].status # "used"
    [] OTHER -> TRUE

Note ==
  meant' = [h \in Handlers |->
    IF hand'[h] = Idle THEN FALSE ELSE Meant(h)' \/ (hand[h] # Idle /\ meant[h])]

Ask(h, r) ==
  /\ hand[h] = Idle /\ asked < setting.maxAsked /\ asked' = asked + 1
  /\ r.op = "register" => ~user[r.who].known
  /\ r.op \in {"update", "assign"} => user[r.who].there
  /\ hand' = [hand EXCEPT ![h] =
       [todo |-> Statements(r.op), req |-> r, mem |-> {},
        gone |-> IF r.num = None THEN 0 ELSE row[r.num].gone]]
  /\ UNCHANGED <<user, row, edited, crossed>>

Serve(h) ==
  /\ \/ CountDup(h) \/ WriteNumber(h) \/ Look(h) \/ SetRow(h) \/ Reserve(h)
     \/ Exists(h) \/ Begin(h) \/ Commit(h) \/ GenShortID(h) \/ Create(h) \/ ClearUsers(h)
  /\ UNCHANGED asked

\* The api process dies with the requests it is serving; it counts as one.
Crash ==
  /\ \E h \in Handlers : hand[h] # Idle
  /\ asked < setting.maxAsked /\ asked' = asked + 1
  /\ hand' = [h \in Handlers |-> Idle]
  /\ UNCHANGED <<user, row, edited, crossed>>

Init ==
  /\ setting \in Scenarios
  /\ user = [u \in Users |-> [known |-> u \in setting.users, there |-> u \in setting.users,
                           short |-> None]]
  /\ row = [n \in Numbers |-> IF n \in setting.pool THEN Free(NoRow) ELSE NoRow]
  /\ hand = [h \in Handlers |-> Idle]
  /\ meant = [h \in Handlers |-> FALSE]
  /\ crossed = {} /\ edited = {} /\ asked = 0

Next ==
  /\ (\E h \in Handlers : Serve(h) \/ \E r \in setting.ask : Ask(h, r)) \/ Crash
  /\ Note /\ UNCHANGED setting

Spec == Init /\ [][Next]_vars
=============================================================================
