------------------------- MODULE IdentifiersProofs -------------------------
(***************************************************************************)
(* Short numbers and ids are unique and what the pool's book says is so,   *)
(* for any users, numbers, requests and processes.                         *)
(***************************************************************************)
EXTENDS Identifiers, Sums

(***************************************************************************)
(* Ids.                                                                    *)
(***************************************************************************)
Stamps == 0..(Steps - 1)

\* The fields of a generator are of their types.
FieldsType ==
  /\ clock \in Nat \ {0} /\ back \in Nat
  /\ last \in [Processes -> Nat] /\ step \in [Processes -> Stamps]

\* What was given out under the number of a process lies before its clock, or
\* before the step that the process has reached in this millisecond.
Past(p) ==
  /\ last[p] <= clock
  /\ \A t, s \in Nat : <<t, Node(p), s>> \in issued =>
       t < clock \/ (t = clock /\ last[p] = clock /\ s <= step[p])

Ordered == ~repeated /\ \A p \in Processes : Past(p)

\* The inductive invariant behind IdsUnique.
IdsInv == FieldsType /\ (OwnNumbers /\ back = 0 => Ordered)

-----------------------------------------------------------------------------
\* The mask of Next: the step grows by one until it is used up.
LEMMA MaskedStep ==
  ASSUME NEW n \in Nat \ {0}, NEW s \in 0..(n - 1)
  PROVE  /\ (s + 1) % n \in 0..(n - 1)
         /\ (s + 1) % n = 0 \/ (s + 1) % n = s + 1
<1>1. CASE s + 1 = n
  <2>1. n % n = 0
    BY SMT
  <2> QED BY <1>1, <2>1
<1>2. CASE s + 1 < n
  <2>1. (s + 1) % n = s + 1
    BY <1>2, SMT
  <2> QED BY <1>2, <2>1
<1> QED BY <1>1, <1>2

\* An id that is later than all of its number keeps the ids in order.
LEMMA IssueInOrder ==
  ASSUME FieldsType, OwnNumbers, Ordered,
         NEW p \in Processes, NEW s \in Stamps, Issue(p, clock, s),
         last[p] = clock => step[p] < s
  PROVE  Ordered'
<1> USE DEF FieldsType, Stamps
<1>1. last'[p] = clock /\ step'[p] = s /\ clock' = clock
  BY DEF Issue
<1>2. issued' = issued \cup {<<clock, Node(p), s>>}
  BY DEF Issue
<1>3. <<clock, Node(p), s>> \notin issued
  BY SnowflakeAssumption DEF Ordered, Past
<1>4. ~repeated'
  BY <1>3 DEF Issue, Ordered
<1>5. ASSUME NEW q \in Processes PROVE Past(q)'
  <2>1. CASE q = p
    <3>1. ASSUME NEW t \in Nat, NEW r \in Nat, <<t, Node(p), r>> \in issued'
          PROVE  t < clock \/ (t = clock /\ r <= s)
      <4>1. CASE <<t, Node(p), r>> \in issued
        BY <4>1, SnowflakeAssumption DEF Ordered, Past
      <4>2. CASE <<t, Node(p), r>> = <<clock, Node(p), s>>
        BY <4>2, SnowflakeAssumption
      <4> QED BY <1>2, <3>1, <4>1, <4>2
    <3> QED BY <1>1, <2>1, <3>1 DEF Past, Node
  <2>2. CASE q # p
    <3>1. Node(q) # Node(p)
      BY <2>2 DEF OwnNumbers
    <3>2. last'[q] = last[q] /\ step'[q] = step[q]
      BY <2>2 DEF Issue
    <3>3. \A t, r \in Nat : <<t, Node(q), r>> \in issued' => <<t, Node(q), r>> \in issued
      BY <1>2, <3>1
    <3> QED BY <1>1, <3>2, <3>3 DEF Ordered, Past, Node
  <2> QED BY <2>1, <2>2
<1> QED BY <1>4, <1>5 DEF Ordered

\* Types: Next and the restart of a process, and the clock.
LEMMA FieldsStep ==
  ASSUME FieldsType, [SnowflakeNext]_sfvars
  PROVE  FieldsType'
<1> USE SnowflakeAssumption DEF FieldsType, Stamps
<1>1. ASSUME NEW p \in Processes, NextID(p) PROVE FieldsType'
  <2>1. CASE UsedUp(p)
    BY <1>1, <2>1 DEF NextID
  <2>2. CASE ~UsedUp(p)
    <3>1. NextStep(p) \in 0..(Steps - 1)
      BY MaskedStep DEF NextStep
    <3> QED BY <1>1, <2>2, <3>1 DEF NextID, Issue
  <2> QED BY <2>1, <2>2
<1>2. ASSUME NEW p \in Processes, Resume(p) PROVE FieldsType'
  BY <1>2 DEF Resume, Issue
<1>3. ASSUME NEW p \in Processes, Restart(p) PROVE FieldsType'
  BY <1>3 DEF Restart
<1>4. CASE ClockTicks
  BY <1>4 DEF ClockTicks
<1>5. CASE ClockGoesBack
  BY <1>5 DEF ClockGoesBack
<1>6. CASE UNCHANGED sfvars
  BY <1>6 DEF sfvars
<1> QED BY <1>1, <1>2, <1>3, <1>4, <1>5, <1>6 DEF SnowflakeNext

\* Order: a step is taken above all of its millisecond, a wait ends after it,
\* and a restart takes longer than it.
LEMMA OrderStep ==
  ASSUME FieldsType, OwnNumbers, back = 0, Ordered, [SnowflakeNext]_sfvars, back' = 0
  PROVE  Ordered'
<1> USE SnowflakeAssumption
<1>1. ASSUME NEW p \in Processes, NextID(p) PROVE Ordered'
  <2>1. CASE UsedUp(p)
    BY <1>1, <2>1 DEF NextID, Ordered, Past, Node
  <2>2. CASE ~UsedUp(p)
    <3>1. step[p] \in 0..(Steps - 1) /\ last[p] \in Nat
      BY DEF FieldsType, Stamps
    <3>2. NextStep(p) \in Stamps /\ (last[p] = clock => step[p] < NextStep(p))
      BY <2>2, <3>1, MaskedStep DEF NextStep, UsedUp, Stamps
    <3>3. Issue(p, clock, NextStep(p))
      BY <1>1, <2>2 DEF NextID
    <3> QED BY <3>2, <3>3, IssueInOrder
  <2> QED BY <2>1, <2>2
<1>2. ASSUME NEW p \in Processes, Resume(p) PROVE Ordered'
  <2>1. Issue(p, clock, 0) /\ clock # last[p] /\ 0 \in Stamps
    BY <1>2 DEF Resume, FieldsType, Stamps
  <2> QED BY <2>1, IssueInOrder
<1>3. ASSUME NEW p \in Processes, Restart(p) PROVE Ordered'
  <2>1. ASSUME NEW q \in Processes PROVE Past(q)'
    <3>1. CASE q = p
      BY <1>3, <3>1 DEF Restart, Ordered, Past, Node, FieldsType
    <3>2. CASE q # p
      BY <1>3, <3>2 DEF Restart, Ordered, Past, Node, FieldsType
    <3> QED BY <3>1, <3>2
  <2> QED BY <1>3, <2>1 DEF Restart, Ordered
<1>4. CASE ClockTicks
  <2>1. ASSUME NEW q \in Processes PROVE Past(q)'
    BY <1>4 DEF ClockTicks, Ordered, Past, Node, FieldsType
  <2> QED BY <1>4, <2>1 DEF ClockTicks, Ordered
<1>5. CASE ClockGoesBack
  BY <1>5 DEF ClockGoesBack
<1>6. CASE UNCHANGED sfvars
  BY <1>6 DEF sfvars, Ordered, Past, Node
<1> QED BY <1>1, <1>2, <1>3, <1>4, <1>5, <1>6 DEF SnowflakeNext

\* The clock never makes good for having gone back.
LEMMA BackStays ==
  ASSUME FieldsType, [SnowflakeNext]_sfvars, back' = 0
  PROVE  back = 0
<1>1. ASSUME NEW p \in Processes, NextID(p) \/ Resume(p) \/ Restart(p) PROVE back' = back
  <2>1. CASE NextID(p)
    BY <2>1 DEF NextID, Issue
  <2>2. CASE Resume(p)
    BY <2>2 DEF Resume, Issue
  <2>3. CASE Restart(p)
    BY <2>3 DEF Restart
  <2> QED BY <1>1, <2>1, <2>2, <2>3
<1>2. CASE ClockTicks \/ UNCHANGED sfvars
  BY <1>2 DEF ClockTicks, sfvars
<1>3. ~ClockGoesBack
  BY DEF ClockGoesBack, FieldsType
<1> QED BY <1>1, <1>2, <1>3 DEF SnowflakeNext

LEMMA OrderInit == SnowflakeInit => IdsInv
BY SnowflakeAssumption
   DEF SnowflakeInit, IdsInv, FieldsType, Stamps, Ordered, Past

LEMMA IdsStep == IdsInv /\ [SnowflakeNext]_sfvars => IdsInv'
<1> SUFFICES ASSUME IdsInv, [SnowflakeNext]_sfvars PROVE IdsInv'
  OBVIOUS
<1>1. FieldsType'
  BY FieldsStep DEF IdsInv
<1>2. ASSUME OwnNumbers, back' = 0 PROVE Ordered'
  BY <1>2, OrderStep, BackStays DEF IdsInv
<1> QED BY <1>1, <1>2 DEF IdsInv, OwnNumbers, Node

\* An id of the server is given out once: for any processes with numbers of
\* their own, with restarts, as long as the clock does not go back.
THEOREM IdsAreUnique == SnowflakeSpec => []IdsUnique
<1>1. IdsInv => IdsUnique
  BY DEF IdsInv, IdsUnique, Ordered
<1> QED BY <1>1, OrderInit, IdsStep, PTL DEF SnowflakeSpec


(***************************************************************************)
(* Short numbers.  What the proofs need of the table of users, as a        *)
(* property of its value.                                                  *)
(***************************************************************************)
IsRow(r) ==
  /\ r \in [known : BOOLEAN, there : BOOLEAN, short : {r.short}]
  /\ r.there => r.known
  /\ r.short # None => r.there

Table(us) == us = [v \in Users |-> us[v]] /\ \A v \in Users : IsRow(us[v])

Unique(us) ==
  \A v, w \in Users : us[v].short = us[w].short /\ us[v].short # None => v = w

UsersInv == Table(user) /\ Unique(user)

\* The number of a user goes only to a request about him, to one about his
\* number, or with his row.
Takes(h, v) ==
  \/ At(h, "write") /\ Req(h).who = v
  \/ At(h, "remove") /\ v \in hand[h].mem
  \/ At(h, "commit") /\ (Req(h).who = v \/ Held(hand[h].mem.user, v, Req(h).num))

Kept(h, new) ==
  \A v \in Users : user[v].short # None /\ new[v].short # user[v].short => Takes(h, v)

-----------------------------------------------------------------------------
With(r, n) == [r EXCEPT !.short = n]

\* A row that is there may get any number.
LEMMA Renumbered ==
  ASSUME NEW r, IsRow(r), NEW n
  PROVE  /\ With(r, n).short = n
         /\ r.there \/ n = None => IsRow(With(r, n))
<1>1. r \in [known : BOOLEAN, there : BOOLEAN, short : {r.short}]
  BY DEF IsRow
<1>2. PICK k \in BOOLEAN, t \in BOOLEAN, o \in {r.short} :
        r = [known |-> k, there |-> t, short |-> o]
  BY <1>1
<1>3. With(r, n) = [known |-> k, there |-> t, short |-> n]
  BY <1>2 DEF With
<1> QED BY <1>2, <1>3 DEF IsRow

Emptied(r) == [r EXCEPT !.there = FALSE, !.short = None]

\* A row that is taken has no number.
LEMMA EmptiedRow ==
  ASSUME NEW r, IsRow(r)
  PROVE  IsRow(Emptied(r)) /\ Emptied(r).short = None
<1>1. Emptied(r) \in [known : BOOLEAN, there : {FALSE}, short : {None}]
  BY DEF IsRow, Emptied
<1> QED BY <1>1 DEF IsRow

\* A change of numbers that gives one number to one user, who is there, and
\* leaves it to nobody else.
LEMMA Renumbering ==
  ASSUME UsersInv, NEW new, new = [v \in Users |-> new[v]], NEW u, NEW n,
         \A v \in Users : \/ new[v] = user[v]
                          \/ v = u /\ user[v].there /\ new[v] = With(user[v], n)
                          \/ new[v] = With(user[v], None),
         n # None => \A v \in Users \ {u} : new[v].short # n
  PROVE  Table(new) /\ Unique(new)
<1>1. ASSUME NEW v \in Users
      PROVE  /\ IsRow(new[v])
             /\ new[v].short \in {user[v].short, None} \/ (v = u /\ new[v].short = n)
  BY Renumbered DEF UsersInv, Table
<1>2. Table(new)
  BY <1>1 DEF Table
<1>3. ASSUME NEW v \in Users, NEW w \in Users, new[v].short = new[w].short, new[v].short # None
      PROVE  v = w
  <2>1. CASE v = u \/ w = u
    BY <1>1, <1>3, <2>1 DEF UsersInv, Unique
  <2>2. CASE v # u /\ w # u
    BY <1>1, <1>3, <2>2 DEF UsersInv, Unique
  <2> QED BY <2>1, <2>2
<1>4. Unique(new)
  BY <1>3 DEF Unique
<1> QED BY <1>2, <1>4

\* Nobody but u has a number that the unique index lets u have.
LEMMA NotRefused ==
  ASSUME UsersInv, NEW u, NEW n, ~Refused(u, n), n # None
  PROVE  \A v \in Users \ {u} : user[v].short # n
BY DEF Refused, Clash, Held, UsersInv, Table, IsRow

\* AdminUserUpdate writes a number that the unique index lets in.
LEMMA WriteSafe ==
  ASSUME UsersInv, NEW h, WriteNumber(h)
  PROVE  Table(user') /\ Unique(user') /\ Kept(h, user')
<1> DEFINE u == Req(h).who  n == Req(h).num
<1>1. At(h, "write") /\ (user' = user \/ (~Refused(u, n) /\ user[u].there
                                          /\ user' = [user EXCEPT ![u].short = n]))
  BY DEF WriteNumber
<1>2. \A v \in Users : user'[v] # user[v] => v = u
  BY <1>1 DEF UsersInv, Table
<1>3. Kept(h, user')
  BY <1>1, <1>2 DEF Kept, Takes
<1> HIDE DEF u, n
<1>4. user' = [v \in Users |-> user'[v]]
  BY <1>1 DEF UsersInv, Table
<1>5. \A v \in Users : \/ user'[v] = user[v]
                       \/ v = u /\ user[v].there /\ user'[v] = With(user[v], n)
  BY <1>1 DEF UsersInv, Table, With
<1>6. CASE user' = user
  BY <1>3, <1>6 DEF UsersInv
<1>7. CASE user' # user
  <2>1. n # None => \A v \in Users \ {u} : user'[v].short # n
    BY <1>1, <1>2, <1>7, NotRefused
  <2>2. Table(user') /\ Unique(user')
    BY <1>4, <1>5, <2>1, Renumbering
  <2> QED BY <1>3, <2>2
<1> QED BY <1>6, <1>7

\* AdminReservedShortIDAssign: who has the number gives it up, or the unique
\* index refuses it.
LEMMA AssignSafe ==
  ASSUME UsersInv, NEW h, NEW t, NEW u, NEW n, At(h, "commit"),
         t = hand[h].mem, u = Req(h).who, n = Req(h).num,
         \A v \in Users \ {u} : Refused(u, n) /\ Held(user, v, n) => Loses(t, n, v),
         user' = AssignUsers(t, u, n)
  PROVE  Table(user') /\ Unique(user') /\ Kept(h, user')
<1>1. user' = [v \in Users |-> user'[v]]
  BY DEF AssignUsers
<1>2. ASSUME NEW v \in Users
      PROVE  \/ user'[v] = user[v] /\ (v # u => ~Loses(t, n, v) \/ ~user[v].there)
             \/ v = u /\ user[v].there /\ user'[v] = With(user[v], n)
             \/ v # u /\ Loses(t, n, v) /\ user'[v] = With(user[v], None)
  BY DEF AssignUsers, With
<1>3. ASSUME n # None, NEW v \in Users \ {u} PROVE user'[v].short # n
  <2>1. IsRow(user[v])
    BY DEF UsersInv, Table
  <2>2. CASE user'[v] = With(user[v], None)
    BY <1>3, <2>1, <2>2, Renumbered
  <2>3. CASE user'[v] = user[v] /\ (~Loses(t, n, v) \/ ~user[v].there)
    <3>1. SUFFICES ASSUME user[v].short = n PROVE FALSE
      BY <2>3
    <3>2. user[v].there /\ Held(user, v, n)
      BY <1>3, <2>1, <3>1 DEF IsRow, Held
    <3>3. Refused(u, n)
      BY <1>3, <3>2 DEF Refused, Clash
    <3> QED BY <2>3, <3>2, <3>3
  <2> QED BY <1>2, <2>2, <2>3
<1>4. Table(user') /\ Unique(user')
  BY <1>1, <1>2, <1>3, Renumbering
<1>5. Kept(h, user')
  BY <1>2 DEF Kept, Takes, Loses
<1> QED BY <1>4, <1>5

\* AdminReservedShortIDRelieve only takes numbers.
LEMMA RelieveSafe ==
  ASSUME UsersInv, NEW h, At(h, "commit"),
         user' = RelieveUsers(hand[h].mem, Req(h).num)
  PROVE  Table(user') /\ Unique(user') /\ Kept(h, user')
<1> DEFINE t == hand[h].mem  n == Req(h).num
<1>1. user' = [v \in Users |-> user'[v]]
  BY DEF RelieveUsers
<1>2. \A v \in Users : \/ user'[v] = user[v]
                       \/ Relieved(t, n, v) /\ user'[v] = With(user[v], None)
  BY DEF RelieveUsers, With
<1>3. Kept(h, user')
  BY <1>2 DEF Kept, Takes, Relieved
<1> HIDE DEF t, n
<1>4. Table(user') /\ Unique(user')
  BY <1>1, <1>2, Renumbering
<1> QED BY <1>3, <1>4

LEMMA CommitSafe ==
  ASSUME UsersInv, NEW h, Commit(h)
  PROVE  Table(user') /\ Unique(user') /\ Kept(h, user')
<1> DEFINE t == hand[h].mem  u == Req(h).who  n == Req(h).num
<1>1. At(h, "commit")
  BY DEF Commit
<1>2. \/ user' = user
      \/ /\ \A v \in Users \ {u} : Refused(u, n) /\ Held(user, v, n) => Loses(t, n, v)
         /\ user' = AssignUsers(t, u, n)
      \/ user' = RelieveUsers(t, n)
  BY DEF Commit
<1>3. CASE user' = user
  BY <1>3 DEF UsersInv, Kept
<1> QED BY <1>1, <1>2, <1>3, AssignSafe, RelieveSafe

\* Register: a new row, with a number that the unique index lets in.
LEMMA CreateSafe ==
  ASSUME UsersInv, NEW h, Create(h)
  PROVE  Table(user') /\ Unique(user') /\ Kept(h, user')
<1> DEFINE u == Req(h).who  n == hand[h].mem  row0 == [known |-> TRUE, there |-> TRUE, short |-> n]
<1>1. user' = user \/ (~user[u].known /\ ~Refused(u, n) /\ user' = [user EXCEPT ![u] = row0])
  BY DEF Create
<1> HIDE DEF u, n
<1>2. CASE user' = user
  BY <1>2 DEF UsersInv, Kept
<1>3. CASE user' # user
  <2>1. u \in Users
    BY <1>1, <1>3 DEF UsersInv, Table
  <2>2. user[u].short = None
    BY <1>1, <1>3, <2>1 DEF UsersInv, Table, IsRow
  <2>3. user' = [v \in Users |-> IF v = u THEN row0 ELSE user[v]]
    BY <1>1, <1>3, <2>1 DEF UsersInv, Table
  <2>4. Table(user')
    BY <2>3 DEF UsersInv, Table, IsRow
  <2>5. Unique(user')
    BY <1>1, <1>3, <2>3, NotRefused DEF UsersInv, Unique
  <2>6. Kept(h, user')
    BY <2>2, <2>3 DEF Kept
  <2> QED BY <2>4, <2>5, <2>6
<1> QED BY <1>2, <1>3

\* AdminDataClear takes rows together with their numbers.
LEMMA ClearSafe ==
  ASSUME UsersInv, NEW h, ClearUsers(h)
  PROVE  Table(user') /\ Unique(user') /\ Kept(h, user')
<1>1. CASE user' = user
  BY <1>1 DEF UsersInv, Kept
<1>2. CASE user' # user
  <2>1. /\ At(h, "remove")
        /\ user' = [v \in Users |-> IF v \in hand[h].mem THEN Emptied(user[v]) ELSE user[v]]
    BY <1>2 DEF ClearUsers, Emptied
  <2>2. \A v \in Users : IsRow(Emptied(user[v])) /\ Emptied(user[v]).short = None
    BY EmptiedRow DEF UsersInv, Table
  <2>3. Table(user')
    BY <2>1, <2>2 DEF UsersInv, Table
  <2>4. Unique(user')
    BY <2>1, <2>2 DEF UsersInv, Unique
  <2>5. Kept(h, user')
    BY <2>1 DEF Kept, Takes
  <2> QED BY <2>3, <2>4, <2>5
<1> QED BY <1>1, <1>2
-----------------------------------------------------------------------------
\* One statement of one request.
LEMMA ServeSafe ==
  ASSUME UsersInv, NEW h \in Handlers, Serve(h)
  PROVE  Table(user') /\ Unique(user') /\ Kept(h, user')
<1>1. CASE user' = user
  BY <1>1 DEF UsersInv, Kept
<1>2. CASE user' # user
  <2>1. WriteNumber(h) \/ Commit(h) \/ Create(h) \/ ClearUsers(h)
    BY <1>2 DEF Serve, CountDup, Look, SetRow, Reserve, Exists, Begin, GenShortID
  <2> QED BY <2>1, WriteSafe, CommitSafe, CreateSafe, ClearSafe
<1> QED BY <1>1, <1>2

LEMMA NumbersStep ==
  ASSUME UsersInv, Next
  PROVE  /\ UsersInv'
         /\ \A v \in Users : user[v].short # None /\ user'[v].short # user[v].short =>
              \E h \in Handlers : Takes(h, v)
<1>1. CASE user' = user
  BY <1>1 DEF UsersInv, Table, Unique
<1>2. CASE user' # user
  <2>1. PICK h \in Handlers : Serve(h)
    BY <1>2 DEF Next, Ask, Crash
  <2>2. Table(user') /\ Unique(user') /\ Kept(h, user')
    BY <2>1, ServeSafe
  <2> QED BY <2>2 DEF UsersInv, Table, Unique, Kept
<1> QED BY <1>1, <1>2

LEMMA NumbersInit == Init => UsersInv
<1> SUFFICES ASSUME Init PROVE UsersInv
  OBVIOUS
<1> DEFINE row0(v) == [known |-> v \in setting.users, there |-> v \in setting.users, short |-> None]
<1>1. user = [v \in Users |-> row0(v)]
  BY DEF Init
<1>2. \A v \in Users : IsRow(row0(v)) /\ row0(v).short = None
  BY DEF IsRow
<1> HIDE DEF row0
<1> QED BY <1>1, <1>2 DEF UsersInv, Table, Unique

(***************************************************************************)
(* The pool's book.  A request is at one of the statements of its          *)
(* operation, and what the next one needs has been read.                   *)
(***************************************************************************)
Stage(op, t) ==
  \/ op = "update" /\ (t = <<"count", "write">> \/ t = <<"write">>)
  \/ /\ op = "assign"
     /\ \/ t = <<"look", "exists", "begin", "commit">> \/ t = <<"exists", "begin", "commit">>
        \/ t = <<"begin", "commit">> \/ t = <<"commit">>
  \/ /\ op = "relieve"
     /\ t = <<"look", "begin", "commit">> \/ t = <<"begin", "commit">> \/ t = <<"commit">>
  \/ op \in {"freeze", "thaw", "delete"} /\ (t = <<"look", "set">> \/ t = <<"set">>)
  \/ op = "batch" /\ t = <<"reserve">>
  \/ op = "register" /\ (t = <<"draw", "create">> \/ t = <<"create">>)
  \/ /\ op = "clear"
     /\ t = <<"pluck", "remove", "release">> \/ t = <<"remove", "release">> \/ t = <<"release">>

\* A request under way is one that is asked for, at one of its statements.
Staged(x, ask) ==
  \/ x = Idle
  \/ /\ x = [todo |-> x.todo, req |-> x.req, mem |-> x.mem, gone |-> x.gone]
     /\ x.req \in ask /\ Stage(x.req.op, x.todo)

HandsInv ==
  /\ setting \in Scenarios /\ hand = [h \in Handlers |-> hand[h]]
  /\ \A h \in Handlers : Staged(hand[h], setting.ask)

\* What a request has to have been allowed once, it was.
MustMean(x) ==
  \/ x.todo \in {<<"set">>, <<"commit">>, <<"write">>}
  \/ x.todo = <<"begin", "commit">> /\ x.req.op = "relieve"

MeantInv == \A h \in Handlers : MustMean(hand[h]) => meant[h]

\* A number is drawn from those of the table.
RowType == [status : {"none", "open", "frozen", "used"}, by : Users \cup {NoOne}, gone : Nat]

NumbersType ==
  /\ \A v \in Users : user[v].short \in Numbers \cup {None}
  /\ row \in [Numbers -> RowType]
  /\ edited \subseteq Users /\ crossed \subseteq Users
  /\ \A h \in Handlers : At(h, "create") => hand[h].mem \in Numbers

\* A booked user has registered, as has one about whom a transaction is under
\* way, and what is booked to him is his unless he is one of the excused.
Booked(us, rs, ex) ==
  \A n \in Numbers, v \in Users : rs[n].status = "used" /\ rs[n].by = v =>
     us[v].known /\ (v \notin ex /\ us[v].there => us[v].short = n)

BooksInv ==
  /\ \A h \in Handlers : At(h, "commit") /\ Op(h) = "assign" => user[Req(h).who].known
  /\ Booked(user, row, edited \cup crossed)

\* The inductive invariant behind NumbersInv and NeverWhollyBarred.
PoolInv == UsersInv /\ HandsInv /\ MeantInv /\ NumbersType /\ BooksInv

-----------------------------------------------------------------------------
\* After a statement a request is at the next one, or over.
LEMMA Staging ==
  ASSUME NEW x, NEW ask, Staged(x, ask), x # Idle, NEW m
  PROVE  /\ Staged(Onward(x, m), ask)
         /\ Onward(x, m) # Idle => /\ Onward(x, m).todo = Tail(x.todo)
                                   /\ Onward(x, m).req = x.req /\ Onward(x, m).mem = m
                                   /\ Onward(x, m).gone = x.gone
<1>1. PICK t, r, o, c : x = [todo |-> t, req |-> r, mem |-> o, gone |-> c]
  BY DEF Staged
<1>2. Stage(r.op, t) /\ r \in ask
  BY <1>1 DEF Staged
<1>3. CASE Len(t) = 1
  BY <1>1, <1>3 DEF Onward, Staged
<1>4. CASE Len(t) # 1
  <2>1. Onward(x, m) = [todo |-> Tail(t), req |-> r, mem |-> m, gone |-> c]
    BY <1>1, <1>4 DEF Onward
  <2>2. Stage(r.op, Tail(t))
    <3>1. /\ Len(<<"write">>) = 1 /\ Len(<<"commit">>) = 1 /\ Len(<<"set">>) = 1
          /\ Len(<<"reserve">>) = 1 /\ Len(<<"create">>) = 1 /\ Len(<<"release">>) = 1
      OBVIOUS
    <3>2. /\ Tail(<<"count", "write">>) = <<"write">> /\ Tail(<<"look", "set">>) = <<"set">>
          /\ Tail(<<"look", "begin", "commit">>) = <<"begin", "commit">>
          /\ Tail(<<"look", "exists", "begin", "commit">>) = <<"exists", "begin", "commit">>
          /\ Tail(<<"exists", "begin", "commit">>) = <<"begin", "commit">>
          /\ Tail(<<"begin", "commit">>) = <<"commit">>
          /\ Tail(<<"draw", "create">>) = <<"create">>
          /\ Tail(<<"pluck", "remove", "release">>) = <<"remove", "release">>
          /\ Tail(<<"remove", "release">>) = <<"release">>
      OBVIOUS
    <3>3. t \notin {<<"write">>, <<"commit">>, <<"set">>, <<"reserve">>, <<"create">>, <<"release">>}
      BY <1>4, <3>1
    <3>4. CASE r.op = "update"
      BY <1>2, <3>2, <3>3, <3>4 DEF Stage
    <3>5. CASE r.op \in {"assign", "relieve"}
      BY <1>2, <3>2, <3>3, <3>5 DEF Stage
    <3>6. CASE r.op \in {"freeze", "thaw", "delete", "batch"}
      BY <1>2, <3>2, <3>3, <3>6 DEF Stage
    <3>7. CASE r.op \in {"register", "clear"}
      BY <1>2, <3>2, <3>3, <3>7 DEF Stage
    <3> QED BY <1>2, <3>4, <3>5, <3>6, <3>7 DEF Stage
  <2>3. /\ Onward(x, m).todo = Tail(t) /\ Onward(x, m).req = r /\ Onward(x, m).mem = m
        /\ Onward(x, m).gone = c
    BY <2>1
  <2> QED BY <1>1, <1>2, <2>1, <2>2, <2>3 DEF Staged
<1> QED BY <1>3, <1>4

\* A request that is not idle has something to do.
LEMMA Busy ==
  ASSUME NEW x, NEW ask, Staged(x, ask)
  PROVE  /\ x # Idle <=> x.todo # <<>>
         /\ MustMean(x) => x # Idle
<1>1. Idle.todo = <<>>
  BY DEF Idle
<1>2. ASSUME NEW op, NEW t, Stage(op, t) PROVE t # <<>>
  BY <1>2 DEF Stage
<1>3. x # Idle => x.todo # <<>>
  BY <1>2 DEF Staged
<1>4. MustMean(x) => x.todo # <<>>
  BY DEF MustMean
<1> QED BY <1>1, <1>3, <1>4

\* One more number that is held: the drawing of a number goes on.
Retry(x, m) == [x EXCEPT !.mem = m]

LEMMA Retrying ==
  ASSUME NEW x, NEW ask, Staged(x, ask), x # Idle, NEW m
  PROVE  /\ Staged(Retry(x, m), ask) /\ Retry(x, m) # Idle
         /\ Retry(x, m).todo = x.todo /\ Retry(x, m).req = x.req
<1>1. PICK t, r, o, c : x = [todo |-> t, req |-> r, mem |-> o, gone |-> c]
  BY DEF Staged
<1>2. Retry(x, m) = [todo |-> t, req |-> r, mem |-> m, gone |-> c]
  BY <1>1 DEF Retry
<1>3. Stage(r.op, t) /\ r \in ask
  BY <1>1 DEF Staged
<1>4. t # <<>>
  BY <1>3 DEF Stage
<1> QED BY <1>1, <1>2, <1>3, <1>4 DEF Staged, Idle

\* A statement of a request changes its hand only.
LEMMA Serving ==
  ASSUME HandsInv, NEW h \in Handlers, Serve(h)
  PROVE  /\ hand[h] # Idle /\ hand' = [g \in Handlers |-> hand'[g]]
         /\ \A g \in Handlers \ {h} : hand'[g] = hand[g]
         /\ \/ hand'[h] = Idle
            \/ \E m : hand'[h] = Onward(hand[h], m)
            \/ At(h, "draw") /\ \E m : hand'[h] = Retry(hand[h], m)
<1>1. \A s : At(h, s) => hand[h] # Idle
  BY DEF At, Idle
<1>2. hand[h] # Idle
  BY <1>1 DEF Serve, CountDup, WriteNumber, Look, SetRow, Reserve, Exists, Begin, Commit,
              GenShortID, Create, ClearUsers
<1>3. \/ Done(h) \/ \E m : Left(h, m)
      \/ At(h, "draw") /\ \E m : hand' = [hand EXCEPT ![h].mem = m]
  <2>1. CASE GenShortID(h)
    BY <2>1 DEF GenShortID
  <2> QED BY <2>1 DEF Serve, CountDup, WriteNumber, Look, SetRow, Reserve, Exists, Begin, Commit,
                      Create, ClearUsers, Only
<1>4. CASE Done(h)
  BY <1>2, <1>4 DEF Done, HandsInv
<1>5. ASSUME NEW m, Left(h, m) PROVE
         /\ hand' = [g \in Handlers |-> hand'[g]]
         /\ \A g \in Handlers \ {h} : hand'[g] = hand[g]
         /\ hand'[h] = Onward(hand[h], m)
  BY <1>5 DEF Left, HandsInv, Onward
<1>6. ASSUME NEW m, hand' = [hand EXCEPT ![h].mem = m] PROVE
         /\ hand' = [g \in Handlers |-> hand'[g]]
         /\ \A g \in Handlers \ {h} : hand'[g] = hand[g]
         /\ hand'[h] = Retry(hand[h], m)
  BY <1>6 DEF HandsInv, Retry
<1> QED BY <1>2, <1>3, <1>4, <1>5, <1>6

\* A request begins with its first statement.
LEMMA Beginning ==
  ASSUME HandsInv, NEW h \in Handlers, NEW r \in setting.ask, Ask(h, r)
  PROVE  /\ hand' = [g \in Handlers |-> hand'[g]]
         /\ \A g \in Handlers \ {h} : hand'[g] = hand[g]
         /\ Staged(hand'[h], setting.ask) /\ hand'[h] # Idle
         /\ hand'[h].todo = Statements(r.op) /\ hand'[h].req = r
         /\ Head(hand'[h].todo) \in {"count", "look", "reserve", "draw", "pluck"}
         /\ r.op \in {"update", "assign", "register"} => r.who \in Users
<1>1. r \in Request /\ (r.op \in {"update", "assign", "register"} => r.who \in Users)
  BY ShortIdsAssumption DEF HandsInv
<1>2. r.op \in {"update", "assign", "relieve", "freeze", "thaw", "delete", "batch",
                "register", "clear"}
  BY <1>1 DEF Request
<1>3. PICK c : hand' = [hand EXCEPT ![h] = [todo |-> Statements(r.op), req |-> r, mem |-> {}, gone |-> c]]
  BY DEF Ask
<1>4. hand'[h] = [todo |-> Statements(r.op), req |-> r, mem |-> {}, gone |-> c]
  BY <1>3 DEF HandsInv
<1>5. /\ Stage(r.op, Statements(r.op)) /\ Statements(r.op) # <<>>
      /\ Head(Statements(r.op)) \in {"count", "look", "reserve", "draw", "pluck"}
  <2>1. CASE r.op = "update"
    BY <2>1 DEF Stage, Statements
  <2>2. CASE r.op = "assign"
    BY <2>2 DEF Stage, Statements
  <2>3. CASE r.op = "relieve"
    BY <2>3 DEF Stage, Statements
  <2>4. CASE r.op \in {"freeze", "thaw", "delete"}
    BY <2>4 DEF Stage, Statements
  <2>5. CASE r.op = "batch"
    BY <2>5 DEF Stage, Statements
  <2>6. CASE r.op = "register"
    BY <2>6 DEF Stage, Statements
  <2>7. CASE r.op = "clear"
    BY <2>7 DEF Stage, Statements
  <2> QED BY <1>2, <2>1, <2>2, <2>3, <2>4, <2>5, <2>6, <2>7
<1>6. Staged(hand'[h], setting.ask) /\ hand'[h] # Idle
  BY <1>4, <1>5 DEF Staged, Idle
<1>7. hand' = [g \in Handlers |-> hand'[g]] /\ \A g \in Handlers \ {h} : hand'[g] = hand[g]
  BY <1>3 DEF HandsInv
<1> QED BY <1>1, <1>4, <1>5, <1>6, <1>7

LEMMA HandsStep ==
  ASSUME HandsInv, Next
  PROVE  HandsInv'
<1>1. setting' = setting
  BY DEF Next
<1>2. SUFFICES ASSUME TRUE
               PROVE  /\ hand' = [g \in Handlers |-> hand'[g]]
                      /\ \A g \in Handlers : Staged(hand'[g], setting.ask)
  BY <1>1 DEF HandsInv
<1>3. ASSUME NEW h \in Handlers, Serve(h)
      PROVE  /\ hand' = [g \in Handlers |-> hand'[g]]
             /\ \A g \in Handlers : Staged(hand'[g], setting.ask)
  <2>1. Staged(hand[h], setting.ask)
    BY DEF HandsInv
  <2>2. Staged(hand'[h], setting.ask)
    BY <1>3, <2>1, Serving, Staging, Retrying DEF Staged
  <2> QED BY <1>3, <2>2, Serving DEF HandsInv
<1>4. ASSUME NEW h \in Handlers, NEW r \in setting.ask, Ask(h, r)
      PROVE  /\ hand' = [g \in Handlers |-> hand'[g]]
             /\ \A g \in Handlers : Staged(hand'[g], setting.ask)
  BY <1>4, Beginning DEF HandsInv
<1>5. CASE Crash
  BY <1>5 DEF Crash, Staged
<1> QED BY <1>3, <1>4, <1>5 DEF Next

-----------------------------------------------------------------------------
\* Before a request writes, it counts, looks or begins; a relief has looked
\* before it begins.
LEMMA Before ==
  ASSUME NEW x, NEW ask, Staged(x, ask), x # Idle, NEW m, MustMean(Onward(x, m))
  PROVE  \/ Head(x.todo) = "count" /\ x.req.op = "update"
         \/ Head(x.todo) = "look" /\ x.req.op \in {"freeze", "thaw", "delete", "relieve"}
         \/ Head(x.todo) = "begin" /\ (x.req.op = "assign" \/ (x.req.op = "relieve" /\ MustMean(x)))
<1> DEFINE t == x.todo  op == x.req.op  y == Onward(x, m)
<1>1. Stage(op, t) /\ x.todo # <<>>
  BY Busy DEF Staged
<1>2. y # Idle
  BY Staging, Busy
<1>3. y.todo = Tail(t) /\ y.req.op = op
  BY <1>2, Staging
<1>4. \/ Tail(t) \in {<<"set">>, <<"commit">>, <<"write">>}
      \/ Tail(t) = <<"begin", "commit">> /\ op = "relieve"
  BY <1>3 DEF MustMean
<1>5. op = "relieve" /\ t = <<"begin", "commit">> => MustMean(x)
  BY DEF MustMean
<1> HIDE DEF t, op, y
<1> DEFINE writes == {<<"set">>, <<"commit">>, <<"write">>}
<1>0. /\ <<>> \notin writes /\ <<>> # <<"begin", "commit">>
      /\ <<"begin", "commit">> \notin writes
      /\ <<"create">> \notin writes /\ <<"create">> # <<"begin", "commit">>
      /\ <<"release">> \notin writes /\ <<"release">> # <<"begin", "commit">>
      /\ <<"remove", "release">> \notin writes /\ <<"remove", "release">> # <<"begin", "commit">>
  OBVIOUS
<1> HIDE DEF writes
<1>10. Tail(t) \in writes \/ (Tail(t) = <<"begin", "commit">> /\ op = "relieve")
  BY <1>4 DEF writes
<1>6. CASE op = "update"
  <2>1. Tail(<<"write">>) = <<>> /\ Head(<<"count", "write">>) = "count"
    OBVIOUS
  <2> QED BY <1>0, <1>1, <1>10, <1>6, <2>1 DEF Stage, t, op
<1>7. CASE op = "relieve"
  <2>1. /\ Tail(<<"commit">>) = <<>> /\ Head(<<"look", "begin", "commit">>) = "look"
        /\ Head(<<"begin", "commit">>) = "begin"
        /\ Tail(<<"look", "begin", "commit">>) = <<"begin", "commit">>
    OBVIOUS
  <2>2. \/ t = <<"look", "begin", "commit">> \/ t = <<"begin", "commit">> \/ t = <<"commit">>
    BY <1>1, <1>7 DEF Stage
  <2> QED BY <1>0, <1>10, <1>5, <1>7, <2>1, <2>2 DEF t, op
<1>11. CASE op = "assign"
  <2>1. /\ Tail(<<"commit">>) = <<>> /\ Head(<<"begin", "commit">>) = "begin"
        /\ Tail(<<"look", "exists", "begin", "commit">>) \notin writes
        /\ Tail(<<"exists", "begin", "commit">>) \notin writes
    BY DEF writes
  <2>2. \/ t = <<"look", "exists", "begin", "commit">> \/ t = <<"exists", "begin", "commit">>
        \/ t = <<"begin", "commit">> \/ t = <<"commit">>
    BY <1>1, <1>11 DEF Stage
  <2>3. Tail(t) \in writes
    BY <1>10, <1>11
  <2> QED BY <1>0, <1>11, <2>1, <2>2, <2>3 DEF t, op
<1>8. CASE op \in {"freeze", "thaw", "delete"}
  <2>1. Tail(<<"set">>) = <<>> /\ Head(<<"look", "set">>) = "look"
    OBVIOUS
  <2> QED BY <1>0, <1>1, <1>10, <1>8, <2>1 DEF Stage, t, op
<1>9. CASE op \in {"batch", "register", "clear"}
  <2>1. /\ Tail(<<"reserve">>) = <<>> /\ Tail(<<"create">>) = <<>> /\ Tail(<<"release">>) = <<>>
        /\ Tail(<<"draw", "create">>) = <<"create">>
        /\ Tail(<<"pluck", "remove", "release">>) = <<"remove", "release">>
        /\ Tail(<<"remove", "release">>) = <<"release">>
    OBVIOUS
  <2> QED BY <1>0, <1>1, <1>10, <1>9, <2>1 DEF Stage
<1> QED BY <1>1, <1>6, <1>7, <1>8, <1>9, <1>11 DEF Stage

\* A look or a count that goes on, and a transaction that begins, saw that
\* what is asked for is allowed.
LEMMA MeantNow ==
  ASSUME HandsInv, MeantInv, NEW h \in Handlers, Serve(h), MustMean(hand'[h])
  PROVE  Meant(h)' \/ meant[h]
<1> DEFINE x == hand[h]  y == hand'[h]
<1>1. Staged(x, setting.ask) /\ x # Idle /\ y # Idle
  <2>1. Staged(x, setting.ask) /\ x # Idle
    BY Serving DEF HandsInv
  <2>2. Staged(y, setting.ask)
    BY <2>1, Serving, Staging, Retrying DEF Staged
  <2> QED BY <2>1, <2>2, Busy
<1>2. PICK m : y = Onward(x, m)
  <2>1. ASSUME NEW m, At(h, "draw"), y = Retry(x, m) PROVE FALSE
    <3>1. y.todo = x.todo
      BY <1>1, <2>1, Retrying
    <3>2. Head(x.todo) # "draw"
      BY <3>1 DEF MustMean
    <3> QED BY <2>1, <3>2 DEF At
  <2> QED BY <1>1, <2>1, Serving
<1>3. y.req = x.req /\ x.todo # <<>> /\ y.gone = x.gone
  BY <1>1, <1>2, Staging, Busy
<1>4. ~Done(h)
  <2>1. hand = [g \in Handlers |-> hand[g]]
    BY DEF HandsInv
  <2>2. SUFFICES ASSUME Done(h) PROVE FALSE
    OBVIOUS
  <2>3. hand' = [hand EXCEPT ![h] = Idle]
    BY <2>2 DEF Done
  <2>4. hand'[h] = Idle
    BY <2>1, <2>3
  <2> QED BY <1>1, <2>4
<1> DEFINE n == Req(h).num  u == Req(h).who
<1>5. Req(h)' = Req(h) /\ (row' = row => Mine(h)' = Mine(h))
  BY <1>3 DEF Req, Mine, There
<1>6. CASE Head(x.todo) = "count" /\ x.req.op = "update"
  <2>1. CountDup(h)
    BY <1>6 DEF Serve, CountDup, WriteNumber, Look, SetRow, Reserve, Exists, Begin, Commit,
           GenShortID, Create, ClearUsers, At
  <2>2. user' = user /\ (n = None \/ ~Clash(u, n))
    BY <1>4, <2>1 DEF CountDup, Only
  <2> QED BY <1>5, <1>6, <2>2 DEF Meant, Req, Clash, Held
<1>7. CASE Head(x.todo) = "look" /\ x.req.op \in {"freeze", "thaw", "delete", "relieve"}
  <2>1. Look(h)
    BY <1>7 DEF Serve, CountDup, WriteNumber, Look, SetRow, Reserve, Exists, Begin, Commit,
           GenShortID, Create, ClearUsers, At
  <2>2. row' = row /\ Mine(h) /\ Allows(Op(h), u, row[n])
    BY <1>4, <2>1 DEF Look, Only
  <2>3. CASE x.req.op = "relieve"
    <3>1. row[n].status = "used"
      BY <2>2, <2>3 DEF Allows, Op, Req
    <3> QED BY <1>5, <2>2, <2>3, <3>1 DEF Meant, Req
  <2>4. CASE x.req.op \in {"freeze", "thaw", "delete"}
    <3>1. row[n].status \in {"open", "frozen"}
      BY <2>2, <2>4 DEF Allows, Op, Req
    <3> QED BY <1>5, <2>2, <2>4, <3>1 DEF Meant, Req
  <2> QED BY <1>7, <2>3, <2>4
<1>8. CASE Head(x.todo) = "begin" /\ x.req.op = "assign"
  <2>1. Begin(h)
    BY <1>8 DEF Serve, CountDup, WriteNumber, Look, SetRow, Reserve, Exists, Begin, Commit,
           GenShortID, Create, ClearUsers, At
  <2>2. user' = user /\ row' = row /\ Mine(h) /\ MayAssign([user |-> user, row |-> row], u, n)
    BY <1>4, <1>8, <2>1 DEF Begin, Only, Op, Req
  <2>3. /\ row[n].status \in {"open", "used"} /\ user[u].there
        /\ \A v \in Users \ {u} : Held(user, v, n) => row[n].by = v
    BY <2>2 DEF MayAssign, Loses
  <2> QED BY <1>5, <1>8, <2>2, <2>3 DEF Meant, Req, Held
<1>9. CASE MustMean(x)
  BY <1>9 DEF MeantInv
<1> QED BY <1>1, <1>2, <1>6, <1>7, <1>8, <1>9, Before

LEMMA MeantStep ==
  ASSUME HandsInv, MeantInv, Next
  PROVE  MeantInv'
<1>1. SUFFICES ASSUME NEW h \in Handlers, MustMean(hand'[h]) PROVE meant'[h]
  BY DEF MeantInv, MustMean
<1>2. HandsInv' /\ setting' = setting
  BY HandsStep DEF Next
<1>3. hand'[h] # Idle
  BY <1>1, <1>2, Busy DEF HandsInv
<1>4. meant'[h] <=> Meant(h)' \/ (hand[h] # Idle /\ meant[h])
  BY <1>3 DEF Next, Note
<1>5. CASE hand'[h] = hand[h]
  BY <1>1, <1>3, <1>4, <1>5 DEF MeantInv
<1>6. CASE hand'[h] # hand[h]
  <2>1. CASE Serve(h)
    BY <1>1, <1>4, <2>1, MeantNow, Serving
  <2>2. ASSUME NEW g \in Handlers, g # h, Serve(g) PROVE FALSE
    BY <1>6, <2>2, Serving
  <2>3. ASSUME NEW g \in Handlers, NEW r \in setting.ask, Ask(g, r) PROVE FALSE
    <3>1. g = h
      BY <1>6, <2>3, Beginning
    <3>2. hand'[h].todo # <<>> /\ Head(hand'[h].todo) \notin {"set", "commit", "write", "begin"}
      BY <1>2, <1>3, <2>3, <3>1, Beginning, Busy DEF HandsInv
    <3> QED BY <1>1, <3>2 DEF MustMean
  <2>4. ~Crash
    BY <1>3 DEF Crash
  <2> QED BY <2>1, <2>2, <2>3, <2>4 DEF Next
<1> QED BY <1>5, <1>6

-----------------------------------------------------------------------------
\* The request at a statement is of an operation that has the statement.
LEMMA Asked ==
  ASSUME HandsInv, NEW h \in Handlers, hand[h] # Idle
  PROVE  /\ Req(h) \in setting.ask /\ Stage(Op(h), hand[h].todo)
         /\ Req(h).num \in Numbers \cup {None} /\ Req(h).who \in Users \cup {NoOne}
         /\ Op(h) \in {"update", "assign", "register"} => Req(h).who \in Users
<1>1. Req(h) \in setting.ask /\ Stage(Op(h), hand[h].todo)
  BY DEF HandsInv, Staged, Req, Op
<1>2. Req(h) \in Request /\ (Req(h).op \in {"update", "assign", "register"} => Req(h).who \in Users)
  BY <1>1, ShortIdsAssumption DEF HandsInv
<1> QED BY <1>1, <1>2 DEF Request, Op

LEMMA StageAt ==
  ASSUME NEW op, NEW t, Stage(op, t)
  PROVE  /\ Head(t) = "write" => op = "update"
         /\ Head(t) = "set" => op \in {"freeze", "thaw", "delete"}
         /\ Head(t) = "commit" => op \in {"assign", "relieve"}
         /\ Head(t) \in {"set", "commit", "write"} => t \in {<<"set">>, <<"commit">>, <<"write">>}
         /\ Len(t) # 1 /\ Head(Tail(t)) = "create" => Head(t) = "draw"
         /\ Len(t) # 1 /\ Head(Tail(t)) = "commit" => Head(t) = "begin"
<1>1. CASE op = "update"
  BY <1>1 DEF Stage
<1>2. CASE op = "relieve"
  BY <1>2 DEF Stage
<1>6. CASE op = "assign"
  BY <1>6 DEF Stage
<1>3. CASE op \in {"freeze", "thaw", "delete"}
  BY <1>3 DEF Stage
<1>4. CASE op = "batch" \/ op = "register"
  BY <1>4 DEF Stage
<1>5. CASE op = "clear"
  BY <1>5 DEF Stage
<1> QED BY <1>1, <1>2, <1>3, <1>4, <1>5, <1>6 DEF Stage

\* What is written to a row.
LEMMA RowWrites ==
  ASSUME NEW r \in RowType
  PROVE  /\ Free(r) \in RowType /\ Free(r).status = "open"
         /\ Deleted(r) \in RowType /\ Deleted(r).status = "none"
         /\ \A s \in {"open", "frozen"} :
              /\ [r EXCEPT !.status = s] \in RowType /\ [r EXCEPT !.status = s].status = s
<1>1. r.gone \in Nat /\ r.gone + 1 \in Nat
  BY DEF RowType
<1>2. Free(r) \in [status : {"open"}, by : {NoOne}, gone : {r.gone}]
  BY DEF RowType, Free
<1>3. Deleted(r) \in [status : {"none"}, by : {NoOne}, gone : {r.gone + 1}]
  BY <1>1 DEF RowType, Deleted
<1>4. ASSUME NEW s \in {"open", "frozen"}
      PROVE  [r EXCEPT !.status = s] \in RowType /\ [r EXCEPT !.status = s].status = s
  BY DEF RowType
<1> QED BY <1>1, <1>2, <1>3, <1>4 DEF RowType

LEMMA RowUsed ==
  ASSUME NEW r \in RowType, NEW u \in Users
  PROVE  Used(r, u) \in RowType /\ Used(r, u).by = u
<1>1. Used(r, u) \in [status : {"used"}, by : {u}, gone : {r.gone}]
  BY DEF RowType, Used
<1> QED BY <1>1 DEF RowType

\* What a statement makes of the pool: a row gets booked only by the commit of
\* an assignment.
Books(h, m) ==
  At(h, "commit") /\ Op(h) = "assign" /\ m = Req(h).num /\ row'[m].by = Req(h).who

LEMMA PoolServe ==
  ASSUME HandsInv, NumbersType, NEW h \in Handlers, Serve(h)
  PROVE  /\ row' = [m \in Numbers |-> row'[m]]
         /\ \A m \in Numbers : /\ row'[m] \in RowType
                               /\ row'[m] = row[m] \/ row'[m].status # "used" \/ Books(h, m)
<1> DEFINE n == Req(h).num  u == Req(h).who
           Fine(m) == row'[m] \in RowType /\ (row'[m] = row[m] \/ row'[m].status # "used" \/ Books(h, m))
<1>1. row = [m \in Numbers |-> row[m]] /\ \A m \in Numbers : row[m] \in RowType
  BY DEF NumbersType
<1>2. \A m \in Numbers : /\ Free(row[m]) \in RowType /\ Free(row[m]).status # "used"
                         /\ Deleted(row[m]) \in RowType /\ Deleted(row[m]).status # "used"
                         /\ \A s \in {"open", "frozen"} :
                              /\ [row[m] EXCEPT !.status = s] \in RowType
                              /\ [row[m] EXCEPT !.status = s].status # "used"
  <2>1. ASSUME NEW r \in RowType PROVE
          /\ Free(r) \in RowType /\ Free(r).status = "open"
          /\ Deleted(r) \in RowType /\ Deleted(r).status = "none"
          /\ \A s \in {"open", "frozen"} :
               [r EXCEPT !.status = s] \in RowType /\ [r EXCEPT !.status = s].status = s
    BY RowWrites
  <2> QED BY <1>1, <2>1
<1>4. n \in Numbers \cup {None} /\ u \in Users \cup {NoOne} /\ Stage(Op(h), hand[h].todo)
      /\ (Op(h) = "assign" => u \in Users)
  BY Serving, Asked
<1> HIDE DEF n, u
<1>5. CASE row' = row
  BY <1>1, <1>5
<1>6. CASE SetRow(h)
  <2>1. Op(h) \in {"freeze", "thaw", "delete"}
    BY <1>4, <1>6, StageAt DEF SetRow, At
  <2>2. \/ row' = row
        \/ row' = [row EXCEPT ![n].status = "frozen"]
        \/ row' = [row EXCEPT ![n].status = "open"]
        \/ row' = [row EXCEPT ![n] = Deleted(@)]
    BY <1>6, <2>1 DEF SetRow, n
  <2>3. CASE row' = [row EXCEPT ![n].status = "frozen"] \/ row' = [row EXCEPT ![n].status = "open"]
    <3>1. PICK s \in {"open", "frozen"} : row' = [row EXCEPT ![n].status = s]
      BY <2>3
    <3>2. row' = [m \in Numbers |-> row'[m]]
      BY <1>1, <3>1
    <3>3. ASSUME NEW m \in Numbers PROVE row'[m] = row[m] \/ row'[m] = [row[m] EXCEPT !.status = s]
      BY <1>1, <3>1
    <3>4. ASSUME NEW m \in Numbers PROVE Fine(m)
      <4> DEFINE new == [row[m] EXCEPT !.status = s]
      <4>1. row[m] \in RowType /\ new \in RowType /\ new.status # "used"
        BY <1>1, <1>2
      <4>2. row'[m] = row[m] \/ row'[m] = new
        BY <3>3
      <4> HIDE DEF new
      <4> QED BY <4>1, <4>2
    <3> QED BY <3>2, <3>4
  <2>4. CASE row' = [row EXCEPT ![n] = Deleted(@)]
    <3>1. row' = [m \in Numbers |-> row'[m]]
      BY <1>1, <2>4
    <3>2. ASSUME NEW m \in Numbers PROVE row'[m] = row[m] \/ row'[m] = Deleted(row[m])
      BY <1>1, <2>4
    <3> QED BY <1>1, <1>2, <3>1, <3>2
  <2> QED BY <1>5, <2>2, <2>3, <2>4
<1>7. CASE Reserve(h)
  <2>1. row' = row \/ row' = [row EXCEPT ![n] = Free(@)]
    BY <1>7 DEF Reserve, n
  <2>2. CASE row' = [row EXCEPT ![n] = Free(@)]
    <3>1. row' = [m \in Numbers |-> row'[m]]
      BY <1>1, <2>2
    <3>2. ASSUME NEW m \in Numbers PROVE row'[m] = row[m] \/ row'[m] = Free(row[m])
      BY <1>1, <2>2
    <3> QED BY <1>1, <1>2, <3>1, <3>2
  <2> QED BY <1>5, <2>1, <2>2
<1>8. CASE Commit(h)
  <2> DEFINE t == hand[h].mem
  <2>1. ASSUME Op(h) = "assign", row' = AssignRows(t, u, n)
        PROVE  row' = [m \in Numbers |-> row'[m]] /\ \A m \in Numbers : Fine(m)
    <3>1. row' = [m \in Numbers |-> row'[m]]
      BY <2>1 DEF AssignRows
    <3>2. ASSUME NEW m \in Numbers
          PROVE  row'[m] \in {row[m], Free(row[m])} \/ (m = n /\ row'[m] = Used(row[m], u))
      BY <2>1 DEF AssignRows, Update
    <3>3. \A m \in Numbers : Used(row[m], u) \in RowType /\ Used(row[m], u).by = u
      BY <1>1, <1>4, <2>1, RowUsed
    <3>4. At(h, "commit")
      BY <1>8 DEF Commit
    <3>5. ASSUME NEW m \in Numbers PROVE Fine(m)
      <4>1. CASE row'[m] \in {row[m], Free(row[m])}
        BY <1>1, <1>2, <4>1
      <4>2. CASE m = n /\ row'[m] = Used(row[m], u)
        BY <2>1, <3>3, <3>4, <4>2 DEF Books, n, u
      <4> QED BY <3>2, <4>1, <4>2
    <3> QED BY <3>1, <3>5
  <2>2. ASSUME row' = [row EXCEPT ![n] = Update(t, n, Free(@))]
        PROVE  row' = [m \in Numbers |-> row'[m]] /\ \A m \in Numbers : Fine(m)
    <3>1. row' = [m \in Numbers |-> row'[m]] /\ \A m \in Numbers : row'[m] \in {row[m], Free(row[m])}
      BY <1>1, <2>2 DEF Update
    <3> QED BY <1>1, <1>2, <3>1
  <2> QED BY <1>5, <1>8, <2>1, <2>2 DEF Commit, n, u
<1>9. CASE ClearUsers(h)
  <2>1. CASE row' = [m \in Numbers |-> IF row[m].status = "used" /\ row[m].by \in hand[h].mem
                                       THEN Free(row[m]) ELSE row[m]]
    BY <1>1, <1>2, <2>1
  <2> QED BY <1>5, <1>9, <2>1 DEF ClearUsers
<1> QED BY <1>5, <1>6, <1>7, <1>8, <1>9
        DEF Serve, CountDup, WriteNumber, Look, Exists, Begin, GenShortID, Create

LEMMA NumbersTypeStep ==
  ASSUME UsersInv, HandsInv, NumbersType, Next
  PROVE  NumbersType'
<1>1. row' \in [Numbers -> RowType]
  <2>1. ASSUME NEW h \in Handlers, Serve(h) PROVE row' \in [Numbers -> RowType]
    BY <2>1, PoolServe
  <2> QED BY <2>1 DEF Next, Ask, Crash, NumbersType
<1>2. ASSUME NEW h \in Handlers, Serve(h)
      PROVE  \A v \in Users : user'[v].short \in Numbers \cup {None}
  <2> DEFINE u == Req(h).who  n == Req(h).num
  <2>1. n \in Numbers \cup {None} /\ user = [v \in Users |-> user[v]]
        /\ \A v \in Users : IsRow(user[v]) /\ user[v].short \in Numbers \cup {None}
    BY <1>2, Serving, Asked DEF UsersInv, Table, NumbersType
  <2>2. \A v \in Users : With(user[v], n).short = n /\ With(user[v], None).short = None
    BY <2>1, Renumbered
  <2>3. CASE WriteNumber(h)
    <3>1. user' = user \/ user' = [user EXCEPT ![u].short = n]
      BY <2>3 DEF WriteNumber
    <3>2. \A v \in Users : user'[v] = user[v] \/ user'[v] = With(user[v], n)
      BY <2>1, <3>1 DEF With
    <3> QED BY <2>1, <2>2, <3>2
  <2>4. CASE Commit(h)
    <3>1. \A v \in Users : \/ user'[v] = user[v] \/ user'[v] = With(user[v], n)
                           \/ user'[v] = With(user[v], None)
      BY <2>4 DEF Commit, AssignUsers, RelieveUsers, With
    <3> QED BY <2>1, <2>2, <3>1
  <2>5. CASE Create(h)
    <3>1. hand[h].mem \in Numbers
      BY <2>5 DEF Create, NumbersType
    <3>2. \A v \in Users : user'[v] = user[v] \/ user'[v].short = hand[h].mem
      BY <2>1, <2>5 DEF Create
    <3> QED BY <2>1, <3>1, <3>2
  <2>6. CASE ClearUsers(h)
    <3>1. \A v \in Users : user'[v] = user[v] \/ user'[v] = Emptied(user[v])
      BY <2>6 DEF ClearUsers, Emptied
    <3>2. \A v \in Users : Emptied(user[v]).short = None
      BY <2>1, EmptiedRow
    <3> QED BY <2>1, <3>1, <3>2
  <2>7. CASE user' = user
    BY <2>1, <2>7
  <2> QED BY <1>2, <2>3, <2>4, <2>5, <2>6, <2>7
          DEF Serve, CountDup, Look, SetRow, Reserve, Exists, Begin, GenShortID
<1>3. ASSUME NEW h \in Handlers, Serve(h) PROVE edited' \subseteq Users /\ crossed' \subseteq Users
  <2>1. CASE WriteNumber(h)
    <3>1. Op(h) = "update"
      BY <1>3, <2>1, Serving, Asked, StageAt DEF WriteNumber, At
    <3>2. Req(h).who \in Users
      BY <1>3, <3>1, Serving, Asked
    <3> QED BY <2>1, <3>2 DEF WriteNumber, NumbersType
  <2>2. CASE Commit(h)
    BY <2>2 DEF Commit, Crossing, NumbersType
  <2> QED BY <1>3, <2>1, <2>2 DEF Serve, CountDup, Look, SetRow, Reserve, Exists, Begin, GenShortID,
                                  Create, ClearUsers, NumbersType
<1>4. ASSUME NEW g \in Handlers, NEW h \in Handlers, Serve(h), At(g, "create")'
      PROVE  hand'[g].mem \in Numbers
  <2>1. CASE g # h
    BY <1>4, <2>1, Serving DEF At, NumbersType
  <2>2. CASE g = h
    <3>1. hand[h] # Idle /\ hand'[h] # Idle
      BY <1>4, <2>2, Serving DEF At, Idle
    <3>9. ASSUME NEW m, At(h, "draw"), hand'[h] = Retry(hand[h], m) PROVE FALSE
      <4>1. hand'[h].todo = hand[h].todo
        BY <3>1, <3>9, Retrying DEF HandsInv
      <4> QED BY <1>4, <2>2, <3>9, <4>1 DEF At
    <3>2. PICK m : hand'[h] = Onward(hand[h], m)
      BY <1>4, <3>1, <3>9, Serving
    <3>3. hand'[h].todo = Tail(hand[h].todo) /\ Len(hand[h].todo) # 1
      <4>1. Staged(hand[h], setting.ask)
        BY DEF HandsInv
      <4>2. Onward(hand[h], m) # Idle
        BY <3>1, <3>2
      <4>3. Len(hand[h].todo) # 1
        BY <4>2 DEF Onward
      <4> QED BY <3>1, <3>2, <4>1, <4>2, <4>3, Staging
    <3>4. Head(hand[h].todo) = "draw"
      BY <1>4, <2>2, <3>1, <3>3, Asked, StageAt DEF At
    <3>5. GenShortID(h)
      BY <1>4, <3>4 DEF Serve, CountDup, WriteNumber, Look, SetRow, Reserve, Exists, Begin, Commit,
         Create, ClearUsers, At
    <3> DEFINE rest == Tried \ hand[h].mem  k == Least(rest)
    <3>6. rest # {} => k \in Numbers
      <4>1. rest \in SUBSET Nat /\ rest \subseteq Numbers
        BY ShortIdsAssumption
      <4> QED BY <4>1, SmallestNumber DEF Least
    <3>7. \E l \in Numbers : Left(h, l)
      <4>1. ASSUME hand' = [hand EXCEPT ![h].mem = @ \cup {k}] PROVE FALSE
        <5>1. hand'[h] = Retry(hand[h], hand[h].mem \cup {k})
          BY <4>1 DEF HandsInv, Retry
        <5> QED BY <3>4, <3>9, <5>1, <3>5 DEF GenShortID
      <4> HIDE DEF k
      <4>2. \/ \E l \in Numbers : Left(h, l)
            \/ rest # {} /\ Left(h, k)
        BY <3>5, <4>1 DEF GenShortID, k
      <4> QED BY <3>6, <4>2
    <3>8. PICK l \in Numbers : hand'[h] = Onward(hand[h], l)
      BY <3>7 DEF Left, HandsInv
    <3>10. hand'[h].mem = l
      BY <3>1, <3>8, Staging DEF HandsInv
    <3> QED BY <2>2, <3>10
  <2> QED BY <2>1, <2>2
<1>5. ASSUME NEW g \in Handlers, NEW h \in Handlers, NEW r \in setting.ask, Ask(h, r),
             At(g, "create")'
      PROVE  hand'[g].mem \in Numbers
  <2>1. g # h
    BY <1>5, Beginning DEF At
  <2> QED BY <1>5, <2>1, Beginning DEF At, NumbersType
<1>6. ASSUME NEW g \in Handlers, Crash PROVE ~At(g, "create")'
  BY <1>6 DEF Crash, At, Idle
<1>7. UNCHANGED user => \A v \in Users : user'[v].short \in Numbers \cup {None}
  BY DEF NumbersType
<1>8. \A v \in Users : user'[v].short \in Numbers \cup {None}
  BY <1>2, <1>7 DEF Next, Ask, Crash
<1>9. edited' \subseteq Users /\ crossed' \subseteq Users
  BY <1>3 DEF Next, Ask, Crash, NumbersType
<1>10. \A g \in Handlers : At(g, "create")' => hand'[g].mem \in Numbers
  BY <1>4, <1>5, <1>6 DEF Next
<1> QED BY <1>1, <1>8, <1>9, <1>10 DEF NumbersType

-----------------------------------------------------------------------------
\* An assignment: the row is booked to the user, who loses the number he had
\* before together with the booking of it, unless that has changed.
LEMMA AssignBooks ==
  ASSUME UsersInv, NumbersType, NEW ex, Booked(user, row, ex), NEW new, ex \subseteq new,
         NEW u \in Users, NEW n, NEW t, user[u].known,
         \A v \in Users \cap {u, t.row[n].by} : Changed(t, v) => v \in new,
         user' = AssignUsers(t, u, n), row' = AssignRows(t, u, n)
  PROVE  Booked(user', row', new)
<1>1. SUFFICES ASSUME NEW m \in Numbers, NEW v \in Users, row'[m].status = "used", row'[m].by = v
               PROVE  user'[v].known /\ (v \notin new /\ user'[v].there => user'[v].short = m)
  BY DEF Booked
<1>2. IsRow(user[v])
  BY DEF UsersInv, Table
<1>3. user'[v] = IF ~user[v].there THEN user[v]
                 ELSE IF v = u THEN With(user[v], n)
                 ELSE IF Loses(t, n, v) THEN With(user[v], None)
                 ELSE user[v]
  BY DEF AssignUsers, With
<1>4. user'[v].known = user[v].known /\ user'[v].there = user[v].there
  BY <1>2, <1>3 DEF With, IsRow
<1>5. row'[m] = IF m = n THEN Update(t, m, Used(row[m], u))
                ELSE IF Released(t, u, m) THEN Update(t, m, Free(row[m])) ELSE row[m]
  BY DEF AssignRows
<1>6. row[m] \in RowType /\ Free(row[m]).status # "used" /\ Used(row[m], u).by = u
  <2>1. row[m] \in RowType
    BY DEF NumbersType
  <2>2. Free(row[m]).status = "open" /\ Used(row[m], u).by = u
    BY <2>1, RowWrites, RowUsed
  <2> QED BY <2>1, <2>2
<1>7. ASSUME row[m].status = "used", row[m].by = v
      PROVE  user[v].known /\ (v \notin new /\ user[v].there => user[v].short = m)
  BY <1>7 DEF Booked
<1>8. CASE v = u /\ m = n
  <2>1. user[v].known
    BY <1>8
  <2>2. user[v].there => user'[v].short = n
    BY <1>2, <1>3, <1>8, Renumbered
  <2> QED BY <1>4, <1>8, <2>1, <2>2
<1>9. CASE v # u \/ m # n
  <2>1. row'[m] = row[m]
    BY <1>1, <1>5, <1>6, <1>9 DEF Update
  <2>2. user[v].known /\ (v \notin new /\ user[v].there => user[v].short = m)
    BY <1>1, <1>7, <2>1
  <2>3. SUFFICES ASSUME v \notin new, user[v].there PROVE user'[v].short = m
    BY <1>4, <2>2
  <2>4. user[v].short = m /\ m # None /\ row[m].status = "used" /\ There(m)
    BY <1>1, <2>1, <2>2, <2>3, ShortIdsAssumption DEF There
  <2>5. v \in {u, t.row[n].by} => user[v] = t.user[v] /\ row[m] = t.row[m]
    BY <2>3, <2>4 DEF Changed
  <2>6. v # u
    <3>1. SUFFICES ASSUME v = u PROVE FALSE
      OBVIOUS
    <3>2. Released(t, u, m) /\ row[m].gone = t.row[m].gone /\ m # n
      BY <1>1, <1>9, <2>1, <2>4, <2>5, <3>1 DEF Released
    <3>3. row'[m] = Free(row[m])
      BY <1>5, <2>4, <3>2 DEF Update
    <3> QED BY <1>1, <1>6, <3>3
  <2>7. ~Loses(t, n, v)
    <3>1. SUFFICES ASSUME Loses(t, n, v) PROVE FALSE
      OBVIOUS
    <3>2. v = t.row[n].by /\ t.user[v].short = n
      BY <3>1 DEF Loses, Held
    <3>3. m = n /\ row[m].gone = t.row[m].gone
      BY <2>4, <2>5, <3>2
    <3>4. row'[m] = Used(row[m], u)
      BY <1>5, <2>4, <3>3 DEF Update
    <3> QED BY <1>1, <1>6, <2>6, <3>4
  <2> QED BY <1>3, <2>3, <2>4, <2>6, <2>7
<1> QED BY <1>8, <1>9

\* A relief: a row and its number go together, unless that has changed.
LEMMA RelieveBooks ==
  ASSUME UsersInv, NumbersType, NEW ex, Booked(user, row, ex), NEW new, ex \subseteq new,
         NEW n, NEW t,
         \A v \in Users \cap {t.row[n].by} : Changed(t, v) => v \in new,
         user' = RelieveUsers(t, n), row' = [row EXCEPT ![n] = Update(t, n, Free(@))]
  PROVE  Booked(user', row', new)
<1>1. SUFFICES ASSUME NEW m \in Numbers, NEW v \in Users, row'[m].status = "used", row'[m].by = v
               PROVE  user'[v].known /\ (v \notin new /\ user'[v].there => user'[v].short = m)
  BY DEF Booked
<1>2. user'[v] = IF user[v].there /\ Relieved(t, n, v) THEN With(user[v], None) ELSE user[v]
  BY DEF RelieveUsers, With
<1>3. user'[v].known = user[v].known /\ user'[v].there = user[v].there
  BY <1>2 DEF With, UsersInv, Table, IsRow
<1>4. row'[m] = IF m = n THEN Update(t, m, Free(row[m])) ELSE row[m]
  BY DEF NumbersType
<1>5. row[m] \in RowType /\ Free(row[m]).status # "used"
  BY DEF NumbersType, RowType, Free
<1>6. row'[m] = row[m]
  BY <1>1, <1>4, <1>5 DEF Update
<1>7. user[v].known /\ (v \notin new /\ user[v].there => user[v].short = m)
  BY <1>1, <1>6 DEF Booked
<1>8. SUFFICES ASSUME v \notin new, user[v].there PROVE user'[v].short = m
  BY <1>3, <1>7
<1>9. user[v].short = m /\ m # None /\ There(m)
  BY <1>1, <1>6, <1>7, <1>8, ShortIdsAssumption DEF There
<1>10. ~Relieved(t, n, v)
  <2>1. SUFFICES ASSUME Relieved(t, n, v) PROVE FALSE
    OBVIOUS
  <2>2. v = t.row[n].by /\ t.user[v].short = n
    BY <2>1 DEF Relieved, Held
  <2>3. user[v] = t.user[v] /\ row[m] = t.row[m]
    BY <1>8, <1>9, <2>2 DEF Changed
  <2>4. m = n /\ row[m].gone = t.row[m].gone
    BY <1>9, <2>2, <2>3
  <2>5. row'[m] = Free(row[m])
    BY <1>4, <1>9, <2>4 DEF Update
  <2> QED BY <1>1, <1>5, <2>5
<1> QED BY <1>2, <1>8, <1>9, <1>10

\* One statement of a request.
LEMMA ServeBooks ==
  ASSUME UsersInv, HandsInv, NumbersType, BooksInv, NEW h \in Handlers, Serve(h)
  PROVE  /\ Booked(user', row', edited' \cup crossed')
         /\ \A v \in Users : user[v].known => user'[v].known
<1> DEFINE u == Req(h).who  n == Req(h).num  ex == edited \cup crossed
           Same == /\ Booked(user', row', edited' \cup crossed')
                   /\ \A v \in Users : user[v].known => user'[v].known
<1>1. Booked(user, row, ex)
  BY DEF BooksInv
<1>2. \A v \in Users : IsRow(user[v]) /\ user = [w \in Users |-> user[w]]
  BY DEF UsersInv, Table
<1>3. CASE WriteNumber(h)
  <2>1. row' = row /\ crossed' = crossed
        /\ (\/ user' = user /\ edited' = edited
            \/ user' = [user EXCEPT ![u].short = n] /\ edited' = edited \cup {u})
    BY <1>3 DEF WriteNumber
  <2>2. CASE user' = user /\ edited' = edited
    BY <1>1, <2>1, <2>2
  <2>3. CASE user' = [user EXCEPT ![u].short = n] /\ edited' = edited \cup {u}
    <3>1. ASSUME NEW v \in Users
          PROVE  user'[v].known = user[v].known /\ (v # u => user'[v] = user[v])
      <4>1. user'[v] = user[v] \/ user'[v] = With(user[v], n)
        BY <1>2, <2>3 DEF With
      <4>2. With(user[v], n).known = user[v].known
        BY <1>2 DEF With, IsRow
      <4>3. v # u => user'[v] = user[v]
        BY <1>2, <2>3
      <4> QED BY <4>1, <4>2, <4>3
    <3> HIDE DEF u
    <3> QED BY <1>1, <2>1, <2>3, <3>1 DEF Booked
  <2> QED BY <2>1, <2>2, <2>3
<1>4. CASE Commit(h)
  <2> DEFINE t == hand[h].mem
  <2>1. At(h, "commit") /\ edited' = edited
    BY <1>4 DEF Commit
  <2>2. Op(h) = "assign" => u \in Users /\ user[u].known
    BY <2>1, Serving, Asked DEF BooksInv
  <2>3. \/ user' = user /\ row' = row /\ crossed' = crossed
        \/ Op(h) = "assign" /\ Crossing(t, {u, t.row[n].by})
                            /\ user' = AssignUsers(t, u, n) /\ row' = AssignRows(t, u, n)
        \/ Crossing(t, {t.row[n].by}) /\ user' = RelieveUsers(t, n)
                                      /\ row' = [row EXCEPT ![n] = Update(t, n, Free(@))]
    BY <1>4 DEF Commit
  <2>4. ASSUME NEW v \in Users PROVE user'[v].known = user[v].known
    <3>1. \/ user'[v] = user[v] \/ user'[v] = With(user[v], n) \/ user'[v] = With(user[v], None)
      BY <2>3 DEF AssignUsers, RelieveUsers, With
    <3>2. \A k : With(user[v], k).known = user[v].known
      BY <1>2 DEF With, IsRow
    <3> QED BY <3>1, <3>2
  <2> DEFINE new == edited' \cup crossed'
  <2> HIDE DEF u, n, t
  <2>5. CASE user' = user /\ row' = row /\ crossed' = crossed
    BY <1>1, <2>1, <2>4, <2>5
  <2>6. CASE Op(h) = "assign" /\ Crossing(t, {u, t.row[n].by})
             /\ user' = AssignUsers(t, u, n) /\ row' = AssignRows(t, u, n)
    <3>1. ex \subseteq new /\ \A v \in Users \cap {u, t.row[n].by} : Changed(t, v) => v \in new
      BY <2>1, <2>6 DEF Crossing
    <3> HIDE DEF ex, new
    <3>2. Booked(user', row', new)
      BY <1>1, <2>2, <2>6, <3>1, AssignBooks
    <3> QED BY <2>4, <3>2 DEF new
  <2>7. CASE Crossing(t, {t.row[n].by}) /\ user' = RelieveUsers(t, n)
             /\ row' = [row EXCEPT ![n] = Update(t, n, Free(@))]
    <3>1. ex \subseteq new /\ \A v \in Users \cap {t.row[n].by} : Changed(t, v) => v \in new
      BY <2>1, <2>7 DEF Crossing
    <3> HIDE DEF ex, new
    <3>2. Booked(user', row', new)
      BY <1>1, <2>7, <3>1, RelieveBooks
    <3> QED BY <2>4, <3>2 DEF new
  <2> QED BY <2>3, <2>5, <2>6, <2>7
<1>5. CASE Create(h)
  <2>1. row' = row /\ edited' = edited /\ crossed' = crossed
        /\ (user' = user \/ (~user[u].known /\ user' = [user EXCEPT ![u] =
              [known |-> TRUE, there |-> TRUE, short |-> hand[h].mem]]))
    BY <1>5 DEF Create
  <2>2. \A v \in Users : user[v].known => user'[v] = user[v]
    BY <1>2, <2>1
  <2> QED BY <1>1, <2>1, <2>2 DEF Booked
<1>6. CASE ClearUsers(h)
  <2>1. edited' = edited /\ crossed' = crossed
    BY <1>6 DEF ClearUsers
  <2>2. ASSUME NEW v \in Users
        PROVE  user'[v].known = user[v].known /\ (user'[v].there => user'[v] = user[v])
    <3>1. user'[v] = user[v] \/ user'[v] = Emptied(user[v])
      BY <1>2, <1>6 DEF ClearUsers, Emptied
    <3>2. Emptied(user[v]).known = user[v].known /\ Emptied(user[v]).there = FALSE
      BY <1>2 DEF Emptied, IsRow
    <3> QED BY <3>1, <3>2
  <2>3. \A m \in Numbers : row'[m] = row[m] \/ row'[m].status # "used"
    <3>1. row' = row \/ row' = [m \in Numbers |-> IF row[m].status = "used" /\ row[m].by \in hand[h].mem
                                                 THEN Free(row[m]) ELSE row[m]]
      BY <1>6 DEF ClearUsers
    <3>2. \A m \in Numbers : Free(row[m]).status # "used"
      BY DEF Free, NumbersType, RowType
    <3> QED BY <3>1, <3>2
  <2> QED BY <1>1, <2>1, <2>2, <2>3 DEF Booked
<1>7. CASE user' = user /\ edited' = edited /\ crossed' = crossed /\ \A m \in Numbers : ~Books(h, m)
  BY <1>1, <1>7, PoolServe DEF Booked
<1> QED BY <1>3, <1>4, <1>5, <1>6, <1>7
        DEF Serve, CountDup, Look, SetRow, Reserve, Exists, Begin, GenShortID, Books, At

\* A transaction that assigns has read that its user is there.
LEMMA BooksStep ==
  ASSUME UsersInv, HandsInv, NumbersType, BooksInv, Next
  PROVE  BooksInv'
<1>1. ASSUME NEW h \in Handlers, At(h, "commit")', Op(h)' = "assign", NEW g \in Handlers, Serve(g)
      PROVE  user'[Req(h)'.who].known
  <2>1. hand[g] # Idle /\ hand'[h] # Idle
    BY <1>1, Serving DEF At, Idle
  <2>2. CASE hand'[h] = hand[h]
    <3>1. At(h, "commit") /\ Op(h) = "assign" /\ Req(h)' = Req(h)
      BY <1>1, <2>2 DEF At, Op, Req
    <3>2. Req(h).who \in Users /\ user[Req(h).who].known
      BY <2>1, <2>2, <3>1, Asked DEF BooksInv
    <3> QED BY <1>1, <3>1, <3>2, ServeBooks
  <2>3. CASE hand'[h] # hand[h]
    <3>1. g = h
      BY <1>1, <2>3, Serving
    <3>2. PICK m : hand'[h] = Onward(hand[h], m)
      <4>1. ASSUME NEW m, At(h, "draw"), hand'[h] = Retry(hand[h], m) PROVE FALSE
        <5>1. hand'[h].todo = hand[h].todo
          BY <2>1, <3>1, <4>1, Retrying DEF HandsInv
        <5> QED BY <1>1, <4>1, <5>1 DEF At
      <4> QED BY <1>1, <2>1, <3>1, <4>1, Serving
    <3>3. Len(hand[h].todo) # 1 /\ Staged(hand[h], setting.ask)
      BY <2>1, <3>2 DEF Onward, HandsInv
    <3>4. hand'[h].todo = Tail(hand[h].todo) /\ hand'[h].req = hand[h].req
      BY <2>1, <3>1, <3>2, <3>3, Staging
    <3>5. Head(hand[h].todo) = "begin"
      BY <1>1, <2>1, <3>1, <3>3, <3>4, Asked, StageAt DEF At
    <3>6. Begin(h)
      BY <1>1, <3>1, <3>5 DEF Serve, CountDup, WriteNumber, Look, SetRow, Reserve, Exists, Commit,
         GenShortID, Create, ClearUsers, At
    <3>7. ~Done(h)
      BY <2>1 DEF Done, HandsInv
    <3>8. Req(h)' = Req(h) /\ Op(h) = "assign"
      BY <1>1, <3>4 DEF Op, Req
    <3>9. user[Req(h).who].there /\ user' = user
      BY <3>6, <3>7, <3>8 DEF Begin, Only, MayAssign
    <3>10. Req(h).who \in Users
      BY <2>1, <3>1, <3>8, Asked
    <3> QED BY <3>8, <3>9, <3>10 DEF UsersInv, Table, IsRow
  <2> QED BY <2>2, <2>3
<1>2. ASSUME NEW h \in Handlers, At(h, "commit")', Op(h)' = "assign",
             NEW g \in Handlers, NEW r \in setting.ask, Ask(g, r)
      PROVE  user'[Req(h)'.who].known
  <2>1. g # h
    BY <1>2, Beginning DEF At
  <2>2. hand'[h] = hand[h] /\ user' = user
    BY <1>2, <2>1, Beginning DEF Ask
  <2> QED BY <1>2, <2>2 DEF BooksInv, At, Op, Req
<1>3. ASSUME NEW h \in Handlers, Crash PROVE ~At(h, "commit")'
  BY <1>3 DEF Crash, At, Idle
<1>4. Booked(user', row', edited' \cup crossed')
  <2>1. CASE UNCHANGED <<user, row, edited, crossed>>
    BY <2>1 DEF BooksInv
  <2> QED BY <2>1, ServeBooks DEF Next, Ask, Crash
<1> QED BY <1>1, <1>2, <1>3, <1>4 DEF Next, BooksInv

LEMMA PoolInit == Init => PoolInv
<1> SUFFICES ASSUME Init PROVE PoolInv
  OBVIOUS
<1>1. UsersInv
  BY NumbersInit
<1>2. /\ setting \in Scenarios /\ hand = [h \in Handlers |-> Idle]
      /\ edited = {} /\ crossed = {}
      /\ row = [n \in Numbers |-> IF n \in setting.pool THEN Free(NoRow) ELSE NoRow]
      /\ user = [v \in Users |-> [known |-> v \in setting.users, there |-> v \in setting.users,
                                  short |-> None]]
  BY DEF Init
<1>3. HandsInv
  BY <1>2 DEF HandsInv, Staged
<1>4. \A s : \A h \in Handlers : ~At(h, s)
  BY <1>2 DEF At, Idle
<1>5. MeantInv
  BY <1>2 DEF MeantInv, MustMean, Idle
<1>6. Free(NoRow) \in RowType /\ NoRow \in RowType /\ Free(NoRow).status # "used" /\ NoRow.status # "used"
  BY DEF Free, NoRow, RowType
<1>7. NumbersType
  BY <1>2, <1>4, <1>6 DEF NumbersType
<1>8. BooksInv
  <2>1. Booked(user, row, edited \cup crossed)
    BY <1>2, <1>6 DEF Booked
  <2> QED BY <1>2, <1>4, <2>1 DEF BooksInv
<1> QED BY <1>1, <1>3, <1>5, <1>7, <1>8 DEF PoolInv

LEMMA PoolStep ==
  ASSUME PoolInv, [IdsNext]_allvars
  PROVE  PoolInv'
<1>1. CASE Next
  BY <1>1, NumbersStep, HandsStep, MeantStep, NumbersTypeStep, BooksStep DEF PoolInv
<1>2. CASE UNCHANGED vars
  <2>1. /\ user' = user /\ row' = row /\ hand' = hand /\ setting' = setting
        /\ meant' = meant /\ crossed' = crossed /\ edited' = edited
    BY <1>2 DEF vars
  <2>2. UsersInv' /\ HandsInv' /\ MeantInv' /\ NumbersType' /\ BooksInv'
    BY <2>1 DEF PoolInv, UsersInv, Table, Unique, HandsInv, MeantInv, NumbersType, BooksInv, At,
                Op, Req
  <2> QED BY <2>2 DEF PoolInv
<1> QED BY <1>1, <1>2 DEF IdsNext, allvars

LEMMA PoolSafe == IdsSpec => []PoolInv
BY PoolInit, PoolStep, PTL DEF IdsSpec, IdsInit

\* Generators stay within the clock, and the clock within its bound.
ClocksInv ==
  /\ FieldsType /\ clock \in 1..MaxClock
  /\ \A p \in Processes : last[p] <= MaxClock

LEMMA ClocksStep ==
  ASSUME ClocksInv, [SnowflakeNext]_sfvars
  PROVE  ClocksInv'
<1> USE SnowflakeAssumption
<1>1. FieldsType /\ FieldsType'
  BY FieldsStep DEF ClocksInv
<1>2. last = [p \in Processes |-> last[p]] /\ clock \in 1..MaxClock
      /\ \A p \in Processes : last[p] <= MaxClock
  BY <1>1 DEF FieldsType, ClocksInv
<1>3. \/ \E p \in Processes, n \in {0, clock} : last' = [last EXCEPT ![p] = n] /\ clock' = clock
      \/ last' = last /\ clock' = clock
      \/ last' = last /\ ClockTicks
      \/ last' = last /\ ClockGoesBack
  BY DEF SnowflakeNext, NextID, Resume, Restart, Issue, ClockTicks, ClockGoesBack, sfvars
<1>4. clock' \in 1..MaxClock
  <2>1. clock' = clock \/ (clock < MaxClock /\ clock' = clock + 1) \/ (clock > 1 /\ clock' = clock - 1)
    BY <1>3 DEF ClockTicks, ClockGoesBack
  <2> QED BY <1>2, <2>1
<1>5. ASSUME NEW q \in Processes PROVE last'[q] <= MaxClock
  BY <1>2, <1>3
<1> QED BY <1>1, <1>4, <1>5 DEF ClocksInv

LEMMA ClocksSafe == IdsSpec => []ClocksInv
<1>1. IdsInit => ClocksInv
  BY SnowflakeAssumption DEF IdsInit, SnowflakeInit, ClocksInv, FieldsType, Stamps
<1>2. ClocksInv /\ [IdsNext]_allvars => ClocksInv'
  BY ClocksStep DEF IdsNext, allvars
<1> QED BY <1>1, <1>2, PTL DEF IdsSpec

\* However requests overlap, a number that is booked to a user is his, unless
\* an admin has edited his number or a transaction about him wrote over what
\* had changed since it was read; the types of the variables and the uniqueness
\* of numbers go with it.
THEOREM TheBookIsRight == IdsSpec => []NumbersInv
<1>1. ASSUME PoolInv, ClocksInv PROVE TypeOK
  <2>1. \A v \in Users : user[v].known \in BOOLEAN /\ user[v].there \in BOOLEAN
        /\ user[v] = [known |-> user[v].known, there |-> user[v].there, short |-> user[v].short]
        /\ user[v].short \in Numbers \cup {None}
    BY <1>1 DEF PoolInv, UsersInv, Table, IsRow, NumbersType
  <2>2. user \in [Users -> [known : BOOLEAN, there : BOOLEAN, short : Numbers \cup {None}]]
    BY <1>1, <2>1 DEF PoolInv, UsersInv, Table
  <2>3. step \in [Processes -> 0..(Steps - 1)] /\ last \in [Processes -> 0..MaxClock]
    BY <1>1, SnowflakeAssumption DEF ClocksInv, FieldsType, Stamps
  <2> QED BY <1>1, <2>2, <2>3 DEF TypeOK, PoolInv, NumbersType, RowType
<1>2. PoolInv => NumbersUnique /\ BooksAgree
  BY DEF PoolInv, UsersInv, Unique, NumbersUnique, BooksInv, Booked, BooksAgree
<1>3. PoolInv /\ ClocksInv => NumbersInv
  BY <1>1, <1>2 DEF NumbersInv
<1> QED BY <1>3, PoolSafe, ClocksSafe, PTL

\* No request writes what was forbidden all the time since it arrived,
\* although it checks without locks and the writes of others come between.
THEOREM WritesWereAllowed == IdsSpec => []NeverWhollyBarred
<1>1. ASSUME PoolInv, NEW h \in Handlers, hand[h] # Idle,
             At(h, "set") \/ At(h, "commit") \/ At(h, "write")
      PROVE  meant[h]
  <2>1. Stage(Op(h), hand[h].todo)
    BY <1>1, Asked DEF PoolInv
  <2>2. hand[h].todo \in {<<"set">>, <<"commit">>, <<"write">>}
    BY <1>1, <2>1, StageAt DEF At
  <2> QED BY <1>1, <2>2 DEF PoolInv, MeantInv, MustMean
<1>2. PoolInv => NeverWhollyBarred
  BY <1>1 DEF NeverWhollyBarred
<1> QED BY <1>2, PoolSafe, PTL

\* No two users ever have one short number, whatever registrations, edits,
\* assignments and reliefs overlap: the unique index does what the missing
\* row locks of the transactions do not.
THEOREM NumbersAreUnique == IdsSpec => []NumbersUnique
<1>1. PoolInv => NumbersUnique
  BY DEF PoolInv, UsersInv, Unique, NumbersUnique
<1> QED BY <1>1, PoolSafe, PTL

\* A user loses his number only to a request about him, to one about his
\* number that was read when he had it, or with his row.
THEOREM NumbersAreHeld == IdsSpec => NumberHeld
<1>1. ASSUME PoolInv, [IdsNext]_allvars, NEW v \in Users,
             user[v].short # None, user'[v].short # user[v].short
      PROVE  \E h \in Handlers : Takes(h, v)
  <2>1. user' # user
    BY <1>1
  <2>2. Next
    BY <1>1, <2>1 DEF IdsNext, allvars, vars
  <2> QED BY <1>1, <2>2, NumbersStep DEF PoolInv
<1>2. PoolInv /\ [IdsNext]_allvars =>
        [\A u \in Users : user[u].short # None /\ user'[u].short # user[u].short =>
           \E h \in Handlers :
             \/ At(h, "write") /\ Req(h).who = u
             \/ At(h, "remove") /\ u \in hand[h].mem
             \/ At(h, "commit") /\ (Req(h).who = u \/ Held(hand[h].mem.user, u, Req(h).num))]_vars
  BY <1>1 DEF Takes
<1> QED BY <1>2, PoolSafe, PTL DEF IdsSpec, NumberHeld

\* The ids of the server are unique also beside the numbers.
THEOREM IdsAreUniqueBesideNumbers == IdsSpec => []IdsUnique
<1>1. IdsInit => SnowflakeInit
  BY DEF IdsInit
<1>2. [IdsNext]_allvars => [SnowflakeNext]_sfvars
  BY DEF IdsNext, allvars
<1> QED BY <1>1, <1>2, IdsAreUnique, PTL DEF IdsSpec, SnowflakeSpec
=============================================================================
