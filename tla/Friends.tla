------------------------------- MODULE Friends -------------------------------
(***************************************************************************)
(* Friend requests, friend relations, the blacklist and direct             *)
(* conversations of im-server, with what adds friends by itself: customer  *)
(* service, the assistant and invite codes that carry friends.             *)
(*                                                                         *)
(* A request is the sequence of statements it still has to execute; one    *)
(* action executes one, and some add others when they have read what to    *)
(* do.  Nothing is done in a transaction.  All users are in normal status; *)
(* names, texts, remarks, pushed events and the tips of the system in a    *)
(* conversation are left out, and a message is its conversation and        *)
(* sender.  Of what the requests about groups do to a direct conversation, *)
(* which none of them but joining by QR code refuses, the invitation is    *)
(* here; quitting one is not.                                              *)
(***************************************************************************)
EXTENDS Integers, FiniteSets, Sequences, SequencesExt

CONSTANTS
  Users,          \* registered users
  Kefu,           \* the users of customer service, in the order of their ids
  Assistant,      \* the virtual user -1
  Codes,          \* invite codes that carry friends
  Scenarios,      \* sys_config, and what clients ask under it
  Handlers

Everyone == Users \cup {Assistant}
Pairs == {p \in SUBSET Everyone : \E a, b \in Everyone : p = {a, b}}

FriendOps == {"add", "handle", "delete", "block", "unblock", "open", "joined",
              "guest", "bind", "notify", "inviteTo", "codeNew", "codeSet", "codeDrop"}
MomentOps == {"publish", "feed", "like", "comment", "uncomment", "hide", "drop", "dropComment"}

\* id is the request, post or conversation meant, on what to do with it, fs the friends of a code.
\* The assistant, and admins as whom it stands, publish and moderate; of the
\* rest, it only is the other one of a conversation.
Asked(ops, parties) ==
  [op : ops, by : parties, to : parties, id : Nat, on : BOOLEAN,
   code : Codes \cup {"none"}, fs : Seq(Users)]
Request == Asked(FriendOps \ {"open"}, Users) \cup Asked(MomentOps \cup {"open"}, Everyone)

ASSUME FriendsAssumption ==
  /\ Assistant \notin Users
  /\ Kefu \in Seq(Users)
  /\ \A s \in Scenarios :
       /\ s.assistant \in BOOLEAN /\ s.kefu \in {"off", "round", "all"}
       /\ s.new \subseteq Users /\ \A r \in s.ask : r \in Request
       /\ s.maxAsked \in Nat /\ s.maxFaults \in Nat

VARIABLES
  setting,  \* the scenario
  new,      \* users whose registration is still to come
  friend,   \* rows of friend_relation: <<user, friend>>
  filed,    \* rows of friend_request, by id
  black,    \* rows of blacklist
  convs,    \* members of the direct conversations, by id
  said,     \* messages, by id: conversation and sender
  invited,  \* conversations somebody was invited into (history)
  codes,    \* rows of invite_friend_code
  index,    \* kefu_rr_index
  hand,     \* requests under way: statements to do, and what was read
  agreed,   \* pairs of which one has agreed or was assigned (history)
  barred,   \* checks a request has failed ever since it arrived (history)
  asked, faults

NoCode == [there |-> FALSE, enabled |-> FALSE, friends |-> <<>>, used |-> 0]
Idle   == [todo |-> <<>>]

-----------------------------------------------------------------------------
(* Statements.                                                             *)

\* When a statement of a part fails, or finds that the part is not needed, the
\* rest of the part is not executed.
St(do, a, b, part) == [do |-> do, a |-> a, b |-> b, part |-> part]

Relate(a, b, part) ==
  <<St("has", a, b, part), St("row", a, b, part), St("has", b, a, part), St("row", b, a, part)>>
Direct(a, b, part) ==
  <<St("conv", a, b, part), St("newConv", a, b, part), St("creator", a, b, part),
    St("other", b, a, part)>>
\* The message goes into the conversation that a opens with b.
Told(a, b, by, to, part) == Direct(a, b, part) \o <<St("text", by, to, part)>>
Unrelate(a, b) == <<St("unrow", a, b, ""), St("unrow", b, a, "")>>
If(needed, s) == IF needed THEN s ELSE <<>>

\* The loop over several friends, which are bound one by one.
Each(u, ks, part) == If(ks # <<>>, <<St("each", u, ks, part)>>)

\* kefuBind and kefuGreet; AssistantAddForUser, AssistantNotify.
Bound(u, k, part) == If(u # k, Relate(u, k, part))
Assigned(u, k) == Bound(u, k, "kefu") \o If(u # k, Told(u, k, k, u, "kefu"))
Helped(u) == Told(u, Assistant, Assistant, u, "help")

FriendStatements(r) ==
  CASE r.op = "add"    -> <<St("already", r.by, r.to, ""), St("pending", r.by, r.to, ""),
                            St("file", r.by, r.to, "")>>
    [] r.op = "handle" -> <<St("find", r.by, r.by, "")>>
    [] r.op = "delete" -> Unrelate(r.by, r.to)
    [] r.op = "block"  -> <<St("hasBlack", r.by, r.to, ""), St("rowBlack", r.by, r.to, "")>>
                          \o Unrelate(r.by, r.to)
    [] r.op = "unblock" -> <<St("unBlack", r.by, r.to, "")>>
    [] r.op = "open"   -> Direct(r.by, r.to, "")
    [] r.op = "notify" -> Helped(r.by)
    \* what Register and GuestRegister do for a new user
    [] r.op = "joined" -> If(setting.assistant, Helped(r.by))
                          \o If(setting.kefu # "off", <<St("assign", r.by, r.by, "kefu")>>)
                          \o If(r.code # "none", <<St("invite", r.by, r.by, "invite")>>)
    \* BindInviteCode
    [] r.op = "bind"   -> If(r.code # "none", <<St("valid", r.by, r.by, ""),
                                               St("invite", r.by, r.by, "invite")>>)
    \* GroupInvite, of one user
    [] r.op = "inviteTo" -> <<St("mayInvite", r.by, r.to, ""), St("isIn", r.by, r.to, ""),
                              St("joins", r.by, r.to, "")>>
    \* guestEnsureAutoFriends
    [] r.op = "guest"  -> If(setting.assistant, <<St("helped", r.by, r.by, "help")>> \o Helped(r.by))
                          \o If(setting.kefu # "off", <<St("served", r.by, r.by, "kefu"),
                                                       St("assign", r.by, r.by, "kefu")>>)
    [] r.op = "codeNew"  -> <<St("codeCount", r.by, r.to, ""), St("codeAdd", r.by, r.to, "")>>
    [] r.op = "codeSet"  -> <<St("codeSet", r.by, r.to, "")>>
    [] r.op = "codeDrop" -> <<St("codeDel", r.by, r.to, "")>>

At(h, s) == hand[h].todo # <<>> /\ Head(hand[h].todo).do = s
Now(h)   == Head(hand[h].todo)
Req(h)   == hand[h].req

\* What is left of a request; nothing left is the end of it.
Left(h, todo, mem) ==
  hand' = [hand EXCEPT ![h] = IF todo = <<>> THEN Idle
                              ELSE [todo |-> todo, req |-> Req(h), mem |-> mem]]
Rest(h)    == Tail(hand[h].todo)
Proceed(h) == Left(h, Rest(h), hand[h].mem)
Skip(h)    == Left(h, SubSeq(hand[h].todo, 3, Len(hand[h].todo)), hand[h].mem)
Done(h)    == Left(h, <<>>, 0)
Expand(h, todo, mem) == Left(h, todo \o Rest(h), mem)
\* Where the part that the first statement belongs to has ended.
Ends(l) == {n \in 2..(Len(l) + 1) : /\ \A i \in 1..(n - 1) : l[i].part = l[1].part
                                    /\ n <= Len(l) => l[n].part # l[1].part}
GiveUp(h)  == \E n \in Ends(hand[h].todo) :
                Left(h, SubSeq(hand[h].todo, n, Len(hand[h].todo)), hand[h].mem)
Only(h, may) == IF may THEN Proceed(h) ELSE Done(h)

Relations == <<friend, filed, black, agreed>>
Chats     == <<convs, said, invited>>
Helpers   == <<codes, index>>

-----------------------------------------------------------------------------
(* Friend requests.                                                        *)

AreFriends(a, b) == <<a, b>> \in friend \/ <<b, a>> \in friend
IsPending(a, b) == \E i \in DOMAIN filed :
  filed[i].from = a /\ filed[i].to = b /\ filed[i].status = "pending"

Already(h) ==
  /\ At(h, "already")
  /\ Only(h, Now(h).a # Now(h).b /\ ~AreFriends(Now(h).a, Now(h).b))
  /\ UNCHANGED <<Relations, Chats, Helpers>>

\* Fault: only requests in the other direction are looked for.
AlreadyAskedBack(a, b) == IsPending(b, a)

AlreadyAsked(a, b) == IsPending(a, b)

Pending(h) ==
  /\ At(h, "pending") /\ Only(h, ~AlreadyAsked(Now(h).a, Now(h).b))
  /\ UNCHANGED <<Relations, Chats, Helpers>>

File(h) ==
  /\ At(h, "file")
  /\ filed' = Append(filed, [from |-> Now(h).a, to |-> Now(h).b, status |-> "pending"])
  /\ Proceed(h) /\ UNCHANGED <<friend, black, agreed, Chats, Helpers>>

\* Fault: whoever knows the request may answer it.
MineAnyone(u, q) == u \in {q.from, q.to}

Mine(u, q) == u = q.to

\* FriendRequestHandle; it answers a request again that was answered before.
Find(h) ==
  /\ At(h, "find")
  /\ LET i == Req(h).id  q == filed[i] IN
       IF i \in DOMAIN filed /\ Mine(Req(h).by, q)
       THEN /\ Expand(h, If(Req(h).on, Relate(q.from, q.to, "") \o Told(q.to, q.from, q.to, q.from, ""))
                         \o <<St("status", q.to, q.from, "")>>, 0)
            /\ agreed' = IF Req(h).on /\ Req(h).by = q.to
                         THEN agreed \cup {{q.from, q.to}} ELSE agreed
       ELSE Done(h) /\ UNCHANGED agreed
  /\ UNCHANGED <<friend, filed, black, Chats, Helpers>>

SetStatus(h) ==
  /\ At(h, "status")
  /\ filed' = [filed EXCEPT ![Req(h).id].status = IF Req(h).on THEN "agreed" ELSE "rejected"]
  /\ Proceed(h) /\ UNCHANGED <<friend, black, agreed, Chats, Helpers>>

(* FirstOrCreate is a lookup and an insert; a unique index keeps the second *)
(* of two rows out.                                                         *)

HasRow(h) ==
  /\ At(h, "has")
  /\ IF <<Now(h).a, Now(h).b>> \in friend THEN Skip(h) ELSE Proceed(h)
  /\ UNCHANGED <<Relations, Chats, Helpers>>

AddRow(h) ==
  /\ At(h, "row")
  /\ friend' = friend \cup {<<Now(h).a, Now(h).b>>}
  /\ IF <<Now(h).a, Now(h).b>> \in friend /\ Now(h).part # "" THEN GiveUp(h) ELSE Proceed(h)
  /\ UNCHANGED <<filed, black, agreed, Chats, Helpers>>

\* FriendDelete
DropRow(h) ==
  /\ At(h, "unrow") /\ friend' = friend \ {<<Now(h).a, Now(h).b>>}
  /\ Proceed(h) /\ UNCHANGED <<filed, black, agreed, Chats, Helpers>>

HasBlack(h) ==
  /\ At(h, "hasBlack")
  /\ IF <<Now(h).a, Now(h).b>> \in black THEN Skip(h) ELSE Proceed(h)
  /\ UNCHANGED <<Relations, Chats, Helpers>>

SetBlack(h) ==
  /\ At(h, "rowBlack") \/ At(h, "unBlack")
  /\ black' = IF At(h, "rowBlack") THEN black \cup {<<Now(h).a, Now(h).b>>}
              ELSE black \ {<<Now(h).a, Now(h).b>>}
  /\ Proceed(h) /\ UNCHANGED <<friend, filed, agreed, Chats, Helpers>>

-----------------------------------------------------------------------------
(* CreateDirect, and a message of SendMessage, which only members may send. *)

Common(a, b) == {c \in DOMAIN convs : {a, b} \subseteq convs[c]}

\* Fault: any conversation that the other one has is taken.
FoundHalf(a, b) == {c \in DOMAIN convs : b \in convs[c]}

Found(a, b) == Common(a, b)

FindConv(h) ==
  /\ At(h, "conv")
  /\ LET a == Now(h).a  b == Now(h).b IN
       IF a = b THEN Done(h)
       ELSE IF Found(a, b) = {} THEN Proceed(h)
       ELSE \E c \in Found(a, b) : Left(h, SubSeq(hand[h].todo, 5, Len(hand[h].todo)), c)
  /\ UNCHANGED <<Relations, Chats, Helpers>>

NewConv(h) ==
  /\ At(h, "newConv")
  /\ convs' = Append(convs, {})
  /\ Left(h, Rest(h), Len(convs) + 1)
  /\ UNCHANGED <<Relations, said, invited, Helpers>>

AddMember(h) ==
  /\ At(h, "creator") \/ At(h, "other")
  /\ convs' = [convs EXCEPT ![hand[h].mem] = @ \cup {Now(h).a}]
  /\ Proceed(h) /\ UNCHANGED <<Relations, said, invited, Helpers>>

SendText(h) ==
  /\ At(h, "text")
  /\ said' = IF Now(h).a \in convs[hand[h].mem]
             THEN Append(said, [conv |-> hand[h].mem, by |-> Now(h).a, to |-> Now(h).b])
             ELSE said
  /\ Proceed(h) /\ UNCHANGED <<Relations, convs, invited, Helpers>>

(* GroupInvite asks neither for a group nor whether who invites is in it;   *)
(* who is no owner or admin, which nobody is in a direct conversation, may  *)
(* invite while allow_member_invite is 1, as it is from the start.          *)

MayInvite(h) ==
  /\ At(h, "mayInvite") /\ Only(h, Req(h).id \in DOMAIN convs)
  /\ UNCHANGED <<Relations, Chats, Helpers>>

IsIn(h) ==
  /\ At(h, "isIn") /\ Only(h, Req(h).to \notin convs[Req(h).id])
  /\ UNCHANGED <<Relations, Chats, Helpers>>

Joins(h) ==
  /\ At(h, "joins")
  /\ convs' = [convs EXCEPT ![Req(h).id] = @ \cup {Req(h).to}]
  /\ invited' = invited \cup {Req(h).id}
  /\ Proceed(h) /\ UNCHANGED <<Relations, said, Helpers>>

-----------------------------------------------------------------------------
(* Customer service: of the staff all, or one by a count that is kept.      *)

Assign(h) ==
  /\ At(h, "assign")
  /\ LET u == Now(h).a
         next == Kefu[(index % Len(Kefu)) + 1]
         ks == IF setting.kefu = "all" THEN Kefu ELSE <<next>>
     IN  IF Kefu = <<>> THEN Proceed(h) /\ UNCHANGED agreed
         ELSE /\ Expand(h, If(setting.kefu = "round", <<St("index", u, u, "kefu")>>)
                           \o Each(u, ks, "kefu"), index)
              /\ agreed' = agreed \cup {{u, ks[i]} : i \in DOMAIN ks}
  /\ UNCHANGED <<friend, filed, black, Chats, Helpers>>

\* The next turn of a loop.
BindNext(h) ==
  /\ At(h, "each")
  /\ LET u == Now(h).a  k == Head(Now(h).b)  part == Now(h).part IN
       Expand(h, (IF part = "kefu" THEN Assigned(u, k) ELSE Bound(u, k, "friend"))
                 \o Each(u, Tail(Now(h).b), part), hand[h].mem)
  /\ UNCHANGED <<Relations, Chats, Helpers>>

SetIndex(h) ==
  /\ At(h, "index") /\ index' = hand[h].mem + 1
  /\ Proceed(h) /\ UNCHANGED <<Relations, Chats, codes>>

\* guestEnsureAutoFriends: whether the assistant, or customer service, is
\* there already.
HasHelp(h) ==
  /\ At(h, "helped")
  /\ IF Common(Now(h).a, Assistant) # {} THEN GiveUp(h) ELSE Proceed(h)
  /\ UNCHANGED <<Relations, Chats, Helpers>>

Served(u) == \E i \in DOMAIN Kefu : <<u, Kefu[i]>> \in friend

HasKefu(h) ==
  /\ At(h, "served")
  /\ IF Served(Now(h).a) THEN GiveUp(h) ELSE Proceed(h)
  /\ UNCHANGED <<Relations, Chats, Helpers>>

-----------------------------------------------------------------------------
(* Invite codes.                                                           *)

\* The friends of a code are bound one by one; an error concerns that friend
\* only, and a code that bound nobody is not counted as used.
Invite(h) ==
  /\ At(h, "invite")
  /\ LET u == Now(h).a  c == codes[Req(h).code] IN
       IF c.enabled
       THEN /\ Expand(h, Each(u, c.friends, "invite") \o <<St("used", u, u, "")>>, c.used)
            /\ agreed' = agreed \cup {{u, c.friends[i]} : i \in DOMAIN c.friends}
       ELSE Proceed(h) /\ UNCHANGED agreed
  /\ UNCHANGED <<friend, filed, black, Chats, Helpers>>

\* BindInviteCode: the code is a one-time code, which is consumed elsewhere, or
\* one that carries friends.
Valid(h) ==
  /\ At(h, "valid") /\ (Proceed(h) \/ Only(h, codes[Req(h).code].enabled))
  /\ UNCHANGED <<Relations, Chats, Helpers>>

CodeUsed(h) ==
  /\ At(h, "used")
  /\ \/ codes' = IF codes[Req(h).code].there
                 THEN [codes EXCEPT ![Req(h).code].used = hand[h].mem + 1] ELSE codes
     \/ faults > 0 /\ codes' = codes
  /\ Proceed(h) /\ UNCHANGED <<Relations, Chats, index>>

CodeCount(h) ==
  /\ At(h, "codeCount") /\ Only(h, Req(h).fs # <<>> /\ ~codes[Req(h).code].there)
  /\ UNCHANGED <<Relations, Chats, Helpers>>

\* A unique index keeps a second row of the code out.
WriteCode(h) ==
  /\ \/ At(h, "codeAdd") /\ codes' = [codes EXCEPT ![Req(h).code] =
           IF @.there THEN @ ELSE [there |-> TRUE, enabled |-> TRUE, friends |-> Req(h).fs, used |-> 0]]
     \/ At(h, "codeSet") /\ codes' = [codes EXCEPT ![Req(h).code] =
           IF @.there /\ Req(h).fs # <<>>
           THEN [@ EXCEPT !.enabled = Req(h).on, !.friends = Req(h).fs] ELSE @]
     \/ At(h, "codeDel") /\ codes' = [codes EXCEPT ![Req(h).code] = NoCode]
  /\ Proceed(h) /\ UNCHANGED <<Relations, Chats, index>>

-----------------------------------------------------------------------------
\* The database refuses a write.  kefuBind returns the error; everyone else
\* goes on without looking.
Refused(h) ==
  /\ \E s \in {"row", "creator", "other", "joins", "unrow", "text", "rowBlack", "index"} : At(h, s)
  /\ IF At(h, "row") /\ Now(h).part # "" THEN GiveUp(h) ELSE Proceed(h)
  /\ UNCHANGED <<Relations, Chats, Helpers>>

FriendChecks(h) ==
  Already(h) \/ Pending(h) \/ Find(h) \/ HasRow(h) \/ HasBlack(h) \/ FindConv(h)
  \/ HasHelp(h) \/ HasKefu(h) \/ Assign(h) \/ BindNext(h) \/ Invite(h) \/ CodeCount(h)
  \/ Valid(h) \/ MayInvite(h) \/ IsIn(h)

FriendWrites(h) ==
  File(h) \/ SetStatus(h) \/ AddRow(h) \/ DropRow(h) \/ SetBlack(h) \/ NewConv(h)
  \/ AddMember(h) \/ Joins(h) \/ SendText(h) \/ SetIndex(h) \/ CodeUsed(h) \/ WriteCode(h)

FriendsInit ==
  /\ setting \in Scenarios /\ new = setting.new
  /\ friend = {} /\ filed = <<>> /\ black = {} /\ convs = <<>> /\ said = <<>>
  /\ invited = {}
  /\ codes = [c \in Codes |-> NoCode]
  /\ index = 0
  /\ agreed = {} /\ asked = 0 /\ faults = 0
  /\ hand = [h \in Handlers |-> Idle]
  /\ barred = [h \in Handlers |-> {}]
=============================================================================
