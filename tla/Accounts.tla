------------------------------ MODULE Accounts ------------------------------
(***************************************************************************)
(* Accounts of im-server: registration, login, guests, one-time codes,     *)
(* invite codes, refresh tokens, the ban of an account and the login by QR *)
(* code.  Rows are in MySQL, everything short-lived is a key of Redis, and *)
(* nothing is done in a transaction.                                       *)
(*                                                                         *)
(* A request is the sequence of statements it still has to execute; one    *)
(* action executes one statement.  A key with a time to live may disappear *)
(* at any moment.  Log rows, last-login columns and pushed events are left *)
(* out; SMS codes and captchas are numbers that are drawn once.            *)
(***************************************************************************)
EXTENDS Integers, FiniteSets, Sequences

CONSTANTS
  Phones,         \* accounts that can register; the account is the user here
  Guests,         \* accounts genGuestAccount can draw
  Devices, Tickets,
  InviteCodes,    \* one-time codes of invite_code
  FriendCodes,    \* enabled codes of invite_friend_code
  LoginLimit,     \* attempts to log in to an account in a minute
  Scenarios,      \* settings of sys_config, what clients ask under them, and
                  \* how often they ask, how far the clock runs
  Handlers,
  MaxFaults, MaxDrawn \* bounds of an instance

People == Phones \cup Guests
NoOne  == "0"

\* What the handlers make of a body; a field nobody reads is left at "none".
Body(ops, whos) ==
  [op : ops, who : whos, pwd : STRING, new : Phones \cup STRING, code : Nat, cap : Nat,
   inv : InviteCodes \cup FriendCodes \cup {"none"}, tick : Tickets \cup {"none"}]

AccountBodies == Body({"register", "login", "sendCode"}, Phones)
GuestBodies   == Body({"guest"}, Devices)
OwnBodies     == Body({"logout", "delete", "changePwd", "bindInvite", "refresh"}, People)
PhoneBodies   == Body({"sendBind", "bindPhone"}, People)
AdminBodies   == Body({"disable", "enable", "resetPwd"}, People)
                 \cup Body({"adminCreate"}, Phones)
QrBodies      == Body({"qrCreate", "qrPoll"}, {NoOne}) \cup Body({"qrScan", "qrConfirm"}, People)
CaptchaBodies == Body({"captcha"}, {NoOne})

Request == AccountBodies \cup GuestBodies \cup OwnBodies \cup PhoneBodies
           \cup AdminBodies \cup QrBodies \cup CaptchaBodies

ASSUME AccountsAssumption ==
  /\ NoOne \notin People
  /\ \A s \in Scenarios :
       /\ \A r \in s.ask : r \in Request
       /\ s.captcha \in BOOLEAN /\ s.code \in BOOLEAN /\ s.invite \in BOOLEAN
       /\ s.captcha => s.code  \* needCaptcha
       /\ s.maxAsked \in Nat /\ s.maxTime \in Nat
  /\ LoginLimit \in Nat \ {0}
  /\ MaxFaults \in Nat /\ MaxDrawn \in Nat

VARIABLES
  setting, \* the scenario
  user,    \* rows of user
  invite,  \* who has used a one-time invite code
  redis,   \* the keys of Redis that exist: value, and has it a time to live
  given,   \* refresh tokens clients were given
  hand,    \* requests under way
  barred,  \* rules that have forbidden a request since it arrived (history)
  ended,   \* tickets whose key has disappeared once (history)
  spent,   \* captchas, codes and invite codes that were used (history)
  now, drawn, asked, faults

vars == <<setting, user, invite, redis, given, hand, barred, ended, spent, now, drawn, asked, faults>>

NoUser == [status |-> "none", pwd |-> "none", phone |-> "none", device |-> "none", short |-> 0]
Idle   == [todo |-> <<>>]

-----------------------------------------------------------------------------
(* Redis.                                                                  *)

Key(kind, of) == <<kind, of>>
Has(k) == k \in DOMAIN redis
Put(k, v, ttl) ==
  redis' = [x \in DOMAIN redis \cup {k} |->
              IF x = k THEN [val |-> v, ttl |-> ttl] ELSE redis[x]]
Without(k) == [x \in DOMAIN redis \ {k} |-> redis[x]]
Del(k) == redis' = Without(k)
Expire(k) == redis' = IF Has(k) THEN [redis EXCEPT ![k].ttl = TRUE] ELSE redis

EndTicket(k) == ended' = IF k[1] = "ticket" /\ Has(k) THEN ended \cup {k[2]} ELSE ended

-----------------------------------------------------------------------------
(* Requests and their statements.                                          *)

Elems(s) == {s[i] : i \in 1..Len(s)}

If(needed, statements) == IF needed THEN statements ELSE <<>>

CaptchaCheck == If(setting.captcha, <<"captcha", "dropCaptcha">>)
Session == <<"token", "keep">>
Sent == CaptchaCheck \o <<"incr", "expire", "send", "store">>

Statements(op) ==
  CASE op = "register"   -> CaptchaCheck \o If(setting.invite, <<"invite", "markInvite">>)
                            \o If(setting.code, <<"code", "dropCode">>)
                            \o <<"count", "short", "create">> \o Session
    [] op = "login"      -> <<"incr", "expire", "password">> \o Session
    [] op = "guest"      -> <<"device", "short", "create">> \o Session
    [] op = "refresh"    -> <<"stored", "status", "renew">>
    [] op = "logout"     -> <<"auth", "dropToken">>
    [] op = "delete"     -> <<"auth", "ban", "dropToken">>
    [] op = "disable"    -> <<"ban", "dropToken">>
    [] op = "enable"     -> <<"unban">>
    [] op = "changePwd"  -> <<"auth", "password", "setPwd">>
    [] op = "resetPwd"   -> <<"setPwd">>
    [] op = "bindInvite" -> <<"auth", "invite", "markInvite">>
    [] op = "sendCode"   -> Sent
    [] op = "sendBind"   -> <<"auth">> \o Sent
    [] op = "bindPhone"  -> <<"auth", "code", "dropCode", "phone", "bind">>
    [] op = "adminCreate" -> <<"count", "create">>
    [] op = "captcha"    -> <<"newCaptcha">>
    [] op = "qrCreate"   -> <<"ticket", "ttl">>
    [] op = "qrScan"     -> <<"auth", "look", "scan">>
    [] op = "qrConfirm"  -> <<"auth", "look", "confirm", "ttl">>
    [] op = "qrPoll"     -> <<"poll">> \o Session \o <<"dropTicket">>

At(h, s) == hand[h].todo # <<>> /\ Head(hand[h].todo) = s
Req(h)   == hand[h].req
Op(h)    == Req(h).op
Who(h)   == hand[h].who    \* the user the request has found to act on

Done(h) == hand' = [hand EXCEPT ![h] = Idle]

\* The next statement, with what this one has read.
Go(h, who, num) ==
  LET b == hand[h] IN
    hand' = [hand EXCEPT ![h] =
               IF Len(b.todo) = 1 THEN Idle
               ELSE [b EXCEPT !.todo = Tail(b.todo), !.who = who, !.num = num]]
Proceed(h) == Go(h, Who(h), hand[h].num)
Only(h, may) == IF may THEN Proceed(h) ELSE Done(h)

Rows == <<user, invite>>
Rest == <<given, ended, drawn, faults>>

Spend(what) == spent' = spent \cup {what}

\* A request arrives.  A client renews its session with a token it was given;
\* only QrCreateTicket makes tickets known, and each under a number of its own.
Ask(h, r) ==
  /\ hand[h] = Idle /\ asked < setting.maxAsked /\ asked' = asked + 1
  /\ "auth" \in Elems(Statements(r.op)) => \E g \in given : g.who = r.who
  /\ r.op \in {"enable", "disable", "resetPwd"} => user[r.who].status # "none"
  /\ LET known == Has(Key("ticket", r.tick)) \/ r.tick \in ended IN
       /\ r.op \in {"qrScan", "qrConfirm", "qrPoll"} => known
       /\ r.op = "qrCreate" =>
            ~known /\ \A g \in Handlers : hand[g] # Idle => Op(g) # "qrCreate"
  /\ \E t \in IF r.op = "refresh" THEN {g \in given : g.who = r.who} ELSE {[at |-> 0]} :
       hand' = [hand EXCEPT ![h] = [todo |-> Statements(r.op), req |-> r, who |-> r.who,
                                    num |-> t.at, unchecked |-> FALSE]]
  /\ UNCHANGED <<setting, user, invite, redis, given, ended, spent, now, drawn, faults>>

\* Auth lets a request through when the status cannot be read.
Auth(h) ==
  /\ At(h, "auth")
  /\ \/ Only(h, user[Who(h)].status = "normal") /\ UNCHANGED faults
     \/ /\ faults < MaxFaults /\ faults' = faults + 1
        /\ hand' = [hand EXCEPT ![h].todo = Tail(@), ![h].unchecked = TRUE]
  /\ UNCHANGED <<Rows, redis, given, ended, spent, drawn>>

-----------------------------------------------------------------------------
(* Captchas, rate limits and one-time codes.                               *)

Captcha(h) ==
  /\ At(h, "newCaptcha") /\ drawn < MaxDrawn /\ drawn' = drawn + 1
  /\ Put(Key("captcha", drawn + 1), 0, TRUE)
  /\ Done(h) /\ UNCHANGED <<Rows, given, ended, spent, faults>>

VerifyCaptcha(h) ==
  /\ At(h, "captcha")
  /\ Only(h, Has(Key("captcha", Req(h).cap)))
  /\ UNCHANGED <<Rows, redis, spent, Rest>>

DropCaptcha(h) ==
  /\ At(h, "dropCaptcha")
  /\ Del(Key("captcha", Req(h).cap)) /\ Spend(<<"captcha", Req(h).cap>>)
  /\ Proceed(h)
  /\ UNCHANGED <<Rows, Rest>>

\* What is counted, and how often it may happen in a window.
Limit(op) == IF op = "login" THEN LoginLimit ELSE 1
CodeKind(r) == IF r.op \in {"sendBind", "bindPhone"} THEN "bindphone" ELSE "sms"
Number(r)   == IF CodeKind(r) = "bindphone" THEN r.new ELSE r.who
CodeKey(r)  == Key(CodeKind(r), Number(r))
RateKey(r)  == Key(r.op, Number(r))
Count(k)    == IF Has(k) THEN redis[k].val ELSE 0

Incr(h) ==
  /\ At(h, "incr")
  /\ LET k == RateKey(Req(h)) IN
       /\ Put(k, Count(k) + 1, Has(k) /\ redis[k].ttl)
       /\ Go(h, Who(h), Count(k) + 1)
  /\ UNCHANGED <<Rows, spent, Rest>>

\* Fault: the window is given its end by the first call beyond the limit only.
OpensWindowLate(n, op) == n = Limit(op) + 1

OpensWindow(n, op) == n = 1

\* The first call of a window sets its end; an error of Expire is ignored.
RateLimit(h) ==
  /\ At(h, "expire")
  /\ \/ /\ IF OpensWindow(hand[h].num, Op(h)) THEN Expire(RateKey(Req(h))) ELSE UNCHANGED redis
        /\ UNCHANGED faults
     \/ /\ OpensWindow(hand[h].num, Op(h)) /\ UNCHANGED redis
        /\ faults < MaxFaults /\ faults' = faults + 1
  /\ Only(h, hand[h].num <= Limit(Op(h)))
  /\ UNCHANGED <<Rows, given, ended, spent, drawn>>

\* The SMS service may refuse.
SendCode(h) ==
  /\ At(h, "send")
  /\ Proceed(h) \/ Done(h)
  /\ UNCHANGED <<Rows, redis, spent, Rest>>

StoreCode(h) ==
  /\ At(h, "store") /\ drawn < MaxDrawn /\ drawn' = drawn + 1
  /\ Put(CodeKey(Req(h)), drawn + 1, TRUE)
  /\ Proceed(h) /\ UNCHANGED <<Rows, given, ended, spent, faults>>

Stored(k, v) == Has(k) /\ redis[k].val = v

VerifyCode(h) ==
  /\ At(h, "code")
  /\ Only(h, Stored(CodeKey(Req(h)), Req(h).code))
  /\ UNCHANGED <<Rows, redis, spent, Rest>>

\* Fault: a code that was accepted is good until it expires.
SpentNever(k) == UNCHANGED redis

Spent(k) == Del(k)

DropCode(h) ==
  /\ At(h, "dropCode")
  /\ Spent(CodeKey(Req(h))) /\ Spend(<<"code", Req(h).code>>)
  /\ Proceed(h)
  /\ UNCHANGED <<Rows, Rest>>

-----------------------------------------------------------------------------
(* Invite codes.                                                           *)

Unused(c) == c \in InviteCodes /\ invite[c] = NoOne

\* consumeInviteCode reads the row; the other kind of code is tried after it.
Invite(h) ==
  /\ At(h, "invite")
  /\ LET b == hand[h]
         c == Req(h).inv IN
       IF ~Unused(c) /\ c \in FriendCodes
       THEN hand' = [hand EXCEPT ![h] = IF Len(b.todo) = 2 THEN Idle
                                        ELSE [b EXCEPT !.todo = Tail(Tail(b.todo))]]
       ELSE Only(h, Unused(c))
  /\ UNCHANGED <<Rows, redis, spent, Rest>>

\* used_by is a number and is given the account: a phone number fits, the
\* account of a guest does not, and the update fails.
MarkInvite(h) ==
  /\ At(h, "markInvite")
  /\ LET c == Req(h).inv IN
       IF Who(h) \in Phones
       THEN /\ invite' = [invite EXCEPT ![c] = Who(h)]
            /\ Spend(<<"invite", c>>) /\ Proceed(h)
       ELSE UNCHANGED <<invite, spent>> /\ Only(h, c \in FriendCodes)
  /\ UNCHANGED <<user, redis, Rest>>

-----------------------------------------------------------------------------
(* Rows of user.                                                           *)

CountAccount(h) ==
  /\ At(h, "count")
  /\ Only(h, user[Who(h)].status = "none")
  /\ UNCHANGED <<Rows, redis, spent, Rest>>

\* GuestRegister: a guest of the device, or an account that is free.
OfDevice(d) == {g \in Guests : user[g].device = d}

FindDevice(h) ==
  /\ At(h, "device")
  /\ IF OfDevice(Req(h).who) # {}
     THEN \E g \in OfDevice(Req(h).who) :
            hand' = [hand EXCEPT ![h].todo = Session, ![h].who = g]
     ELSE \E g \in {g \in Guests : user[g].status = "none"} : Go(h, g, 0)
  /\ UNCHANGED <<Rows, redis, spent, Rest>>

\* genShortID: the least number that no user has.
Free(n) == \A u \in People : user[u].short # n
FreeShort == CHOOSE n \in 1..(Cardinality(People) + 1) :
               Free(n) /\ \A m \in 1..(n - 1) : ~Free(m)

GenShort(h) ==
  /\ At(h, "short") /\ Go(h, Who(h), FreeShort)
  /\ UNCHANGED <<Rows, redis, spent, Rest>>

Taken(n) == n # 0 /\ ~Free(n)

\* Account and short id have unique indexes; a violation ends the request.
Create(h) ==
  /\ At(h, "create")
  /\ IF user[Who(h)].status # "none" \/ Taken(hand[h].num)
     THEN Done(h) /\ UNCHANGED user
     ELSE /\ user' = [user EXCEPT ![Who(h)] =
               [status |-> "normal", short |-> hand[h].num, pwd |-> Req(h).pwd,
                phone  |-> IF Op(h) = "register" THEN Who(h) ELSE "none",
                device |-> IF Op(h) = "guest" THEN Req(h).who ELSE "none"]]
          /\ Proceed(h)
  /\ UNCHANGED <<invite, redis, spent, Rest>>

\* Login also looks at the status in the row, ChangePassword leaves that to Auth.
Password(h) ==
  /\ At(h, "password")
  /\ Only(h, /\ user[Who(h)].pwd = Req(h).pwd
             /\ Op(h) = "login" => user[Who(h)].status = "normal")
  /\ UNCHANGED <<Rows, redis, spent, Rest>>

\* One column of a row of user.
Update(h, s, row) ==
  /\ At(h, s)
  /\ user' = [user EXCEPT ![Who(h)] = row]
  /\ Proceed(h) /\ UNCHANGED <<invite, redis, spent, Rest>>

SetPassword(h) == Update(h, "setPwd", [user[Who(h)] EXCEPT !.pwd = Req(h).new])
Ban(h)         == Update(h, "ban", [user[Who(h)] EXCEPT !.status = "disabled"])
Unban(h)       == Update(h, "unban", [user[Who(h)] EXCEPT !.status = "normal"])
Bind(h)        == Update(h, "bind", [user[Who(h)] EXCEPT !.phone = Req(h).new])

OtherHas(h) == \E u \in People \ {Who(h)} : user[u].phone = Req(h).new

CountPhone(h) ==
  /\ At(h, "phone") /\ Only(h, ~OtherHas(h))
  /\ UNCHANGED <<Rows, redis, spent, Rest>>

-----------------------------------------------------------------------------
(* issueTokens, Refresh, Logout.  A token is its user and the second it     *)
(* was signed in; Redis keeps one refresh token of a user.                  *)

RefreshKey(u) == Key("refresh", u)

Token(h) ==
  /\ At(h, "token") /\ Go(h, Who(h), now)
  /\ UNCHANGED <<Rows, redis, spent, Rest>>

Keep(h) ==
  /\ At(h, "keep")
  /\ Put(RefreshKey(Who(h)), hand[h].num, TRUE)
  /\ given' = given \cup {[who |-> Who(h), at |-> hand[h].num]}
  /\ Proceed(h) /\ UNCHANGED <<Rows, ended, spent, drawn, faults>>

DropToken(h) ==
  /\ At(h, "dropToken") /\ Del(RefreshKey(Who(h)))
  /\ Proceed(h) /\ UNCHANGED <<Rows, spent, Rest>>

RefreshStored(h) ==
  /\ At(h, "stored") /\ Only(h, Stored(RefreshKey(Who(h)), hand[h].num))
  /\ UNCHANGED <<Rows, redis, spent, Rest>>

Stands(u) == user[u].status = "normal"

RefreshStatus(h) ==
  /\ At(h, "status") /\ Only(h, Stands(Who(h)))
  /\ UNCHANGED <<Rows, redis, spent, Rest>>

\* The new access token is the answer.
Renew(h) == At(h, "renew") /\ Done(h) /\ UNCHANGED <<Rows, redis, spent, Rest>>

-----------------------------------------------------------------------------
(* The ticket of a QR code: a hash whose fields are written apart.         *)

TicketKey(h) == Key("ticket", Req(h).tick)
Ticket(h)    == redis[TicketKey(h)].val

CreateTicket(h) ==
  /\ At(h, "ticket")
  /\ Put(TicketKey(h), [secret |-> TRUE, status |-> "pending", uid |-> NoOne], FALSE)
  /\ Proceed(h) /\ UNCHANGED <<Rows, spent, Rest>>

TicketTTL(h) ==
  /\ At(h, "ttl") /\ Expire(TicketKey(h))
  /\ Proceed(h) /\ UNCHANGED <<Rows, spent, Rest>>

\* A scan that comes late is answered like one in time, and does nothing.
Awaited(op) == IF op = "qrScan" THEN {"pending"} ELSE {"pending", "scanned"}

LookAt(h) ==
  /\ At(h, "look")
  /\ Only(h, /\ Has(TicketKey(h))
             /\ Ticket(h).status \in Awaited(Op(h)))
  /\ UNCHANGED <<Rows, redis, spent, Rest>>

\* HSet of a key that is gone makes a hash without a secret and without an end.
Mark(h, s, status) ==
  /\ At(h, s)
  /\ LET k == TicketKey(h) IN
       Put(k, [secret |-> Has(k) /\ Ticket(h).secret, status |-> status, uid |-> Who(h)],
           Has(k) /\ redis[k].ttl)
  /\ Proceed(h) /\ UNCHANGED <<Rows, spent, Rest>>

Scan(h)    == Mark(h, "scan", "scanned")
Confirm(h) == Mark(h, "confirm", "confirmed")

Takable(t) == t.secret /\ t.status = "confirmed"

Poll(h) ==
  /\ At(h, "poll")
  /\ IF Has(TicketKey(h)) /\ Takable(Ticket(h)) THEN Go(h, Ticket(h).uid, 0) ELSE Done(h)
  /\ UNCHANGED <<Rows, redis, spent, Rest>>

DropTicket(h) ==
  /\ At(h, "dropTicket") /\ Del(TicketKey(h)) /\ EndTicket(TicketKey(h))
  /\ Proceed(h) /\ UNCHANGED <<Rows, given, spent, drawn, faults>>

-----------------------------------------------------------------------------
(* The checks of a request that the state does not satisfy, named after    *)
(* the statements that make them.                                          *)

Unmet(h) ==
  LET r == Req(h)
      unmet(s) ==
        CASE s = "captcha"  -> ~Has(Key(s, r.cap)) \/ <<s, r.cap>> \in spent
          [] s = "code"     -> ~Stored(CodeKey(r), r.code) \/ <<s, r.code>> \in spent
          [] s = "invite"   -> ~(r.inv \in FriendCodes
                                 \/ (Unused(r.inv) /\ <<s, r.inv>> \notin spent))
          [] s = "expire"   -> Count(RateKey(r)) >= Limit(r.op)
          [] s = "count"    -> user[Who(h)].status # "none"
          [] s = "device"   -> OfDevice(r.who) # {} /\ Who(h) \notin OfDevice(r.who)
          [] s = "auth"     -> user[Who(h)].status # "normal" /\ ~hand[h].unchecked
          [] s = "password" -> user[Who(h)].pwd # r.pwd
                               \/ (r.op = "login" /\ user[Who(h)].status # "normal")
          [] s = "phone"    -> OtherHas(h)
          [] s = "stored"   -> ~Stored(RefreshKey(Who(h)), hand[h].num)
          [] s = "status"   -> user[Who(h)].status # "normal"
          [] s = "look"     -> ~Has(TicketKey(h))
                               \/ Ticket(h).status = "confirmed"
                               \/ (r.op = "qrScan" /\ Ticket(h).status = "scanned")
          [] s = "poll"     -> r.tick \in ended \/ ~Has(TicketKey(h))
                               \/ Ticket(h).status # "confirmed"
          [] OTHER -> FALSE
  IN  {s \in Elems(Statements(r.op)) : unmet(s)}

NoteBarred ==
  barred' = [h \in Handlers |->
    IF hand'[h] = Idle THEN {}
    ELSE IF hand[h] = Idle THEN Unmet(h)' ELSE barred[h] \cap Unmet(h)']

-----------------------------------------------------------------------------
Init ==
  /\ setting \in Scenarios
  /\ user = [u \in People |-> NoUser]
  /\ invite = [c \in InviteCodes |-> NoOne]
  /\ redis = [k \in {} |-> 0]
  /\ given = {}
  /\ hand = [h \in Handlers |-> Idle]
  /\ barred = [h \in Handlers |-> {}]
  /\ ended = {} /\ spent = {}
  /\ now = 0 /\ drawn = 0 /\ asked = 0 /\ faults = 0

Checks(h) ==
  \/ Auth(h) \/ VerifyCaptcha(h) \/ VerifyCode(h) \/ RateLimit(h) \/ Invite(h)
  \/ CountAccount(h) \/ FindDevice(h) \/ Password(h) \/ CountPhone(h)
  \/ RefreshStored(h) \/ RefreshStatus(h) \/ LookAt(h) \/ Poll(h)

Writes(h) ==
  \/ Captcha(h) \/ DropCaptcha(h) \/ Incr(h) \/ StoreCode(h) \/ DropCode(h)
  \/ MarkInvite(h) \/ Create(h) \/ SetPassword(h) \/ Ban(h) \/ Unban(h) \/ Bind(h)
  \/ Keep(h) \/ DropToken(h) \/ CreateTicket(h) \/ TicketTTL(h) \/ Scan(h)
  \/ Confirm(h) \/ DropTicket(h)

Computes(h) == SendCode(h) \/ GenShort(h) \/ Token(h) \/ Renew(h)

Serve(h) == (Checks(h) \/ Writes(h) \/ Computes(h)) /\ UNCHANGED <<setting, now, asked>>
            /\ NoteBarred

\* The api process dies with the requests it is serving.
Crash ==
  /\ faults < MaxFaults /\ faults' = faults + 1
  /\ \E h \in Handlers : hand[h] # Idle
  /\ hand' = [h \in Handlers |-> Idle]
  /\ UNCHANGED <<setting, user, invite, redis, given, ended, spent, now, drawn, asked>>

Tick ==
  /\ now < setting.maxTime /\ now' = now + 1
  /\ UNCHANGED <<setting, user, invite, redis, given, hand, ended, spent, drawn, asked, faults>>

\* The time to live of a key ends.
Vanish(k) ==
  /\ Has(k) /\ redis[k].ttl
  /\ Del(k) /\ EndTicket(k)
  /\ UNCHANGED <<setting, user, invite, given, hand, spent, now, drawn, asked, faults>>

VanishNoted(k) == Vanish(k) /\ NoteBarred

RateKeys == {RateKey(r) : r \in {r \in UNION {s.ask : s \in Scenarios} :
                                    r.op \in {"login", "sendCode", "sendBind"}}}

Next ==
  \/ \E h \in Handlers, r \in setting.ask : Ask(h, r) /\ NoteBarred
  \/ \E h \in Handlers : Serve(h)
  \/ \E k \in DOMAIN redis : VanishNoted(k)
  \/ (Crash \/ Tick) /\ NoteBarred

\* A call that was counted is looked at, and times to live end; nothing else
\* has to go on.
SetWindow(h) == RateLimit(h) /\ UNCHANGED <<setting, now, asked>> /\ NoteBarred
Fairness ==
  /\ \A h \in Handlers : WF_vars(SetWindow(h))
  /\ \A k \in RateKeys : WF_vars(VanishNoted(k))

Spec == Init /\ [][Next]_vars /\ Fairness
=============================================================================
