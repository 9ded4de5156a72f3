--------------------------- MODULE AccountsProofs ---------------------------
(***************************************************************************)
(* Theorems about the accounts, for any users, devices, codes, tickets,    *)
(* settings and requests.                                                  *)
(***************************************************************************)
EXTENDS AccountsProps, TLAPS

-----------------------------------------------------------------------------
(* The order of the statements of a request.                               *)

Words ==
  {"captcha", "dropCaptcha", "token", "keep", "incr", "expire", "send", "store", "invite",
   "markInvite", "code", "dropCode", "count", "short", "create", "password", "device", "stored",
   "status", "renew", "auth", "dropToken", "ban", "unban", "setPwd", "phone", "bind",
   "newCaptcha", "ticket", "ttl", "look", "scan", "confirm", "poll", "dropTicket"}

\* The only statement that comes before a given one.
Leader == [s \in {"dropCaptcha", "dropCode", "expire", "keep"} |->
             CASE s = "dropCaptcha" -> "captcha" [] s = "dropCode" -> "code"
               [] s = "expire" -> "incr" [] s = "keep" -> "token"]
Opening == {"ticket", "device", "poll", "auth"}

Follows(s, t) == /\ t \notin Opening
                 /\ t \in DOMAIN Leader => s = Leader[t]
                 /\ s = "invite" => t = "markInvite"

Linked(list) ==
  /\ \A n \in 2..Len(list) : Follows(list[n - 1], list[n])
  /\ list # <<>> => list[Len(list)] # "invite"

\* A list that can stand behind another one.
Joins(list) ==
  /\ list \in Seq(Words) /\ Linked(list)
  /\ list # <<>> => list[1] \notin Opening \cup DOMAIN Leader

\* Which requests execute a statement.
Placed(op, s) ==
  /\ s = "ticket" => op = "qrCreate"
  /\ s \in {"scan", "confirm"} => op \in {"qrScan", "qrConfirm"}
  /\ s = "incr" => op \in {"login", "sendCode", "sendBind"}
  /\ s = "keep" => op \in {"register", "login", "guest", "qrPoll"}
  /\ s = "device" => op = "guest"
  /\ op = "guest" => s \in {"device", "short", "create", "token", "keep"}

LEMMA LinkedConcat ==
  ASSUME NEW a \in Seq(Words), Linked(a), NEW b, Joins(b)
  PROVE  a \o b \in Seq(Words) /\ Linked(a \o b)
<1> DEFINE c == a \o b
<1>1. /\ b \in Seq(Words) /\ c \in Seq(Words) /\ Len(c) = Len(a) + Len(b)
      /\ Len(a) \in Nat /\ Len(b) \in Nat
      /\ a # <<>> => Len(a) > 0
      /\ \A n \in 1..Len(a) : c[n] = a[n]
      /\ \A n \in 1..Len(b) : c[Len(a) + n] = b[n]
  BY DEF Joins
<1>2. \A n \in 1..Len(c) : n > Len(a) => c[n] = b[n - Len(a)] /\ n - Len(a) \in 1..Len(b)
  BY <1>1
<1> HIDE DEF c
<1>3. ASSUME NEW n \in 2..Len(c)
      PROVE  Follows(c[n - 1], c[n])
  <2>1. CASE n <= Len(a)
    <3>1. n \in 2..Len(a) /\ c[n] = a[n] /\ c[n - 1] = a[n - 1]
      BY <1>1, <2>1
    <3> QED BY <3>1 DEF Linked
  <2>2. CASE n = Len(a) + 1
    <3>1. /\ c[n] = b[1] /\ b # <<>> /\ c[n - 1] = a[Len(a)] /\ a # <<>>
      BY <1>1, <1>2, <2>2
    <3> QED BY <3>1 DEF Linked, Joins, Follows
  <2>3. CASE n > Len(a) + 1
    <3>0. /\ n \in 1..Len(c) /\ n - 1 \in 1..Len(c) /\ n - 1 > Len(a)
          /\ (n - 1) - Len(a) = (n - Len(a)) - 1
      BY <1>1, <2>3
    <3>1. /\ c[n] = b[n - Len(a)] /\ c[n - 1] = b[(n - Len(a)) - 1] /\ n - Len(a) \in 2..Len(b)
      BY <1>1, <1>2, <2>3, <3>0
    <3> QED BY <3>1 DEF Linked, Joins
  <2> QED BY <1>1, <2>1, <2>2, <2>3
<1>4. ASSUME c # <<>> PROVE c[Len(c)] # "invite"
  <2>1. CASE b = <<>>
    BY <1>1, <1>4, <2>1 DEF Linked
  <2>2. CASE b # <<>>
    <3>1. c[Len(c)] = b[Len(b)]
      BY <1>1, <2>2
    <3> QED BY <3>1, <2>2 DEF Joins, Linked
  <2> QED BY <2>1, <2>2
<1> QED BY <1>1, <1>3, <1>4 DEF Linked, c

LEMMA JoinsConcat ==
  ASSUME NEW a, Joins(a), NEW b, Joins(b)
  PROVE  Joins(a \o b)
<1>1. a \o b \in Seq(Words) /\ Linked(a \o b)
  BY LinkedConcat DEF Joins
<1>2. a \in Seq(Words) /\ b \in Seq(Words)
  BY DEF Joins
<1>3. a # <<>> => (a \o b)[1] = a[1]
  BY <1>2
<1>4. a = <<>> => a \o b = b
  BY <1>2
<1> QED BY <1>1, <1>3, <1>4 DEF Joins

LEMMA ElemsConcat ==
  ASSUME NEW a \in Seq(Words), NEW b \in Seq(Words)
  PROVE  Elems(a \o b) = Elems(a) \cup Elems(b)
<1> DEFINE c == a \o b
<1>1. /\ Len(c) = Len(a) + Len(b) /\ Len(a) \in Nat /\ Len(b) \in Nat
      /\ \A n \in 1..Len(a) : c[n] = a[n]
      /\ \A n \in 1..Len(b) : c[Len(a) + n] = b[n]
  OBVIOUS
<1>2. \A n \in 1..Len(c) : n > Len(a) => c[n] = b[n - Len(a)] /\ n - Len(a) \in 1..Len(b)
  BY <1>1
<1> HIDE DEF c
<1>3. Elems(c) \subseteq Elems(a) \cup Elems(b)
  BY <1>1, <1>2 DEF Elems
<1>4. Elems(a) \subseteq Elems(c)
  BY <1>1 DEF Elems
<1>5. Elems(b) \subseteq Elems(c)
  <2>1. \A n \in 1..Len(b) : Len(a) + n \in 1..Len(c)
    BY <1>1
  <2> QED BY <1>1, <2>1 DEF Elems
<1> QED BY <1>3, <1>4, <1>5 DEF c

\* What remains of a list of statements.
LEMMA LinkedTail ==
  ASSUME NEW a \in Seq(Words), Linked(a), a # <<>>, Tail(a) # <<>>
  PROVE  /\ Tail(a) \in Seq(Words) /\ Linked(Tail(a))
         /\ Head(a) = a[1] /\ Head(Tail(a)) = a[2] /\ 2 \in 2..Len(a)
         /\ Elems(a) = {Head(a)} \cup Elems(Tail(a))
<1> DEFINE c == Tail(a)
<1>1. /\ c \in Seq(Words) /\ Len(c) = Len(a) - 1 /\ Len(a) \in Nat /\ Len(a) > 1
      /\ \A n \in 1..Len(c) : c[n] = a[n + 1] /\ n + 1 \in 2..Len(a)
      /\ Head(a) = a[1] /\ Head(c) = c[1]
  OBVIOUS
<1>2. \A n \in 2..Len(a) : a[n] = c[n - 1] /\ n - 1 \in 1..Len(c)
  BY <1>1
<1> HIDE DEF c
<1>3. ASSUME NEW n \in 2..Len(c)
      PROVE  Follows(c[n - 1], c[n])
  <2>1. c[n] = a[n + 1] /\ c[n - 1] = a[(n + 1) - 1] /\ n + 1 \in 2..Len(a)
    BY <1>1
  <2> QED BY <2>1 DEF Linked
<1>4. c[Len(c)] # "invite"
  BY <1>1 DEF Linked
<1>5. Elems(a) \subseteq {Head(a)} \cup Elems(c)
  <2>1. \A n \in 1..Len(a) : n = 1 \/ n \in 2..Len(a)
    BY <1>1
  <2> QED BY <1>1, <1>2, <2>1 DEF Elems
<1>6. Elems(c) \subseteq Elems(a) /\ Head(a) \in Elems(a)
  BY <1>1 DEF Elems
<1> QED BY <1>1, <1>3, <1>4, <1>5, <1>6 DEF Linked, c

\* Lists that are written out.
LEMMA List1 ==
  ASSUME NEW l, Len(l) = 1, l[1] # "invite"
  PROVE  Linked(l) /\ Elems(l) = {l[1]}
<1>1. 2..Len(l) = {}
  OBVIOUS
<1>2. \A n \in 1..Len(l) : n = 1
  OBVIOUS
<1>3. \A n \in 1..1 : n \in 1..Len(l)
  OBVIOUS
<1>4. Linked(l)
  BY <1>1 DEF Linked
<1>5. Elems(l) = {l[1]}
  BY <1>2, <1>3 DEF Elems
<1> QED BY <1>4, <1>5

LEMMA List2 ==
  ASSUME NEW l, Len(l) = 2, Follows(l[1], l[2]), l[2] # "invite"
  PROVE  Linked(l) /\ Elems(l) = {l[1], l[2]}
<1>1. \A n \in 2..Len(l) : n = 2
  OBVIOUS
<1>2. \A n \in 1..Len(l) : n = 1 \/ n = 2
  OBVIOUS
<1>3. \A n \in 1..2 : n \in 1..Len(l)
  OBVIOUS
<1>4. Linked(l)
  BY <1>1 DEF Linked
<1>5. Elems(l) = {l[1], l[2]}
  BY <1>2, <1>3 DEF Elems
<1> QED BY <1>4, <1>5

LEMMA List3 ==
  ASSUME NEW l, Len(l) = 3, Follows(l[1], l[2]), Follows(l[2], l[3]), l[3] # "invite"
  PROVE  Linked(l) /\ Elems(l) = {l[1], l[2], l[3]}
<1>1. \A n \in 2..Len(l) : n = 2 \/ n = 3
  OBVIOUS
<1>2. \A n \in 1..Len(l) : n = 1 \/ n = 2 \/ n = 3
  OBVIOUS
<1>3. \A n \in 1..3 : n \in 1..Len(l)
  OBVIOUS
<1>4. Linked(l)
  BY <1>1 DEF Linked
<1>5. Elems(l) = {l[1], l[2], l[3]}
  BY <1>2, <1>3 DEF Elems
<1> QED BY <1>4, <1>5

LEMMA List4 ==
  ASSUME NEW l, Len(l) = 4, Follows(l[1], l[2]), Follows(l[2], l[3]), Follows(l[3], l[4]), l[4] # "invite"
  PROVE  Linked(l) /\ Elems(l) = {l[1], l[2], l[3], l[4]}
<1>1. \A n \in 2..Len(l) : n = 2 \/ n = 3 \/ n = 4
  OBVIOUS
<1>2. \A n \in 1..Len(l) : n = 1 \/ n = 2 \/ n = 3 \/ n = 4
  OBVIOUS
<1>3. \A n \in 1..4 : n \in 1..Len(l)
  OBVIOUS
<1>4. Linked(l)
  BY <1>1 DEF Linked
<1>5. Elems(l) = {l[1], l[2], l[3], l[4]}
  BY <1>2, <1>3 DEF Elems
<1> QED BY <1>4, <1>5

LEMMA List5 ==
  ASSUME NEW l, Len(l) = 5, Follows(l[1], l[2]), Follows(l[2], l[3]), Follows(l[3], l[4]), Follows(l[4], l[5]), l[5] # "invite"
  PROVE  Linked(l) /\ Elems(l) = {l[1], l[2], l[3], l[4], l[5]}
<1>1. \A n \in 2..Len(l) : n = 2 \/ n = 3 \/ n = 4 \/ n = 5
  OBVIOUS
<1>2. \A n \in 1..Len(l) : n = 1 \/ n = 2 \/ n = 3 \/ n = 4 \/ n = 5
  OBVIOUS
<1>3. \A n \in 1..5 : n \in 1..Len(l)
  OBVIOUS
<1>4. Linked(l)
  BY <1>1 DEF Linked
<1>5. Elems(l) = {l[1], l[2], l[3], l[4], l[5]}
  BY <1>2, <1>3 DEF Elems
<1> QED BY <1>4, <1>5

-----------------------------------------------------------------------------
(* The lists of the operations.                                            *)

\* Statements that anything may contain.
Joint(list) == Joins(list) /\ Elems(list) \cap {"ticket", "scan", "confirm", "incr", "keep", "device"} = {}

Named == {"keep", "scan", "confirm"}
Finders == {"device", "poll"}   \* the statements that find whom a request acts on

\* What may remain of an operation's list.
Ready(op, list) ==
  /\ list \in Seq(Words) /\ list # <<>> /\ Linked(list)
  /\ \A s \in Elems(list) : Placed(op, s)
  /\ list[1] = "auth" => Len(list) > 1

LEMMA JointConcat ==
  ASSUME NEW a, Joint(a), NEW b, Joint(b)
  PROVE  Joint(a \o b)
<1>1. Joins(a \o b)
  BY JoinsConcat DEF Joint
<1>2. Elems(a \o b) = Elems(a) \cup Elems(b)
  BY ElemsConcat DEF Joint, Joins
<1> QED BY <1>1, <1>2 DEF Joint

LEMMA SessionList ==
  /\ Joins(Session) /\ Elems(Session) = {"token", "keep"} /\ Session # <<>>
  /\ Session[1] = "token" /\ Len(Session) = 2 /\ Session \in Seq(Words) /\ Linked(Session)
<1> DEFINE l == <<"token", "keep">>
<1>3. Session = l
  BY DEF Session
<1>1. /\ l \in Seq(Words) /\ Len(l) = 2 /\ l # <<>>
      /\ l[1] = "token" /\ l[2] = "keep"
  <2>1. l \in Seq(Words)
    BY DEF Words
  <2> QED BY <2>1
<1> HIDE DEF l
<1>2. Linked(l) /\ Elems(l) = {"token", "keep"}
  <2>1. Follows(l[1], l[2])
    BY <1>1 DEF Follows, Opening, Leader
  <2>2. Linked(l) /\ Elems(l) = {l[1], l[2]}
    BY <1>1, <2>1, List2
  <2> QED BY <1>1, <2>2
<1> QED BY <1>1, <1>2, <1>3 DEF Joins, Opening, Leader

LEMMA CaptchaPiece == Joint(<<"captcha", "dropCaptcha">>)
<1> DEFINE l == <<"captcha", "dropCaptcha">>
<1>1. /\ l \in Seq(Words) /\ Len(l) = 2 /\ l # <<>>
      /\ l[1] = "captcha" /\ l[2] = "dropCaptcha"
  <2>1. l \in Seq(Words)
    BY DEF Words
  <2> QED BY <2>1
<1> HIDE DEF l
<1>2. Linked(l) /\ Elems(l) = {"captcha", "dropCaptcha"}
  <2>1. Follows(l[1], l[2])
    BY <1>1 DEF Follows, Opening, Leader
  <2>2. Linked(l) /\ Elems(l) = {l[1], l[2]}
    BY <1>1, <2>1, List2
  <2> QED BY <1>1, <2>2
<1>3. Joint(l)
  BY <1>1, <1>2 DEF Joint, Joins, Opening, Leader
<1> QED BY <1>3 DEF l

LEMMA InvitePiece == Joint(<<"invite", "markInvite">>)
<1> DEFINE l == <<"invite", "markInvite">>
<1>1. /\ l \in Seq(Words) /\ Len(l) = 2 /\ l # <<>>
      /\ l[1] = "invite" /\ l[2] = "markInvite"
  <2>1. l \in Seq(Words)
    BY DEF Words
  <2> QED BY <2>1
<1> HIDE DEF l
<1>2. Linked(l) /\ Elems(l) = {"invite", "markInvite"}
  <2>1. Follows(l[1], l[2])
    BY <1>1 DEF Follows, Opening, Leader
  <2>2. Linked(l) /\ Elems(l) = {l[1], l[2]}
    BY <1>1, <2>1, List2
  <2> QED BY <1>1, <2>2
<1>3. Joint(l)
  BY <1>1, <1>2 DEF Joint, Joins, Opening, Leader
<1> QED BY <1>3 DEF l

LEMMA CodePiece == Joint(<<"code", "dropCode">>)
<1> DEFINE l == <<"code", "dropCode">>
<1>1. /\ l \in Seq(Words) /\ Len(l) = 2 /\ l # <<>>
      /\ l[1] = "code" /\ l[2] = "dropCode"
  <2>1. l \in Seq(Words)
    BY DEF Words
  <2> QED BY <2>1
<1> HIDE DEF l
<1>2. Linked(l) /\ Elems(l) = {"code", "dropCode"}
  <2>1. Follows(l[1], l[2])
    BY <1>1 DEF Follows, Opening, Leader
  <2>2. Linked(l) /\ Elems(l) = {l[1], l[2]}
    BY <1>1, <2>1, List2
  <2> QED BY <1>1, <2>2
<1>3. Joint(l)
  BY <1>1, <1>2 DEF Joint, Joins, Opening, Leader
<1> QED BY <1>3 DEF l

LEMMA AccountPiece == Joint(<<"count", "short", "create">>)
<1> DEFINE l == <<"count", "short", "create">>
<1>1. /\ l \in Seq(Words) /\ Len(l) = 3 /\ l # <<>>
      /\ l[1] = "count" /\ l[2] = "short" /\ l[3] = "create"
  <2>1. l \in Seq(Words)
    BY DEF Words
  <2> QED BY <2>1
<1> HIDE DEF l
<1>2. Linked(l) /\ Elems(l) = {"count", "short", "create"}
  <2>1. Follows(l[1], l[2]) /\ Follows(l[2], l[3])
    BY <1>1 DEF Follows, Opening, Leader
  <2>2. Linked(l) /\ Elems(l) = {l[1], l[2], l[3]}
    BY <1>1, <2>1, List3
  <2> QED BY <1>1, <2>2
<1>3. Joint(l)
  BY <1>1, <1>2 DEF Joint, Joins, Opening, Leader
<1> QED BY <1>3 DEF l

LEMMA Pieces ==
  /\ Joint(CaptchaCheck)
  /\ Joint(If(setting.invite, <<"invite", "markInvite">>))
  /\ Joint(If(setting.code, <<"code", "dropCode">>))
  /\ Joint(<<"count", "short", "create">>)
<1>1. Joint(<<>>)
  BY DEF Joint, Joins, Linked, Elems
<1> QED BY <1>1, CaptchaPiece, InvitePiece, CodePiece, AccountPiece, Zenon DEF CaptchaCheck, If

\* The list of an operation as it is when the request arrives.
Fresh(op) == /\ Ready(op, Statements(op))
             /\ Statements(op)[1] \notin DOMAIN Leader
             /\ Statements(op)[1] = "ticket" => op = "qrCreate"
             /\ Elems(Statements(op)) \cap Named # {} =>
                  Statements(op)[1] \in Finders \/ op \in {"register", "login", "qrScan", "qrConfirm"}

LEMMA Made ==
  ASSUME NEW op, NEW l, Statements(op) = l, l \in Seq(Words), l # <<>>, Linked(l),
         \A s \in Elems(l) : Placed(op, s), l[1] \notin DOMAIN Leader,
         l[1] = "auth" => Len(l) > 1, l[1] = "ticket" => op = "qrCreate",
         Elems(l) \cap Named # {} =>
           l[1] \in Finders \/ op \in {"register", "login", "qrScan", "qrConfirm"}
  PROVE  Fresh(op)
BY DEF Fresh, Ready

LEMMA SentList ==
  /\ Joins(Sent) /\ Sent # <<>> /\ Elems(Sent) \cap {"ticket", "scan", "confirm", "keep", "device"} = {}
<1> DEFINE l == <<"incr", "expire", "send", "store">>
<1>6. Sent = CaptchaCheck \o l
  BY DEF Sent
<1>1. /\ l \in Seq(Words) /\ Len(l) = 4 /\ l # <<>>
      /\ l[1] = "incr" /\ l[2] = "expire" /\ l[3] = "send" /\ l[4] = "store"
  <2>1. l \in Seq(Words)
    BY DEF Words
  <2> QED BY <2>1
<1> HIDE DEF l
<1>2. Linked(l) /\ Elems(l) = {"incr", "expire", "send", "store"}
  <2>1. Follows(l[1], l[2]) /\ Follows(l[2], l[3]) /\ Follows(l[3], l[4])
    BY <1>1 DEF Follows, Opening, Leader
  <2>2. Linked(l) /\ Elems(l) = {l[1], l[2], l[3], l[4]}
    BY <1>1, <2>1, List4
  <2> QED BY <1>1, <2>2
<1>3. Joins(l)
  BY <1>1, <1>2 DEF Joins, Opening, Leader
<1>4. CaptchaCheck \in Seq(Words) /\ Joins(CaptchaCheck)
      /\ Elems(CaptchaCheck) \cap {"ticket", "scan", "confirm", "incr", "keep", "device"} = {}
  BY Pieces DEF Joint, Joins
<1>5. /\ Joins(CaptchaCheck \o l) /\ CaptchaCheck \o l # <<>>
      /\ Elems(CaptchaCheck \o l) = Elems(CaptchaCheck) \cup Elems(l)
  <2>1. CaptchaCheck \o l # <<>>
    BY <1>1, <1>4
  <2> QED BY <1>1, <1>3, <1>4, <2>1, JoinsConcat, ElemsConcat
<1> QED BY <1>2, <1>4, <1>5, <1>6

LEMMA RegisterList == Fresh("register")
<1> DEFINE a == CaptchaCheck \o If(setting.invite, <<"invite", "markInvite">>)
           b == a \o If(setting.code, <<"code", "dropCode">>)
           c == b \o <<"count", "short", "create">>
           l == c \o Session
<1>1. Joint(a)
  BY Pieces, JointConcat
<1>2. Joint(b)
  <2> HIDE DEF a
  <2> QED BY <1>1, Pieces, JointConcat
<1>3. Joint(c)
  <2> HIDE DEF b
  <2> QED BY <1>2, Pieces, JointConcat
<1>4. Statements("register") = l
  BY DEF Statements
<1> HIDE DEF c
<1>5. Joins(l) /\ Elems(l) = Elems(c) \cup {"token", "keep"} /\ l # <<>>
  <2>1. Joins(l)
    BY <1>3, SessionList, JoinsConcat DEF Joint
  <2>2. c \in Seq(Words) /\ Session \in Seq(Words) /\ Session # <<>>
    BY <1>3, SessionList DEF Joint, Joins
  <2>3. l # <<>>
    BY <2>2
  <2> QED BY <2>1, <2>2, <2>3, SessionList, ElemsConcat
<1> HIDE DEF l
<1>6. l[1] \notin Opening \cup DOMAIN Leader /\ l \in Seq(Words) /\ Linked(l)
  BY <1>5 DEF Joins
<1>7. \A s \in Elems(l) : Placed("register", s)
  BY <1>3, <1>5 DEF Joint, Placed
<1>8. l[1] # "auth" /\ l[1] # "ticket"
  BY <1>6 DEF Opening
<1> QED BY <1>4, <1>5, <1>6, <1>7, <1>8 DEF Fresh, Ready

\* A list that ends with the session.
LEMMA WithSession ==
  ASSUME NEW a \in Seq(Words), a # <<>>, Linked(a)
  PROVE  /\ a \o Session \in Seq(Words) /\ a \o Session # <<>> /\ Linked(a \o Session)
         /\ Elems(a \o Session) = Elems(a) \cup {"token", "keep"}
         /\ (a \o Session)[1] = a[1] /\ Len(a \o Session) > 1
<1>1. a \o Session \in Seq(Words) /\ Linked(a \o Session)
  BY LinkedConcat, SessionList
<1>2. Elems(a \o Session) = Elems(a) \cup {"token", "keep"}
  BY ElemsConcat, SessionList
<1>3. PICK b : b = Session
  OBVIOUS
<1>5. b \in Seq(Words) /\ Len(b) = 2
  BY <1>3, SessionList
<1>4. (a \o b)[1] = a[1] /\ Len(a \o b) > 1 /\ a \o b # <<>>
  BY <1>5
<1> QED BY <1>1, <1>2, <1>3, <1>4

LEMMA RefreshList == Fresh("refresh")
<1> DEFINE l == <<"stored", "status", "renew">>
<1>3. Statements("refresh") = l
  BY DEF Statements
<1>1. /\ l \in Seq(Words) /\ Len(l) = 3 /\ l # <<>>
      /\ l[1] = "stored" /\ l[2] = "status" /\ l[3] = "renew"
  <2>1. l \in Seq(Words)
    BY DEF Words
  <2> QED BY <2>1
<1> HIDE DEF l
<1>2. Linked(l) /\ Elems(l) = {"stored", "status", "renew"}
  <2>1. Follows(l[1], l[2]) /\ Follows(l[2], l[3])
    BY <1>1 DEF Follows, Opening, Leader
  <2>2. Linked(l) /\ Elems(l) = {l[1], l[2], l[3]}
    BY <1>1, <2>1, List3
  <2> QED BY <1>1, <2>2
<1>4. l[1] \notin DOMAIN Leader /\ \A s \in Elems(l) : Placed("refresh", s)
  BY <1>1, <1>2 DEF Leader, Placed
<1>5. Elems(l) \cap Named # {} =>
        l[1] \in Finders \/ "refresh" \in {"register", "login", "qrScan", "qrConfirm"}
  BY <1>1, <1>2 DEF Named, Finders
<1>6. Linked(l) /\ (l[1] = "auth" => Len(l) > 1) /\ (l[1] = "ticket" => "refresh" = "qrCreate")
  BY <1>1, <1>2
<1> QED BY <1>1, <1>3, <1>4, <1>5, <1>6, Made

LEMMA LogoutList == Fresh("logout")
<1> DEFINE l == <<"auth", "dropToken">>
<1>3. Statements("logout") = l
  BY DEF Statements
<1>1. /\ l \in Seq(Words) /\ Len(l) = 2 /\ l # <<>>
      /\ l[1] = "auth" /\ l[2] = "dropToken"
  <2>1. l \in Seq(Words)
    BY DEF Words
  <2> QED BY <2>1
<1> HIDE DEF l
<1>2. Linked(l) /\ Elems(l) = {"auth", "dropToken"}
  <2>1. Follows(l[1], l[2])
    BY <1>1 DEF Follows, Opening, Leader
  <2>2. Linked(l) /\ Elems(l) = {l[1], l[2]}
    BY <1>1, <2>1, List2
  <2> QED BY <1>1, <2>2
<1>4. l[1] \notin DOMAIN Leader /\ \A s \in Elems(l) : Placed("logout", s)
  BY <1>1, <1>2 DEF Leader, Placed
<1>5. Elems(l) \cap Named # {} =>
        l[1] \in Finders \/ "logout" \in {"register", "login", "qrScan", "qrConfirm"}
  BY <1>1, <1>2 DEF Named, Finders
<1>6. Linked(l) /\ (l[1] = "auth" => Len(l) > 1) /\ (l[1] = "ticket" => "logout" = "qrCreate")
  BY <1>1, <1>2
<1> QED BY <1>1, <1>3, <1>4, <1>5, <1>6, Made

LEMMA DeleteList == Fresh("delete")
<1> DEFINE l == <<"auth", "ban", "dropToken">>
<1>3. Statements("delete") = l
  BY DEF Statements
<1>1. /\ l \in Seq(Words) /\ Len(l) = 3 /\ l # <<>>
      /\ l[1] = "auth" /\ l[2] = "ban" /\ l[3] = "dropToken"
  <2>1. l \in Seq(Words)
    BY DEF Words
  <2> QED BY <2>1
<1> HIDE DEF l
<1>2. Linked(l) /\ Elems(l) = {"auth", "ban", "dropToken"}
  <2>1. Follows(l[1], l[2]) /\ Follows(l[2], l[3])
    BY <1>1 DEF Follows, Opening, Leader
  <2>2. Linked(l) /\ Elems(l) = {l[1], l[2], l[3]}
    BY <1>1, <2>1, List3
  <2> QED BY <1>1, <2>2
<1>4. l[1] \notin DOMAIN Leader /\ \A s \in Elems(l) : Placed("delete", s)
  BY <1>1, <1>2 DEF Leader, Placed
<1>5. Elems(l) \cap Named # {} =>
        l[1] \in Finders \/ "delete" \in {"register", "login", "qrScan", "qrConfirm"}
  BY <1>1, <1>2 DEF Named, Finders
<1>6. Linked(l) /\ (l[1] = "auth" => Len(l) > 1) /\ (l[1] = "ticket" => "delete" = "qrCreate")
  BY <1>1, <1>2
<1> QED BY <1>1, <1>3, <1>4, <1>5, <1>6, Made

LEMMA DisableList == Fresh("disable")
<1> DEFINE l == <<"ban", "dropToken">>
<1>3. Statements("disable") = l
  BY DEF Statements
<1>1. /\ l \in Seq(Words) /\ Len(l) = 2 /\ l # <<>>
      /\ l[1] = "ban" /\ l[2] = "dropToken"
  <2>1. l \in Seq(Words)
    BY DEF Words
  <2> QED BY <2>1
<1> HIDE DEF l
<1>2. Linked(l) /\ Elems(l) = {"ban", "dropToken"}
  <2>1. Follows(l[1], l[2])
    BY <1>1 DEF Follows, Opening, Leader
  <2>2. Linked(l) /\ Elems(l) = {l[1], l[2]}
    BY <1>1, <2>1, List2
  <2> QED BY <1>1, <2>2
<1>4. l[1] \notin DOMAIN Leader /\ \A s \in Elems(l) : Placed("disable", s)
  BY <1>1, <1>2 DEF Leader, Placed
<1>5. Elems(l) \cap Named # {} =>
        l[1] \in Finders \/ "disable" \in {"register", "login", "qrScan", "qrConfirm"}
  BY <1>1, <1>2 DEF Named, Finders
<1>6. Linked(l) /\ (l[1] = "auth" => Len(l) > 1) /\ (l[1] = "ticket" => "disable" = "qrCreate")
  BY <1>1, <1>2
<1> QED BY <1>1, <1>3, <1>4, <1>5, <1>6, Made

LEMMA EnableList == Fresh("enable")
<1> DEFINE l == <<"unban">>
<1>3. Statements("enable") = l
  BY DEF Statements
<1>1. /\ l \in Seq(Words) /\ Len(l) = 1 /\ l # <<>>
      /\ l[1] = "unban"
  <2>1. l \in Seq(Words)
    BY DEF Words
  <2> QED BY <2>1
<1> HIDE DEF l
<1>2. Linked(l) /\ Elems(l) = {"unban"}
  BY <1>1, List1
<1>4. l[1] \notin DOMAIN Leader /\ \A s \in Elems(l) : Placed("enable", s)
  BY <1>1, <1>2 DEF Leader, Placed
<1>5. Elems(l) \cap Named # {} =>
        l[1] \in Finders \/ "enable" \in {"register", "login", "qrScan", "qrConfirm"}
  BY <1>1, <1>2 DEF Named, Finders
<1>6. Linked(l) /\ (l[1] = "auth" => Len(l) > 1) /\ (l[1] = "ticket" => "enable" = "qrCreate")
  BY <1>1, <1>2
<1> QED BY <1>1, <1>3, <1>4, <1>5, <1>6, Made

LEMMA ChangePwdList == Fresh("changePwd")
<1> DEFINE l == <<"auth", "password", "setPwd">>
<1>3. Statements("changePwd") = l
  BY DEF Statements
<1>1. /\ l \in Seq(Words) /\ Len(l) = 3 /\ l # <<>>
      /\ l[1] = "auth" /\ l[2] = "password" /\ l[3] = "setPwd"
  <2>1. l \in Seq(Words)
    BY DEF Words
  <2> QED BY <2>1
<1> HIDE DEF l
<1>2. Linked(l) /\ Elems(l) = {"auth", "password", "setPwd"}
  <2>1. Follows(l[1], l[2]) /\ Follows(l[2], l[3])
    BY <1>1 DEF Follows, Opening, Leader
  <2>2. Linked(l) /\ Elems(l) = {l[1], l[2], l[3]}
    BY <1>1, <2>1, List3
  <2> QED BY <1>1, <2>2
<1>4. l[1] \notin DOMAIN Leader /\ \A s \in Elems(l) : Placed("changePwd", s)
  BY <1>1, <1>2 DEF Leader, Placed
<1>5. Elems(l) \cap Named # {} =>
        l[1] \in Finders \/ "changePwd" \in {"register", "login", "qrScan", "qrConfirm"}
  BY <1>1, <1>2 DEF Named, Finders
<1>6. Linked(l) /\ (l[1] = "auth" => Len(l) > 1) /\ (l[1] = "ticket" => "changePwd" = "qrCreate")
  BY <1>1, <1>2
<1> QED BY <1>1, <1>3, <1>4, <1>5, <1>6, Made

LEMMA ResetPwdList == Fresh("resetPwd")
<1> DEFINE l == <<"setPwd">>
<1>3. Statements("resetPwd") = l
  BY DEF Statements
<1>1. /\ l \in Seq(Words) /\ Len(l) = 1 /\ l # <<>>
      /\ l[1] = "setPwd"
  <2>1. l \in Seq(Words)
    BY DEF Words
  <2> QED BY <2>1
<1> HIDE DEF l
<1>2. Linked(l) /\ Elems(l) = {"setPwd"}
  BY <1>1, List1
<1>4. l[1] \notin DOMAIN Leader /\ \A s \in Elems(l) : Placed("resetPwd", s)
  BY <1>1, <1>2 DEF Leader, Placed
<1>5. Elems(l) \cap Named # {} =>
        l[1] \in Finders \/ "resetPwd" \in {"register", "login", "qrScan", "qrConfirm"}
  BY <1>1, <1>2 DEF Named, Finders
<1>6. Linked(l) /\ (l[1] = "auth" => Len(l) > 1) /\ (l[1] = "ticket" => "resetPwd" = "qrCreate")
  BY <1>1, <1>2
<1> QED BY <1>1, <1>3, <1>4, <1>5, <1>6, Made

LEMMA BindInviteList == Fresh("bindInvite")
<1> DEFINE l == <<"auth", "invite", "markInvite">>
<1>3. Statements("bindInvite") = l
  BY DEF Statements
<1>1. /\ l \in Seq(Words) /\ Len(l) = 3 /\ l # <<>>
      /\ l[1] = "auth" /\ l[2] = "invite" /\ l[3] = "markInvite"
  <2>1. l \in Seq(Words)
    BY DEF Words
  <2> QED BY <2>1
<1> HIDE DEF l
<1>2. Linked(l) /\ Elems(l) = {"auth", "invite", "markInvite"}
  <2>1. Follows(l[1], l[2]) /\ Follows(l[2], l[3])
    BY <1>1 DEF Follows, Opening, Leader
  <2>2. Linked(l) /\ Elems(l) = {l[1], l[2], l[3]}
    BY <1>1, <2>1, List3
  <2> QED BY <1>1, <2>2
<1>4. l[1] \notin DOMAIN Leader /\ \A s \in Elems(l) : Placed("bindInvite", s)
  BY <1>1, <1>2 DEF Leader, Placed
<1>5. Elems(l) \cap Named # {} =>
        l[1] \in Finders \/ "bindInvite" \in {"register", "login", "qrScan", "qrConfirm"}
  BY <1>1, <1>2 DEF Named, Finders
<1>6. Linked(l) /\ (l[1] = "auth" => Len(l) > 1) /\ (l[1] = "ticket" => "bindInvite" = "qrCreate")
  BY <1>1, <1>2
<1> QED BY <1>1, <1>3, <1>4, <1>5, <1>6, Made

LEMMA BindPhoneList == Fresh("bindPhone")
<1> DEFINE l == <<"auth", "code", "dropCode", "phone", "bind">>
<1>3. Statements("bindPhone") = l
  BY DEF Statements
<1>1. /\ l \in Seq(Words) /\ Len(l) = 5 /\ l # <<>>
      /\ l[1] = "auth" /\ l[2] = "code" /\ l[3] = "dropCode" /\ l[4] = "phone" /\ l[5] = "bind"
  <2>1. l \in Seq(Words)
    BY DEF Words
  <2> QED BY <2>1
<1> HIDE DEF l
<1>2. Linked(l) /\ Elems(l) = {"auth", "code", "dropCode", "phone", "bind"}
  <2>1. Follows(l[1], l[2]) /\ Follows(l[2], l[3]) /\ Follows(l[3], l[4]) /\ Follows(l[4], l[5])
    BY <1>1 DEF Follows, Opening, Leader
  <2>2. Linked(l) /\ Elems(l) = {l[1], l[2], l[3], l[4], l[5]}
    BY <1>1, <2>1, List5
  <2> QED BY <1>1, <2>2
<1>4. l[1] \notin DOMAIN Leader /\ \A s \in Elems(l) : Placed("bindPhone", s)
  BY <1>1, <1>2 DEF Leader, Placed
<1>5. Elems(l) \cap Named # {} =>
        l[1] \in Finders \/ "bindPhone" \in {"register", "login", "qrScan", "qrConfirm"}
  BY <1>1, <1>2 DEF Named, Finders
<1>6. Linked(l) /\ (l[1] = "auth" => Len(l) > 1) /\ (l[1] = "ticket" => "bindPhone" = "qrCreate")
  BY <1>1, <1>2
<1> QED BY <1>1, <1>3, <1>4, <1>5, <1>6, Made

LEMMA AdminCreateList == Fresh("adminCreate")
<1> DEFINE l == <<"count", "create">>
<1>3. Statements("adminCreate") = l
  BY DEF Statements
<1>1. /\ l \in Seq(Words) /\ Len(l) = 2 /\ l # <<>>
      /\ l[1] = "count" /\ l[2] = "create"
  <2>1. l \in Seq(Words)
    BY DEF Words
  <2> QED BY <2>1
<1> HIDE DEF l
<1>2. Linked(l) /\ Elems(l) = {"count", "create"}
  <2>1. Follows(l[1], l[2])
    BY <1>1 DEF Follows, Opening, Leader
  <2>2. Linked(l) /\ Elems(l) = {l[1], l[2]}
    BY <1>1, <2>1, List2
  <2> QED BY <1>1, <2>2
<1>4. l[1] \notin DOMAIN Leader /\ \A s \in Elems(l) : Placed("adminCreate", s)
  BY <1>1, <1>2 DEF Leader, Placed
<1>5. Elems(l) \cap Named # {} =>
        l[1] \in Finders \/ "adminCreate" \in {"register", "login", "qrScan", "qrConfirm"}
  BY <1>1, <1>2 DEF Named, Finders
<1>6. Linked(l) /\ (l[1] = "auth" => Len(l) > 1) /\ (l[1] = "ticket" => "adminCreate" = "qrCreate")
  BY <1>1, <1>2
<1> QED BY <1>1, <1>3, <1>4, <1>5, <1>6, Made

LEMMA CaptchaList == Fresh("captcha")
<1> DEFINE l == <<"newCaptcha">>
<1>3. Statements("captcha") = l
  BY DEF Statements
<1>1. /\ l \in Seq(Words) /\ Len(l) = 1 /\ l # <<>>
      /\ l[1] = "newCaptcha"
  <2>1. l \in Seq(Words)
    BY DEF Words
  <2> QED BY <2>1
<1> HIDE DEF l
<1>2. Linked(l) /\ Elems(l) = {"newCaptcha"}
  BY <1>1, List1
<1>4. l[1] \notin DOMAIN Leader /\ \A s \in Elems(l) : Placed("captcha", s)
  BY <1>1, <1>2 DEF Leader, Placed
<1>5. Elems(l) \cap Named # {} =>
        l[1] \in Finders \/ "captcha" \in {"register", "login", "qrScan", "qrConfirm"}
  BY <1>1, <1>2 DEF Named, Finders
<1>6. Linked(l) /\ (l[1] = "auth" => Len(l) > 1) /\ (l[1] = "ticket" => "captcha" = "qrCreate")
  BY <1>1, <1>2
<1> QED BY <1>1, <1>3, <1>4, <1>5, <1>6, Made

LEMMA QrCreateList == Fresh("qrCreate")
<1> DEFINE l == <<"ticket", "ttl">>
<1>3. Statements("qrCreate") = l
  BY DEF Statements
<1>1. /\ l \in Seq(Words) /\ Len(l) = 2 /\ l # <<>>
      /\ l[1] = "ticket" /\ l[2] = "ttl"
  <2>1. l \in Seq(Words)
    BY DEF Words
  <2> QED BY <2>1
<1> HIDE DEF l
<1>2. Linked(l) /\ Elems(l) = {"ticket", "ttl"}
  <2>1. Follows(l[1], l[2])
    BY <1>1 DEF Follows, Opening, Leader
  <2>2. Linked(l) /\ Elems(l) = {l[1], l[2]}
    BY <1>1, <2>1, List2
  <2> QED BY <1>1, <2>2
<1>4. l[1] \notin DOMAIN Leader /\ \A s \in Elems(l) : Placed("qrCreate", s)
  BY <1>1, <1>2 DEF Leader, Placed
<1>5. Elems(l) \cap Named # {} =>
        l[1] \in Finders \/ "qrCreate" \in {"register", "login", "qrScan", "qrConfirm"}
  BY <1>1, <1>2 DEF Named, Finders
<1>6. Linked(l) /\ (l[1] = "auth" => Len(l) > 1) /\ (l[1] = "ticket" => "qrCreate" = "qrCreate")
  BY <1>1, <1>2
<1> QED BY <1>1, <1>3, <1>4, <1>5, <1>6, Made

LEMMA QrScanList == Fresh("qrScan")
<1> DEFINE l == <<"auth", "look", "scan">>
<1>3. Statements("qrScan") = l
  BY DEF Statements
<1>1. /\ l \in Seq(Words) /\ Len(l) = 3 /\ l # <<>>
      /\ l[1] = "auth" /\ l[2] = "look" /\ l[3] = "scan"
  <2>1. l \in Seq(Words)
    BY DEF Words
  <2> QED BY <2>1
<1> HIDE DEF l
<1>2. Linked(l) /\ Elems(l) = {"auth", "look", "scan"}
  <2>1. Follows(l[1], l[2]) /\ Follows(l[2], l[3])
    BY <1>1 DEF Follows, Opening, Leader
  <2>2. Linked(l) /\ Elems(l) = {l[1], l[2], l[3]}
    BY <1>1, <2>1, List3
  <2> QED BY <1>1, <2>2
<1>4. l[1] \notin DOMAIN Leader /\ \A s \in Elems(l) : Placed("qrScan", s)
  BY <1>1, <1>2 DEF Leader, Placed
<1>5. Elems(l) \cap Named # {} =>
        l[1] \in Finders \/ "qrScan" \in {"register", "login", "qrScan", "qrConfirm"}
  BY <1>1, <1>2 DEF Named, Finders
<1>6. Linked(l) /\ (l[1] = "auth" => Len(l) > 1) /\ (l[1] = "ticket" => "qrScan" = "qrCreate")
  BY <1>1, <1>2
<1> QED BY <1>1, <1>3, <1>4, <1>5, <1>6, Made

LEMMA QrConfirmList == Fresh("qrConfirm")
<1> DEFINE l == <<"auth", "look", "confirm", "ttl">>
<1>3. Statements("qrConfirm") = l
  BY DEF Statements
<1>1. /\ l \in Seq(Words) /\ Len(l) = 4 /\ l # <<>>
      /\ l[1] = "auth" /\ l[2] = "look" /\ l[3] = "confirm" /\ l[4] = "ttl"
  <2>1. l \in Seq(Words)
    BY DEF Words
  <2> QED BY <2>1
<1> HIDE DEF l
<1>2. Linked(l) /\ Elems(l) = {"auth", "look", "confirm", "ttl"}
  <2>1. Follows(l[1], l[2]) /\ Follows(l[2], l[3]) /\ Follows(l[3], l[4])
    BY <1>1 DEF Follows, Opening, Leader
  <2>2. Linked(l) /\ Elems(l) = {l[1], l[2], l[3], l[4]}
    BY <1>1, <2>1, List4
  <2> QED BY <1>1, <2>2
<1>4. l[1] \notin DOMAIN Leader /\ \A s \in Elems(l) : Placed("qrConfirm", s)
  BY <1>1, <1>2 DEF Leader, Placed
<1>5. Elems(l) \cap Named # {} =>
        l[1] \in Finders \/ "qrConfirm" \in {"register", "login", "qrScan", "qrConfirm"}
  BY <1>1, <1>2 DEF Named, Finders
<1>6. Linked(l) /\ (l[1] = "auth" => Len(l) > 1) /\ (l[1] = "ticket" => "qrConfirm" = "qrCreate")
  BY <1>1, <1>2
<1> QED BY <1>1, <1>3, <1>4, <1>5, <1>6, Made

LEMMA LoginList == Fresh("login")
<1> DEFINE l == <<"incr", "expire", "password">>
<1>3. Statements("login") = l \o Session
  BY DEF Statements
<1>1. /\ l \in Seq(Words) /\ Len(l) = 3 /\ l # <<>>
      /\ l[1] = "incr" /\ l[2] = "expire" /\ l[3] = "password"
  <2>1. l \in Seq(Words)
    BY DEF Words
  <2> QED BY <2>1
<1> HIDE DEF l
<1>2. Linked(l) /\ Elems(l) = {"incr", "expire", "password"}
  <2>1. Follows(l[1], l[2]) /\ Follows(l[2], l[3])
    BY <1>1 DEF Follows, Opening, Leader
  <2>2. Linked(l) /\ Elems(l) = {l[1], l[2], l[3]}
    BY <1>1, <2>1, List3
  <2> QED BY <1>1, <2>2
<1> DEFINE k == l \o Session
<1>4. /\ k \in Seq(Words) /\ k # <<>> /\ Linked(k) /\ k[1] = l[1] /\ Len(k) > 1
      /\ Elems(k) = Elems(l) \cup {"token", "keep"}
  BY <1>1, <1>2, WithSession
<1> HIDE DEF k
<1>5. Statements("login") = k
  BY <1>3 DEF k
<1> QED BY <1>1, <1>2, <1>4, <1>5 DEF Fresh, Ready, Placed, Leader, Named, Finders

LEMMA GuestList == Fresh("guest")
<1> DEFINE l == <<"device", "short", "create">>
<1>3. Statements("guest") = l \o Session
  BY DEF Statements
<1>1. /\ l \in Seq(Words) /\ Len(l) = 3 /\ l # <<>>
      /\ l[1] = "device" /\ l[2] = "short" /\ l[3] = "create"
  <2>1. l \in Seq(Words)
    BY DEF Words
  <2> QED BY <2>1
<1> HIDE DEF l
<1>2. Linked(l) /\ Elems(l) = {"device", "short", "create"}
  <2>1. Follows(l[1], l[2]) /\ Follows(l[2], l[3])
    BY <1>1 DEF Follows, Opening, Leader
  <2>2. Linked(l) /\ Elems(l) = {l[1], l[2], l[3]}
    BY <1>1, <2>1, List3
  <2> QED BY <1>1, <2>2
<1> DEFINE k == l \o Session
<1>4. /\ k \in Seq(Words) /\ k # <<>> /\ Linked(k) /\ k[1] = l[1] /\ Len(k) > 1
      /\ Elems(k) = Elems(l) \cup {"token", "keep"}
  BY <1>1, <1>2, WithSession
<1> HIDE DEF k
<1>5. Statements("guest") = k
  BY <1>3 DEF k
<1> QED BY <1>1, <1>2, <1>4, <1>5 DEF Fresh, Ready, Placed, Leader, Named, Finders

LEMMA QrPollList == Fresh("qrPoll")
<1> DEFINE l == <<"poll">>
           e == <<"dropTicket">>
<1>7. Statements("qrPoll") = (l \o Session) \o e
  BY DEF Statements
<1>1. /\ l \in Seq(Words) /\ Len(l) = 1 /\ l # <<>>
      /\ l[1] = "poll"
  <2>1. l \in Seq(Words)
    BY DEF Words
  <2> QED BY <2>1
<1> HIDE DEF l
<1>2. Linked(l) /\ Elems(l) = {"poll"}
  BY <1>1, List1
<1>3. /\ e \in Seq(Words) /\ Len(e) = 1 /\ e # <<>>
      /\ e[1] = "dropTicket"
  <2>1. e \in Seq(Words)
    BY DEF Words
  <2> QED BY <2>1
<1> HIDE DEF e
<1>4. Linked(e) /\ Elems(e) = {"dropTicket"}
  BY <1>3, List1
<1> DEFINE k == l \o Session
<1>5. /\ k \in Seq(Words) /\ k # <<>> /\ Linked(k) /\ k[1] = "poll" /\ Len(k) > 1
      /\ Elems(k) = {"poll", "token", "keep"}
  BY <1>1, <1>2, WithSession
<1> HIDE DEF k
<1> DEFINE m == k \o e
<1>6. /\ m \in Seq(Words) /\ Linked(m) /\ m # <<>> /\ m[1] = "poll"
      /\ Elems(m) = {"poll", "token", "keep", "dropTicket"}
  <2>1. Joins(e)
    BY <1>3, <1>4 DEF Joins, Opening, Leader
  <2>2. m \in Seq(Words) /\ Linked(m)
    BY <1>5, <2>1, LinkedConcat
  <2>3. Elems(m) = Elems(k) \cup Elems(e)
    BY <1>3, <1>5, ElemsConcat
  <2>4. m # <<>> /\ m[1] = k[1]
    BY <1>3, <1>5
  <2> QED BY <1>4, <1>5, <2>2, <2>3, <2>4
<1> HIDE DEF m
<1>8. Statements("qrPoll") = m
  BY <1>7 DEF m, k
<1> QED BY <1>6, <1>8 DEF Fresh, Ready, Placed, Leader, Named, Finders

LEMMA SendCodeList == Fresh("sendCode")
<1>1. Statements("sendCode") = Sent
  BY DEF Statements
<1>2. Sent[1] \notin Opening \cup DOMAIN Leader /\ Sent \in Seq(Words) /\ Linked(Sent)
  BY SentList DEF Joins
<1>3. Sent[1] # "auth" /\ Sent[1] # "ticket"
  BY <1>2 DEF Opening
<1> QED BY <1>1, <1>2, <1>3, SentList DEF Fresh, Ready, Placed, Named

LEMMA SendBindList == Fresh("sendBind")
<1> DEFINE l == <<"auth">>
<1>7. Statements("sendBind") = l \o Sent
  BY DEF Statements
<1>1. /\ l \in Seq(Words) /\ Len(l) = 1 /\ l # <<>>
      /\ l[1] = "auth"
  <2>1. l \in Seq(Words)
    BY DEF Words
  <2> QED BY <2>1
<1> HIDE DEF l
<1>2. Linked(l) /\ Elems(l) = {"auth"}
  BY <1>1, List1
<1>3. Sent \in Seq(Words) /\ Sent # <<>>
  BY SentList DEF Joins
<1> DEFINE m == l \o Sent
<1>4. m \in Seq(Words) /\ Linked(m) /\ Elems(m) = {"auth"} \cup Elems(Sent)
  <2>1. m \in Seq(Words) /\ Linked(m)
    BY <1>1, <1>2, LinkedConcat, SentList
  <2> QED BY <1>1, <1>2, <1>3, <2>1, ElemsConcat
<1>5. m # <<>> /\ m[1] = "auth" /\ Len(m) > 1
  BY <1>1, <1>3
<1> HIDE DEF m
<1>6. Statements("sendBind") = m
  BY <1>7 DEF m
<1> QED BY <1>4, <1>5, <1>6, SentList DEF Fresh, Ready, Placed, Leader, Named

\* Every request has such a list.
LEMMA Lists ==
  ASSUME NEW r \in Request
  PROVE  Fresh(r.op)
<1>1. r.op \in {"register", "login", "sendCode", "guest", "logout", "delete", "changePwd", "bindInvite",
              "refresh", "sendBind", "bindPhone", "disable", "enable", "resetPwd", "adminCreate",
              "qrCreate", "qrPoll", "qrScan", "qrConfirm", "captcha"}
  BY DEF Request, AccountBodies, GuestBodies, OwnBodies, PhoneBodies, AdminBodies, QrBodies,
         CaptchaBodies, Body
<1> QED BY <1>1, RegisterList, LoginList, GuestList, RefreshList, LogoutList, DeleteList,
           DisableList, EnableList, ChangePwdList, ResetPwdList, BindInviteList, SendCodeList,
           SendBindList, BindPhoneList, AdminCreateList, CaptchaList, QrCreateList, QrScanList,
           QrConfirmList, QrPollList

-----------------------------------------------------------------------------
(* The inductive invariant.                                                *)

Busy(h) == hand[h] # Idle
CodeKinds == {"sms", "bindphone"}
Known(t) == Has(Key("ticket", t)) \/ t \in ended

\* A request under way is at one of the statements of its operation, and who
\* is about to be written is somebody.
IsServed(b) ==
  /\ b = [todo |-> b.todo, req |-> b.req, who |-> b.who, num |-> b.num, unchecked |-> b.unchecked]
  /\ b.req \in setting.ask /\ Ready(b.req.op, b.todo)
  /\ b.todo[1] \notin Finders /\ Elems(b.todo) \cap Named # {} => b.who \in People

HandInv ==
  /\ setting \in Scenarios
  /\ hand = [h \in Handlers |-> hand[h]]
  /\ \A h \in Handlers : Busy(h) => IsServed(hand[h])

IsRow(r) ==
  /\ r = [status |-> r.status, pwd |-> r.pwd, phone |-> r.phone, device |-> r.device,
          short |-> r.short]
  /\ r.status \in {"none", "normal", "disabled"}

\* Rows of MySQL, and invite codes that were used.
RowsInv ==
  /\ user = [u \in People |-> user[u]] /\ \A u \in People : IsRow(user[u])
  /\ \A u, v \in People : u # v /\ user[u].short = user[v].short => user[u].short = 0
  /\ invite \in [InviteCodes -> Phones \cup {NoOne}]
  /\ \A c : <<"invite", c>> \in spent => ~Unused(c)

\* What the key k of Redis may hold.
HasType(k, e) ==
  /\ e = [val |-> e.val, ttl |-> e.ttl]
  /\ k[1] = "ticket" => e.val \in TicketType /\ (e.val.status = "confirmed" => e.val.uid \in People)
  /\ k[1] # "ticket" => e.val \in Nat
  /\ k[1] \in CodeKinds \cup {"captcha", "refresh"} => e.ttl

KeysInv ==
  /\ \A k \in DOMAIN redis : k = Key(k[1], k[2]) /\ HasType(k, redis[k])
  /\ given \in SUBSET [who : People, at : 0..setting.maxTime]
  /\ now \in 0..setting.maxTime

\* A number is drawn once, as a captcha or as a code, and is not spent while
\* Redis holds it.
DrawsInv ==
  /\ drawn \in Nat
  /\ \A n : Has(Key("captcha", n)) => n \in 1..drawn /\ <<"captcha", n>> \notin spent
  /\ \A n : <<"captcha", n>> \in spent => n \in 1..drawn
  /\ \A k \in DOMAIN redis : k[1] \in CodeKinds =>
       /\ redis[k].val <= drawn /\ <<"code", redis[k].val>> \notin spent
       /\ \A j \in DOMAIN redis : j[1] \in CodeKinds /\ redis[j].val = redis[k].val => j = k
  /\ \A n : <<"code", n>> \in spent => n \in 0..drawn

\* The hash that a late scan makes of a ticket that has ended has no secret.
EndedInv ==
  \A t : t \in ended /\ Has(Key("ticket", t)) => ~redis[Key("ticket", t)].val.secret

\* A ticket is made once, and whoever asks about one knows it.
TicketsInv ==
  \A h \in Handlers : Busy(h) =>
    /\ Op(h) \in {"qrScan", "qrConfirm", "qrPoll"} => Known(Req(h).tick)
    /\ At(h, "ticket") => ~Known(Req(h).tick)
    /\ Op(h) = "qrCreate" => \A g \in Handlers : Busy(g) /\ Op(g) = "qrCreate" => g = h

\* What a request knows between two statements.
PairsInv ==
  \A h \in Handlers :
    /\ At(h, "dropCaptcha") => Req(h).cap \in 1..drawn
    /\ At(h, "dropCode") =>
         /\ Req(h).code \in 0..drawn
         /\ \A k \in DOMAIN redis :
              k[1] \in CodeKinds /\ redis[k].val = Req(h).code => k = CodeKey(Req(h))
    /\ At(h, "keep") => hand[h].num \in 0..setting.maxTime
    /\ At(h, "expire") /\ "expire" \in barred[h] =>
         hand[h].num \in Nat /\ hand[h].num > Limit(Op(h))

\* A rule that forbids a request is still to be checked.
BarredInv ==
  \A h \in Handlers : Busy(h) => barred[h] \subseteq Unmet(h) \cap Elems(hand[h].todo)

StoreInv == RowsInv /\ KeysInv /\ DrawsInv /\ EndedInv

Inv == HandInv /\ StoreInv /\ TicketsInv /\ PairsInv /\ BarredInv

-----------------------------------------------------------------------------
(* How requests move on.                                                   *)

\* What a request may have become by one of its statements.
Onward(b, x) ==
  /\ x = [todo |-> x.todo, req |-> b.req, who |-> x.who, num |-> x.num, unchecked |-> x.unchecked]
  /\ x.todo # <<>>
  /\ IF b.todo[1] \in Finders THEN x.who \in People ELSE x.who = b.who
  /\ \/ x.todo = Tail(b.todo)
     \/ b.todo[1] = "invite" /\ x.todo = Tail(Tail(b.todo))
     \/ b.todo[1] = "device" /\ x.todo = Session

Moves(h) ==
  /\ hand' = [g \in Handlers |-> hand'[g]]
  /\ \A g \in Handlers \ {h} : hand'[g] = hand[g]
  /\ hand'[h] = Idle \/ Onward(hand[h], hand'[h])

Rules == {"captcha", "code", "invite", "expire", "count", "device", "auth", "password",
          "phone", "stored", "status", "look", "poll"}

LEMMA AtFacts ==
  ASSUME HandInv, NEW h \in Handlers, NEW s, At(h, s)
  PROVE  Busy(h) /\ hand[h].todo[1] = s /\ s \in Elems(hand[h].todo) /\ IsServed(hand[h])
<1>1. Busy(h)
  BY DEF At, Busy, Idle
<1>2. IsServed(hand[h])
  BY <1>1 DEF HandInv
<1>3. hand[h].todo \in Seq(Words) /\ hand[h].todo # <<>>
  BY <1>2 DEF IsServed, Ready
<1>4. hand[h].todo[1] = s
  BY <1>3 DEF At
<1>5. 1 \in 1..Len(hand[h].todo)
  BY <1>3
<1> QED BY <1>1, <1>2, <1>4, <1>5 DEF Elems

\* After a statement a request is at one that may follow it.
LEMMA TailReady ==
  ASSUME NEW op, NEW a, Ready(op, a), Tail(a) # <<>>
  PROVE  /\ Ready(op, Tail(a)) /\ Tail(a)[1] \notin Opening
         /\ Tail(a)[1] \in DOMAIN Leader => a[1] = Leader[Tail(a)[1]]
         /\ a[1] = "invite" => Tail(a)[1] = "markInvite"
         /\ Elems(a) = {a[1]} \cup Elems(Tail(a)) /\ Tail(a)[1] \in Elems(a)
<1>1. a \in Seq(Words) /\ a # <<>> /\ Linked(a)
  BY DEF Ready
<1>2. /\ Tail(a) \in Seq(Words) /\ Linked(Tail(a))
      /\ Head(a) = a[1] /\ Head(Tail(a)) = a[2] /\ 2 \in 2..Len(a)
      /\ Elems(a) = {Head(a)} \cup Elems(Tail(a))
  BY <1>1, LinkedTail
<1>3. Tail(a)[1] = a[2]
  BY <1>1, <1>2
<1>4. Follows(a[1], a[2])
  BY <1>1, <1>2 DEF Linked
<1>5. a[2] \in Elems(a)
  BY <1>1, <1>2 DEF Elems
<1>6. Tail(a)[1] # "auth"
  BY <1>3, <1>4 DEF Follows, Opening
<1>7. Ready(op, Tail(a))
  BY <1>2, <1>6 DEF Ready
<1> QED BY <1>2, <1>3, <1>4, <1>5, <1>7 DEF Follows

LEMMA SessionReady == Ready("guest", Session) /\ Session[1] \notin Opening \cup DOMAIN Leader
<1>1. /\ Session \in Seq(Words) /\ Linked(Session) /\ Session # <<>>
      /\ Elems(Session) = {"token", "keep"} /\ Session[1] = "token"
  BY SessionList
<1>2. \A s \in Elems(Session) : Placed("guest", s)
  BY <1>1 DEF Placed
<1> QED BY <1>1, <1>2 DEF Ready, Opening, Leader

LEMMA TailLonger ==
  ASSUME NEW a \in Seq(Words), a # <<>>, Len(a) # 1
  PROVE  Tail(a) # <<>> /\ Tail(a) \in Seq(Words) /\ Len(Tail(a)) = Len(a) - 1
<1>1. Len(a) \in Nat /\ Len(a) # 1 /\ Len(a) # 0
  OBVIOUS
<1>2. Len(Tail(a)) = Len(a) - 1 /\ Tail(a) \in Seq(Words) /\ Len(<<>>) = 0
  OBVIOUS
<1>3. Len(Tail(a)) # 0
  BY <1>1, <1>2
<1> QED BY <1>2, <1>3, Zenon

LEMMA InviteLonger ==
  ASSUME NEW op, NEW a, Ready(op, a), a[1] = "invite"
  PROVE  Tail(a) # <<>>
<1>1. a \in Seq(Words) /\ a # <<>> /\ a[Len(a)] # "invite"
  BY DEF Ready, Linked
<1>2. Len(a) # 1
  BY <1>1
<1> QED BY <1>1, <1>2, TailLonger, Zenon

LEMMA OnwardFacts ==
  ASSUME NEW b, IsServed(b), NEW x, Onward(b, x)
  PROVE  /\ IsServed(x) /\ x # Idle /\ x.req = b.req
         /\ x.todo[1] \notin Opening
         /\ x.todo[1] \in DOMAIN Leader => b.todo[1] = Leader[x.todo[1]]
         /\ (Elems(b.todo) \cap Rules) \ {b.todo[1]} \subseteq Elems(x.todo)
         /\ Head(x.todo) = x.todo[1]
<1> DEFINE op == b.req.op
<1>1. Ready(op, b.todo)
  BY DEF IsServed
<1>2. x.req = b.req /\ x.todo # <<>> /\ x # Idle
  <2>1. x.todo # <<>> /\ x = [todo |-> x.todo, req |-> b.req, who |-> x.who, num |-> x.num, unchecked |-> x.unchecked]
    BY DEF Onward
  <2>2. Idle.todo = <<>>
    BY DEF Idle
  <2>3. x.req = b.req
    BY <2>1
  <2> QED BY <2>1, <2>2, <2>3
<1> HIDE DEF op
<1>3. /\ Ready(op, x.todo) /\ x.todo[1] \notin Opening
      /\ x.todo[1] \in DOMAIN Leader => b.todo[1] = Leader[x.todo[1]]
      /\ (Elems(b.todo) \cap Rules) \ {b.todo[1]} \subseteq Elems(x.todo)
      /\ Elems(x.todo) \subseteq Elems(b.todo) \/ b.todo[1] = "device"
  <2>1. CASE x.todo = Tail(b.todo)
    BY <1>1, <1>2, <2>1, TailReady, Zenon
  <2>2. CASE b.todo[1] = "invite" /\ x.todo = Tail(Tail(b.todo))
    <3> DEFINE c == Tail(b.todo)
    <3>0. Tail(b.todo) # <<>>
      BY <1>1, <2>2, InviteLonger, Zenon
    <3>1. /\ Ready(op, c) /\ c[1] = "markInvite" /\ Elems(b.todo) = {b.todo[1]} \cup Elems(c)
      BY <1>1, <2>2, <3>0, TailReady, Zenon
    <3> HIDE DEF c
    <3>2. x.todo = Tail(c)
      BY <2>2 DEF c
    <3>3. /\ Ready(op, Tail(c)) /\ Tail(c)[1] \notin Opening
          /\ Tail(c)[1] \in DOMAIN Leader => c[1] = Leader[Tail(c)[1]]
          /\ Elems(c) = {c[1]} \cup Elems(Tail(c))
      BY <1>2, <3>1, <3>2, TailReady
    <3>4. \A s \in DOMAIN Leader : Leader[s] # "markInvite"
      BY DEF Leader
    <3>5. "markInvite" \notin Rules
      BY DEF Rules
    <3> QED BY <3>1, <3>2, <3>3, <3>4, <3>5
  <2>3. CASE b.todo[1] = "device" /\ x.todo = Session
    <3>1. b.todo[1] \in Elems(b.todo)
      BY <1>1 DEF Ready, Elems
    <3>2. op = "guest"
      BY <1>1, <2>3, <3>1 DEF Ready, Placed
    <3>3. Elems(b.todo) \subseteq {"device", "short", "create", "token", "keep"}
      BY <1>1, <3>2 DEF Ready, Placed
    <3>4. (Elems(b.todo) \cap Rules) \ {b.todo[1]} = {}
      BY <2>3, <3>3 DEF Rules
    <3> QED BY <2>3, <3>2, <3>4, SessionReady
  <2> QED BY <2>1, <2>2, <2>3 DEF Onward
<1>4. x.who \in People \/ ~(x.todo[1] \notin Finders /\ Elems(x.todo) \cap Named # {})
  <2>1. CASE b.todo[1] \in Finders /\ x.who \in People
    BY <2>1
  <2>2. CASE x.who = b.who /\ b.todo[1] \notin Finders
    <3>1. Elems(x.todo) \subseteq Elems(b.todo)
      BY <1>3, <2>2 DEF Finders
    <3> QED BY <2>2, <3>1 DEF IsServed
  <2> QED BY <2>1, <2>2 DEF Onward
<1>5. b.req \in setting.ask
  BY DEF IsServed
<1>6. Head(x.todo) = x.todo[1]
  BY <1>3 DEF Ready
<1>7. x = [todo |-> x.todo, req |-> x.req, who |-> x.who, num |-> x.num, unchecked |-> x.unchecked]
  BY <1>2 DEF Onward
<1> QED BY <1>2, <1>3, <1>4, <1>5, <1>6, <1>7 DEF IsServed, op

LEMMA DoneMoves ==
  ASSUME HandInv, NEW h \in Handlers, Done(h)
  PROVE  Moves(h) /\ hand'[h] = Idle
<1>1. hand' = [hand EXCEPT ![h] = Idle] /\ hand = [g \in Handlers |-> hand[g]]
  BY DEF Done, HandInv
<1> QED BY <1>1 DEF Moves

LEMMA GoMoves ==
  ASSUME HandInv, NEW h \in Handlers, Busy(h), NEW who, NEW num, Go(h, who, num),
         IF hand[h].todo[1] \in Finders THEN who \in People ELSE who = Who(h)
  PROVE  /\ Moves(h)
         /\ hand'[h] # Idle => hand'[h].num = num /\ hand'[h].who = who
<1> DEFINE e == IF Len(hand[h].todo) = 1 THEN Idle
                ELSE [hand[h] EXCEPT !.todo = Tail(hand[h].todo), !.who = who, !.num = num]
<1>0. hand' = [hand EXCEPT ![h] = e]
  BY DEF Go
<1>1. hand = [g \in Handlers |-> hand[g]] /\ IsServed(hand[h])
  BY DEF HandInv
<1> HIDE DEF e
<1>5. /\ hand' = [g \in Handlers |-> hand'[g]]
      /\ \A g \in Handlers \ {h} : hand'[g] = hand[g]
      /\ hand'[h] = e
  BY <1>0, <1>1
<1>2. /\ hand' = [g \in Handlers |-> hand'[g]]
      /\ \A g \in Handlers \ {h} : hand'[g] = hand[g]
      /\ hand'[h] = IF Len(hand[h].todo) = 1 THEN Idle
                    ELSE [hand[h] EXCEPT !.todo = Tail(hand[h].todo), !.who = who, !.num = num]
  BY <1>5 DEF e
<1> DEFINE b == hand[h]  x == hand'[h]
<1>3. CASE Len(b.todo) = 1
  BY <1>2, <1>3 DEF Moves
<1>4. CASE Len(b.todo) # 1
  <2>1. b.todo \in Seq(Words) /\ b.todo # <<>>
    BY <1>1 DEF IsServed, Ready
  <2>2. Tail(b.todo) # <<>>
    BY <1>4, <2>1, TailLonger, Zenon
  <2>3. b = [todo |-> b.todo, req |-> b.req, who |-> b.who, num |-> b.num, unchecked |-> b.unchecked]
    BY <1>1 DEF IsServed
  <2>4. x = [todo |-> Tail(b.todo), req |-> b.req, who |-> who, num |-> num, unchecked |-> b.unchecked]
    BY <1>2, <1>4, <2>3
  <2>5. /\ x = [todo |-> x.todo, req |-> b.req, who |-> x.who, num |-> x.num, unchecked |-> x.unchecked]
        /\ x.todo = Tail(b.todo) /\ x.who = who /\ x.num = num
    BY <2>4
  <2>6. Onward(b, x)
    BY <2>2, <2>5 DEF Onward, Who
  <2> QED BY <1>2, <2>5, <2>6 DEF Moves
<1> QED BY <1>3, <1>4

LEMMA ProceedMoves ==
  ASSUME HandInv, NEW h \in Handlers, Busy(h), Proceed(h), hand[h].todo[1] \notin Finders
  PROVE  Moves(h)
BY GoMoves, Zenon DEF Proceed

LEMMA OnlyMoves ==
  ASSUME HandInv, NEW h \in Handlers, Busy(h), NEW may, Only(h, may),
         hand[h].todo[1] \notin Finders
  PROVE  Moves(h) /\ (hand'[h] # Idle => may)
<1>1. CASE may
  BY <1>1, ProceedMoves DEF Only
<1>2. CASE ~may
  BY <1>2, DoneMoves DEF Only
<1> QED BY <1>1, <1>2

\* Auth lets through, too, when the status cannot be read.
LEMMA AuthMoves ==
  ASSUME HandInv, NEW h \in Handlers, Auth(h)
  PROVE  /\ Moves(h)
         /\ hand'[h] # Idle => user[Who(h)].status = "normal" \/ hand'[h].unchecked
<1>1. Busy(h) /\ hand[h].todo[1] = "auth" /\ IsServed(hand[h])
  BY AtFacts DEF Auth
<1>2. CASE Only(h, user[Who(h)].status = "normal")
  BY <1>1, <1>2, OnlyMoves DEF Finders
<1>4. Tail(hand[h].todo) # <<>>
  <2> DEFINE a == hand[h].todo
  <2>1. Ready(Op(h), a) /\ a[1] = "auth"
    BY <1>1 DEF IsServed, Op, Req
  <2> HIDE DEF a
  <2>2. a \in Seq(Words) /\ a # <<>> /\ Len(a) > 1
    BY <2>1 DEF Ready
  <2>3. Len(a) # 1
    <3>1. Len(a) \in Nat
      BY <2>2
    <3>2. \A n \in Nat : n > 1 => n # 1
      OBVIOUS
    <3> QED BY <2>2, <3>1, <3>2, Zenon
  <2> QED BY <2>2, <2>3, TailLonger, Zenon DEF a
<1>3. CASE hand' = [hand EXCEPT ![h].todo = Tail(@), ![h].unchecked = TRUE]
  <2> DEFINE b == hand[h]  x == hand'[h]
  <2>0. hand = [g \in Handlers |-> hand[g]]
    BY DEF HandInv
  <2>1. b = [todo |-> b.todo, req |-> b.req, who |-> b.who, num |-> b.num, unchecked |-> b.unchecked]
    BY <1>1 DEF IsServed
  <2>2. /\ hand' = [g \in Handlers |-> hand'[g]]
        /\ \A g \in Handlers \ {h} : hand'[g] = hand[g]
        /\ x = [todo |-> Tail(b.todo), req |-> b.req, who |-> b.who, num |-> b.num, unchecked |-> TRUE]
    BY <1>3, <2>0, <2>1
  <2>3. /\ x = [todo |-> x.todo, req |-> b.req, who |-> x.who, num |-> x.num, unchecked |-> x.unchecked]
        /\ x.todo = Tail(b.todo) /\ x.who = b.who /\ x.unchecked
    BY <2>2
  <2>5. b.todo[1] \notin Finders
    BY <1>1 DEF Finders
  <2>6. Onward(b, x)
    BY <1>4, <2>3, <2>5 DEF Onward
  <2> QED BY <2>2, <2>3, <2>6 DEF Moves
<1> QED BY <1>2, <1>3 DEF Auth

LEMMA InviteMoves ==
  ASSUME HandInv, NEW h \in Handlers, Invite(h)
  PROVE  /\ Moves(h)
         /\ hand'[h] # Idle => Unused(Req(h).inv) \/ Req(h).inv \in FriendCodes
<1>1. Busy(h) /\ hand[h].todo[1] = "invite" /\ IsServed(hand[h])
  BY AtFacts DEF Invite
<1>2. CASE Only(h, Unused(Req(h).inv))
  BY <1>1, <1>2, OnlyMoves DEF Finders
<1>3. CASE /\ Req(h).inv \in FriendCodes
           /\ hand' = [hand EXCEPT ![h] = IF Len(hand[h].todo) = 2 THEN Idle
                                          ELSE [hand[h] EXCEPT !.todo = Tail(Tail(hand[h].todo))]]
  <2> DEFINE b == hand[h]  x == hand'[h]
  <2>0. hand = [g \in Handlers |-> hand[g]]
    BY DEF HandInv
  <2>1. b = [todo |-> b.todo, req |-> b.req, who |-> b.who, num |-> b.num, unchecked |-> b.unchecked]
    BY <1>1 DEF IsServed
  <2>2. /\ hand' = [g \in Handlers |-> hand'[g]]
        /\ \A g \in Handlers \ {h} : hand'[g] = hand[g]
        /\ x = IF Len(b.todo) = 2 THEN Idle ELSE [b EXCEPT !.todo = Tail(Tail(b.todo))]
    <3> DEFINE e == IF Len(b.todo) = 2 THEN Idle ELSE [b EXCEPT !.todo = Tail(Tail(b.todo))]
    <3>1. hand' = [hand EXCEPT ![h] = e]
      BY <1>3
    <3> HIDE DEF e
    <3>2. /\ hand' = [g \in Handlers |-> hand'[g]]
          /\ \A g \in Handlers \ {h} : hand'[g] = hand[g]
          /\ hand'[h] = e
      BY <2>0, <3>1
    <3> QED BY <3>2 DEF e
  <2>3. CASE Len(b.todo) = 2
    BY <1>3, <2>2, <2>3 DEF Moves
  <2>4. CASE Len(b.todo) # 2
    <3>1. x = [todo |-> Tail(Tail(b.todo)), req |-> b.req, who |-> b.who, num |-> b.num,
               unchecked |-> b.unchecked]
      BY <2>1, <2>2, <2>4
    <3>2. /\ x = [todo |-> x.todo, req |-> b.req, who |-> x.who, num |-> x.num, unchecked |-> x.unchecked]
          /\ x.todo = Tail(Tail(b.todo)) /\ x.who = b.who
      BY <3>1
    <3>3. Tail(Tail(b.todo)) # <<>>
      <4>1. b.todo \in Seq(Words) /\ b.todo # <<>> /\ Tail(b.todo) # <<>>
        BY <1>1, InviteLonger DEF IsServed, Ready
      <4>2. Len(b.todo) # 1
        BY <1>1, <4>1 DEF IsServed, Ready, Linked
      <4>3. Tail(b.todo) \in Seq(Words) /\ Len(Tail(b.todo)) = Len(b.todo) - 1
        BY <4>1, <4>2, TailLonger, Zenon
      <4>4. Len(b.todo) \in Nat
        BY <4>1
      <4>5. Len(Tail(b.todo)) # 1
        BY <2>4, <4>3, <4>4
      <4> QED BY <4>1, <4>3, <4>5, TailLonger, Zenon
    <3>4. b.todo[1] \notin Finders
      BY <1>1 DEF Finders
    <3>5. Onward(b, x)
      BY <1>1, <3>2, <3>3, <3>4 DEF Onward
    <3> QED BY <1>3, <2>2, <3>5 DEF Moves
  <2> QED BY <2>3, <2>4
<1> QED BY <1>2, <1>3 DEF Invite

LEMMA DeviceMoves ==
  ASSUME HandInv, NEW h \in Handlers, FindDevice(h)
  PROVE  /\ Moves(h)
         /\ hand'[h] # Idle => \/ hand'[h].who \in OfDevice(Req(h).who)
                               \/ OfDevice(Req(h).who) = {}
<1>1. Busy(h) /\ hand[h].todo[1] = "device" /\ IsServed(hand[h])
  BY AtFacts DEF FindDevice
<1>2. ASSUME NEW g \in Guests, OfDevice(Req(h).who) = {}, Go(h, g, 0)
      PROVE  Moves(h)
  <2>1. g \in People
    BY DEF People
  <2> QED BY <1>1, <1>2, <2>1, GoMoves DEF Finders
<1>3. ASSUME NEW g \in OfDevice(Req(h).who),
             hand' = [hand EXCEPT ![h].todo = Session, ![h].who = g]
      PROVE  Moves(h) /\ hand'[h].who = g
  <2> DEFINE b == hand[h]  x == hand'[h]
  <2>0. hand = [f \in Handlers |-> hand[f]]
    BY DEF HandInv
  <2>1. b = [todo |-> b.todo, req |-> b.req, who |-> b.who, num |-> b.num, unchecked |-> b.unchecked]
    BY <1>1 DEF IsServed
  <2>2. /\ hand' = [f \in Handlers |-> hand'[f]]
        /\ \A f \in Handlers \ {h} : hand'[f] = hand[f]
        /\ x = [todo |-> Session, req |-> b.req, who |-> g, num |-> b.num, unchecked |-> b.unchecked]
    BY <1>3, <2>0, <2>1
  <2>3. /\ x = [todo |-> x.todo, req |-> b.req, who |-> x.who, num |-> x.num, unchecked |-> x.unchecked]
        /\ x.todo = Session /\ x.who = g
    BY <2>2
  <2>4. g \in People
    BY DEF OfDevice, People
  <2>5. Onward(b, x)
    BY <1>1, <2>3, <2>4, SessionList DEF Onward, Finders
  <2> QED BY <2>2, <2>3, <2>5 DEF Moves
<1> QED BY <1>2, <1>3 DEF FindDevice

-----------------------------------------------------------------------------
(* What a request that goes on has found.                                  *)

Found(h) ==
  hand'[h] # Idle =>
    /\ hand[h].todo[1] \notin barred'[h]
    /\ hand[h].todo[1] = "captcha" => Has(Key("captcha", Req(h).cap))
    /\ hand[h].todo[1] = "code" => Stored(CodeKey(Req(h)), Req(h).code)
    /\ hand[h].todo[1] = "token" => hand'[h].num = now
    /\ hand[h].todo[1] = "incr" => hand'[h].num = Count(RateKey(Req(h))) + 1

Outcome(h) == Moves(h) /\ Found(h)

LEMMA UnmetAreRules == \A h : Unmet(h) \subseteq Rules \cap Elems(Statements(Op(h)))
<1> SUFFICES ASSUME NEW h, NEW s \in Unmet(h) PROVE s \in Rules /\ s \in Elems(Statements(Op(h)))
  OBVIOUS
<1> QED BY DEF Unmet, Rules, Op, Req

\* The rules that forbid a request are noted anew after each step.
LEMMA Noted ==
  ASSUME HandInv, BarredInv, NoteBarred, NEW h \in Handlers, Busy(h), hand'[h] # Idle
  PROVE  /\ barred'[h] \subseteq barred[h] /\ barred'[h] \subseteq Unmet(h)'
         /\ barred[h] \subseteq Unmet(h) /\ barred[h] \subseteq Elems(hand[h].todo)
         /\ barred'[h] \subseteq Rules
<1>1. barred'[h] = barred[h] \cap Unmet(h)'
  BY DEF NoteBarred, Busy
<1>2. barred[h] \subseteq Unmet(h) \cap Elems(hand[h].todo)
  BY DEF BarredInv
<1>3. Unmet(h) \subseteq Rules
  BY UnmetAreRules
<1> QED BY <1>1, <1>2, <1>3

\* A statement that checks nothing.
LEMMA QuietOutcome ==
  ASSUME HandInv, BarredInv, NoteBarred, NEW h \in Handlers, NEW s, At(h, s),
         s \notin Rules, s \notin {"token", "incr"},
         Done(h) \/ Proceed(h) \/ (\E num : Go(h, Who(h), num)) \/ (\E may : Only(h, may))
  PROVE  Outcome(h)
<1>1. Busy(h) /\ hand[h].todo[1] = s
  BY AtFacts
<1>2. hand[h].todo[1] \notin Finders
  BY <1>1 DEF Finders, Rules
<1>3. Moves(h)
  <2>1. CASE Done(h)
    BY <2>1, DoneMoves
  <2>2. CASE Proceed(h)
    BY <1>1, <1>2, <2>2, ProceedMoves
  <2>3. ASSUME NEW num, Go(h, Who(h), num) PROVE Moves(h)
    BY <1>1, <1>2, <2>3, GoMoves, Zenon
  <2>4. ASSUME NEW may, Only(h, may) PROVE Moves(h)
    BY <1>1, <1>2, <2>4, OnlyMoves, Zenon
  <2> QED BY <2>1, <2>2, <2>3, <2>4
<1>4. hand'[h] # Idle => barred'[h] \subseteq Rules
  BY <1>1, Noted
<1>5. "captcha" \in Rules /\ "code" \in Rules
  BY DEF Rules
<1> QED BY <1>1, <1>3, <1>4, <1>5 DEF Outcome, Found

\* A statement that lets through what is allowed.
LEMMA CheckOutcome ==
  ASSUME HandInv, BarredInv, NoteBarred, NEW h \in Handlers, NEW s, At(h, s),
         s \in Rules \ Finders, NEW may, Only(h, may), may => s \notin barred[h],
         s = "captcha" /\ may => Has(Key("captcha", Req(h).cap)),
         s = "code" /\ may => Stored(CodeKey(Req(h)), Req(h).code)
  PROVE  Outcome(h)
<1>1. Busy(h) /\ hand[h].todo[1] = s
  BY AtFacts
<1>2. hand[h].todo[1] \notin Finders
  BY <1>1
<1>3. Moves(h) /\ (hand'[h] # Idle => may)
  BY <1>1, <1>2, OnlyMoves
<1>4. hand'[h] # Idle => barred'[h] \subseteq barred[h]
  BY <1>1, Noted
<1>5. s # "token" /\ s # "incr"
  BY DEF Rules
<1> QED BY <1>1, <1>3, <1>4, <1>5 DEF Outcome, Found

LEMMA UnmetMeans ==
  ASSUME NEW h
  PROVE  /\ "captcha" \in Unmet(h) =>
              ~Has(Key("captcha", Req(h).cap)) \/ <<"captcha", Req(h).cap>> \in spent
         /\ "code" \in Unmet(h) =>
              ~Stored(CodeKey(Req(h)), Req(h).code) \/ <<"code", Req(h).code>> \in spent
         /\ "invite" \in Unmet(h) =>
              /\ Req(h).inv \notin FriendCodes
              /\ ~Unused(Req(h).inv) \/ <<"invite", Req(h).inv>> \in spent
         /\ "expire" \in Unmet(h) => Count(RateKey(Req(h))) >= Limit(Op(h))
         /\ "count" \in Unmet(h) => user[Who(h)].status # "none"
         /\ "device" \in Unmet(h) => OfDevice(Req(h).who) # {} /\ Who(h) \notin OfDevice(Req(h).who)
         /\ "auth" \in Unmet(h) => user[Who(h)].status # "normal" /\ ~hand[h].unchecked
         /\ "password" \in Unmet(h) => \/ user[Who(h)].pwd # Req(h).pwd
                                       \/ Op(h) = "login" /\ user[Who(h)].status # "normal"
         /\ "phone" \in Unmet(h) => OtherHas(h)
         /\ "stored" \in Unmet(h) => ~Stored(RefreshKey(Who(h)), hand[h].num)
         /\ "status" \in Unmet(h) => user[Who(h)].status # "normal"
         /\ "look" \in Unmet(h) => \/ ~Has(TicketKey(h)) \/ Ticket(h).status = "confirmed"
                                   \/ Op(h) = "qrScan" /\ Ticket(h).status = "scanned"
         /\ "poll" \in Unmet(h) => \/ Req(h).tick \in ended \/ ~Has(TicketKey(h))
                                   \/ Ticket(h).status # "confirmed"
BY DEF Unmet, Op

LEMMA ChecksOutcome ==
  ASSUME Inv, NoteBarred, NEW h \in Handlers, Checks(h), UNCHANGED <<setting, now, asked>>
  PROVE  Outcome(h)
<1> USE DEF Inv, StoreInv
<1>0. /\ Busy(h) => barred[h] \subseteq Unmet(h)
      /\ \A s : At(h, s) => Busy(h) /\ hand[h].todo[1] = s /\ IsServed(hand[h])
  BY AtFacts DEF BarredInv
<1>1. CASE Auth(h)
  <2>1. Moves(h) /\ (hand'[h] # Idle => user[Who(h)].status = "normal" \/ hand'[h].unchecked)
    BY <1>1, AuthMoves
  <2>2. Busy(h) /\ hand[h].todo[1] = "auth"
    BY <1>0, <1>1 DEF Auth
  <2>3. ASSUME hand'[h] # Idle PROVE "auth" \notin barred'[h]
    <3>1. barred'[h] \subseteq barred[h] /\ barred'[h] \subseteq Unmet(h)'
      BY <2>2, <2>3, Noted
    <3>2. CASE user[Who(h)].status = "normal"
      BY <1>0, <2>2, <3>1, <3>2, UnmetMeans
    <3>3. CASE hand'[h].unchecked
      <4>1. "auth" \notin Unmet(h)'
        BY <3>3 DEF Unmet
      <4> QED BY <3>1, <4>1
    <3> QED BY <2>1, <2>3, <3>2, <3>3
  <2> QED BY <2>1, <2>2, <2>3 DEF Outcome, Found
<1>2. CASE VerifyCaptcha(h)
  <2>1. At(h, "captcha") /\ Only(h, Has(Key("captcha", Req(h).cap)))
    BY <1>2 DEF VerifyCaptcha
  <2>2. Has(Key("captcha", Req(h).cap)) => "captcha" \notin barred[h]
    BY <1>0, <2>1, UnmetMeans DEF DrawsInv
  <2>3. "captcha" \in Rules \ Finders
    BY DEF Rules, Finders
  <2> QED BY <2>1, <2>2, <2>3, CheckOutcome
<1>3. CASE VerifyCode(h)
  <2>1. At(h, "code") /\ Only(h, Stored(CodeKey(Req(h)), Req(h).code))
    BY <1>3 DEF VerifyCode
  <2>2. Stored(CodeKey(Req(h)), Req(h).code) => "code" \notin barred[h]
    <3>1. CodeKey(Req(h))[1] \in CodeKinds
      BY DEF CodeKey, CodeKind, Key, CodeKinds
    <3>2. Stored(CodeKey(Req(h)), Req(h).code) => <<"code", Req(h).code>> \notin spent
      BY <3>1 DEF DrawsInv, Stored, Has
    <3> QED BY <1>0, <2>1, <3>2, UnmetMeans
  <2>3. "code" \in Rules \ Finders
    BY DEF Rules, Finders
  <2> QED BY <2>1, <2>2, <2>3, CheckOutcome
<1>4. CASE RateLimit(h)
  <2>1. At(h, "expire") /\ Only(h, hand[h].num <= Limit(Op(h)))
    BY <1>4 DEF RateLimit
  <2>2. hand[h].num <= Limit(Op(h)) => "expire" \notin barred[h]
    <3>1. Limit(Op(h)) \in Nat
      BY AccountsAssumption DEF Limit
    <3>2. "expire" \in barred[h] => hand[h].num \in Nat /\ hand[h].num > Limit(Op(h))
      BY <2>1 DEF PairsInv
    <3> QED BY <3>1, <3>2
  <2>3. "expire" \in Rules \ Finders
    BY DEF Rules, Finders
  <2> QED BY <2>1, <2>2, <2>3, CheckOutcome
<1>5. CASE Invite(h)
  <2>1. Moves(h) /\ (hand'[h] # Idle => Unused(Req(h).inv) \/ Req(h).inv \in FriendCodes)
    BY <1>5, InviteMoves
  <2>2. Busy(h) /\ hand[h].todo[1] = "invite"
    BY <1>0, <1>5 DEF Invite
  <2>3. ASSUME hand'[h] # Idle PROVE "invite" \notin barred'[h]
    <3>1. barred'[h] \subseteq barred[h]
      BY <2>2, <2>3, Noted
    <3>2. "invite" \notin Unmet(h)
      BY <2>1, <2>3, UnmetMeans DEF RowsInv
    <3> QED BY <1>0, <2>2, <3>1, <3>2
  <2> QED BY <2>1, <2>2, <2>3 DEF Outcome, Found
<1>6. CASE CountAccount(h)
  <2>1. At(h, "count") /\ Only(h, user[Who(h)].status = "none")
    BY <1>6 DEF CountAccount
  <2>2. user[Who(h)].status = "none" => "count" \notin barred[h]
    BY <1>0, <2>1, UnmetMeans
  <2>3. "count" \in Rules \ Finders
    BY DEF Rules, Finders
  <2> QED BY <2>1, <2>2, <2>3, CheckOutcome
<1>7. CASE FindDevice(h)
  <2>1. /\ Moves(h)
        /\ hand'[h] # Idle => \/ hand'[h].who \in OfDevice(Req(h).who)
                              \/ OfDevice(Req(h).who) = {}
    BY <1>7, DeviceMoves
  <2>2. Busy(h) /\ hand[h].todo[1] = "device" /\ user' = user
    BY <1>0, <1>7 DEF FindDevice, Rows
  <2>3. ASSUME hand'[h] # Idle PROVE "device" \notin barred'[h]
    <3>1. barred'[h] \subseteq barred[h] /\ barred'[h] \subseteq Unmet(h)'
      BY <2>2, <2>3, Noted
    <3>2. CASE OfDevice(Req(h).who) = {}
      BY <1>0, <2>2, <3>1, <3>2, UnmetMeans
    <3>3. CASE hand'[h].who \in OfDevice(Req(h).who)
      <4>1. hand'[h].req = hand[h].req
        BY <2>1, <2>3 DEF Moves, Onward
      <4>2. hand'[h].who \in {g \in Guests : user'[g].device = hand'[h].req.who}
        BY <2>2, <3>3, <4>1 DEF OfDevice, Req
      <4>3. "device" \notin Unmet(h)'
        BY <4>2 DEF Unmet, OfDevice, Req, Who
      <4> QED BY <3>1, <4>3
    <3> QED BY <2>1, <2>3, <3>2, <3>3
  <2> QED BY <2>1, <2>2, <2>3 DEF Outcome, Found
<1>8. CASE Password(h)
  <2> DEFINE may == /\ user[Who(h)].pwd = Req(h).pwd
                    /\ Op(h) = "login" => user[Who(h)].status = "normal"
  <2>1. At(h, "password") /\ Only(h, may)
    BY <1>8 DEF Password
  <2>2. may => "password" \notin barred[h]
    BY <1>0, <2>1, UnmetMeans
  <2>3. "password" \in Rules \ Finders
    BY DEF Rules, Finders
  <2> HIDE DEF may
  <2> QED BY <2>1, <2>2, <2>3, CheckOutcome
<1>9. CASE CountPhone(h)
  <2>1. At(h, "phone") /\ Only(h, ~OtherHas(h))
    BY <1>9 DEF CountPhone
  <2>2. ~OtherHas(h) => "phone" \notin barred[h]
    BY <1>0, <2>1, UnmetMeans
  <2>3. "phone" \in Rules \ Finders
    BY DEF Rules, Finders
  <2> QED BY <2>1, <2>2, <2>3, CheckOutcome
<1>10. CASE RefreshStored(h)
  <2>1. At(h, "stored") /\ Only(h, Stored(RefreshKey(Who(h)), hand[h].num))
    BY <1>10 DEF RefreshStored
  <2>2. Stored(RefreshKey(Who(h)), hand[h].num) => "stored" \notin barred[h]
    BY <1>0, <2>1, UnmetMeans
  <2>3. "stored" \in Rules \ Finders
    BY DEF Rules, Finders
  <2> QED BY <2>1, <2>2, <2>3, CheckOutcome
<1>11. CASE RefreshStatus(h)
  <2>1. At(h, "status") /\ Only(h, user[Who(h)].status = "normal")
    BY <1>11 DEF RefreshStatus, Stands
  <2>2. user[Who(h)].status = "normal" => "status" \notin barred[h]
    BY <1>0, <2>1, UnmetMeans
  <2>3. "status" \in Rules \ Finders
    BY DEF Rules, Finders
  <2> QED BY <2>1, <2>2, <2>3, CheckOutcome
<1>12. CASE LookAt(h)
  <2> DEFINE may == Has(TicketKey(h)) /\ Ticket(h).status \in Awaited(Op(h))
  <2>1. At(h, "look") /\ Only(h, may)
    BY <1>12 DEF LookAt
  <2>2. may => "look" \notin barred[h]
    <3>1. may => /\ Has(TicketKey(h)) /\ Ticket(h).status # "confirmed"
                 /\ Op(h) = "qrScan" => Ticket(h).status # "scanned"
      BY DEF Awaited
    <3> QED BY <1>0, <2>1, <3>1, UnmetMeans
  <2>3. "look" \in Rules \ Finders
    BY DEF Rules, Finders
  <2> HIDE DEF may
  <2> QED BY <2>1, <2>2, <2>3, CheckOutcome
<1>13. CASE Poll(h)
  <2>1. Busy(h) /\ hand[h].todo[1] = "poll"
    BY <1>0, <1>13 DEF Poll
  <2>2. CASE Done(h)
    BY <2>1, <2>2, DoneMoves DEF Outcome, Found
  <2>3. CASE Has(TicketKey(h)) /\ Takable(Ticket(h)) /\ Go(h, Ticket(h).uid, 0)
    <3>1. Ticket(h).uid \in People
      <4>1. HasType(TicketKey(h), redis[TicketKey(h)]) /\ TicketKey(h)[1] = "ticket"
        BY <2>3 DEF KeysInv, Has, TicketKey, Key
      <4> QED BY <2>3, <4>1 DEF HasType, Takable, Ticket
    <3>2. hand[h].todo[1] \in Finders
      BY <2>1 DEF Finders
    <3>3. Moves(h)
      BY <2>1, <2>3, <3>1, <3>2, GoMoves
    <3>4. Req(h).tick \notin ended
      <4>1. Has(Key("ticket", Req(h).tick)) /\ redis[Key("ticket", Req(h).tick)].val.secret
        BY <2>3 DEF TicketKey, Takable, Ticket
      <4> QED BY <4>1 DEF EndedInv
    <3>5. "poll" \notin Unmet(h)
      BY <2>3, <3>4, UnmetMeans DEF Takable
    <3>6. hand'[h] # Idle => barred'[h] \subseteq barred[h]
      BY <2>1, Noted
    <3> QED BY <1>0, <2>1, <3>3, <3>5, <3>6 DEF Outcome, Found
  <2> QED BY <1>13, <2>2, <2>3 DEF Poll
<1> QED BY <1>1, <1>2, <1>3, <1>4, <1>5, <1>6, <1>7, <1>8, <1>9, <1>10, <1>11, <1>12, <1>13 DEF Checks

LEMMA IncrOutcome ==
  ASSUME Inv, NoteBarred, NEW h \in Handlers, Incr(h)
  PROVE  Outcome(h)
<1> USE DEF Inv, StoreInv
<1>1. Busy(h) /\ hand[h].todo[1] = "incr"
  BY AtFacts DEF Incr
<1>2. Go(h, Who(h), Count(RateKey(Req(h))) + 1)
  BY DEF Incr
<1>3. hand[h].todo[1] \notin Finders /\ "incr" \notin Rules
  BY <1>1 DEF Finders, Rules
<1>4. Moves(h) /\ (hand'[h] # Idle => hand'[h].num = Count(RateKey(Req(h))) + 1)
  BY <1>1, <1>2, <1>3, GoMoves
<1>5. hand'[h] # Idle => barred'[h] \subseteq Rules
  BY <1>1, Noted
<1> QED BY <1>1, <1>3, <1>4, <1>5 DEF Outcome, Found

LEMMA TokenOutcome ==
  ASSUME Inv, NoteBarred, NEW h \in Handlers, Token(h)
  PROVE  Outcome(h)
<1> USE DEF Inv, StoreInv
<1>1. Busy(h) /\ hand[h].todo[1] = "token"
  BY AtFacts DEF Token
<1>2. Go(h, Who(h), now)
  BY DEF Token
<1>3. hand[h].todo[1] \notin Finders /\ "token" \notin Rules
  BY <1>1 DEF Finders, Rules
<1>4. Moves(h) /\ (hand'[h] # Idle => hand'[h].num = now)
  BY <1>1, <1>2, <1>3, GoMoves
<1>5. hand'[h] # Idle => barred'[h] \subseteq Rules
  BY <1>1, Noted
<1> QED BY <1>1, <1>3, <1>4, <1>5 DEF Outcome, Found

\* The statements that check nothing.
LEMMA OthersQuiet ==
  ASSUME NEW h \in Handlers, Writes(h) \/ Computes(h)
  PROVE  \/ Incr(h) \/ Token(h)
         \/ \E s \in {"newCaptcha", "dropCaptcha", "store", "dropCode", "markInvite", "create",
                      "setPwd", "ban", "unban", "bind", "keep", "dropToken", "ticket", "ttl",
                      "scan", "confirm", "dropTicket", "send", "short", "renew"} :
              /\ At(h, s)
              /\ \/ Done(h) \/ Proceed(h)
                 \/ \E num : Go(h, Who(h), num)
                 \/ \E may : Only(h, may)
<1>1. Captcha(h) => At(h, "newCaptcha") /\ Done(h)
  BY DEF Captcha
<1>2. DropCaptcha(h) => At(h, "dropCaptcha") /\ Proceed(h)
  BY DEF DropCaptcha
<1>3. StoreCode(h) => At(h, "store") /\ Proceed(h)
  BY DEF StoreCode
<1>4. DropCode(h) => At(h, "dropCode") /\ Proceed(h)
  BY DEF DropCode
<1>5. MarkInvite(h) => At(h, "markInvite") /\ (Proceed(h) \/ \E may : Only(h, may))
  BY DEF MarkInvite
<1>6. Create(h) => At(h, "create") /\ (Proceed(h) \/ Done(h))
  BY DEF Create
<1>7. /\ SetPassword(h) => At(h, "setPwd") /\ Proceed(h)
      /\ Ban(h) => At(h, "ban") /\ Proceed(h)
      /\ Unban(h) => At(h, "unban") /\ Proceed(h)
      /\ Bind(h) => At(h, "bind") /\ Proceed(h)
  BY DEF SetPassword, Ban, Unban, Bind, Update
<1>8. /\ Keep(h) => At(h, "keep") /\ Proceed(h)
      /\ DropToken(h) => At(h, "dropToken") /\ Proceed(h)
  BY DEF Keep, DropToken
<1>9. /\ CreateTicket(h) => At(h, "ticket") /\ Proceed(h)
      /\ TicketTTL(h) => At(h, "ttl") /\ Proceed(h)
      /\ DropTicket(h) => At(h, "dropTicket") /\ Proceed(h)
  BY DEF CreateTicket, TicketTTL, DropTicket
<1>10. /\ Scan(h) => At(h, "scan") /\ Proceed(h)
       /\ Confirm(h) => At(h, "confirm") /\ Proceed(h)
  BY DEF Scan, Confirm, Mark
<1>11. /\ SendCode(h) => At(h, "send") /\ (Proceed(h) \/ Done(h))
       /\ GenShort(h) => At(h, "short") /\ \E num : Go(h, Who(h), num)
       /\ Renew(h) => At(h, "renew") /\ Done(h)
  BY DEF SendCode, GenShort, Renew
<1> QED BY <1>1, <1>2, <1>3, <1>4, <1>5, <1>6, <1>7, <1>8, <1>9, <1>10, <1>11 DEF Writes, Computes

LEMMA ServeOutcome ==
  ASSUME Inv, NEW h \in Handlers, Serve(h)
  PROVE  Outcome(h)
<1>1. NoteBarred /\ UNCHANGED <<setting, now, asked>>
  BY DEF Serve
<1>2. CASE Checks(h)
  BY <1>1, <1>2, ChecksOutcome
<1>3. CASE Writes(h) \/ Computes(h)
  <2>1. CASE Incr(h)
    BY <1>1, <2>1, IncrOutcome
  <2>2. CASE Token(h)
    BY <1>1, <2>2, TokenOutcome
  <2>3. ASSUME NEW s \in {"newCaptcha", "dropCaptcha", "store", "dropCode", "markInvite", "create",
                      "setPwd", "ban", "unban", "bind", "keep", "dropToken", "ticket", "ttl",
                      "scan", "confirm", "dropTicket", "send", "short", "renew"}, At(h, s),
               \/ Done(h) \/ Proceed(h)
               \/ \E num : Go(h, Who(h), num)
               \/ \E may : Only(h, may)
        PROVE  Outcome(h)
    <3>1. s \notin Rules /\ s \notin {"token", "incr"}
      BY <2>3 DEF Rules
    <3>2. HandInv /\ BarredInv
      BY DEF Inv
    <3> QED BY <1>1, <2>3, <3>1, <3>2, QuietOutcome
  <2> QED BY <1>3, <2>1, <2>2, <2>3, OthersQuiet
<1> QED BY <1>2, <1>3 DEF Serve

-----------------------------------------------------------------------------
(* What a request that moves keeps of the requests.                        *)

LEMMA MovesHand ==
  ASSUME HandInv, NEW h \in Handlers, Busy(h), Moves(h), setting' = setting
  PROVE  HandInv'
<1>1. IsServed(hand[h])
  BY DEF HandInv
<1>2. hand'[h] # Idle => IsServed(hand'[h])
  BY <1>1, OnwardFacts DEF Moves
<1>3. \A g \in Handlers : hand'[g] # Idle => IsServed(hand'[g])
  BY <1>2 DEF Moves, HandInv, Busy
<1>4. \A g \in Handlers : hand'[g] # Idle => IsServed(hand[g])'
  BY <1>3 DEF IsServed
<1> QED BY <1>4 DEF HandInv, Busy, Moves

LEMMA MovesBarred ==
  ASSUME HandInv, BarredInv, NoteBarred, NEW h \in Handlers, Busy(h), Outcome(h)
  PROVE  BarredInv'
<1>1. ASSUME NEW g \in Handlers, hand'[g] # Idle
      PROVE  barred'[g] \subseteq Unmet(g)' \cap Elems(hand'[g].todo)
  <2>1. CASE g = h
    <3>1. /\ barred'[h] \subseteq barred[h] /\ barred'[h] \subseteq Unmet(h)'
          /\ barred[h] \subseteq Elems(hand[h].todo) /\ barred'[h] \subseteq Rules
      BY <1>1, <2>1, Noted
    <3>2. IsServed(hand[h]) /\ Onward(hand[h], hand'[h])
      BY <1>1, <2>1 DEF HandInv, Outcome, Moves
    <3>3. (Elems(hand[h].todo) \cap Rules) \ {hand[h].todo[1]} \subseteq Elems(hand'[h].todo)
      BY <3>2, OnwardFacts
    <3>4. hand[h].todo[1] \notin barred'[h]
      BY <1>1, <2>1 DEF Outcome, Found
    <3> QED BY <2>1, <3>1, <3>3, <3>4
  <2>2. CASE g # h
    <3>1. hand'[g] = hand[g] /\ Busy(g)
      BY <1>1, <2>2 DEF Outcome, Moves, Busy
    <3> QED BY <1>1, <3>1, Noted
  <2> QED BY <2>1, <2>2
<1> QED BY <1>1 DEF BarredInv, Busy

\* What a statement may do to the stores, as far as other requests see it.
Mild(h) ==
  /\ drawn' \in Nat /\ drawn' >= drawn
  /\ \A k \in DOMAIN redis' : k[1] \in CodeKinds =>
       \/ k \in DOMAIN redis /\ redis'[k].val = redis[k].val
       \/ redis'[k].val > drawn
  /\ \A t : Known(t) => Known(t)'
  /\ \A t : Known(t)' => Known(t) \/ (At(h, "ticket") /\ t = Req(h).tick)

\* Where a request is after a statement, and where it was.
LEMMA MovesAt ==
  ASSUME HandInv, NEW h \in Handlers, Busy(h), Moves(h), NEW s, At(h, s)'
  PROVE  /\ hand'[h] # Idle /\ hand'[h].req = hand[h].req /\ s \notin Opening
         /\ s \in DOMAIN Leader => hand[h].todo[1] = Leader[s]
<1>1. hand'[h] # Idle /\ Head(hand'[h].todo) = s
  BY DEF At, Idle
<1>2. IsServed(hand[h]) /\ Onward(hand[h], hand'[h])
  BY <1>1 DEF HandInv, Moves
<1> QED BY <1>1, <1>2, OnwardFacts

LEMMA MovesTickets ==
  ASSUME HandInv, TicketsInv, NEW h \in Handlers, Busy(h), Moves(h), Mild(h)
  PROVE  TicketsInv'
<1>1. ASSUME NEW g \in Handlers, hand'[g] # Idle
      PROVE  Busy(g) /\ hand'[g].req = hand[g].req
  <2>1. CASE g = h
    BY <1>1, <2>1 DEF Moves, Onward
  <2>2. CASE g # h
    BY <1>1, <2>2 DEF Moves, Busy
  <2> QED BY <2>1, <2>2
<1>2. ASSUME NEW g \in Handlers, hand'[g] # Idle
      PROVE  /\ Op(g)' \in {"qrScan", "qrConfirm", "qrPoll"} => Known(Req(g).tick)'
             /\ Op(g)' = "qrCreate" =>
                  \A f \in Handlers : hand'[f] # Idle /\ Op(f)' = "qrCreate" => f = g
  <2>1. \A f \in Handlers : hand'[f] # Idle => Busy(f) /\ Op(f)' = Op(f) /\ Req(f)' = Req(f)
    BY <1>1 DEF Op, Req
  <2>2. Op(g) \in {"qrScan", "qrConfirm", "qrPoll"} => Known(Req(g).tick)
    BY <1>2, <2>1 DEF TicketsInv
  <2>3. \A t : Known(t) => Key("ticket", t) \in DOMAIN redis' \/ t \in ended'
    BY DEF Mild, Known, Has
  <2>4. Op(g) \in {"qrScan", "qrConfirm", "qrPoll"} =>
          Key("ticket", Req(g)'.tick) \in DOMAIN redis' \/ Req(g)'.tick \in ended'
    BY <1>2, <2>1, <2>2, <2>3
  <2>5. Op(g)' \in {"qrScan", "qrConfirm", "qrPoll"} => Known(Req(g).tick)'
    BY <1>2, <2>1, <2>4 DEF Known, Has
  <2> QED BY <1>2, <2>1, <2>5 DEF TicketsInv
<1>3. ASSUME NEW g \in Handlers, At(g, "ticket")'
      PROVE  ~Known(Req(g).tick)'
  <2>1. g # h
    BY <1>3, MovesAt DEF Opening
  <2>2. hand'[g] = hand[g] /\ At(g, "ticket")
    BY <1>3, <2>1 DEF Moves, At
  <2>3. Busy(g) /\ Op(g) = "qrCreate"
    <3>1. Busy(g) /\ "ticket" \in Elems(hand[g].todo) /\ IsServed(hand[g])
      BY <2>2, AtFacts
    <3> QED BY <3>1 DEF IsServed, Ready, Placed, Op, Req
  <2>4. ~Known(Req(g).tick)
    BY <2>2, <2>3 DEF TicketsInv
  <2>5. ~At(h, "ticket")
    <3>1. SUFFICES ASSUME At(h, "ticket") PROVE FALSE
      OBVIOUS
    <3>2. "ticket" \in Elems(hand[h].todo) /\ IsServed(hand[h])
      BY <3>1, AtFacts
    <3>3. Op(h) = "qrCreate"
      BY <3>2 DEF IsServed, Ready, Placed, Op, Req
    <3> QED BY <2>1, <2>3, <3>3 DEF TicketsInv
  <2>6. \A t : Key("ticket", t) \in DOMAIN redis' \/ t \in ended' => Known(t)
    BY <2>5 DEF Mild, Known, Has
  <2>7. Req(g)' = Req(g)
    BY <2>2 DEF Req
  <2>8. ~(Key("ticket", Req(g)'.tick) \in DOMAIN redis' \/ Req(g)'.tick \in ended')
    BY <2>4, <2>6, <2>7
  <2> QED BY <2>8 DEF Known, Has
<1> QED BY <1>2, <1>3 DEF TicketsInv, Busy

LEMMA CodeKeyKinds ==
  \A r : CodeKey(r) = Key(CodeKind(r), Number(r)) /\ CodeKind(r) \in CodeKinds
BY DEF CodeKey, CodeKind, CodeKinds

LEMMA MovesPairs ==
  ASSUME Inv, NEW h \in Handlers, Busy(h), Outcome(h), Mild(h), NoteBarred, setting' = setting
  PROVE  PairsInv'
<1> USE DEF Inv, StoreInv
<1>0. drawn \in Nat /\ drawn' \in Nat /\ drawn' >= drawn
  BY DEF DrawsInv, Mild
<1>1. ASSUME NEW g \in Handlers, g # h
      PROVE  /\ At(g, "dropCaptcha")' => Req(g)'.cap \in 1..drawn'
             /\ At(g, "dropCode")' =>
                  /\ Req(g)'.code \in 0..drawn'
                  /\ \A k \in DOMAIN redis' :
                       k[1] \in CodeKinds /\ redis'[k].val = Req(g)'.code => k = CodeKey(Req(g)')
             /\ At(g, "keep")' => hand'[g].num \in 0..setting'.maxTime
             /\ At(g, "expire")' /\ "expire" \in barred'[g] =>
                  hand'[g].num \in Nat /\ hand'[g].num > Limit(Op(g)')
  <2>1. hand'[g] = hand[g]
    BY <1>1 DEF Outcome, Moves
  <2>2. /\ \A s : At(g, s)' <=> At(g, s)
        /\ Req(g)' = Req(g) /\ Op(g)' = Op(g)
    BY <2>1 DEF At, Req, Op
  <2>3. At(g, "dropCaptcha") => Req(g).cap \in 1..drawn'
    BY <1>0 DEF PairsInv
  <2>4. ASSUME At(g, "dropCode")
        PROVE  /\ Req(g).code \in 0..drawn'
               /\ \A k \in DOMAIN redis' :
                    k[1] \in CodeKinds /\ redis'[k].val = Req(g).code => k = CodeKey(Req(g))
    <3>1. Req(g).code \in 0..drawn
      BY <2>4 DEF PairsInv
    <3>2. ASSUME NEW k \in DOMAIN redis', k[1] \in CodeKinds, redis'[k].val = Req(g).code
          PROVE  k = CodeKey(Req(g))
      <4>1. ~(redis'[k].val > drawn)
        BY <1>0, <3>1, <3>2
      <4>2. k \in DOMAIN redis /\ redis[k].val = Req(g).code
        BY <3>2, <4>1 DEF Mild
      <4> QED BY <2>4, <3>2, <4>2 DEF PairsInv
    <3> QED BY <1>0, <3>1, <3>2
  <2>5. At(g, "expire") => Busy(g)
    BY AtFacts
  <2>6. At(g, "expire") => barred'[g] \subseteq barred[g]
    BY <2>1, <2>5, Noted DEF Busy
  <2>7. At(g, "keep") => hand[g].num \in 0..setting.maxTime
    BY DEF PairsInv
  <2>8. At(g, "expire") /\ "expire" \in barred'[g] => hand[g].num \in Nat /\ hand[g].num > Limit(Op(g))
    BY <2>6 DEF PairsInv
  <2> QED BY <2>1, <2>2, <2>3, <2>4, <2>7, <2>8
<1>2. ASSUME hand'[h] # Idle
      PROVE  hand'[h].req = hand[h].req
  BY <1>2 DEF Outcome, Moves, Onward
<1>3. ASSUME At(h, "dropCaptcha")' PROVE Req(h)'.cap \in 1..drawn'
  <2>1. hand'[h] # Idle /\ hand[h].todo[1] = "captcha"
    BY <1>3, MovesAt DEF Leader, Outcome
  <2>2. Has(Key("captcha", Req(h).cap))
    BY <2>1 DEF Outcome, Found
  <2>3. Req(h).cap \in 1..drawn
    BY <2>2 DEF DrawsInv
  <2> QED BY <1>0, <1>2, <2>1, <2>3 DEF Req
<1>4. ASSUME At(h, "dropCode")'
      PROVE  /\ Req(h)'.code \in 0..drawn'
             /\ \A k \in DOMAIN redis' :
                  k[1] \in CodeKinds /\ redis'[k].val = Req(h)'.code => k = CodeKey(Req(h)')
  <2>1. hand'[h] # Idle /\ hand[h].todo[1] = "code"
    BY <1>4, MovesAt DEF Leader, Outcome
  <2>2. Req(h)' = Req(h)
    BY <1>2, <2>1 DEF Req
  <2> DEFINE c == CodeKey(Req(h))
  <2>3. c \in DOMAIN redis /\ redis[c].val = Req(h).code
    BY <2>1 DEF Outcome, Found, Stored, Has
  <2>4. c[1] \in CodeKinds
    BY CodeKeyKinds DEF Key
  <2> HIDE DEF c
  <2>5. redis[c].val \in Nat /\ redis[c].val <= drawn
    <3>1. c[1] # "ticket"
      BY <2>4 DEF CodeKinds
    <3> QED BY <2>3, <2>4, <3>1 DEF DrawsInv, KeysInv, HasType
  <2>6. ASSUME NEW k \in DOMAIN redis', k[1] \in CodeKinds, redis'[k].val = Req(h).code
        PROVE  k = c
    <3>1. ~(redis'[k].val > drawn)
      BY <1>0, <2>3, <2>5, <2>6
    <3>2. k \in DOMAIN redis /\ redis[k].val = Req(h).code
      BY <2>6, <3>1 DEF Mild
    <3> QED BY <2>3, <2>4, <2>6, <3>2 DEF DrawsInv
  <2>7. Req(h).code \in 0..drawn'
    BY <1>0, <2>3, <2>5
  <2> QED BY <2>2, <2>6, <2>7 DEF c
<1>5. ASSUME At(h, "keep")' PROVE hand'[h].num \in 0..setting'.maxTime
  <2>1. hand'[h] # Idle /\ hand[h].todo[1] = "token"
    BY <1>5, MovesAt DEF Leader, Outcome
  <2>2. hand'[h].num = now
    BY <2>1 DEF Outcome, Found
  <2> QED BY <2>2 DEF KeysInv
<1>6. ASSUME At(h, "expire")', "expire" \in barred'[h]
      PROVE  hand'[h].num \in Nat /\ hand'[h].num > Limit(Op(h)')
  <2>1. hand'[h] # Idle /\ hand[h].todo[1] = "incr"
    BY <1>6, MovesAt DEF Leader, Outcome
  <2>2. hand'[h].num = Count(RateKey(Req(h))) + 1
    BY <2>1 DEF Outcome, Found
  <2>3. "expire" \in Unmet(h)
    BY <1>6, <2>1, Noted
  <2>4. Count(RateKey(Req(h))) >= Limit(Op(h))
    BY <2>3, UnmetMeans
  <2>5. Limit(Op(h)) \in Nat
    BY AccountsAssumption DEF Limit
  <2>6. Count(RateKey(Req(h))) \in Nat
    <3>1. "incr" \in Elems(hand[h].todo) /\ IsServed(hand[h])
      <4>1. IsServed(hand[h])
        BY DEF HandInv
      <4>2. 1 \in 1..Len(hand[h].todo)
        BY <4>1 DEF IsServed, Ready
      <4> QED BY <2>1, <4>1, <4>2 DEF Elems
    <3>2. Op(h) # "ticket"
      BY <3>1 DEF IsServed, Ready, Placed, Op, Req
    <3>3. RateKey(Req(h))[1] # "ticket"
      BY <3>2 DEF RateKey, Key, Op, Req
    <3> QED BY <3>3 DEF Count, KeysInv, HasType, Has
  <2>7. Op(h)' = Op(h)
    BY <1>2, <2>1 DEF Op, Req
  <2> QED BY <2>2, <2>4, <2>5, <2>6, <2>7
<1> QED BY <1>1, <1>3, <1>4, <1>5, <1>6 DEF PairsInv

-----------------------------------------------------------------------------
(* What a statement does to the stores.                                    *)

\* A value of a key, seen from the others.
SameKeys(kinds) ==
  \A k : k[1] \in kinds =>
    /\ k \in DOMAIN redis' <=> k \in DOMAIN redis
    /\ k \in DOMAIN redis => redis'[k].val = redis[k].val

Guarded == {"ticket", "captcha"} \cup CodeKinds

StoreStep(h) == StoreInv' /\ Mild(h)

LEMMA PutFacts ==
  ASSUME NEW k, NEW v, NEW ttl, Put(k, v, ttl)
  PROVE  /\ DOMAIN redis' = DOMAIN redis \cup {k} /\ redis'[k] = [val |-> v, ttl |-> ttl]
         /\ \A x \in DOMAIN redis : x # k => redis'[x] = redis[x]
BY DEF Put

LEMMA DelFacts ==
  ASSUME NEW k, Del(k)
  PROVE  DOMAIN redis' = DOMAIN redis \ {k} /\ \A x \in DOMAIN redis' : redis'[x] = redis[x]
BY DEF Del, Without

\* Keys that only go, or get an end.
Lasting ==
  \A k \in DOMAIN redis' :
    /\ k \in DOMAIN redis /\ redis'[k] = [val |-> redis[k].val, ttl |-> redis'[k].ttl]
    /\ redis[k].ttl => redis'[k].ttl

LEMMA ExpireFacts ==
  ASSUME KeysInv, NEW k, Expire(k)
  PROVE  Lasting /\ DOMAIN redis' = DOMAIN redis
<1>1. CASE Has(k)
  <2>1. redis' = [redis EXCEPT ![k].ttl = TRUE]
    BY <1>1 DEF Expire
  <2>2. \A x \in DOMAIN redis : redis[x] = [val |-> redis[x].val, ttl |-> redis[x].ttl]
    BY DEF KeysInv, HasType
  <2>3. DOMAIN redis' = DOMAIN redis /\ \A x \in DOMAIN redis : x # k => redis'[x] = redis[x]
    BY <2>1
  <2>4. redis'[k] = [val |-> redis[k].val, ttl |-> TRUE]
    <3>1. redis'[k] = [redis[k] EXCEPT !.ttl = TRUE]
      BY <1>1, <2>1 DEF Has
    <3>2. redis[k] = [val |-> redis[k].val, ttl |-> redis[k].ttl]
      BY <1>1, <2>2 DEF Has
    <3>3. PICK v, t : redis[k] = [val |-> v, ttl |-> t]
      BY <3>2
    <3>4. redis'[k] = [[val |-> v, ttl |-> t] EXCEPT !.ttl = TRUE]
      BY <3>1, <3>3
    <3>5. redis'[k] = [val |-> v, ttl |-> TRUE]
      BY <3>4
    <3>6. redis[k].val = v
      BY <3>3
    <3> QED BY <3>5, <3>6
  <2>5. ASSUME NEW x \in DOMAIN redis'
        PROVE  /\ redis'[x] = [val |-> redis[x].val, ttl |-> redis'[x].ttl]
               /\ redis[x].ttl => redis'[x].ttl
    <3>1. CASE x = k
      <4>1. redis'[k].ttl
        BY <2>4
      <4> QED BY <2>4, <3>1, <4>1
    <3>2. CASE x # k
      BY <2>2, <2>3, <2>5, <3>2
    <3> QED BY <3>1, <3>2
  <2> QED BY <2>3, <2>5 DEF Lasting
<1>2. CASE ~Has(k)
  <2>1. redis' = redis
    BY <1>2 DEF Expire
  <2> QED BY <2>1 DEF Lasting, KeysInv, HasType
<1> QED BY <1>1, <1>2

LEMMA LastingKeys ==
  ASSUME KeysInv, Lasting, given' = given, now' = now, setting' = setting
  PROVE  KeysInv'
<1>1. ASSUME NEW k \in DOMAIN redis'
      PROVE  k = Key(k[1], k[2]) /\ HasType(k, redis'[k])
  <2>1. /\ k = Key(k[1], k[2]) /\ HasType(k, redis[k])
        /\ redis'[k] = [val |-> redis[k].val, ttl |-> redis'[k].ttl]
        /\ redis[k].ttl => redis'[k].ttl
    BY <1>1 DEF KeysInv, Lasting
  <2>2. redis'[k].val = redis[k].val
    BY <2>1
  <2> QED BY <2>1, <2>2 DEF HasType
<1> QED BY <1>1 DEF KeysInv, HasType

LEMMA DelLasting ==
  ASSUME KeysInv, NEW k, Del(k)
  PROVE  Lasting
<1>1. \A x \in DOMAIN redis' : x \in DOMAIN redis /\ redis'[x] = redis[x]
  BY DelFacts
<1>2. \A x \in DOMAIN redis : redis[x] = [val |-> redis[x].val, ttl |-> redis[x].ttl]
  BY DEF KeysInv, HasType
<1> QED BY <1>1, <1>2 DEF Lasting

LEMMA SameLasting ==
  ASSUME KeysInv, redis' = redis
  PROVE  Lasting /\ \A kinds : SameKeys(kinds)
BY DEF KeysInv, HasType, Lasting, SameKeys

LEMMA PutKeys ==
  ASSUME KeysInv, NEW kind, NEW of, NEW v, NEW ttl, Put(Key(kind, of), v, ttl),
         HasType(Key(kind, of), [val |-> v, ttl |-> ttl]),
         given' \in SUBSET [who : People, at : 0..setting.maxTime],
         now' = now, setting' = setting
  PROVE  KeysInv'
<1> DEFINE k == Key(kind, of)
<1>1. k = Key(k[1], k[2])
  BY DEF Key
<1> HIDE DEF k
<1>2. /\ DOMAIN redis' = DOMAIN redis \cup {k} /\ redis'[k] = [val |-> v, ttl |-> ttl]
      /\ \A x \in DOMAIN redis : x # k => redis'[x] = redis[x]
  BY PutFacts DEF k
<1>3. HasType(k, redis'[k])
  BY <1>2 DEF k
<1>4. ASSUME NEW x \in DOMAIN redis'
      PROVE  x = Key(x[1], x[2]) /\ HasType(x, redis'[x])
  <2>1. CASE x = k
    BY <1>1, <1>3, <2>1
  <2>2. CASE x # k
    BY <1>2, <2>2 DEF KeysInv
  <2> QED BY <2>1, <2>2
<1> QED BY <1>4 DEF KeysInv, HasType

\* Steps that leave tickets, captchas and codes alone.
LEMMA Undisturbed ==
  ASSUME DrawsInv, EndedInv, SameKeys(Guarded), drawn' = drawn, ended' = ended,
         \A w : w \in spent' => w \in spent \/ w[1] = "invite", NEW h
  PROVE  DrawsInv' /\ EndedInv' /\ Mild(h)
<1>1. \A k : k[1] \in Guarded =>
         /\ k \in DOMAIN redis' <=> k \in DOMAIN redis
         /\ k \in DOMAIN redis => redis'[k].val = redis[k].val
  BY DEF SameKeys
<1>2. \A n : Key("captcha", n) \in DOMAIN redis' <=> Key("captcha", n) \in DOMAIN redis
  BY <1>1 DEF Key, Guarded
<1>3. \A n : /\ Key("ticket", n) \in DOMAIN redis' <=> Key("ticket", n) \in DOMAIN redis
             /\ Key("ticket", n) \in DOMAIN redis =>
                  redis'[Key("ticket", n)].val = redis[Key("ticket", n)].val
  BY <1>1 DEF Key, Guarded
<1>4. \A k : k[1] \in CodeKinds =>
         /\ k \in DOMAIN redis' <=> k \in DOMAIN redis
         /\ k \in DOMAIN redis => redis'[k].val = redis[k].val
  BY <1>1 DEF Guarded
<1>5. \A n : /\ <<"captcha", n>> \in spent' => <<"captcha", n>> \in spent
             /\ <<"code", n>> \in spent' => <<"code", n>> \in spent
  OBVIOUS
<1>6. DrawsInv'
  BY <1>2, <1>4, <1>5 DEF DrawsInv, Has
<1>7. EndedInv'
  BY <1>3 DEF EndedInv, Has
<1>8. drawn' \in Nat /\ drawn' >= drawn
  BY DEF DrawsInv
<1>9. Mild(h)
  BY <1>3, <1>4, <1>8 DEF Mild, Known, Has
<1> QED BY <1>6, <1>7, <1>9

LEMMA RowsStay ==
  ASSUME RowsInv, UNCHANGED Rows, \A c : <<"invite", c>> \in spent' => <<"invite", c>> \in spent
  PROVE  RowsInv'
BY DEF RowsInv, Rows, Unused, IsRow

\* Statements that write nothing, or give a key an end.
LEMMA ReadsStep ==
  ASSUME StoreInv, NEW h, UNCHANGED <<Rows, given, ended, spent, drawn, now, setting>>,
         redis' = redis \/ \E k : Expire(k)
  PROVE  StoreStep(h)
<1> USE DEF StoreInv
<1>1. Lasting /\ SameKeys(Guarded)
  <2>1. CASE redis' = redis
    BY <2>1, SameLasting
  <2>2. ASSUME NEW k, Expire(k) PROVE Lasting /\ SameKeys(Guarded)
    <3>1. Lasting /\ DOMAIN redis' = DOMAIN redis
      BY <2>2, ExpireFacts
    <3>2. \A x \in DOMAIN redis : redis'[x].val = redis[x].val
      BY <3>1 DEF Lasting
    <3> QED BY <3>1, <3>2 DEF SameKeys
  <2> QED BY <2>1, <2>2
<1>2. KeysInv'
  BY <1>1, LastingKeys
<1>3. DrawsInv' /\ EndedInv' /\ Mild(h)
  BY <1>1, Undisturbed
<1>4. RowsInv'
  BY RowsStay
<1> QED BY <1>2, <1>3, <1>4 DEF StoreStep

\* A key of another kind is written, or dropped.
LEMMA PutSame ==
  ASSUME NEW kind, NEW of, NEW v, NEW ttl, Put(Key(kind, of), v, ttl), kind \notin Guarded
  PROVE  SameKeys(Guarded)
<1> DEFINE k == Key(kind, of)
<1>1. k[1] = kind
  BY DEF Key
<1>2. /\ DOMAIN redis' = DOMAIN redis \cup {k}
      /\ \A x \in DOMAIN redis : x # k => redis'[x] = redis[x]
  BY PutFacts
<1> HIDE DEF k
<1> QED BY <1>1, <1>2 DEF SameKeys

LEMMA IncrStep ==
  ASSUME Inv, NEW h \in Handlers, Incr(h), UNCHANGED <<setting, now>>
  PROVE  StoreStep(h)
<1> USE DEF Inv, StoreInv
<1>1. "incr" \in Elems(hand[h].todo) /\ IsServed(hand[h])
  BY AtFacts DEF Incr
<1>2. Op(h) \in {"login", "sendCode", "sendBind"}
  BY <1>1 DEF IsServed, Ready, Placed, Op, Req
<1> DEFINE k == RateKey(Req(h))
<1>3. k = Key(Op(h), Number(Req(h))) /\ k[1] = Op(h)
  BY DEF RateKey, Key, Op
<1>4. Put(k, Count(k) + 1, Has(k) /\ redis[k].ttl) /\ UNCHANGED <<Rows, spent, given, ended, drawn>>
  BY DEF Incr, Rest
<1>5. Count(k) \in Nat
  BY <1>2, <1>3 DEF Count, Has, KeysInv, HasType
<1> HIDE DEF k
<1>6. HasType(k, [val |-> Count(k) + 1, ttl |-> Has(k) /\ redis[k].ttl])
  BY <1>2, <1>3, <1>5 DEF HasType, CodeKinds
<1>7. KeysInv'
  BY <1>3, <1>4, <1>6, PutKeys DEF KeysInv
<1>8. SameKeys(Guarded)
  BY <1>2, <1>3, <1>4, PutSame DEF Guarded, CodeKinds
<1>9. DrawsInv' /\ EndedInv' /\ Mild(h)
  BY <1>4, <1>8, Undisturbed
<1>10. RowsInv'
  BY <1>4, RowsStay
<1> QED BY <1>7, <1>9, <1>10 DEF StoreStep

\* A key goes; what it stood for may be noted as spent.
LEMMA GoneStep ==
  ASSUME StoreInv, NEW h, NEW k, Del(k), EndTicket(k),
         UNCHANGED <<Rows, given, drawn, now, setting>>,
         \A w : w \in spent' => w \in spent \/ w[1] \in {"captcha", "code"},
         \A n : <<"captcha", n>> \in spent' =>
                  <<"captcha", n>> \in spent \/ (n \in 1..drawn /\ k = Key("captcha", n)),
         \A n : <<"code", n>> \in spent' =>
                  \/ <<"code", n>> \in spent
                  \/ /\ n \in 0..drawn
                     /\ \A j \in DOMAIN redis : j[1] \in CodeKinds /\ redis[j].val = n => j = k
  PROVE  StoreStep(h) /\ \A t : Key("ticket", t) \in DOMAIN redis' \/ t \in ended' => Known(t)
<1> USE DEF StoreInv
<1>1. KeysInv'
  BY DelLasting, LastingKeys
<1>2. RowsInv'
  <2>1. \A c : <<"invite", c>> \in spent' => <<"invite", c>> \in spent
    OBVIOUS
  <2> QED BY <2>1, RowsStay
<1>3. DOMAIN redis' = DOMAIN redis \ {k} /\ \A x \in DOMAIN redis' : redis'[x] = redis[x]
  BY DelFacts
<1>4. DrawsInv'
  <2>1. drawn' \in Nat
    BY DEF DrawsInv
  <2>2. \A n : Key("captcha", n) \in DOMAIN redis' =>
                 n \in 1..drawn' /\ <<"captcha", n>> \notin spent'
    BY <1>3 DEF DrawsInv, Has
  <2>3. \A n : <<"captcha", n>> \in spent' => n \in 1..drawn'
    BY DEF DrawsInv
  <2>4. ASSUME NEW x \in DOMAIN redis', x[1] \in CodeKinds
        PROVE  /\ redis'[x].val <= drawn' /\ <<"code", redis'[x].val>> \notin spent'
               /\ \A j \in DOMAIN redis' : j[1] \in CodeKinds /\ redis'[j].val = redis'[x].val => j = x
    <3>1. x \in DOMAIN redis /\ x # k /\ redis'[x] = redis[x]
      BY <1>3, <2>4
    <3>2. /\ redis[x].val <= drawn /\ <<"code", redis[x].val>> \notin spent
          /\ \A j \in DOMAIN redis : j[1] \in CodeKinds /\ redis[j].val = redis[x].val => j = x
      BY <2>4, <3>1 DEF DrawsInv
    <3>3. <<"code", redis[x].val>> \notin spent'
      BY <2>4, <3>1, <3>2
    <3> QED BY <1>3, <3>1, <3>2, <3>3
  <2>5. \A n : <<"code", n>> \in spent' => n \in 0..drawn'
    BY DEF DrawsInv
  <2> QED BY <2>1, <2>2, <2>3, <2>4, <2>5 DEF DrawsInv, Has
<1>5. k \in DOMAIN redis => k = Key(k[1], k[2])
  BY DEF KeysInv
<1>6. \A t : Key("ticket", t)[1] = "ticket" /\ Key("ticket", t)[2] = t
  BY DEF Key
<1>7. ended' = IF k[1] = "ticket" /\ k \in DOMAIN redis THEN ended \cup {k[2]} ELSE ended
  BY DEF EndTicket, Has
<1>8. EndedInv'
  <2>1. ASSUME NEW t, t \in ended', Key("ticket", t) \in DOMAIN redis'
        PROVE  ~redis'[Key("ticket", t)].val.secret
    <3>1. t \in ended
      BY <1>3, <1>5, <1>7, <2>1
    <3> QED BY <1>3, <2>1, <3>1 DEF EndedInv, Has
  <2> QED BY <2>1 DEF EndedInv, Has
<1>9. \A t : Key("ticket", t) \in DOMAIN redis' \/ t \in ended' => Known(t)
  BY <1>3, <1>5, <1>7 DEF Known, Has
<1>10. Mild(h)
  <2>1. \A t : Known(t) => Key("ticket", t) \in DOMAIN redis' \/ t \in ended'
    BY <1>3, <1>6, <1>7 DEF Known, Has
  <2>2. drawn' \in Nat /\ drawn' >= drawn
    BY DEF DrawsInv
  <2> QED BY <1>3, <1>9, <2>1, <2>2 DEF Mild, Known, Has
<1> QED BY <1>1, <1>2, <1>4, <1>8, <1>9, <1>10 DEF StoreStep

LEMMA DropTokenStep ==
  ASSUME Inv, NEW h \in Handlers, DropToken(h), UNCHANGED <<setting, now>>
  PROVE  StoreStep(h)
<1> DEFINE k == RefreshKey(Who(h))
<1>1. Del(k) /\ UNCHANGED <<Rows, given, drawn, now, setting, spent, ended>>
  BY DEF DropToken, Rest
<1>2. EndTicket(k)
  BY <1>1 DEF EndTicket, RefreshKey, Key
<1> HIDE DEF k
<1> QED BY <1>1, <1>2, GoneStep DEF Inv

LEMMA DropTicketStep ==
  ASSUME Inv, NEW h \in Handlers, DropTicket(h), UNCHANGED <<setting, now>>
  PROVE  StoreStep(h)
<1> DEFINE k == TicketKey(h)
<1>1. Del(k) /\ EndTicket(k) /\ UNCHANGED <<Rows, given, drawn, now, setting, spent>>
  BY DEF DropTicket
<1> HIDE DEF k
<1> QED BY <1>1, GoneStep DEF Inv

LEMMA DropCaptchaStep ==
  ASSUME Inv, NEW h \in Handlers, DropCaptcha(h), UNCHANGED <<setting, now>>
  PROVE  StoreStep(h)
<1> DEFINE n == Req(h).cap  k == Key("captcha", n)
<1>1. Del(k) /\ UNCHANGED <<Rows, given, drawn, now, setting, ended>> /\ spent' = spent \cup {<<"captcha", n>>}
  BY DEF DropCaptcha, Rest, Spend
<1>2. EndTicket(k)
  BY <1>1 DEF EndTicket, Key
<1>3. n \in 1..drawn
  BY DEF Inv, PairsInv, DropCaptcha
<1>4. \A m : <<"captcha", m>> \in spent' =>
               <<"captcha", m>> \in spent \/ (m \in 1..drawn /\ k = Key("captcha", m))
  BY <1>1, <1>3
<1>5. \A m : <<"code", m>> \in spent' => <<"code", m>> \in spent
  BY <1>1
<1>6. \A w : w \in spent' => w \in spent \/ w[1] \in {"captcha", "code"}
  BY <1>1
<1> HIDE DEF k, n
<1> QED BY <1>1, <1>2, <1>4, <1>5, <1>6, GoneStep DEF Inv

LEMMA DropCodeStep ==
  ASSUME Inv, NEW h \in Handlers, DropCode(h), UNCHANGED <<setting, now>>
  PROVE  StoreStep(h)
<1> DEFINE n == Req(h).code  k == CodeKey(Req(h))
<1>1. Del(k) /\ UNCHANGED <<Rows, given, drawn, now, setting, ended>> /\ spent' = spent \cup {<<"code", n>>}
  BY DEF DropCode, Rest, Spend, Spent
<1>2. EndTicket(k)
  BY <1>1 DEF EndTicket, Key, CodeKey, CodeKind
<1>3. /\ n \in 0..drawn
      /\ \A j \in DOMAIN redis : j[1] \in CodeKinds /\ redis[j].val = n => j = k
  BY DEF Inv, PairsInv, DropCode
<1> HIDE DEF k, n
<1>4. \A m : <<"captcha", m>> \in spent' => <<"captcha", m>> \in spent
  BY <1>1
<1>5. \A m : <<"code", m>> \in spent' =>
               \/ <<"code", m>> \in spent
               \/ /\ m \in 0..drawn
                  /\ \A j \in DOMAIN redis : j[1] \in CodeKinds /\ redis[j].val = m => j = k
  BY <1>1, <1>3
<1>6. \A w : w \in spent' => w \in spent \/ w[1] \in {"captcha", "code"}
  BY <1>1
<1> QED BY <1>1, <1>2, <1>4, <1>5, <1>6, GoneStep DEF Inv

LEMMA KeepStep ==
  ASSUME Inv, NEW h \in Handlers, Keep(h), UNCHANGED <<setting, now>>
  PROVE  StoreStep(h)
<1> USE DEF Inv, StoreInv
<1>1. "keep" \in Elems(hand[h].todo) /\ IsServed(hand[h]) /\ hand[h].todo[1] = "keep"
  BY AtFacts DEF Keep
<1>2. Who(h) \in People
  <2>1. "keep" \in Elems(hand[h].todo) \cap Named
    BY <1>1 DEF Named
  <2> QED BY <1>1, <2>1 DEF IsServed, Who, Finders
<1>3. hand[h].num \in 0..setting.maxTime
  BY DEF PairsInv, Keep
<1>4. setting.maxTime \in Nat
  BY AccountsAssumption DEF HandInv
<1> DEFINE n == hand[h].num  u == Who(h)
<1>5. /\ Put(Key("refresh", u), n, TRUE) /\ given' = given \cup {[who |-> u, at |-> n]}
      /\ UNCHANGED <<Rows, spent, ended, drawn>>
  BY DEF Keep, RefreshKey
<1> HIDE DEF n, u
<1>6. HasType(Key("refresh", u), [val |-> n, ttl |-> TRUE])
  <2>1. n \in Nat
    BY <1>3, <1>4 DEF n
  <2> QED BY <2>1 DEF HasType, Key
<1>7. given' \in SUBSET [who : People, at : 0..setting.maxTime]
  BY <1>2, <1>3, <1>5 DEF n, u, KeysInv
<1>8. KeysInv'
  BY <1>5, <1>6, <1>7, PutKeys
<1>9. SameKeys(Guarded)
  BY <1>5, PutSame DEF Guarded, CodeKinds
<1>10. DrawsInv' /\ EndedInv' /\ Mild(h)
  BY <1>5, <1>9, Undisturbed
<1>11. RowsInv'
  BY <1>5, RowsStay
<1> QED BY <1>8, <1>10, <1>11 DEF StoreStep

\* A captcha or a code is drawn under a new number.
LEMMA DrawnStep ==
  ASSUME StoreInv, NEW h, NEW kind \in CodeKinds \cup {"captcha"}, NEW of, NEW v,
         Put(Key(kind, of), v, TRUE), v \in Nat,
         drawn' = drawn + 1, UNCHANGED <<Rows, given, ended, spent, now, setting>>,
         kind = "captcha" => of = drawn + 1,
         kind # "captcha" => v = drawn + 1
  PROVE  StoreStep(h)
<1> USE DEF StoreInv
<1> DEFINE k == Key(kind, of)
<1>1. k[1] = kind /\ k[2] = of /\ kind # "ticket"
  BY DEF Key, CodeKinds
<1>2. KeysInv'
  <2>1. HasType(Key(kind, of), [val |-> v, ttl |-> TRUE])
    BY <1>1 DEF HasType
  <2>2. given' \in SUBSET [who : People, at : 0..setting.maxTime]
    BY DEF KeysInv
  <2> QED BY <2>1, <2>2, PutKeys
<1>3. RowsInv'
  BY RowsStay
<1>4. /\ DOMAIN redis' = DOMAIN redis \cup {k} /\ redis'[k] = [val |-> v, ttl |-> TRUE]
      /\ \A x \in DOMAIN redis : x # k => redis'[x] = redis[x]
  BY PutFacts
<1>5. \A n : k = Key("captcha", n) => kind = "captcha" /\ n = of
  BY <1>1 DEF Key
<1>6. \A t : Key("ticket", t) # k
  BY <1>1 DEF Key
<1> HIDE DEF k
<1>7. redis'[k].val = v
  BY <1>4
<1>8. drawn \in Nat /\ drawn' \in Nat /\ drawn' > drawn
  BY DEF DrawsInv
<1>9. DrawsInv'
  <2>1. \A n : Key("captcha", n) \in DOMAIN redis' => n \in 1..drawn' /\ <<"captcha", n>> \notin spent'
    <3>1. SUFFICES ASSUME NEW n, Key("captcha", n) \in DOMAIN redis'
                   PROVE  n \in 1..drawn' /\ <<"captcha", n>> \notin spent'
      OBVIOUS
    <3>2. CASE Key("captcha", n) \in DOMAIN redis
      BY <1>8, <3>2 DEF DrawsInv, Has
    <3>3. CASE Key("captcha", n) = k
      <4>1. n = drawn + 1
        BY <1>5, <3>3
      <4>2. <<"captcha", n>> \notin spent
        BY <1>8, <4>1 DEF DrawsInv
      <4> QED BY <1>8, <4>1, <4>2
    <3> QED BY <1>4, <3>1, <3>2, <3>3
  <2>2. \A n : <<"captcha", n>> \in spent' => n \in 1..drawn'
    BY <1>8 DEF DrawsInv
  <2>3. \A x \in DOMAIN redis : x[1] \in CodeKinds =>
          redis[x].val \in Nat /\ redis[x].val <= drawn /\ <<"code", redis[x].val>> \notin spent
    BY DEF DrawsInv, KeysInv, HasType, CodeKinds
  <2>4. <<"code", drawn + 1>> \notin spent
    BY <1>8 DEF DrawsInv
  <2>5. ASSUME NEW x \in DOMAIN redis', x[1] \in CodeKinds
        PROVE  /\ redis'[x].val <= drawn' /\ <<"code", redis'[x].val>> \notin spent'
               /\ x # k => x \in DOMAIN redis /\ redis'[x] = redis[x]
               /\ x # k => redis'[x].val \in Nat /\ redis'[x].val <= drawn
               /\ x = k => redis'[x].val = drawn + 1
    <3>1. CASE x = k
      <4>1. kind # "captcha"
        BY <1>1, <2>5, <3>1 DEF k, CodeKinds
      <4> QED BY <1>7, <1>8, <2>4, <3>1, <4>1
    <3>2. CASE x # k
      BY <1>4, <1>8, <2>3, <2>5, <3>2
    <3> QED BY <3>1, <3>2
  <2>6. \A x, j \in DOMAIN redis' :
          x[1] \in CodeKinds /\ j[1] \in CodeKinds /\ redis'[j].val = redis'[x].val => j = x
    <3>1. SUFFICES ASSUME NEW x \in DOMAIN redis', NEW j \in DOMAIN redis', x[1] \in CodeKinds,
                          j[1] \in CodeKinds, redis'[j].val = redis'[x].val
                   PROVE  j = x
      OBVIOUS
    <3>0. /\ x # k => redis'[x].val # drawn + 1
          /\ j # k => redis'[j].val # drawn + 1
          /\ x = k => redis'[x].val = drawn + 1
          /\ j = k => redis'[j].val = drawn + 1
      <4>1. /\ x # k => redis'[x].val \in Nat /\ redis'[x].val <= drawn
            /\ j # k => redis'[j].val \in Nat /\ redis'[j].val <= drawn
        BY <2>5, <3>1
      <4>2. \A n \in Nat : n <= drawn => n # drawn + 1
        BY <1>8
      <4>3. /\ x = k => redis'[x].val = drawn + 1
            /\ j = k => redis'[j].val = drawn + 1
        BY <2>5, <3>1
      <4>4. /\ x # k => redis'[x].val # drawn + 1
            /\ j # k => redis'[j].val # drawn + 1
        BY <4>1, <4>2
      <4> QED BY <4>3, <4>4
    <3>2. CASE x = k \/ j = k
      BY <3>0, <3>1, <3>2
    <3>3. CASE x # k /\ j # k
      BY <2>5, <3>1, <3>3 DEF DrawsInv
    <3> QED BY <3>2, <3>3
  <2>7. \A n : <<"code", n>> \in spent' => n \in 0..drawn'
    BY <1>8 DEF DrawsInv
  <2> QED BY <1>8, <2>1, <2>2, <2>5, <2>6, <2>7 DEF DrawsInv, Has
<1>10. \A t : /\ Key("ticket", t) \in DOMAIN redis' <=> Key("ticket", t) \in DOMAIN redis
              /\ Key("ticket", t) \in DOMAIN redis =>
                   redis'[Key("ticket", t)] = redis[Key("ticket", t)]
  BY <1>4, <1>6
<1>11. EndedInv'
  BY <1>10 DEF EndedInv, Has
<1>12. Mild(h)
  <2>1. \A t : Known(t) <=> Key("ticket", t) \in DOMAIN redis' \/ t \in ended'
    BY <1>10 DEF Known, Has
  <2>2. \A x \in DOMAIN redis' : x[1] \in CodeKinds =>
          \/ x \in DOMAIN redis /\ redis'[x].val = redis[x].val
          \/ redis'[x].val > drawn
    <3>1. SUFFICES ASSUME NEW x \in DOMAIN redis', x[1] \in CodeKinds, x = k
                   PROVE  redis'[x].val > drawn
      BY <1>4
    <3>2. kind # "captcha"
      BY <1>1, <3>1 DEF k, CodeKinds
    <3> QED BY <1>7, <1>8, <3>1, <3>2
  <2> QED BY <1>8, <2>1, <2>2 DEF Mild, Known, Has
<1> QED BY <1>2, <1>3, <1>9, <1>11, <1>12 DEF StoreStep

LEMMA CaptchaStep ==
  ASSUME Inv, NEW h \in Handlers, Captcha(h), UNCHANGED <<setting, now>>
  PROVE  StoreStep(h)
<1>1. /\ Put(Key("captcha", drawn + 1), 0, TRUE) /\ drawn' = drawn + 1
      /\ UNCHANGED <<Rows, given, ended, spent>>
  BY DEF Captcha
<1> QED BY <1>1, DrawnStep DEF Inv

LEMMA StoreCodeStep ==
  ASSUME Inv, NEW h \in Handlers, StoreCode(h), UNCHANGED <<setting, now>>
  PROVE  StoreStep(h)
<1> DEFINE kind == CodeKind(Req(h))  of == Number(Req(h))
<1>1. /\ Put(Key(kind, of), drawn + 1, TRUE) /\ drawn' = drawn + 1
      /\ UNCHANGED <<Rows, given, ended, spent>>
  BY DEF StoreCode, CodeKey
<1>2. kind \in CodeKinds /\ kind # "captcha"
  BY DEF CodeKind, CodeKinds
<1>3. drawn + 1 \in Nat
  BY DEF Inv, StoreInv, DrawsInv
<1> HIDE DEF kind, of
<1> QED BY <1>1, <1>2, <1>3, DrawnStep DEF Inv

\* Tickets: none is made twice, and a hash made of one that has ended has no
\* secret.
LEMMA TicketStep ==
  ASSUME StoreInv, NEW h, NEW t, NEW v, NEW ttl, Put(Key("ticket", t), v, ttl),
         v \in TicketType, v.status = "confirmed" => v.uid \in People,
         t \in ended => ~v.secret,
         Known(t) \/ (At(h, "ticket") /\ t = Req(h).tick),
         UNCHANGED <<Rows, given, ended, spent, drawn, now, setting>>
  PROVE  StoreStep(h)
<1> USE DEF StoreInv
<1> DEFINE k == Key("ticket", t)
<1>1. k[1] = "ticket" /\ k[2] = t
  BY DEF Key
<1>2. KeysInv'
  <2>1. HasType(k, [val |-> v, ttl |-> ttl])
    BY <1>1 DEF HasType, CodeKinds
  <2>2. given' \in SUBSET [who : People, at : 0..setting.maxTime]
    BY DEF KeysInv
  <2> QED BY <2>1, <2>2, PutKeys
<1>3. RowsInv'
  BY RowsStay
<1>4. /\ DOMAIN redis' = DOMAIN redis \cup {k} /\ redis'[k] = [val |-> v, ttl |-> ttl]
      /\ \A x \in DOMAIN redis : x # k => redis'[x] = redis[x]
  BY PutFacts
<1>5. /\ \A n : Key("captcha", n) # k
      /\ \A n : Key("ticket", n) = k => n = t
      /\ k[1] \notin CodeKinds
  BY <1>1 DEF Key, CodeKinds
<1>6. redis'[k].val = v
  BY <1>4
<1> HIDE DEF k
<1>7. DrawsInv'
  <2>1. \A n : Key("captcha", n) \in DOMAIN redis' <=> Key("captcha", n) \in DOMAIN redis
    BY <1>4, <1>5
  <2>2. \A x : x[1] \in CodeKinds =>
          /\ x \in DOMAIN redis' <=> x \in DOMAIN redis
          /\ x \in DOMAIN redis => redis'[x] = redis[x]
    BY <1>4, <1>5
  <2> QED BY <2>1, <2>2 DEF DrawsInv, Has
<1>8. EndedInv'
  <2>1. ASSUME NEW n, n \in ended, Key("ticket", n) \in DOMAIN redis'
        PROVE  ~redis'[Key("ticket", n)].val.secret
    <3>1. CASE Key("ticket", n) = k
      BY <1>5, <1>6, <2>1, <3>1
    <3>2. CASE Key("ticket", n) # k
      BY <1>4, <2>1, <3>2 DEF EndedInv, Has
    <3> QED BY <3>1, <3>2
  <2> QED BY <2>1 DEF EndedInv, Has
<1>9. Mild(h)
  <2>1. \A n : Known(n) => Key("ticket", n) \in DOMAIN redis' \/ n \in ended'
    BY <1>4 DEF Known, Has
  <2>2. \A n : Key("ticket", n) \in DOMAIN redis' \/ n \in ended' =>
                 Known(n) \/ (At(h, "ticket") /\ n = Req(h).tick)
    BY <1>4, <1>5 DEF Known, Has
  <2>3. \A x \in DOMAIN redis' : x[1] \in CodeKinds =>
          x \in DOMAIN redis /\ redis'[x].val = redis[x].val
    BY <1>4, <1>5
  <2>4. drawn' \in Nat /\ drawn' >= drawn
    BY DEF DrawsInv
  <2> QED BY <2>1, <2>2, <2>3, <2>4 DEF Mild, Known, Has
<1> QED BY <1>2, <1>3, <1>7, <1>8, <1>9 DEF StoreStep

LEMMA CreateTicketStep ==
  ASSUME Inv, NEW h \in Handlers, CreateTicket(h), UNCHANGED <<setting, now>>
  PROVE  StoreStep(h)
<1> DEFINE t == Req(h).tick  v == [secret |-> TRUE, status |-> "pending", uid |-> NoOne]
<1>1. /\ Put(Key("ticket", t), v, FALSE) /\ At(h, "ticket")
      /\ UNCHANGED <<Rows, given, ended, spent, drawn>>
  BY DEF CreateTicket, TicketKey, Rest
<1>2. v \in TicketType /\ v.status # "confirmed"
  BY DEF TicketType
<1>3. Busy(h)
  BY <1>1, AtFacts DEF Inv
<1>4. t \notin ended
  BY <1>1, <1>3 DEF Inv, TicketsInv, Known
<1> HIDE DEF v
<1> QED BY <1>1, <1>2, <1>4, TicketStep DEF Inv

LEMMA MarkStep ==
  ASSUME Inv, NEW h \in Handlers,
         NEW s \in {"scan", "confirm"}, NEW status \in {"scanned", "confirmed"},
         Mark(h, s, status), UNCHANGED <<setting, now>>
  PROVE  StoreStep(h)
<1> USE DEF Inv, StoreInv
<1>1. s \in Elems(hand[h].todo) /\ IsServed(hand[h]) /\ Busy(h) /\ hand[h].todo[1] = s
  BY AtFacts DEF Mark
<1>2. Who(h) \in People
  <2>1. s \in Elems(hand[h].todo) \cap Named
    BY <1>1 DEF Named
  <2> QED BY <1>1, <2>1 DEF IsServed, Who, Finders
<1>3. Op(h) \in {"qrScan", "qrConfirm"}
  BY <1>1 DEF IsServed, Ready, Placed, Op, Req
<1>4. Known(Req(h).tick)
  BY <1>1, <1>3 DEF TicketsInv
<1> DEFINE t == Req(h).tick  k == Key("ticket", t)
           v == [secret |-> Has(k) /\ redis[k].val.secret, status |-> status, uid |-> Who(h)]
<1>5. /\ Put(Key("ticket", t), v, Has(k) /\ redis[k].ttl)
      /\ UNCHANGED <<Rows, given, ended, spent, drawn>>
  BY DEF Mark, TicketKey, Ticket, Rest
<1>6. v \in TicketType /\ v.uid \in People
  <2>1. (Has(k) /\ redis[k].val.secret) \in BOOLEAN
    <3>1. k[1] = "ticket"
      BY DEF Key
    <3>2. Has(k) => redis[k].val \in TicketType
      BY <3>1 DEF Has, KeysInv, HasType
    <3> QED BY <3>2 DEF TicketType
  <2> QED BY <1>2, <2>1 DEF TicketType
<1>7. t \in ended => ~v.secret
  BY DEF EndedInv
<1> HIDE DEF v, t
<1> QED BY <1>4, <1>5, <1>6, <1>7, TicketStep DEF t

\* Rows: a column changes, or a row is made under a number nobody has.
LEMMA RowEdited ==
  ASSUME NEW e, IsRow(e), NEW n, NEW row,
         \/ row = [e EXCEPT !.pwd = n] \/ row = [e EXCEPT !.phone = n]
         \/ row = [e EXCEPT !.status = "disabled"] \/ row = [e EXCEPT !.status = "normal"]
  PROVE  IsRow(row) /\ row.short = e.short
<1>1. PICK a, b, c, d, k : e = [status |-> a, pwd |-> b, phone |-> c, device |-> d, short |-> k]
  BY DEF IsRow
<1>2. e.short = k /\ a \in {"none", "normal", "disabled"}
  BY <1>1 DEF IsRow
<1>3. \/ row = [status |-> a, pwd |-> n, phone |-> c, device |-> d, short |-> k]
      \/ row = [status |-> a, pwd |-> b, phone |-> n, device |-> d, short |-> k]
      \/ row = [status |-> "disabled", pwd |-> b, phone |-> c, device |-> d, short |-> k]
      \/ row = [status |-> "normal", pwd |-> b, phone |-> c, device |-> d, short |-> k]
  BY <1>1
<1>4. ASSUME NEW x \in {"none", "normal", "disabled"}, NEW y, NEW z,
             row = [status |-> x, pwd |-> y, phone |-> z, device |-> d, short |-> k]
      PROVE  IsRow(row) /\ row.short = k
  BY <1>4 DEF IsRow
<1> QED BY <1>2, <1>3, <1>4

LEMMA RowWritten ==
  ASSUME RowsInv, NEW w, NEW row, user' = [user EXCEPT ![w] = row],
         UNCHANGED <<invite, spent>>,
         w \in People => /\ IsRow(row)
                         /\ \/ row.short = user[w].short
                            \/ row.short = 0
                            \/ \A u \in People : user[u].short # row.short
  PROVE  RowsInv'
<1>1. user' = [u \in People |-> IF u = w THEN row ELSE user[u]]
  BY DEF RowsInv
<1>2. \A u \in People : user'[u] = IF u = w THEN row ELSE user[u]
  BY <1>1
<1>3. user' = [u \in People |-> user'[u]]
  BY <1>1
<1>4. \A u \in People : IsRow(user'[u])
  BY <1>2 DEF RowsInv
<1>5. \A u, v \in People : u # v /\ user'[u].short = user'[v].short => user'[u].short = 0
  BY <1>2 DEF RowsInv
<1>6. invite' \in [InviteCodes -> Phones \cup {NoOne}] /\ \A c : <<"invite", c>> \in spent' => ~Unused(c)'
  BY DEF RowsInv, Unused
<1> QED BY <1>3, <1>4, <1>5, <1>6 DEF RowsInv, IsRow

\* What leaves Redis alone.
LEMMA RedisSame ==
  ASSUME StoreInv, NEW h, UNCHANGED <<redis, given, ended, drawn, now, setting>>,
         \A w : w \in spent' => w \in spent \/ w[1] = "invite", RowsInv'
  PROVE  StoreStep(h)
<1> USE DEF StoreInv
<1>1. Lasting /\ SameKeys(Guarded)
  BY SameLasting
<1>2. KeysInv'
  BY <1>1, LastingKeys
<1>3. DrawsInv' /\ EndedInv' /\ Mild(h)
  BY <1>1, Undisturbed
<1> QED BY <1>2, <1>3 DEF StoreStep

LEMMA CreateStep ==
  ASSUME Inv, NEW h \in Handlers, Create(h), UNCHANGED <<setting, now>>
  PROVE  StoreStep(h)
<1> USE DEF Inv, StoreInv
<1>1. UNCHANGED <<invite, redis, spent, given, ended, drawn, now, setting>>
  BY DEF Create, Rest
<1>2. CASE user' = user
  <2>1. RowsInv'
    BY <1>1, <1>2, RowsStay DEF Rows
  <2> QED BY <1>1, <2>1, RedisSame
<1>3. CASE user' # user
  <2> DEFINE row == [status |-> "normal", short |-> hand[h].num, pwd |-> Req(h).pwd,
                     phone  |-> IF Op(h) = "register" THEN Who(h) ELSE "none",
                     device |-> IF Op(h) = "guest" THEN Req(h).who ELSE "none"]
  <2>1. user' = [user EXCEPT ![Who(h)] = row] /\ ~Taken(hand[h].num)
    BY <1>3 DEF Create
  <2>2. IsRow(row) /\ row.short = hand[h].num
    BY DEF IsRow
  <2> HIDE DEF row
  <2>3. row.short = 0 \/ \A u \in People : user[u].short # row.short
    BY <2>1, <2>2 DEF Taken, Free
  <2>4. RowsInv'
    BY <1>1, <2>1, <2>2, <2>3, RowWritten
  <2> QED BY <1>1, <2>4, RedisSame
<1> QED BY <1>2, <1>3

LEMMA UpdateStep ==
  ASSUME Inv, NEW h \in Handlers, SetPassword(h) \/ Ban(h) \/ Unban(h) \/ Bind(h),
         UNCHANGED <<setting, now>>
  PROVE  StoreStep(h)
<1> USE DEF Inv, StoreInv
<1> DEFINE e == user[Who(h)]
<1>1. PICK row : /\ user' = [user EXCEPT ![Who(h)] = row]
                 /\ UNCHANGED <<invite, redis, spent, given, ended, drawn>>
                 /\ \/ row = [e EXCEPT !.pwd = Req(h).new] \/ row = [e EXCEPT !.phone = Req(h).new]
                    \/ row = [e EXCEPT !.status = "disabled"] \/ row = [e EXCEPT !.status = "normal"]
  <2>1. SetPassword(h) => Update(h, "setPwd", [e EXCEPT !.pwd = Req(h).new])
    BY DEF SetPassword
  <2>2. Ban(h) => Update(h, "ban", [e EXCEPT !.status = "disabled"])
    BY DEF Ban
  <2>3. Unban(h) => Update(h, "unban", [e EXCEPT !.status = "normal"])
    BY DEF Unban
  <2>4. Bind(h) => Update(h, "bind", [e EXCEPT !.phone = Req(h).new])
    BY DEF Bind
  <2> HIDE DEF e
  <2>5. \A s, row : Update(h, s, row) => /\ user' = [user EXCEPT ![Who(h)] = row]
                                         /\ UNCHANGED <<invite, redis, spent, given, ended, drawn>>
    BY DEF Update, Rest
  <2> QED BY <2>1, <2>2, <2>3, <2>4, <2>5
<1>2. Who(h) \in People => IsRow(row) /\ row.short = e.short
  <2>1. Who(h) \in People => IsRow(e)
    BY DEF RowsInv
  <2> DEFINE n == Req(h).new
  <2>2. \/ row = [e EXCEPT !.pwd = n] \/ row = [e EXCEPT !.phone = n]
        \/ row = [e EXCEPT !.status = "disabled"] \/ row = [e EXCEPT !.status = "normal"]
    BY <1>1
  <2> HIDE DEF e, n
  <2> QED BY <2>1, <2>2, RowEdited
<1>3. RowsInv'
  BY <1>1, <1>2, RowWritten
<1> QED BY <1>1, <1>3, RedisSame

LEMMA MarkInviteStep ==
  ASSUME Inv, NEW h \in Handlers, MarkInvite(h), UNCHANGED <<setting, now>>
  PROVE  StoreStep(h)
<1> USE DEF Inv, StoreInv
<1> DEFINE c == Req(h).inv
<1>1. UNCHANGED <<user, redis, given, ended, drawn>>
  BY DEF MarkInvite, Rest
<1>2. CASE UNCHANGED <<invite, spent>>
  <2>1. RowsInv'
    BY <1>1, <1>2, RowsStay DEF Rows
  <2> QED BY <1>1, <1>2, <2>1, RedisSame
<1>3. CASE /\ Who(h) \in Phones /\ invite' = [invite EXCEPT ![c] = Who(h)]
           /\ spent' = spent \cup {<<"invite", c>>}
  <2>1. Who(h) # NoOne
    BY <1>3, AccountsAssumption DEF People
  <2>2. invite' = [i \in InviteCodes |-> IF i = c THEN Who(h) ELSE invite[i]]
    BY <1>3 DEF RowsInv
  <2> HIDE DEF c
  <2>3. invite' \in [InviteCodes -> Phones \cup {NoOne}]
    BY <1>3, <2>2 DEF RowsInv
  <2>4. ASSUME NEW i, <<"invite", i>> \in spent', i \in InviteCodes
        PROVE  invite'[i] # NoOne
    <3>1. CASE i = c
      BY <2>1, <2>2, <2>4, <3>1
    <3>2. CASE i # c
      <4>1. <<"invite", i>> \in spent
        BY <1>3, <2>4, <3>2
      <4> QED BY <2>2, <2>4, <3>2, <4>1 DEF RowsInv, Unused
    <3> QED BY <3>1, <3>2
  <2>5. RowsInv'
    BY <1>1, <2>3, <2>4 DEF RowsInv, Unused, IsRow
  <2>6. \A w : w \in spent' => w \in spent \/ w[1] = "invite"
    BY <1>3
  <2> QED BY <1>1, <2>5, <2>6, RedisSame
<1> QED BY <1>2, <1>3 DEF MarkInvite, Spend

LEMMA ChecksStep ==
  ASSUME Inv, NEW h \in Handlers, Checks(h) \/ Computes(h) \/ TicketTTL(h), UNCHANGED <<setting, now>>
  PROVE  StoreStep(h)
<1>1. /\ UNCHANGED <<Rows, given, ended, spent, drawn>>
      /\ redis' = redis \/ \E k : Expire(k)
  <2>1. RateLimit(h) => /\ UNCHANGED <<Rows, given, ended, spent, drawn>>
                        /\ redis' = redis \/ Expire(RateKey(Req(h)))
    BY DEF RateLimit
  <2>2. TicketTTL(h) => UNCHANGED <<Rows, given, ended, spent, drawn>> /\ Expire(TicketKey(h))
    BY DEF TicketTTL, Rest
  <2>3. Computes(h) => UNCHANGED <<Rows, given, ended, spent, drawn>> /\ redis' = redis
    BY DEF Computes, SendCode, GenShort, Token, Renew, Rest
  <2>4. Checks(h) => RateLimit(h) \/ (UNCHANGED <<Rows, given, ended, spent, drawn>> /\ redis' = redis)
    BY DEF Checks, Auth, VerifyCaptcha, VerifyCode, Invite, CountAccount, FindDevice, Password,
           CountPhone, RefreshStored, RefreshStatus, LookAt, Poll, Rest
  <2> HIDE DEF Checks, Computes
  <2> QED BY <2>1, <2>2, <2>3, <2>4
<1> QED BY <1>1, ReadsStep DEF Inv

LEMMA ServeStep ==
  ASSUME Inv, NEW h \in Handlers, Serve(h)
  PROVE  StoreStep(h)
<1>1. UNCHANGED <<setting, now>> /\ (Checks(h) \/ Writes(h) \/ Computes(h))
  BY DEF Serve
<1>2. CASE Checks(h) \/ Computes(h) \/ TicketTTL(h)
  BY <1>1, <1>2, ChecksStep
<1>3. CASE Captcha(h) \/ DropCaptcha(h) \/ Incr(h) \/ StoreCode(h) \/ DropCode(h)
  BY <1>1, <1>3, CaptchaStep, DropCaptchaStep, IncrStep, StoreCodeStep, DropCodeStep
<1>4. CASE MarkInvite(h) \/ Create(h) \/ SetPassword(h) \/ Ban(h) \/ Unban(h) \/ Bind(h)
  BY <1>1, <1>4, MarkInviteStep, CreateStep, UpdateStep
<1>5. CASE Keep(h) \/ DropToken(h) \/ CreateTicket(h) \/ DropTicket(h)
  BY <1>1, <1>5, KeepStep, DropTokenStep, CreateTicketStep, DropTicketStep
<1>6. CASE Scan(h) \/ Confirm(h)
  <2>1. Mark(h, "scan", "scanned") \/ Mark(h, "confirm", "confirmed")
    BY <1>6 DEF Scan, Confirm
  <2> QED BY <1>1, <2>1, MarkStep
<1> QED BY <1>1, <1>2, <1>3, <1>4, <1>5, <1>6 DEF Writes

LEMMA ServeKeeps ==
  ASSUME Inv, NEW h \in Handlers, Serve(h)
  PROVE  Inv'
<1>1. StoreInv' /\ Mild(h)
  BY ServeStep DEF StoreStep
<1>2. Outcome(h)
  BY ServeOutcome
<1>3. NoteBarred /\ setting' = setting
  BY DEF Serve
<1>4. Busy(h)
  <2>1. \E s : At(h, s)
    BY DEF Serve, Checks, Writes, Computes, Auth, VerifyCaptcha, VerifyCode, RateLimit, Invite,
           CountAccount, FindDevice, Password, CountPhone, RefreshStored, RefreshStatus, LookAt,
           Poll, Captcha, DropCaptcha, Incr, StoreCode, DropCode, MarkInvite, Create, SetPassword,
           Ban, Unban, Bind, Update, Keep, DropToken, CreateTicket, TicketTTL, Scan, Confirm, Mark,
           DropTicket, SendCode, GenShort, Token, Renew
  <2> QED BY <2>1, AtFacts DEF Inv
<1>5. HandInv'
  BY <1>2, <1>3, <1>4, MovesHand DEF Inv, Outcome
<1>6. BarredInv'
  BY <1>2, <1>3, <1>4, MovesBarred DEF Inv
<1>7. TicketsInv'
  BY <1>1, <1>2, <1>4, MovesTickets DEF Inv, Outcome
<1>8. PairsInv'
  BY <1>1, <1>2, <1>3, <1>4, MovesPairs
<1> QED BY <1>1, <1>5, <1>6, <1>7, <1>8 DEF Inv

-----------------------------------------------------------------------------
(* Steps that no request takes.                                            *)

LEMMA HandsStay ==
  ASSUME Inv, hand' = hand, UNCHANGED <<setting, drawn>>, NoteBarred,
         \A k \in DOMAIN redis' : k[1] \in CodeKinds =>
           k \in DOMAIN redis /\ redis'[k].val = redis[k].val,
         \A t : Known(t) <=> Key("ticket", t) \in DOMAIN redis' \/ t \in ended'
  PROVE  HandInv' /\ TicketsInv' /\ PairsInv' /\ BarredInv'
<1> USE DEF Inv, StoreInv
<1>1. HandInv'
  BY DEF HandInv, Busy, IsServed
<1>2. \A g \in Handlers : Busy(g) => barred'[g] \subseteq barred[g] /\ barred'[g] \subseteq Unmet(g)'
  BY Noted DEF Busy
<1>3. BarredInv'
  <2>1. \A g \in Handlers : Busy(g) => barred[g] \subseteq Elems(hand[g].todo)
    BY DEF BarredInv
  <2> QED BY <1>2, <2>1 DEF BarredInv, Busy
<1>4. TicketsInv'
  BY DEF TicketsInv, Busy, Op, Req, At, Known, Has
<1>5. PairsInv'
  <2>1. \A g \in Handlers : At(g, "expire") => Busy(g)
    BY AtFacts
  <2>2. \A g \in Handlers : At(g, "expire") /\ "expire" \in barred'[g] => "expire" \in barred[g]
    BY <1>2, <2>1
  <2>3. ASSUME NEW g \in Handlers, At(g, "dropCode"),
               NEW k \in DOMAIN redis', k[1] \in CodeKinds, redis'[k].val = Req(g).code
        PROVE  k = CodeKey(Req(g))
    BY <2>3 DEF PairsInv
  <2>4. \A g : Req(g)' = Req(g) /\ Op(g)' = Op(g) /\ \A s : At(g, s)' <=> At(g, s)
    BY DEF Req, Op, At
  <2> QED BY <2>2, <2>3, <2>4 DEF PairsInv
<1> QED BY <1>1, <1>3, <1>4, <1>5

LEMMA VanishKeeps ==
  ASSUME Inv, NEW k, VanishNoted(k)
  PROVE  Inv'
<1>1. /\ Del(k) /\ EndTicket(k) /\ hand' = hand /\ NoteBarred
      /\ UNCHANGED <<setting, Rows, given, spent, now, drawn>>
  BY DEF VanishNoted, Vanish, Rows
<1>2. StoreStep(k) /\ \A t : Key("ticket", t) \in DOMAIN redis' \/ t \in ended' => Known(t)
  BY <1>1, GoneStep DEF Inv
<1>3. \A t : Known(t) => Key("ticket", t) \in DOMAIN redis' \/ t \in ended'
  BY <1>2 DEF StoreStep, Mild, Known, Has
<1>4. \A x \in DOMAIN redis' : x \in DOMAIN redis /\ redis'[x] = redis[x]
  BY <1>1, DelFacts
<1>5. HandInv' /\ TicketsInv' /\ PairsInv' /\ BarredInv'
  BY <1>1, <1>2, <1>3, <1>4, HandsStay
<1> QED BY <1>2, <1>5 DEF Inv, StoreStep

LEMMA TickKeeps ==
  ASSUME Inv, Tick, NoteBarred
  PROVE  Inv'
<1> USE DEF Inv, StoreInv
<1>1. /\ UNCHANGED <<setting, Rows, redis, given, hand, ended, spent, drawn>>
      /\ now < setting.maxTime /\ now' = now + 1
  BY DEF Tick, Rows
<1>2. HandInv' /\ TicketsInv' /\ PairsInv' /\ BarredInv'
  <2>1. \A t : Known(t) <=> Key("ticket", t) \in DOMAIN redis' \/ t \in ended'
    BY <1>1 DEF Known, Has
  <2> QED BY <1>1, <2>1, HandsStay
<1>3. setting.maxTime \in Nat
  BY AccountsAssumption DEF HandInv
<1>4. KeysInv'
  <2>1. now' \in 0..setting.maxTime
    BY <1>1, <1>3 DEF KeysInv
  <2> QED BY <1>1, <2>1 DEF KeysInv, HasType
<1>5. SameKeys(Guarded)
  BY <1>1, SameLasting
<1>6. DrawsInv' /\ EndedInv'
  BY <1>1, <1>5, Undisturbed
<1>7. RowsInv'
  BY <1>1, RowsStay
<1> QED BY <1>2, <1>4, <1>6, <1>7

LEMMA CrashKeeps ==
  ASSUME Inv, Crash, NoteBarred
  PROVE  Inv'
<1>1. /\ UNCHANGED <<setting, Rows, redis, given, ended, spent, drawn, now>>
      /\ hand' = [h \in Handlers |-> Idle]
  BY DEF Crash, Rows
<1>2. StoreInv'
  BY <1>1, ReadsStep DEF Inv, StoreStep
<1>3. \A h \in Handlers : ~Busy(h)' /\ \A s : ~At(h, s)'
  BY <1>1 DEF Busy, At, Idle
<1>4. HandInv'
  BY <1>1, <1>3 DEF HandInv, Busy, Inv
<1> QED BY <1>2, <1>3, <1>4 DEF Inv, TicketsInv, PairsInv, BarredInv

\* Whom a request is about.
LEMMA RequestWho ==
  ASSUME NEW r \in Request, r.op \in {"register", "login", "qrScan", "qrConfirm"}
  PROVE  r.who \in People
BY DEF Request, AccountBodies, GuestBodies, OwnBodies, PhoneBodies, AdminBodies, QrBodies,
       CaptchaBodies, Body, People

LEMMA AskHand ==
  ASSUME Inv, NEW h \in Handlers, NEW r \in setting.ask, Ask(h, r)
  PROVE  /\ ~Busy(h) /\ Fresh(r.op) /\ IsServed(hand'[h]) /\ hand'[h] # Idle
         /\ hand'[h].req = r /\ hand'[h].todo = Statements(r.op)
         /\ Head(hand'[h].todo) = Statements(r.op)[1]
         /\ hand' = [g \in Handlers |-> hand'[g]]
         /\ \A g \in Handlers \ {h} : hand'[g] = hand[g]
<1>1. r \in Request
  BY AccountsAssumption DEF Inv, HandInv
<1>2. Fresh(r.op)
  BY <1>1, Lists
<1> DEFINE l == Statements(r.op)
<1>3. PICK n : hand' = [hand EXCEPT ![h] = [todo |-> l, req |-> r, who |-> r.who, num |-> n,
                                            unchecked |-> FALSE]]
  BY DEF Ask
<1>4. /\ Ready(r.op, l)
      /\ Elems(l) \cap Named # {} => l[1] \in Finders \/ r.op \in {"register", "login", "qrScan", "qrConfirm"}
  BY <1>2 DEF Fresh
<1> HIDE DEF l
<1>5. /\ hand' = [g \in Handlers |-> hand'[g]]
      /\ \A g \in Handlers \ {h} : hand'[g] = hand[g]
      /\ hand'[h] = [todo |-> l, req |-> r, who |-> r.who, num |-> n, unchecked |-> FALSE]
  BY <1>3 DEF Inv, HandInv
<1> DEFINE b == hand'[h]
<1>6. /\ b = [todo |-> b.todo, req |-> b.req, who |-> b.who, num |-> b.num, unchecked |-> b.unchecked]
      /\ b.todo = l /\ b.req = r /\ b.who = r.who
  BY <1>5
<1> HIDE DEF b
<1>7. b.todo[1] \notin Finders /\ Elems(b.todo) \cap Named # {} => b.who \in People
  BY <1>1, <1>4, <1>6, RequestWho
<1>8. IsServed(b)
  BY <1>4, <1>6, <1>7 DEF IsServed
<1>9. l # <<>> /\ Head(l) = l[1]
  BY <1>4 DEF Ready
<1>10. b # Idle
  <2>1. Idle.todo = <<>>
    BY DEF Idle
  <2> QED BY <1>6, <1>9, <2>1
<1>11. ~Busy(h)
  BY DEF Ask, Busy
<1> QED BY <1>2, <1>5, <1>6, <1>8, <1>9, <1>10, <1>11 DEF l, b

LEMMA AskKeeps ==
  ASSUME Inv, NEW h \in Handlers, NEW r \in setting.ask, Ask(h, r), NoteBarred
  PROVE  Inv'
<1> USE DEF Inv
<1> DEFINE b == hand'[h]
<1>1. /\ ~Busy(h) /\ Fresh(r.op) /\ IsServed(b) /\ b # Idle
      /\ b.req = r /\ b.todo = Statements(r.op) /\ Head(b.todo) = Statements(r.op)[1]
      /\ hand' = [g \in Handlers |-> hand'[g]]
      /\ \A g \in Handlers \ {h} : hand'[g] = hand[g]
  BY AskHand
<1>2. UNCHANGED <<setting, Rows, redis, given, ended, spent, drawn, now>>
  BY DEF Ask, Rows
<1>3. StoreInv'
  BY <1>2, ReadsStep DEF StoreStep
<1>4. HandInv'
  <2>1. \A g \in Handlers : hand'[g] # Idle => IsServed(hand'[g])
    BY <1>1 DEF HandInv, Busy
  <2>2. \A g \in Handlers : hand'[g] # Idle => IsServed(hand[g])'
    BY <1>2, <2>1 DEF IsServed
  <2> QED BY <1>1, <1>2, <2>2 DEF HandInv, Busy
<1>5. ASSUME NEW g \in Handlers, g # h, hand'[g] # Idle
      PROVE  /\ Busy(g) /\ hand'[g] = hand[g]
             /\ barred'[g] \subseteq barred[g] /\ barred'[g] \subseteq Unmet(g)'
             /\ barred[g] \subseteq Elems(hand[g].todo)
  <2>1. hand'[g] = hand[g]
    BY <1>1, <1>5
  <2> QED BY <1>5, <2>1, Noted DEF Busy
<1>6. BarredInv'
  <2>1. barred'[h] \subseteq Unmet(h)'
    BY <1>1 DEF NoteBarred, Busy
  <2>2. Unmet(h)' \subseteq Elems(Statements(r.op))
    <3>1. Unmet(h)' \subseteq Elems(Statements(Op(h))')
      BY DEF Unmet, Op, Req
    <3>2. Op(h)' = r.op
      BY <1>1 DEF Op, Req
    <3>3. Statements(Op(h))' = Statements(r.op)
      BY <1>2, <3>2 DEF Statements, CaptchaCheck, Sent, Session, If
    <3> QED BY <3>1, <3>3
  <2>3. \A g \in Handlers : hand'[g] # Idle => barred'[g] \subseteq Unmet(g)' \cap Elems(hand'[g].todo)
    BY <1>1, <1>5, <2>1, <2>2
  <2> QED BY <2>3 DEF BarredInv, Busy
<1>7. ~At(h, "dropCaptcha")' /\ ~At(h, "dropCode")' /\ ~At(h, "keep")' /\ ~At(h, "expire")'
  BY <1>1 DEF At, Fresh, Leader
<1>8. \A g \in Handlers \ {h} : /\ Req(g)' = Req(g) /\ Op(g)' = Op(g)
                                /\ \A s : At(g, s)' <=> At(g, s)
  BY <1>1 DEF Req, Op, At
<1>9. PairsInv'
  <2>1. ASSUME NEW g \in Handlers, g # h
        PROVE  /\ At(g, "dropCaptcha") => Req(g).cap \in 1..drawn
               /\ At(g, "dropCode") =>
                    /\ Req(g).code \in 0..drawn
                    /\ \A k \in DOMAIN redis :
                         k[1] \in CodeKinds /\ redis[k].val = Req(g).code => k = CodeKey(Req(g))
               /\ At(g, "keep") => hand'[g].num \in 0..setting.maxTime
               /\ At(g, "expire") /\ "expire" \in barred'[g] =>
                    hand'[g].num \in Nat /\ hand'[g].num > Limit(Op(g))
    <3>1. hand'[g] = hand[g]
      BY <1>1, <2>1
    <3>2. At(g, "expire") => Busy(g)
      BY AtFacts
    <3>3. At(g, "expire") /\ "expire" \in barred'[g] => "expire" \in barred[g]
      BY <1>5, <2>1, <3>1, <3>2 DEF Busy
    <3> QED BY <3>1, <3>3 DEF PairsInv
  <2> QED BY <1>2, <1>7, <1>8, <2>1 DEF PairsInv
<1>10. TicketsInv'
  <2>1. Req(h)' = r /\ Op(h)' = r.op
    BY <1>1 DEF Req, Op
  <2>2. \A t : Known(t)' <=> Known(t)
    BY <1>2 DEF Known, Has
  <2>3. /\ r.op \in {"qrScan", "qrConfirm", "qrPoll"} => Known(r.tick)
        /\ r.op = "qrCreate" => ~Known(r.tick) /\ \A g \in Handlers : Busy(g) => Op(g) # "qrCreate"
    BY DEF Ask, Known, Busy
  <2>4. At(h, "ticket")' => r.op = "qrCreate"
    BY <1>1 DEF At, Fresh
  <2>5. ASSUME NEW g \in Handlers, hand'[g] # Idle
        PROVE  /\ Op(g)' \in {"qrScan", "qrConfirm", "qrPoll"} => Known(Req(g).tick)'
               /\ At(g, "ticket")' => ~Known(Req(g).tick)'
               /\ Op(g)' = "qrCreate" =>
                    \A f \in Handlers : hand'[f] # Idle /\ Op(f)' = "qrCreate" => f = g
    <3>1. CASE g = h
      <4>1. Known(Req(h).tick)' <=> Known(r.tick)
        BY <1>2, <2>1 DEF Known, Has
      <4>2. r.op = "qrCreate" =>
              \A f \in Handlers : hand'[f] # Idle /\ Op(f)' = "qrCreate" => f = h
        BY <1>5, <1>8, <2>3
      <4> QED BY <2>1, <2>3, <2>4, <3>1, <4>1, <4>2
    <3>2. CASE g # h
      <4>1. Busy(g) /\ hand'[g] = hand[g]
        BY <1>5, <2>5, <3>2
      <4>2. Known(Req(g).tick)' <=> Known(Req(g).tick)
        BY <1>2, <4>1 DEF Known, Has, Req
      <4>3. Op(g)' = "qrCreate" =>
              \A f \in Handlers : hand'[f] # Idle /\ Op(f)' = "qrCreate" => f = g
        <5>1. SUFFICES ASSUME Op(g)' = "qrCreate", NEW f \in Handlers, hand'[f] # Idle,
                              Op(f)' = "qrCreate"
                       PROVE  f = g
          OBVIOUS
        <5>2. Op(g) = "qrCreate"
          BY <1>8, <3>2, <5>1
        <5>3. f # h
          BY <2>1, <2>3, <4>1, <5>1, <5>2
        <5>4. Busy(f) /\ Op(f) = "qrCreate"
          BY <1>5, <1>8, <5>1, <5>3
        <5> QED BY <4>1, <5>2, <5>4 DEF TicketsInv
      <4> QED BY <1>8, <3>2, <4>1, <4>2, <4>3 DEF TicketsInv
    <3> QED BY <3>1, <3>2
  <2> QED BY <2>5 DEF TicketsInv, Busy
<1> QED BY <1>3, <1>4, <1>6, <1>9, <1>10

-----------------------------------------------------------------------------
(* The theorem.                                                            *)

LEMMA InvStarts == Init => Inv
<1> SUFFICES ASSUME Init PROVE Inv
  OBVIOUS
<1>1. \A h \in Handlers : hand[h] = Idle /\ ~Busy(h) /\ \A s : ~At(h, s)
  BY DEF Init, At, Busy, Idle
<1>2. HandInv
  BY <1>1 DEF Init, HandInv
<1>3. RowsInv
  BY DEF Init, RowsInv, IsRow, NoUser
<1>4. DOMAIN redis = {} /\ given = {} /\ spent = {} /\ ended = {} /\ drawn = 0 /\ now = 0
  BY DEF Init
<1>5. KeysInv
  <2>1. setting.maxTime \in Nat
    BY AccountsAssumption DEF Init
  <2> QED BY <1>4, <2>1 DEF KeysInv
<1>6. DrawsInv /\ EndedInv
  BY <1>4 DEF DrawsInv, EndedInv, Has
<1> QED BY <1>1, <1>2, <1>3, <1>5, <1>6 DEF Inv, StoreInv, TicketsInv, PairsInv, BarredInv

LEMMA StutterKeeps == Inv /\ UNCHANGED vars => Inv'
<1> SUFFICES ASSUME Inv, UNCHANGED vars PROVE Inv'
  OBVIOUS
<1>1. UNCHANGED <<setting, user, invite, redis, given, hand, barred, ended, spent, now, drawn>>
  BY DEF vars
<1>2. HandInv'
  BY <1>1 DEF Inv, HandInv, Busy, IsServed
<1>3. StoreInv'
  BY <1>1, ReadsStep DEF Inv, StoreStep, Rows
<1>4. TicketsInv'
  BY <1>1 DEF Inv, TicketsInv, Busy, Op, Req, At, Known, Has
<1>5. PairsInv'
  BY <1>1 DEF Inv, PairsInv, Op, Req, At
<1>6. BarredInv'
  <2>1. \A h : Unmet(h)' = Unmet(h)
    BY <1>1 DEF Unmet, Statements, CaptchaCheck, Sent, Has, Stored, Count, Who, Req, OfDevice, OtherHas,
                TicketKey, Ticket, Unused
  <2> QED BY <1>1, <2>1 DEF Inv, BarredInv, Busy
<1> QED BY <1>2, <1>3, <1>4, <1>5, <1>6 DEF Inv

LEMMA NextKeeps == Inv /\ [Next]_vars => Inv'
<1> SUFFICES ASSUME Inv, [Next]_vars PROVE Inv'
  OBVIOUS
<1>1. ASSUME NEW h \in Handlers, NEW r \in setting.ask, Ask(h, r), NoteBarred PROVE Inv'
  BY <1>1, AskKeeps
<1>2. ASSUME NEW h \in Handlers, Serve(h) PROVE Inv'
  BY <1>2, ServeKeeps
<1>3. ASSUME NEW k \in DOMAIN redis, VanishNoted(k) PROVE Inv'
  BY <1>3, VanishKeeps
<1>4. CASE Crash /\ NoteBarred
  BY <1>4, CrashKeeps
<1>5. CASE Tick /\ NoteBarred
  BY <1>5, TickKeeps
<1>6. CASE UNCHANGED vars
  BY <1>6, StutterKeeps
<1> QED BY <1>1, <1>2, <1>3, <1>4, <1>5, <1>6 DEF Next

LEMMA InvMeans == Inv => AccountsInv
<1> SUFFICES ASSUME Inv PROVE AccountsInv
  OBVIOUS
<1>1. \A u \in People : DOMAIN user[u] = DOMAIN NoUser
  <2>1. \A u \in People : IsRow(user[u])
    BY DEF Inv, StoreInv, RowsInv
  <2> QED BY <2>1 DEF IsRow, NoUser
<1>2. \A u \in People :
        /\ user[u].status \in {"none", "normal", "disabled"}
        /\ \A v \in People \ {u} : user[u].short = user[v].short => user[u].short = 0
  BY DEF Inv, StoreInv, RowsInv, IsRow
<1>3. \A k \in DOMAIN redis :
        /\ k[1] = "ticket" => redis[k].val \in TicketType
        /\ k[1] # "ticket" => redis[k].val \in Nat
        /\ k[1] \in {"captcha", "sms", "bindphone", "refresh"} => redis[k].ttl
  BY DEF Inv, StoreInv, KeysInv, HasType, CodeKinds
<1>4. \A h \in Handlers : hand[h] # Idle => hand[h].todo # <<>>
  BY DEF Inv, HandInv, IsServed, Ready, Busy
<1>5. TypeOK
  BY <1>1, <1>2, <1>3, <1>4 DEF Inv, StoreInv, RowsInv, KeysInv, TypeOK
<1>6. NeverWhollyBarred
  BY DEF Inv, BarredInv, NeverWhollyBarred, Busy
<1> QED BY <1>5, <1>6 DEF AccountsInv

\* Whatever the requests, however they overlap, whenever keys expire, the
\* clock ticks or the api dies: rows and keys of Redis have their types, no two
\* users share a short id, and no request gets past a check of the login,
\* registration, invite, code, token or QR handlers that was failing at every
\* moment since it arrived.
THEOREM AccountsAreSafe == Spec => []AccountsInv
<1>1. Spec => []Inv
  BY InvStarts, NextKeeps, PTL DEF Spec
<1> QED BY <1>1, InvMeans, PTL
=============================================================================
