---------------------------- MODULE SocialProofs ----------------------------
(***************************************************************************)
(* Theorems about friends, direct conversations and moments, for any users *)
(* and staff, codes and requests.                                          *)
(***************************************************************************)
EXTENDS SocialProps, TLAPS

-----------------------------------------------------------------------------
(* The order of the statements of a request.                               *)

Dos ==
  {"has", "row", "conv", "newConv", "creator", "other", "text", "unrow", "already", "pending",
   "file", "find", "status", "hasBlack", "rowBlack", "unBlack", "assign", "each", "index",
   "invite", "valid", "mayInvite", "isIn", "joins", "used", "helped", "served", "codeCount", "codeAdd", "codeSet", "codeDel",
   "publish", "circle", "posts", "answer", "liked", "like", "post", "comment", "uncomment",
   "hide", "dropPost", "dropAll"}
Parts == {"", "kefu", "invite", "friend", "help"}
Sts == [do : Dos, a : Everyone, b : Everyone \cup Nat \cup Seq(Users),
        part : Parts]

\* Statements about the conversation that was found or made before, and about
\* what else was read before.
Talks == {"newConv", "creator", "other", "text"}
Later == {"comment", "like", "posts", "answer", "row", "rowBlack"}
Makes == {"conv", "newConv", "creator", "has", "hasBlack", "helped", "served"}
First == {"index", "find"}   \* these stand behind no other

Follows(s, t) ==
  /\ t.do \in Talks \cup Later => s.part = t.part
  /\ t.do \in Talks => {s.a, s.b} = {t.a, t.b}
  /\ (t.do = "newConv" <=> s.do = "conv") /\ (t.do = "creator" <=> s.do = "newConv")
  /\ (t.do = "other" <=> s.do = "creator") /\ (t.do = "text" => s.do = "other")
  /\ (t.do = "comment" => s.do = "post") /\ (t.do = "like" => s.do = "liked")
  /\ (t.do = "posts" => s.do = "circle") /\ (t.do = "answer" => s.do = "posts")
  /\ (t.do = "row" <=> s.do = "has") /\ (t.do = "rowBlack" <=> s.do = "hasBlack")
  /\ (s.do \in {"helped", "served"} => s.part = t.part)
  /\ t.do \notin First

\* What a statement of a request is about; A are the pairs that agreed.
Fits(A, r, s) ==
  /\ s.do \in {"has", "row"} => s.a \in Users /\ s.b \in Users /\ {s.a, s.b} \in A
  /\ s.do \in {"unrow", "file", "rowBlack", "unBlack"} => s.a \in Users /\ s.b \in Users
  /\ s.do \in Talks \cup {"conv"} => s.a \in Everyone /\ s.b \in Everyone
  /\ s.do = "each" => /\ s.a \in Users /\ s.b \in Seq(Users) /\ s.b # <<>>
                      /\ \A i \in DOMAIN s.b : {s.a, s.b[i]} \in A
  /\ s.do \in {"assign", "invite"} => s.a \in Users
  /\ s.do = "invite" => r.code \in Codes
  /\ s.do = "find" => r.op = "handle"

\* A list of statements that a request may still have to execute.
Todo(A, r, l) ==
  /\ l \in Seq(Sts) /\ l # <<>>
  /\ \A n \in 2..Len(l) : Follows(l[n - 1], l[n])
  /\ \A n \in 1..Len(l) : Fits(A, r, l[n])
  /\ l[Len(l)].do \notin Makes

\* One that needs nothing to stand before it.
Piece(A, r, l) == l = <<>> \/ (Todo(A, r, l) /\ l[1].do \notin Talks \cup Later \cup First)

LEMMA Concat ==
  ASSUME NEW A, NEW r, NEW a, NEW b, Todo(A, r, a), Piece(A, r, b)
  PROVE  Todo(A, r, a \o b) /\ (a \o b)[1] = a[1] /\ ToSet(b) \subseteq ToSet(a \o b)
<1>1. CASE b = <<>>
  <2>1. a \o b = a
    BY <1>1 DEF Todo
  <2>2. ToSet(b) = {}
    BY <1>1 DEF ToSet
  <2> QED BY <2>1, <2>2
<1>2. CASE b # <<>>
  <2> DEFINE c == a \o b
  <2>0. Todo(A, r, b) /\ b[1].do \notin Talks \cup Later \cup First
    BY <1>2 DEF Piece
  <2>1. /\ a \in Seq(Sts) /\ b \in Seq(Sts) /\ c \in Seq(Sts) /\ Len(c) = Len(a) + Len(b)
        /\ Len(a) \in Nat /\ Len(b) \in Nat /\ Len(a) > 0 /\ Len(b) > 0
        /\ \A n \in 1..Len(a) : c[n] = a[n]
        /\ \A n \in 1..Len(b) : c[Len(a) + n] = b[n]
    BY <2>0 DEF Todo
  <2>2. \A n \in 1..Len(c) : n > Len(a) => c[n] = b[n - Len(a)] /\ n - Len(a) \in 1..Len(b)
    BY <2>1
  <2>a. /\ Len(a) \in Nat /\ Len(b) \in Nat /\ Len(a) > 0 /\ Len(b) > 0
        /\ Len(c) = Len(a) + Len(b)
    BY <2>1
  <2>b. \A n \in 1..Len(a) : c[n] = a[n]
    BY <2>1
  <2>d. \A n \in 1..Len(b) : c[Len(a) + n] = b[n]
    BY <2>1
  <2> HIDE DEF c
  <2>3. ASSUME NEW n \in 2..Len(c)
        PROVE  Follows(c[n - 1], c[n])
    <3>1. CASE n <= Len(a)
      <4>1. n \in 2..Len(a) /\ n \in 1..Len(a) /\ n - 1 \in 1..Len(a)
        BY <2>a, <3>1
      <4>2. c[n] = a[n] /\ c[n - 1] = a[n - 1]
        BY <2>b, <4>1
      <4> QED BY <4>1, <4>2 DEF Todo
    <3>2. CASE n = Len(a) + 1
      <4>0. 1 \in 1..Len(b) /\ Len(a) \in 1..Len(a) /\ n - 1 = Len(a)
        BY <2>a, <3>2
      <4>1. /\ c[n] = b[1] /\ c[n - 1] = a[Len(a)]
        BY <2>b, <2>d, <3>2, <4>0
      <4>2. a[Len(a)].do \notin Makes
        BY DEF Todo
      <4> QED BY <4>1, <4>2, <2>0 DEF Follows, Talks, Later, First, Makes
    <3>3. CASE n > Len(a) + 1
      <4>0. /\ n \in 1..Len(c) /\ n - 1 \in 1..Len(c) /\ n - 1 > Len(a)
            /\ (n - 1) - Len(a) = (n - Len(a)) - 1
        BY <2>1, <3>3
      <4>1. /\ c[n] = b[n - Len(a)] /\ c[n - 1] = b[(n - Len(a)) - 1] /\ n - Len(a) \in 2..Len(b)
        BY <2>1, <2>2, <3>3, <4>0
      <4> QED BY <4>1, <2>0 DEF Todo
    <3>4. n \in Nat /\ Len(a) \in Nat
      BY <2>1
    <3> QED BY <3>1, <3>2, <3>3, <3>4
  <2>4. ASSUME NEW n \in 1..Len(c)
        PROVE  Fits(A, r, c[n])
    <3>1. CASE n <= Len(a)
      <4>1. n \in 1..Len(a)
        BY <2>1, <3>1
      <4> QED BY <2>1, <4>1 DEF Todo
    <3>2. CASE n > Len(a)
      BY <2>2, <3>2, <2>0 DEF Todo
    <3> QED BY <2>1, <3>1, <3>2
  <2>5. c[Len(c)] = b[Len(b)] /\ c # <<>> /\ c[1] = a[1]
    BY <2>1
  <2>6. ToSet(b) \subseteq ToSet(c)
    <3>1. \A n \in 1..Len(b) : Len(a) + n \in 1..Len(c)
      BY <2>1
    <3>2. DOMAIN b = 1..Len(b) /\ DOMAIN c = 1..Len(c)
      BY <2>1
    <3> QED BY <2>1, <3>1, <3>2 DEF ToSet
  <2>7. Todo(A, r, c)
    BY <2>0, <2>1, <2>3, <2>4, <2>5 DEF Todo
  <2> QED BY <2>5, <2>6, <2>7 DEF c
<1> QED BY <1>1, <1>2

LEMMA PieceConcat ==
  ASSUME NEW A, NEW r, NEW a, NEW b, Piece(A, r, a), Piece(A, r, b)
  PROVE  Piece(A, r, a \o b)
<1>1. CASE a = <<>>
  <2>1. CASE b = <<>>
    <3>1. a \o b = <<>>
      BY <1>1, <2>1
    <3> QED BY <3>1 DEF Piece
  <2>2. CASE b # <<>>
    <3>1. b \in Seq(Sts)
      BY <2>2 DEF Piece, Todo
    <3>2. a \o b = b
      BY <1>1, <3>1
    <3> QED BY <3>2
  <2> QED BY <2>1, <2>2
<1>2. CASE a # <<>>
  BY <1>2, Concat DEF Piece
<1> QED BY <1>1, <1>2

\* What is left of a list from its n-th statement on.
LEMMA Suffix ==
  ASSUME NEW A, NEW r, NEW l, Todo(A, r, l), NEW n \in Nat, n > 1
  PROVE  LET c == SubSeq(l, n, Len(l)) IN
         /\ n > Len(l) <=> c = <<>>
         /\ Len(c) = IF n > Len(l) THEN 0 ELSE Len(l) - n + 1
         /\ n <= Len(l) => Todo(A, r, c) /\ c[1] = l[n] /\ Follows(l[n - 1], l[n])
<1> DEFINE c == SubSeq(l, n, Len(l))
<1>0. l \in Seq(Sts) /\ Len(l) \in Nat /\ \A i \in 1..Len(l) : l[i] \in Sts
  BY DEF Todo
<1>1. CASE n > Len(l)
  <2>1. c = <<>> /\ Len(c) = 0
    BY <1>0, <1>1
  <2> QED BY <1>1, <2>1, <1>0
<1>2. CASE n <= Len(l)
  <2>1. /\ c \in Seq(Sts) /\ Len(c) = Len(l) - n + 1
        /\ \A i \in 1..Len(c) : c[i] = l[i + n - 1]
    BY <1>0, <1>2
  <2>2. n \in 2..Len(l) /\ ~(n > Len(l))
    BY <1>0, <1>2
  <2> HIDE DEF c
  <2>3. c # <<>> /\ c[1] = l[n] /\ c[Len(c)] = l[Len(l)] /\ Len(c) \in Nat /\ Len(c) > 0
    <3>1. Len(c) \in Nat /\ Len(c) > 0
      BY <1>0, <2>1, <2>2
    <3>2. 1 \in 1..Len(c) /\ Len(c) \in 1..Len(c) /\ 1 + n - 1 = n /\ Len(c) + n - 1 = Len(l)
      BY <1>0, <2>1, <2>2, <3>1
    <3> QED BY <2>1, <3>1, <3>2
  <2>4. ASSUME NEW i \in 2..Len(c)
        PROVE  Follows(c[i - 1], c[i])
    <3>1. /\ i \in 1..Len(c) /\ i - 1 \in 1..Len(c) /\ (i - 1) + n - 1 = (i + n - 1) - 1
          /\ i + n - 1 \in 2..Len(l)
      BY <1>0, <2>1, <2>2
    <3>2. c[i] = l[i + n - 1] /\ c[i - 1] = l[(i + n - 1) - 1]
      BY <2>1, <3>1
    <3> QED BY <3>1, <3>2 DEF Todo
  <2>5. ASSUME NEW i \in 1..Len(c)
        PROVE  Fits(A, r, c[i])
    <3>1. i + n - 1 \in 1..Len(l)
      BY <1>0, <2>1, <2>2
    <3> QED BY <2>1, <3>1 DEF Todo
  <2>6. Todo(A, r, c)
    BY <2>1, <2>3, <2>4, <2>5 DEF Todo
  <2>7. Follows(l[n - 1], l[n])
    BY <2>2 DEF Todo
  <2> QED BY <2>1, <2>2, <2>3, <2>6, <2>7 DEF c
<1> QED BY <1>0, <1>1, <1>2

\* Only the empty sequence has no length.
LEMMA Emptied ==
  ASSUME NEW S, NEW c \in Seq(S)
  PROVE  c = <<>> <=> Len(c) = 0
OBVIOUS

\* The head of a list, and the rest of it.
LEMMA HeadTail ==
  ASSUME NEW A, NEW r, NEW l, Todo(A, r, l)
  PROVE  /\ Head(l) = l[1] /\ l[1] \in Sts /\ Fits(A, r, l[1]) /\ Len(l) \in Nat /\ Len(l) > 0
         /\ Tail(l) = SubSeq(l, 2, Len(l)) /\ Len(Tail(l)) = Len(l) - 1
         /\ Tail(l) # <<>> <=> Len(l) > 1
         /\ Tail(l) # <<>> => /\ Todo(A, r, Tail(l)) /\ Tail(l)[1] = l[2] /\ Follows(l[1], l[2])
         /\ ToSet(l) = {l[1]} \cup ToSet(Tail(l))
<1>0. l \in Seq(Sts) /\ l # <<>>
  BY DEF Todo
<1>1. Head(l) = l[1] /\ Len(l) \in Nat /\ Len(l) > 0 /\ 1 \in 1..Len(l)
  BY <1>0
<1>2. l[1] \in Sts /\ Fits(A, r, l[1])
  BY <1>0, <1>1 DEF Todo
<1>3. Tail(l) = SubSeq(l, 2, Len(l))
  BY <1>0
<1>4. /\ Len(Tail(l)) = Len(l) - 1
      /\ Tail(l) # <<>> <=> Len(l) > 1
      /\ \A i \in 1..Len(Tail(l)) : Tail(l)[i] = l[i + 1]
      /\ DOMAIN Tail(l) = 1..Len(Tail(l)) /\ DOMAIN l = 1..Len(l)
  <2>1. Tail(l) \in Seq(Sts) /\ Len(Tail(l)) = Len(l) - 1
    BY <1>0
  <2>2. Tail(l) # <<>> <=> Len(l) > 1
    <3> DEFINE c == Tail(l)
    <3>1. c \in Seq(Sts) /\ Len(c) = Len(l) - 1
      BY <2>1
    <3>a. Len(l) \in Nat /\ Len(c) = Len(l) - 1 /\ Len(c) \in Nat
      BY <1>1, <3>1
    <3> HIDE DEF c
    <3>2. c = <<>> <=> Len(c) = 0
      BY <3>1, Emptied
    <3>3. Len(c) = 0 <=> ~(Len(l) > 1)
      BY ONLY <3>a
    <3>4. c # <<>> <=> Len(l) > 1
      BY <3>2, <3>3
    <3> QED BY <3>4 DEF c
  <2>3. \A i \in 1..Len(Tail(l)) : Tail(l)[i] = l[i + 1]
    BY <1>0
  <2>4. DOMAIN Tail(l) = 1..Len(Tail(l)) /\ DOMAIN l = 1..Len(l)
    BY <1>0, <2>1
  <2> QED BY <2>1, <2>2, <2>3, <2>4
<1>5. Tail(l) # <<>> => /\ Todo(A, r, Tail(l)) /\ Tail(l)[1] = l[2] /\ Follows(l[1], l[2])
  <2> SUFFICES ASSUME Tail(l) # <<>> PROVE Todo(A, r, Tail(l)) /\ Tail(l)[1] = l[2] /\ Follows(l[1], l[2])
    OBVIOUS
  <2>1. 2 <= Len(l) /\ 2 \in Nat /\ 2 > 1 /\ 2 - 1 = 1
    BY <1>1, <1>4
  <2> HIDE <1>3
  <2>2. LET c == SubSeq(l, 2, Len(l)) IN 2 <= Len(l) => Todo(A, r, c) /\ c[1] = l[2] /\ Follows(l[2 - 1], l[2])
    BY Suffix, <2>1
  <2> QED BY <2>1, <2>2, <1>3
<1>6. ToSet(l) = {l[1]} \cup ToSet(Tail(l))
  <2> DEFINE c == Tail(l)
  <2>1. \A i \in 1..Len(l) : i = 1 \/ (i - 1 \in 1..Len(c) /\ c[i - 1] = l[i])
    BY <1>1, <1>4
  <2>2. \A i \in 1..Len(c) : i + 1 \in 1..Len(l)
    BY <1>1, <1>4
  <2> HIDE DEF c
  <2>3. DOMAIN c = 1..Len(c) /\ \A i \in 1..Len(c) : c[i] = l[i + 1]
    BY <1>4 DEF c
  <2>4. \A x \in ToSet(l) : x = l[1] \/ x \in ToSet(c)
    BY <1>4, <2>1, <2>3 DEF ToSet
  <2>5. ToSet(c) \subseteq ToSet(l) /\ l[1] \in ToSet(l)
    <3>1. \A x \in ToSet(c) : x \in ToSet(l)
      BY <1>4, <2>2, <2>3 DEF ToSet
    <3>2. l[1] \in ToSet(l)
      BY <1>1, <1>4 DEF ToSet
    <3> QED BY <3>1, <3>2
  <2>6. ToSet(l) = {l[1]} \cup ToSet(c)
    BY <2>4, <2>5
  <2> QED BY <2>6 DEF c
<1> QED BY <1>1, <1>2, <1>3, <1>4, <1>5, <1>6

LEMMA TodoGrows ==
  ASSUME NEW A, NEW B, A \subseteq B, NEW r, NEW l, Todo(A, r, l)
  PROVE  Todo(B, r, l)
BY DEF Todo, Fits

-----------------------------------------------------------------------------
(* The lists of the operations.                                            *)

LEMMA List1 ==
  ASSUME NEW A, NEW r, NEW s1 \in Sts, s1.do \notin Makes,
         Fits(A, r, s1)
  PROVE  Todo(A, r, <<s1>>) /\ <<s1>>[1] = s1
<1> DEFINE l == <<s1>>
<1>0. l \in Seq(Sts) /\ Len(l) = 1 /\ l[1] = s1
  OBVIOUS
<1> HIDE DEF l
<1>1. 2..Len(l) = {}
  BY <1>0
<1>2. \A n \in 1..Len(l) : n = 1
  BY <1>0
<1>3. l # <<>>
  BY <1>0
<1>4. \A n \in 2..Len(l) : Follows(l[n - 1], l[n])
  BY <1>1
<1>5. \A n \in 1..Len(l) : Fits(A, r, l[n])
  BY <1>0, <1>2
<1>6. Todo(A, r, l)
  BY <1>0, <1>3, <1>4, <1>5 DEF Todo
<1> QED BY <1>0, <1>6 DEF l

LEMMA List2 ==
  ASSUME NEW A, NEW r, NEW s1 \in Sts, NEW s2 \in Sts, s2.do \notin Makes,
         Follows(s1, s2),
         Fits(A, r, s1), Fits(A, r, s2)
  PROVE  Todo(A, r, <<s1, s2>>) /\ <<s1, s2>>[1] = s1
<1> DEFINE l == <<s1, s2>>
<1>0. l \in Seq(Sts) /\ Len(l) = 2 /\ l[1] = s1 /\ l[2] = s2
  OBVIOUS
<1> HIDE DEF l
<1>1. \A n \in 2..Len(l) : n = 2
  BY <1>0
<1>2. \A n \in 1..Len(l) : n = 1 \/ n = 2
  BY <1>0
<1>3. l # <<>>
  BY <1>0
<1>4. \A n \in 2..Len(l) : Follows(l[n - 1], l[n])
  BY <1>0, <1>1
<1>5. \A n \in 1..Len(l) : Fits(A, r, l[n])
  BY <1>0, <1>2
<1>6. Todo(A, r, l)
  BY <1>0, <1>3, <1>4, <1>5 DEF Todo
<1> QED BY <1>0, <1>6 DEF l

LEMMA List3 ==
  ASSUME NEW A, NEW r, NEW s1 \in Sts, NEW s2 \in Sts, NEW s3 \in Sts, s3.do \notin Makes,
         Follows(s1, s2), Follows(s2, s3),
         Fits(A, r, s1), Fits(A, r, s2), Fits(A, r, s3)
  PROVE  Todo(A, r, <<s1, s2, s3>>) /\ <<s1, s2, s3>>[1] = s1
<1> DEFINE l == <<s1, s2, s3>>
<1>0. l \in Seq(Sts) /\ Len(l) = 3 /\ l[1] = s1 /\ l[2] = s2 /\ l[3] = s3
  OBVIOUS
<1> HIDE DEF l
<1>1. \A n \in 2..Len(l) : n = 2 \/ n = 3
  BY <1>0
<1>2. \A n \in 1..Len(l) : n = 1 \/ n = 2 \/ n = 3
  BY <1>0
<1>3. l # <<>>
  BY <1>0
<1>4. \A n \in 2..Len(l) : Follows(l[n - 1], l[n])
  BY <1>0, <1>1
<1>5. \A n \in 1..Len(l) : Fits(A, r, l[n])
  BY <1>0, <1>2
<1>6. Todo(A, r, l)
  BY <1>0, <1>3, <1>4, <1>5 DEF Todo
<1> QED BY <1>0, <1>6 DEF l

LEMMA List4 ==
  ASSUME NEW A, NEW r, NEW s1 \in Sts, NEW s2 \in Sts, NEW s3 \in Sts, NEW s4 \in Sts, s4.do \notin Makes,
         Follows(s1, s2), Follows(s2, s3), Follows(s3, s4),
         Fits(A, r, s1), Fits(A, r, s2), Fits(A, r, s3), Fits(A, r, s4)
  PROVE  Todo(A, r, <<s1, s2, s3, s4>>) /\ <<s1, s2, s3, s4>>[1] = s1
<1> DEFINE l == <<s1, s2, s3, s4>>
<1>0. l \in Seq(Sts) /\ Len(l) = 4 /\ l[1] = s1 /\ l[2] = s2 /\ l[3] = s3 /\ l[4] = s4
  OBVIOUS
<1> HIDE DEF l
<1>1. \A n \in 2..Len(l) : n = 2 \/ n = 3 \/ n = 4
  BY <1>0
<1>2. \A n \in 1..Len(l) : n = 1 \/ n = 2 \/ n = 3 \/ n = 4
  BY <1>0
<1>3. l # <<>>
  BY <1>0
<1>4. \A n \in 2..Len(l) : Follows(l[n - 1], l[n])
  BY <1>0, <1>1
<1>5. \A n \in 1..Len(l) : Fits(A, r, l[n])
  BY <1>0, <1>2
<1>6. Todo(A, r, l)
  BY <1>0, <1>3, <1>4, <1>5 DEF Todo
<1> QED BY <1>0, <1>6 DEF l

LEMMA List5 ==
  ASSUME NEW A, NEW r, NEW s1 \in Sts, NEW s2 \in Sts, NEW s3 \in Sts, NEW s4 \in Sts, NEW s5 \in Sts, s5.do \notin Makes,
         Follows(s1, s2), Follows(s2, s3), Follows(s3, s4), Follows(s4, s5),
         Fits(A, r, s1), Fits(A, r, s2), Fits(A, r, s3), Fits(A, r, s4), Fits(A, r, s5)
  PROVE  Todo(A, r, <<s1, s2, s3, s4, s5>>) /\ <<s1, s2, s3, s4, s5>>[1] = s1
<1> DEFINE l == <<s1, s2, s3, s4, s5>>
<1>0. l \in Seq(Sts) /\ Len(l) = 5 /\ l[1] = s1 /\ l[2] = s2 /\ l[3] = s3 /\ l[4] = s4 /\ l[5] = s5
  OBVIOUS
<1> HIDE DEF l
<1>1. \A n \in 2..Len(l) : n = 2 \/ n = 3 \/ n = 4 \/ n = 5
  BY <1>0
<1>2. \A n \in 1..Len(l) : n = 1 \/ n = 2 \/ n = 3 \/ n = 4 \/ n = 5
  BY <1>0
<1>3. l # <<>>
  BY <1>0
<1>4. \A n \in 2..Len(l) : Follows(l[n - 1], l[n])
  BY <1>0, <1>1
<1>5. \A n \in 1..Len(l) : Fits(A, r, l[n])
  BY <1>0, <1>2
<1>6. Todo(A, r, l)
  BY <1>0, <1>3, <1>4, <1>5 DEF Todo
<1> QED BY <1>0, <1>6 DEF l

LEMMA RelateList ==
  ASSUME NEW A, NEW r, NEW a \in Users, NEW b \in Users, {a, b} \in A,
         NEW part \in Parts
  PROVE  Todo(A, r, Relate(a, b, part)) /\ Relate(a, b, part)[1] = St("has", a, b, part)
<1> DEFINE s1 == St("has", a, b, part)
           s2 == St("row", a, b, part)
           s3 == St("has", b, a, part)
           s4 == St("row", b, a, part)
<1>1. s1 \in Sts /\ s1.do = "has" /\ s1.a = a /\ s1.b = b /\ s1.part = part
  BY DEF St, Sts, Dos, Parts, Everyone
<1>2. s2 \in Sts /\ s2.do = "row" /\ s2.a = a /\ s2.b = b /\ s2.part = part
  BY DEF St, Sts, Dos, Parts, Everyone
<1>3. s3 \in Sts /\ s3.do = "has" /\ s3.a = b /\ s3.b = a /\ s3.part = part
  BY DEF St, Sts, Dos, Parts, Everyone
<1>4. s4 \in Sts /\ s4.do = "row" /\ s4.a = b /\ s4.b = a /\ s4.part = part
  BY DEF St, Sts, Dos, Parts, Everyone
<1>5. Relate(a, b, part) = <<s1, s2, s3, s4>>
  BY DEF Relate
<1> HIDE DEF s1, s2, s3, s4
<1>6. Follows(s1, s2)
  BY <1>1, <1>2 DEF Follows, Talks, Later, First
<1>7. Follows(s2, s3)
  BY <1>2, <1>3 DEF Follows, Talks, Later, First
<1>8. Follows(s3, s4)
  BY <1>3, <1>4 DEF Follows, Talks, Later, First
<1>9. Fits(A, r, s1)
  BY <1>1 DEF Fits, Talks
<1>10. Fits(A, r, s2)
  BY <1>2 DEF Fits, Talks
<1>11. Fits(A, r, s3)
  BY <1>3 DEF Fits, Talks
<1>12. Fits(A, r, s4)
  BY <1>4 DEF Fits, Talks
<1>13. s4.do \notin Makes
  BY <1>4 DEF Makes
<1>14. Todo(A, r, <<s1, s2, s3, s4>>) /\ <<s1, s2, s3, s4>>[1] = s1
  BY <1>1, <1>2, <1>3, <1>4, <1>6, <1>7, <1>8, <1>9, <1>10, <1>11, <1>12, <1>13, List4, Zenon
<1> QED BY <1>5, <1>14, Zenon DEF s1

LEMMA DirectList ==
  ASSUME NEW A, NEW r, NEW a \in Everyone, NEW b \in Everyone,
         NEW part \in Parts
  PROVE  Todo(A, r, Direct(a, b, part)) /\ Direct(a, b, part)[1] = St("conv", a, b, part)
<1> DEFINE s1 == St("conv", a, b, part)
           s2 == St("newConv", a, b, part)
           s3 == St("creator", a, b, part)
           s4 == St("other", b, a, part)
<1>1. s1 \in Sts /\ s1.do = "conv" /\ s1.a = a /\ s1.b = b /\ s1.part = part
  BY DEF St, Sts, Dos, Parts, Everyone
<1>2. s2 \in Sts /\ s2.do = "newConv" /\ s2.a = a /\ s2.b = b /\ s2.part = part
  BY DEF St, Sts, Dos, Parts, Everyone
<1>3. s3 \in Sts /\ s3.do = "creator" /\ s3.a = a /\ s3.b = b /\ s3.part = part
  BY DEF St, Sts, Dos, Parts, Everyone
<1>4. s4 \in Sts /\ s4.do = "other" /\ s4.a = b /\ s4.b = a /\ s4.part = part
  BY DEF St, Sts, Dos, Parts, Everyone
<1>5. Direct(a, b, part) = <<s1, s2, s3, s4>>
  BY DEF Direct
<1> HIDE DEF s1, s2, s3, s4
<1>6. Follows(s1, s2)
  BY <1>1, <1>2 DEF Follows, Talks, Later, First
<1>7. Follows(s2, s3)
  BY <1>2, <1>3 DEF Follows, Talks, Later, First
<1>8. Follows(s3, s4)
  BY <1>3, <1>4 DEF Follows, Talks, Later, First
<1>9. Fits(A, r, s1)
  BY <1>1 DEF Fits, Talks
<1>10. Fits(A, r, s2)
  BY <1>2 DEF Fits, Talks
<1>11. Fits(A, r, s3)
  BY <1>3 DEF Fits, Talks
<1>12. Fits(A, r, s4)
  BY <1>4 DEF Fits, Talks
<1>13. s4.do \notin Makes
  BY <1>4 DEF Makes
<1>14. Todo(A, r, <<s1, s2, s3, s4>>) /\ <<s1, s2, s3, s4>>[1] = s1
  BY <1>1, <1>2, <1>3, <1>4, <1>6, <1>7, <1>8, <1>9, <1>10, <1>11, <1>12, <1>13, List4, Zenon
<1> QED BY <1>5, <1>14, Zenon DEF s1

LEMMA SameList ==
  ASSUME NEW S, NEW a \in Seq(S), NEW b \in Seq(S), Len(a) = Len(b), \A i \in 1..Len(a) : a[i] = b[i]
  PROVE  a = b
OBVIOUS

LEMMA ToldList ==
  ASSUME NEW A, NEW r, NEW a \in Everyone, NEW b \in Everyone,
         NEW by \in Everyone, NEW to \in Everyone, {by, to} = {a, b}, NEW part \in Parts
  PROVE  /\ Todo(A, r, Told(a, b, by, to, part)) /\ Told(a, b, by, to, part)[1] = St("conv", a, b, part)
         /\ Piece(A, r, Told(a, b, by, to, part))
<1> DEFINE s1 == St("conv", a, b, part)
           s2 == St("newConv", a, b, part)
           s3 == St("creator", a, b, part)
           s4 == St("other", b, a, part)
           s5 == St("text", by, to, part)
<1>1. s1 \in Sts /\ s1.do = "conv" /\ s1.a = a /\ s1.b = b /\ s1.part = part
  BY DEF St, Sts, Dos, Parts, Everyone
<1>2. s2 \in Sts /\ s2.do = "newConv" /\ s2.a = a /\ s2.b = b /\ s2.part = part
  BY DEF St, Sts, Dos, Parts, Everyone
<1>3. s3 \in Sts /\ s3.do = "creator" /\ s3.a = a /\ s3.b = b /\ s3.part = part
  BY DEF St, Sts, Dos, Parts, Everyone
<1>4. s4 \in Sts /\ s4.do = "other" /\ s4.a = b /\ s4.b = a /\ s4.part = part
  BY DEF St, Sts, Dos, Parts, Everyone
<1>5. s5 \in Sts /\ s5.do = "text" /\ s5.a = by /\ s5.b = to /\ s5.part = part
  BY DEF St, Sts, Dos, Parts, Everyone
<1>6. Told(a, b, by, to, part) = <<s1, s2, s3, s4>> \o <<s5>>
  BY DEF Told, Direct
<1> HIDE DEF s1, s2, s3, s4, s5
<1>7. Follows(s1, s2)
  BY <1>1, <1>2 DEF Follows, Talks, Later, First
<1>8. Follows(s2, s3)
  BY <1>2, <1>3 DEF Follows, Talks, Later, First
<1>9. Follows(s3, s4)
  BY <1>3, <1>4 DEF Follows, Talks, Later, First
<1>10. Follows(s4, s5)
  BY <1>4, <1>5 DEF Follows, Talks, Later, First
<1>11. Fits(A, r, s1)
  BY <1>1 DEF Fits, Talks
<1>12. Fits(A, r, s2)
  BY <1>2 DEF Fits, Talks
<1>13. Fits(A, r, s3)
  BY <1>3 DEF Fits, Talks
<1>14. Fits(A, r, s4)
  BY <1>4 DEF Fits, Talks
<1>15. Fits(A, r, s5)
  BY <1>5 DEF Fits, Talks
<1>16. s5.do \notin Makes
  BY <1>5 DEF Makes
<1>17. Todo(A, r, <<s1, s2, s3, s4, s5>>) /\ <<s1, s2, s3, s4, s5>>[1] = s1
  BY <1>1, <1>2, <1>3, <1>4, <1>5, <1>7, <1>8, <1>9, <1>10, <1>11, <1>12, <1>13, <1>14, <1>15, <1>16, List5, Zenon
<1>19. s1 \in Sts /\ s2 \in Sts /\ s3 \in Sts /\ s4 \in Sts /\ s5 \in Sts
  BY <1>1, <1>2, <1>3, <1>4, <1>5
<1> DEFINE l == <<s1, s2, s3, s4>>
           m == <<s5>>
           n == <<s1, s2, s3, s4, s5>>
<1>20. l \in Seq(Sts) /\ Len(l) = 4 /\ l[1] = s1 /\ l[2] = s2 /\ l[3] = s3 /\ l[4] = s4
  BY <1>19
<1>21. m \in Seq(Sts) /\ Len(m) = 1 /\ m[1] = s5
  BY <1>19
<1>22. n \in Seq(Sts) /\ Len(n) = 5 /\ n[1] = s1 /\ n[2] = s2 /\ n[3] = s3 /\ n[4] = s4 /\ n[5] = s5
  BY <1>19
<1>23. Told(a, b, by, to, part) = l \o m /\ Todo(A, r, n)
  BY <1>6, <1>17
<1> HIDE DEF l, m, n
<1>24. l \o m = n
  <2> DEFINE x == l \o m
  <2>1. /\ x \in Seq(Sts) /\ Len(x) = Len(l) + Len(m)
        /\ \A i \in 1..Len(l) : x[i] = l[i]
        /\ \A i \in 1..Len(m) : x[Len(l) + i] = m[i]
    <3>1. l \in Seq(Sts) /\ m \in Seq(Sts)
      BY <1>20, <1>21
    <3> QED BY <3>1
  <2> HIDE DEF x
  <2>2. Len(x) = 5 /\ x[1] = s1 /\ x[2] = s2 /\ x[3] = s3 /\ x[4] = s4 /\ x[5] = s5
    BY <2>1, <1>20, <1>21
  <2>3. \A i \in 1..Len(x) : i = 1 \/ i = 2 \/ i = 3 \/ i = 4 \/ i = 5
    BY <2>2
  <2>4. \A i \in 1..Len(x) : x[i] = n[i]
    BY <2>2, <2>3, <1>22
  <2>5. x = n
    BY <2>1, <2>2, <2>4, <1>22, SameList
  <2> QED BY <2>5 DEF x
<1>25. s1.do \notin Talks \cup Later \cup First
  BY <1>1 DEF Talks, Later, First
<1>26. Todo(A, r, Told(a, b, by, to, part)) /\ Told(a, b, by, to, part)[1] = s1
  BY <1>22, <1>23, <1>24
<1> QED BY <1>25, <1>26 DEF s1, Piece

\* The pieces that requests are made of.
LEMMA BoundPiece ==
  ASSUME NEW A, NEW r, NEW u \in Users, NEW k \in Users, {u, k} \in A,
         NEW part \in Parts
  PROVE  Piece(A, r, Bound(u, k, part))
<1>1. CASE u = k
  BY <1>1 DEF Bound, If, Piece
<1>2. CASE u # k
  <2>1. Bound(u, k, part) = Relate(u, k, part)
    BY <1>2 DEF Bound, If
  <2>2. Todo(A, r, Relate(u, k, part)) /\ Relate(u, k, part)[1] = St("has", u, k, part)
    BY RelateList
  <2>3. St("has", u, k, part).do \notin Talks \cup Later \cup First
    BY DEF St, Talks, Later, First
  <2>4. Piece(A, r, Relate(u, k, part))
    BY <2>2, <2>3 DEF Piece
  <2> QED BY <2>1, <2>4
<1> QED BY <1>1, <1>2

LEMMA AssignedPiece ==
  ASSUME NEW A, NEW r, NEW u \in Users, NEW k \in Users, {u, k} \in A
  PROVE  Piece(A, r, Assigned(u, k))
<1>1. Piece(A, r, Bound(u, k, "kefu"))
  BY BoundPiece DEF Parts
<1>2. Piece(A, r, If(u # k, Told(u, k, k, u, "kefu")))
  <2>1. Piece(A, r, Told(u, k, k, u, "kefu"))
    BY ToldList DEF Everyone, Parts
  <2> QED BY <2>1 DEF If, Piece
<1> QED BY <1>1, <1>2, PieceConcat DEF Assigned

LEMMA Prepend ==
  ASSUME NEW A, NEW r, NEW s \in Sts, Fits(A, r, s), NEW b, Todo(A, r, b), Follows(s, b[1])
  PROVE  Todo(A, r, <<s>> \o b) /\ (<<s>> \o b)[1] = s
<1> DEFINE c == <<s>> \o b
<1>1. /\ b \in Seq(Sts) /\ b # <<>> /\ b[Len(b)].do \notin Makes
      /\ \A n \in 2..Len(b) : Follows(b[n - 1], b[n])
      /\ \A n \in 1..Len(b) : Fits(A, r, b[n])
  BY DEF Todo
<1>2. /\ c \in Seq(Sts) /\ Len(c) = Len(b) + 1 /\ Len(b) \in Nat /\ Len(b) > 0
      /\ c[1] = s /\ \A n \in 1..Len(b) : c[n + 1] = b[n]
  BY <1>1
<1> HIDE DEF c
<1>3. \A n \in 2..Len(c) : n - 1 \in 1..Len(b) /\ (n - 1) + 1 = n
  BY <1>2
<1>4. \A n \in 2..Len(c) : c[n] = b[n - 1]
  BY <1>2, <1>3
<1>5. ASSUME NEW n \in 2..Len(c)
      PROVE  Follows(c[n - 1], c[n])
  <2>1. CASE n = 2
    <3>1. c[n] = b[1] /\ c[n - 1] = s
      BY <1>2, <1>4, <2>1
    <3> QED BY <3>1
  <2>2. CASE n # 2
    <3>1. n - 1 \in 2..Len(c) /\ n - 1 \in 2..Len(b)
      BY <1>2, <2>2
    <3>2. c[n] = b[n - 1] /\ c[n - 1] = b[(n - 1) - 1]
      BY <1>4, <3>1
    <3> QED BY <1>1, <3>1, <3>2
  <2> QED BY <2>1, <2>2
<1>6. ASSUME NEW n \in 1..Len(c)
      PROVE  Fits(A, r, c[n])
  <2>1. CASE n = 1
    BY <1>2, <2>1
  <2>2. CASE n # 1
    <3>1. n \in 2..Len(c)
      BY <1>2, <2>2
    <3> QED BY <1>1, <1>3, <1>4, <3>1
  <2> QED BY <2>1, <2>2
<1>7. c[Len(c)] = b[Len(b)] /\ c # <<>>
  <2>1. Len(c) \in 2..Len(c) /\ Len(c) - 1 = Len(b) /\ Len(c) > 0
    BY <1>2
  <2>2. c[Len(c)] = b[Len(c) - 1]
    BY <1>4, <2>1
  <2> QED BY <1>2, <2>1, <2>2
<1>8. Todo(A, r, c)
  BY <1>1, <1>2, <1>5, <1>6, <1>7 DEF Todo
<1> QED BY <1>2, <1>8 DEF c

LEMMA HelpedPiece ==
  ASSUME NEW A, NEW r, NEW u \in Users
  PROVE  Piece(A, r, Helped(u))
<1>1. Piece(A, r, Told(u, Assistant, Assistant, u, "help"))
  BY ToldList DEF Everyone, Parts
<1> QED BY <1>1 DEF Helped

LEMMA EachPiece ==
  ASSUME NEW A, NEW r, NEW u \in Users, NEW ks \in Seq(Users), \A i \in DOMAIN ks : {u, ks[i]} \in A,
         NEW part \in Parts
  PROVE  Piece(A, r, Each(u, ks, part))
<1>1. CASE ks = <<>>
  BY <1>1 DEF Each, If, Piece
<1>2. CASE ks # <<>>
  <2> DEFINE s == St("each", u, ks, part)
  <2>1. s \in Sts /\ s.do = "each" /\ s.a = u /\ s.b = ks
    BY DEF St, Sts, Dos, Everyone
  <2>2. Each(u, ks, part) = <<s>>
    BY <1>2 DEF Each, If
  <2> HIDE DEF s
  <2>3. Fits(A, r, s) /\ s.do \notin Makes
    BY <2>1, <1>2 DEF Fits, Talks, Makes
  <2>4. Todo(A, r, <<s>>) /\ <<s>>[1] = s
    BY <2>1, <2>3, List1
  <2> QED BY <2>1, <2>2, <2>4 DEF Piece, Talks, Later, First
<1> QED BY <1>1, <1>2

LEMMA OnePiece ==
  ASSUME NEW A, NEW r, NEW s \in Sts, Fits(A, r, s),
         s.do \notin Makes \cup Talks \cup Later \cup First
  PROVE  Piece(A, r, <<s>>)
<1>1. Todo(A, r, <<s>>) /\ <<s>>[1] = s
  BY List1
<1> QED BY <1>1 DEF Piece

\* What a request makes of its kind starts with a statement that stands behind
\* no other, or with none that needs what was read before.
Sound(A, r, l) == l = <<>> \/ (Todo(A, r, l) /\ l[1].do \notin Talks \cup Later \cup {"index"})

LEMMA PieceSound ==
  ASSUME NEW A, NEW r, NEW l, Piece(A, r, l)
  PROVE  Sound(A, r, l)
BY DEF Piece, Sound, First

LEMMA AddList ==
  ASSUME NEW A, NEW r, r.op = "add", r.by \in Users, r.to \in Users
  PROVE  Sound(A, r, Statements(r))
<1> DEFINE s1 == St("already", r.by, r.to, "")
           s2 == St("pending", r.by, r.to, "")
           s3 == St("file", r.by, r.to, "")
<1>1. s1 \in Sts /\ s1.do = "already" /\ s1.a = r.by /\ s1.b = r.to /\ s1.part = ""
  BY DEF St, Sts, Dos, Parts, Everyone
<1>2. s2 \in Sts /\ s2.do = "pending" /\ s2.a = r.by /\ s2.b = r.to /\ s2.part = ""
  BY DEF St, Sts, Dos, Parts, Everyone
<1>3. s3 \in Sts /\ s3.do = "file" /\ s3.a = r.by /\ s3.b = r.to /\ s3.part = ""
  BY DEF St, Sts, Dos, Parts, Everyone
<1>4. Statements(r) = <<s1, s2, s3>>
  BY DEF Statements, FriendStatements, MomentStatements, MomentOps
<1> HIDE DEF s1, s2, s3
<1>5. Follows(s1, s2)
  BY <1>1, <1>2 DEF Follows, Talks, Later, First
<1>6. Follows(s2, s3)
  BY <1>2, <1>3 DEF Follows, Talks, Later, First
<1>7. Fits(A, r, s1)
  BY <1>1 DEF Fits, Talks
<1>8. Fits(A, r, s2)
  BY <1>2 DEF Fits, Talks
<1>9. Fits(A, r, s3)
  BY <1>3 DEF Fits, Talks
<1>10. s3.do \notin Makes
  BY <1>3 DEF Makes
<1>11. Todo(A, r, <<s1, s2, s3>>) /\ <<s1, s2, s3>>[1] = s1
  BY <1>1, <1>2, <1>3, <1>5, <1>6, <1>7, <1>8, <1>9, <1>10, List3, Zenon
<1>12. Sound(A, r, Statements(r))
  BY <1>1, <1>4, <1>11 DEF Sound, Talks, Later
<1> QED BY <1>12

LEMMA InviteToList ==
  ASSUME NEW A, NEW r, r.op = "inviteTo", r.by \in Users, r.to \in Users
  PROVE  Sound(A, r, Statements(r))
<1> DEFINE s1 == St("mayInvite", r.by, r.to, "")
           s2 == St("isIn", r.by, r.to, "")
           s3 == St("joins", r.by, r.to, "")
<1>1. s1 \in Sts /\ s1.do = "mayInvite" /\ s1.a = r.by /\ s1.b = r.to /\ s1.part = ""
  BY DEF St, Sts, Dos, Parts, Everyone
<1>2. s2 \in Sts /\ s2.do = "isIn" /\ s2.a = r.by /\ s2.b = r.to /\ s2.part = ""
  BY DEF St, Sts, Dos, Parts, Everyone
<1>3. s3 \in Sts /\ s3.do = "joins" /\ s3.a = r.by /\ s3.b = r.to /\ s3.part = ""
  BY DEF St, Sts, Dos, Parts, Everyone
<1>4. Statements(r) = <<s1, s2, s3>>
  BY DEF Statements, FriendStatements, MomentStatements, MomentOps
<1> HIDE DEF s1, s2, s3
<1>5. Follows(s1, s2)
  BY <1>1, <1>2 DEF Follows, Talks, Later, First
<1>6. Follows(s2, s3)
  BY <1>2, <1>3 DEF Follows, Talks, Later, First
<1>7. Fits(A, r, s1)
  BY <1>1 DEF Fits, Talks
<1>8. Fits(A, r, s2)
  BY <1>2 DEF Fits, Talks
<1>9. Fits(A, r, s3)
  BY <1>3 DEF Fits, Talks
<1>10. s3.do \notin Makes
  BY <1>3 DEF Makes
<1>11. Todo(A, r, <<s1, s2, s3>>) /\ <<s1, s2, s3>>[1] = s1
  BY <1>1, <1>2, <1>3, <1>5, <1>6, <1>7, <1>8, <1>9, <1>10, List3, Zenon
<1>12. Sound(A, r, Statements(r))
  BY <1>1, <1>4, <1>11 DEF Sound, Talks, Later
<1> QED BY <1>12

LEMMA HandleList ==
  ASSUME NEW A, NEW r, r.op = "handle", r.by \in Users
  PROVE  Sound(A, r, Statements(r))
<1> DEFINE s1 == St("find", r.by, r.by, "")
<1>1. s1 \in Sts /\ s1.do = "find" /\ s1.a = r.by /\ s1.b = r.by /\ s1.part = ""
  BY DEF St, Sts, Dos, Parts, Everyone
<1>2. Statements(r) = <<s1>>
  BY DEF Statements, FriendStatements, MomentStatements, MomentOps
<1> HIDE DEF s1
<1>3. Fits(A, r, s1)
  BY <1>1 DEF Fits, Talks
<1>4. s1.do \notin Makes
  BY <1>1 DEF Makes
<1>5. Todo(A, r, <<s1>>) /\ <<s1>>[1] = s1
  BY <1>1, <1>3, <1>4, List1, Zenon
<1>6. Sound(A, r, Statements(r))
  BY <1>1, <1>2, <1>5 DEF Sound, Talks, Later
<1> QED BY <1>6

LEMMA DeleteList ==
  ASSUME NEW A, NEW r, r.op = "delete", r.by \in Users, r.to \in Users
  PROVE  Sound(A, r, Statements(r))
<1> DEFINE s1 == St("unrow", r.by, r.to, "")
           s2 == St("unrow", r.to, r.by, "")
<1>1. s1 \in Sts /\ s1.do = "unrow" /\ s1.a = r.by /\ s1.b = r.to /\ s1.part = ""
  BY DEF St, Sts, Dos, Parts, Everyone
<1>2. s2 \in Sts /\ s2.do = "unrow" /\ s2.a = r.to /\ s2.b = r.by /\ s2.part = ""
  BY DEF St, Sts, Dos, Parts, Everyone
<1>3. Statements(r) = <<s1, s2>>
  BY DEF Statements, FriendStatements, MomentStatements, MomentOps, Unrelate
<1> HIDE DEF s1, s2
<1>4. Follows(s1, s2)
  BY <1>1, <1>2 DEF Follows, Talks, Later, First
<1>5. Fits(A, r, s1)
  BY <1>1 DEF Fits, Talks
<1>6. Fits(A, r, s2)
  BY <1>2 DEF Fits, Talks
<1>7. s2.do \notin Makes
  BY <1>2 DEF Makes
<1>8. Todo(A, r, <<s1, s2>>) /\ <<s1, s2>>[1] = s1
  BY <1>1, <1>2, <1>4, <1>5, <1>6, <1>7, List2, Zenon
<1>9. Sound(A, r, Statements(r))
  BY <1>1, <1>3, <1>8 DEF Sound, Talks, Later
<1> QED BY <1>9

LEMMA UnblockList ==
  ASSUME NEW A, NEW r, r.op = "unblock", r.by \in Users, r.to \in Users
  PROVE  Sound(A, r, Statements(r))
<1> DEFINE s1 == St("unBlack", r.by, r.to, "")
<1>1. s1 \in Sts /\ s1.do = "unBlack" /\ s1.a = r.by /\ s1.b = r.to /\ s1.part = ""
  BY DEF St, Sts, Dos, Parts, Everyone
<1>2. Statements(r) = <<s1>>
  BY DEF Statements, FriendStatements, MomentStatements, MomentOps
<1> HIDE DEF s1
<1>3. Fits(A, r, s1)
  BY <1>1 DEF Fits, Talks
<1>4. s1.do \notin Makes
  BY <1>1 DEF Makes
<1>5. Todo(A, r, <<s1>>) /\ <<s1>>[1] = s1
  BY <1>1, <1>3, <1>4, List1, Zenon
<1>6. Sound(A, r, Statements(r))
  BY <1>1, <1>2, <1>5 DEF Sound, Talks, Later
<1> QED BY <1>6

LEMMA CodeNewList ==
  ASSUME NEW A, NEW r, r.op = "codeNew", r.by \in Users, r.to \in Users
  PROVE  Sound(A, r, Statements(r))
<1> DEFINE s1 == St("codeCount", r.by, r.to, "")
           s2 == St("codeAdd", r.by, r.to, "")
<1>1. s1 \in Sts /\ s1.do = "codeCount" /\ s1.a = r.by /\ s1.b = r.to /\ s1.part = ""
  BY DEF St, Sts, Dos, Parts, Everyone
<1>2. s2 \in Sts /\ s2.do = "codeAdd" /\ s2.a = r.by /\ s2.b = r.to /\ s2.part = ""
  BY DEF St, Sts, Dos, Parts, Everyone
<1>3. Statements(r) = <<s1, s2>>
  BY DEF Statements, FriendStatements, MomentStatements, MomentOps
<1> HIDE DEF s1, s2
<1>4. Follows(s1, s2)
  BY <1>1, <1>2 DEF Follows, Talks, Later, First
<1>5. Fits(A, r, s1)
  BY <1>1 DEF Fits, Talks
<1>6. Fits(A, r, s2)
  BY <1>2 DEF Fits, Talks
<1>7. s2.do \notin Makes
  BY <1>2 DEF Makes
<1>8. Todo(A, r, <<s1, s2>>) /\ <<s1, s2>>[1] = s1
  BY <1>1, <1>2, <1>4, <1>5, <1>6, <1>7, List2, Zenon
<1>9. Sound(A, r, Statements(r))
  BY <1>1, <1>3, <1>8 DEF Sound, Talks, Later
<1> QED BY <1>9

LEMMA CodeSetList ==
  ASSUME NEW A, NEW r, r.op = "codeSet", r.by \in Users, r.to \in Users
  PROVE  Sound(A, r, Statements(r))
<1> DEFINE s1 == St("codeSet", r.by, r.to, "")
<1>1. s1 \in Sts /\ s1.do = "codeSet" /\ s1.a = r.by /\ s1.b = r.to /\ s1.part = ""
  BY DEF St, Sts, Dos, Parts, Everyone
<1>2. Statements(r) = <<s1>>
  BY DEF Statements, FriendStatements, MomentStatements, MomentOps
<1> HIDE DEF s1
<1>3. Fits(A, r, s1)
  BY <1>1 DEF Fits, Talks
<1>4. s1.do \notin Makes
  BY <1>1 DEF Makes
<1>5. Todo(A, r, <<s1>>) /\ <<s1>>[1] = s1
  BY <1>1, <1>3, <1>4, List1, Zenon
<1>6. Sound(A, r, Statements(r))
  BY <1>1, <1>2, <1>5 DEF Sound, Talks, Later
<1> QED BY <1>6

LEMMA CodeDropList ==
  ASSUME NEW A, NEW r, r.op = "codeDrop", r.by \in Users, r.to \in Users
  PROVE  Sound(A, r, Statements(r))
<1> DEFINE s1 == St("codeDel", r.by, r.to, "")
<1>1. s1 \in Sts /\ s1.do = "codeDel" /\ s1.a = r.by /\ s1.b = r.to /\ s1.part = ""
  BY DEF St, Sts, Dos, Parts, Everyone
<1>2. Statements(r) = <<s1>>
  BY DEF Statements, FriendStatements, MomentStatements, MomentOps
<1> HIDE DEF s1
<1>3. Fits(A, r, s1)
  BY <1>1 DEF Fits, Talks
<1>4. s1.do \notin Makes
  BY <1>1 DEF Makes
<1>5. Todo(A, r, <<s1>>) /\ <<s1>>[1] = s1
  BY <1>1, <1>3, <1>4, List1, Zenon
<1>6. Sound(A, r, Statements(r))
  BY <1>1, <1>2, <1>5 DEF Sound, Talks, Later
<1> QED BY <1>6

LEMMA PublishList ==
  ASSUME NEW A, NEW r, r.op = "publish", r.by \in Everyone, r.id \in Nat
  PROVE  Sound(A, r, Statements(r))
<1> DEFINE s1 == St("publish", r.by, r.id, "")
<1>1. s1 \in Sts /\ s1.do = "publish" /\ s1.a = r.by /\ s1.b = r.id /\ s1.part = ""
  BY DEF St, Sts, Dos, Parts, Everyone
<1>2. Statements(r) = <<s1>>
  BY DEF Statements, FriendStatements, MomentStatements, MomentOps
<1> HIDE DEF s1
<1>3. Fits(A, r, s1)
  BY <1>1 DEF Fits, Talks
<1>4. s1.do \notin Makes
  BY <1>1 DEF Makes
<1>5. Todo(A, r, <<s1>>) /\ <<s1>>[1] = s1
  BY <1>1, <1>3, <1>4, List1, Zenon
<1>6. Sound(A, r, Statements(r))
  BY <1>1, <1>2, <1>5 DEF Sound, Talks, Later
<1> QED BY <1>6

LEMMA FeedList ==
  ASSUME NEW A, NEW r, r.op = "feed", r.by \in Everyone, r.id \in Nat
  PROVE  Sound(A, r, Statements(r))
<1> DEFINE s1 == St("circle", r.by, r.id, "")
           s2 == St("posts", r.by, r.id, "")
           s3 == St("answer", r.by, r.id, "")
<1>1. s1 \in Sts /\ s1.do = "circle" /\ s1.a = r.by /\ s1.b = r.id /\ s1.part = ""
  BY DEF St, Sts, Dos, Parts, Everyone
<1>2. s2 \in Sts /\ s2.do = "posts" /\ s2.a = r.by /\ s2.b = r.id /\ s2.part = ""
  BY DEF St, Sts, Dos, Parts, Everyone
<1>3. s3 \in Sts /\ s3.do = "answer" /\ s3.a = r.by /\ s3.b = r.id /\ s3.part = ""
  BY DEF St, Sts, Dos, Parts, Everyone
<1>4. Statements(r) = <<s1, s2, s3>>
  BY DEF Statements, FriendStatements, MomentStatements, MomentOps
<1> HIDE DEF s1, s2, s3
<1>5. Follows(s1, s2)
  BY <1>1, <1>2 DEF Follows, Talks, Later, First
<1>6. Follows(s2, s3)
  BY <1>2, <1>3 DEF Follows, Talks, Later, First
<1>7. Fits(A, r, s1)
  BY <1>1 DEF Fits, Talks
<1>8. Fits(A, r, s2)
  BY <1>2 DEF Fits, Talks
<1>9. Fits(A, r, s3)
  BY <1>3 DEF Fits, Talks
<1>10. s3.do \notin Makes
  BY <1>3 DEF Makes
<1>11. Todo(A, r, <<s1, s2, s3>>) /\ <<s1, s2, s3>>[1] = s1
  BY <1>1, <1>2, <1>3, <1>5, <1>6, <1>7, <1>8, <1>9, <1>10, List3, Zenon
<1>12. Sound(A, r, Statements(r))
  BY <1>1, <1>4, <1>11 DEF Sound, Talks, Later
<1> QED BY <1>12

LEMMA LikeList ==
  ASSUME NEW A, NEW r, r.op = "like", r.by \in Everyone, r.id \in Nat
  PROVE  Sound(A, r, Statements(r))
<1> DEFINE s1 == St("liked", r.by, r.id, "")
           s2 == St("like", r.by, r.id, "")
<1>1. s1 \in Sts /\ s1.do = "liked" /\ s1.a = r.by /\ s1.b = r.id /\ s1.part = ""
  BY DEF St, Sts, Dos, Parts, Everyone
<1>2. s2 \in Sts /\ s2.do = "like" /\ s2.a = r.by /\ s2.b = r.id /\ s2.part = ""
  BY DEF St, Sts, Dos, Parts, Everyone
<1>3. Statements(r) = <<s1, s2>>
  BY DEF Statements, FriendStatements, MomentStatements, MomentOps
<1> HIDE DEF s1, s2
<1>4. Follows(s1, s2)
  BY <1>1, <1>2 DEF Follows, Talks, Later, First
<1>5. Fits(A, r, s1)
  BY <1>1 DEF Fits, Talks
<1>6. Fits(A, r, s2)
  BY <1>2 DEF Fits, Talks
<1>7. s2.do \notin Makes
  BY <1>2 DEF Makes
<1>8. Todo(A, r, <<s1, s2>>) /\ <<s1, s2>>[1] = s1
  BY <1>1, <1>2, <1>4, <1>5, <1>6, <1>7, List2, Zenon
<1>9. Sound(A, r, Statements(r))
  BY <1>1, <1>3, <1>8 DEF Sound, Talks, Later
<1> QED BY <1>9

LEMMA CommentList ==
  ASSUME NEW A, NEW r, r.op = "comment", r.by \in Everyone, r.id \in Nat
  PROVE  Sound(A, r, Statements(r))
<1> DEFINE s1 == St("post", r.by, r.id, "")
           s2 == St("comment", r.by, r.id, "")
<1>1. s1 \in Sts /\ s1.do = "post" /\ s1.a = r.by /\ s1.b = r.id /\ s1.part = ""
  BY DEF St, Sts, Dos, Parts, Everyone
<1>2. s2 \in Sts /\ s2.do = "comment" /\ s2.a = r.by /\ s2.b = r.id /\ s2.part = ""
  BY DEF St, Sts, Dos, Parts, Everyone
<1>3. Statements(r) = <<s1, s2>>
  BY DEF Statements, FriendStatements, MomentStatements, MomentOps
<1> HIDE DEF s1, s2
<1>4. Follows(s1, s2)
  BY <1>1, <1>2 DEF Follows, Talks, Later, First
<1>5. Fits(A, r, s1)
  BY <1>1 DEF Fits, Talks
<1>6. Fits(A, r, s2)
  BY <1>2 DEF Fits, Talks
<1>7. s2.do \notin Makes
  BY <1>2 DEF Makes
<1>8. Todo(A, r, <<s1, s2>>) /\ <<s1, s2>>[1] = s1
  BY <1>1, <1>2, <1>4, <1>5, <1>6, <1>7, List2, Zenon
<1>9. Sound(A, r, Statements(r))
  BY <1>1, <1>3, <1>8 DEF Sound, Talks, Later
<1> QED BY <1>9

LEMMA UncommentList ==
  ASSUME NEW A, NEW r, r.op = "uncomment", r.by \in Everyone, r.id \in Nat
  PROVE  Sound(A, r, Statements(r))
<1> DEFINE s1 == St("uncomment", r.by, r.id, "")
<1>1. s1 \in Sts /\ s1.do = "uncomment" /\ s1.a = r.by /\ s1.b = r.id /\ s1.part = ""
  BY DEF St, Sts, Dos, Parts, Everyone
<1>2. Statements(r) = <<s1>>
  BY DEF Statements, FriendStatements, MomentStatements, MomentOps
<1> HIDE DEF s1
<1>3. Fits(A, r, s1)
  BY <1>1 DEF Fits, Talks
<1>4. s1.do \notin Makes
  BY <1>1 DEF Makes
<1>5. Todo(A, r, <<s1>>) /\ <<s1>>[1] = s1
  BY <1>1, <1>3, <1>4, List1, Zenon
<1>6. Sound(A, r, Statements(r))
  BY <1>1, <1>2, <1>5 DEF Sound, Talks, Later
<1> QED BY <1>6

LEMMA DropCommentList ==
  ASSUME NEW A, NEW r, r.op = "dropComment", r.by \in Everyone, r.id \in Nat
  PROVE  Sound(A, r, Statements(r))
<1> DEFINE s1 == St("uncomment", r.by, r.id, "")
<1>1. s1 \in Sts /\ s1.do = "uncomment" /\ s1.a = r.by /\ s1.b = r.id /\ s1.part = ""
  BY DEF St, Sts, Dos, Parts, Everyone
<1>2. Statements(r) = <<s1>>
  BY DEF Statements, FriendStatements, MomentStatements, MomentOps
<1> HIDE DEF s1
<1>3. Fits(A, r, s1)
  BY <1>1 DEF Fits, Talks
<1>4. s1.do \notin Makes
  BY <1>1 DEF Makes
<1>5. Todo(A, r, <<s1>>) /\ <<s1>>[1] = s1
  BY <1>1, <1>3, <1>4, List1, Zenon
<1>6. Sound(A, r, Statements(r))
  BY <1>1, <1>2, <1>5 DEF Sound, Talks, Later
<1> QED BY <1>6

LEMMA HideList ==
  ASSUME NEW A, NEW r, r.op = "hide", r.by \in Everyone, r.id \in Nat
  PROVE  Sound(A, r, Statements(r))
<1> DEFINE s1 == St("hide", r.by, r.id, "")
<1>1. s1 \in Sts /\ s1.do = "hide" /\ s1.a = r.by /\ s1.b = r.id /\ s1.part = ""
  BY DEF St, Sts, Dos, Parts, Everyone
<1>2. Statements(r) = <<s1>>
  BY DEF Statements, FriendStatements, MomentStatements, MomentOps
<1> HIDE DEF s1
<1>3. Fits(A, r, s1)
  BY <1>1 DEF Fits, Talks
<1>4. s1.do \notin Makes
  BY <1>1 DEF Makes
<1>5. Todo(A, r, <<s1>>) /\ <<s1>>[1] = s1
  BY <1>1, <1>3, <1>4, List1, Zenon
<1>6. Sound(A, r, Statements(r))
  BY <1>1, <1>2, <1>5 DEF Sound, Talks, Later
<1> QED BY <1>6

LEMMA DropList ==
  ASSUME NEW A, NEW r, r.op = "drop", r.by \in Everyone, r.id \in Nat
  PROVE  Sound(A, r, Statements(r))
<1> DEFINE s1 == St("dropPost", r.by, r.id, "")
           s2 == St("dropAll", r.by, r.id, "")
<1>1. s1 \in Sts /\ s1.do = "dropPost" /\ s1.a = r.by /\ s1.b = r.id /\ s1.part = ""
  BY DEF St, Sts, Dos, Parts, Everyone
<1>2. s2 \in Sts /\ s2.do = "dropAll" /\ s2.a = r.by /\ s2.b = r.id /\ s2.part = ""
  BY DEF St, Sts, Dos, Parts, Everyone
<1>3. Statements(r) = <<s1, s2>>
  BY DEF Statements, FriendStatements, MomentStatements, MomentOps
<1> HIDE DEF s1, s2
<1>4. Follows(s1, s2)
  BY <1>1, <1>2 DEF Follows, Talks, Later, First
<1>5. Fits(A, r, s1)
  BY <1>1 DEF Fits, Talks
<1>6. Fits(A, r, s2)
  BY <1>2 DEF Fits, Talks
<1>7. s2.do \notin Makes
  BY <1>2 DEF Makes
<1>8. Todo(A, r, <<s1, s2>>) /\ <<s1, s2>>[1] = s1
  BY <1>1, <1>2, <1>4, <1>5, <1>6, <1>7, List2, Zenon
<1>9. Sound(A, r, Statements(r))
  BY <1>1, <1>3, <1>8 DEF Sound, Talks, Later
<1> QED BY <1>9

LEMMA BlackPiece ==
  ASSUME NEW A, NEW r, r.by \in Users, r.to \in Users
  PROVE  Piece(A, r, <<St("hasBlack", r.by, r.to, ""), St("rowBlack", r.by, r.to, "")>>)
<1> DEFINE s1 == St("hasBlack", r.by, r.to, "")
           s2 == St("rowBlack", r.by, r.to, "")
<1>1. s1 \in Sts /\ s1.do = "hasBlack" /\ s1.a = r.by /\ s1.b = r.to /\ s1.part = ""
  BY DEF St, Sts, Dos, Parts, Everyone
<1>2. s2 \in Sts /\ s2.do = "rowBlack" /\ s2.a = r.by /\ s2.b = r.to /\ s2.part = ""
  BY DEF St, Sts, Dos, Parts, Everyone
<1> HIDE DEF s1, s2
<1>4. Follows(s1, s2)
  BY <1>1, <1>2 DEF Follows, Talks, Later, First
<1>5. Fits(A, r, s1)
  BY <1>1 DEF Fits, Talks
<1>6. Fits(A, r, s2)
  BY <1>2 DEF Fits, Talks
<1>7. s2.do \notin Makes
  BY <1>2 DEF Makes
<1>8. Todo(A, r, <<s1, s2>>) /\ <<s1, s2>>[1] = s1
  BY <1>1, <1>2, <1>4, <1>5, <1>6, <1>7, List2, Zenon
<1>9. Piece(A, r, <<s1, s2>>)
  BY <1>1, <1>8 DEF Piece, Talks, Later, First
<1> QED BY <1>9 DEF s1, s2

LEMMA UnrelatePiece ==
  ASSUME NEW A, NEW r, r.by \in Users, r.to \in Users
  PROVE  Piece(A, r, <<St("unrow", r.by, r.to, ""), St("unrow", r.to, r.by, "")>>)
<1> DEFINE s1 == St("unrow", r.by, r.to, "")
           s2 == St("unrow", r.to, r.by, "")
<1>1. s1 \in Sts /\ s1.do = "unrow" /\ s1.a = r.by /\ s1.b = r.to /\ s1.part = ""
  BY DEF St, Sts, Dos, Parts, Everyone
<1>2. s2 \in Sts /\ s2.do = "unrow" /\ s2.a = r.to /\ s2.b = r.by /\ s2.part = ""
  BY DEF St, Sts, Dos, Parts, Everyone
<1> HIDE DEF s1, s2
<1>4. Follows(s1, s2)
  BY <1>1, <1>2 DEF Follows, Talks, Later, First
<1>5. Fits(A, r, s1)
  BY <1>1 DEF Fits, Talks
<1>6. Fits(A, r, s2)
  BY <1>2 DEF Fits, Talks
<1>7. s2.do \notin Makes
  BY <1>2 DEF Makes
<1>8. Todo(A, r, <<s1, s2>>) /\ <<s1, s2>>[1] = s1
  BY <1>1, <1>2, <1>4, <1>5, <1>6, <1>7, List2, Zenon
<1>9. Piece(A, r, <<s1, s2>>)
  BY <1>1, <1>8 DEF Piece, Talks, Later, First
<1> QED BY <1>9 DEF s1, s2

LEMMA ServePiece ==
  ASSUME NEW A, NEW r, r.by \in Users, r.to \in Users
  PROVE  Piece(A, r, <<St("served", r.by, r.by, "kefu"), St("assign", r.by, r.by, "kefu")>>)
<1> DEFINE s1 == St("served", r.by, r.by, "kefu")
           s2 == St("assign", r.by, r.by, "kefu")
<1>1. s1 \in Sts /\ s1.do = "served" /\ s1.a = r.by /\ s1.b = r.by /\ s1.part = "kefu"
  BY DEF St, Sts, Dos, Parts, Everyone
<1>2. s2 \in Sts /\ s2.do = "assign" /\ s2.a = r.by /\ s2.b = r.by /\ s2.part = "kefu"
  BY DEF St, Sts, Dos, Parts, Everyone
<1> HIDE DEF s1, s2
<1>4. Follows(s1, s2)
  BY <1>1, <1>2 DEF Follows, Talks, Later, First
<1>5. Fits(A, r, s1)
  BY <1>1 DEF Fits, Talks
<1>6. Fits(A, r, s2)
  BY <1>2 DEF Fits, Talks
<1>7. s2.do \notin Makes
  BY <1>2 DEF Makes
<1>8. Todo(A, r, <<s1, s2>>) /\ <<s1, s2>>[1] = s1
  BY <1>1, <1>2, <1>4, <1>5, <1>6, <1>7, List2, Zenon
<1>9. Piece(A, r, <<s1, s2>>)
  BY <1>1, <1>8 DEF Piece, Talks, Later, First
<1> QED BY <1>9 DEF s1, s2

LEMMA AssignPiece ==
  ASSUME NEW A, NEW r, r.by \in Users, r.to \in Users
  PROVE  Piece(A, r, <<St("assign", r.by, r.by, "kefu")>>)
<1> DEFINE s1 == St("assign", r.by, r.by, "kefu")
<1>1. s1 \in Sts /\ s1.do = "assign" /\ s1.a = r.by /\ s1.b = r.by /\ s1.part = "kefu"
  BY DEF St, Sts, Dos, Parts, Everyone
<1> HIDE DEF s1
<1>3. Fits(A, r, s1)
  BY <1>1 DEF Fits, Talks
<1>4. s1.do \notin Makes
  BY <1>1 DEF Makes
<1>5. Todo(A, r, <<s1>>) /\ <<s1>>[1] = s1
  BY <1>1, <1>3, <1>4, List1, Zenon
<1>6. Piece(A, r, <<s1>>)
  BY <1>1, <1>5 DEF Piece, Talks, Later, First
<1> QED BY <1>6 DEF s1

LEMMA AskHelpPiece ==
  ASSUME NEW A, NEW r, r.by \in Users
  PROVE  Piece(A, r, <<St("helped", r.by, r.by, "help")>> \o Helped(r.by))
<1> DEFINE s == St("helped", r.by, r.by, "help")
           l == Helped(r.by)
<1>1. s \in Sts /\ s.do = "helped" /\ s.part = "help"
  BY DEF St, Sts, Dos, Parts, Everyone
<1>2. Fits(A, r, s) /\ s.do \notin Talks \cup Later \cup First
  BY <1>1 DEF Fits, Talks, Later, First
<1>3. Todo(A, r, l) /\ l[1] = St("conv", r.by, Assistant, "help")
  <2>1. r.by \in Everyone /\ Assistant \in Everyone /\ "help" \in Parts
        /\ {Assistant, r.by} = {r.by, Assistant}
    BY DEF Everyone, Parts
  <2>2. /\ Todo(A, r, Told(r.by, Assistant, Assistant, r.by, "help"))
        /\ Told(r.by, Assistant, Assistant, r.by, "help")[1] = St("conv", r.by, Assistant, "help")
    BY <2>1, ToldList
  <2> QED BY <2>2 DEF Helped
<1> HIDE DEF s, l
<1>4. l[1].do = "conv" /\ l[1].part = "help"
  BY <1>3 DEF St
<1>5. Follows(s, l[1])
  BY <1>1, <1>4 DEF Follows, Talks, Later, First
<1>6. Todo(A, r, <<s>> \o l) /\ (<<s>> \o l)[1] = s
  BY <1>1, <1>2, <1>3, <1>5, Prepend
<1>7. Piece(A, r, <<s>> \o l)
  BY <1>2, <1>6 DEF Piece
<1> QED BY <1>7 DEF s, l

LEMMA BlockList ==
  ASSUME NEW A, NEW r, r.op = "block", r.by \in Users, r.to \in Users
  PROVE  Sound(A, r, Statements(r))
<1> DEFINE a == <<St("hasBlack", r.by, r.to, ""), St("rowBlack", r.by, r.to, "")>>
           b == <<St("unrow", r.by, r.to, ""), St("unrow", r.to, r.by, "")>>
<1>1. Statements(r) = a \o b
  BY DEF Statements, FriendStatements, MomentOps, Unrelate
<1>2. Piece(A, r, a) /\ Piece(A, r, b)
  BY BlackPiece, UnrelatePiece, Zenon
<1> HIDE DEF a, b
<1>3. Piece(A, r, a \o b)
  BY <1>2, PieceConcat
<1> QED BY <1>1, <1>3, PieceSound

LEMMA OpenList ==
  ASSUME NEW A, NEW r, r.op = "open", r.by \in Everyone, r.to \in Everyone
  PROVE  Sound(A, r, Statements(r))
<1>1. Statements(r) = Direct(r.by, r.to, "")
  BY DEF Statements, FriendStatements, MomentOps
<1>2. "" \in Parts
  BY DEF Parts
<1>3. Todo(A, r, Direct(r.by, r.to, "")) /\ Direct(r.by, r.to, "")[1] = St("conv", r.by, r.to, "")
  BY <1>2, DirectList
<1>4. St("conv", r.by, r.to, "").do \notin Talks \cup Later \cup {"index"}
  BY DEF St, Talks, Later
<1> QED BY <1>1, <1>3, <1>4 DEF Sound

LEMMA NotifyList ==
  ASSUME NEW A, NEW r, r.op = "notify", r.by \in Users
  PROVE  Sound(A, r, Statements(r))
<1>1. Statements(r) = Helped(r.by)
  BY DEF Statements, FriendStatements, MomentOps
<1>2. Piece(A, r, Helped(r.by))
  BY HelpedPiece
<1> QED BY <1>1, <1>2, PieceSound

LEMMA IfPiece ==
  ASSUME NEW A, NEW r, NEW needed, NEW l, needed => Piece(A, r, l)
  PROVE  Piece(A, r, If(needed, l))
BY DEF If, Piece

LEMMA JoinedList ==
  ASSUME NEW A, NEW r, r.op = "joined", r.by \in Users, r.to \in Users, r.code \in Codes \cup {"none"}
  PROVE  Sound(A, r, Statements(r))
<1> DEFINE a == If(setting.assistant, Helped(r.by))
           l == <<St("assign", r.by, r.by, "kefu")>>
           b == If(setting.kefu # "off", l)
           s == St("invite", r.by, r.by, "invite")
           c == If(r.code # "none", <<s>>)
<1>1. Statements(r) = (a \o b) \o c
  BY DEF Statements, FriendStatements, MomentOps
<1>2. Piece(A, r, a)
  BY HelpedPiece, IfPiece
<1>3. Piece(A, r, l)
  BY AssignPiece, Zenon
<1>4. Piece(A, r, b)
  <2> HIDE DEF l
  <2> QED BY <1>3, IfPiece
<1>5. r.code # "none" => Piece(A, r, <<s>>)
  <2> SUFFICES ASSUME r.code # "none" PROVE Piece(A, r, <<s>>)
    OBVIOUS
  <2>1. s \in Sts /\ s.do = "invite" /\ s.a = r.by
    BY DEF St, Sts, Dos, Parts, Everyone
  <2> HIDE DEF s
  <2>2. Fits(A, r, s)
    BY <2>1 DEF Fits, Talks
  <2>3. s.do \notin Makes \cup Talks \cup Later \cup First
    BY <2>1 DEF Talks, Makes, Later, First
  <2> QED BY <2>1, <2>2, <2>3, OnePiece
<1>6. Piece(A, r, c)
  <2> HIDE DEF s
  <2> QED BY <1>5, IfPiece
<1> HIDE DEF a, b, c
<1>7. Piece(A, r, a \o b)
  BY <1>2, <1>4, PieceConcat
<1>8. Piece(A, r, (a \o b) \o c)
  BY <1>6, <1>7, PieceConcat
<1> QED BY <1>1, <1>8, PieceSound

LEMMA GuestList ==
  ASSUME NEW A, NEW r, r.op = "guest", r.by \in Users, r.to \in Users
  PROVE  Sound(A, r, Statements(r))
<1> DEFINE k == <<St("helped", r.by, r.by, "help")>> \o Helped(r.by)
           a == If(setting.assistant, k)
           l == <<St("served", r.by, r.by, "kefu"), St("assign", r.by, r.by, "kefu")>>
           b == If(setting.kefu # "off", l)
<1>1. Statements(r) = a \o b
  BY DEF Statements, FriendStatements, MomentOps
<1>2. Piece(A, r, l)
  BY ServePiece, Zenon
<1>3. Piece(A, r, k)
  BY AskHelpPiece, Zenon
<1> HIDE DEF k, l
<1>5. Piece(A, r, a) /\ Piece(A, r, b)
  BY <1>2, <1>3, IfPiece
<1> HIDE DEF a, b
<1>6. Piece(A, r, a \o b)
  BY <1>5, PieceConcat
<1> QED BY <1>1, <1>6, PieceSound

LEMMA BindList ==
  ASSUME NEW A, NEW r, r.op = "bind", r.by \in Users, r.code \in Codes \cup {"none"}
  PROVE  Sound(A, r, Statements(r))
<1> DEFINE s1 == St("valid", r.by, r.by, "")
           s2 == St("invite", r.by, r.by, "invite")
           l == <<s1, s2>>
<1>1. s1 \in Sts /\ s1.do = "valid"
  BY DEF St, Sts, Dos, Parts, Everyone
<1>2. s2 \in Sts /\ s2.do = "invite" /\ s2.a = r.by
  BY DEF St, Sts, Dos, Parts, Everyone
<1>3. Statements(r) = If(r.code # "none", l)
  BY DEF Statements, FriendStatements, MomentOps
<1> HIDE DEF s1, s2
<1>4. ASSUME r.code # "none"
      PROVE  Piece(A, r, l)
  <2>1. Follows(s1, s2)
    BY <1>1, <1>2 DEF Follows, Talks, Later, First
  <2>2. Fits(A, r, s1)
    BY <1>1 DEF Fits, Talks
  <2>3. Fits(A, r, s2)
    BY <1>2, <1>4 DEF Fits, Talks
  <2>4. s2.do \notin Makes
    BY <1>2 DEF Makes
  <2>5. Todo(A, r, <<s1, s2>>) /\ <<s1, s2>>[1] = s1
    BY <1>1, <1>2, <2>1, <2>2, <2>3, <2>4, List2, Zenon
  <2> QED BY <1>1, <2>5 DEF Piece, Talks, Later, First
<1> HIDE DEF l
<1>5. Piece(A, r, If(r.code # "none", l))
  BY <1>4, IfPiece
<1> QED BY <1>3, <1>5, PieceSound

LEMMA Lists ==
  ASSUME NEW A, NEW r \in Request
  PROVE  Sound(A, r, Statements(r))
<1>1. CASE r \in Asked(FriendOps \ {"open"}, Users)
  <2>1. r.by \in Users /\ r.to \in Users /\ r.code \in Codes \cup {"none"} /\ r.op \in FriendOps \ {"open"}
    BY <1>1 DEF Asked
  <2>2. \/ r.op = "add" \/ r.op = "handle" \/ r.op = "delete" \/ r.op = "block" \/ r.op = "unblock"
        \/ r.op = "joined" \/ r.op = "guest" \/ r.op = "notify" \/ r.op = "codeNew"
        \/ r.op = "codeSet" \/ r.op = "codeDrop" \/ r.op = "bind" \/ r.op = "inviteTo"
    BY <2>1 DEF FriendOps
  <2> QED BY <2>1, <2>2, AddList, HandleList, DeleteList, BlockList, UnblockList, JoinedList,
             GuestList, NotifyList, CodeNewList, CodeSetList, CodeDropList, BindList, InviteToList
<1>2. CASE r \in Asked(MomentOps \cup {"open"}, Everyone)
  <2>1. r.by \in Everyone /\ r.to \in Everyone /\ r.id \in Nat /\ r.op \in MomentOps \cup {"open"}
    BY <1>2 DEF Asked
  <2>2. \/ r.op = "open" \/ r.op = "publish" \/ r.op = "feed" \/ r.op = "like" \/ r.op = "comment"
        \/ r.op = "uncomment" \/ r.op = "hide" \/ r.op = "drop" \/ r.op = "dropComment"
    BY <2>1 DEF MomentOps
  <2> QED BY <2>1, <2>2, OpenList, PublishList, FeedList, LikeList, CommentList, UncommentList,
             HideList, DropList, DropCommentList
<1> QED BY <1>1, <1>2 DEF Request

-----------------------------------------------------------------------------
(* What a statement leaves of the list it heads.                           *)

Hands == hand = [g \in Handlers |-> hand[g]]
Busy(h) == /\ hand[h] = [todo |-> hand[h].todo, req |-> hand[h].req, mem |-> hand[h].mem]
           /\ Todo(agreed, hand[h].req, hand[h].todo)

\* One process goes on with its request, having read m.
Moved(h, m) ==
  /\ hand' = [g \in Handlers |-> IF g = h THEN hand'[h] ELSE hand[g]]
  /\ hand'[h] # Idle => /\ hand'[h] = [todo |-> hand'[h].todo, req |-> hand[h].req, mem |-> m]
                        /\ Todo(agreed', hand[h].req, hand'[h].todo)
\* It leaves nothing out but what a check takes along.
Kept(h) == hand'[h] # Idle => \/ FailedCheck(h)
                              \/ ToSet(Tail(hand[h].todo)) \subseteq ToSet(hand'[h].todo)

\* What a list that has lost its first statements may start with.
Loose == Dos \ (Talks \cup Later \cup First)

LEMMA Lefts ==
  ASSUME Hands, NEW h \in Handlers, Busy(h), NEW l, NEW m, Left(h, l, m)
  PROVE  /\ hand' = [g \in Handlers |-> IF g = h THEN hand'[h] ELSE hand[g]]
         /\ l = <<>> => hand'[h] = Idle
         /\ l # <<>> => hand'[h] = [todo |-> l, req |-> hand[h].req, mem |-> m]
<1> DEFINE x == [todo |-> l, req |-> hand[h].req, mem |-> m]
<1>1. hand' = [hand EXCEPT ![h] = IF l = <<>> THEN Idle ELSE x]
  BY DEF Left, Req
<1> HIDE DEF x
<1>2. hand'[h] = IF l = <<>> THEN Idle ELSE x
  BY <1>1 DEF Hands
<1>3. hand' = [g \in Handlers |-> IF g = h THEN hand'[h] ELSE hand[g]]
  BY <1>1, <1>2 DEF Hands
<1> QED BY <1>2, <1>3 DEF x

LEMMA Ending ==
  ASSUME Hands, NEW h \in Handlers, Busy(h), Done(h)
  PROVE  \A m : Moved(h, m) /\ Kept(h) /\ hand'[h] = Idle
<1>1. Left(h, <<>>, 0)
  BY DEF Done
<1> QED BY <1>1, Lefts DEF Moved, Kept

LEMMA Remains ==
  ASSUME Hands, NEW h \in Handlers, Busy(h), agreed \subseteq agreed', NEW m,
         NEW n \in Nat, n > 1, Left(h, SubSeq(hand[h].todo, n, Len(hand[h].todo)), m)
  PROVE  /\ Moved(h, m)
         /\ hand'[h] # Idle => /\ n <= Len(hand[h].todo)
                               /\ Len(hand'[h].todo) = Len(hand[h].todo) - n + 1
                               /\ hand'[h].todo = SubSeq(hand[h].todo, n, Len(hand[h].todo))
                               /\ Now(h)' = hand[h].todo[n]
                               /\ Now(h)'.do \in Dos
                               /\ Follows(hand[h].todo[n - 1], Now(h)')
<1> DEFINE l == hand[h].todo
           r == hand[h].req
           c == SubSeq(l, n, Len(l))
<1>1. Todo(agreed, r, l)
  BY DEF Busy
<1> HIDE DEF r, l
<1>2. /\ n > Len(l) <=> c = <<>>
      /\ Len(c) = IF n > Len(l) THEN 0 ELSE Len(l) - n + 1
      /\ n <= Len(l) => Todo(agreed, r, c) /\ c[1] = l[n] /\ Follows(l[n - 1], l[n])
  BY <1>1, Suffix
<1>3. Len(l) \in Nat
  BY <1>1, HeadTail
<1> HIDE DEF c
<1>4. /\ hand' = [g \in Handlers |-> IF g = h THEN hand'[h] ELSE hand[g]]
      /\ c = <<>> => hand'[h] = Idle
      /\ c # <<>> => hand'[h] = [todo |-> c, req |-> hand[h].req, mem |-> m]
  <2>1. Left(h, c, m)
    BY DEF c, l
  <2> QED BY <2>1, Lefts
<1>5. CASE c = <<>>
  BY <1>4, <1>5 DEF Moved
<1>6. CASE c # <<>>
  <2>1. n <= Len(l)
    BY <1>2, <1>3, <1>6
  <2>2. Todo(agreed, r, c) /\ Todo(agreed', r, c)
    BY <1>2, <2>1, TodoGrows
  <2>3. hand'[h].todo = c /\ hand'[h] = [todo |-> c, req |-> r, mem |-> m]
    BY <1>4, <1>6 DEF r
  <2>4. Head(c) = c[1] /\ c[1] \in Sts
    BY <2>2, HeadTail
  <2>5. Now(h)' = l[n] /\ Now(h)'.do \in Dos /\ Follows(l[n - 1], l[n])
    <3>1. Now(h)' = Head(hand'[h].todo)
      BY DEF Now
    <3> QED BY <1>2, <2>1, <2>3, <2>4, <3>1 DEF Sts
  <2>6. Moved(h, m)
    BY <1>4, <2>2, <2>3 DEF Moved, r
  <2>7. Len(hand'[h].todo) = Len(l) - n + 1
    BY <1>2, <1>3, <2>1, <2>3
  <2> QED BY <2>1, <2>3, <2>5, <2>6, <2>7 DEF c, l
<1> QED BY <1>5, <1>6

LEMMA Proceeds ==
  ASSUME Hands, NEW h \in Handlers, Busy(h), agreed \subseteq agreed', NEW m, Left(h, Rest(h), m)
  PROVE  /\ Moved(h, m) /\ Kept(h)
         /\ hand'[h] # Idle => Now(h)'.do \in Dos /\ Follows(Now(h), Now(h)')
<1> DEFINE l == hand[h].todo
<1>1. Todo(agreed, hand[h].req, l)
  BY DEF Busy
<1>2. Rest(h) = SubSeq(l, 2, Len(l)) /\ Now(h) = l[1] /\ Tail(l) = SubSeq(l, 2, Len(l))
  BY <1>1, HeadTail DEF Rest, Now
<1>3. 2 \in Nat /\ 2 > 1 /\ 2 - 1 = 1
  OBVIOUS
<1>4. Left(h, SubSeq(l, 2, Len(l)), m)
  BY <1>2
<1>5. /\ Moved(h, m)
      /\ hand'[h] # Idle => /\ hand'[h].todo = SubSeq(l, 2, Len(l))
                            /\ Now(h)'.do \in Dos
                            /\ Follows(l[2 - 1], Now(h)')
  BY <1>3, <1>4, Remains
<1>6. Kept(h)
  BY <1>2, <1>5 DEF Kept
<1> QED BY <1>2, <1>3, <1>5, <1>6

LEMMA Drops ==
  ASSUME Hands, NEW h \in Handlers, Busy(h), agreed \subseteq agreed', NEW m,
         NEW n \in Nat, n > 2, Left(h, SubSeq(hand[h].todo, n, Len(hand[h].todo)), m)
  PROVE  /\ Moved(h, m) /\ Kept(h)
         /\ hand'[h] # Idle => /\ FailedCheck(h)
                               /\ n <= Len(hand[h].todo) /\ Now(h)' = hand[h].todo[n]
                               /\ Now(h)'.do \in Dos
                               /\ Follows(hand[h].todo[n - 1], Now(h)')
<1> DEFINE l == hand[h].todo
<1>0. n > 1
  OBVIOUS
<1>1. /\ Moved(h, m)
      /\ hand'[h] # Idle => /\ n <= Len(l) /\ Now(h)' = l[n]
                            /\ Len(hand'[h].todo) = Len(l) - n + 1
                            /\ Now(h)'.do \in Dos
                            /\ Follows(l[n - 1], Now(h)')
  BY <1>0, Remains
<1>2. Len(l) \in Nat
  BY HeadTail DEF Busy
<1>3. hand'[h] # Idle => FailedCheck(h)
  <2> SUFFICES ASSUME hand'[h] # Idle PROVE Len(hand'[h].todo) < Len(l) - 1
    BY DEF FailedCheck
  <2> HIDE DEF l
  <2> QED BY <1>1, <1>2
<1> QED BY <1>1, <1>3 DEF Kept

LEMMA GivesUp ==
  ASSUME Hands, NEW h \in Handlers, Busy(h), agreed \subseteq agreed', GiveUp(h)
  PROVE  /\ Moved(h, hand[h].mem) /\ Kept(h)
         /\ hand'[h] # Idle => Now(h)'.do \in Loose
         /\ hand'[h] # Idle /\ Now(h).do \in {"helped", "served"} => FailedCheck(h)
<1> DEFINE l == hand[h].todo
<1>1. PICK n \in Ends(l) : Left(h, SubSeq(l, n, Len(l)), hand[h].mem)
  BY DEF GiveUp
<1>2. Len(l) \in Nat /\ Len(l) > 0 /\ Head(l) = l[1]
  BY HeadTail DEF Busy
<1>3. /\ n \in Nat /\ n > 1 /\ \A i \in 1..(n - 1) : l[i].part = l[1].part
      /\ n <= Len(l) => l[n].part # l[1].part
  BY <1>1, <1>2 DEF Ends
<1>4. l[n - 1].part = l[1].part
  BY <1>3
<1>5. /\ Moved(h, hand[h].mem)
      /\ hand'[h] # Idle => /\ n <= Len(l) /\ Now(h)' = l[n]
                            /\ Now(h)'.do \in Dos
                            /\ Follows(l[n - 1], Now(h)')
  BY <1>1, <1>3, Remains
<1>6. Kept(h) /\ (hand'[h] # Idle /\ Now(h).do \in {"helped", "served"} => FailedCheck(h))
  <2>1. CASE n = 2
    <3>1. Kept(h)
      <4>1. SubSeq(l, n, Len(l)) = Rest(h)
        BY <2>1, HeadTail DEF Busy, Rest
      <4>2. Left(h, Rest(h), hand[h].mem)
        BY <1>1, <4>1
      <4> QED BY <4>2, Proceeds
    <3>2. Now(h) = l[2 - 1]
      BY <1>2 DEF Now
    <3>3. hand'[h] # Idle /\ Now(h).do \in {"helped", "served"} => Now(h)'.part = Now(h).part
      BY <1>5, <2>1, <3>2 DEF Follows
    <3>4. hand'[h] # Idle => Now(h)'.part # l[2 - 1].part
      BY <1>3, <1>4, <1>5, <2>1
    <3> QED BY <3>1, <3>2, <3>3, <3>4
  <2>2. CASE n # 2
    <3>1. n > 2
      BY <1>3, <2>2
    <3> QED BY <1>1, <1>3, <3>1, Drops
  <2> QED BY <2>1, <2>2
<1>7. ASSUME hand'[h] # Idle
      PROVE  Now(h)'.do \in Loose
  <2>1. Now(h)'.part # l[n - 1].part
    BY <1>3, <1>4, <1>5, <1>7
  <2>2. Now(h)'.do \notin Talks \cup Later /\ Now(h)'.do \notin First /\ Now(h)'.do \in Dos
    BY <1>5, <1>7, <2>1 DEF Follows
  <2> QED BY <2>2 DEF Loose
<1> QED BY <1>5, <1>6, <1>7

LEMMA Skips ==
  ASSUME Hands, NEW h \in Handlers, Busy(h), agreed \subseteq agreed', Skip(h),
         Now(h).do \in {"has", "hasBlack"}
  PROVE  /\ Moved(h, hand[h].mem) /\ Kept(h)
         /\ hand'[h] # Idle => Now(h)'.do \in Loose
<1> DEFINE l == hand[h].todo
<1>1. Left(h, SubSeq(l, 3, Len(l)), hand[h].mem) /\ 3 \in Nat /\ 3 > 2 /\ 3 - 1 = 2
  BY DEF Skip
<1>2. /\ Moved(h, hand[h].mem) /\ Kept(h)
      /\ hand'[h] # Idle => /\ 3 <= Len(l) /\ Now(h)'.do \in Dos
                            /\ Follows(l[3 - 1], Now(h)')
  BY <1>1, Drops
<1>3. Todo(agreed, hand[h].req, l) /\ Now(h) = l[1] /\ Len(l) \in Nat
  BY HeadTail DEF Busy, Now
<1>4. ASSUME hand'[h] # Idle
      PROVE  Now(h)'.do \in Loose
  <2>1. 2 \in 2..Len(l) /\ 2 - 1 = 1
    BY <1>2, <1>3, <1>4
  <2>2. Follows(l[2 - 1], l[2])
    BY <1>3, <2>1 DEF Todo
  <2>3. Follows(Now(h), l[2]) /\ Follows(l[2], Now(h)') /\ Now(h)'.do \in Dos
    BY <1>1, <1>2, <1>3, <1>4, <2>1, <2>2
  <2>4. l[2].do = "row" \/ l[2].do = "rowBlack"
    BY <2>3 DEF Follows
  <2>5. Now(h)'.do \notin Talks \cup Later \cup First
    BY <2>3, <2>4 DEF Follows, Talks, Later, First
  <2> QED BY <2>3, <2>5 DEF Loose
<1> QED BY <1>2, <1>4

LEMMA Expands ==
  ASSUME Hands, NEW h \in Handlers, Busy(h), agreed \subseteq agreed',
         Now(h).do \in {"find", "assign", "each", "invite"}, NEW p, NEW m,
         p = <<>> \/ Todo(agreed', hand[h].req, p), Expand(h, p, m)
  PROVE  /\ Moved(h, m) /\ Kept(h)
         /\ hand'[h] # Idle => /\ Now(h)'.do \in Loose \/ (p # <<>> /\ Now(h)' = p[1])
                               /\ p # <<>> => ToSet(p) \subseteq ToSet(hand'[h].todo)
<1> DEFINE l == hand[h].todo
           r == hand[h].req
           c == p \o Tail(l)
<1>1. Todo(agreed, r, l) /\ Left(h, c, m)
  BY DEF Busy, Expand, Rest
<1>2. /\ Tail(l) # <<>> => /\ Todo(agreed, r, Tail(l)) /\ Tail(l)[1] = l[2] /\ Follows(l[1], l[2])
      /\ Now(h) = l[1]
  BY <1>1, HeadTail DEF Now
<1>3. Piece(agreed', r, Tail(l))
  <2>1. CASE Tail(l) = <<>>
    BY <2>1 DEF Piece
  <2>2. CASE Tail(l) # <<>>
    <3>1. Todo(agreed', r, Tail(l))
      BY <1>2, <2>2, TodoGrows
    <3>2. l[2].do \notin Talks \cup Later \cup First
      BY <1>2, <2>2 DEF Follows, Talks, Later, First
    <3> QED BY <1>2, <2>2, <3>1, <3>2 DEF Piece
  <2> QED BY <2>1, <2>2
<1>4. /\ c = <<>> \/ Todo(agreed', r, c)
      /\ p = <<>> => c = Tail(l)
      /\ p # <<>> => c # <<>> /\ c[1] = p[1] /\ ToSet(Tail(l)) \subseteq ToSet(c) /\ ToSet(p) \subseteq ToSet(c)
  <2> HIDE DEF r, l
  <2>1. CASE p = <<>>
    <3>1. c = Tail(l)
      <4>1. CASE Tail(l) = <<>>
        BY <2>1, <4>1
      <4>2. CASE Tail(l) # <<>>
        <5>1. Tail(l) \in Seq(Sts)
          BY <1>2, <4>2 DEF Todo
        <5> QED BY <2>1, <5>1
      <4> QED BY <4>1, <4>2
    <3> QED BY <1>3, <2>1, <3>1 DEF Piece
  <2>2. CASE p # <<>>
    <3>1. Todo(agreed', r, p)
      BY <2>2 DEF r
    <3>2. Todo(agreed', r, c) /\ c[1] = p[1] /\ ToSet(Tail(l)) \subseteq ToSet(c)
      BY <1>3, <3>1, Concat
    <3>3. ToSet(p) \subseteq ToSet(c)
      <4>0. Tail(l) = <<>> \/ Tail(l) \in Seq(Sts)
        BY <1>3 DEF Todo, Piece
      <4>1. p \in Seq(Sts)
        BY <3>1 DEF Todo
      <4>3. <<>> \in Seq(Sts)
        OBVIOUS
      <4>4. Tail(l) \in Seq(Sts)
        BY <4>0, <4>3
      <4>2. \A i \in DOMAIN p : i \in DOMAIN c /\ c[i] = p[i]
        BY <4>1, <4>4
      <4> HIDE DEF c
      <4> QED BY <4>2 DEF ToSet
    <3>4. c # <<>>
      BY <3>2 DEF Todo
    <3> QED BY <2>2, <3>2, <3>3, <3>4
  <2> QED BY <2>1, <2>2
<1> HIDE DEF c
<1>5. /\ hand' = [g \in Handlers |-> IF g = h THEN hand'[h] ELSE hand[g]]
      /\ c = <<>> => hand'[h] = Idle
      /\ c # <<>> => hand'[h] = [todo |-> c, req |-> hand[h].req, mem |-> m]
  BY <1>1, Lefts
<1>6. CASE c = <<>>
  BY <1>5, <1>6 DEF Moved, Kept
<1>7. CASE c # <<>>
  <2>1. Todo(agreed', r, c) /\ hand'[h].todo = c
    BY <1>4, <1>5, <1>7
  <2>2. Head(c) = c[1] /\ c[1] \in Sts
    BY <2>1, HeadTail
  <2>3. Now(h)' = c[1] /\ c[1].do \in Dos
    <3>1. Now(h)' = Head(hand'[h].todo)
      BY DEF Now
    <3> QED BY <2>1, <2>2, <3>1 DEF Sts
  <2>4. Moved(h, m)
    BY <1>5, <1>7, <2>1 DEF Moved
  <2>5. Kept(h)
    BY <1>4, <2>1 DEF Kept
  <2>6. Now(h)'.do \in Loose \/ (p # <<>> /\ Now(h)' = p[1])
    <3>1. CASE p = <<>>
      <4>1. c = Tail(l) /\ c[1].do \notin Talks \cup Later \cup First
        BY <1>3, <1>4, <1>7, <3>1 DEF Piece
      <4> QED BY <2>3, <4>1 DEF Loose
    <3>2. CASE p # <<>>
      BY <1>4, <2>3, <3>2
    <3> QED BY <3>1, <3>2
  <2> QED BY <1>4, <2>1, <2>4, <2>5, <2>6
<1> QED BY <1>6, <1>7

-----------------------------------------------------------------------------
(* The invariant.  pair says for which two a conversation is.              *)

Likes == {l \in Seq(Everyone) : IsInjective(l)}
PostRow == [by : Everyone, likes : Likes, hidden : BOOLEAN, there : BOOLEAN]
CommentRow == [post : Nat, by : Everyone, there : BOOLEAN]
Message == [conv : Nat, by : Everyone, to : Everyone]

CodeRow(c) ==
  /\ c = [there |-> c.there, enabled |-> c.enabled, friends |-> c.friends, used |-> c.used]
  /\ c.enabled => c.there
  /\ c.friends \in Seq(Users)

People ==
  /\ setting \in Scenarios /\ new \subseteq Users /\ index \in Nat
  /\ friend \subseteq Users \X Users /\ black \subseteq Users \X Users
  /\ filed \in Seq(Row) /\ agreed \subseteq Pairs
CodeBook == codes = [c \in Codes |-> codes[c]] /\ \A c \in Codes : CodeRow(codes[c])
Walls == /\ posts \in Seq(PostRow) /\ comments \in Seq(CommentRow)
         /\ \A c \in DOMAIN comments : comments[c].post \in DOMAIN posts
\* Everybody in a conversation nobody was invited into is one of the two whom it
\* is for, and so are the two of a message.
Talk(pair) ==
  /\ convs \in Seq(SUBSET Everyone) /\ said \in Seq(Message)
  /\ pair \in [DOMAIN convs -> Pairs]
  /\ invited \subseteq Nat
  /\ \A c \in DOMAIN convs : c \in invited \/ convs[c] \subseteq pair[c]
  /\ \A m \in DOMAIN said :
       /\ said[m].conv \in DOMAIN convs
       /\ said[m].conv \in invited \/ pair[said[m].conv] = {said[m].by, said[m].to}

\* What was read for the next statement.
Informed == {"index", "comment", "like", "posts", "answer", "creator", "other", "text"}
Knows(pair, h) ==
  /\ At(h, "index") => hand[h].mem \in Nat
  /\ At(h, "comment") => Req(h).id \in DOMAIN posts
  /\ At(h, "like") => hand[h].mem \in Likes
  /\ At(h, "creator") \/ At(h, "other") \/ At(h, "text") =>
       /\ hand[h].mem \in DOMAIN convs
       /\ hand[h].mem \in invited \/ pair[hand[h].mem] = {Now(h).a, Now(h).b}

\* A check that has failed ever since is still to come.
Faces(h) ==
  /\ barred[h] \subseteq Unmet(h)
  /\ \A s \in barred[h] : s.do \in {"show", "near"} \/ At(h, "find") \/ s \in ToSet(hand[h].todo)
  /\ At(h, "posts") => \A s \in barred[h] : s.do = "near" => posts[s.b].by \notin hand[h].mem
  /\ At(h, "answer") => \A s \in barred[h] : s.do \in {"show", "near"} => s.b \notin hand[h].mem

Handler(pair, h) ==
  hand[h] # Idle => Busy(h) /\ Req(h) \in setting.ask /\ Knows(pair, h) /\ Faces(h)

Holds(pair) ==
  People /\ CodeBook /\ Walls /\ Talk(pair) /\ Hands /\ \A h \in Handlers : Handler(pair, h)

IInv == \E pair : Holds(pair)

-----------------------------------------------------------------------------
(* What a step of one process leaves to the others, and to itself.         *)

Checks == {"already", "pending", "find", "conv", "helped", "served", "codeCount", "liked", "post",
           "mayInvite", "isIn"}
Plain == Dos \ Informed

\* The rest of the state, as far as requests rely on it.
Grows(q, pair) ==
  /\ setting' = setting /\ agreed \subseteq agreed' /\ filed' \in Seq(Row)
  /\ invited \subseteq invited'
  /\ \A p \in DOMAIN posts : p \in DOMAIN posts' /\ posts'[p].by = posts[p].by
  /\ \A c \in DOMAIN convs : c \in DOMAIN convs' /\ q[c] = pair[c]

LEMMA AskedFor ==
  ASSUME People, NEW r \in setting.ask
  PROVE  r \in Request
BY FriendsAssumption DEF People

LEMMA Shown ==
  ASSUME NEW h \in Handlers, Req(h) \in Request, filed \in Seq(Row), NEW s \in Checked(Req(h)),
         s.do \in {"show", "near"}
  PROVE  s.b \in DOMAIN posts /\ s.a = Req(h).by
<1> DEFINE r == Req(h)
<1>1. Sound({}, r, Statements(r))
  BY Lists
<1> HIDE DEF r
<1>2. "show" \notin Dos /\ "near" \notin Dos
  BY DEF Dos
<1>3. s \notin ToSet(Statements(r))
  <2>1. CASE Statements(r) = <<>>
    BY <2>1 DEF ToSet
  <2>2. CASE Statements(r) # <<>>
    <3>1. Statements(r) \in Seq(Sts)
      BY <1>1, <2>2 DEF Sound, Todo
    <3>2. \A x \in ToSet(Statements(r)) : x \in Sts
      BY <3>1 DEF ToSet
    <3> QED BY <1>2, <3>2 DEF Sts
  <2> QED BY <2>1, <2>2
<1>4. ASSUME r.id \in DOMAIN filed, s \in ToSet(Direct(filed[r.id].to, filed[r.id].from, ""))
      PROVE  FALSE
  <2> DEFINE a == filed[r.id].to
             b == filed[r.id].from
             l == Direct(a, b, "")
  <2>0. filed[r.id] \in Row
    <3>1. \A i \in DOMAIN filed : filed[i] \in Row
      OBVIOUS
    <3> QED BY <1>4, <3>1
  <2>1. a \in Everyone /\ b \in Everyone /\ "" \in Parts
    BY <2>0 DEF Row, Everyone, Parts
  <2> HIDE DEF a, b
  <2>2. Todo({}, r, l)
    BY <2>1, DirectList
  <2>3. l \in Seq(Sts)
    BY <2>2 DEF Todo
  <2> HIDE DEF l
  <2>4. \A x \in ToSet(l) : x \in Sts
    BY <2>3 DEF ToSet
  <2>5. s \in Sts
    BY <1>4, <2>4 DEF a, b, l
  <2> QED BY <1>2, <2>5 DEF Sts
<1>5. PICK p \in DOMAIN posts : s \in {St("show", r.by, p, ""), St("near", r.by, p, "")}
  <2> DEFINE D == UNION {{St("show", r.by, p, ""), St("near", r.by, p, "")} : p \in DOMAIN posts}
             C == ToSet(Direct(filed[r.id].to, filed[r.id].from, ""))
             F == ToSet(Statements(r))
  <2>1. s \in F \cup (IF r.op = "handle" /\ r.on /\ r.id \in DOMAIN filed THEN C ELSE {})
             \cup (IF r.op = "feed" THEN D ELSE {})
    BY Zenon DEF Checked, r
  <2>2. s \notin F
    BY <1>3
  <2>3. r.id \in DOMAIN filed => s \notin C
    BY <1>4
  <2>4. s \in D
    <3> HIDE DEF D, C, F
    <3> QED BY <2>1, <2>2, <2>3
  <2> QED BY <2>4, Zenon
<1>6. \A do : St(do, r.by, p, "").a = r.by /\ St(do, r.by, p, "").b = p
  BY DEF St
<1>7. s = St("show", r.by, p, "") \/ s = St("near", r.by, p, "")
  BY <1>5
<1>8. s.a = r.by /\ s.b = p
  BY <1>6, <1>7
<1> QED BY <1>8 DEF r

LEMMA Noted ==
  ASSUME NoteBarred, NEW h \in Handlers, hand'[h] # Idle
  PROVE  /\ hand[h] = Idle => barred'[h] = Unmet(h)'
         /\ barred'[h] \subseteq Unmet(h)'
         /\ hand[h] # Idle => /\ barred'[h] \subseteq barred[h]
                              /\ FailedCheck(h) => barred'[h] \subseteq ToSet(hand'[h].todo)
BY DEF NoteBarred

LEMMA PlainKnows ==
  ASSUME NEW h \in Handlers, Now(h)'.do \in Plain
  PROVE  (\A q : Knows(q, h)') /\ Now(h)'.do \notin {"posts", "answer"}
BY DEF Knows, At, Now, Plain, Informed

LEMMA OthersStand ==
  ASSUME NEW pair, NEW q, Holds(pair), Grows(q, pair), NoteBarred,
         NEW g \in Handlers, hand'[g] = hand[g]
  PROVE  Handler(q, g)'
<1> SUFFICES ASSUME hand'[g] # Idle
             PROVE  Busy(g)' /\ Req(g)' \in setting'.ask /\ Knows(q, g)' /\ Faces(g)'
  BY DEF Handler
<1>1. hand'[g] = hand[g] /\ hand[g] # Idle
  OBVIOUS
<1>2. Busy(g) /\ Req(g) \in setting.ask /\ Knows(pair, g) /\ Faces(g)
  BY <1>1 DEF Holds, Handler
<1>3. Busy(g)'
  BY <1>1, <1>2, TodoGrows DEF Busy, Grows
<1>4. Req(g)' \in setting'.ask
  BY <1>1, <1>2 DEF Req, Grows
<1>5. Knows(q, g)'
  BY <1>1, <1>2 DEF Knows, At, Now, Req, Grows
<1>6. barred'[g] \subseteq Unmet(g)' /\ barred'[g] \subseteq barred[g]
  BY <1>1, Noted
<1>7. \A s \in barred[g] : s.do = "near" => s.b \in DOMAIN posts
  <2>1. Req(g) \in Request /\ filed \in Seq(Row)
    BY <1>2, AskedFor DEF Holds, People
  <2> QED BY <1>2, <2>1, Shown DEF Faces, Unmet
<1>8. Faces(g)'
  BY <1>1, <1>2, <1>6, <1>7 DEF Faces, At, Grows
<1> QED BY <1>3, <1>4, <1>5, <1>8

LEMMA HeadGone ==
  ASSUME NEW h \in Handlers, Busy(h), NEW s \in ToSet(hand[h].todo), s # Now(h)
  PROVE  s \in ToSet(Tail(hand[h].todo))
BY HeadTail DEF Busy, Now

\* A check that the step has passed is not barred.
LEMMA FacesOn ==
  ASSUME NEW h \in Handlers, Busy(h), Faces(h), Kept(h), NoteBarred,
         hand[h] # Idle, hand'[h] # Idle, ~At(h, "find"),
         Now(h).do \notin Checks \/ FailedCheck(h) \/ \A s : s = Now(h) => ~Fails(h, s)'
  PROVE  /\ barred'[h] \subseteq Unmet(h)' /\ barred'[h] \subseteq barred[h]
         /\ \A s \in barred'[h] : s.do \in {"show", "near"} \/ s \in ToSet(hand'[h].todo)
<1>1. barred'[h] \subseteq Unmet(h)' /\ barred'[h] \subseteq barred[h]
  BY Noted
<1>2. ASSUME NEW s \in barred'[h], s.do \notin {"show", "near"}, ~FailedCheck(h)
      PROVE  s \in ToSet(hand'[h].todo)
  <2>1. s \in ToSet(hand[h].todo)
    BY <1>1, <1>2 DEF Faces
  <2>2. Fails(h, s)'
    BY <1>1, <1>2 DEF Unmet
  <2>3. s.do \in Checks
    BY <1>2, <2>2 DEF Fails, Checks
  <2>4. s # Now(h)
    BY <1>2, <2>2, <2>3
  <2>5. s \in ToSet(Tail(hand[h].todo))
    BY <2>1, <2>4, HeadGone
  <2> QED BY <1>2, <2>5 DEF Kept
<1>3. FailedCheck(h) => barred'[h] \subseteq ToSet(hand'[h].todo)
  BY Noted
<1> QED BY <1>1, <1>2, <1>3

LEMMA StepOn ==
  ASSUME NEW pair, NEW q, Holds(pair), NEW h \in Handlers, hand[h] # Idle, NEW m, Moved(h, m),
         Grows(q, pair), NoteBarred,
         hand'[h] # Idle => Knows(q, h)' /\ Faces(h)'
  PROVE  Hands' /\ \A g \in Handlers : Handler(q, g)'
<1>1. Hands'
  <2>1. hand' = [g \in Handlers |-> IF g = h THEN hand'[h] ELSE hand[g]]
    BY DEF Moved
  <2> QED BY <2>1 DEF Hands
<1>2. Handler(q, h)'
  <2> SUFFICES ASSUME hand'[h] # Idle
               PROVE  Busy(h)' /\ Req(h)' \in setting'.ask /\ Knows(q, h)' /\ Faces(h)'
    BY DEF Handler
  <2>1. hand'[h] = [todo |-> hand'[h].todo, req |-> hand[h].req, mem |-> m]
        /\ Todo(agreed', hand[h].req, hand'[h].todo)
    BY DEF Moved
  <2>2. hand'[h].req = hand[h].req /\ hand'[h].mem = m
    BY <2>1
  <2>3. Busy(h)'
    BY <2>1, <2>2 DEF Busy
  <2>4. Req(h)' \in setting'.ask
    BY <2>2 DEF Holds, Handler, Req, Grows
  <2> QED BY <2>3, <2>4
<1>3. ASSUME NEW g \in Handlers, g # h
      PROVE  Handler(q, g)'
  <2>1. hand'[g] = hand[g]
    BY <1>3 DEF Moved
  <2> QED BY <2>1, OthersStand
<1> QED BY <1>1, <1>2, <1>3

LEMMA GoodStep ==
  ASSUME NEW pair, NEW q, Holds(pair), NEW h \in Handlers, hand[h] # Idle, NEW m, Moved(h, m), Kept(h),
         Grows(q, pair), NoteBarred, ~At(h, "find"),
         hand'[h] # Idle => Knows(q, h)' /\ Now(h)'.do \notin {"posts", "answer"},
         Now(h).do \notin Checks \/ FailedCheck(h) \/ hand'[h] = Idle
         \/ \A s : s = Now(h) => ~Fails(h, s)'
  PROVE  Hands' /\ \A g \in Handlers : Handler(q, g)'
<1>1. ASSUME hand'[h] # Idle
      PROVE  Faces(h)'
  <2>1. Busy(h) /\ Faces(h)
    BY DEF Holds, Handler
  <2>2. /\ barred'[h] \subseteq Unmet(h)' /\ barred'[h] \subseteq barred[h]
        /\ \A s \in barred'[h] : s.do \in {"show", "near"} \/ s \in ToSet(hand'[h].todo)
    BY <1>1, <2>1, FacesOn
  <2>3. ~At(h, "posts")' /\ ~At(h, "answer")'
    BY <1>1 DEF At, Now
  <2> QED BY <2>2, <2>3 DEF Faces
<1> QED BY <1>1, StepOn

LEMMA Here ==
  ASSUME NEW pair, Holds(pair), NEW h \in Handlers, NEW s, At(h, s)
  PROVE  /\ hand[h] # Idle /\ Hands /\ Busy(h) /\ Faces(h) /\ Knows(pair, h)
         /\ Req(h) \in setting.ask /\ Req(h) \in Request
         /\ Now(h).do = s /\ \A x : At(h, x) <=> x = s
         /\ Now(h) \in Sts /\ Fits(agreed, Req(h), Now(h))
<1>1. hand[h] # Idle /\ Now(h).do = s /\ \A x : At(h, x) <=> x = s
  BY DEF At, Now, Idle
<1>2. Hands /\ Busy(h) /\ Faces(h) /\ Knows(pair, h) /\ Req(h) \in setting.ask /\ People
  BY <1>1 DEF Holds, Handler
<1>3. Req(h) \in Request
  BY <1>2, AskedFor
<1>4. Now(h) \in Sts /\ Fits(agreed, Req(h), Now(h))
  <2> DEFINE l == hand[h].todo
             r == hand[h].req
  <2>1. Todo(agreed, r, l) /\ Now(h) = Head(l) /\ Req(h) = r
    BY <1>2 DEF Busy, Now, Req
  <2> HIDE DEF l, r
  <2>2. Head(l) = l[1] /\ l[1] \in Sts /\ Fits(agreed, r, l[1])
    BY <2>1, HeadTail
  <2> QED BY <2>1, <2>2
<1> QED BY <1>1, <1>2, <1>3, <1>4

LEMMA FollowsPlain ==
  ASSUME NEW s, NEW t, Follows(s, t), t.do \in Dos,
         s.do \notin {"newConv", "creator", "other", "post", "liked", "circle", "posts"}
  PROVE  t.do \in Plain
BY DEF Follows, Plain, Informed, First

LEMMA LoosePlain == Loose \subseteq Plain
BY DEF Loose, Plain, Informed, Talks, Later, First

\* The rows that no check changes.
Calm == UNCHANGED <<setting, new, friend, filed, black, Chats, Helpers, Moments>>

LEMMA CalmStore ==
  ASSUME NEW pair, Holds(pair), Calm, agreed \subseteq agreed', agreed' \subseteq Pairs
  PROVE  People' /\ CodeBook' /\ Walls' /\ Talk(pair)' /\ Grows(pair, pair)
<1>0. People /\ CodeBook /\ Walls /\ Talk(pair)
  BY DEF Holds
<1>1. People'
  BY <1>0 DEF People, Calm, Helpers
<1>2. CodeBook'
  BY <1>0 DEF CodeBook, CodeRow, Calm, Helpers
<1>3. Walls'
  BY <1>0 DEF Walls, Calm, Moments
<1>4. Talk(pair)'
  BY <1>0 DEF Talk, Calm, Chats
<1>5. Grows(pair, pair)
  BY <1>0 DEF Grows, Calm, Moments, Chats, People
<1> QED BY <1>1, <1>2, <1>3, <1>4, <1>5

LEMMA KnowingCheck ==
  ASSUME NEW pair, Holds(pair), NEW h \in Handlers, hand[h] # Idle, Calm, NoteBarred,
         agreed \subseteq agreed', agreed' \subseteq Pairs,
         NEW m, Moved(h, m), Kept(h), ~At(h, "find"),
         hand'[h] # Idle => Knows(pair, h)' /\ Now(h)'.do \notin {"posts", "answer"},
         Now(h).do \notin Checks \/ FailedCheck(h) \/ hand'[h] = Idle
         \/ \A s : s = Now(h) => ~Fails(h, s)'
  PROVE  Holds(pair)'
<1>1. People' /\ CodeBook' /\ Walls' /\ Talk(pair)' /\ Grows(pair, pair)
  BY CalmStore
<1>2. Hands' /\ \A g \in Handlers : Handler(pair, g)'
  BY <1>1, GoodStep
<1> QED BY <1>1, <1>2 DEF Holds

LEMMA CheckStep ==
  ASSUME NEW pair, Holds(pair), NEW h \in Handlers, hand[h] # Idle, Calm, NoteBarred,
         agreed \subseteq agreed', agreed' \subseteq Pairs,
         NEW m, Moved(h, m), Kept(h), ~At(h, "find"), hand'[h] # Idle => Now(h)'.do \in Plain,
         Now(h).do \notin Checks \/ FailedCheck(h) \/ hand'[h] = Idle
         \/ \A s : s = Now(h) => ~Fails(h, s)'
  PROVE  Holds(pair)'
<1>1. hand'[h] # Idle => Knows(pair, h)' /\ Now(h)'.do \notin {"posts", "answer"}
  BY PlainKnows
<1> QED BY <1>1, KnowingCheck

LEMMA OnlyGoes ==
  ASSUME Hands, NEW h \in Handlers, Busy(h), agreed' = agreed, NEW may, Only(h, may)
  PROVE  /\ Moved(h, hand[h].mem) /\ Kept(h)
         /\ hand'[h] # Idle => may /\ Now(h)'.do \in Dos /\ Follows(Now(h), Now(h)')
<1>1. CASE may
  <2>1. Left(h, Rest(h), hand[h].mem)
    BY <1>1 DEF Only, Proceed
  <2> QED BY <1>1, <2>1, Proceeds
<1>2. CASE ~may
  <2>1. Done(h)
    BY <1>2 DEF Only
  <2> QED BY <2>1, Ending
<1> QED BY <1>1, <1>2

LEMMA AlreadyHolds ==
  ASSUME NEW pair, Holds(pair), NEW h \in Handlers, Already(h), UNCHANGED <<setting, new, Moments>>, NoteBarred
  PROVE  Holds(pair)'
<1>1. At(h, "already") /\ Only(h, Now(h).a # Now(h).b /\ ~AreFriends(Now(h).a, Now(h).b))
      /\ UNCHANGED <<Relations, Chats, Helpers>>
  BY DEF Already
<1>2. /\ hand[h] # Idle /\ Hands /\ Busy(h) /\ Now(h).do = "already" /\ ~At(h, "find")
  BY <1>1, Here
<1>3. Calm /\ agreed' = agreed /\ friend' = friend /\ agreed' \subseteq Pairs
  BY <1>1 DEF Calm, Relations, Holds, People
<1>4. /\ Moved(h, hand[h].mem) /\ Kept(h)
      /\ hand'[h] # Idle => /\ Now(h).a # Now(h).b /\ ~AreFriends(Now(h).a, Now(h).b)
                            /\ Now(h)'.do \in Dos /\ Follows(Now(h), Now(h)')
  BY <1>1, <1>2, <1>3, OnlyGoes
<1>5. hand'[h] # Idle => Now(h)'.do \in Plain
  BY <1>2, <1>4, FollowsPlain
<1>6. hand'[h] = Idle \/ \A s : s = Now(h) => ~Fails(h, s)'
  BY <1>2, <1>3, <1>4 DEF Fails, AreFriends
<1> QED BY <1>2, <1>3, <1>4, <1>5, <1>6, CheckStep

LEMMA PendingHolds ==
  ASSUME NEW pair, Holds(pair), NEW h \in Handlers, Pending(h), UNCHANGED <<setting, new, Moments>>, NoteBarred
  PROVE  Holds(pair)'
<1>1. At(h, "pending") /\ Only(h, ~AlreadyAsked(Now(h).a, Now(h).b))
      /\ UNCHANGED <<Relations, Chats, Helpers>>
  BY DEF Pending
<1>2. /\ hand[h] # Idle /\ Hands /\ Busy(h) /\ Now(h).do = "pending" /\ ~At(h, "find")
  BY <1>1, Here
<1>3. Calm /\ agreed' = agreed /\ filed' = filed /\ agreed' \subseteq Pairs
  BY <1>1 DEF Calm, Relations, Holds, People
<1>4. /\ Moved(h, hand[h].mem) /\ Kept(h)
      /\ hand'[h] # Idle => /\ ~IsPending(Now(h).a, Now(h).b)
                            /\ Now(h)'.do \in Dos /\ Follows(Now(h), Now(h)')
  BY <1>1, <1>2, <1>3, OnlyGoes DEF AlreadyAsked
<1>5. hand'[h] # Idle => Now(h)'.do \in Plain
  BY <1>2, <1>4, FollowsPlain
<1>6. hand'[h] = Idle \/ \A s : s = Now(h) => ~Fails(h, s)'
  BY <1>2, <1>3, <1>4 DEF Fails, IsPending
<1> QED BY <1>2, <1>3, <1>4, <1>5, <1>6, CheckStep

LEMMA CodeCountHolds ==
  ASSUME NEW pair, Holds(pair), NEW h \in Handlers, CodeCount(h), UNCHANGED <<setting, new, Moments>>, NoteBarred
  PROVE  Holds(pair)'
<1>1. At(h, "codeCount") /\ Only(h, Req(h).fs # <<>> /\ ~codes[Req(h).code].there)
      /\ UNCHANGED <<Relations, Chats, Helpers>>
  BY DEF CodeCount
<1>2. /\ hand[h] # Idle /\ Hands /\ Busy(h) /\ Now(h).do = "codeCount" /\ ~At(h, "find")
  BY <1>1, Here
<1>3. Calm /\ agreed' = agreed /\ codes' = codes /\ agreed' \subseteq Pairs
  BY <1>1 DEF Calm, Relations, Helpers, Holds, People
<1>4. /\ Moved(h, hand[h].mem) /\ Kept(h)
      /\ hand'[h] # Idle => /\ ~codes[Req(h).code].there
                            /\ Now(h)'.do \in Dos /\ Follows(Now(h), Now(h)')
  BY <1>1, <1>2, <1>3, OnlyGoes
<1>5. hand'[h] # Idle => Now(h)'.do \in Plain
  BY <1>2, <1>4, FollowsPlain
<1>6. hand'[h] = Idle \/ \A s : s = Now(h) => ~Fails(h, s)'
  <2>1. hand'[h] # Idle => Req(h)' = Req(h)
    BY <1>4 DEF Moved, Req
  <2> QED BY <1>2, <1>3, <1>4, <2>1 DEF Fails
<1> QED BY <1>2, <1>3, <1>4, <1>5, <1>6, CheckStep

LEMMA ValidHolds ==
  ASSUME NEW pair, Holds(pair), NEW h \in Handlers, Valid(h), UNCHANGED <<setting, new, Moments>>, NoteBarred
  PROVE  Holds(pair)'
<1>1. PICK may : At(h, "valid") /\ Only(h, may) /\ UNCHANGED <<Relations, Chats, Helpers>>
  <2>1. Proceed(h) => Only(h, TRUE)
    BY DEF Only
  <2> QED BY <2>1 DEF Valid
<1>2. /\ hand[h] # Idle /\ Hands /\ Busy(h) /\ Now(h).do = "valid" /\ ~At(h, "find")
  BY <1>1, Here
<1>3. Calm /\ agreed' = agreed /\ agreed' \subseteq Pairs
  BY <1>1 DEF Calm, Relations, Holds, People
<1>4. /\ Moved(h, hand[h].mem) /\ Kept(h)
      /\ hand'[h] # Idle => Now(h)'.do \in Dos /\ Follows(Now(h), Now(h)')
  BY <1>1, <1>2, <1>3, OnlyGoes
<1>5. hand'[h] # Idle => Now(h)'.do \in Plain
  BY <1>2, <1>4, FollowsPlain
<1>6. Now(h).do \notin Checks
  BY <1>2 DEF Checks
<1> QED BY <1>2, <1>3, <1>4, <1>5, <1>6, CheckStep

LEMMA MayInviteHolds ==
  ASSUME NEW pair, Holds(pair), NEW h \in Handlers, MayInvite(h) \/ IsIn(h),
         UNCHANGED <<setting, new, Moments>>, NoteBarred
  PROVE  Holds(pair)'
<1>1. PICK may : /\ \/ At(h, "mayInvite") /\ may = (Req(h).id \in DOMAIN convs)
                    \/ At(h, "isIn") /\ may = (Req(h).to \notin convs[Req(h).id])
                 /\ Only(h, may) /\ UNCHANGED <<Relations, Chats, Helpers>>
  BY DEF MayInvite, IsIn
<1>2. /\ hand[h] # Idle /\ Hands /\ Busy(h) /\ Now(h).do \in {"mayInvite", "isIn"} /\ ~At(h, "find")
      /\ Now(h).do = "mayInvite" => may = (Req(h).id \in DOMAIN convs)
      /\ Now(h).do = "isIn" => may = (Req(h).to \notin convs[Req(h).id])
  BY <1>1, Here
<1>3. Calm /\ agreed' = agreed /\ convs' = convs /\ agreed' \subseteq Pairs
  BY <1>1 DEF Calm, Relations, Chats, Holds, People
<1>4. /\ Moved(h, hand[h].mem) /\ Kept(h)
      /\ hand'[h] # Idle => may /\ Now(h)'.do \in Dos /\ Follows(Now(h), Now(h)')
  BY <1>1, <1>2, <1>3, OnlyGoes
<1>5. hand'[h] # Idle => Now(h)'.do \in Plain
  BY <1>2, <1>4, FollowsPlain
<1>6. hand'[h] = Idle \/ \A s : s = Now(h) => ~Fails(h, s)'
  <2>1. hand'[h] # Idle => Req(h)' = Req(h)
    BY <1>4 DEF Moved, Req
  <2> QED BY <1>2, <1>3, <1>4, <2>1 DEF Fails
<1> QED BY <1>2, <1>3, <1>4, <1>5, <1>6, CheckStep

LEMMA HasRowHolds ==
  ASSUME NEW pair, Holds(pair), NEW h \in Handlers, HasRow(h) \/ HasBlack(h),
         UNCHANGED <<setting, new, Moments>>, NoteBarred
  PROVE  Holds(pair)'
<1>1. /\ At(h, "has") \/ At(h, "hasBlack")
      /\ Skip(h) \/ Proceed(h)
      /\ UNCHANGED <<Relations, Chats, Helpers>>
  BY DEF HasRow, HasBlack
<1>2. /\ hand[h] # Idle /\ Hands /\ Busy(h) /\ Now(h).do \in {"has", "hasBlack"} /\ ~At(h, "find")
  BY <1>1, Here
<1>3. Calm /\ agreed' = agreed /\ agreed' \subseteq Pairs
  BY <1>1 DEF Calm, Relations, Holds, People
<1>4. Moved(h, hand[h].mem) /\ Kept(h) /\ (hand'[h] # Idle => Now(h)'.do \in Plain)
  <2>1. CASE Skip(h)
    BY <1>2, <1>3, <2>1, Skips, LoosePlain
  <2>2. CASE Proceed(h)
    <3>1. Left(h, Rest(h), hand[h].mem)
      BY <2>2 DEF Proceed
    <3>2. /\ Moved(h, hand[h].mem) /\ Kept(h)
          /\ hand'[h] # Idle => Now(h)'.do \in Dos /\ Follows(Now(h), Now(h)')
      BY <1>2, <1>3, <3>1, Proceeds
    <3> QED BY <1>2, <3>2, FollowsPlain
  <2> QED BY <1>1, <2>1, <2>2
<1>5. Now(h).do \notin Checks
  BY <1>2 DEF Checks
<1> QED BY <1>2, <1>3, <1>4, <1>5, CheckStep

LEMMA HasHelpHolds ==
  ASSUME NEW pair, Holds(pair), NEW h \in Handlers, HasHelp(h) \/ HasKefu(h),
         UNCHANGED <<setting, new, Moments>>, NoteBarred
  PROVE  Holds(pair)'
<1>1. /\ At(h, "helped") \/ At(h, "served")
      /\ \/ GiveUp(h)
         \/ /\ Proceed(h)
            /\ At(h, "helped") => Common(Now(h).a, Assistant) = {}
            /\ At(h, "served") => ~Served(Now(h).a)
      /\ UNCHANGED <<Relations, Chats, Helpers>>
  BY Here DEF HasHelp, HasKefu
<1>2. /\ hand[h] # Idle /\ Hands /\ Busy(h) /\ Now(h).do \in {"helped", "served"} /\ ~At(h, "find")
      /\ \A x : At(h, x) <=> x = Now(h).do
  BY <1>1, Here
<1>3. Calm /\ agreed' = agreed /\ agreed' \subseteq Pairs /\ convs' = convs /\ friend' = friend
  BY <1>1 DEF Calm, Relations, Chats, Holds, People
<1>4. CASE GiveUp(h)
  <2>1. /\ Moved(h, hand[h].mem) /\ Kept(h)
        /\ hand'[h] # Idle => Now(h)'.do \in Plain
        /\ hand'[h] # Idle => FailedCheck(h)
    BY <1>2, <1>3, <1>4, GivesUp, LoosePlain
  <2> QED BY <1>2, <1>3, <2>1, CheckStep
<1>5. CASE /\ Proceed(h)
           /\ At(h, "helped") => Common(Now(h).a, Assistant) = {}
           /\ At(h, "served") => ~Served(Now(h).a)
  <2>1. Left(h, Rest(h), hand[h].mem)
    BY <1>5 DEF Proceed
  <2>2. /\ Moved(h, hand[h].mem) /\ Kept(h)
        /\ hand'[h] # Idle => Now(h)'.do \in Dos /\ Follows(Now(h), Now(h)')
    BY <1>2, <1>3, <2>1, Proceeds
  <2>3. hand'[h] # Idle => Now(h)'.do \in Plain
    BY <1>2, <2>2, FollowsPlain
  <2>4. \A s : s = Now(h) => ~Fails(h, s)'
    BY <1>2, <1>3, <1>5 DEF Fails, Common, Served
  <2> QED BY <1>2, <1>3, <2>2, <2>3, <2>4, CheckStep
<1> QED BY <1>1, <1>4, <1>5

\* The conversation that was found is for these two, or somebody was invited.
LEMMA FoundPair ==
  ASSUME NEW pair, Talk(pair), NEW a, NEW b, a # b, NEW c \in Common(a, b)
  PROVE  c \in DOMAIN convs /\ (c \in invited \/ pair[c] = {a, b})
<1>0. c \in DOMAIN convs
  BY DEF Common
<1> SUFFICES ASSUME c \notin invited PROVE pair[c] = {a, b}
  BY <1>0
<1>1. c \in DOMAIN convs /\ {a, b} \subseteq pair[c] /\ pair[c] \in Pairs
  BY DEF Common, Talk
<1>2. PICK x \in Everyone, y \in Everyone : pair[c] = {x, y}
  BY <1>1 DEF Pairs
<1>3. {a, b} = {x, y}
  BY <1>1, <1>2
<1> QED BY <1>1, <1>2, <1>3

LEMMA FindConvHolds ==
  ASSUME NEW pair, Holds(pair), NEW h \in Handlers, FindConv(h),
         UNCHANGED <<setting, new, Moments>>, NoteBarred
  PROVE  Holds(pair)'
<1> DEFINE l == hand[h].todo
           a == Now(h).a
           b == Now(h).b
<1>1. /\ At(h, "conv")
      /\ \/ a = b /\ Done(h)
         \/ a # b /\ Common(a, b) = {} /\ Proceed(h)
         \/ a # b /\ \E c \in Common(a, b) : Left(h, SubSeq(l, 5, Len(l)), c)
      /\ UNCHANGED <<Relations, Chats, Helpers>>
  BY DEF FindConv, Found
<1>2. /\ hand[h] # Idle /\ Hands /\ Busy(h) /\ Now(h).do = "conv" /\ ~At(h, "find")
  BY <1>1, Here
<1>3. Calm /\ agreed' = agreed /\ agreed' \subseteq Pairs /\ convs' = convs
  BY <1>1 DEF Calm, Relations, Chats, Holds, People
<1>4. CASE Done(h)
  <2>1. Moved(h, hand[h].mem) /\ Kept(h) /\ hand'[h] = Idle
    BY <1>2, <1>4, Ending
  <2> QED BY <1>2, <1>3, <2>1, CheckStep
<1>5. CASE Common(a, b) = {} /\ Proceed(h)
  <2>1. Left(h, Rest(h), hand[h].mem)
    BY <1>5 DEF Proceed
  <2>2. /\ Moved(h, hand[h].mem) /\ Kept(h)
        /\ hand'[h] # Idle => Now(h)'.do \in Dos /\ Follows(Now(h), Now(h)')
    BY <1>2, <1>3, <2>1, Proceeds
  <2>3. hand'[h] # Idle => Now(h)'.do \in Plain
    BY <1>2, <2>2, FollowsPlain
  <2>4. \A s : s = Now(h) => ~Fails(h, s)'
    BY <1>2, <1>3, <1>5 DEF Fails, Common
  <2> QED BY <1>2, <1>3, <2>2, <2>3, <2>4, CheckStep
<1>6. CASE a # b /\ \E c \in Common(a, b) : Left(h, SubSeq(l, 5, Len(l)), c)
  <2>1. PICK c \in Common(a, b) : Left(h, SubSeq(l, 5, Len(l)), c)
    BY <1>6
  <2>2. c \in DOMAIN convs /\ (c \in invited \/ pair[c] = {a, b})
    BY <1>6, FoundPair DEF Holds
  <2>3. 5 \in Nat /\ 5 > 2 /\ 5 - 1 = 4
    OBVIOUS
  <2>4. /\ Moved(h, c) /\ Kept(h)
        /\ hand'[h] # Idle => /\ FailedCheck(h) /\ 5 <= Len(l) /\ Now(h)'.do \in Dos
                              /\ Follows(l[5 - 1], Now(h)')
    BY <1>2, <1>3, <2>1, <2>3, Drops
  <2>5. ASSUME hand'[h] # Idle
        PROVE  Knows(pair, h)' /\ Now(h)'.do \notin {"posts", "answer"}
    <3> DEFINE t == Now(h)'
    <3>0. Now(h) = l[1] /\ Len(l) \in Nat /\ \A n \in 2..Len(l) : Follows(l[n - 1], l[n])
      BY <1>2, HeadTail DEF Busy, Now, Todo
    <3>1. Follows(l[1], l[2]) /\ Follows(l[2], l[3]) /\ Follows(l[3], l[4])
      <4>1. 2 \in 2..Len(l) /\ 3 \in 2..Len(l) /\ 4 \in 2..Len(l) /\ 2 - 1 = 1 /\ 3 - 1 = 2 /\ 4 - 1 = 3
        BY <2>4, <2>5, <3>0
      <4>2. Follows(l[2 - 1], l[2]) /\ Follows(l[3 - 1], l[3]) /\ Follows(l[4 - 1], l[4])
        BY <3>0, <4>1
      <4> QED BY <4>1, <4>2
    <3>2. l[2].do = "newConv" /\ {l[2].a, l[2].b} = {a, b}
      BY <1>2, <3>0, <3>1 DEF Follows, Talks
    <3>3. l[3].do = "creator" /\ {l[3].a, l[3].b} = {a, b}
      BY <3>1, <3>2 DEF Follows, Talks
    <3>4. l[4].do = "other" /\ {l[4].a, l[4].b} = {a, b}
      BY <3>1, <3>3 DEF Follows, Talks
    <3>5. Follows(l[4], t)
      BY <2>4, <2>5
    <3>6. t.do \notin Informed \/ (t.do = "text" /\ {t.a, t.b} = {a, b})
      BY <3>4, <3>5 DEF Follows, Talks, Informed, First
    <3>7. hand'[h].mem = c
      BY <2>4, <2>5 DEF Moved
    <3>8. t = Head(hand'[h].todo)
      BY DEF Now
    <3> HIDE DEF t
    <3>9. convs' = convs /\ invited' = invited /\ Now(h)' = t
      BY <1>3 DEF t, Calm, Chats
    <3> QED BY <2>2, <3>6, <3>7, <3>8, <3>9 DEF Knows, At, Informed
  <2> QED BY <1>2, <1>3, <2>4, <2>5, KnowingCheck
<1> QED BY <1>1, <1>4, <1>5, <1>6

LEMMA PieceLoose ==
  ASSUME NEW A, NEW r, NEW p, Piece(A, r, p), p # <<>>
  PROVE  Todo(A, r, p) /\ p[1].do \in Loose
<1>1. Todo(A, r, p) /\ p[1].do \notin Talks \cup Later \cup First
  BY DEF Piece
<1>2. p[1] \in Sts
  BY <1>1, HeadTail
<1> QED BY <1>1, <1>2 DEF Loose, Sts

LEMMA ExpandStep ==
  ASSUME NEW pair, Holds(pair), NEW h \in Handlers, Now(h).do \in {"assign", "each", "invite"},
         At(h, Now(h).do), Calm, NoteBarred, agreed \subseteq agreed', agreed' \subseteq Pairs,
         NEW p, NEW m, Expand(h, p, m), p = <<>> \/ Todo(agreed', Req(h), p),
         p # <<>> => p[1].do \in Loose \/ (p[1].do = "index" /\ m \in Nat)
  PROVE  Holds(pair)'
<1>1. /\ hand[h] # Idle /\ Hands /\ Busy(h) /\ ~At(h, "find")
      /\ Now(h).do \in {"find", "assign", "each", "invite"} /\ Now(h).do \notin Checks
  BY Here DEF Checks
<1>2. p = <<>> \/ Todo(agreed', hand[h].req, p)
  BY DEF Req
<1>3. /\ Moved(h, m) /\ Kept(h)
      /\ hand'[h] # Idle => /\ Now(h)'.do \in Loose \/ (p # <<>> /\ Now(h)' = p[1])
  BY <1>1, <1>2, Expands
<1>4. ASSUME hand'[h] # Idle
      PROVE  Knows(pair, h)' /\ Now(h)'.do \notin {"posts", "answer"}
  <2>1. CASE Now(h)'.do \in Loose
    <3>1. Now(h)'.do \in Plain
      BY <2>1, LoosePlain
    <3> QED BY <3>1, PlainKnows
  <2>2. CASE Now(h)'.do = "index" /\ m \in Nat
    <3>1. hand'[h].mem = m
      BY <1>3, <1>4 DEF Moved
    <3>2. Now(h)' = Head(hand'[h].todo)
      BY DEF Now
    <3> QED BY <2>2, <3>1, <3>2 DEF Knows, At
  <2> QED BY <1>3, <1>4, <2>1, <2>2
<1> QED BY <1>1, <1>3, <1>4, KnowingCheck

LEMMA BindNextHolds ==
  ASSUME NEW pair, Holds(pair), NEW h \in Handlers, BindNext(h),
         UNCHANGED <<setting, new, Moments>>, NoteBarred
  PROVE  Holds(pair)'
<1> DEFINE u == Now(h).a
           ks == Now(h).b
           k == Head(ks)
           part == Now(h).part
           x == IF part = "kefu" THEN Assigned(u, k) ELSE Bound(u, k, "friend")
           y == Each(u, Tail(ks), part)
<1>1. /\ At(h, "each") /\ Expand(h, x \o y, hand[h].mem)
      /\ UNCHANGED <<Relations, Chats, Helpers>>
  BY DEF BindNext
<1>2. /\ Now(h).do = "each" /\ At(h, Now(h).do) /\ Now(h) \in Sts /\ Fits(agreed, Req(h), Now(h))
  BY <1>1, Here
<1>3. Calm /\ agreed' = agreed /\ agreed' \subseteq Pairs
  BY <1>1 DEF Calm, Relations, Holds, People
<1>4. /\ u \in Users /\ ks \in Seq(Users) /\ ks # <<>> /\ \A i \in DOMAIN ks : {u, ks[i]} \in agreed
      /\ part \in Parts
  BY <1>2 DEF Fits, Sts
<1>5. /\ k \in Users /\ {u, k} \in agreed /\ Tail(ks) \in Seq(Users)
      /\ \A i \in DOMAIN Tail(ks) : {u, Tail(ks)[i]} \in agreed
  <2> HIDE DEF ks, u
  <2>1. k = ks[1] /\ 1 \in DOMAIN ks
    BY <1>4
  <2>2. Tail(ks) \in Seq(Users) /\ \A i \in DOMAIN Tail(ks) : i + 1 \in DOMAIN ks /\ Tail(ks)[i] = ks[i + 1]
    BY <1>4
  <2> HIDE DEF k
  <2>3. k \in Users /\ {u, k} \in agreed
    BY <1>4, <2>1
  <2> QED BY <1>4, <2>2, <2>3
<1>6. Piece(agreed, Req(h), x)
  <2>1. Piece(agreed, Req(h), Assigned(u, k))
    BY <1>4, <1>5, AssignedPiece
  <2>2. "friend" \in Parts
    BY DEF Parts
  <2>3. Piece(agreed, Req(h), Bound(u, k, "friend"))
    BY <1>4, <1>5, <2>2, BoundPiece
  <2> QED BY <2>1, <2>3
<1>7. Piece(agreed, Req(h), y)
  BY <1>4, <1>5, EachPiece
<1> HIDE DEF x, y
<1>8. Piece(agreed', Req(h), x \o y)
  BY <1>3, <1>6, <1>7, PieceConcat
<1> DEFINE p == x \o y
<1>9. Expand(h, p, hand[h].mem) /\ Piece(agreed', Req(h), p)
  BY <1>1, <1>8 DEF x, y
<1> HIDE DEF p
<1>10. p # <<>> => Todo(agreed', Req(h), p) /\ p[1].do \in Loose
  BY <1>9, PieceLoose
<1>11. agreed \subseteq agreed' /\ Now(h).do \in {"assign", "each", "invite"}
  BY <1>2, <1>3
<1> QED BY <1>2, <1>3, <1>9, <1>10, <1>11, ExpandStep

LEMMA NewPairs ==
  ASSUME NEW u \in Users, NEW ks \in Seq(Users)
  PROVE  {{u, ks[i]} : i \in DOMAIN ks} \subseteq Pairs
<1>1. \A i \in DOMAIN ks : ks[i] \in Users
  OBVIOUS
<1>2. \A k \in Users : {u, k} \in Pairs
  BY DEF Pairs, Everyone
<1> QED BY <1>1, <1>2

LEMMA AssignHolds ==
  ASSUME NEW pair, Holds(pair), NEW h \in Handlers, Assign(h),
         UNCHANGED <<setting, new, Moments>>, NoteBarred
  PROVE  Holds(pair)'
<1> DEFINE u == Now(h).a
           next == Kefu[(index % Len(Kefu)) + 1]
           ks == IF setting.kefu = "all" THEN Kefu ELSE <<next>>
           s == St("index", u, u, "kefu")
           x == If(setting.kefu = "round", <<s>>)
           y == Each(u, ks, "kefu")
           p == x \o y
           B == {{u, ks[i]} : i \in DOMAIN ks}
<1>1. /\ At(h, "assign")
      /\ \/ Kefu = <<>> /\ Proceed(h) /\ UNCHANGED agreed
         \/ Kefu # <<>> /\ Expand(h, p, index) /\ agreed' = agreed \cup B
      /\ UNCHANGED <<friend, filed, black, Chats, Helpers>>
  BY DEF Assign
<1>2. /\ Now(h).do = "assign" /\ At(h, Now(h).do) /\ Fits(agreed, Req(h), Now(h))
      /\ hand[h] # Idle /\ Hands /\ Busy(h) /\ ~At(h, "find")
  BY <1>1, Here
<1>3. Calm
  BY <1>1 DEF Calm
<1>4. u \in Users /\ index \in Nat /\ agreed \subseteq Pairs
  BY <1>2 DEF Fits, Holds, People
<1>5. CASE Kefu = <<>> /\ Proceed(h) /\ UNCHANGED agreed
  <2>1. Left(h, Rest(h), hand[h].mem)
    BY <1>5 DEF Proceed
  <2>2. /\ Moved(h, hand[h].mem) /\ Kept(h)
        /\ hand'[h] # Idle => Now(h)'.do \in Dos /\ Follows(Now(h), Now(h)')
    BY <1>2, <1>5, <2>1, Proceeds
  <2>3. hand'[h] # Idle => Now(h)'.do \in Plain
    BY <1>2, <2>2, FollowsPlain
  <2>4. Now(h).do \notin Checks
    BY <1>2 DEF Checks
  <2> QED BY <1>2, <1>3, <1>4, <1>5, <2>2, <2>3, <2>4, CheckStep
<1>6. CASE Kefu # <<>> /\ Expand(h, p, index) /\ agreed' = agreed \cup B
  <2>1. ks \in Seq(Users)
    <3>1. Kefu \in Seq(Users) /\ Len(Kefu) \in Nat /\ Len(Kefu) > 0
      BY <1>6, FriendsAssumption
    <3>2. (index % Len(Kefu)) + 1 \in 1..Len(Kefu)
      BY <1>4, <3>1
    <3>3. next \in Users
      BY <3>1, <3>2
    <3> HIDE DEF next
    <3>4. <<next>> \in Seq(Users)
      BY <3>3
    <3> QED BY <3>1, <3>4
  <2> HIDE DEF ks, u
  <2>2. B \subseteq Pairs
    BY <1>4, <2>1, NewPairs
  <2>3. agreed \subseteq agreed' /\ agreed' \subseteq Pairs /\ \A i \in DOMAIN ks : {u, ks[i]} \in agreed'
    BY <1>4, <1>6, <2>2
  <2>4. Piece(agreed', Req(h), y)
    <3>1. "kefu" \in Parts
      BY DEF Parts
    <3> QED BY <1>4, <2>1, <2>3, <3>1, EachPiece
  <2>5. s \in Sts /\ s.do = "index"
    BY <1>4 DEF St, Sts, Dos, Parts, Everyone
  <2>6. Fits(agreed', Req(h), s) /\ s.do \notin Makes
    BY <2>5 DEF Fits, Talks, Makes
  <2> HIDE DEF s, y
  <2>7. Todo(agreed', Req(h), <<s>>) /\ <<s>>[1] = s
    BY <2>5, <2>6, List1
  <2>8. p = <<>> \/ Todo(agreed', Req(h), p)
    <3>1. CASE setting.kefu = "round"
      <4>1. x = <<s>>
        BY <3>1 DEF If
      <4> HIDE DEF x
      <4> QED BY <2>4, <2>7, <4>1, Concat
    <3>2. CASE setting.kefu # "round"
      <4>1. x = <<>>
        BY <3>2 DEF If
      <4>2. Piece(agreed', Req(h), x)
        BY <4>1 DEF Piece
      <4> HIDE DEF x
      <4>3. Piece(agreed', Req(h), x \o y)
        BY <2>4, <4>2, PieceConcat
      <4> QED BY <4>3 DEF Piece
    <3> QED BY <3>1, <3>2
  <2>9. p # <<>> => p[1].do \in Loose \/ (p[1].do = "index" /\ index \in Nat)
    <3>1. CASE setting.kefu = "round"
      <4>1. x = <<s>>
        BY <3>1 DEF If
      <4> HIDE DEF x
      <4>2. p[1] = s
        BY <2>4, <2>7, <4>1, Concat
      <4> QED BY <1>4, <2>5, <4>2
    <3>2. CASE setting.kefu # "round"
      <4>1. x = <<>>
        BY <3>2 DEF If
      <4>2. Piece(agreed', Req(h), x)
        BY <4>1 DEF Piece
      <4> HIDE DEF x
      <4>3. Piece(agreed', Req(h), x \o y)
        BY <2>4, <4>2, PieceConcat
      <4> QED BY <4>3, PieceLoose
    <3> QED BY <3>1, <3>2
  <2> HIDE DEF p, B
  <2>10. Now(h).do \in {"assign", "each", "invite"} /\ Expand(h, p, index)
    BY <1>2, <1>6
  <2> QED BY <1>2, <1>3, <2>3, <2>8, <2>9, <2>10, ExpandStep
<1> QED BY <1>1, <1>5, <1>6

LEMMA InviteHolds ==
  ASSUME NEW pair, Holds(pair), NEW h \in Handlers, Invite(h),
         UNCHANGED <<setting, new, Moments>>, NoteBarred
  PROVE  Holds(pair)'
<1> DEFINE u == Now(h).a
           c == codes[Req(h).code]
           ks == c.friends
           s == St("used", u, u, "")
           y == Each(u, ks, "invite")
           p == y \o <<s>>
           B == {{u, ks[i]} : i \in DOMAIN ks}
<1>1. /\ At(h, "invite")
      /\ \/ ~c.enabled /\ Proceed(h) /\ UNCHANGED agreed
         \/ c.enabled /\ Expand(h, p, c.used) /\ agreed' = agreed \cup B
      /\ UNCHANGED <<friend, filed, black, Chats, Helpers>>
  BY DEF Invite
<1>2. /\ Now(h).do = "invite" /\ At(h, Now(h).do) /\ Fits(agreed, Req(h), Now(h))
      /\ hand[h] # Idle /\ Hands /\ Busy(h) /\ ~At(h, "find")
  <2>1. At(h, "invite")
    BY <1>1
  <2> QED BY <2>1, Here
<1>3. Calm
  BY <1>1 DEF Calm
<1>4. u \in Users /\ Req(h).code \in Codes /\ agreed \subseteq Pairs /\ CodeBook
  BY <1>2 DEF Fits, Holds, People
<1>5. ks \in Seq(Users)
  BY <1>4 DEF CodeBook, CodeRow
<1>6. CASE ~c.enabled /\ Proceed(h) /\ UNCHANGED agreed
  <2>1. Left(h, Rest(h), hand[h].mem)
    BY <1>6 DEF Proceed
  <2>2. /\ Moved(h, hand[h].mem) /\ Kept(h)
        /\ hand'[h] # Idle => Now(h)'.do \in Dos /\ Follows(Now(h), Now(h)')
    BY <1>2, <1>6, <2>1, Proceeds
  <2>3. hand'[h] # Idle => Now(h)'.do \in Plain
    BY <1>2, <2>2, FollowsPlain
  <2>4. Now(h).do \notin Checks
    BY <1>2 DEF Checks
  <2> QED BY <1>2, <1>3, <1>4, <1>6, <2>2, <2>3, <2>4, CheckStep
<1>7. CASE c.enabled /\ Expand(h, p, c.used) /\ agreed' = agreed \cup B
  <2> HIDE DEF ks, u
  <2>2. B \subseteq Pairs
    BY <1>4, <1>5, NewPairs
  <2>3. agreed \subseteq agreed' /\ agreed' \subseteq Pairs /\ \A i \in DOMAIN ks : {u, ks[i]} \in agreed'
    BY <1>4, <1>7, <2>2
  <2>4. Piece(agreed', Req(h), y)
    <3>1. "invite" \in Parts
      BY DEF Parts
    <3> QED BY <1>4, <1>5, <2>3, <3>1, EachPiece
  <2>5. s \in Sts /\ s.do = "used"
    BY <1>4 DEF St, Sts, Dos, Parts, Everyone
  <2>6. Fits(agreed', Req(h), s) /\ s.do \notin Makes \cup Talks \cup Later \cup First
    BY <2>5 DEF Fits, Talks, Makes, Later, First
  <2> HIDE DEF s, y
  <2>7. Piece(agreed', Req(h), <<s>>)
    BY <2>5, <2>6, OnePiece
  <2>8. Piece(agreed', Req(h), p)
    BY <2>4, <2>7, PieceConcat
  <2> HIDE DEF p, B
  <2>9. p # <<>> => Todo(agreed', Req(h), p) /\ p[1].do \in Loose
    BY <2>8, PieceLoose
  <2>10. Now(h).do \in {"assign", "each", "invite"} /\ Expand(h, p, c.used)
    BY <1>2, <1>7
  <2> QED BY <1>2, <1>3, <2>3, <2>9, <2>10, ExpandStep
<1> QED BY <1>1, <1>6, <1>7

LEMMA OneOf ==
  ASSUME NEW x
  PROVE  ToSet(<<x>>) = {x}
<1> DEFINE l == <<x>>
<1>1. DOMAIN l = {1} /\ l[1] = x
  OBVIOUS
<1> HIDE DEF l
<1>2. ToSet(l) = {x}
  BY <1>1 DEF ToSet
<1> QED BY <1>2 DEF l

LEMMA InConcat ==
  ASSUME NEW S, NEW a \in Seq(S), NEW b \in Seq(S)
  PROVE  ToSet(a) \subseteq ToSet(a \o b) /\ ToSet(b) \subseteq ToSet(a \o b)
<1> DEFINE c == a \o b
<1>1. /\ Len(a) \in Nat /\ Len(b) \in Nat /\ Len(c) = Len(a) + Len(b)
      /\ DOMAIN a = 1..Len(a) /\ DOMAIN b = 1..Len(b) /\ DOMAIN c = 1..Len(c)
      /\ \A i \in 1..Len(a) : c[i] = a[i]
      /\ \A i \in 1..Len(b) : c[Len(a) + i] = b[i]
  OBVIOUS
<1> HIDE DEF c
<1>2. (\A i \in 1..Len(a) : i \in 1..Len(c)) /\ (\A i \in 1..Len(b) : Len(a) + i \in 1..Len(c))
  BY <1>1
<1>3. ToSet(a) \subseteq ToSet(c)
  BY <1>1, <1>2 DEF ToSet
<1>4. ToSet(b) \subseteq ToSet(c)
  BY <1>1, <1>2 DEF ToSet
<1> QED BY <1>3, <1>4 DEF c

\* The statements of a friend request that was found, which look for the direct
\* conversation of the two if it is agreed to.
LEMMA FoundList ==
  ASSUME NEW A, NEW r, NEW on, NEW a \in Users, NEW b \in Users, on => {a, b} \in A
  PROVE  LET p == If(on, Relate(a, b, "") \o Told(b, a, b, a, "")) \o <<St("status", b, a, "")>> IN
         /\ Piece(A, r, p)
         /\ on => ToSet(Direct(b, a, "")) \subseteq ToSet(p)
<1> DEFINE s == St("status", b, a, "")
           x == Relate(a, b, "")
           y == Direct(b, a, "")
           z == Told(b, a, b, a, "")
           e == St("text", b, a, "")
           t == <<e>>
           k == <<s>>
           w == If(on, x \o z)
           p == w \o k
<1>1. s \in Sts /\ s.do = "status"
  BY DEF St, Sts, Dos, Parts, Everyone
<1>2. Fits(A, r, s) /\ s.do \notin Makes \cup Talks \cup Later \cup First
  BY <1>1 DEF Fits, Talks, Makes, Later, First
<1>3. a \in Everyone /\ b \in Everyone /\ "" \in Parts /\ {b, a} = {b, a}
  BY DEF Everyone, Parts
<1>4. Piece(A, r, z)
  BY <1>3, ToldList
<1>5. on => Piece(A, r, x)
  <2>1. ASSUME on
        PROVE  Todo(A, r, x) /\ x[1] = St("has", a, b, "")
    BY <1>3, <2>1, RelateList
  <2>2. St("has", a, b, "").do \notin Talks \cup Later \cup First
    BY DEF St, Talks, Later, First
  <2> QED BY <2>1, <2>2 DEF Piece
<1>6. z = y \o t /\ y \in Seq(Sts) /\ t \in Seq(Sts)
  <2>1. e \in Sts
    BY <1>3 DEF St, Sts, Dos
  <2>2. Todo(A, r, y)
    BY <1>3, DirectList
  <2>3. y \in Seq(Sts)
    BY <2>2 DEF Todo
  <2>4. t \in Seq(Sts)
    <3> HIDE DEF e
    <3> QED BY <2>1
  <2> QED BY <2>3, <2>4 DEF Told
<1> HIDE DEF s, x, y, z, t
<1>7. Piece(A, r, k)
  BY <1>1, <1>2, OnePiece
<1>8. on => Piece(A, r, x \o z)
  BY <1>4, <1>5, PieceConcat
<1>9. Piece(A, r, w)
  BY <1>8, IfPiece
<1>10. k \in Seq(Sts)
  BY <1>1
<1> HIDE DEF k
<1>11. Piece(A, r, p)
  <2> HIDE DEF w
  <2> QED BY <1>7, <1>9, PieceConcat
<1>12. ASSUME on
       PROVE  ToSet(y) \subseteq ToSet(p)
  <2>1. \A q : Piece(A, r, q) => q \in Seq(Sts)
    <3>1. <<>> \in Seq(Sts)
      OBVIOUS
    <3> QED BY <3>1 DEF Piece, Todo
  <2>2. w = x \o z
    BY <1>12 DEF If
  <2>3. x \in Seq(Sts) /\ z \in Seq(Sts) /\ w \in Seq(Sts)
    BY <1>4, <1>5, <1>9, <1>12, <2>1
  <2>4. ToSet(y) \subseteq ToSet(z)
    BY <1>6, InConcat
  <2>5. ToSet(z) \subseteq ToSet(w)
    BY <2>2, <2>3, InConcat
  <2> HIDE DEF w
  <2>6. ToSet(w) \subseteq ToSet(p)
    BY <1>10, <2>3, InConcat
  <2> QED BY <2>4, <2>5, <2>6
<1> QED BY <1>11, <1>12 DEF p, w, x, y, z, k, s

LEMMA FindHolds ==
  ASSUME NEW pair, Holds(pair), NEW h \in Handlers, Find(h),
         UNCHANGED <<setting, new, Moments>>, NoteBarred
  PROVE  Holds(pair)'
<1> DEFINE r == Req(h)
           q == filed[r.id]
           a == q.from
           b == q.to
           p == If(r.on, Relate(a, b, "") \o Told(b, a, b, a, "")) \o <<St("status", b, a, "")>>
<1>1. /\ At(h, "find")
      /\ \/ /\ r.id \in DOMAIN filed /\ r.by = b
            /\ Expand(h, p, 0)
            /\ agreed' = IF r.on /\ r.by = b THEN agreed \cup {{a, b}} ELSE agreed
         \/ Done(h) /\ UNCHANGED agreed
      /\ UNCHANGED <<friend, filed, black, Chats, Helpers>>
  BY DEF Find, Mine
<1>2. /\ Now(h).do = "find" /\ Fits(agreed, r, Now(h)) /\ Req(h) \in Request
      /\ hand[h] # Idle /\ Hands /\ Busy(h)
  BY <1>1, Here
<1>3. Calm /\ filed' = filed /\ setting' = setting
  BY <1>1 DEF Calm
<1>4. agreed \subseteq Pairs /\ filed \in Seq(Row) /\ r.op = "handle"
  BY <1>2 DEF Fits, Holds, People
<1>5. CASE Done(h) /\ UNCHANGED agreed
  <2>1. Moved(h, 0) /\ Kept(h) /\ hand'[h] = Idle
    BY <1>2, <1>5, Ending
  <2>2. People' /\ CodeBook' /\ Walls' /\ Talk(pair)' /\ Grows(pair, pair)
    BY <1>3, <1>4, <1>5, CalmStore
  <2>3. Hands' /\ \A g \in Handlers : Handler(pair, g)'
    BY <1>2, <2>1, <2>2, StepOn
  <2> QED BY <2>2, <2>3 DEF Holds
<1>6. CASE /\ r.id \in DOMAIN filed /\ r.by = b
           /\ Expand(h, p, 0)
           /\ agreed' = IF r.on /\ r.by = b THEN agreed \cup {{a, b}} ELSE agreed
  <2>1. a \in Users /\ b \in Users
    <3>1. \A i \in DOMAIN filed : filed[i] \in Row
      BY <1>4
    <3> QED BY <1>6, <3>1 DEF Row
  <2>2. agreed \subseteq agreed' /\ agreed' \subseteq Pairs /\ (r.on => {a, b} \in agreed')
    <3>1. {a, b} \in Pairs
      BY <2>1 DEF Pairs, Everyone
    <3> HIDE DEF a, b
    <3> QED BY <1>4, <1>6, <3>1
  <2>3. Piece(agreed', r, p) /\ (r.on => ToSet(Direct(b, a, "")) \subseteq ToSet(p))
    <3> HIDE DEF r, a, b
    <3> QED BY <2>1, <2>2, FoundList
  <2>4. Now(h).do \in {"find", "assign", "each", "invite"}
    BY <1>2
  <2>5. Expand(h, p, 0)
    BY <1>6
  <2> HIDE DEF p
  <2>6. p = <<>> \/ Todo(agreed', hand[h].req, p)
    BY <2>3 DEF Piece, Req
  <2>7. /\ Moved(h, 0) /\ Kept(h)
        /\ hand'[h] # Idle => /\ Now(h)'.do \in Loose \/ (p # <<>> /\ Now(h)' = p[1])
                              /\ p # <<>> => ToSet(p) \subseteq ToSet(hand'[h].todo)
    BY <1>2, <2>2, <2>4, <2>5, <2>6, Expands
  <2>8. hand'[h] # Idle => Now(h)'.do \in Plain
    BY <2>3, <2>7, PieceLoose, LoosePlain
  <2>9. People' /\ CodeBook' /\ Walls' /\ Talk(pair)' /\ Grows(pair, pair)
    BY <1>3, <2>2, CalmStore
  <2>10. ASSUME hand'[h] # Idle
         PROVE  Knows(pair, h)' /\ Faces(h)'
    <3>1. Now(h)'.do \in Plain
      BY <2>8, <2>10
    <3>2. Knows(pair, h)' /\ Now(h)'.do \notin {"posts", "answer"}
      BY <3>1, PlainKnows
    <3>3. ~At(h, "posts")' /\ ~At(h, "answer")'
      BY <3>2 DEF At, Now
    <3>4. barred'[h] \subseteq Unmet(h)'
      BY <2>10, Noted
    <3>5. Req(h)' = r
      BY <2>7, <2>10 DEF Moved, Req
    <3> DEFINE g == St("find", r.by, r.by, "")
               f == <<g>>
    <3>6. ASSUME NEW s \in barred'[h], s.do \notin {"show", "near"}
          PROVE  s \in ToSet(hand'[h].todo)
      <4>1. s \in Checked(Req(h))' /\ Fails(h, s)'
        BY <3>4, <3>6 DEF Unmet
      <4>2. Checked(Req(h))' = ToSet(f) \cup (IF r.on THEN ToSet(Direct(b, a, "")) ELSE {})
        <5>1. Statements(Req(h))' = f
          BY <1>3, <1>4, <3>5 DEF Statements, FriendStatements, MomentOps
        <5> HIDE DEF f
        <5> QED BY <1>3, <1>4, <1>6, <3>5, <5>1 DEF Checked
      <4>3. s \notin ToSet(f)
        <5>1. ToSet(f) = {g}
          BY OneOf
        <5>2. r.id \in DOMAIN filed' /\ filed'[r.id].to = r.by
          BY <1>3, <1>6
        <5>3. s.do # "find"
          <6> HIDE DEF r
          <6> QED BY <3>5, <4>1, <5>2 DEF Fails
        <5>4. g.do = "find"
          BY DEF St
        <5> HIDE DEF f, g
        <5> QED BY <5>1, <5>3, <5>4
      <4>4. r.on /\ s \in ToSet(Direct(b, a, ""))
        BY <4>1, <4>2, <4>3
      <4>5. p # <<>>
        <5>1. s \in ToSet(p)
          BY <2>3, <4>4
        <5> QED BY <5>1 DEF ToSet
      <4> QED BY <2>3, <2>7, <2>10, <4>4, <4>5
    <3>7. Faces(h)'
      BY <3>3, <3>4, <3>6 DEF Faces
    <3> QED BY <3>2, <3>7
  <2>11. Hands' /\ \A g \in Handlers : Handler(pair, g)'
    BY <1>2, <2>7, <2>9, <2>10, StepOn
  <2> QED BY <2>9, <2>11 DEF Holds
<1> QED BY <1>1, <1>5, <1>6

LEMMA WriteStep ==
  ASSUME NEW pair, NEW q, Holds(pair), NEW h \in Handlers, hand[h] # Idle, Now(h).do \notin Checks,
         NEW m, Moved(h, m), Kept(h), NoteBarred, Grows(q, pair),
         hand'[h] # Idle => Knows(q, h)' /\ Now(h)'.do \notin {"posts", "answer"},
         People', CodeBook', Walls', Talk(q)'
  PROVE  Holds(q)'
<1>1. ~At(h, "find")
  BY DEF At, Now, Checks
<1>2. Hands' /\ \A g \in Handlers : Handler(q, g)'
  BY <1>1, GoodStep
<1> QED BY <1>2 DEF Holds

\* A statement that writes and has no say in what stands behind it.
Bare == {"file", "status", "row", "unrow", "rowBlack", "unBlack", "joins", "text", "index", "used",
         "codeAdd", "codeSet", "codeDel", "publish", "hide", "dropPost", "like", "comment",
         "uncomment", "dropAll"}

LEMMA BareGoes ==
  ASSUME NEW pair, Holds(pair), NEW h \in Handlers, At(h, Now(h).do), Now(h).do \in Bare,
         agreed' = agreed, Proceed(h) \/ GiveUp(h)
  PROVE  /\ hand[h] # Idle /\ Now(h).do \notin Checks /\ Moved(h, hand[h].mem) /\ Kept(h)
         /\ hand'[h] # Idle => Now(h)'.do \in Plain
<1>1. hand[h] # Idle /\ Hands /\ Busy(h) /\ Now(h).do \notin Checks
  BY Here DEF Bare, Checks
<1>2. CASE Proceed(h)
  <2>1. Left(h, Rest(h), hand[h].mem)
    BY <1>2 DEF Proceed
  <2>2. /\ Moved(h, hand[h].mem) /\ Kept(h)
        /\ hand'[h] # Idle => Now(h)'.do \in Dos /\ Follows(Now(h), Now(h)')
    BY <1>1, <2>1, Proceeds
  <2>3. Now(h).do \notin {"newConv", "creator", "other", "post", "liked", "circle", "posts"}
    BY DEF Bare
  <2> QED BY <1>1, <2>2, <2>3, FollowsPlain
<1>3. CASE GiveUp(h)
  BY <1>1, <1>3, GivesUp, LoosePlain
<1> QED BY <1>2, <1>3

LEMMA BareStep ==
  ASSUME NEW pair, Holds(pair), NEW h \in Handlers, At(h, Now(h).do), Now(h).do \in Bare,
         agreed' = agreed, Proceed(h) \/ GiveUp(h), NoteBarred, Grows(pair, pair),
         People', CodeBook', Walls', Talk(pair)'
  PROVE  Holds(pair)'
<1>1. /\ hand[h] # Idle /\ Now(h).do \notin Checks /\ Moved(h, hand[h].mem) /\ Kept(h)
      /\ hand'[h] # Idle => Now(h)'.do \in Plain
  BY BareGoes
<1>2. hand'[h] # Idle => Knows(pair, h)' /\ Now(h)'.do \notin {"posts", "answer"}
  BY <1>1, PlainKnows
<1> QED BY <1>1, <1>2, WriteStep

\* The two of a conversation remain with the process that fills it.
LEMMA TalkKnows ==
  ASSUME NEW pair, NEW q, Holds(pair), NEW h \in Handlers, At(h, Now(h).do),
         Now(h).do \in {"creator", "other"}, Left(h, Rest(h), hand[h].mem), agreed' = agreed,
         \A c \in DOMAIN convs : c \in DOMAIN convs' /\ q[c] = pair[c], invited' = invited
  PROVE  /\ hand[h] # Idle /\ Now(h).do \notin Checks /\ Moved(h, hand[h].mem) /\ Kept(h)
         /\ hand'[h] # Idle => Knows(q, h)' /\ Now(h)'.do \notin {"posts", "answer"}
<1>1. hand[h] # Idle /\ Hands /\ Busy(h) /\ Knows(pair, h) /\ Now(h).do \notin Checks
  BY Here DEF Checks
<1>2. /\ Moved(h, hand[h].mem) /\ Kept(h)
      /\ hand'[h] # Idle => Now(h)'.do \in Dos /\ Follows(Now(h), Now(h)')
  BY <1>1, Proceeds
<1>3. /\ hand[h].mem \in DOMAIN convs
      /\ hand[h].mem \in invited \/ pair[hand[h].mem] = {Now(h).a, Now(h).b}
  BY <1>1 DEF Knows
<1>4. ASSUME hand'[h] # Idle
      PROVE  Knows(q, h)' /\ Now(h)'.do \notin {"posts", "answer"}
  <2> DEFINE t == Now(h)'
  <2>1. hand'[h].mem = hand[h].mem
    BY <1>2, <1>4 DEF Moved
  <2>2. t.do \notin Informed \/ (t.do \in {"creator", "other", "text"} /\ {t.a, t.b} = {Now(h).a, Now(h).b})
    BY <1>2, <1>4 DEF Follows, Talks, Informed, First
  <2>3. t = Head(hand'[h].todo) /\ t = Now(h)'
    BY DEF Now
  <2> HIDE DEF t
  <2> QED BY <1>3, <2>1, <2>2, <2>3 DEF Knows, At, Informed
<1> QED BY <1>1, <1>2, <1>4

\* What writes that concern neither conversations nor moments leave.
LEMMA RowsOnly ==
  ASSUME NEW pair, Holds(pair), UNCHANGED <<setting, convs, said, invited, posts, comments, agreed>>,
         filed' \in Seq(Row)
  PROVE  Walls' /\ Talk(pair)' /\ Grows(pair, pair)
<1>0. Walls /\ Talk(pair)
  BY DEF Holds
<1>1. Walls'
  BY <1>0 DEF Walls
<1>2. Talk(pair)'
  BY <1>0 DEF Talk
<1>3. Grows(pair, pair)
  BY DEF Grows
<1> QED BY <1>1, <1>2, <1>3

LEMMA Replaced ==
  ASSUME NEW S, NEW f \in Seq(S), NEW i, NEW e, i \in DOMAIN f => e \in S
  PROVE  LET g == [f EXCEPT ![i] = e] IN
         /\ g \in Seq(S) /\ DOMAIN g = DOMAIN f
         /\ \A k \in DOMAIN f : g[k] = IF k = i THEN e ELSE f[k]
<1> DEFINE g == [f EXCEPT ![i] = e]
<1>1. f \in [1..Len(f) -> S] /\ Len(f) \in Nat /\ DOMAIN f = 1..Len(f)
  OBVIOUS
<1>2. g \in [1..Len(f) -> S]
  BY <1>1
<1>3. g \in Seq(S)
  BY <1>1, <1>2
<1> QED BY <1>1, <1>3

LEMMA FileHolds ==
  ASSUME NEW pair, Holds(pair), NEW h \in Handlers, File(h),
         UNCHANGED <<setting, new, Moments>>, NoteBarred
  PROVE  Holds(pair)'
<1> DEFINE row == [from |-> Now(h).a, to |-> Now(h).b, status |-> "pending"]
<1>1. /\ At(h, "file") /\ filed' = Append(filed, row) /\ Proceed(h)
      /\ UNCHANGED <<friend, black, agreed, Chats, Helpers>>
  BY DEF File
<1>2. /\ Now(h).do = "file" /\ At(h, Now(h).do) /\ Fits(agreed, Req(h), Now(h)) /\ Now(h).do \in Bare
  BY <1>1, Here DEF Bare
<1>3. People /\ CodeBook
  BY DEF Holds
<1>4. filed' \in Seq(Row)
  <2>1. row \in Row
    BY <1>2 DEF Fits, Row
  <2> HIDE DEF row
  <2> QED BY <1>1, <1>3, <2>1 DEF People
<1>5. People'
  BY <1>1, <1>3, <1>4 DEF People, Helpers
<1>6. CodeBook'
  BY <1>1, <1>3 DEF CodeBook, CodeRow, Helpers
<1>7. Walls' /\ Talk(pair)' /\ Grows(pair, pair)
  BY <1>1, <1>4, RowsOnly DEF Chats, Moments
<1>8. agreed' = agreed
  BY <1>1
<1> QED BY <1>1, <1>2, <1>5, <1>6, <1>7, <1>8, BareStep

LEMMA SetStatusHolds ==
  ASSUME NEW pair, Holds(pair), NEW h \in Handlers, SetStatus(h),
         UNCHANGED <<setting, new, Moments>>, NoteBarred
  PROVE  Holds(pair)'
<1> DEFINE i == Req(h).id
           x == IF Req(h).on THEN "agreed" ELSE "rejected"
<1>1. /\ At(h, "status") /\ filed' = [filed EXCEPT ![i].status = x] /\ Proceed(h)
      /\ UNCHANGED <<friend, black, agreed, Chats, Helpers>>
  BY DEF SetStatus
<1>2. /\ Now(h).do = "status" /\ At(h, Now(h).do) /\ Now(h).do \in Bare
  BY <1>1, Here DEF Bare
<1>3. People /\ CodeBook
  BY DEF Holds
<1>4. filed' \in Seq(Row)
  <2>1. filed \in Seq(Row) /\ x \in {"agreed", "rejected"}
    BY <1>3 DEF People
  <2> HIDE DEF i, x
  <2>2. ASSUME i \in DOMAIN filed
        PROVE  [filed[i] EXCEPT !.status = x] \in Row
    <3>1. filed[i] \in Row
      BY <2>1, <2>2
    <3> QED BY <2>1, <3>1 DEF Row
  <2>3. filed' = [filed EXCEPT ![i] = [filed[i] EXCEPT !.status = x]]
    BY <1>1, Zenon
  <2> QED BY <2>1, <2>2, <2>3, Replaced
<1>5. People'
  BY <1>1, <1>3, <1>4 DEF People, Helpers
<1>6. CodeBook'
  BY <1>1, <1>3 DEF CodeBook, CodeRow, Helpers
<1>7. Walls' /\ Talk(pair)' /\ Grows(pair, pair)
  BY <1>1, <1>4, RowsOnly DEF Chats, Moments
<1>8. agreed' = agreed
  BY <1>1
<1> QED BY <1>1, <1>2, <1>5, <1>6, <1>7, <1>8, BareStep

LEMMA RelationHolds ==
  ASSUME NEW pair, Holds(pair), NEW h \in Handlers, AddRow(h) \/ DropRow(h) \/ SetBlack(h),
         UNCHANGED <<setting, new, Moments>>, NoteBarred
  PROVE  Holds(pair)'
<1>1. /\ At(h, "row") \/ At(h, "unrow") \/ At(h, "rowBlack") \/ At(h, "unBlack")
      /\ friend' \subseteq friend \cup {<<Now(h).a, Now(h).b>>}
      /\ black' \subseteq black \cup {<<Now(h).a, Now(h).b>>}
      /\ Proceed(h) \/ GiveUp(h)
      /\ UNCHANGED <<filed, agreed, Chats, Helpers>>
  BY DEF AddRow, DropRow, SetBlack
<1>2. /\ Now(h).do \in {"row", "unrow", "rowBlack", "unBlack"} /\ At(h, Now(h).do)
      /\ Fits(agreed, Req(h), Now(h)) /\ Now(h).do \in Bare
  BY <1>1, Here DEF Bare
<1>3. People /\ CodeBook
  BY DEF Holds
<1>4. <<Now(h).a, Now(h).b>> \in Users \X Users
  BY <1>2 DEF Fits
<1>5. People'
  BY <1>1, <1>3, <1>4 DEF People, Helpers
<1>6. CodeBook'
  BY <1>1, <1>3 DEF CodeBook, CodeRow, Helpers
<1>7. Walls' /\ Talk(pair)' /\ Grows(pair, pair)
  BY <1>1, <1>5, RowsOnly DEF Chats, Moments, People
<1>8. agreed' = agreed
  BY <1>1
<1> QED BY <1>1, <1>2, <1>5, <1>6, <1>7, <1>8, BareStep

LEMMA SetIndexHolds ==
  ASSUME NEW pair, Holds(pair), NEW h \in Handlers, SetIndex(h),
         UNCHANGED <<setting, new, Moments>>, NoteBarred
  PROVE  Holds(pair)'
<1>1. /\ At(h, "index") /\ index' = hand[h].mem + 1 /\ Proceed(h)
      /\ UNCHANGED <<Relations, Chats, codes>>
  BY DEF SetIndex
<1>2. /\ Now(h).do = "index" /\ At(h, Now(h).do) /\ Knows(pair, h) /\ Now(h).do \in Bare
  BY <1>1, Here DEF Bare
<1>3. People /\ CodeBook
  BY DEF Holds
<1>4. index' \in Nat
  BY <1>1, <1>2 DEF Knows
<1>5. People'
  BY <1>1, <1>3, <1>4 DEF People, Relations
<1>6. CodeBook'
  BY <1>1, <1>3 DEF CodeBook, CodeRow
<1>7. Walls' /\ Talk(pair)' /\ Grows(pair, pair)
  BY <1>1, <1>5, RowsOnly DEF Chats, Moments, People, Relations
<1>8. agreed' = agreed
  BY <1>1 DEF Relations
<1> QED BY <1>1, <1>2, <1>5, <1>6, <1>7, <1>8, BareStep

LEMMA CodesHold ==
  ASSUME NEW pair, Holds(pair), NEW h \in Handlers, CodeUsed(h) \/ WriteCode(h),
         UNCHANGED <<setting, new, Moments>>, NoteBarred
  PROVE  Holds(pair)'
<1> DEFINE c == Req(h).code
           row == codes[c]
<1>1. PICK x : /\ At(h, "used") \/ At(h, "codeAdd") \/ At(h, "codeSet") \/ At(h, "codeDel")
               /\ codes' = [codes EXCEPT ![c] = x] \/ codes' = codes
               /\ \/ x = row
                  \/ \E k : x = [row EXCEPT !.used = k]
                  \/ x = [there |-> TRUE, enabled |-> TRUE, friends |-> Req(h).fs, used |-> 0]
                  \/ row.there /\ x = [row EXCEPT !.enabled = Req(h).on, !.friends = Req(h).fs]
                  \/ x = NoCode
               /\ Proceed(h) /\ UNCHANGED <<Relations, Chats, index>>
  BY DEF CodeUsed, WriteCode
<1>2. /\ Now(h).do \in Bare /\ At(h, Now(h).do) /\ Req(h) \in Request
  BY <1>1, Here DEF Bare
<1>3. People /\ CodeBook
  BY DEF Holds
<1>4. Req(h).fs \in Seq(Users)
  BY <1>2 DEF Request, Asked
<1>5. People'
  BY <1>1, <1>3 DEF People, Relations
<1>6. CodeBook'
  <2>1. ASSUME c \in Codes
        PROVE  CodeRow(x)
    <3>1. CodeRow(row)
      BY <1>3, <2>1 DEF CodeBook
    <3>2. PICK f, e, d, u : row = [there |-> f, enabled |-> e, friends |-> d, used |-> u]
      BY <3>1 DEF CodeRow
    <3>3. (e => f) /\ d \in Seq(Users) /\ row.there = f
      BY <3>1, <3>2 DEF CodeRow
    <3> DEFINE y == [there |-> f, enabled |-> e, friends |-> d, used |-> u]
    <3> HIDE DEF row
    <3>4. CASE \E k : x = [row EXCEPT !.used = k]
      <4>1. PICK k : x = [row EXCEPT !.used = k]
        BY <3>4
      <4>2. x = [there |-> f, enabled |-> e, friends |-> d, used |-> k]
        BY <3>2, <4>1
      <4> QED BY <3>3, <4>2 DEF CodeRow
    <3>5. CASE row.there /\ x = [row EXCEPT !.enabled = Req(h).on, !.friends = Req(h).fs]
      <4>1. x = [there |-> f, enabled |-> Req(h).on, friends |-> Req(h).fs, used |-> u]
        BY <3>2, <3>5
      <4> QED BY <1>4, <3>3, <3>5, <4>1 DEF CodeRow
    <3>6. CASE x = [there |-> TRUE, enabled |-> TRUE, friends |-> Req(h).fs, used |-> 0]
      BY <1>4, <3>6 DEF CodeRow
    <3>7. CASE x = NoCode
      <4>1. <<>> \in Seq(Users)
        OBVIOUS
      <4> QED BY <3>7, <4>1 DEF CodeRow, NoCode
    <3>8. CASE x = row
      BY <3>1, <3>8
    <3> QED BY <1>1, <3>4, <3>5, <3>6, <3>7, <3>8 DEF row
  <2> HIDE DEF row, c
  <2>2. CASE codes' = codes
    BY <1>3, <2>2 DEF CodeBook, CodeRow
  <2>3. CASE codes' = [codes EXCEPT ![c] = x]
    <3>1. codes' = [k \in Codes |-> codes'[k]] /\ \A k \in Codes : codes'[k] = IF k = c THEN x ELSE codes[k]
      BY <1>3, <2>3 DEF CodeBook
    <3>2. \A k \in Codes : CodeRow(codes'[k])
      BY <1>3, <2>1, <3>1 DEF CodeBook
    <3> QED BY <3>1, <3>2 DEF CodeBook, CodeRow
  <2> QED BY <1>1, <2>2, <2>3
<1>7. Walls' /\ Talk(pair)' /\ Grows(pair, pair)
  BY <1>1, <1>5, RowsOnly DEF Chats, Moments, People, Relations
<1>8. agreed' = agreed
  BY <1>1 DEF Relations
<1> QED BY <1>1, <1>2, <1>5, <1>6, <1>7, <1>8, BareStep

LEMMA NewConvHolds ==
  ASSUME NEW pair, Holds(pair), NEW h \in Handlers, NewConv(h),
         UNCHANGED <<setting, new, Moments>>, NoteBarred
  PROVE  \E q : Holds(q)'
<1> DEFINE a == Now(h).a
           b == Now(h).b
           n == Len(convs) + 1
           Q == [c \in 1..n |-> IF c = n THEN {a, b} ELSE pair[c]]
<1>1. /\ At(h, "newConv") /\ convs' = Append(convs, {}) /\ Left(h, Rest(h), n)
      /\ UNCHANGED <<Relations, said, invited, Helpers>>
  BY DEF NewConv
<1>2. /\ Now(h).do = "newConv" /\ Fits(agreed, Req(h), Now(h)) /\ hand[h] # Idle /\ Hands /\ Busy(h)
      /\ Now(h).do \notin Checks
  BY <1>1, Here DEF Checks
<1>3. People /\ CodeBook /\ Walls /\ Talk(pair)
  BY DEF Holds
<1>4. agreed' = agreed /\ setting' = setting /\ posts' = posts
  BY <1>1 DEF Relations, Moments
<1>5. /\ Moved(h, n) /\ Kept(h)
      /\ hand'[h] # Idle => Now(h)'.do \in Dos /\ Follows(Now(h), Now(h)')
  BY <1>1, <1>2, <1>4, Proceeds
<1>6. People' /\ CodeBook' /\ Walls'
  <2>1. People'
    BY <1>1, <1>3 DEF People, Relations, Helpers
  <2>2. CodeBook'
    BY <1>1, <1>3 DEF CodeBook, CodeRow, Helpers
  <2>3. Walls'
    BY <1>1, <1>3 DEF Walls, Moments
  <2> QED BY <2>1, <2>2, <2>3
<1>7. /\ convs \in Seq(SUBSET Everyone) /\ Len(convs) \in Nat /\ DOMAIN convs = 1..Len(convs)
      /\ convs' \in Seq(SUBSET Everyone) /\ DOMAIN convs' = 1..n /\ n \in 1..n
      /\ convs'[n] = {} /\ \A c \in 1..n : c # n => c \in DOMAIN convs /\ convs'[c] = convs[c]
  <2>1. convs \in Seq(SUBSET Everyone)
    BY <1>3 DEF Talk
  <2> QED BY <1>1, <2>1
<1>8. {a, b} \in Pairs
  BY <1>2 DEF Fits, Talks, Pairs
<1>16. PICK q : q = Q
  OBVIOUS
<1> HIDE DEF a, b, n
<1>9. DOMAIN q = 1..n /\ q[n] = {a, b} /\ \A c \in 1..n : c # n => q[c] = pair[c]
  BY <1>7, <1>16
<1>10. q \in [1..n -> Pairs]
  <2>1. pair \in [DOMAIN convs -> Pairs]
    BY <1>3 DEF Talk
  <2>2. \A c \in 1..n : q[c] \in Pairs
    BY <1>7, <1>8, <1>9, <2>1
  <2> QED BY <1>16, <2>2
<1> HIDE DEF Q
<1>11. \A c \in DOMAIN convs : c \in 1..n /\ c # n
  BY <1>7 DEF n
<1>12. Talk(q)'
  <2>1. \A c \in DOMAIN convs' : c \in invited \/ convs'[c] \subseteq q[c]
    BY <1>3, <1>7, <1>9 DEF Talk
  <2>2. \A m \in DOMAIN said :
          /\ said[m].conv \in DOMAIN convs'
          /\ said[m].conv \in invited \/ q[said[m].conv] = {said[m].by, said[m].to}
    BY <1>3, <1>7, <1>9, <1>11 DEF Talk
  <2>3. said' = said /\ said \in Seq(Message) /\ invited' = invited /\ invited \subseteq Nat
    BY <1>1, <1>3 DEF Talk
  <2> QED BY <1>7, <1>10, <2>1, <2>2, <2>3 DEF Talk
<1>13. Grows(q, pair)
  BY <1>1, <1>4, <1>6, <1>7, <1>9, <1>11 DEF Grows, People
<1>14. ASSUME hand'[h] # Idle
       PROVE  Knows(q, h)' /\ Now(h)'.do \notin {"posts", "answer"}
  <2> DEFINE t == Now(h)'
  <2>1. hand'[h].mem = n /\ n \in DOMAIN convs'
    BY <1>5, <1>7, <1>14 DEF Moved, n
  <2>2. t.do = "creator" /\ {t.a, t.b} = {a, b}
    BY <1>2, <1>5, <1>14 DEF Follows, Talks, a, b
  <2>3. t = Head(hand'[h].todo) /\ t = Now(h)'
    BY DEF Now
  <2> HIDE DEF t
  <2> QED BY <1>9, <2>1, <2>2, <2>3 DEF Knows, At
<1>15. Holds(q)'
  BY <1>2, <1>5, <1>6, <1>12, <1>13, <1>14, WriteStep
<1> QED BY <1>15

LEMMA AddMemberHolds ==
  ASSUME NEW pair, Holds(pair), NEW h \in Handlers, AddMember(h),
         UNCHANGED <<setting, new, Moments>>, NoteBarred
  PROVE  Holds(pair)'
<1> DEFINE a == Now(h).a
           b == Now(h).b
           c == hand[h].mem
<1>1. /\ At(h, "creator") \/ At(h, "other")
      /\ convs' = [convs EXCEPT ![c] = convs[c] \cup {a}] /\ Proceed(h)
      /\ UNCHANGED <<Relations, said, invited, Helpers>>
  BY DEF AddMember
<1>2. /\ Now(h).do \in {"creator", "other"} /\ At(h, Now(h).do)
      /\ Fits(agreed, Req(h), Now(h)) /\ Knows(pair, h)
  BY <1>1, Here
<1>3. People /\ CodeBook /\ Walls /\ Talk(pair)
  BY DEF Holds
<1>4. agreed' = agreed /\ Left(h, Rest(h), hand[h].mem)
  BY <1>1 DEF Relations, Proceed
<1>5. c \in DOMAIN convs /\ (c \in invited \/ pair[c] = {a, b}) /\ a \in Everyone
  BY <1>2 DEF Knows, Fits, Talks
<1>6. People' /\ CodeBook' /\ Walls'
  <2>1. People'
    BY <1>1, <1>3 DEF People, Relations, Helpers
  <2>2. CodeBook'
    BY <1>1, <1>3 DEF CodeBook, CodeRow, Helpers
  <2>3. Walls'
    BY <1>1, <1>3 DEF Walls, Moments
  <2> QED BY <2>1, <2>2, <2>3
<1> DEFINE e == convs[c] \cup {a}
<1>7. convs \in Seq(SUBSET Everyone) /\ e \in SUBSET Everyone /\ (c \in invited \/ e \subseteq pair[c])
  <2>1. convs \in Seq(SUBSET Everyone) /\ (c \in invited \/ convs[c] \subseteq pair[c])
    BY <1>3, <1>5 DEF Talk
  <2>2. convs[c] \in SUBSET Everyone
    BY <1>5, <2>1
  <2> QED BY <1>5, <2>1, <2>2
<1>8. convs' = [convs EXCEPT ![c] = e]
  BY <1>1
<1> HIDE DEF a, b, c, e
<1>9. /\ convs' \in Seq(SUBSET Everyone) /\ DOMAIN convs' = DOMAIN convs
      /\ \A k \in DOMAIN convs : convs'[k] = IF k = c THEN e ELSE convs[k]
  BY <1>7, <1>8, Replaced
<1>10. Talk(pair)'
  BY <1>1, <1>3, <1>7, <1>9 DEF Talk
<1>11. Grows(pair, pair)
  BY <1>1, <1>4, <1>6, <1>9 DEF Grows, People, Moments
<1>12. (\A k \in DOMAIN convs : k \in DOMAIN convs' /\ pair[k] = pair[k]) /\ invited' = invited
  BY <1>1, <1>9
<1>13. /\ hand[h] # Idle /\ Now(h).do \notin Checks /\ Moved(h, hand[h].mem) /\ Kept(h)
       /\ hand'[h] # Idle => Knows(pair, h)' /\ Now(h)'.do \notin {"posts", "answer"}
  BY <1>2, <1>4, <1>12, TalkKnows
<1> QED BY <1>6, <1>10, <1>11, <1>13, WriteStep

LEMMA JoinsHolds ==
  ASSUME NEW pair, Holds(pair), NEW h \in Handlers, Joins(h),
         UNCHANGED <<setting, new, Moments>>, NoteBarred
  PROVE  Holds(pair)'
<1> DEFINE c == Req(h).id
           e == convs[c] \cup {Req(h).to}
<1>1. /\ At(h, "joins") /\ convs' = [convs EXCEPT ![c] = e] /\ invited' = invited \cup {c}
      /\ Proceed(h) /\ UNCHANGED <<Relations, said, Helpers>>
  BY DEF Joins
<1>2. /\ Now(h).do = "joins" /\ At(h, Now(h).do) /\ Now(h).do \in Bare /\ Req(h) \in Request
  BY <1>1, Here DEF Bare
<1>3. People /\ CodeBook /\ Walls /\ Talk(pair)
  BY DEF Holds
<1>4. c \in Nat /\ Req(h).to \in Everyone
  BY <1>2 DEF Request, Asked, Everyone
<1>5. People' /\ CodeBook' /\ Walls'
  <2>1. People'
    BY <1>1, <1>3 DEF People, Relations, Helpers
  <2>2. CodeBook'
    BY <1>1, <1>3 DEF CodeBook, CodeRow, Helpers
  <2>3. Walls'
    BY <1>1, <1>3 DEF Walls, Moments
  <2> QED BY <2>1, <2>2, <2>3
<1>6. convs \in Seq(SUBSET Everyone) /\ (c \in DOMAIN convs => e \in SUBSET Everyone)
  <2>1. convs \in Seq(SUBSET Everyone)
    BY <1>3 DEF Talk
  <2>2. c \in DOMAIN convs => convs[c] \in SUBSET Everyone
    BY <2>1
  <2> QED BY <1>4, <2>1, <2>2
<1> HIDE DEF c, e
<1>7. /\ convs' \in Seq(SUBSET Everyone) /\ DOMAIN convs' = DOMAIN convs
      /\ \A k \in DOMAIN convs : convs'[k] = IF k = c THEN e ELSE convs[k]
  BY <1>1, <1>6, Replaced
<1>8. Talk(pair)'
  BY <1>1, <1>3, <1>4, <1>7 DEF Talk
<1>9. agreed' = agreed
  BY <1>1 DEF Relations
<1>10. Grows(pair, pair)
  BY <1>1, <1>5, <1>7, <1>9 DEF Grows, People, Moments
<1>11. Proceed(h) \/ GiveUp(h)
  BY <1>1
<1> QED BY <1>2, <1>5, <1>8, <1>9, <1>10, <1>11, BareStep

LEMMA SendTextHolds ==
  ASSUME NEW pair, Holds(pair), NEW h \in Handlers, SendText(h),
         UNCHANGED <<setting, new, Moments>>, NoteBarred
  PROVE  Holds(pair)'
<1> DEFINE m == [conv |-> hand[h].mem, by |-> Now(h).a, to |-> Now(h).b]
<1>1. /\ At(h, "text") /\ (said' = Append(said, m) \/ said' = said)
      /\ Proceed(h) /\ UNCHANGED <<Relations, convs, invited, Helpers>>
  BY DEF SendText
<1>2. /\ Now(h).do = "text" /\ At(h, "text") /\ At(h, Now(h).do) /\ Now(h).do \in Bare
      /\ Fits(agreed, Req(h), Now(h)) /\ Knows(pair, h)
  BY <1>1, Here DEF Bare, SendText
<1>3. People /\ CodeBook /\ Walls /\ Talk(pair)
  BY DEF Holds
<1>4. People' /\ CodeBook' /\ Walls'
  <2>1. People'
    BY <1>1, <1>3 DEF People, Relations, Helpers
  <2>2. CodeBook'
    BY <1>1, <1>3 DEF CodeBook, CodeRow, Helpers
  <2>3. Walls'
    BY <1>1, <1>3 DEF Walls, Moments
  <2> QED BY <2>1, <2>2, <2>3
<1>5. m.conv \in DOMAIN convs /\ (m.conv \in invited \/ pair[m.conv] = {m.by, m.to}) /\ m \in Message
  <2>1. hand[h].mem \in DOMAIN convs /\ (hand[h].mem \in invited \/ pair[hand[h].mem] = {Now(h).a, Now(h).b})
    BY <1>2 DEF Knows
  <2>2. hand[h].mem \in Nat
    <3>1. convs \in Seq(SUBSET Everyone)
      BY <1>3 DEF Talk
    <3> QED BY <2>1, <3>1
  <2>3. Now(h).a \in Everyone /\ Now(h).b \in Everyone
    BY <1>2 DEF Fits, Talks
  <2> QED BY <2>1, <2>2, <2>3 DEF Message
<1>6. convs' = convs /\ invited' = invited
  BY <1>1
<1> HIDE DEF m
<1>7. said' \in Seq(Message) /\ \A i \in DOMAIN said' : said'[i] = m \/ (i \in DOMAIN said /\ said'[i] = said[i])
  <2>1. said \in Seq(Message)
    BY <1>3 DEF Talk
  <2>2. CASE said' = Append(said, m)
    BY <1>5, <2>1, <2>2
  <2>3. CASE said' = said
    BY <2>1, <2>3
  <2> QED BY <1>1, <2>2, <2>3
<1>8. Talk(pair)'
  BY <1>3, <1>5, <1>6, <1>7 DEF Talk
<1>9. agreed' = agreed
  BY <1>1 DEF Relations
<1>10. Grows(pair, pair)
  BY <1>4, <1>6, <1>9 DEF Grows, People, Moments
<1>11. Proceed(h) \/ GiveUp(h)
  BY <1>1
<1> QED BY <1>2, <1>4, <1>8, <1>9, <1>10, <1>11, BareStep

LEMMA RefusedHolds ==
  ASSUME NEW pair, Holds(pair), NEW h \in Handlers, Refused(h),
         UNCHANGED <<setting, new, Moments>>, NoteBarred
  PROVE  Holds(pair)'
<1>1. /\ \E s \in {"row", "creator", "other", "joins", "unrow", "text", "rowBlack", "index"} : At(h, s)
      /\ Proceed(h) \/ (At(h, "row") /\ GiveUp(h))
      /\ UNCHANGED <<Relations, Chats, Helpers>>
  BY DEF Refused
<1>2. /\ Now(h).do \in {"row", "creator", "other", "joins", "unrow", "text", "rowBlack", "index"}
      /\ At(h, Now(h).do) /\ \A x : At(h, x) <=> x = Now(h).do
  BY <1>1, Here
<1>3. Calm /\ agreed' = agreed /\ agreed' \subseteq Pairs
  BY <1>1 DEF Calm, Relations, Holds, People
<1>4. People' /\ CodeBook' /\ Walls' /\ Talk(pair)' /\ Grows(pair, pair)
  BY <1>3, CalmStore
<1>5. CASE Now(h).do \in {"creator", "other"}
  <2>1. Left(h, Rest(h), hand[h].mem)
    BY <1>1, <1>2, <1>5 DEF Proceed
  <2>2. (\A c \in DOMAIN convs : c \in DOMAIN convs' /\ pair[c] = pair[c]) /\ invited' = invited
    BY <1>1 DEF Chats
  <2>3. /\ hand[h] # Idle /\ Now(h).do \notin Checks /\ Moved(h, hand[h].mem) /\ Kept(h)
        /\ hand'[h] # Idle => Knows(pair, h)' /\ Now(h)'.do \notin {"posts", "answer"}
    BY <1>2, <1>3, <1>5, <2>1, <2>2, TalkKnows
  <2> QED BY <1>4, <2>3, WriteStep
<1>6. CASE Now(h).do \in Bare
  BY <1>1, <1>2, <1>3, <1>4, <1>6, BareStep
<1> QED BY <1>2, <1>5, <1>6 DEF Bare

-----------------------------------------------------------------------------
(* Moments.                                                                *)

LEMMA ByEveryone ==
  ASSUME NEW r \in Request
  PROVE  r.by \in Everyone /\ r.id \in Nat /\ r.on \in BOOLEAN
BY DEF Request, Asked, Everyone

\* What a list of likes is without its i-th.
LEMMA Removed ==
  ASSUME NEW S, NEW l \in Seq(S), IsInjective(l), NEW i \in DOMAIN l
  PROVE  /\ RemoveAt(l, i) \in Seq(S) /\ IsInjective(RemoveAt(l, i))
         /\ \A v \in ToSet(l) : v # l[i] => v \in ToSet(RemoveAt(l, i))
<1> DEFINE a == SubSeq(l, 1, i - 1)
           b == SubSeq(l, i + 1, Len(l))
           c == a \o b
<1>1. Len(l) \in Nat /\ DOMAIN l = 1..Len(l) /\ i \in 1..Len(l) /\ i \in Nat
  OBVIOUS
<1>2. a \in Seq(S) /\ Len(a) = i - 1 /\ \A k \in 1..(i - 1) : a[k] = l[k]
  BY <1>1
<1>3. b \in Seq(S) /\ Len(b) = Len(l) - i /\ \A k \in 1..(Len(l) - i) : b[k] = l[k + i]
  <2>1. b \in Seq(S)
    BY <1>1
  <2>2. Len(b) = Len(l) - i
    <3>1. CASE i + 1 > Len(l)
      <4>1. b = <<>> /\ Len(l) - i = 0
        BY <1>1, <3>1
      <4> QED BY <4>1
    <3>2. CASE i + 1 <= Len(l)
      <4>1. Len(b) = Len(l) - (i + 1) + 1
        BY <1>1, <3>2
      <4> QED BY <1>1, <4>1
    <3> QED BY <1>1, <3>1, <3>2
  <2>3. ASSUME NEW k \in 1..(Len(l) - i)
        PROVE  b[k] = l[k + i]
    <3>1. i \in Int /\ Len(l) \in Nat /\ i + 1 \in 1..(Len(l) + 1) /\ k \in 1..(Len(l) - (i + 1) + 1)
      BY <1>1
    <3>2. b[k] = l[(i + 1) + k - 1]
      BY <1>1, <3>1
    <3>3. (i + 1) + k - 1 = k + i
      BY ONLY <3>1, k \in Int
    <3> QED BY <3>2, <3>3
  <2> QED BY <2>1, <2>2, <2>3
<1> HIDE DEF a, b
<1>4. /\ c \in Seq(S) /\ Len(c) = Len(l) - 1 /\ DOMAIN c = 1..Len(c)
      /\ \A k \in 1..Len(a) : c[k] = a[k]
      /\ \A k \in 1..Len(b) : c[Len(a) + k] = b[k]
  <2>1. a \in Seq(S) /\ b \in Seq(S)
    BY <1>2, <1>3
  <2>2. /\ c \in Seq(S) /\ Len(c) = Len(a) + Len(b) /\ DOMAIN c = 1..Len(c)
        /\ \A k \in 1..Len(a) : c[k] = a[k]
        /\ \A k \in 1..Len(b) : c[Len(a) + k] = b[k]
    BY <2>1
  <2>3. Len(a) = i - 1 /\ Len(b) = Len(l) - i
    BY <1>2, <1>3
  <2> HIDE DEF c
  <2>4. Len(c) = Len(l) - 1
    BY <1>1, <2>2, <2>3
  <2> QED BY <2>2, <2>4
<1> HIDE DEF c
<1>5. \A k \in 1..Len(c) : c[k] = IF k < i THEN l[k] ELSE l[k + 1]
  <2>1. ASSUME NEW k \in 1..Len(c), k < i
        PROVE  c[k] = l[k]
    <3>1. k \in 1..(i - 1) /\ k \in 1..Len(a)
      BY <1>1, <1>2, <1>4, <2>1
    <3> QED BY <1>2, <1>4, <3>1
  <2>2. ASSUME NEW k \in 1..Len(c), ~(k < i)
        PROVE  c[k] = l[k + 1]
    <3>1. /\ k - (i - 1) \in 1..Len(b) /\ k - (i - 1) \in 1..(Len(l) - i)
          /\ Len(a) + (k - (i - 1)) = k /\ (k - (i - 1)) + i = k + 1
      <4>1. /\ i \in Int /\ Len(l) \in Nat /\ i >= 1 /\ k \in Int /\ k <= Len(c) /\ ~(k < i)
            /\ Len(a) = i - 1 /\ Len(b) = Len(l) - i /\ Len(c) = Len(l) - 1
        BY <1>1, <1>2, <1>3, <1>4, <2>2
      <4> QED BY ONLY <4>1
    <3>2. c[Len(a) + (k - (i - 1))] = b[k - (i - 1)] /\ b[k - (i - 1)] = l[(k - (i - 1)) + i]
      BY <1>3, <1>4, <3>1
    <3> QED BY <3>1, <3>2
  <2> QED BY <2>1, <2>2
<1>6. IsInjective(c)
  <2> SUFFICES ASSUME NEW x \in 1..Len(c), NEW y \in 1..Len(c), c[x] = c[y]
               PROVE  x = y
    BY <1>4 DEF IsInjective
  <2> DEFINE p(k) == IF k < i THEN k ELSE k + 1
  <2>1. p(x) \in 1..Len(l) /\ p(y) \in 1..Len(l)
    BY <1>1, <1>4
  <2>2. l[p(x)] = l[p(y)]
    BY <1>5
  <2>3. p(x) = p(y)
    BY <1>1, <2>1, <2>2 DEF IsInjective
  <2> QED BY <1>1, <1>4, <2>3
<1>7. ASSUME NEW v \in ToSet(l), v # l[i]
      PROVE  v \in ToSet(c)
  <2>1. PICK k \in 1..Len(l) : v = l[k]
    BY <1>1 DEF ToSet
  <2> DEFINE n == IF k < i THEN k ELSE k - 1
  <2>2. k # i /\ n \in 1..Len(c) /\ (k < i => n < i) /\ (~(k < i) => ~(n < i) /\ n + 1 = k)
    BY <1>1, <1>4, <1>7, <2>1
  <2>3. c[n] = v
    BY <1>5, <2>1, <2>2
  <2> HIDE DEF n
  <2> QED BY <1>4, <2>2, <2>3 DEF ToSet
<1> QED BY <1>4, <1>6, <1>7 DEF RemoveAt, a, b, c

\* Whoever likes or unlikes leaves the likes of the others.
LEMMA ToggledLikes ==
  ASSUME NEW u \in Everyone, NEW l \in Likes
  PROVE  /\ Toggled(u, l) \in Likes
         /\ \A v \in ToSet(l) : v # u => v \in ToSet(Toggled(u, l))
<1>1. l \in Seq(Everyone) /\ IsInjective(l) /\ DOMAIN l = 1..Len(l) /\ Len(l) \in Nat
  BY DEF Likes
<1>2. CASE Contains(l, u)
  <2> DEFINE i == CHOOSE j \in DOMAIN l : l[j] = u
  <2>1. i \in DOMAIN l /\ l[i] = u
    BY <1>1, <1>2 DEF Contains
  <2>2. Toggled(u, l) = RemoveAt(l, i)
    BY <1>2 DEF Toggled
  <2> HIDE DEF i
  <2>3. /\ RemoveAt(l, i) \in Seq(Everyone) /\ IsInjective(RemoveAt(l, i))
        /\ \A v \in ToSet(l) : v # l[i] => v \in ToSet(RemoveAt(l, i))
    BY <1>1, <2>1, Removed
  <2> QED BY <2>1, <2>2, <2>3 DEF Likes
<1>3. CASE ~Contains(l, u)
  <2> DEFINE t == Append(l, u)
  <2>1. Toggled(u, l) = t
    BY <1>3 DEF Toggled
  <2>2. /\ t \in Seq(Everyone) /\ DOMAIN t = 1..(Len(l) + 1) /\ t[Len(l) + 1] = u
        /\ \A k \in 1..Len(l) : t[k] = l[k]
    BY <1>1
  <2> HIDE DEF t
  <2>3. \A k \in 1..Len(l) : l[k] # u
    BY <1>3 DEF Contains
  <2>4. \A k \in 1..(Len(l) + 1) : k # Len(l) + 1 => k \in 1..Len(l)
    BY <1>1
  <2>5. IsInjective(t)
    BY <1>1, <2>2, <2>3, <2>4 DEF IsInjective
  <2>6. \A k \in 1..Len(l) : k \in 1..(Len(l) + 1)
    BY <1>1
  <2>7. \A v \in ToSet(l) : v \in ToSet(t)
    BY <1>1, <2>2, <2>6 DEF ToSet
  <2> QED BY <2>1, <2>2, <2>5, <2>7 DEF Likes
<1> QED BY <1>2, <1>3

LEMMA MomentsOnly ==
  ASSUME NEW pair, Holds(pair), UNCHANGED Friendly, setting' = setting
  PROVE  People' /\ CodeBook' /\ Talk(pair)' /\ agreed' = agreed /\ agreed' \subseteq Pairs
<1>0. People /\ CodeBook /\ Talk(pair)
  BY DEF Holds
<1>1. People'
  BY <1>0 DEF People, Friendly, Relations, Helpers
<1>2. CodeBook'
  BY <1>0 DEF CodeBook, CodeRow, Friendly, Helpers
<1>3. Talk(pair)'
  BY <1>0 DEF Talk, Friendly, Chats
<1>4. agreed' = agreed /\ agreed' \subseteq Pairs
  BY <1>0 DEF People, Friendly, Relations
<1> QED BY <1>1, <1>2, <1>3, <1>4

LEMMA PostsGrow ==
  ASSUME NEW pair, Holds(pair), UNCHANGED Friendly, setting' = setting,
         \A p \in DOMAIN posts : p \in DOMAIN posts' /\ posts'[p].by = posts[p].by
  PROVE  Grows(pair, pair)
BY MomentsOnly DEF Grows, Friendly, Chats, People

LEMMA PublishHolds ==
  ASSUME NEW pair, Holds(pair), NEW h \in Handlers, Publish(h), UNCHANGED <<setting, Friendly>>, NoteBarred
  PROVE  Holds(pair)'
<1> DEFINE row == [by |-> Req(h).by, likes |-> <<>>, hidden |-> FALSE, there |-> TRUE]
<1>1. At(h, "publish") /\ posts' = Append(posts, row) /\ Proceed(h) /\ comments' = comments
  BY DEF Publish
<1>2. Now(h).do = "publish" /\ At(h, Now(h).do) /\ Now(h).do \in Bare /\ Req(h) \in Request
  BY <1>1, Here DEF Bare
<1>3. Walls
  BY DEF Holds
<1>4. row \in PostRow
  <2>1. <<>> \in Likes
    BY DEF Likes, IsInjective
  <2>2. Req(h).by \in Everyone
    BY <1>2, ByEveryone
  <2> QED BY <2>1, <2>2 DEF PostRow
<1> HIDE DEF row
<1>5. posts' \in Seq(PostRow) /\ \A p \in DOMAIN posts : p \in DOMAIN posts' /\ posts'[p] = posts[p]
  <2>1. posts \in Seq(PostRow)
    BY <1>3 DEF Walls
  <2> QED BY <1>1, <1>4, <2>1
<1>6. Walls'
  BY <1>1, <1>3, <1>5 DEF Walls
<1>7. People' /\ CodeBook' /\ Talk(pair)' /\ agreed' = agreed
  BY MomentsOnly
<1>8. Grows(pair, pair)
  BY <1>5, PostsGrow
<1>9. Proceed(h) \/ GiveUp(h)
  BY <1>1
<1> QED BY <1>2, <1>6, <1>7, <1>8, <1>9, BareStep

LEMMA SetPostHolds ==
  ASSUME NEW pair, Holds(pair), NEW h \in Handlers, UNCHANGED <<setting, Friendly>>, NoteBarred,
         At(h, Now(h).do), Now(h).do \in Bare, Proceed(h), comments' = comments,
         NEW p, NEW row, SetPost(p, row), There(p) => row \in PostRow /\ row.by = posts[p].by
  PROVE  Holds(pair)'
<1>3. Walls
  BY DEF Holds
<1>5. /\ posts' \in Seq(PostRow) /\ DOMAIN posts' = DOMAIN posts
      /\ \A k \in DOMAIN posts : posts'[k].by = posts[k].by
  <2>1. posts \in Seq(PostRow)
    BY <1>3 DEF Walls
  <2>2. CASE There(p)
    <3>1. p \in DOMAIN posts /\ row \in PostRow /\ posts' = [posts EXCEPT ![p] = row]
      BY <2>2 DEF There, SetPost
    <3>2. /\ posts' \in Seq(PostRow) /\ DOMAIN posts' = DOMAIN posts
          /\ \A k \in DOMAIN posts : posts'[k] = IF k = p THEN row ELSE posts[k]
      BY <2>1, <3>1, Replaced
    <3> QED BY <2>2, <3>2
  <2>3. CASE ~There(p)
    BY <2>1, <2>3 DEF SetPost
  <2> QED BY <2>2, <2>3
<1>6. Walls'
  BY <1>3, <1>5 DEF Walls
<1>7. People' /\ CodeBook' /\ Talk(pair)' /\ agreed' = agreed
  BY MomentsOnly
<1>8. Grows(pair, pair)
  BY <1>5, PostsGrow
<1>9. Proceed(h) \/ GiveUp(h)
  OBVIOUS
<1> QED BY <1>6, <1>7, <1>8, <1>9, BareStep

\* A row of a post with a change of it.
LEMMA PostChanged ==
  ASSUME Walls, NEW p, There(p), NEW l \in Likes, NEW f \in BOOLEAN
  PROVE  /\ [posts[p] EXCEPT !.hidden = f] \in PostRow /\ [posts[p] EXCEPT !.there = f] \in PostRow
         /\ [posts[p] EXCEPT !.likes = l] \in PostRow
         /\ [posts[p] EXCEPT !.hidden = f].by = posts[p].by /\ [posts[p] EXCEPT !.there = f].by = posts[p].by
         /\ [posts[p] EXCEPT !.likes = l].by = posts[p].by
         /\ [posts[p] EXCEPT !.hidden = f].likes = posts[p].likes
         /\ [posts[p] EXCEPT !.there = f].likes = posts[p].likes
         /\ [posts[p] EXCEPT !.likes = l].likes = l
<1>1. posts[p] \in PostRow
  BY DEF Walls, There
<1> DEFINE x == posts[p]
<1> HIDE DEF x
<1>2. x \in PostRow
  BY <1>1 DEF x
<1>3. /\ [x EXCEPT !.hidden = f] \in PostRow /\ [x EXCEPT !.there = f] \in PostRow
      /\ [x EXCEPT !.likes = l] \in PostRow
  BY <1>2 DEF PostRow
<1>4. /\ [x EXCEPT !.hidden = f].by = x.by /\ [x EXCEPT !.there = f].by = x.by
      /\ [x EXCEPT !.likes = l].by = x.by
      /\ [x EXCEPT !.hidden = f].likes = x.likes /\ [x EXCEPT !.there = f].likes = x.likes
      /\ [x EXCEPT !.likes = l].likes = l
  BY <1>2 DEF PostRow
<1> QED BY <1>3, <1>4 DEF x

LEMMA HideHolds ==
  ASSUME NEW pair, Holds(pair), NEW h \in Handlers, Hide(h) \/ DropPost(h),
         UNCHANGED <<setting, Friendly>>, NoteBarred
  PROVE  Holds(pair)'
<1> DEFINE p == Req(h).id
           hid == [posts[p] EXCEPT !.hidden = Req(h).on]
           off == [posts[p] EXCEPT !.there = FALSE]
<1>1. /\ At(h, "hide") \/ At(h, "dropPost")
      /\ SetPost(p, hid) \/ SetPost(p, off)
      /\ Proceed(h) /\ comments' = comments
  BY DEF Hide, DropPost
<1>2. At(h, Now(h).do) /\ Now(h).do \in Bare /\ Req(h) \in Request
  BY <1>1, Here DEF Bare
<1>3. There(p) => hid \in PostRow /\ hid.by = posts[p].by /\ off \in PostRow /\ off.by = posts[p].by
  <2>1. Req(h).on \in BOOLEAN /\ FALSE \in BOOLEAN
    BY <1>2, ByEveryone
  <2>2. <<>> \in Likes
    BY DEF Likes, IsInjective
  <2> HIDE DEF p
  <2>3. There(p) => hid \in PostRow /\ hid.by = posts[p].by
    BY <2>1, <2>2, PostChanged DEF Holds
  <2>4. There(p) => off \in PostRow /\ off.by = posts[p].by
    BY <2>1, <2>2, PostChanged DEF Holds
  <2> QED BY <2>3, <2>4
<1> HIDE DEF hid, off, p
<1> QED BY <1>1, <1>2, <1>3, SetPostHolds

LEMMA LikeHolds ==
  ASSUME NEW pair, Holds(pair), NEW h \in Handlers, Like(h),
         UNCHANGED <<setting, Friendly>>, NoteBarred
  PROVE  Holds(pair)'
<1> DEFINE p == Req(h).id
           t == Toggled(Req(h).by, hand[h].mem)
           row == [posts[p] EXCEPT !.likes = t]
<1>1. At(h, "like") /\ SetPost(p, row) /\ Proceed(h) /\ comments' = comments
  BY DEF Like
<1>2. At(h, Now(h).do) /\ Now(h).do \in Bare /\ Req(h) \in Request /\ Knows(pair, h)
  BY <1>1, Here DEF Bare
<1>3. There(p) => row \in PostRow /\ row.by = posts[p].by
  <2>1. hand[h].mem \in Likes /\ Req(h).by \in Everyone /\ FALSE \in BOOLEAN
    BY <1>1, <1>2, ByEveryone DEF Knows
  <2>2. t \in Likes
    BY <2>1, ToggledLikes
  <2> HIDE DEF p, t
  <2> QED BY <2>1, <2>2, PostChanged DEF Holds
<1> HIDE DEF p, row
<1> QED BY <1>1, <1>2, <1>3, SetPostHolds

LEMMA CommentHolds ==
  ASSUME NEW pair, Holds(pair), NEW h \in Handlers, Comment(h),
         UNCHANGED <<setting, Friendly>>, NoteBarred
  PROVE  Holds(pair)'
<1> DEFINE row == [post |-> Req(h).id, by |-> Req(h).by, there |-> TRUE]
<1>1. At(h, "comment") /\ comments' = Append(comments, row) /\ Proceed(h) /\ posts' = posts
  BY DEF Comment
<1>2. At(h, Now(h).do) /\ Now(h).do \in Bare /\ Req(h) \in Request /\ Knows(pair, h)
  BY <1>1, Here DEF Bare
<1>3. row \in CommentRow /\ row.post \in DOMAIN posts
  BY <1>1, <1>2, ByEveryone DEF Knows, CommentRow
<1>4. Walls
  BY DEF Holds
<1> HIDE DEF row
<1>5. /\ comments' \in Seq(CommentRow)
      /\ \A c \in DOMAIN comments' : comments'[c] = row \/ (c \in DOMAIN comments /\ comments'[c] = comments[c])
  <2>1. comments \in Seq(CommentRow)
    BY <1>4 DEF Walls
  <2> QED BY <1>1, <1>3, <2>1
<1>6. Walls'
  BY <1>1, <1>3, <1>4, <1>5 DEF Walls
<1>7. People' /\ CodeBook' /\ Talk(pair)' /\ agreed' = agreed
  BY MomentsOnly
<1>8. Grows(pair, pair)
  BY <1>1, PostsGrow
<1>9. Proceed(h) \/ GiveUp(h)
  BY <1>1
<1> QED BY <1>2, <1>6, <1>7, <1>8, <1>9, BareStep

LEMMA UncommentHolds ==
  ASSUME NEW pair, Holds(pair), NEW h \in Handlers, Uncomment(h),
         UNCHANGED <<setting, Friendly>>, NoteBarred
  PROVE  Holds(pair)'
<1> DEFINE F(c) == [comments[c] EXCEPT !.there = comments[c].there /\ ~TakesBack(h, c)]
<1>1. /\ At(h, "uncomment") \/ At(h, "dropAll")
      /\ comments' = [c \in DOMAIN comments |-> F(c)]
      /\ Proceed(h) /\ posts' = posts
  BY DEF Uncomment
<1>2. At(h, Now(h).do) /\ Now(h).do \in Bare
  BY <1>1, Here DEF Bare
<1>4. Walls
  BY DEF Holds
<1>5. ASSUME NEW c \in DOMAIN comments
      PROVE  F(c) \in CommentRow /\ F(c).post = comments[c].post
  <2>1. comments[c] \in CommentRow
    BY <1>4 DEF Walls
  <2> DEFINE x == comments[c]
             f == comments[c].there /\ ~TakesBack(h, c)
  <2>2. f \in BOOLEAN /\ x \in CommentRow /\ F(c) = [x EXCEPT !.there = f]
    BY <2>1
  <2> HIDE DEF x, f, F
  <2>3. [x EXCEPT !.there = f] \in CommentRow /\ [x EXCEPT !.there = f].post = x.post
    BY <2>2 DEF CommentRow
  <2> QED BY <2>2, <2>3 DEF x
<1> HIDE DEF F
<1>6. /\ comments' \in Seq(CommentRow)
      /\ \A c \in DOMAIN comments' : c \in DOMAIN comments /\ comments'[c].post = comments[c].post
  <2>1. comments \in Seq(CommentRow) /\ DOMAIN comments = 1..Len(comments) /\ Len(comments) \in Nat
    BY <1>4 DEF Walls
  <2> QED BY <1>1, <1>5, <2>1
<1>7. Walls'
  BY <1>1, <1>4, <1>6 DEF Walls
<1>8. People' /\ CodeBook' /\ Talk(pair)' /\ agreed' = agreed
  BY MomentsOnly
<1>9. Grows(pair, pair)
  BY <1>1, PostsGrow
<1>10. Proceed(h) \/ GiveUp(h)
  BY <1>1
<1> QED BY <1>2, <1>7, <1>8, <1>9, <1>10, BareStep


LEMMA FriendlyCalm ==
  ASSUME NEW pair, Holds(pair), UNCHANGED <<setting, Friendly>>, UNCHANGED Moments
  PROVE  /\ Calm /\ agreed' = agreed /\ agreed' \subseteq Pairs /\ posts' = posts /\ friend' = friend
         /\ People' /\ CodeBook' /\ Walls' /\ Talk(pair)' /\ Grows(pair, pair)
<1>1. Calm /\ agreed' = agreed /\ posts' = posts /\ friend' = friend
  BY DEF Calm, Friendly, Relations, Moments
<1>2. agreed' \subseteq Pairs
  BY <1>1 DEF Holds, People
<1> QED BY <1>1, <1>2, CalmStore

LEMMA FindPostHolds ==
  ASSUME NEW pair, Holds(pair), NEW h \in Handlers, FindPost(h),
         UNCHANGED <<setting, Friendly>>, NoteBarred
  PROVE  Holds(pair)'
<1>1. At(h, "post") /\ Only(h, There(Req(h).id)) /\ UNCHANGED Moments
  BY DEF FindPost
<1>2. /\ hand[h] # Idle /\ Hands /\ Busy(h) /\ Now(h).do = "post" /\ ~At(h, "find")
  BY <1>1, Here
<1>3. Calm /\ agreed' = agreed /\ posts' = posts /\ agreed' \subseteq Pairs
  BY <1>1, FriendlyCalm
<1>4. /\ Moved(h, hand[h].mem) /\ Kept(h)
      /\ hand'[h] # Idle => /\ There(Req(h).id)
                            /\ Now(h)'.do \in Dos /\ Follows(Now(h), Now(h)')
  BY <1>1, <1>2, <1>3, OnlyGoes
<1>5. hand'[h] # Idle => Req(h)' = Req(h)
  BY <1>4 DEF Moved, Req
<1>6. hand'[h] # Idle => Knows(pair, h)' /\ Now(h)'.do \notin {"posts", "answer"}
  <2> SUFFICES ASSUME hand'[h] # Idle
               PROVE  Knows(pair, h)' /\ Now(h)'.do \notin {"posts", "answer"}
    OBVIOUS
  <2>1. Now(h)'.do \notin Informed \/ Now(h)'.do = "comment"
    BY <1>2, <1>4 DEF Follows, Talks, Informed, First
  <2>2. Req(h)'.id \in DOMAIN posts'
    BY <1>3, <1>4, <1>5 DEF There
  <2> QED BY <2>1, <2>2 DEF Knows, At, Now, Informed
<1>7. hand'[h] = Idle \/ \A s : s = Now(h) => ~Fails(h, s)'
  BY <1>2, <1>3, <1>4, <1>5 DEF Fails, There
<1> QED BY <1>2, <1>3, <1>4, <1>6, <1>7, KnowingCheck

LEMMA LikedHolds ==
  ASSUME NEW pair, Holds(pair), NEW h \in Handlers, Liked(h),
         UNCHANGED <<setting, Friendly>>, NoteBarred
  PROVE  Holds(pair)'
<1>1. /\ At(h, "liked") /\ UNCHANGED Moments
      /\ \/ There(Req(h).id) /\ Left(h, Rest(h), posts[Req(h).id].likes)
         \/ Done(h)
  BY DEF Liked
<1>2. /\ hand[h] # Idle /\ Hands /\ Busy(h) /\ Now(h).do = "liked" /\ ~At(h, "find")
  BY <1>1, Here
<1>3. Calm /\ agreed' = agreed /\ posts' = posts /\ agreed' \subseteq Pairs
  BY <1>1, FriendlyCalm
<1>4. CASE Done(h)
  <2>1. Moved(h, hand[h].mem) /\ Kept(h) /\ hand'[h] = Idle
    BY <1>2, <1>4, Ending
  <2> QED BY <1>2, <1>3, <2>1, CheckStep
<1>5. CASE There(Req(h).id) /\ Left(h, Rest(h), posts[Req(h).id].likes)
  <2> DEFINE m == posts[Req(h).id].likes
  <2>1. /\ Moved(h, m) /\ Kept(h)
        /\ hand'[h] # Idle => Now(h)'.do \in Dos /\ Follows(Now(h), Now(h)')
    BY <1>2, <1>3, <1>5, Proceeds
  <2>2. hand'[h] # Idle => Req(h)' = Req(h) /\ hand'[h].mem = m
    BY <2>1 DEF Moved, Req
  <2>3. m \in Likes
    <3>1. posts[Req(h).id] \in PostRow
      BY <1>5 DEF Holds, Walls, There
    <3> QED BY <3>1 DEF PostRow
  <2>4. hand'[h] # Idle => Knows(pair, h)' /\ Now(h)'.do \notin {"posts", "answer"}
    <3> SUFFICES ASSUME hand'[h] # Idle
                 PROVE  Knows(pair, h)' /\ Now(h)'.do \notin {"posts", "answer"}
      OBVIOUS
    <3>1. Now(h)'.do \notin Informed \/ Now(h)'.do = "like"
      BY <1>2, <2>1 DEF Follows, Talks, Informed, First
    <3>2. hand'[h].mem \in Likes
      BY <2>2, <2>3
    <3> QED BY <3>1, <3>2 DEF Knows, At, Now, Informed
  <2>5. hand'[h] = Idle \/ \A s : s = Now(h) => ~Fails(h, s)'
    BY <1>2, <1>3, <1>5, <2>2 DEF Fails, There
  <2> QED BY <1>2, <1>3, <2>1, <2>4, <2>5, KnowingCheck
<1> QED BY <1>1, <1>4, <1>5

\* The moments that a barred check is about.
LEMMA BarredMoment ==
  ASSUME NEW pair, Holds(pair), NEW h \in Handlers, hand[h] # Idle, NEW s \in barred[h],
         s.do \in {"show", "near"}
  PROVE  s.b \in DOMAIN posts /\ s.a = Req(h).by
<1>1. s \in Checked(Req(h))
  BY DEF Holds, Handler, Faces, Unmet
<1>2. Req(h) \in Request /\ filed \in Seq(Row)
  BY AskedFor DEF Holds, Handler, People
<1> QED BY <1>1, <1>2, Shown

LEMMA CircleHolds ==
  ASSUME NEW pair, Holds(pair), NEW h \in Handlers, Circle(h),
         UNCHANGED <<setting, Friendly>>, NoteBarred
  PROVE  Holds(pair)'
<1> DEFINE m == {u \in Everyone : <<u, Req(h).by>> \in friend}
<1>1. At(h, "circle") /\ Left(h, Rest(h), m) /\ UNCHANGED Moments
  BY DEF Circle
<1>2. /\ hand[h] # Idle /\ Hands /\ Busy(h) /\ Faces(h) /\ Now(h).do = "circle" /\ ~At(h, "find")
  BY <1>1, Here
<1>3. /\ agreed' = agreed /\ posts' = posts /\ friend' = friend
      /\ People' /\ CodeBook' /\ Walls' /\ Talk(pair)' /\ Grows(pair, pair)
  BY <1>1, FriendlyCalm
<1> HIDE DEF m
<1>4. /\ Moved(h, m) /\ Kept(h)
      /\ hand'[h] # Idle => Now(h)'.do \in Dos /\ Follows(Now(h), Now(h)')
  BY <1>1, <1>2, <1>3, Proceeds
<1>5. ASSUME hand'[h] # Idle
      PROVE  Knows(pair, h)' /\ Faces(h)'
  <2>1. Now(h)'.do \notin Informed \/ Now(h)'.do = "posts"
    BY <1>2, <1>4, <1>5 DEF Follows, Talks, Informed, First
  <2>2. Knows(pair, h)' /\ ~At(h, "answer")'
    BY <2>1 DEF Knows, At, Now, Informed
  <2>3. /\ barred'[h] \subseteq Unmet(h)' /\ barred'[h] \subseteq barred[h]
        /\ \A s \in barred'[h] : s.do \in {"show", "near"} \/ s \in ToSet(hand'[h].todo)
    BY <1>2, <1>4, <1>5, FacesOn DEF Checks
  <2>4. hand'[h].mem = m
    BY <1>4, <1>5 DEF Moved
  <2>5. ASSUME NEW s \in barred'[h], s.do = "near"
        PROVE  posts'[s.b].by \notin hand'[h].mem
    <3>1. s.a = Req(h).by
      BY <1>2, <2>3, <2>5, BarredMoment
    <3>2. Fails(h, s)'
      BY <2>3 DEF Unmet
    <3>3. ~AreFriends(s.a, posts[s.b].by)
      BY <1>3, <2>5, <3>2 DEF Fails, AreFriends
    <3> QED BY <1>3, <2>4, <3>1, <3>3 DEF m, AreFriends
  <2> QED BY <2>2, <2>3, <2>5 DEF Faces
<1>6. Hands' /\ \A g \in Handlers : Handler(pair, g)'
  BY <1>2, <1>3, <1>4, <1>5, StepOn
<1> QED BY <1>3, <1>6 DEF Holds

LEMMA FeedHolds ==
  ASSUME NEW pair, Holds(pair), NEW h \in Handlers, Feed(h),
         UNCHANGED <<setting, Friendly>>, NoteBarred
  PROVE  Holds(pair)'
<1> DEFINE m == {p \in DOMAIN posts : There(p) /\ Visible(p, Req(h).by, hand[h].mem)}
<1>1. At(h, "posts") /\ Left(h, Rest(h), m) /\ UNCHANGED Moments
  BY DEF Feed
<1>2. /\ hand[h] # Idle /\ Hands /\ Busy(h) /\ Faces(h) /\ Now(h).do = "posts" /\ ~At(h, "find")
  BY <1>1, Here
<1>3. /\ agreed' = agreed /\ posts' = posts /\ friend' = friend
      /\ People' /\ CodeBook' /\ Walls' /\ Talk(pair)' /\ Grows(pair, pair)
  BY <1>1, FriendlyCalm
<1> HIDE DEF m
<1>4. /\ Moved(h, m) /\ Kept(h)
      /\ hand'[h] # Idle => Now(h)'.do \in Dos /\ Follows(Now(h), Now(h)')
  BY <1>1, <1>2, <1>3, Proceeds
<1>5. ASSUME hand'[h] # Idle
      PROVE  Knows(pair, h)' /\ Faces(h)'
  <2>1. Now(h)'.do \notin Informed \/ Now(h)'.do = "answer"
    BY <1>2, <1>4, <1>5 DEF Follows, Talks, Informed, First
  <2>2. Knows(pair, h)' /\ ~At(h, "posts")'
    BY <2>1 DEF Knows, At, Now, Informed
  <2>3. /\ barred'[h] \subseteq Unmet(h)' /\ barred'[h] \subseteq barred[h]
        /\ \A s \in barred'[h] : s.do \in {"show", "near"} \/ s \in ToSet(hand'[h].todo)
    BY <1>2, <1>4, <1>5, FacesOn DEF Checks
  <2>4. hand'[h].mem = m
    BY <1>4, <1>5 DEF Moved
  <2>5. ASSUME NEW s \in barred'[h], s.do \in {"show", "near"}
        PROVE  s.b \notin hand'[h].mem
    <3>1. s.a = Req(h).by
      BY <1>2, <2>3, <2>5, BarredMoment
    <3>2. Fails(h, s)'
      BY <2>3 DEF Unmet
    <3>3. CASE s.do = "near"
      <4>1. posts[s.b].by \notin {s.a, Assistant}
        BY <1>3, <3>2, <3>3 DEF Fails
      <4>2. posts[s.b].by \notin hand[h].mem
        BY <1>1, <1>2, <2>3, <3>3 DEF Faces
      <4> QED BY <2>4, <3>1, <4>1, <4>2 DEF m, Visible
    <3>4. CASE s.do = "show"
      <4>1. ~There(s.b) \/ (posts[s.b].hidden /\ posts[s.b].by # s.a)
        BY <1>3, <3>2, <3>4 DEF Fails, There
      <4> QED BY <2>4, <3>1, <4>1 DEF m, Visible
    <3> QED BY <2>5, <3>3, <3>4
  <2> QED BY <2>2, <2>3, <2>5 DEF Faces
<1>6. Hands' /\ \A g \in Handlers : Handler(pair, g)'
  BY <1>2, <1>3, <1>4, <1>5, StepOn
<1> QED BY <1>3, <1>6 DEF Holds

LEMMA AnswerHolds ==
  ASSUME NEW pair, Holds(pair), NEW h \in Handlers, Answer(h),
         UNCHANGED <<setting, Friendly>>, NoteBarred
  PROVE  Holds(pair)'
<1>1. At(h, "answer") /\ Done(h) /\ UNCHANGED Moments
  BY DEF Answer
<1>2. /\ hand[h] # Idle /\ Hands /\ Busy(h) /\ ~At(h, "find")
  BY <1>1, Here
<1>3. Calm /\ agreed' = agreed /\ agreed' \subseteq Pairs
  BY <1>1, FriendlyCalm
<1>4. Moved(h, 0) /\ Kept(h) /\ hand'[h] = Idle
  BY <1>1, <1>2, Ending
<1> QED BY <1>2, <1>3, <1>4, CheckStep

-----------------------------------------------------------------------------
(* The invariant holds.                                                    *)

LEMMA CrashHolds ==
  ASSUME NEW pair, Holds(pair), hand' = [h \in Handlers |-> Idle],
         UNCHANGED <<Relations, Chats, Helpers>>, UNCHANGED <<setting, new, Moments>>
  PROVE  Holds(pair)'
<1>1. Calm /\ agreed' = agreed
  BY DEF Calm, Relations
<1>2. agreed' \subseteq Pairs
  BY <1>1 DEF Holds, People
<1>3. People' /\ CodeBook' /\ Walls' /\ Talk(pair)'
  BY <1>1, <1>2, CalmStore
<1>4. Hands' /\ \A h \in Handlers : Handler(pair, h)'
  BY DEF Hands, Handler
<1> QED BY <1>3, <1>4 DEF Holds

LEMMA SameStatements ==
  ASSUME NEW r, setting' = setting
  PROVE  Statements(r)' = Statements(r)
<1>1. MomentStatements(r)' = MomentStatements(r)
  BY DEF MomentStatements
<1>2. FriendStatements(r)' = FriendStatements(r)
  BY DEF FriendStatements
<1> QED BY <1>1, <1>2 DEF Statements

\* A request faces all the checks that it fails when it comes.
LEMMA AskedFaces ==
  ASSUME NEW pair, Holds(pair), NEW h \in Handlers, NEW r \in Request, setting' = setting,
         hand[h] = Idle, hand'[h] = [todo |-> Statements(r), req |-> r, mem |-> 0],
         Statements(r) # <<>>, NoteBarred
  PROVE  Busy(h)' /\ Knows(pair, h)' /\ Faces(h)'
<1> DEFINE l == Statements(r)
<1>1. Sound(agreed', r, l)
  BY Lists
<1>2. Todo(agreed', r, l) /\ l[1].do \notin Talks \cup Later \cup {"index"}
  BY <1>1 DEF Sound
<1>3. l' = l
  BY SameStatements
<1> HIDE DEF l
<1>4. hand'[h] = [todo |-> l, req |-> r, mem |-> 0]
  BY DEF l
<1>5. hand'[h].todo = l /\ hand'[h].req = r /\ hand'[h].mem = 0 /\ hand'[h] # Idle
  <2>1. hand'[h].todo = l /\ hand'[h].req = r /\ hand'[h].mem = 0
    BY <1>4
  <2> QED BY <2>1 DEF Idle, l
<1>6. Busy(h)'
  BY <1>2, <1>4, <1>5 DEF Busy
<1>7. Now(h)' = l[1] /\ \A x : At(h, x)' <=> x = l[1].do
  BY <1>2, <1>5, HeadTail DEF Now, At, Todo
<1>8. Knows(pair, h)' /\ ~At(h, "posts")' /\ ~At(h, "answer")'
  BY <1>2, <1>7 DEF Knows, Talks, Later
<1>9. barred'[h] \subseteq Unmet(h)'
  BY <1>5, Noted
<1>10. ASSUME NEW s \in barred'[h], s.do \notin {"show", "near"}, ~At(h, "find")'
       PROVE  s \in ToSet(hand'[h].todo)
  <2>1. s \in Checked(Req(h))'
    BY <1>9 DEF Unmet
  <2>2. Req(h)' = r
    BY <1>5 DEF Req
  <2>3. s \in Checked(r)'
    BY <2>1, <2>2
  <2>4. r.op # "handle"
    <3> DEFINE f == St("find", r.by, r.by, "")
    <3>1. r.op = "handle" => l = <<f>>
      BY DEF l, Statements, FriendStatements, MomentOps
    <3>2. f.do = "find"
      BY DEF St
    <3> HIDE DEF f
    <3>3. r.op = "handle" => l[1].do = "find"
      BY <3>1, <3>2
    <3> QED BY <1>7, <1>10, <3>3
  <2> DEFINE D == UNION {{St("show", r.by, p, ""), St("near", r.by, p, "")} : p \in DOMAIN posts'}
             F == ToSet(l)
  <2>5. ToSet(Statements(r))' = F
    BY <1>3 DEF l
  <2>6. s \in F \/ s \in D
    <3> HIDE DEF D, F
    <3> QED BY <2>3, <2>4, <2>5 DEF Checked, D
  <2>7. s \notin D
    <3>1. \A p : St("show", r.by, p, "").do = "show" /\ St("near", r.by, p, "").do = "near"
      BY DEF St
    <3>2. \A p : s # St("show", r.by, p, "") /\ s # St("near", r.by, p, "")
      BY <1>10, <3>1
    <3> QED BY <3>2
  <2> QED BY <1>5, <2>6, <2>7
<1>11. Faces(h)'
  BY <1>8, <1>9, <1>10 DEF Faces
<1> QED BY <1>6, <1>8, <1>11

LEMMA AskHolds ==
  ASSUME NEW pair, Holds(pair), NEW h \in Handlers, NEW r \in setting.ask, Ask(h, r), NoteBarred
  PROVE  Holds(pair)'
<1> DEFINE x == [todo |-> Statements(r), req |-> r, mem |-> 0]
<1>1. /\ hand[h] = Idle
      /\ new' \subseteq new
      /\ hand' = [hand EXCEPT ![h] = IF Statements(r) = <<>> THEN Idle ELSE x]
      /\ UNCHANGED <<setting, Relations, Chats, Helpers, Moments>>
  BY DEF Ask
<1> HIDE DEF x
<1>2. r \in Request /\ Hands /\ People /\ CodeBook /\ Walls /\ Talk(pair)
  BY AskedFor DEF Holds
<1>3. People' /\ CodeBook' /\ Walls' /\ Talk(pair)' /\ Grows(pair, pair)
  <2>1. People'
    BY <1>1, <1>2 DEF People, Relations, Helpers
  <2>2. CodeBook'
    BY <1>1, <1>2 DEF CodeBook, CodeRow, Helpers
  <2>3. Walls'
    BY <1>1, <1>2 DEF Walls, Moments
  <2>4. Talk(pair)'
    BY <1>1, <1>2 DEF Talk, Chats
  <2>5. Grows(pair, pair)
    BY <1>1, <1>2 DEF Grows, Moments, Chats, Relations, People
  <2> QED BY <2>1, <2>2, <2>3, <2>4, <2>5
<1>4. /\ hand'[h] = IF Statements(r) = <<>> THEN Idle ELSE x
      /\ \A g \in Handlers : g # h => hand'[g] = hand[g]
      /\ Hands'
  BY <1>1, <1>2 DEF Hands
<1>5. Handler(pair, h)'
  <2>1. CASE Statements(r) = <<>>
    BY <1>4, <2>1 DEF Handler
  <2>2. CASE Statements(r) # <<>>
    <3>1. hand'[h] = [todo |-> Statements(r), req |-> r, mem |-> 0] /\ setting' = setting
      BY <1>1, <1>4, <2>2 DEF x
    <3>2. Busy(h)' /\ Knows(pair, h)' /\ Faces(h)'
      BY <1>1, <1>2, <2>2, <3>1, AskedFaces
    <3>3. Req(h)' \in setting'.ask
      BY <3>1 DEF Req
    <3> QED BY <3>2, <3>3 DEF Handler
  <2> QED BY <2>1, <2>2
<1>6. \A g \in Handlers : g # h => Handler(pair, g)'
  BY <1>3, <1>4, OthersStand
<1>7. \A g \in Handlers : Handler(pair, g)'
  BY <1>5, <1>6
<1> QED BY <1>3, <1>4, <1>7 DEF Holds

LEMMA InitHolds == Init => IInv
<1> SUFFICES ASSUME Init PROVE IInv
  OBVIOUS
<1> DEFINE pair == [c \in {} |-> {}]
<1>1. /\ setting \in Scenarios /\ new = setting.new
      /\ friend = {} /\ filed = <<>> /\ black = {} /\ convs = <<>> /\ said = <<>>
      /\ invited = {}
      /\ codes = [c \in Codes |-> NoCode] /\ index = 0 /\ agreed = {}
      /\ hand = [h \in Handlers |-> Idle] /\ posts = <<>> /\ comments = <<>>
  BY DEF Init, FriendsInit
<1>2. People
  <2>1. new \subseteq Users
    BY <1>1, FriendsAssumption
  <2> QED BY <1>1, <2>1 DEF People
<1>3. CodeBook
  <2>1. CodeRow(NoCode)
    BY DEF CodeRow, NoCode
  <2>2. \A c \in Codes : codes[c] = NoCode
    BY <1>1
  <2>3. \A c \in Codes : CodeRow(codes[c])
    BY <2>1, <2>2
  <2>4. codes = [c \in Codes |-> codes[c]]
    BY <1>1
  <2> QED BY <2>3, <2>4 DEF CodeBook
<1>4. Walls
  BY <1>1 DEF Walls
<1>5. Talk(pair)
  <2>1. DOMAIN convs = {} /\ DOMAIN said = {}
    BY <1>1
  <2>2. convs \in Seq(SUBSET Everyone) /\ said \in Seq(Message) /\ invited = {}
    BY <1>1
  <2> QED BY <2>1, <2>2 DEF Talk
<1>6. Hands /\ \A h \in Handlers : Handler(pair, h)
  BY <1>1 DEF Hands, Handler
<1> HIDE DEF pair
<1>7. Holds(pair)
  BY <1>2, <1>3, <1>4, <1>5, <1>6 DEF Holds
<1> QED BY <1>7 DEF IInv

LEMMA StutterHolds == IInv /\ UNCHANGED vars => IInv'
<1> SUFFICES ASSUME NEW pair, Holds(pair), UNCHANGED vars PROVE Holds(pair)'
  BY DEF IInv
<1>1. /\ UNCHANGED <<setting, new, Relations, Chats, Helpers, Moments>>
      /\ hand' = hand /\ barred' = barred
  BY DEF vars, Friendly
<1>2. Calm /\ agreed' = agreed /\ filed' = filed /\ setting' = setting /\ convs' = convs /\ posts' = posts
      /\ friend' = friend /\ codes' = codes /\ invited' = invited
  BY <1>1 DEF Calm, Relations, Chats, Helpers, Moments
<1>3. agreed' \subseteq Pairs
  BY <1>2 DEF Holds, People
<1>4. People' /\ CodeBook' /\ Walls' /\ Talk(pair)'
  BY <1>2, <1>3, CalmStore
<1>5. Hands'
  BY <1>1 DEF Holds, Hands
<1>6. ASSUME NEW h \in Handlers, hand[h] # Idle
      PROVE  Handler(pair, h)'
  <2>1. Busy(h) /\ Req(h) \in setting.ask /\ Knows(pair, h) /\ Faces(h)
    BY <1>6 DEF Holds, Handler
  <2>2. Busy(h)' /\ Req(h)' \in setting'.ask
    BY <1>1, <1>2, <2>1 DEF Busy, Req
  <2>3. Knows(pair, h)'
    BY <1>1, <1>2, <2>1 DEF Knows, At, Now, Req
  <2>4. Unmet(h)' = Unmet(h)
    <3>1. Req(h)' = Req(h) /\ hand'[h] = hand[h]
      BY <1>1 DEF Req
    <3>2. \A s : Fails(h, s)' <=> Fails(h, s)
      BY <1>2, <3>1 DEF Fails, AreFriends, IsPending, Common, Served, There
    <3>3. Checked(Req(h))' = Checked(Req(h))
      <4>1. PICK r : r = Req(h)
        OBVIOUS
      <4>2. Checked(r)' = Checked(r)
        <5>1. Statements(r)' = Statements(r)
          BY <1>2, SameStatements
        <5> QED BY <1>2, <5>1 DEF Checked
      <4> QED BY <3>1, <4>1, <4>2
    <3> QED BY <3>2, <3>3 DEF Unmet
  <2>5. Faces(h)'
    BY <1>1, <1>2, <2>1, <2>4 DEF Faces, At
  <2> QED BY <2>2, <2>3, <2>5 DEF Handler
<1>7. ASSUME NEW h \in Handlers, hand[h] = Idle
      PROVE  Handler(pair, h)'
  BY <1>1, <1>7 DEF Handler
<1> QED BY <1>4, <1>5, <1>6, <1>7 DEF Holds

LEMMA ServeHolds ==
  ASSUME NEW pair, Holds(pair), NEW h \in Handlers, Serve(h), NoteBarred
  PROVE  \E q : Holds(q)'
<1>1. CASE FriendChecks(h) /\ UNCHANGED <<setting, new, Moments>>
  <2>1. Holds(pair)'
    BY <1>1, AlreadyHolds, PendingHolds, FindHolds, HasRowHolds, FindConvHolds, HasHelpHolds,
       AssignHolds, BindNextHolds, InviteHolds, CodeCountHolds,
       ValidHolds, MayInviteHolds DEF FriendChecks
  <2> QED BY <2>1
<1>2. CASE FriendWrites(h) /\ UNCHANGED <<setting, new, Moments>>
  <2>1. CASE NewConv(h)
    BY <1>2, <2>1, NewConvHolds
  <2>2. CASE ~NewConv(h)
    <3>1. Holds(pair)'
      BY <1>2, <2>2, FileHolds, SetStatusHolds, RelationHolds, AddMemberHolds, JoinsHolds, SendTextHolds,
         SetIndexHolds, CodesHold DEF FriendWrites
    <3> QED BY <3>1
  <2> QED BY <2>1, <2>2
<1>3. CASE /\ \/ Publish(h) \/ Circle(h) \/ Feed(h) \/ Answer(h) \/ Hide(h) \/ DropPost(h)
              \/ Liked(h) \/ Like(h) \/ FindPost(h) \/ Comment(h) \/ Uncomment(h)
           /\ UNCHANGED <<setting, Friendly>>
  <2>1. Holds(pair)'
    BY <1>3, PublishHolds, CircleHolds, FeedHolds, AnswerHolds, HideHolds, LikedHolds, LikeHolds,
       FindPostHolds, CommentHolds, UncommentHolds
  <2> QED BY <2>1
<1> QED BY <1>1, <1>2, <1>3 DEF Serve

LEMMA NextHolds == IInv /\ [Next]_vars => IInv'
<1> SUFFICES ASSUME IInv, [Next]_vars PROVE IInv'
  OBVIOUS
<1>1. PICK pair : Holds(pair)
  BY DEF IInv
<1>2. CASE UNCHANGED vars
  BY <1>2, StutterHolds
<1>3. CASE Next
  <2>1. NoteBarred
    BY <1>3 DEF Next
  <2>2. ASSUME NEW h \in Handlers, Serve(h)
        PROVE  IInv'
    BY <1>1, <2>1, <2>2, ServeHolds DEF IInv
  <2>3. ASSUME NEW h \in Handlers, NEW r \in setting.ask, Ask(h, r)
        PROVE  IInv'
    <3>1. Holds(pair)'
      BY <1>1, <2>1, <2>3, AskHolds
    <3> QED BY <3>1 DEF IInv
  <2>4. CASE Faulty
    <3>1. UNCHANGED <<setting, new, Moments>>
      BY <2>4 DEF Faulty
    <3>2. ASSUME NEW h \in Handlers, Refused(h)
          PROVE  IInv'
      <4>1. Holds(pair)'
        BY <1>1, <2>1, <3>1, <3>2, RefusedHolds
      <4> QED BY <4>1 DEF IInv
    <3>3. CASE hand' = [h \in Handlers |-> Idle] /\ UNCHANGED <<Relations, Chats, Helpers>>
      <4>1. Holds(pair)'
        BY <1>1, <3>1, <3>3, CrashHolds
      <4> QED BY <4>1 DEF IInv
    <3> QED BY <2>4, <3>2, <3>3 DEF Faulty
  <2> QED BY <1>3, <2>2, <2>3, <2>4 DEF Next
<1> QED BY <1>2, <1>3

-----------------------------------------------------------------------------
(* What is promised.                                                       *)

LEMMA Always == Spec => []IInv
BY InitHolds, NextHolds, PTL DEF Spec

LEMMA RowsAreTyped == IInv => TypeOK
<1> SUFFICES ASSUME NEW pair, Holds(pair) PROVE TypeOK
  BY DEF IInv
<1>1. People /\ CodeBook /\ Walls /\ Talk(pair)
  BY DEF Holds
<1>2. ToSet(filed) \subseteq Row
  <2>1. filed \in Seq(Row)
    BY <1>1 DEF People
  <2>2. \A i \in DOMAIN filed : filed[i] \in Row
    BY <2>1
  <2> QED BY <2>2 DEF ToSet
<1>3. /\ \A c \in DOMAIN convs : convs[c] \subseteq Everyone
      /\ \A m \in DOMAIN said : said[m].conv \in DOMAIN convs
  BY <1>1 DEF Talk
<1>4. \A p \in DOMAIN posts : ToSet(posts[p].likes) \subseteq Everyone /\ IsInjective(posts[p].likes)
  <2> SUFFICES ASSUME NEW p \in DOMAIN posts
               PROVE  ToSet(posts[p].likes) \subseteq Everyone /\ IsInjective(posts[p].likes)
    OBVIOUS
  <2>1. posts[p] \in PostRow
    BY <1>1 DEF Walls
  <2>2. posts[p].likes \in Seq(Everyone) /\ IsInjective(posts[p].likes)
    BY <2>1 DEF PostRow, Likes
  <2> DEFINE l == posts[p].likes
  <2>3. \A i \in DOMAIN l : l[i] \in Everyone
    BY <2>2
  <2> QED BY <2>2, <2>3 DEF ToSet
<1>5. \A c \in Codes : codes[c].enabled => codes[c].there
  BY <1>1 DEF CodeBook, CodeRow
<1>6. \A c \in DOMAIN comments : comments[c].post \in DOMAIN posts
  BY <1>1 DEF Walls
<1> QED BY <1>1, <1>2, <1>3, <1>4, <1>5, <1>6 DEF TypeOK, People, Talk

\* Whoever is in the conversation of a message has sent it, or it is for him,
\* unless somebody was invited into it: two are looked for, and put, into one
\* conversation only.
THEOREM SocialIsSafe == Spec => []SocialInv
<1>1. IInv => Private
  BY DEF IInv, Holds, Talk, Private
<1>2. IInv => SocialInv
  BY <1>1, RowsAreTyped DEF SocialInv
<1> QED BY <1>2, Always, PTL

\* No request gets past a check that has failed ever since the request came.
THEOREM BarredHolds == Spec => []NeverWhollyBarred
<1>1. IInv => NeverWhollyBarred
  BY DEF IInv, Holds, Handler, Faces, NeverWhollyBarred
<1> QED BY <1>1, Always, PTL

\* Relations are written by two statements only.
LEMMA RelationsPass ==
  ASSUME [Next]_vars, ~\E h \in Handlers : AddRow(h) \/ DropRow(h)
  PROVE  friend' = friend /\ agreed \subseteq agreed'
<1>1. CASE UNCHANGED vars
  BY <1>1 DEF vars, Friendly, Relations
<1>2. ASSUME NEW h \in Handlers, FriendChecks(h)
      PROVE  friend' = friend /\ agreed \subseteq agreed'
  <2>1. CASE UNCHANGED <<Relations>>
    BY <2>1 DEF Relations
  <2>2. CASE Find(h)
    BY <2>2 DEF Find
  <2>3. CASE Assign(h)
    BY <2>3 DEF Assign
  <2>4. CASE Invite(h)
    BY <2>4 DEF Invite
  <2> QED BY <1>2, <2>1, <2>2, <2>3, <2>4
          DEF FriendChecks, Already, Pending, HasRow, HasBlack, FindConv, HasHelp, HasKefu, BindNext,
              CodeCount, Valid, MayInvite, IsIn
<1>3. ASSUME NEW h \in Handlers, FriendWrites(h)
      PROVE  friend' = friend /\ agreed \subseteq agreed'
  <2>1. CASE UNCHANGED <<Relations>>
    BY <2>1 DEF Relations
  <2>2. CASE File(h) \/ SetStatus(h) \/ SetBlack(h)
    BY <2>2 DEF File, SetStatus, SetBlack
  <2> QED BY <1>3, <2>1, <2>2
          DEF FriendWrites, NewConv, AddMember, Joins, SendText, SetIndex, CodeUsed, WriteCode
<1>4. ASSUME NEW h \in Handlers, Serve(h)
      PROVE  friend' = friend /\ agreed \subseteq agreed'
  BY <1>2, <1>3, <1>4 DEF Serve, Friendly, Relations
<1>5. ASSUME NEW h \in Handlers, NEW r \in setting.ask, Ask(h, r)
      PROVE  friend' = friend /\ agreed \subseteq agreed'
  BY <1>5 DEF Ask, Relations
<1>6. ASSUME Faulty
      PROVE  friend' = friend /\ agreed \subseteq agreed'
  BY <1>6 DEF Faulty, Refused, Relations
<1> QED BY <1>1, <1>4, <1>5, <1>6 DEF Next

LEMMA Befriends ==
  ASSUME NEW pair, Holds(pair), NEW h \in Handlers, AddRow(h)
  PROVE  \E p \in Pairs : Abstract!Befriend(p)
<1> DEFINE a == Now(h).a
           b == Now(h).b
<1>1. At(h, "row") /\ friend' = friend \cup {<<a, b>>} /\ agreed' = agreed
  BY DEF AddRow
<1>2. Now(h).do = "row" /\ Fits(agreed, Req(h), Now(h)) /\ agreed \subseteq Pairs
  BY <1>1, Here DEF Holds, People
<1>3. {a, b} \in agreed
  BY <1>2 DEF Fits
<1> HIDE DEF a, b
<1>4. Related' = Related \cup {{a, b}}
  <2>1. \A r : r = <<a, b>> => {r[1], r[2]} = {a, b}
    OBVIOUS
  <2>2. <<a, b>> \in friend'
    BY <1>1
  <2>3. \A r \in friend' : r \in friend \/ r = <<a, b>>
    BY <1>1
  <2>4. {a, b} \in Related'
    BY <2>1, <2>2 DEF Related
  <2>5. friend \subseteq friend'
    BY <1>1
  <2>6. Related \subseteq Related'
    BY <2>5 DEF Related
  <2>7. \A x \in Related' : x \in Related \/ x = {a, b}
    BY <2>1, <2>3 DEF Related
  <2> QED BY <2>4, <2>6, <2>7
<1> QED BY <1>1, <1>2, <1>3, <1>4 DEF Abstract!Befriend

LEMMA Parting ==
  ASSUME NEW pair, Holds(pair), NEW h \in Handlers, DropRow(h)
  PROVE  (\E p \in Pairs : Abstract!Part(p)) \/ UNCHANGED <<agreed, Related>>
<1> DEFINE a == Now(h).a
           b == Now(h).b
<1>1. At(h, "unrow") /\ friend' = friend \ {<<a, b>>} /\ agreed' = agreed
  BY DEF DropRow
<1>2. Now(h).do = "unrow" /\ Fits(agreed, Req(h), Now(h))
  BY <1>1, Here
<1>3. {a, b} \in Pairs
  BY <1>2 DEF Fits, Pairs, Everyone
<1> HIDE DEF a, b
<1>4. /\ \A x \in Related' : x \in Related
      /\ \A x \in Related : x \in Related' \/ x = {a, b}
  <2>1. \A r \in friend : r \in friend' \/ r = <<a, b>>
    BY <1>1
  <2>2. \A r : r = <<a, b>> => {r[1], r[2]} = {a, b}
    OBVIOUS
  <2>3. friend' \subseteq friend
    BY <1>1
  <2> QED BY <2>1, <2>2, <2>3 DEF Related
<1>5. CASE {a, b} \in Related'
  <2>1. Related' = Related
    BY <1>4, <1>5
  <2> QED BY <1>1, <2>1
<1>6. CASE {a, b} \notin Related'
  <2>1. Related' = Related \ {{a, b}}
    BY <1>4, <1>6
  <2> QED BY <1>1, <1>3, <2>1 DEF Abstract!Part
<1> QED BY <1>5, <1>6

\* The rows of the relations keep to the agreements of the users.
THEOREM FriendsHaveAgreed == Spec => ImplementsFriendship
<1>1. Init => Abstract!Init
  BY DEF Init, FriendsInit, Abstract!Init, Related
<1>2. ASSUME IInv, IInv', [Next]_vars
      PROVE  [Abstract!Next]_<<agreed, Related>>
  <2>1. PICK pair : Holds(pair)
    BY <1>2 DEF IInv
  <2>2. ASSUME NEW h \in Handlers, AddRow(h)
        PROVE  Abstract!Next
    BY <2>1, <2>2, Befriends DEF Abstract!Next
  <2>3. ASSUME NEW h \in Handlers, DropRow(h)
        PROVE  [Abstract!Next]_<<agreed, Related>>
    BY <2>1, <2>3, Parting DEF Abstract!Next
  <2>4. CASE ~\E h \in Handlers : AddRow(h) \/ DropRow(h)
    <3>1. friend' = friend /\ agreed \subseteq agreed'
      BY <1>2, <2>4, RelationsPass
    <3>2. agreed' \subseteq Pairs
      BY <1>2 DEF IInv, Holds, People
    <3>3. Related' = Related
      BY <3>1 DEF Related
    <3>4. Abstract!Agree
      BY <3>1, <3>2, <3>3 DEF Abstract!Agree
    <3> QED BY <3>4 DEF Abstract!Next
  <2> QED BY <2>2, <2>3, <2>4
<1> QED BY <1>1, <1>2, Always, PTL DEF Spec, ImplementsFriendship, Abstract!Spec

\* Likes are written by one statement only.
LEMMA LikesPass ==
  ASSUME NEW pair, Holds(pair), [Next]_vars, NEW p \in DOMAIN posts
  PROVE  \/ posts'[p].likes = posts[p].likes
         \/ \E h \in Handlers : /\ At(h, "like") /\ Req(h).id = p /\ Req(h).by \in Everyone
                                /\ hand[h].mem \in Likes
                                /\ posts'[p].likes = Toggled(Req(h).by, hand[h].mem)
<1>0. Walls /\ posts \in Seq(PostRow)
  BY DEF Holds, Walls
<1>1. CASE posts' = posts
  BY <1>1
<1>2. ASSUME NEW h \in Handlers, Publish(h)
      PROVE  posts'[p].likes = posts[p].likes
  <2>1. PICK row : posts' = Append(posts, row)
    BY <1>2 DEF Publish
  <2>2. posts'[p] = posts[p]
    BY <1>0, <2>1
  <2> QED BY <2>2
<1>3. ASSUME NEW i, NEW row, SetPost(i, row), There(i) => row.likes = posts[i].likes
      PROVE  posts'[p].likes = posts[p].likes
  <2>1. CASE There(i)
    <3>1. posts' = [posts EXCEPT ![i] = row]
      BY <1>3, <2>1 DEF SetPost
    <3>2. posts'[p] = IF p = i THEN row ELSE posts[p]
      BY <1>0, <3>1
    <3> QED BY <1>3, <2>1, <3>2
  <2>2. CASE ~There(i)
    BY <1>3, <2>2 DEF SetPost
  <2> QED BY <2>1, <2>2
<1>4. ASSUME NEW h \in Handlers, Hide(h) \/ DropPost(h)
      PROVE  posts'[p].likes = posts[p].likes
  <2> DEFINE i == Req(h).id
             hid == [posts[i] EXCEPT !.hidden = Req(h).on]
             off == [posts[i] EXCEPT !.there = FALSE]
  <2>1. SetPost(i, hid) \/ SetPost(i, off)
    BY <1>4 DEF Hide, DropPost
  <2>2. There(i) => hid.likes = posts[i].likes /\ off.likes = posts[i].likes
    <3>1. Req(h) \in Request
      BY <1>4, Here DEF Hide, DropPost
    <3>2. Req(h).on \in BOOLEAN /\ FALSE \in BOOLEAN /\ <<>> \in Likes
      BY <3>1, ByEveryone DEF Likes, IsInjective
    <3> HIDE DEF i
    <3> QED BY <1>0, <3>2, PostChanged
  <2> HIDE DEF hid, off, i
  <2> QED BY <1>3, <2>1, <2>2
<1>5. ASSUME NEW h \in Handlers, Like(h)
      PROVE  \/ posts'[p].likes = posts[p].likes
             \/ /\ At(h, "like") /\ Req(h).id = p /\ Req(h).by \in Everyone
                /\ hand[h].mem \in Likes
                /\ posts'[p].likes = Toggled(Req(h).by, hand[h].mem)
  <2> DEFINE i == Req(h).id
             t == Toggled(Req(h).by, hand[h].mem)
             row == [posts[i] EXCEPT !.likes = t]
  <2>1. At(h, "like") /\ SetPost(i, row)
    BY <1>5 DEF Like
  <2>2. Knows(pair, h) /\ Req(h) \in Request
    BY <2>1, Here
  <2>3. hand[h].mem \in Likes /\ Req(h).by \in Everyone /\ FALSE \in BOOLEAN
    BY <2>1, <2>2, ByEveryone DEF Knows
  <2>4. t \in Likes
    BY <2>3, ToggledLikes
  <2>5. There(i) => row.likes = t
    <3> HIDE DEF i, t
    <3> QED BY <1>0, <2>3, <2>4, PostChanged
  <2> HIDE DEF row
  <2>6. CASE There(i) /\ p = i
    <3>1. posts' = [posts EXCEPT ![i] = row]
      BY <2>1, <2>6 DEF SetPost
    <3>2. posts'[p] = row
      BY <1>0, <2>6, <3>1
    <3> QED BY <2>1, <2>3, <2>5, <2>6, <3>2
  <2>7. CASE There(i) /\ p # i
    <3>1. posts' = [posts EXCEPT ![i] = row]
      BY <2>1, <2>7 DEF SetPost
    <3>2. posts'[p] = posts[p]
      BY <1>0, <2>7, <3>1
    <3> QED BY <3>2
  <2>8. CASE ~There(i)
    BY <2>1, <2>8 DEF SetPost
  <2> QED BY <2>6, <2>7, <2>8
<1>6. ASSUME NEW h \in Handlers, Serve(h)
      PROVE  \/ posts' = posts
             \/ Publish(h) \/ Hide(h) \/ DropPost(h) \/ Like(h)
  BY <1>6 DEF Serve, Moments, Circle, Feed, Answer, Liked, FindPost, Comment, Uncomment
<1>7. ASSUME NEW h \in Handlers, NEW r \in setting.ask, Ask(h, r)
      PROVE  posts' = posts
  BY <1>7 DEF Ask, Moments
<1>8. ASSUME Faulty \/ UNCHANGED vars
      PROVE  posts' = posts
  BY <1>8 DEF Faulty, vars, Moments
<1> QED BY <1>1, <1>2, <1>4, <1>5, <1>6, <1>7, <1>8 DEF Next

\* No like is lost but to its author, or to one who had read the list without it.
THEOREM LikesStay == Spec => LikesHeld
<1>1. ASSUME IInv, [Next]_vars, NEW p \in DOMAIN posts,
             NEW u \in ToSet(posts[p].likes) \ ToSet(posts'[p].likes)
      PROVE  \E h \in Handlers : At(h, "like") /\ Req(h).id = p
                                 /\ (Req(h).by = u \/ ~Contains(hand[h].mem, u))
  <2>1. PICK pair : Holds(pair)
    BY <1>1 DEF IInv
  <2>2. PICK h \in Handlers : /\ At(h, "like") /\ Req(h).id = p /\ Req(h).by \in Everyone
                              /\ hand[h].mem \in Likes
                              /\ posts'[p].likes = Toggled(Req(h).by, hand[h].mem)
    <3>1. posts'[p].likes # posts[p].likes
      BY <1>1
    <3> QED BY <1>1, <2>1, <3>1, LikesPass
  <2>3. \A v \in ToSet(hand[h].mem) : v # Req(h).by => v \in ToSet(Toggled(Req(h).by, hand[h].mem))
    BY <2>2, ToggledLikes
  <2>4. Contains(hand[h].mem, u) => u \in ToSet(hand[h].mem)
    BY <2>2 DEF Contains, ToSet, Likes
  <2>5. Req(h).by = u \/ ~Contains(hand[h].mem, u)
    BY <1>1, <2>2, <2>3, <2>4
  <2> QED BY <2>2, <2>5
<1>2. IInv /\ [Next]_vars =>
        [\A p \in DOMAIN posts : \A u \in ToSet(posts[p].likes) \ ToSet(posts'[p].likes) :
           \E h \in Handlers : At(h, "like") /\ Req(h).id = p
                               /\ (Req(h).by = u \/ ~Contains(hand[h].mem, u))]_vars
  BY <1>1
<1> QED BY <1>2, Always, PTL DEF Spec, LikesHeld
=============================================================================
