--------------------------- MODULE MessagesProofs ---------------------------
(***************************************************************************)
(* What MessagesProps promises, apart from arrival, for any members,       *)
(* readers, calls and limits.                                              *)
(***************************************************************************)
EXTENDS MessagesProps, FiniteSetTheorems, TLAPS

-----------------------------------------------------------------------------
(* Types.                                                                  *)

Counters == nextId \in Nat \ {0} /\ nextSeq \in Nat

\* What an answer on its way holds was stored when it was made.
AnswersStored ==
  \A r \in Readers : query[r].kind \in {"missed", "newest"} =>
    query[r].got \subseteq query[r].had /\ query[r].had \subseteq log

\* A call goes on after Insert if its document is in the collection.
StoredIsLogged ==
  \A a \in Attempts : /\ stage[a] = "stored" => a \in log
                      /\ a \in log => stage[a] \in {"stored", "sent", "dead"}

\* A message is due only for others than its sender, and once it is stored.
DueIsRight ==
  \A a \in Attempts : due[a] \subseteq Receivers(a) /\ (a \notin log => due[a] = {})

Types == TypeOK /\ Counters /\ AnswersStored /\ StoredIsLogged /\ DueIsRight

LEMMA LargerLog ==
  ASSUME NEW S, NEW T, S \subseteq T, NEW s \in Seq(S)
  PROVE  s \in Seq(T)
OBVIOUS

LEMMA TypesSend ==
  ASSUME Types, NEW a \in Attempts, Lookup(a) \/ Handle(a) \/ Block(a)
  PROVE  Types'
<1> USE MessagesAssumption DEF Types, TypeOK, Counters, AnswersStored, StoredIsLogged,
   DueIsRight, Stages, docs, counts, gateway, pages, drawn
<1>1. CASE Lookup(a)
  <2>1. stage' \in [Attempts -> Stages] /\ id' \in [Attempts -> Nat]
        /\ nextId' \in Nat \ {0}
    BY <1>1 DEF Lookup, Move
  <2>2. UNCHANGED <<seq, nextSeq, docs, counts, gateway, pages>>
    BY <1>1 DEF Lookup
  <2>3. TypeOK' /\ Counters' /\ AnswersStored' /\ DueIsRight'
    BY <2>1, <2>2
  <2>4. StoredIsLogged'
    BY <1>1 DEF Lookup, Move
  <2> QED BY <2>3, <2>4
<1>2. CASE NextSeq(a)
  <2>0. stage' \in [Attempts -> Stages]
    BY <1>2 DEF NextSeq, Move
  <2>1. seq' \in [Attempts -> Nat] /\ nextSeq' \in Nat
    BY <1>2 DEF NextSeq
  <2>2. UNCHANGED <<id, nextId, docs, counts, gateway, pages>>
    BY <1>2 DEF NextSeq
  <2>3. TypeOK' /\ Counters' /\ AnswersStored' /\ DueIsRight'
    BY <2>0, <2>1, <2>2
  <2>4. StoredIsLogged'
    BY <1>2 DEF NextSeq, Move
  <2> QED BY <2>3, <2>4
<1>3. CASE Insert(a)
  <2>1. log \subseteq log' /\ log' \subseteq log \cup {a}
    BY <1>3 DEF Insert
  <2>2. bus' \in Seq(log') /\ wire' \in [Readers -> Seq(log')]
    BY <1>3, <2>1, LargerLog DEF Insert
  <2>3. stage' \in [Attempts -> Stages] /\ log' \subseteq Attempts
    <3>1. stage' \in [Attempts -> Stages]
      BY <1>3 DEF Insert, Move
    <3>2. log' \subseteq Attempts
      BY <2>1
    <3> QED BY <3>1, <3>2
  <2>4. view' \in [Readers -> SUBSET log'] /\ blocked' \subseteq log'
    BY <1>3, <2>1 DEF Insert
  <2>5. due' \in [Attempts -> SUBSET Readers]
    <3>1. Receivers(a) \in SUBSET Readers
      BY DEF Receivers
    <3> QED BY <1>3, <3>1 DEF Insert
  <2>8. DueIsRight'
    <3>1. CASE Duplicate(a)
      <4>1. due' = due /\ log' = log
        BY <1>3, <3>1 DEF Insert
      <4> QED BY <4>1 DEF Receivers
    <3>2. CASE ~Duplicate(a)
      <4>1. due' = [due EXCEPT ![a] = Receivers(a)] /\ log' = log \cup {a}
        BY <1>3, <3>2 DEF Insert
      <4> QED BY <4>1 DEF Receivers
    <3> QED BY <3>1, <3>2
  <2>9. TypeOK'
    BY <1>3, <2>2, <2>3, <2>4, <2>5 DEF Insert
  <2>6. AnswersStored'
    BY <1>3, <2>1 DEF Insert
  <2>7. StoredIsLogged'
    <3>1. stage[a] = "numbered" /\ a \notin log
      BY <1>3 DEF Insert, Move
    <3>2. CASE Duplicate(a)
      BY <1>3, <3>1, <3>2 DEF Insert, Move
    <3>3. CASE ~Duplicate(a)
      BY <1>3, <3>1, <3>3 DEF Insert, Move
    <3> QED BY <3>2, <3>3
  <2> QED BY <1>3, <2>6, <2>7, <2>8, <2>9 DEF Insert
<1>4. ASSUME NEW r \in Readers, CountUnread(a, r) PROVE Types'
  <2>1. unread' \in [Readers -> Nat]
    <3>1. unread' = unread \/ unread' = [unread EXCEPT ![r] = unread[r] + 1]
      BY <1>4 DEF CountUnread
    <3>2. unread \in [Readers -> Nat] /\ unread[r] + 1 \in Nat
      OBVIOUS
    <3> QED BY <3>1, <3>2
  <2>2. due' \in [Attempts -> SUBSET Readers]
    <3>1. due[a] \ {r} \in SUBSET Readers
      OBVIOUS
    <3> QED BY <1>4, <3>1 DEF CountUnread
  <2>3. log' = log /\ \A b \in Attempts : due'[b] \subseteq due[b]
    BY <1>4 DEF CountUnread
  <2>4. DueIsRight'
    BY <2>3 DEF Receivers
  <2> QED BY <1>4, <2>1, <2>2, <2>4 DEF CountUnread, Redis
<1>6. CASE Publish(a)
  <2>1. stage[a] = "stored" /\ a \in log
    BY <1>6 DEF Publish, Move
  <2>2. stage' \in [Attempts -> Stages]
    BY <1>6 DEF Publish, Move
  <2>3. Append(bus, a) \in Seq(log)
    BY <2>1
  <2>4. bus' \in Seq(log)
    BY <1>6, <2>3 DEF Publish
  <2>5. StoredIsLogged'
    BY <1>6, <2>1 DEF Publish, Move
  <2> QED BY <1>6, <2>2, <2>4, <2>5 DEF Publish
<1>5. CASE Block(a)
  BY <1>5 DEF Block
<1> QED BY <1>1, <1>2, <1>3, <1>4, <1>5, <1>6 DEF Handle

LEMMA TypesGateway ==
  ASSUME Types, Consume \/ ApiCrash \/ (\E r \in Readers : Register(r) \/ Disconnect(r))
  PROVE  Types'
<1> USE MessagesAssumption DEF Types, TypeOK, Counters, AnswersStored, StoredIsLogged,
        DueIsRight, Stages, docs, counts, gateway, pages, drawn
<1>1. CASE Consume
  <2>1. bus' \in Seq(log) /\ Head(bus) \in log
    BY <1>1 DEF Consume
  <2>2. wire' \in [Readers -> Seq(log)]
    BY <1>1, <2>1 DEF Consume
  <2> QED BY <1>1, <2>1, <2>2 DEF Consume
<1>2. CASE ApiCrash
  <2>1. stage' \in [Attempts -> Stages]
    BY <1>2 DEF ApiCrash, UnderWay
  <2> QED BY <1>2, <2>1 DEF ApiCrash, UnderWay
<1>3. ASSUME NEW r \in Readers, Register(r) PROVE Types'
  BY <1>3 DEF Register
<1>4. ASSUME NEW r \in Readers, Disconnect(r) PROVE Types'
  <2>1. wire' \in [Readers -> Seq(log)]
    BY <1>4 DEF Disconnect
  <2> QED BY <1>4, <2>1 DEF Disconnect
<1> QED BY <1>1, <1>2, <1>3, <1>4

\* The answers of the server.
LEMMA AnswerFacts ==
  ASSUME Types, NEW r \in Readers, Answer(r)
  PROVE  \E S \in SUBSET Visible :
           /\ S \in IF query[r].kind = "sync" THEN SyncPages(query[r].after) ELSE HistoryPages
           /\ query' = [query EXCEPT ![r] =
                [kind |-> IF query[r].kind = "sync" THEN "missed" ELSE "newest",
                 after |-> query[r].after, got |-> S, had |-> Visible]]
           /\ query[r].after \in Nat
<1>1. query[r].after \in Nat
  BY DEF Answer, Types, TypeOK, Queries, NoQuery
<1>2. \A n, C, f : \A S \in Least(C, n, f) : S \subseteq C
  BY DEF Least
<1>3. (\A after \in Nat : \A S \in SyncPages(after) : S \subseteq Visible)
      /\ \A S \in HistoryPages : S \subseteq Visible
  BY <1>2 DEF SyncPages, HistoryPages, Visible
<1> QED BY <1>1, <1>3 DEF Answer

LEMMA TypesPage ==
  ASSUME Types, NEW r \in Readers, Page(r) \/ Reconnect(r) \/ AskHistory(r)
  PROVE  Types'
<1> USE MessagesAssumption DEF Types, TypeOK, Counters, AnswersStored, StoredIsLogged,
        DueIsRight, Stages, docs, counts, gateway, pages, drawn
<1>1. CASE Receive(r)
  <2>1. Head(wire[r]) \in log
    BY <1>1 DEF Receive
  <2>2. wire' \in [Readers -> Seq(log)] /\ view' \in [Readers -> SUBSET log]
    BY <1>1, <2>1 DEF Receive
  <2>3. lastSeq' \in [Readers -> Nat]
    BY <1>1, <2>1 DEF Receive
  <2> QED BY <1>1, <2>2, <2>3 DEF Receive
<1>2. CASE Answer(r)
  <2>1. PICK S \in SUBSET Visible :
          query' = [query EXCEPT ![r] =
                [kind |-> IF query[r].kind = "sync" THEN "missed" ELSE "newest",
                 after |-> query[r].after, got |-> S, had |-> Visible]]
          /\ query[r].after \in Nat
    BY <1>2, AnswerFacts
  <2>2. query' \in [Readers -> Queries]
    BY <2>1 DEF Queries, Visible
  <2>3. \A q \in Readers : query'[q].kind \in {"missed", "newest"} =>
          query'[q].got \subseteq query'[q].had /\ query'[q].had \subseteq log
    BY <2>1 DEF Visible
  <2> QED BY <1>2, <2>2, <2>3 DEF Answer
<1>3. CASE MergeMissed(r)
  <2>1. view' \in [Readers -> SUBSET log]
    BY <1>3 DEF MergeMissed
  <2> QED BY <1>3, <2>1 DEF MergeMissed, Queries, NoQuery
<1>4. CASE ReplacePage(r)
  <2>1. view' \in [Readers -> SUBSET log]
    BY <1>4 DEF ReplacePage
  <2> QED BY <1>4, <2>1 DEF ReplacePage, Queries, NoQuery
<1>5. CASE Reconnect(r)
  <2>1. query' \in [Readers -> Queries]
    BY <1>5 DEF Reconnect, Queries
  <2> QED BY <1>5, <2>1 DEF Reconnect
<1>6. CASE AskHistory(r)
  <2>1. query' \in [Readers -> Queries]
    BY <1>6 DEF AskHistory, Queries
  <2> QED BY <1>6, <2>1 DEF AskHistory
<1> QED BY <1>1, <1>2, <1>3, <1>4, <1>5, <1>6 DEF Page

LEMMA TypesReport ==
  ASSUME Types, NEW r \in Readers, NEW a \in Attempts, ReportRead(r, a) \/ ClearUnread(r, a)
  PROVE  Types'
<1> USE MessagesAssumption DEF Types, TypeOK, Counters, AnswersStored, StoredIsLogged,
        DueIsRight, Stages, docs, counts, gateway, pages, drawn
<1>1. CASE ReportRead(r, a)
  BY <1>1 DEF ReportRead, SetReport
<1>2. CASE ClearUnread(r, a)
  BY <1>2 DEF ClearUnread, SetReport, Cleared
<1> QED BY <1>1, <1>2

LEMMA TypesInit == Init => Types
BY MessagesAssumption
   DEF Init, Types, TypeOK, Counters, AnswersStored, StoredIsLogged, DueIsRight, Stages,
       Queries, NoQuery

LEMMA TypesStep == Types /\ [Next]_vars => Types'
<1> SUFFICES ASSUME Types, [Next]_vars PROVE Types'
  OBVIOUS
<1>1. CASE UNCHANGED vars
  BY <1>1 DEF vars, docs, counts, gateway, pages, drawn, Types, TypeOK, Counters,
              AnswersStored, StoredIsLogged, DueIsRight
<1>2. CASE Next
  BY <1>2, TypesSend, TypesGateway, TypesPage, TypesReport DEF Next
<1> QED BY <1>1, <1>2

-----------------------------------------------------------------------------
(* The unread count.                                                       *)

Unseen(r) == {a \in log : By(a) # r /\ r \notin due[a] /\ report[r][a] # "done"}

\* A report is about a stored message, and takes off only what was counted.
Marks ==
  \A r \in Readers, a \in Attempts :
    /\ report[r][a] # "none" => a \in log
    /\ r \in due[a] => report[r][a] # "done"

CountsRightInv == Types /\ Marks /\ BadgeBounded

\* Calls are finitely many.
LEMMA CallsFinite ==
  ASSUME NEW S \in SUBSET Attempts
  PROVE  IsFiniteSet(S) /\ Cardinality(S) \in Nat
BY MessagesAssumption, FS_Subset, FS_CardinalityType

\* A count that does not rise stays within messages that only become more.
LEMMA BoundKept ==
  ASSUME Types, Types', BadgeBounded, NEW r \in Readers,
         Unseen(r) \subseteq Unseen(r)', unread'[r] <= unread[r]
  PROVE  unread'[r] <= Cardinality(Unseen(r)')
<1>1. Unseen(r) \in SUBSET Attempts /\ Unseen(r)' \in SUBSET Attempts
  BY DEF Unseen, Types, TypeOK
<1>2. Cardinality(Unseen(r)) <= Cardinality(Unseen(r)')
  BY <1>1, CallsFinite, FS_Subset
<1>3. Cardinality(Unseen(r)) \in Nat /\ Cardinality(Unseen(r)') \in Nat
  BY <1>1, CallsFinite
<1>4. unread[r] <= Cardinality(Unseen(r))
  BY DEF BadgeBounded, Unseen
<1>5. unread[r] \in Nat /\ unread'[r] \in Nat
  BY MessagesAssumption DEF Types, TypeOK
<1> QED BY <1>2, <1>3, <1>4, <1>5

\* The reports a step makes: a first one about a message on the page, or the
\* clearing of the count.
LEMMA ReportsPass ==
  ASSUME Types, [Next]_vars, NEW r \in Readers, NEW a \in Attempts
  PROVE  \/ report'[r][a] = report[r][a]
         \/ report'[r][a] = "moved" /\ a \in log
         \/ report[r][a] = "moved" /\ report'[r][a] \in {"early", "done"}
              /\ (r \in due[a] => report'[r][a] = "early")
<1>1. CASE \E q \in Readers, b \in Attempts : ReportRead(q, b)
  BY <1>1 DEF ReportRead, SetReport, Types, TypeOK
<1>2. CASE \E q \in Readers, b \in Attempts : ClearUnread(q, b)
  BY <1>2 DEF ClearUnread, SetReport, Types, TypeOK
<1>3. CASE ~(\E q \in Readers, b \in Attempts : ReportRead(q, b) \/ ClearUnread(q, b))
  <2>1. report' = report
    BY <1>3 DEF Next, Lookup, Handle, NextSeq, Insert, CountUnread, Publish, Block, Page,
       Receive, Answer, MergeMissed, ReplacePage, Register, Disconnect, Reconnect,
       AskHistory, Consume, ApiCrash, counts, vars
  <2> QED BY <2>1
<1> QED BY <1>1, <1>2, <1>3

\* What a step does to a call and to the collection: a message comes
\* to be due only as it is stored, and nothing leaves the collection.
LEMMA StagesPass ==
  ASSUME Types, [Next]_vars, NEW a \in Attempts
  PROVE  /\ log \subseteq log'
         /\ a \in log => due'[a] \subseteq due[a]
         /\ a \in log' => a \in log \/ due'[a] = Receivers(a)
<1> USE DEF Types, TypeOK
<1>1. CASE \E b \in Attempts : Insert(b)
  <2>1. PICK b \in Attempts : Insert(b)
    BY <1>1
  <2>2. b \notin log
    BY <2>1 DEF Insert, Move, StoredIsLogged
  <2> QED BY <2>1, <2>2 DEF Insert
<1>2. CASE \E b \in Attempts, q \in Readers : CountUnread(b, q)
  BY <1>2 DEF CountUnread, docs
<1>3. CASE ~\E b \in Attempts : Insert(b) \/ (\E q \in Readers : CountUnread(b, q))
  <2>1. log' = log /\ due' = due
    BY <1>3 DEF Next, Lookup, Handle, NextSeq, Publish, Block, Page, Receive, Answer,
       MergeMissed, ReplacePage, Register, Disconnect, Reconnect, AskHistory, ReportRead,
       ClearUnread, Consume, ApiCrash, counts, docs, vars
  <2> QED BY <2>1
<1> HIDE DEF Types, TypeOK
<1> QED BY <1>1, <1>2, <1>3

\* The marks stay right.
LEMMA MarksStep == Types /\ Marks /\ [Next]_vars => Marks'
<1> SUFFICES ASSUME Types, Marks, [Next]_vars, NEW r \in Readers, NEW a \in Attempts
             PROVE  /\ report'[r][a] # "none" => a \in log'
                    /\ r \in due'[a] => report'[r][a] # "done"
  BY DEF Marks
<1>1. /\ log \subseteq log'
      /\ a \in log => due'[a] \subseteq due[a]
      /\ a \in log' => a \in log \/ due'[a] = Receivers(a)
  BY StagesPass
<1>2. \/ report'[r][a] = report[r][a]
      \/ report'[r][a] = "moved" /\ a \in log
      \/ report[r][a] = "moved" /\ report'[r][a] \in {"early", "done"}
           /\ (r \in due[a] => report'[r][a] = "early")
  BY ReportsPass
<1>3. /\ report[r][a] # "none" => a \in log
      /\ r \in due[a] => report[r][a] # "done"
  BY DEF Marks
<1> QED BY <1>1, <1>2, <1>3

\* The bound: CountUnread raises the count and adds the message, clearing makes
\* the count nothing, and no other step raises a count or hides a message.
LEMMA BadgeStep == CountsRightInv /\ [Next]_vars => BadgeBounded'
<1> SUFFICES ASSUME CountsRightInv, [Next]_vars, NEW r \in Readers
             PROVE  unread'[r] <= Cardinality(Unseen(r)')
  BY DEF BadgeBounded, Unseen
<1> USE DEF CountsRightInv
<1>1. Types'
  BY TypesStep
<1>2. ASSUME NEW b \in Unseen(r), report'[r][b] # "done"
      PROVE  b \in Unseen(r)'
  BY <1>2, StagesPass DEF Unseen, Types, TypeOK
<1>3. CASE \E a \in Attempts, q \in Readers : CountUnread(a, q)
  <2>1. PICK a \in Attempts, q \in Readers : CountUnread(a, q)
    BY <1>3
  <2>2. report' = report
    BY <2>1 DEF CountUnread
  <2>3. Unseen(r) \subseteq Unseen(r)'
    BY <1>2, <2>2 DEF Unseen
  <2>4. CASE unread' = unread \/ q # r
    <3>1. unread'[r] = unread[r]
      BY <2>1, <2>4, <1>1 DEF CountUnread, Types, TypeOK
    <3>2. unread'[r] <= unread[r]
      BY <3>1, <1>1 DEF Types, TypeOK
    <3> QED BY <1>1, <2>3, <3>2, BoundKept
  <2>5. CASE unread' # unread /\ q = r
    <3>1. unread'[r] = unread[r] + 1
      BY <2>1, <2>5 DEF CountUnread, Types, TypeOK
    <3>2. r \in due[a] /\ r \notin due'[a] /\ log' = log
      BY <2>1, <2>5 DEF CountUnread, Types, TypeOK, docs
    <3>3. report[r][a] # "done" /\ a \in log /\ By(a) # r
      BY <3>2 DEF Marks, Types, TypeOK, DueIsRight, Receivers
    <3>4. a \in Unseen(r)' /\ a \notin Unseen(r)
      BY <2>2, <3>2, <3>3 DEF Unseen
    <3>5. Unseen(r) \in SUBSET Attempts /\ Unseen(r)' \in SUBSET Attempts
      BY <1>1 DEF Unseen, Types, TypeOK
    <3>6. Cardinality(Unseen(r) \cup {a}) = Cardinality(Unseen(r)) + 1
      BY <3>4, <3>5, CallsFinite, FS_AddElement
    <3>7. Cardinality(Unseen(r) \cup {a}) <= Cardinality(Unseen(r)')
      BY <2>3, <3>4, <3>5, CallsFinite, FS_Subset
    <3>8. unread[r] <= Cardinality(Unseen(r)) /\ unread[r] \in Nat
      BY <1>1 DEF BadgeBounded, Unseen, Types, TypeOK
    <3>9. Cardinality(Unseen(r)) \in Nat /\ Cardinality(Unseen(r)') \in Nat
      BY <3>5, CallsFinite
    <3> QED BY <3>1, <3>6, <3>7, <3>8, <3>9
  <2> QED BY <2>4, <2>5
<1>4. CASE \E a \in Attempts : ClearUnread(r, a)
  <2>1. unread'[r] = 0
    BY <1>4, <1>1 DEF ClearUnread, Cleared, Types, TypeOK
  <2>2. Unseen(r)' \in SUBSET Attempts
    BY <1>1 DEF Unseen, Types, TypeOK
  <2>3. Cardinality(Unseen(r)') \in Nat
    BY <2>2, CallsFinite
  <2> QED BY <2>1, <2>3
<1>5. CASE ~\E a \in Attempts : ClearUnread(r, a) \/ \E q \in Readers : CountUnread(a, q)
  <2>1. CASE \E q \in Readers \ {r}, a \in Attempts : ClearUnread(q, a)
    <3>1. unread'[r] = unread[r] /\ report'[r] = report[r]
      BY <2>1, <1>1 DEF ClearUnread, SetReport, Types, TypeOK
    <3>2. Unseen(r) \subseteq Unseen(r)'
      BY <1>2, <3>1 DEF Unseen
    <3>3. unread'[r] <= unread[r]
      BY <3>1, <1>1 DEF Types, TypeOK
    <3> QED BY <1>1, <3>2, <3>3, BoundKept
  <2>2. CASE ~\E q \in Readers \ {r}, a \in Attempts : ClearUnread(q, a)
    <3>1. unread' = unread
      BY <2>2, <1>5 DEF Next, Lookup, Handle, NextSeq, Insert, Publish, Block, Page, Receive,
         Answer, MergeMissed, ReplacePage, Register, Disconnect, Reconnect, AskHistory,
         ReportRead, Consume, ApiCrash, counts, vars
    <3>2. \A b \in Attempts : report'[r][b] = report[r][b] \/ report'[r][b] = "moved"
      <4>1. CASE \E q \in Readers, a \in Attempts : ReportRead(q, a)
        BY <4>1 DEF ReportRead, SetReport, Types, TypeOK
      <4>2. CASE ~\E q \in Readers, a \in Attempts : ReportRead(q, a)
        <5>1. report' = report
          BY <4>2, <2>2, <1>5 DEF Next, Lookup, Handle, NextSeq, Insert, Publish, Block, Page,
             Receive, Answer, MergeMissed, ReplacePage, Register, Disconnect, Reconnect,
             AskHistory, Consume, ApiCrash, counts, vars
        <5> QED BY <5>1
      <4> QED BY <4>1, <4>2
    <3>3. Unseen(r) \subseteq Unseen(r)'
      BY <1>2, <3>2 DEF Unseen, Types, TypeOK
    <3>4. unread'[r] <= unread[r]
      BY <3>1, <1>1 DEF Types, TypeOK
    <3> QED BY <1>1, <3>3, <3>4, BoundKept
  <2> QED BY <2>1, <2>2
<1> QED BY <1>3, <1>4, <1>5

LEMMA CountsRightInit == Init => CountsRightInv
<1> SUFFICES ASSUME Init PROVE CountsRightInv
  OBVIOUS
<1>1. Types /\ Marks
  BY TypesInit DEF Init, Marks
<1>2. ASSUME NEW r \in Readers PROVE unread[r] <= Cardinality(Unseen(r))
  <2>1. unread[r] = 0
    BY MessagesAssumption DEF Init
  <2>2. Unseen(r) \in SUBSET Attempts
    BY <1>1 DEF Unseen, Types, TypeOK
  <2> QED BY <2>1, <2>2, CallsFinite
<1> QED BY <1>1, <1>2 DEF CountsRightInv, BadgeBounded, Unseen

\* The variables keep their types, and the unread count of a reader never
\* exceeds the messages of others that were counted and not read since.
THEOREM CountsRight == Spec => []CountsInv
<1>1. CountsRightInv /\ [Next]_vars => CountsRightInv'
  BY TypesStep, MarksStep, BadgeStep DEF CountsRightInv
<1>2. CountsRightInv => CountsInv
  BY DEF CountsRightInv, CountsInv, Types
<1> QED BY CountsRightInit, <1>1, <1>2, PTL DEF Spec

-----------------------------------------------------------------------------
(* The log.                                                                *)

\* Insert refuses a second document of a sender's client message id.
LogOnce == \A a, b \in log : Send[a] = Send[b] => a = b

LEMMA LogOnceStep == Types /\ LogOnce /\ [Next]_vars => LogOnce'
<1> SUFFICES ASSUME Types, LogOnce, [Next]_vars PROVE LogOnce'
  OBVIOUS
<1>1. CASE \E a \in Attempts : Insert(a)
  BY <1>1 DEF Insert, Duplicate, StoredKey, LogOnce
<1>2. CASE ~\E a \in Attempts : Insert(a)
  <2>1. log' = log
    BY <1>2 DEF Next, Lookup, Handle, NextSeq, CountUnread, Publish, Block, Page, Receive,
       Answer, MergeMissed, ReplacePage, Register, Disconnect, Reconnect, AskHistory,
       ReportRead, ClearUnread, Consume, ApiCrash, docs, vars
  <2> QED BY <2>1 DEF LogOnce
<1> QED BY <1>1, <1>2

ClientKeys == {Send[a] : a \in Attempts}
Kept == [k \in ClientKeys |-> Cardinality({a \in log : Send[a] = k})]
Shown == [r \in Readers |-> {Send[a] : a \in view[r]}]

\* A client message id is in the log once or never.
LEMMA KeptOf ==
  ASSUME LogOnce, NEW k \in ClientKeys
  PROVE  /\ (\E a \in log : Send[a] = k) => Kept[k] = 1
         /\ ~(\E a \in log : Send[a] = k) => Kept[k] = 0
<1>1. ASSUME NEW a \in log, Send[a] = k PROVE Kept[k] = 1
  <2>1. {b \in log : Send[b] = k} = {a}
    BY <1>1 DEF LogOnce
  <2> QED BY <2>1, FS_Singleton DEF Kept
<1>2. ASSUME ~(\E a \in log : Send[a] = k) PROVE Kept[k] = 0
  <2>1. {b \in log : Send[b] = k} = {}
    BY <1>2
  <2> QED BY <2>1, FS_EmptySet DEF Kept
<1> QED BY <1>1, <1>2

LEMMA LogInit == Init => Log!Init
<1> SUFFICES ASSUME Init PROVE Kept = [k \in ClientKeys |-> 0] /\ Shown = [r \in Readers |-> {}]
  BY DEF Log!Init, Kept, Shown, ClientKeys
<1>1. \A k \in ClientKeys : {a \in log : Send[a] = k} = {}
  BY DEF Init
<1>2. Cardinality({}) = 0
  BY FS_EmptySet
<1> QED BY <1>1, <1>2 DEF Init, Kept, Shown

\* Only Insert of a new message is Keep; only the steps of a page are Show.
LEMMA LogStep ==
  ASSUME Types, Types', LogOnce, LogOnce', [Next]_vars
  PROVE  \/ \E k \in ClientKeys : /\ Kept[k] = 0 /\ Shown' = Shown
                                  /\ Kept' = [Kept EXCEPT ![k] = 1]
         \/ \E r \in Readers : /\ Kept' = Kept
                               /\ \E S \in SUBSET {k \in ClientKeys : Kept[k] = 1} :
                                     Shown' = [Shown EXCEPT ![r] = S]
         \/ Kept' = Kept /\ Shown' = Shown
<1> USE DEF Types, TypeOK
<1>1. ASSUME log' = log PROVE Kept' = Kept
  BY <1>1 DEF Kept
<1>2. ASSUME view' = view PROVE Shown' = Shown
  BY <1>2 DEF Shown
<1>3. ASSUME NEW a \in Attempts, Insert(a), ~Duplicate(a)
      PROVE  \E k \in ClientKeys : /\ Kept[k] = 0 /\ Shown' = Shown
                                   /\ Kept' = [Kept EXCEPT ![k] = 1]
  <2>1. Send[a] \in ClientKeys /\ log' = log \cup {a} /\ view' = view
    BY <1>3 DEF ClientKeys, Insert, pages
  <2>2. Kept[Send[a]] = 0
    BY <1>3, <2>1, KeptOf DEF Duplicate, StoredKey
  <2>3. {b \in log' : Send[b] = Send[a]} = {a}
    BY <1>3, <2>1 DEF Duplicate, StoredKey
  <2>4. Cardinality({b \in log' : Send[b] = Send[a]}) = 1
    BY <2>3, FS_Singleton
  <2>5. \A k \in ClientKeys \ {Send[a]} :
          {b \in log' : Send[b] = k} = {b \in log : Send[b] = k}
    BY <2>1
  <2>6. Kept' = [Kept EXCEPT ![Send[a]] = 1]
    BY <2>4, <2>5 DEF Kept, ClientKeys
  <2> QED BY <2>1, <2>2, <2>6, <1>2
<1>4. ASSUME NEW r \in Readers, log' = log, \A q \in Readers \ {r} : view'[q] = view[q]
      PROVE  \E q \in Readers : /\ Kept' = Kept
                               /\ \E S \in SUBSET {k \in ClientKeys : Kept[k] = 1} :
                                     Shown' = [Shown EXCEPT ![q] = S]
  <2>1. \A a \in view'[r] : Send[a] \in ClientKeys /\ Kept[Send[a]] = 1
    BY <1>4, KeptOf DEF ClientKeys
  <2>2. Shown' = [Shown EXCEPT ![r] = {Send[a] : a \in view'[r]}]
    BY <1>4 DEF Shown
  <2>3. {Send[a] : a \in view'[r]} \in SUBSET {k \in ClientKeys : Kept[k] = 1}
    BY <2>1
  <2> QED BY <1>4, <1>1, <2>2, <2>3
<1>5. CASE \E a \in Attempts : Insert(a)
  BY <1>5, <1>1, <1>2, <1>3 DEF Insert, pages
<1>6. CASE \E r \in Readers : Page(r)
  <2>1. PICK r \in Readers : Page(r)
    BY <1>6
  <2>2. log' = log /\ \A q \in Readers \ {r} : view'[q] = view[q]
    BY <2>1 DEF Page, Receive, Answer, MergeMissed, ReplacePage, docs
  <2> QED BY <2>2, <1>4
<1>7. CASE ~((\E a \in Attempts : Insert(a)) \/ \E r \in Readers : Page(r))
  <2>1. log' = log /\ view' = view
    BY <1>7 DEF Next, Lookup, Handle, NextSeq, CountUnread, Publish, Block, Register,
       Disconnect, Reconnect, AskHistory, ReportRead, ClearUnread, Consume, ApiCrash, docs,
       pages, vars
  <2> QED BY <2>1, <1>1, <1>2
<1> QED BY <1>5, <1>6, <1>7

\* The statements of the handlers and the steps of the pages implement a log
\* in which a client message id occurs once and from which pages show parts.
THEOREM LogsImplemented == Spec => ImplementsLog
<1>1. Init => Types /\ LogOnce
  BY TypesInit DEF Init, LogOnce
<1>2. Types /\ LogOnce /\ [Next]_vars => (Types /\ LogOnce)'
  BY TypesStep, LogOnceStep
<1>3. ASSUME Types, LogOnce, [Next]_vars, (Types /\ LogOnce)'
      PROVE  [Log!Next]_<<Kept, Shown>>
  BY <1>3, LogStep DEF Log!Next, Log!Keep, Log!Show, Kept, Shown, ClientKeys
<1> QED BY LogInit, <1>1, <1>2, <1>3, PTL DEF Spec, ImplementsLog, Log!Spec, Kept, Shown,
   ClientKeys

-----------------------------------------------------------------------------
(* What the answers hold.                                                  *)

\* A stored message has an id of its own.
OwnIds ==
  /\ \A a \in Attempts : id[a] < nextId /\ (stage[a] \notin {"new", "replayed"} => id[a] # 0)
  /\ \A a, b \in Attempts : id[a] = id[b] /\ id[a] # 0 => a = b

\* A message that a sync left out was pushed before or is beyond its limit.
MissedComplete ==
  \A r \in Readers : query[r].kind = "missed" =>
    \A a \in query[r].had \ query[r].got :
      \/ seq[a] <= query[r].after
      \/ /\ Cardinality(query[r].got) = SyncLimit
         /\ \A b \in query[r].got : seq[b] <= seq[a]

\* A message that a history left out is older than a full page.
NewestComplete ==
  \A r \in Readers : query[r].kind = "newest" =>
    \A a \in query[r].had \ query[r].got :
      /\ Cardinality(query[r].got) = HistoryLimit
      /\ \A b \in query[r].got : id[a] < id[b]

AnswersInv == Types /\ OwnIds /\ MissedComplete /\ NewestComplete

LEMMA OwnIdsStep == Types /\ OwnIds /\ [Next]_vars => OwnIds'
<1> SUFFICES ASSUME Types, OwnIds, [Next]_vars PROVE OwnIds'
  OBVIOUS
<1> USE DEF Types, TypeOK, Counters, OwnIds
<1>1. CASE \E a \in Attempts : Lookup(a)
  <2>1. PICK a \in Attempts : Lookup(a)
    BY <1>1
  <2>2. \A b \in Attempts \ {a} : stage'[b] = stage[b] /\ id'[b] = id[b]
    BY <2>1 DEF Lookup, Move
  <2>3. stage[a] = "new"
        /\ IF StoredKey(a) THEN stage'[a] = "replayed" ELSE stage'[a] = "looked"
    BY <2>1 DEF Lookup, Move
  <2>4. IF StoredKey(a) THEN UNCHANGED <<id, nextId>>
        ELSE id'[a] = nextId /\ nextId' = nextId + 1
    BY <2>1 DEF Lookup
  <2>5. CASE StoredKey(a)
    BY <2>2, <2>3, <2>4, <2>5
  <2>6. CASE ~StoredKey(a)
    <3>1. id'[a] = nextId /\ nextId' = nextId + 1 /\ nextId \in Nat \ {0}
      BY <2>4, <2>6
    <3>2. ASSUME NEW b \in Attempts, b # a PROVE id'[b] = id[b] /\ id[b] \in Nat /\ id[b] < nextId
      BY <2>2, <3>2
    <3>3. ASSUME NEW b \in Attempts
          PROVE  id'[b] < nextId' /\ (stage'[b] \notin {"new", "replayed"} => id'[b] # 0)
      <4>1. CASE b = a
        BY <3>1, <4>1
      <4>2. CASE b # a
        BY <2>2, <3>1, <3>2, <4>2
      <4> QED BY <4>1, <4>2
    <3>4. ASSUME NEW b \in Attempts, NEW c \in Attempts, id'[b] = id'[c], id'[b] # 0, b # c
          PROVE  FALSE
      <4>1. b # a /\ c # a
        <5> HIDE DEF Types, TypeOK, OwnIds
        <5> QED BY <3>1, <3>2, <3>4
      <4>2. id[b] = id[c] /\ id[b] # 0
        BY <2>2, <3>4, <4>1
      <4>3. \A x, y \in Attempts : id[x] = id[y] /\ id[x] # 0 => x = y
        OBVIOUS
      <4> HIDE DEF Types, TypeOK, OwnIds
      <4> QED BY <3>4, <4>2, <4>3
    <3> HIDE DEF Types, TypeOK, Counters
    <3> QED BY <3>3, <3>4
  <2> QED BY <2>5, <2>6
<1>2. CASE \E a \in Attempts : Handle(a)
  <2>1. PICK a \in Attempts : Handle(a)
    BY <1>2
  <2>2. UNCHANGED <<id, nextId>>
    BY <2>1 DEF Handle, NextSeq, Insert, CountUnread, Publish, drawn
  <2>3. stage[a] \in {"looked", "numbered", "stored"}
        /\ \A b \in Attempts \ {a} : stage'[b] = stage[b]
    BY <2>1 DEF Handle, NextSeq, Insert, CountUnread, Publish, Move
  <2> QED BY <2>2, <2>3
<1>3. CASE ApiCrash
  <2>1. UNCHANGED <<id, nextId>>
    BY <1>3 DEF ApiCrash, drawn
  <2>2. \A a \in Attempts : stage'[a] \notin {"new", "replayed"}
                              => stage[a] \notin {"new", "replayed"}
    BY <1>3 DEF ApiCrash, UnderWay
  <2> QED BY <2>1, <2>2
<1>4. CASE ~((\E a \in Attempts : Lookup(a) \/ Handle(a)) \/ ApiCrash)
  <2>1. UNCHANGED <<id, nextId, stage>>
    BY <1>4 DEF Next, Block, Page, Receive, Answer, MergeMissed, ReplacePage, Register,
       Disconnect, Reconnect, AskHistory, ReportRead, ClearUnread, Consume, drawn, vars
  <2> QED BY <2>1
<1> QED BY <1>1, <1>2, <1>3, <1>4

\* The numbers of a stored message stay.
LEMMA NumbersPass ==
  ASSUME Types, [Next]_vars, NEW a \in log
  PROVE  id'[a] = id[a] /\ seq'[a] = seq[a]
<1> USE DEF Types, TypeOK, StoredIsLogged
<1>1. CASE \E b \in Attempts : Lookup(b) \/ NextSeq(b)
  BY <1>1 DEF Lookup, NextSeq, Move
<1>2. CASE ~\E b \in Attempts : Lookup(b) \/ NextSeq(b)
  <2>1. id' = id /\ seq' = seq
    BY <1>2 DEF Next, Handle, Insert, CountUnread, Publish, ApiCrash, Block, Page, Receive,
       Answer, MergeMissed, ReplacePage, Register, Disconnect, Reconnect, AskHistory,
       ReportRead, ClearUnread, Consume, drawn, vars
  <2> QED BY <2>1
<1> QED BY <1>1, <1>2

\* Only the server makes an answer.
LEMMA AnswersPass ==
  ASSUME Types, [Next]_vars, NEW r \in Readers
  PROVE  \/ query'[r] = query[r]
         \/ query'[r].kind \notin {"missed", "newest"}
         \/ Answer(r)
<1> USE DEF Types, TypeOK
<1>1. CASE \E q \in Readers : MergeMissed(q) \/ ReplacePage(q)
  BY <1>1 DEF MergeMissed, ReplacePage, NoQuery
<1>2. CASE \E q \in Readers : Reconnect(q) \/ AskHistory(q)
  BY <1>2 DEF Reconnect, AskHistory
<1>3. CASE \E q \in Readers : Answer(q)
  BY <1>3 DEF Answer
<1>4. CASE ~\E q \in Readers : \/ MergeMissed(q) \/ ReplacePage(q) \/ Reconnect(q)
                               \/ AskHistory(q) \/ Answer(q)
  <2>1. query' = query
    BY <1>4 DEF Next, Lookup, Handle, NextSeq, Insert, CountUnread, Publish, ApiCrash,
       Block, Page, Receive, Register, Disconnect, ReportRead, ClearUnread, Consume, pages,
       vars
  <2> QED BY <2>1
<1> QED BY <1>1, <1>2, <1>3, <1>4

\* Of a set from which some of the least were taken, those left out follow
\* a full answer.
LEMMA LeastLeaves ==
  ASSUME NEW C \in SUBSET Attempts, NEW n \in Nat, NEW f, NEW S \in Least(C, n, f),
         NEW y \in C \ S
  PROVE  Cardinality(S) = n /\ \A x \in S : f[x] <= f[y]
<1>1. S \subseteq C /\ IsFiniteSet(C) /\ S # C
  BY CallsFinite DEF Least
<1>2. Cardinality(S) # Cardinality(C)
  BY <1>1, FS_Subset
<1> QED BY <1>2 DEF Least

LEMMA AnswerIsComplete ==
  ASSUME Types, OwnIds, NEW r \in Readers, Answer(r)
  PROVE  /\ query'[r].kind = "missed" =>
              \A a \in query'[r].had \ query'[r].got :
                \/ seq[a] <= query'[r].after
                \/ /\ Cardinality(query'[r].got) = SyncLimit
                   /\ \A b \in query'[r].got : seq[b] <= seq[a]
         /\ query'[r].kind = "newest" =>
              \A a \in query'[r].had \ query'[r].got :
                /\ Cardinality(query'[r].got) = HistoryLimit
                /\ \A b \in query'[r].got : id[a] < id[b]
<1>1. PICK S \in SUBSET Visible :
        /\ S \in IF query[r].kind = "sync" THEN SyncPages(query[r].after) ELSE HistoryPages
        /\ query' = [query EXCEPT ![r] =
             [kind |-> IF query[r].kind = "sync" THEN "missed" ELSE "newest",
              after |-> query[r].after, got |-> S, had |-> Visible]]
        /\ query[r].after \in Nat
  BY AnswerFacts
<1>2. query'[r].got = S /\ query'[r].had = Visible /\ query'[r].after = query[r].after
      /\ query'[r].kind = IF query[r].kind = "sync" THEN "missed" ELSE "newest"
  BY <1>1 DEF Types, TypeOK
<1>3. Visible \in SUBSET Attempts /\ SyncLimit \in Nat /\ HistoryLimit \in Nat
  BY MessagesAssumption DEF Types, TypeOK, Visible
<1>4. CASE query[r].kind = "sync"
  <2>1. S \in Least({a \in Visible : seq[a] > query[r].after}, SyncLimit, seq)
    BY <1>1, <1>4 DEF SyncPages
  <2>2. ASSUME NEW a \in Visible \ S, ~(seq[a] <= query[r].after)
        PROVE  Cardinality(S) = SyncLimit /\ \A b \in S : seq[b] <= seq[a]
    <3>1. a \in {b \in Visible : seq[b] > query[r].after} \ S
      BY <1>1, <1>3, <2>2 DEF Types, TypeOK
    <3>2. {b \in Visible : seq[b] > query[r].after} \in SUBSET Attempts
      BY <1>3
    <3> QED BY <1>3, <2>1, <3>1, <3>2, LeastLeaves
  <2> QED BY <1>2, <1>4, <2>2
<1>5. CASE query[r].kind # "sync"
  <2> DEFINE down == [a \in Attempts |-> -id[a]]
  <2>1. S \in Least(Visible, HistoryLimit, down)
    BY <1>1, <1>5 DEF HistoryPages
  <2>2. ASSUME NEW a \in Visible \ S
        PROVE  Cardinality(S) = HistoryLimit /\ \A b \in S : id[a] < id[b]
    <3>1. Cardinality(S) = HistoryLimit /\ \A b \in S : down[b] <= down[a]
      BY <1>3, <2>1, <2>2, LeastLeaves
    <3>2. ASSUME NEW b \in S PROVE id[a] < id[b]
      <4>1. a \in log /\ b \in log /\ a # b /\ a \in Attempts /\ b \in Attempts
        BY <1>1, <2>2, <3>2 DEF Visible, Types, TypeOK
      <4>2. id[a] # id[b]
        BY <4>1 DEF OwnIds, Types, StoredIsLogged
      <4>3. -id[b] <= -id[a] /\ id[a] \in Nat /\ id[b] \in Nat
        BY <3>1, <4>1 DEF Types, TypeOK
      <4> QED BY <4>2, <4>3
    <3> QED BY <3>1, <3>2
  <2> QED BY <1>2, <1>5, <2>2
<1> QED BY <1>4, <1>5

LEMMA AnswersInvStep == AnswersInv /\ [Next]_vars => AnswersInv'
<1> SUFFICES ASSUME AnswersInv, [Next]_vars PROVE AnswersInv'
  OBVIOUS
<1> USE DEF AnswersInv
<1>1. Types' /\ OwnIds'
  BY TypesStep, OwnIdsStep
<1>2. ASSUME NEW r \in Readers, query'[r].kind = "missed",
             NEW a \in query'[r].had \ query'[r].got
      PROVE  \/ seq'[a] <= query'[r].after
             \/ /\ Cardinality(query'[r].got) = SyncLimit
                /\ \A b \in query'[r].got : seq'[b] <= seq'[a]
  <2>1. CASE query'[r] = query[r]
    <3>1. query[r].got \subseteq log /\ a \in log
      BY <1>2, <2>1 DEF Types, AnswersStored
    <3> QED BY <1>2, <2>1, <3>1, NumbersPass DEF MissedComplete
  <2>2. CASE Answer(r)
    BY <1>2, <2>2, AnswerIsComplete DEF Answer, drawn
  <2> QED BY <1>2, <2>1, <2>2, AnswersPass
<1>3. ASSUME NEW r \in Readers, query'[r].kind = "newest",
             NEW a \in query'[r].had \ query'[r].got
      PROVE  /\ Cardinality(query'[r].got) = HistoryLimit
             /\ \A b \in query'[r].got : id'[a] < id'[b]
  <2>1. CASE query'[r] = query[r]
    <3>1. query[r].got \subseteq log /\ a \in log
      BY <1>3, <2>1 DEF Types, AnswersStored
    <3> QED BY <1>3, <2>1, <3>1, NumbersPass DEF NewestComplete
  <2>2. CASE Answer(r)
    BY <1>3, <2>2, AnswerIsComplete DEF Answer, drawn
  <2> QED BY <1>3, <2>1, <2>2, AnswersPass
<1> QED BY <1>1, <1>2, <1>3 DEF MissedComplete, NewestComplete

LEMMA AnswersAlways == Spec => []AnswersInv
<1>1. Init => AnswersInv
  BY TypesInit, MessagesAssumption
     DEF Init, AnswersInv, OwnIds, MissedComplete, NewestComplete, NoQuery
<1> QED BY <1>1, AnswersInvStep, PTL DEF Spec

\* A message leaves a page only when the page is loaded again, and then only
\* if it was stored after the answer, was hidden, or is older than a full page.
THEOREM PagesKeep == Spec => ShownStays
<1>1. ASSUME AnswersInv, [Next]_vars, NEW r \in Readers, NEW a \in view[r] \ view'[r]
      PROVE  /\ query[r].kind = "newest"
             /\ \/ a \notin query[r].had
                \/ /\ Cardinality(query[r].got) = HistoryLimit
                   /\ \A b \in query[r].got : id[a] < id[b]
  <2>1. CASE ReplacePage(r)
    BY <1>1, <2>1 DEF ReplacePage, AnswersInv, NewestComplete, Types, TypeOK
  <2>2. CASE ~ReplacePage(r)
    <3>1. CASE \E q \in Readers : Receive(q) \/ MergeMissed(q)
      <4>1. view \in [Readers -> SUBSET log]
        BY <1>1 DEF AnswersInv, Types, TypeOK
      <4>2. view[r] \subseteq view'[r]
        BY <3>1, <4>1 DEF Receive, MergeMissed
      <4> QED BY <1>1, <4>2
    <3>2. CASE \E q \in Readers \ {r} : ReplacePage(q)
      BY <1>1, <3>2 DEF ReplacePage, AnswersInv, Types, TypeOK
    <3>3. CASE ~\E q \in Readers : Receive(q) \/ MergeMissed(q) \/ ReplacePage(q)
      <4>1. view' = view
        BY <1>1, <3>3 DEF Next, Lookup, Handle, NextSeq, Insert, CountUnread, Publish,
           ApiCrash, Block, Page, Answer, Register, Disconnect, Reconnect, AskHistory,
           ReportRead, ClearUnread, Consume, pages, vars
      <4> QED BY <1>1, <4>1
    <3> QED BY <2>2, <3>1, <3>2, <3>3
  <2> QED BY <2>1, <2>2
<1>2. AnswersInv /\ [Next]_vars =>
        [\A r \in Readers : \A a \in view[r] \ view'[r] :
           /\ query[r].kind = "newest"
           /\ \/ a \notin query[r].had
              \/ /\ Cardinality(query[r].got) = HistoryLimit
                 /\ \A b \in query[r].got : id[a] < id[b]]_vars
  BY <1>1
<1> QED BY <1>2, AnswersAlways, PTL DEF Spec, ShownStays

\* Of the messages stored when a sync was answered, a page misses afterwards
\* only those numbered up to where its pushes had come, or beyond a full answer.
THEOREM SyncsComplete == Spec => CatchesUp
<1>1. ASSUME AnswersInv, [Next]_vars, NEW r \in Readers,
             query[r].kind = "missed", query'[r] = NoQuery,
             NEW a \in query[r].had \ view'[r]
      PROVE  \/ seq[a] <= query[r].after
             \/ /\ Cardinality(query[r].got) = SyncLimit
                /\ \A b \in query[r].got : seq[b] <= seq[a]
  <2>1. query'[r] # query[r]
    BY <1>1 DEF NoQuery
  <2>2. MergeMissed(r)
    <3>1. CASE \E q \in Readers : Answer(q) \/ ReplacePage(q) \/ Reconnect(q) \/ AskHistory(q)
      BY <1>1, <2>1, <3>1 DEF Answer, ReplacePage, Reconnect, AskHistory, AnswersInv,
         Types, TypeOK, NoQuery
    <3>2. CASE \E q \in Readers \ {r} : MergeMissed(q)
      BY <2>1, <3>2 DEF MergeMissed, AnswersInv, Types, TypeOK
    <3>3. CASE ~\E q \in Readers : \/ Answer(q) \/ ReplacePage(q) \/ Reconnect(q)
                                   \/ AskHistory(q) \/ MergeMissed(q)
      <4>1. query' = query
        BY <1>1, <3>3 DEF Next, Lookup, Handle, NextSeq, Insert, CountUnread, Publish,
           ApiCrash, Block, Page, Receive, Register, Disconnect, ReportRead, ClearUnread,
           Consume, pages, vars
      <4> QED BY <2>1, <4>1
    <3> QED BY <3>1, <3>2, <3>3
  <2>3. view \in [Readers -> SUBSET log]
    BY <1>1 DEF AnswersInv, Types, TypeOK
  <2>4. view'[r] = view[r] \cup query[r].got
    BY <2>2, <2>3 DEF MergeMissed
  <2> QED BY <1>1, <2>4 DEF AnswersInv, MissedComplete
<1>2. AnswersInv /\ [Next]_vars =>
        [\A r \in Readers : query[r].kind = "missed" /\ query'[r] = NoQuery =>
           \A a \in query[r].had \ view'[r] :
             \/ seq[a] <= query[r].after
             \/ /\ Cardinality(query[r].got) = SyncLimit
                /\ \A b \in query[r].got : seq[b] <= seq[a]]_vars
  BY <1>1
<1> QED BY <1>2, AnswersAlways, PTL DEF Spec, CatchesUp
=============================================================================
