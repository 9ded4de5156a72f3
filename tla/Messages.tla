------------------------------ MODULE Messages ------------------------------
(***************************************************************************)
(* The messages of one conversation: SendMessage stores a message in       *)
(* MongoDB, counts it as unread and publishes it on a Redis channel; the   *)
(* gateway pushes it to the connections it has registered.  A client that  *)
(* lost its connection asks for what it missed by sequence number, and a   *)
(* chat page that opens asks for the newest messages.                      *)
(*                                                                         *)
(* Every statement of a handler is an action.  Redis delivers an event at  *)
(* most once; the faults of an instance are bounded by MaxFaults.          *)
(***************************************************************************)
EXTENDS Integers, FiniteSets, Sequences

CONSTANTS
  Users,          \* the members of the conversation
  Readers,        \* those whose client is modelled
  Attempts,       \* calls of SendMessage, numbered; a resend has a higher number
  Send,           \* who calls, and under which client message id
  SyncLimit, HistoryLimit,
  Reported,       \* the messages whose reading a client reports
  Millis,         \* a time in milliseconds, far above the sequence counter
  MaxFaults, MaxQueries

Key == [by : Users, key : STRING]

ASSUME MessagesAssumption ==
  /\ Readers \subseteq Users
  /\ Attempts \subseteq Nat /\ IsFiniteSet(Attempts) /\ Reported \subseteq Attempts
  /\ Send \in [Attempts -> Key]
  /\ SyncLimit \in Nat \ {0} /\ HistoryLimit \in Nat \ {0}
  /\ Millis \in Nat /\ MaxFaults \in Nat /\ MaxQueries \in Nat

VARIABLES
  stage,    \* progress of a call of SendMessage
  id, seq,  \* what the call has drawn; 0: nothing yet
  log,      \* calls whose document is in the message collection
  blocked,  \* documents the administration hides
  nextId, nextSeq,
  due,      \* the receivers a call has yet to count its message for
  unread,   \* the unread counts in Redis
  lastRead, \* conversation_member.last_read_msg_id
  report,   \* progress of the read report of a reader on a message
  bus,      \* events published and not yet taken by the gateway
  wire,     \* frames written to a reader's connection
  conn,     \* "opening": open for the client, not yet registered at the gateway
  view,     \* the messages a reader's page shows
  lastSeq,  \* the highest sequence number pushed to the page
  query,    \* the page's request under way
  faults, queries

docs    == <<log, blocked>>
drawn   == <<id, seq, nextId, nextSeq>>
counts  == <<due, unread, lastRead, report>>
gateway == <<bus, wire, conn>>
pages   == <<view, lastSeq, query, queries>>
vars == <<stage, docs, drawn, counts, gateway, pages, faults>>

NoQuery == [kind |-> "none"]
By(a) == Send[a].by

Init ==
  /\ stage = [a \in Attempts |-> "new"]
  /\ id = [a \in Attempts |-> 0] /\ seq = [a \in Attempts |-> 0]
  /\ log = {} /\ blocked = {}
  /\ nextId = 1 /\ nextSeq = 1 /\ due = [a \in Attempts |-> {}]
  /\ unread = [r \in Readers |-> 0] /\ lastRead = [r \in Readers |-> 0]
  /\ report = [r \in Readers |-> [a \in Attempts |-> "none"]]
  /\ bus = <<>> /\ wire = [r \in Readers |-> <<>>]
  /\ conn = [r \in Readers |-> "up"]
  /\ view = [r \in Readers |-> {}] /\ lastSeq = [r \in Readers |-> 0]
  /\ query = [r \in Readers |-> NoQuery]
  /\ faults = 0 /\ queries = 0

-----------------------------------------------------------------------------
(* SendMessage, statement by statement.                                    *)

Move(a, from, to) == stage[a] = from /\ stage' = [stage EXCEPT ![a] = to]
StoredKey(a) == \E b \in log : Send[b] = Send[a]

\* The lookup by sender and client message id answers a resend; for others
\* the message id is drawn.
Lookup(a) ==
  /\ Move(a, "new", IF StoredKey(a) THEN "replayed" ELSE "looked")
  /\ \A b \in Attempts : b < a /\ Send[b] = Send[a] => stage[b] # "new"
  /\ IF StoredKey(a) THEN UNCHANGED <<id, nextId>>
     ELSE id' = [id EXCEPT ![a] = nextId] /\ nextId' = nextId + 1
  /\ UNCHANGED <<seq, nextSeq, docs, counts, gateway, pages, faults>>

\* Without Redis the sequence number is the time.
NextSeq(a) ==
  /\ Move(a, "looked", "numbered")
  /\ \/ /\ seq' = [seq EXCEPT ![a] = nextSeq] /\ nextSeq' = nextSeq + 1
        /\ UNCHANGED faults
     \/ /\ faults < MaxFaults /\ faults' = faults + 1
        /\ seq' = [seq EXCEPT ![a] = Millis] /\ UNCHANGED nextSeq
  /\ UNCHANGED <<id, nextId, docs, counts, gateway, pages>>

\* Fault: the index on sender and client message id is not unique.
DuplicateAllowed(a) == FALSE

Duplicate(a) == StoredKey(a)

\* Those of whom a client, and so a count, is modelled.
Receivers(a) == Readers \ {By(a)}

Insert(a) ==
  /\ Move(a, "numbered", IF Duplicate(a) THEN "failed" ELSE "stored")
  /\ IF Duplicate(a) THEN UNCHANGED <<log, due>>
     ELSE log' = log \cup {a} /\ due' = [due EXCEPT ![a] = Receivers(a)]
  /\ UNCHANGED <<blocked, drawn, unread, lastRead, report, gateway, pages, faults>>

Redis(fault) == IF fault THEN faults < MaxFaults /\ faults' = faults + 1 ELSE UNCHANGED faults

\* The message is counted for one receiver after another; that Redis fails is
\* not noticed.
CountUnread(a, r) ==
  /\ stage[a] = "stored" /\ r \in due[a] /\ due' = [due EXCEPT ![a] = @ \ {r}]
  /\ \/ Redis(FALSE) /\ unread' = [unread EXCEPT ![r] = @ + 1]
     \/ Redis(TRUE) /\ UNCHANGED unread
  /\ UNCHANGED <<stage, lastRead, report, gateway, docs, drawn, pages>>

\* A failure of PublishEvent is ignored.
Publish(a) ==
  /\ Move(a, "stored", "sent") /\ due[a] = {}
  /\ \/ Redis(FALSE) /\ bus' = Append(bus, a)
     \/ Redis(TRUE) /\ UNCHANGED bus
  /\ UNCHANGED <<counts, wire, conn, docs, drawn, pages>>

UnderWay == {"looked", "numbered", "stored"}

\* The api process dies with the calls it is serving.
ApiCrash ==
  /\ faults < MaxFaults /\ faults' = faults + 1
  /\ \E a \in Attempts : stage[a] \in UnderWay
  /\ stage' = [a \in Attempts |-> IF stage[a] \in UnderWay THEN "dead" ELSE stage[a]]
  /\ UNCHANGED <<docs, drawn, counts, gateway, pages>>

Handle(a) == NextSeq(a) \/ Insert(a) \/ (\E r \in Readers : CountUnread(a, r)) \/ Publish(a)

-----------------------------------------------------------------------------
(* The gateway: one consumer of the channel, a registry of connections.    *)

\* Fault: a connection that follows another one is not registered.
RegisteredOnce == {r \in Readers : conn[r] = "up" /\ faults = 0}

Registered == {r \in Readers : conn[r] = "up"}

\* StartEventConsumer and push: an event goes to who is registered right now.
Consume ==
  /\ bus # <<>> /\ bus' = Tail(bus)
  /\ wire' = [r \in Readers |-> IF r \in Registered THEN Append(wire[r], Head(bus))
                                ELSE wire[r]]
  /\ UNCHANGED <<stage, conn, docs, drawn, counts, pages, faults>>

\* handleWS registers the connection after the client has seen it open.
Register(r) ==
  /\ conn[r] = "opening" /\ conn' = [conn EXCEPT ![r] = "up"]
  /\ UNCHANGED <<stage, bus, wire, docs, drawn, counts, pages, faults>>

Disconnect(r) ==
  /\ conn[r] # "down" /\ faults < MaxFaults /\ faults' = faults + 1
  /\ conn' = [conn EXCEPT ![r] = "down"]
  /\ wire' = [wire EXCEPT ![r] = <<>>]
  /\ UNCHANGED <<stage, bus, docs, drawn, counts, pages>>

-----------------------------------------------------------------------------
(* The chat page of a reader.                                              *)

\* _handleWs: the position moves with every push, the page shows it once.
Receive(r) ==
  /\ wire[r] # <<>>
  /\ LET m == Head(wire[r]) IN
       /\ lastSeq' = [lastSeq EXCEPT ![r] = IF seq[m] > @ THEN seq[m] ELSE @]
       /\ view' = [view EXCEPT ![r] = @ \cup {m}]
  /\ wire' = [wire EXCEPT ![r] = Tail(@)]
  /\ UNCHANGED <<stage, bus, conn, docs, drawn, counts, query, queries, faults>>

\* The reconnect timer opens a connection and at once asks for what the page
\* has missed; it does not wait for the gateway.
Reconnect(r) ==
  /\ conn[r] = "down" /\ query[r] = NoQuery
  /\ conn' = [conn EXCEPT ![r] = "opening"]
  /\ query' = [query EXCEPT ![r] = [kind |-> "sync", after |-> lastSeq[r]]]
  /\ UNCHANGED <<stage, bus, wire, docs, drawn, counts, view, lastSeq, queries, faults>>

AskHistory(r) ==
  /\ query[r] = NoQuery /\ queries < MaxQueries /\ queries' = queries + 1
  /\ query' = [query EXCEPT ![r] = [kind |-> "history", after |-> 0]]
  /\ UNCHANGED <<stage, docs, drawn, counts, gateway, view, lastSeq, faults>>

\* The n members of C with the least values of f.
Least(C, n, f) ==
  {S \in SUBSET C : /\ Cardinality(S) = IF Cardinality(C) < n THEN Cardinality(C) ELSE n
                    /\ \A x \in S, y \in C \ S : f[x] <= f[y]}

Visible == log \ blocked

\* Fault: the position itself is asked for again, and what follows it is not.
SyncPagesFromBelow(after) == Least({a \in Visible : seq[a] <= after}, SyncLimit, seq)

\* Sync: what follows a sequence number, oldest first, up to the limit.
SyncPages(after) == Least({a \in Visible : seq[a] > after}, SyncLimit, seq)

\* Fault: the oldest messages.
HistoryPagesOldest == Least(Visible, HistoryLimit, id)

\* History: the newest by message id, up to the limit.
HistoryPages == Least(Visible, HistoryLimit, [a \in Attempts |-> -id[a]])

\* had is what was stored when the server answered.
Answer(r) ==
  /\ query[r].kind \in {"sync", "history"}
  /\ \E S \in IF query[r].kind = "sync" THEN SyncPages(query[r].after) ELSE HistoryPages :
       query' = [query EXCEPT ![r] =
         [kind |-> IF @.kind = "sync" THEN "missed" ELSE "newest",
          after |-> @.after, got |-> S, had |-> Visible]]
  /\ UNCHANGED <<stage, docs, drawn, counts, gateway, view, lastSeq, queries, faults>>

\* The answer of a sync is merged, the position stays.
MergeMissed(r) ==
  /\ query[r].kind = "missed"
  /\ view' = [view EXCEPT ![r] = @ \cup query[r].got]
  /\ query' = [query EXCEPT ![r] = NoQuery]
  /\ UNCHANGED <<stage, docs, drawn, counts, gateway, lastSeq, queries, faults>>

\* _loadHistory replaces the page.
ReplacePage(r) ==
  /\ query[r].kind = "newest"
  /\ view' = [view EXCEPT ![r] = query[r].got]
  /\ query' = [query EXCEPT ![r] = NoQuery]
  /\ UNCHANGED <<stage, docs, drawn, counts, gateway, lastSeq, queries, faults>>

-----------------------------------------------------------------------------
(* MarkRead: the read position, then the unread count; reports may          *)
(* overtake each other.                                                    *)

SetReport(r, a, to) == report' = [report EXCEPT ![r][a] = to]

ReportRead(r, a) ==
  /\ a \in view[r] \cap Reported /\ By(a) # r /\ report[r][a] = "none"
  /\ SetReport(r, a, "moved")
  /\ lastRead' = [lastRead EXCEPT ![r] = id[a]]
  /\ UNCHANGED <<stage, due, unread, docs, drawn, gateway, pages, faults>>

\* Fault: reading leaves the count as it is.
ClearedNever(r) == unread[r]

Cleared(r) == 0

\* "early": the count is cleared before the message is counted for him.
ClearUnread(r, a) ==
  /\ report[r][a] = "moved"
  /\ SetReport(r, a, IF r \in due[a] THEN "early" ELSE "done")
  /\ unread' = [unread EXCEPT ![r] = Cleared(r)]
  /\ UNCHANGED <<stage, due, lastRead, docs, drawn, gateway, pages, faults>>

\* AdminMessageBlock
Block(a) ==
  /\ a \in log /\ queries < MaxQueries /\ queries' = queries + 1
  /\ blocked' = IF a \in blocked THEN blocked \ {a} ELSE blocked \cup {a}
  /\ UNCHANGED <<stage, log, drawn, counts, gateway, view, lastSeq, query, faults>>

-----------------------------------------------------------------------------
Page(r) == Receive(r) \/ Answer(r) \/ MergeMissed(r) \/ ReplacePage(r)

Next ==
  \/ \E a \in Attempts : Lookup(a) \/ Handle(a) \/ Block(a)
  \/ \E r \in Readers : Page(r) \/ Register(r) \/ Disconnect(r) \/ Reconnect(r)
                        \/ AskHistory(r)
  \/ \E r \in Readers, a \in Attempts : ReportRead(r, a) \/ ClearUnread(r, a)
  \/ Consume
  \/ ApiCrash

\* As long as a call that was taken up can go on, an event can be consumed, a
\* frame or an answer can arrive or a connection be registered, one of these
\* happens.  Nobody has to call, report or reconnect.
Progress ==
  \/ \E a \in Attempts : Handle(a)
  \/ \E r \in Readers : Page(r) \/ Register(r)
  \/ Consume

Fairness == WF_vars(Progress)

Spec == Init /\ [][Next]_vars
FairSpec == Spec /\ Fairness
=============================================================================
