---------------------------- MODULE MessagesProps ----------------------------
(***************************************************************************)
(* What the messages of a conversation promise.                            *)
(***************************************************************************)
EXTENDS Messages

Stages == {"new", "looked", "numbered", "stored", "sent",
           "replayed", "failed", "dead"}
Queries == {NoQuery}
  \cup [kind : {"sync", "history"}, after : Nat]
  \cup [kind : {"missed", "newest"}, after : Nat, got : SUBSET Attempts,
        had : SUBSET Attempts]

\* Every variable has its type; the pages and the wires hold stored messages.
TypeOK ==
  /\ stage \in [Attempts -> Stages]
  /\ id \in [Attempts -> Nat] /\ seq \in [Attempts -> Nat]
  /\ log \subseteq Attempts /\ blocked \subseteq log
  /\ due \in [Attempts -> SUBSET Readers]
  /\ unread \in [Readers -> Nat] /\ lastRead \in [Readers -> Nat]
  /\ report \in [Readers -> [Attempts -> {"none", "moved", "early", "done"}]]
  /\ bus \in Seq(log) /\ wire \in [Readers -> Seq(log)]
  /\ conn \in [Readers -> {"down", "opening", "up"}]
  /\ view \in [Readers -> SUBSET log] /\ lastSeq \in [Readers -> Nat]
  /\ query \in [Readers -> Queries]

\* However the attempts of a client that resends interleave, the log holds a
\* message once; and a message is pushed or shown only after it was stored.
Log == INSTANCE MessageLog WITH
  Keys <- {Send[a] : a \in Attempts},
  kept <- [k \in {Send[a] : a \in Attempts} |-> Cardinality({a \in log : Send[a] = k})],
  shown <- [r \in Readers |-> {Send[a] : a \in view[r]}]
ImplementsLog == Log!Spec

\* The unread count of a reader never exceeds the messages of others that were
\* counted for him and not read since: a report takes all of them off at once,
\* except one that was served before its message was counted for him.
BadgeBounded ==
  \A r \in Readers :
    unread[r] <= Cardinality({a \in log : /\ By(a) # r
                                          /\ r \notin due[a]
                                          /\ report[r][a] # "done"})

\* Both; the count is a natural number, too.
CountsInv == TypeOK /\ BadgeBounded

\* A message leaves a page only when the page is loaded again, and then only
\* if it was stored after the answer was made, was hidden, or is older than a
\* full page.
ShownStays ==
  [][\A r \in Readers : \A a \in view[r] \ view'[r] :
       /\ query[r].kind = "newest"
       /\ \/ a \notin query[r].had
          \/ /\ Cardinality(query[r].got) = HistoryLimit
             /\ \A b \in query[r].got : id[a] < id[b]]_vars

\* What a sync brings is complete up to its limit: of the messages stored when
\* it was answered, a page misses only those numbered up to where its pushes
\* had come, or beyond a full answer.
CatchesUp ==
  [][\A r \in Readers : query[r].kind = "missed" /\ query'[r] = NoQuery =>
       \A a \in query[r].had \ view'[r] :
         \/ seq[a] <= query[r].after
         \/ /\ Cardinality(query[r].got) = SyncLimit
            /\ \A b \in query[r].got : seq[b] <= seq[a]]_vars

\* Once nothing fails any more, a stored message is shown to every reader that
\* is registered when its call goes on.
Quiet(r) == faults = MaxFaults /\ conn[r] = "up"
Arrives ==
  \A r \in Readers, a \in Attempts :
    (Quiet(r) /\ stage[a] = "stored") ~> (a \in view[r])

-----------------------------------------------------------------------------
(* A claim of the documentation that the code does not keep.               *)

\* README.md: after a disconnection, /message/sync brings what was missed.
SyncBringsAll ==
  [][\A r \in Readers : query[r].kind = "missed" /\ query'[r] = NoQuery =>
       (Cardinality(query[r].got) < SyncLimit => query[r].had \subseteq view'[r])]_vars
=============================================================================
