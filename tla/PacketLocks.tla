---------------------------- MODULE PacketLocks ----------------------------
(***************************************************************************)
(* The transactions of the money packets, row lock by row lock.  The other *)
(* modules treat a transaction as one step; here it locks a row, reads it, *)
(* checks it and goes on to the next, while others do the same, and what   *)
(* it writes is seen by the others when it commits.  Two users who claim   *)
(* from each other lock their user rows in opposite orders; InnoDB detects *)
(* the deadlock and rolls one of them back, and the handler gives up.      *)
(***************************************************************************)
EXTENDS Wallet

CONSTANTS
  Txs,     \* transactions; each runs once
  Job,     \* what each does: freeze, settle or refund
  Packets,  \* messages
  Funding,    \* a message's sender, its total in cents and its number of shares
  Free     \* holder of a row nobody has locked

JobType == [op : {"freeze", "settle", "refund"}, msg : Packets, user : Users, amount : Nat \ {0}]
FundType == [sender : Users, total : Nat \ {0}, count : Nat \ {0}]

ASSUME LocksAssumption == /\ Job \in [Txs -> JobType]
                          /\ Funding \in [Packets -> FundType]
                          /\ Free \notin Txs

VARIABLES
  stored,  \* committed rows of money_packet
  holder,  \* which transaction locks a row
  tx       \* transactions: where they are, what they read and will write

lockVars == <<bal, frz, stored, holder, tx>>

Rows == ({"packet"} \X Packets) \cup ({"user"} \X Users)

StoredRow == [status : {"absent", "open", "finished", "expired"}, claimed : Nat, cnt : Nat]
UserRow == [bal : Nat, frz : Nat]

Ended == {"committed", "rolledback"}
Running == {"packet", "sender", "claimer", "commit"}

\* next: the row to lock next; read: the packet as read under its lock;
\* wrote: the user rows it changed, and write: to what.
TxState == [next : {"begin"} \cup Running \cup Ended, read : StoredRow,
            wrote : SUBSET Users, write : [Users -> UserRow]]

\* Every committed and every uncommitted row is well typed: no statement takes
\* a balance or frozen money below zero.
LocksType ==
  /\ WalletType
  /\ stored \in [Packets -> StoredRow]
  /\ holder \in [Rows -> Txs \cup {Free}]
  /\ tx \in [Txs -> TxState]

NoRow == [status |-> "absent", claimed |-> 0, cnt |-> 0]
NoWrite == [u \in Users |-> [bal |-> 0, frz |-> 0]]

LocksInit ==
  /\ WalletInit
  /\ stored = [m \in Packets |-> NoRow]
  /\ holder = [row \in Rows |-> Free]
  /\ tx = [t \in Txs |-> [next |-> "begin", read |-> NoRow,
                         wrote |-> {}, write |-> NoWrite]]

Op(t)      == Job[t].op
Msg(t)     == Job[t].msg
Payer(t)  == Funding[Msg(t)].sender
Claimer(t) == Job[t].user

-----------------------------------------------------------------------------
(* Locks.                                                                  *)

\* Fault: the row is read without FOR UPDATE.
AcquireNothing(t, row) == UNCHANGED holder

\* SELECT ... FOR UPDATE; a transaction may lock a row again.
Acquire(t, row) == /\ holder[row] \in {Free, t}
                   /\ holder' = [holder EXCEPT ![row] = t]

Release(t) ==
  holder' = [row \in Rows |-> IF holder[row] = t THEN Free ELSE holder[row]]

\* The row transaction t asks for next.
Wanted(t) == CASE tx[t].next = "packet"  -> <<"packet", Msg(t)>>
               [] tx[t].next = "sender"  -> <<"user", Payer(t)>>
               [] tx[t].next = "claimer" -> <<"user", Claimer(t)>>

WaitsFor(t, s) == /\ tx[t].next \in {"packet", "sender", "claimer"}
                  /\ s # t /\ holder[Wanted(t)] = s

\* Fault: nobody looks for deadlocks.
DeadlockedNever(t) == FALSE

Waiting == {s \in Txs : \E w \in Txs : WaitsFor(s, w)}

Deadlocked(t) == \E S \in SUBSET Waiting :
                   t \in S /\ \A s \in S : \E w \in S : WaitsFor(s, w)

-----------------------------------------------------------------------------
(* The statements of a transaction.                                        *)

\* A user row as the transaction sees it: its own write, or what is committed.
Sees(t, u) == IF u \in tx[t].wrote THEN tx[t].write[u]
              ELSE [bal |-> bal[u], frz |-> frz[u]]

End(t, how) == /\ tx' = [tx EXCEPT ![t].next = how]
               /\ Release(t)
               /\ UNCHANGED <<bal, frz, stored>>

Begin(t) ==
  /\ tx[t].next = "begin"
  /\ tx' = [tx EXCEPT ![t].next = IF Op(t) = "freeze" THEN "sender" ELSE "packet"]
  /\ UNCHANGED <<bal, frz, stored, holder>>

Left(t, p) == Funding[Msg(t)].total - p.claimed

\* A refund finds the packet open, a settlement also finds a share and money.
Usable(t, p) == /\ p.status = "open"
                /\ Op(t) = "settle" => p.cnt < Funding[Msg(t)].count /\ Left(t, p) >= 1

\* Lock and read the packet; one that is not usable ends the transaction.
LockPacket(t) ==
  /\ tx[t].next = "packet"
  /\ LET p == stored[Msg(t)]
     IN IF Usable(t, p)
        THEN /\ Acquire(t, <<"packet", Msg(t)>>)
             /\ tx' = [tx EXCEPT ![t].next = "sender", ![t].read = p]
             /\ UNCHANGED <<bal, frz, stored>>
        ELSE holder[<<"packet", Msg(t)>>] = Free /\ End(t, "rolledback")

\* What a settlement pays: never more than what is left.
Share(t) == IF Job[t].amount > Left(t, tx[t].read) THEN Left(t, tx[t].read) ELSE Job[t].amount

Covered(new) == new.bal >= 0 /\ new.frz >= 0

\* mutateUser: lock the user row, change it, refuse to go below zero.
MutateRow(t, u, dBalance, dFrozen, then) ==
  LET row == Sees(t, u)
      new == [bal |-> row.bal + dBalance, frz |-> row.frz + dFrozen]
  IN IF Covered(new)
     THEN /\ Acquire(t, <<"user", u>>)
          /\ tx' = [tx EXCEPT ![t].next = then,
                              ![t].wrote = @ \cup {u},
                              ![t].write = [@ EXCEPT ![u] = new]]
          /\ UNCHANGED <<bal, frz, stored>>
     ELSE holder[<<"user", u>>] \in {Free, t} /\ End(t, "rolledback")

\* What a transaction does to its packet's sender: a freeze moves the total
\* into frozen, a refund moves the rest back, a settlement takes a share out.
SenderChange(t) ==
  LET total == Funding[Msg(t)].total
      left  == Left(t, tx[t].read)
  IN CASE Op(t) = "freeze" -> [bal |-> -total, frz |-> total]
       [] Op(t) = "refund" -> [bal |-> left, frz |-> -left]
       [] Op(t) = "settle" -> [bal |-> 0, frz |-> -Share(t)]

MutateSender(t) ==
  /\ tx[t].next = "sender"
  /\ MutateRow(t, Payer(t), SenderChange(t).bal, SenderChange(t).frz,
               IF Op(t) = "settle" THEN "claimer" ELSE "commit")

MutateClaimer(t) ==
  /\ tx[t].next = "claimer"
  /\ MutateRow(t, Claimer(t), Share(t), 0, "commit")

\* The packet row a transaction writes last.
Written(t) ==
  LET p == tx[t].read
      claimed == p.claimed + Share(t)
      full == p.cnt + 1 >= Funding[Msg(t)].count \/ Funding[Msg(t)].total - claimed < 1
  IN CASE Op(t) = "freeze" -> [NoRow EXCEPT !.status = "open"]
       [] Op(t) = "refund" -> [p EXCEPT !.status = "expired"]
       [] Op(t) = "settle" -> [status |-> IF full THEN "finished" ELSE "open",
                               claimed |-> claimed, cnt |-> p.cnt + 1]

\* The unique index on msg_id lets a message freeze once.
Commit(t) ==
  /\ tx[t].next = "commit"
  /\ IF Op(t) = "freeze" /\ stored[Msg(t)].status # "absent"
     THEN End(t, "rolledback")
     ELSE /\ bal' = [u \in Users |-> Sees(t, u).bal]
          /\ frz' = [u \in Users |-> Sees(t, u).frz]
          /\ stored' = [stored EXCEPT ![Msg(t)] = Written(t)]
          /\ tx' = [tx EXCEPT ![t].next = "committed"]
          /\ Release(t)

\* InnoDB rolls back a transaction of a deadlock.
Victim(t) == Deadlocked(t) /\ End(t, "rolledback")

\* The connection is lost, or the process dies.
Rollback(t) == tx[t].next \in Running /\ End(t, "rolledback")

Progress(t) == LockPacket(t) \/ MutateSender(t) \/ MutateClaimer(t) \/ Commit(t) \/ Victim(t)

LocksNext == \E t \in Txs : Begin(t) \/ Progress(t) \/ Rollback(t)

\* A statement that can run is run; a transaction need not begin.
LocksSpec == LocksInit /\ [][LocksNext]_lockVars /\ \A t \in Txs : WF_lockVars(Progress(t))

-----------------------------------------------------------------------------
\* Two-phase locking: a transaction holds every user row it changed and the
\* packet row it read until it ends, so what it read of the packet is still
\* true when it commits; and it holds nothing once it has ended.
LocksHeld ==
  /\ \A row \in Rows : holder[row] # Free => tx[holder[row]].next \in Running
  /\ \A t \in Txs : tx[t].next \in Running =>
       /\ \A u \in tx[t].wrote : holder[<<"user", u>>] = t
       /\ Op(t) # "freeze" /\ tx[t].next # "packet" =>
            holder[<<"packet", Msg(t)>>] = t /\ tx[t].read = stored[Msg(t)]

\* What the claimer of a committed transaction is paid.
Paid(t) == IF Op(t) = "settle" THEN Share(t) ELSE 0

\* What a transaction will write to a user row it changed is what is committed
\* there now, changed by its own amounts alone: by those of the sender, and by
\* what it has paid the claimer so far.
WillWrite(t, u, paid) ==
  [bal |-> bal[u] + (IF u = Payer(t) THEN SenderChange(t).bal ELSE 0)
                  + (IF u = Claimer(t) THEN paid ELSE 0),
   frz |-> frz[u] + (IF u = Payer(t) THEN SenderChange(t).frz ELSE 0)]

TxInv(t) ==
  /\ tx[t].next \in {"begin", "packet", "sender"} => tx[t].wrote = {}
  /\ tx[t].next = "packet" => Op(t) # "freeze"
  /\ tx[t].next \in {"sender", "claimer", "commit"} /\ Op(t) # "freeze" =>
       Usable(t, tx[t].read)
  /\ tx[t].next = "claimer" =>
       /\ Op(t) = "settle" /\ tx[t].wrote = {Payer(t)}
       /\ tx[t].write[Payer(t)] = WillWrite(t, Payer(t), 0)
  /\ tx[t].next = "commit" =>
       /\ tx[t].wrote = {Payer(t)} \cup (IF Op(t) = "settle" THEN {Claimer(t)} ELSE {})
       /\ \A u \in tx[t].wrote : tx[t].write[u] = WillWrite(t, u, Paid(t))

\* The inductive invariant: locks are held to the end, and so no committed
\* change of a row is overwritten by a transaction that read it before.
LocksInv == LocksType /\ LocksHeld /\ \A t \in Txs : TxInv(t)

\* No transaction waits forever, although settlements lock two user rows in
\* whichever order the claim names them.
TxEnds == \A t \in Txs : tx[t].next \in Running ~> tx[t].next \in Ended

\* Refinement: a transaction is one step of Escrow, taken when it commits.
StillHolds(m) == stored[m].status \in {"open", "finished"}

StoredHeld == [m \in Packets |-> IF StillHolds(m) THEN Funding[m].total - stored[m].claimed ELSE 0]
StoredLife == [m \in Packets |-> IF stored[m].status = "absent" THEN "unfunded"
                                ELSE IF StillHolds(m) THEN "holding" ELSE "returned"]

Steps == INSTANCE Escrow WITH
       Escrows <- Packets,
       Funder <- [m \in Packets |-> Funding[m].sender],
       Price <- [m \in Packets |-> Funding[m].total],
       held <- StoredHeld,
       life <- StoredLife

TransactionsAreSteps == Steps!EscrowSpec
=============================================================================
