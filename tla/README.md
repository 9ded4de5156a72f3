# A verification project for the im-server of fluttergoim

`src/im-server` is the server of an instant messenger: an api process and a
gateway process in Go, with MySQL for accounts, groups and money, MongoDB for
messages, and Redis for counters, tickets and the bus between the processes.
Clients are a Flutter app, a desktop app and web pages. This directory holds
TLA+ models of the server's core, TLC runs that check them, and TLAPS proofs
about them.

## 1. The system

| component | state it keeps | operations | what makes it right | model |
|---|---|---|---|---|
| wallet columns (`service/wallet.go`, `money_packet.go: mutateUser`) | `user.balance`, `user.frozen`, rows of `wallet_transaction` | locked change of one user's row | never negative, no lost update | `Wallet`, `PacketLocks` |
| money packets (`money_packet.go`, `wallet.go`) | `money_packet`, `red_packet_claim`, `transfer_claim` | freeze, compensate, claim, accept, settle, expire | money is conserved, paid at most once, given back at most once and in the end | `MoneyPacket` |
| orders (`recharge_withdraw.go`) | `recharge_order`, `withdraw_order` | submit, approve, reject, adjust | the books match the orders, a decision is final | `Orders` |
| messages (`message.go`) | documents in MongoDB; sequence and unread counters in Redis | send, sync, history, mark read, block | a message is stored once, shown once stored, and not lost from a page | `Messages`; money messages and recall in `MoneyPacket`; mutes in `Groups` |
| gateway (`ws.go`) | connections, event bus | connect, push, disconnect | a registered connection gets the events | `Messages` |
| groups (`conversation.go`) | the group's row, member rows, roles, pins | create, invite, join, remove, quit, disband, ranks, mutes, switches, pins | rights hold when they are used, a group keeps its owner | `Groups` |
| friends, blacklist, direct conversations (`friend.go`, `conversation.go`) | relations in two directions, requests, blacklist | request, answer, part, block, open | friendship comes from agreement; what the server says to one is read by two, unless somebody is invited | `Friends` |
| customer service, assistant, friend codes (`kefu.go`, `assistant.go`, `invite_friend.go`) | round-robin index, codes | assignment, greeting, notice | as friends | `Friends` |
| moments (`moment.go`) | posts with a list of likes, comments | publish, feed, like, comment, moderate | only friends see a post, a like stays | `Social` |
| accounts (`auth.go`, `pkg/jwt`) | users, devices; codes, tokens, limits in Redis | register, login, guest, codes, refresh, logout, ban, passwords, phone numbers | one-time things are used once, a ban and a limit hold and a limit lifts | `Accounts` |
| QR login (`qr_login.go`) | tickets in Redis | create, scan, confirm, poll | one login per ticket, of the user who confirmed | `Accounts` |
| short numbers (`admin.go`, `auth.go: genShortID`) | `user.short_id`, `reserved_short_id` | draw, edit, assign, relieve, freeze, delete | a number has one holder | `ShortIds` |
| snowflake ids (`pkg/id`) | last stamp and step of a process | draw | an id is drawn once | `Snowflake` |
| push, SMS, uploads, calls; start-up; clients; deployment | external services, files | — | — | section 8 |

How they interact. `SendMessage` freezes money in MySQL and then stores the
message in MongoDB; no transaction spans the two, so a failed insert is
compensated. Claims read the message from MongoDB and the packet from MySQL and
settle in one MySQL transaction. Packets, orders and adjustments change the
same two columns of the user row. A worker in the api process scans for expired
packets once a minute. After a change the api process publishes an event in
Redis, at most once, which the gateway pushes to the connections it has
registered at that moment. Registration calls the services of friends and
customer service; both open direct conversations; every request is checked
against the token and status of its account.

What is hard. Handlers run concurrently, and most of them read first and write
later, statement by statement and without a transaction, so they act on stale
reads. The process can die between any two statements. Clients resend. An
answer can be lost after the write it confirms; an event can be lost; a message
with a lower number can be stored after one with a higher number. Keys of Redis
expire while they are used. Some `FOR UPDATE` reads are not locking reads:
`recharge_withdraw.go` and `admin.go` ask for the lock with
`tx.Set("gorm:query_option", ...)`, an option of GORM 1 that GORM 2 (v1.25.11
here) ignores. The hazards, each at its line, are listed in `PROJECT.json`.

## 2. The modules

| module | what it is |
|---|---|
| `Wallet` | the two columns and `MutateUser`, the one way they change |
| `MoneyPacket` | extends `Wallet`: sending, claiming, expiry, crash |
| `MoneyPacketProps` | its properties, refinement mapping, inductive invariants |
| `Escrow` | the abstract promise of a packet: fund, pay, give back |
| `PacketLocks` | the transactions of the packets, lock by lock |
| `OrderData` | what users and administrators ask of the wallet beside packets |
| `Orders`, `OrdersProps`, `OrdersProofs` | filing, reviewing, adjusting, crash; properties; theorems |
| `WalletSystem`, `WalletSystemProofs` | `MoneyPacket` and `Orders` on one wallet in one process; theorems about the packets alone, about both, and about the locks |
| `Sums` | lemmas about sums over finite sets, for the proofs about money |
| `Messages`, `MessagesProps`, `MessagesProofs` | sending, the bus, the gateway and the chat page; properties; theorems |
| `MessageLog` | the abstract conversation: a log without duplicates, and pages of it |
| `Groups`, `GroupsProps`, `GroupsProofs` | a group and its requests; properties; theorems |
| `Friends` | friend requests, relations, blacklist, direct conversations, customer service, assistant, friend codes |
| `Social`, `SocialProps`, `SocialProofs` | extends `Friends` by moments, and composes both; properties; theorems |
| `Friendship` | the abstract promise: friends after agreement |
| `Accounts`, `AccountsProps`, `AccountsProofs` | registration to ban, and QR tickets; properties; theorems |
| `ShortIds`, `Snowflake` | short numbers; ids |
| `Identifiers` | both beside each other, and what they promise |
| `IdentifiersProofs` | theorems |
| `MC...` | the instances of these for TLC |

Three granularities occur. A MySQL transaction that locks is one step in
`MoneyPacket` and `Orders`, which `PacketLocks` justifies. Where the code uses no
transaction, every statement on a store is a step (`Messages`, `Groups`,
`Friends`, `Social`, `Accounts`, `ShortIds`). A transaction whose lock is not
taken is a snapshot read followed by a commit (`Orders`, `ShortIds`).

### MoneyPacket

Money is counted in whole cents. An attempt at sending is identified with the
fresh message id it draws.

| variable | in the code |
|---|---|
| `bal`, `frz` | `user.balance`, `user.frozen` |
| `packet[m]` | the row of `money_packet` of message `m`: status, `claimed`, `claimed_cnt`; `due` says that `expire_at` has passed. `absent`: no row. Total and count are functions of the message's content |
| `claims[m]` | rows of `red_packet_claim` or `transfer_claim` |
| `msg[m]` | the document in MongoDB: none, stored, recalled |
| `phase[m]` | where the `SendMessage` call that drew id `m` is, or how it ended |
| `req[r]` | a claim handler between its steps, with what it read |

| action | in the code |
|---|---|
| `SendLookup`, `SendMoneyFreeze`, `FreezeFails` | `SendMessage` up to the insert: idempotency lookup, freeze in one transaction. The transaction may commit and its answer be lost: then the call fails (`unanswered`) with the money frozen, and nothing is compensated |
| `InsertMessage`, `InsertFails` | `InsertOne`, under the unique index on sender and client message id; the answer may be lost although the document was written |
| `RefundMoneyPacket`, `RefundMoneyPacketFails` | the compensation; its error is dropped |
| `RecallMessage` | recall by the sender or a group administrator |
| `LoadRedPacket`, `PriceRedPacket` | `loadRedPacket` and the checks of `WalletRedPacketClaim`, then the duplicate check and the draw of an amount from what was read |
| `LoadTransfer`, `CheckTransfer` | `WalletTransferAccept`: the reads in MySQL, then the message in MongoDB |
| `SettleClaim`, `SettleFails` | the settling transaction with the hook that inserts the claim row |
| `Expire`, `RefundOne` | 24 hours pass; the worker, or a claim that meets an expired packet |
| `Crash` | the api process dies with all its handlers and is restarted |

`LuckyAmount` gives the set of amounts the random draw and the rounding to cents
can produce, not a distribution.

### Orders

`status[o]` is the progress of a submission and then the status of the order row;
`rows[o][title]` counts the transaction rows of an order; `review[r]` is an
approval or a rejection between its read of the order and its writes. Because
the read does not lock, a review is two actions, `ReadOrder` and one of
`RechargeApprove`, `RechargeReject`, `WithdrawApprove`, `WithdrawReject`; the
writes do not look at the status again, and any number of reviewers may have
read one order. The history variable `overtaken` holds the orders that were
decided while another review of them was under way, which may decide them again:
the properties say what still holds of these, and all of it for the others.
`WithdrawApprove` joins the two locked changes of one
transaction (principal out of frozen, fee out of the balance): either both
checks pass or both roll back. `WithdrawFreeze` and the fee are inputs: the fee
formula, the limits and the bound bank account only decide whether an order may
be filed.

### PacketLocks

A transaction locks the packet, then the sender's row, then the claimer's, reads
under each lock, buffers its writes and publishes them at commit. `Acquire` is
InnoDB's row lock, `Victim` its deadlock detection. `TransactionsAreSteps` shows
that every transaction is one step of `Escrow`, the same abstract specification
that `MoneyPacket` implements.

### Messages

One conversation. `stage[a]` is where the call `a` of `SendMessage` is; `id`,
`seq` are what it has drawn from the snowflake and from Redis; `log` are the
calls whose document is in MongoDB, `blocked` those an administrator hides;
`due[a]` are the receivers for whom `a` has yet to count its message; `unread`
and `lastRead` are the count in Redis and the position in `conversation_member`.
`bus`, `wire`, `conn` are the channel, the frames on a connection and its state:
`opening` is a connection the client already sees as open and the gateway has
not registered. `view`, `lastSeq`, `query` are the client's page.

| action | in the code |
|---|---|
| `Lookup`, `NextSeq`, `Insert`, `CountUnread`, `Publish` | `SendMessage`, in this order, `CountUnread` once for each receiver; without Redis a sequence number is a time, and a count or an event is lost |
| `ApiCrash` | the api process dies with its calls |
| `Consume`, `Register`, `Disconnect` | `StartEventConsumer` with `push`, `handleWS` |
| `Receive` | `_handleWs` of `chat_page.dart` |
| `Reconnect` | the reconnect timer of `ws_service.dart`: opens, and at once asks for what is missed |
| `AskHistory`, `Answer`, `MergeMissed`, `ReplacePage` | `Sync`, `History` and what the page does with the answers |
| `ReportRead`, `ClearUnread` | `MarkRead`: the position, then the count |
| `Block` | `AdminMessageBlock` |

### Groups

`conv` and `rows` are the rows of one group and its members, `hand[h]` a request
with its program counter and what it has read. Every operation of
`conversation.go` on a group is split at its statements: for example
`GroupRemove` is a read of the caller's role, a read of the target's role, the
deletion, and the notice; `GroupInvite` counts the row of each user
(`InviteCount`) and inserts it (`InviteInsert`), and `GroupUpdate` reads the row of
its caller before the group's (`SettingsMember`, `SettingsRead`). The unique index
on a member's row makes a second insert fail silently (`AddRow`). A disbanded
group and a post to it are modelled; a direct conversation, which most of these
requests do not refuse either, is in `Friends`.

### Friends, Social, Accounts, ShortIds

Here a request is the sequence of statements it still has to execute, and there
is one action for each kind of statement: an operation is then a line in
`Statements`, in the order of the code, and the interleaving of all operations
comes for free. Scenarios choose the settings of `sys_config`, what clients ask
and how often. In `Friends`, a statement that fails ends its own part of the
request only, as the code ignores or logs the error of, say, an assignment: a
statement carries the name of its part, and `GiveUp` goes on with the first one
of another part. A loop over several friends is one statement, `each`, whose
action `BindNext` puts the statements for the first friend in its place and
itself, for the others, behind them; a message is told in the conversation that
one of the two opens first (`Told`). `GroupInvite` never asks whether it is about a
group, so `inviteTo` lets anybody put a third user into a direct conversation;
`invited` (history) says into which. `bind` is `BindInviteCode`.
`Accounts` keeps Redis as a function from the keys that exist to a value and
whether it expires: `Vanish` may take an expiring key away at any moment, so
that "check, then delete" is never atomic. `ShortIds` draws a number as the loop
of `genShortID` does, one count after another over the candidates `Tried`, with
the number it falls back to when none was free. A row of the pool carries how
often it was deleted, so a number can be reserved again, as another row.
`crossed` (history) holds the users about whom a transaction wrote what was no
longer so when it committed.

### Rights while a request runs

Checks followed by writes cannot be exact when others write in between, so
"a request acts only if its caller has the right now" is false of this code and
of most servers. What the code can promise is that a request acts only if it was
allowed at some moment since it arrived. The history variable `barred[h]` holds
the rules that have forbidden request `h` at every moment so far: it starts
with those that forbid it on arrival, and every step removes those that no
longer do. `NeverWhollyBarred` says that no request gets past a rule that is
still in it. The rules are stated from the state (who is in, who has which rank,
which key exists), independently of where and in which order a request reads
it; so the property fails when a check is missing, looks at the wrong thing, or
is made before the read it relies on. It implies the sequential property for
requests that do not overlap. `Groups`, `Social`, `Accounts` and `ShortIds` use
it.

### Snowflake

An id is the triple that its bits are put together from. A process waits, with
the mutex held, when the steps of a millisecond are used up (`UsedUp`, `Resume`),
and starts anew after a restart, which takes longer than a millisecond. Two
processes may be given one node number (a `NODE_ID` is taken modulo 1024), and
the clock may go back.

## 3. The runs

| run | question | states |
|---|---|---|
| `packet_mixed` | a lucky packet and a transfer of one sender: is money conserved, does frozen money back open packets and the rests of finished ones, is nothing overpaid, is a transfer paid once; the inductive invariant; refinement of `Escrow` | 837 k |
| `packet_leftover` | violated: the frozen money is what the open packets have left (`money_packet.go:31`, `model/money_packet.go:23`) | |
| `packet_resend` | do concurrent resends keep the money once, is a returned packet over, is every packet resolved | 77 k |
| `orders_double_credit` | violated: an approval is idempotent (`recharge_withdraw.go:438`) | |
| `system_money` | a packet, a withdrawal and a recharge of one user, two reviewers who may take the same order: who owns frozen money, how money enters, do the books match the orders, is a decision final but for a review begun before it, is the packet still resolved | 793 k |
| `locks` | lock by lock: no lost update, no transaction waits forever, each is one step | 21 k |
| `messages` | a resent message and another one, a lost connection, a page: counts, refinement of `MessageLog`, what a page keeps, what a sync brings, arrival | 1011 k |
| `messages_gap` | violated: a sync after a disconnection brings what was missed (`README.md:62`) | |
| `groups` | 27 kinds of requests on a group of three: rights, owner, ranks and mutes, pins | 904 k |
| `social` | eight scenarios of friends, codes, customer service, moments: privacy, rights, refinement of `Friendship`, likes | 678 k |
| `accounts` | seven scenarios of codes, sessions, passwords, devices, tickets, phone numbers: rights, limits that lift | 350 k |
| `short_ids` | three scenarios of numbers and one of the clock: uniqueness, the pool's book, who loses a number | 137 k |

No run checks for deadlock: the instances have finitely many messages, orders,
transactions and requests, and the system rests when all are done.

### Bounds

Everything is bounded because a message is sent once, an order filed once, a
transaction run once, and by these constants: `MaxAdjust` (manual adjustments),
`MaxFaults` (lost events, lost connections, deaths), `MaxQueries` (histories and
blocks), `MaxAsked` or `maxAsked` (requests), `MaxTime`, `maxTime`, `MaxClock`
(time), `MaxBack` (a clock that goes back), `MaxDrawn` (codes).

- Two handlers are the smallest race and are reused by later requests: three
  users claim through two claim handlers, and the four requests of `groups`
  run in every overlap of two.
- Amounts are a few cents, chosen so that a stale share can exceed what is left,
  or leave a cent over when all shares are taken, and a balance pays for one
  packet but not two (`packet_mixed`, `packet_leftover`), so that it pays for both
  attempts, or the second could not freeze (`packet_resend`), and so that a
  withdrawal beside a packet can find too little for its fee, and two decisions
  on it too little for the packet (`system_money`).
- In `messages` there is one reader, so that the loop of counts has one turn before
  the event (the theorems are for any readers); two of three attempts carry one
  client message id, and the limits
  of `Sync` and `History` are 1, so that an answer can be full with two
  messages. In `messages_gap` the limits are 2 and cannot be full: what is
  missing there is missing in spite of them.
- In `groups` three users hold the three ranks, and `MaxMembers` is 2, so that
  both an invitation and a join meet a full group.
- `social` and `accounts` have one scenario for each cluster of operations that
  touch the same rows or keys, with three to five requests; requests of different
  scenarios do not meet.
- `short_ids` has two processes, one of them with node id 1025, which a modulus
  of 1024 makes node 1; two steps to a millisecond, so that they are used up.

Claim handlers are symmetric, which a run without liveness properties uses.

### Fairness

`MoneyPacket` assumes weak fairness of `Expire` (time passes) and of `RefundOne`
(`main` starts the worker in every api process, it scans every minute, and again
after a restart). Users, handlers and reviewers owe nothing: a handler may stop
anywhere. `PacketLocks` assumes that a statement that can run is run, for a
transaction that has begun; one that waits in a cycle is enabled only as a
deadlock victim. `Messages` assumes that while a call can go on, an event can be
consumed, a connection registered, or a frame or an answer can arrive, one of
these happens: these are goroutines and sockets that nothing stops. Nobody has
to call, resend, reconnect, report or ask. `Accounts` assumes that a call that
has been counted goes on to set the end of its window, and that a time to live
ends; its liveness property excepts the death between the two, which would
break it.

## 4. What the code does that its comments do not say

Three disagreements are runs:

- `orders_double_credit`: two approvals of one order both pay, because the order
  is read without a lock. (An approval and a rejection of one order can both
  act, too.)
- `packet_leftover`: two claims of a lucky packet that draw from one stale read can
  finish it with a rest. The rest stays frozen and no worker looks at it, so the
  frozen money is more than the open packets have left, which
  `money_packet.go:31` and `model/money_packet.go:23` say it equals and the
  reconciliation (`money_packet.go:342`) checks. `FrozenBacksPackets` counts these
  rests, and says that nothing else leaves one.
- `messages_gap`: a number is drawn before its message is stored, and a push
  moves the page's position past numbers not seen yet, so the sync after a
  disconnection does not ask for a message below it.

The properties of the passing runs are stated so that the following is allowed,
since the code does it. Each is visible in the models unless it says otherwise,
and none has a run.

Money: one user can take two shares, the duplicate check being outside the
transaction (`wallet.go:522`, comment at 520). A transfer recalled between check
and settlement is paid (`wallet.go:661`, 625). Two rejections of one withdrawal
take its principal from frozen money twice, the second time out of a packet's,
whose refund then fails every minute (`recharge_withdraw.go:649`,
`wallet.go:130`). Two submissions of one proof can both be filed
(`recharge_withdraw.go:121`). A freeze that commits while its answer is lost
stays frozen until the packet expires (`message.go:81`). The reconciliation
compares all frozen money with open packets although withdrawals freeze money
too (`money_packet.go:347`).

Accounts: an invite code is used up by a registration whose SMS code is then
wrong (`auth.go:107`). `used_by` gets the account's text, so the update fails for
accounts that are no numbers (`auth.go:741`). Two registrations compute one short
number and the second fails after its codes are gone (`auth.go:176`, 799). A user has
one refresh token, so a second device ends the session of the first
(`model/auth.go:5` speaks of several). One device gets two guests in a race
(`auth.go:281`). A scan that arrives late recreates a ticket's key without a time to
live (`qr_login.go:72`). Deleting a used code may delete a newer one (`auth.go:717`).

Groups: the settings are read, overlaid and written back, so a switch that was
not sent may change back (`handler/conversation.go:183`). `pinned_msg_id` can
name the message just unpinned (`conversation.go:718`). Joins at one time
overfill a group (`conversation.go:553`). A post to a disbanded group is not
refused. Of two pins at once one is lost (`conversation.go:679`). `GroupInvite`
looks neither at the type of the conversation nor, while members may invite, at
whether its caller is one (`conversation.go:297`, comment at 299): anybody can
add a third user to a direct conversation, who reads what was said in it, and
whom `CreateDirect` then takes for one of its two (`conversation.go:30`).
`Private` excepts such conversations. Quitting a direct conversation, which is
not refused either, is not modelled.

Friends and moments: the feed reads the friends in two directions and the second
read replaces the first (`moment.go:57`, comment 好友的动态). Two requests that overlap
make two direct conversations of one pair (`conversation.go:24`). A friend request
that was handled can be handled again, with the other answer (`friend.go:113`).
Of two likes at once one is lost (`moment.go:255`).

Messages: a read position moves backwards with a late report (`message.go:288`). A
history answer takes off the page what was pushed while it was under way
(`chat_page.dart:441`).

Short numbers: a number that is used by, or booked to, another user is assigned
all the same, and taken from him (`admin.go:1212`), although the comment at
`admin.go:1183` says that only an open one is. A relief writes what it read
without a lock, so it can erase a number that an administrator has given the
user since, which the comments at `admin.go:1313` and `admin.go:1347` exclude; an
assignment can overwrite in the same way. `NumberHeld` and `BooksAgree` except the
users such a request is about. When the clock goes back ids repeat, although
`snowflake.go:20` promises that they never do; `IdsUnique` excepts it.
`AdminUserUpdate` updates a column of the pool that does not exist
(`admin.go:302`, comment at 260). A relief and an assignment of one number can both
succeed (`admin.go:1347`). The node ids of `deploy/节点接入指南.md:46` are no numbers
and all become node 0.

## 5. What is proved

TLAPS checks the following for every value of the constants. The assumptions
are those named in the modules that declare the constants: they say of which
type the constants are, and that the users, packets, orders and calls are
finitely many.

`WalletSystemProofs`, of the packets: `TypeCorrect`, `PacketAgreement`
(`PacketSafety`), `Solvent` (`NeverOverpaid`), `TransfersOnce`
(`TransferPaidOnce`), `ReturnedStays` (`ReturnedIsFinal`), `ResendsFreezeOnce`
(`ResendFreezesOnce`) and `PacketsAreEscrows` (`ImplementsEscrow`). The
inductive invariant is `TypeOK /\ PacketInv`. `NeverOverpaid` is not inductive
alone: that `claimed` and the claim rows agree for a transfer needs to know that
the handler that settles was priced at the whole amount, that its message is
stored, and that an absent packet has no claims. `RowInv` says so of the rows
and `HandlerInv` of the handlers. `ResendFreezesOnce` needs `ResendInv` besides:
one document of a client message, and a compensated attempt keeps money only if
somebody had claimed, hence only if it has the document.

Then the sums: `MoneyIsConserved` (`MoneyConserved`),
`FrozenIsBacked` (`FrozenBacksPackets`), `RowsAccount` (`ClaimsAccounted`), and,
from the second, `RefundsNeverLackMoney`: a refund of an open packet always finds
the money it gives back (`RefundsCanPay`). What a step does to one user's columns,
one packet or one claim row is a change of a sum at one or two places
(`SumChange`, `SumFollows`, `SumMoves` of `Sums`). `RestInv` says that a packet of equal
shares has paid whole ones, so that only a lucky packet can finish with a rest.

`Sums`: the sums of the community modules are folds that pick elements in an
order nobody knows. `AddsExists` builds the recursive function behind them and
`AddsAgree` shows that there is only one, both by taking a smallest
counterexample (`SmallestNumber`, `SmallestSubset`, from the well-foundedness
theorems of the library), since its induction theorems cannot be instantiated.
`SumRemove` then takes out any element first.

`OrdersProofs`: `OrdersTypeCorrect` and `BooksExplain` (`BooksExplainWallet`: the
transaction rows of a user add up to the user's balance and frozen money) for
any reviewers; and `ReviewsAreFresh` (`OrdersSafety`), `BooksAreRight`
(`BooksMatchOrders`) and `DecisionsAreFinal` (`DecisionIsFinal`), all for any number
of reviews of one order. The inductive invariant is `OrdersInv`: an order under
review is still pending, or it is `overtaken`. For an overtaken order less holds,
and `Booked` says what: the rows of its status are there, it was frozen once, and
every payout has its fee. The run `orders_double_credit` shows that more would be
false.

`WalletSystemProofs`, of packets and orders: `FrozenHasOwners` (`FrozenIsOwned`),
`MoneyEntersOnlyByOrders` (`MoneyEntersByOrders`), `SystemBooksAreRight`
(`OrdersSafety`, `BooksMatchOrders`), `SystemDecisionsAreFinal` (`DecisionIsFinal`) and
`NobodyLacksFrozen`: an open packet and a pending withdrawal can each be given
back whatever the other component did, unless a withdrawal of the same user was
decided by two reviews. All are about `SysSpec`, with both components working on
one wallet and reviewers who may decide one order twice. The invariant `SysInv` joins the
invariants of both components to the two sums. A step of packets leaves alone
what the invariant of the orders speaks of, and the other way about, so each
proof uses the lemmas of the component.

`WalletSystemProofs`, of the locks: `LocksAreKept` (`LocksInv`) and `TransactionsAreAtomic`
(`TransactionsAreSteps`), for any number of transactions. A transaction holds
every user row it changed and the packet row it read (`LocksHeld`), so nobody
else can commit a change of them. Hence what it will write is what is committed
now plus its own amounts (`TxInv`), although it computed it from an earlier
read. A freeze, which locks no packet row, commits only when the packet is
absent, so it cannot change a packet that a settlement has read. From this a
commit is the one step of `Escrow` that its job names, and every other step
changes nothing that `Escrow` sees.

`MessagesProofs`: `CountsRight` (`CountsInv`), `LogsImplemented`
(`ImplementsLog`), `PagesKeep` (`ShownStays`), `SyncsComplete` (`CatchesUp`).
`Types` says that whatever is on the bus, a wire, a page or in an answer is
stored, and that a call past `Insert` is stored exactly if its document is.
`LogOnce` (stored calls of one key are one call) carries the refinement. The
count of unread messages is bounded by a set that every step changes by as much
as the count; `Marks` says that a report is done only for a message that is no
longer due, and `DueIsRight` that a message is due only once it is stored. The
read position is only typed. For the pages, `OwnIds` and what an answer leaves out
(`NewestComplete`, `MissedComplete`) follow from lemma `LeastLeaves` about the
choice of the least members, and stay true because nothing is taken out of the
log.

`GroupsProofs`: `OwnerIsSafe` (`OwnerInv`, a part of `GroupInv`), `OwnerRemains`
(`OwnerStands`), `StandingRemains` (`StandingHeld`), `GroupIsSafe` (`GroupInv`),
`ActsWereAllowed` (`NeverWhollyBarred`) and `PinsStand` (`PinsHeld`). The
invariant adds `CreationInv` (nobody is served beside a creation that has not
stored the group) and types. Lemma `StepKeeps` says that a step keeps it if what
it makes of its request fits and what it does to the stores is mild; one lemma
for each group of actions then shows both, and `RowsPass` classifies the changes
of a member row. `ActsWereAllowed` needs `BarredInv` (a rule that has forbidden
a request all the time has still to be checked) and `RankInv` (who is about to
be compared with a member was of the staff). For the pins, `Unpinned` goes over
the list as the loop of `conversation.go` does; that it keeps the other pins in
their order is proved by looking at the first position where it would not, and
`PinsInv` says what a request that holds a copy of the list may still write.

`IdentifiersProofs`: `IdsAreUnique`: the ids of a process are ordered, and what a
process has drawn lies at or before its last stamp, or before the clock after a
restart. `NumbersAreUnique` (`NumbersUnique`, a part of `NumbersInv`),
`NumbersAreHeld` (`NumberHeld`) and `IdsAreUniqueBesideNumbers` (`IdsUnique`), for
any requests, from the unique index on the column. `TheBookIsRight` (`NumbersInv`)
and `WritesWereAllowed` (`NeverWhollyBarred`) from `PoolInv`: `HandsInv` says what
a request between two statements has read, `MeantInv` that the number it is
about to write is the one its check meant, `BooksInv` that a number booked to a
user is his unless he is `edited` or `crossed`, and that only who has registered has
one booked.

`AccountsProofs`: `AccountsAreSafe` (`AccountsInv`), for any users, settings,
requests and codes. A request carries the list of its remaining statements, so
the first lemmas say of each operation's list which statement may follow which
(`Linked`: the only way to `dropCode` is `code`, to `keep` is `token`) and which
operation has which statements (`Placed`); `OnwardFacts` says that a step keeps
this. The invariant `Inv` has a part for each store and for what a request
between two statements relies on: a code has one key at most and is not spent
while its key exists (`DrawsInv`), hence whoever is about to drop a code drops
the one it was shown (`PairsInv`); the hash that a late scan makes of a ticket
that is gone has no secret, so nobody can take it (`EndedInv`); a number past
the limit is what a request that the limit forbade all along is going to see
(`PairsInv`). With these, `ChecksOutcome` shows that a check that lets a request
pass finds its rule not in `barred`, and `BarredInv` follows. The steps of other
requests and of time are `Mild`: numbers of codes only grow, tickets stay known.

`SocialProofs`: `SocialIsSafe` (`SocialInv`), `BarredHolds`
(`NeverWhollyBarred`), `FriendsHaveAgreed` (`ImplementsFriendship`) and
`LikesStay` (`LikesHeld`), for any users, staff, codes and scenarios. First come
the lists of statements. `Follows` says which statement may stand behind which
(a message only behind the second member of a conversation or behind the lookup
that found it, a row only behind the lookup that missed it), `Fits` what a
statement may be about (a row of two only if they have agreed), and `Todo` that
a list keeps both and does not end with a lookup that others rely on. Every
operation has such a list, and proceeding, skipping, giving up a part and
putting a piece in front keep it (`Concat`, `Suffix`, `GivesUp`). Then the
state. That a conversation is read by two is not inductive, nor can it be made
so from the state alone: between the two inserts a conversation has one member
and does not yet say whose it will be. So the invariant is `IInv == \E pair :
Holds(pair)`, where `pair` says for which two each conversation is; it grows
with every conversation made. `Talk` says that its members, unless somebody was
`invited`, and its messages are of these two, `Knows` what a request has read:
the conversation it writes to is the one for the two of its statement. `Faces`
is `NeverWhollyBarred` made inductive: a check that has failed ever since the
request arrived fails now and is still to come, or is about what a feed shows;
for a feed it says, after the circle is read, that it holds nobody who was a
stranger throughout. There is a lemma for each action; `Grows` is all that an
action may do to what the other requests rely on.

Trying to prove it corrected one property: a feed does not promise that a moment
it shows was, at some moment, both visible and a friend's. It reads the friends,
then the posts, so a moment that was hidden as long as they were friends and
unhidden after they parted is shown. The rule is now two, `show` and `near`, each
of which must have been met at some moment, and the scenario has the requests
for it.

Every invariant and every other safety property that a passing run checks is
stated by a theorem. Only model-checked is all liveness: `PacketResolved`,
`PacketResolvedBesideOrders`, `TxEnds`, `Arrives`, `LimitLifts`. It needs
`ENABLED` and weak fairness, which TLAPS cannot reason about.

The refinement theorems are about safety; the abstract specifications have no
fairness.

## 6. What the mutants show

Every property of a passing run is broken by at least one mutant, a plausible
slip in one definition of a model (its name says which: `SettleFromRead`,
`RefundableWhole`, `DuplicateAllowed`, `SpentNever`, ...). They stand beside the
definition they mutate, marked `Fault`, and are used by no action.

## 7. What could follow

1. `FriendSetRemark` and the page of one user in `Social`; they read and write
   one row.
2. Several queries of one client at a time, and the sending page, whose resend
   keeps a position in a list across an await (`chat_page.dart:647`).
3. Presence: the online set is keyed by kind of device, so closing one of two
   connections marks both offline (`ws.go:216`).
4. Clearing of orders and packets beside their handlers (`admin.go:409`).
5. Rounding of amounts below a cent (`money_packet.go:94`).

## 8. Not modelled

In modelled parts: amounts below a cent; the limit of 200 packets of a scan
(`money_packet.go:264`), which matters only with refunds that fail forever;
membership of the claimer in a transfer's conversation, a condition on users
that nothing in `MoneyPacket` changes; `WalletFreeze`, which nothing calls;
receipts, favourites, search; the write lock of a connection (`ws.go:53`);
presence; remarks, lists, texts; the clearing of data other than users, and
applications, statistics and health checks of the administration. Two
submissions of one proof (`recharge_withdraw.go:124`) are in `Orders` without a
property of their own: what they file is then reviewed as two orders.

Components: push, SMS, e-mail, uploads and calls are requests to services
outside with no state here. Configuration, stores and migrations run at
start-up; the indexes they create are modelled where they matter. Handlers and
middleware decode and encode around the service functions; what they make of a
body is the set of requests of a module, and the check of a token and of the
status of its account is in `Accounts`. Of the clients, the chat page is in
`Messages` and its resends are attempts in `Messages` and `MoneyPacket`; the rest
is user interface. Deployment is scripts.
