------------------------------- MODULE Groups -------------------------------
(***************************************************************************)
(* A group conversation of im-server: its row, its member rows, its pins   *)
(* and the posts stored in it.  Every operation first reads the rights of  *)
(* its caller and then writes, in separate statements and without a        *)
(* transaction; each statement is one action here, and a crash of the api  *)
(* process may fall between any two.                                       *)
(*                                                                         *)
(* barred is a history variable: the rules that have forbidden a request   *)
(* at every moment since it arrived.                                       *)
(***************************************************************************)
EXTENDS Integers, FiniteSets, Sequences

CONSTANTS
  Users, Msgs,
  Nobody,          \* caller of an operation of the administration
  MaxMembers,      \* conversation.max_members
  DefaultMinutes, MaxMinutes,
  Handlers,        \* requests that may be under way at the same time
  Requests,        \* what clients may ask
  MaxAsked, MaxTime \* bounds of an instance

Owner  == 1
Admin  == 2
Normal == 3
Staff  == {Owner, Admin}

SwitchNames == {"muteAll", "privacy", "allowInvite", "qrJoin"}
Switches == [SwitchNames -> BOOLEAN]
DefaultSwitches == [s \in SwitchNames |-> s \in {"allowInvite", "qrJoin"}]

\* What the handlers make of a body: one user, several, a switch, a message.
Body(ops, callers, targets, whats) ==
  [op : ops, by : callers, to : targets, what : whats, on : BOOLEAN, num : Int]

One == {{u} : u \in Users}
MemberBodies   == Body({"create", "invite"}, Users, SUBSET Users, {"none"})
RemoveBodies   == Body({"remove"}, Users, One, {"none"})
LeaveBodies    == Body({"quit", "disband"}, Users, {{}}, {"none"})
                    \cup Body({"adminDisband"}, {Nobody}, {{}}, {"none"})
RankBodies     == Body({"setAdmin", "mute"}, Users, One, {"none"})
JoinBodies     == Body({"join", "text"}, Users, {{}}, {"none"})
SettingsBodies == Body({"settings"}, Users, {{}}, SwitchNames)
FlagBodies     == Body({"flag"}, Users, {{}}, {"pinned", "dnd"})
PinBodies      == Body({"pin"}, Users, {{}}, Msgs)
NoticeBodies   == Body({"notice"}, Users, {{}}, {"none"})

Request == MemberBodies \cup RemoveBodies \cup LeaveBodies \cup RankBodies
           \cup JoinBodies \cup SettingsBodies \cup FlagBodies \cup PinBodies
           \cup NoticeBodies

ASSUME GroupsAssumption ==
  /\ Requests \subseteq Request
  /\ Nobody \notin Users /\ IsFiniteSet(Users)
  /\ DefaultMinutes \in Nat /\ MaxMinutes \in Nat
  /\ MaxMembers \in Nat /\ MaxAsked \in Nat /\ MaxTime \in Nat

VARIABLES
  conv,   \* the row of conversation
  rows,   \* the rows of conversation_member; role 0: there is none
  posts,  \* messages of the conversation, as kinds and the users they are about
  hand,   \* requests under way
  barred, \* rules that have forbidden a request since it arrived
  now, asked

vars == <<conv, rows, posts, hand, barred, now, asked>>

Absent == [role |-> 0, until |-> 0, pinned |-> FALSE, dnd |-> FALSE]
Joined == [Absent EXCEPT !.role = Normal]
IdleHandler == [pc |-> "idle"]

Members == {u \in Users : rows[u].role # 0}
Role(u) == IF u = Nobody THEN 0 ELSE rows[u].role
Live    == conv.status = "normal"

-----------------------------------------------------------------------------
(* The steps of a request.                                                 *)

At(h, op, pc) == hand[h].pc = pc /\ hand[h].req.op = op
By(h)     == hand[h].req.by
Target(h) == CHOOSE u \in Users : hand[h].req.to = {u}
Goto(h, pc) == hand' = [hand EXCEPT ![h].pc = pc]
Done(h)     == hand' = [hand EXCEPT ![h] = IdleHandler]
Only(h, may, pc) == IF may THEN Goto(h, pc) ELSE Done(h)

Note(kind, u) == {[kind |-> kind, who |-> u]}

\* What is left of the request is to store messages.
Say(h, notes) ==
  hand' = [hand EXCEPT ![h] = IF notes = {} THEN IdleHandler
                              ELSE [@ EXCEPT !.pc = "post", !.notes = notes]]

\* sendGroupSystemMsg stores them one by one.
Post(h) ==
  /\ hand[h].pc = "post"
  /\ \E n \in hand[h].notes : posts' = posts \cup {n} /\ Say(h, hand[h].notes \ {n})
  /\ UNCHANGED <<conv, rows>>

\* Fault: a second row of a member replaces the first.
AddRowAfresh(u, row) == rows' = [rows EXCEPT ![u] = row]

\* conversation_member has a unique index on the user: a second insert fails,
\* and its error is ignored.
AddRow(u, row) == rows' = [rows EXCEPT ![u] = IF @.role = 0 THEN row ELSE @]

\* A request arrives; nobody knows the group before it is stored.
Ask(h, r) ==
  /\ hand[h].pc = "idle" /\ asked < MaxAsked
  /\ r.op = "create" <=> conv.status = "none"
  /\ r.op = "create" => \A g \in Handlers : hand[g].pc = "idle"
  /\ hand' = [hand EXCEPT ![h] =
       [pc |-> "start", req |-> r, role |-> 0, todo |-> r.to,
        notes |-> {}, sw |-> DefaultSwitches, pins |-> <<>>]]
  /\ asked' = asked + 1
  /\ UNCHANGED <<conv, rows, posts, now>>

Stores == <<conv, rows, posts>>

-----------------------------------------------------------------------------
(* CreateGroup: the conversation, the owner, the members one by one.       *)

CreateConv(h) ==
  /\ At(h, "create", "start")
  /\ conv' = [conv EXCEPT !.status = "normal", !.owner = By(h)]
  /\ Goto(h, "owner")
  /\ UNCHANGED <<rows, posts>>

CreateOwner(h) ==
  /\ At(h, "create", "owner")
  /\ AddRow(By(h), [Joined EXCEPT !.role = Owner])
  /\ Goto(h, "members")
  /\ UNCHANGED <<conv, posts>>

CreateMember(h) ==
  /\ At(h, "create", "members")
  /\ \/ \E u \in hand[h].todo :
          /\ IF u = By(h) THEN UNCHANGED rows ELSE AddRow(u, Joined)
          /\ hand' = [hand EXCEPT ![h].todo = @ \ {u}]
     \/ hand[h].todo = {} /\ Done(h) /\ UNCHANGED rows
  /\ UNCHANGED <<conv, posts>>

(* GroupInvite: staff may always, others, members or not, if the group     *)
(* lets them.  Each user is looked for and, when he has no row, inserted.  *)

InviteRole(h) ==
  /\ At(h, "invite", "start")
  /\ Goto(h, IF Role(By(h)) \in Staff THEN "add" ELSE "allowed")
  /\ UNCHANGED Stores

InviteAllowed(h) ==
  /\ At(h, "invite", "allowed")
  /\ Only(h, Live /\ conv.sw["allowInvite"], "add")
  /\ UNCHANGED Stores

InviteCount(h) ==
  /\ At(h, "invite", "add")
  /\ \/ \E u \in hand[h].todo :
          hand' = [hand EXCEPT ![h] =
            IF Role(u) = 0
            THEN [@ EXCEPT !.pc = "insert", !.notes = hand[h].notes \cup Note("invite", u)]
            ELSE [@ EXCEPT !.todo = hand[h].todo \ {u}]]
     \/ hand[h].todo = {} /\ Say(h, hand[h].notes)
  /\ UNCHANGED Stores

\* The user just found missing; the others to do have no note yet.
InviteInsert(h) ==
  /\ At(h, "invite", "insert")
  /\ \E u \in hand[h].todo :
       /\ Note("invite", u) \subseteq hand[h].notes
       /\ AddRow(u, Joined)
       /\ hand' = [hand EXCEPT ![h] = [@ EXCEPT !.pc = "add", !.todo = hand[h].todo \ {u}]]
  /\ UNCHANGED <<conv, posts>>

(* GroupJoin: the code of the group lets anybody in, up to its size.       *)

JoinOpen(h) ==
  /\ At(h, "join", "start")
  /\ Only(h, Live /\ conv.sw["qrJoin"], "count")
  /\ UNCHANGED Stores

\* Fault: a full group takes one more.
HasRoomForOneMore == Cardinality(Members) <= MaxMembers

HasRoom == Cardinality(Members) < MaxMembers

JoinCount(h) ==
  /\ At(h, "join", "count")
  /\ Only(h, HasRoom, "exist")
  /\ UNCHANGED Stores

JoinExist(h) ==
  /\ At(h, "join", "exist")
  /\ Only(h, Role(By(h)) = 0, "add")
  /\ UNCHANGED Stores

JoinAdd(h) ==
  /\ At(h, "join", "add")
  /\ AddRow(By(h), Joined)
  /\ Say(h, Note("join", By(h)))
  /\ UNCHANGED <<conv, posts>>

-----------------------------------------------------------------------------
(* GroupRemove and MuteMember: staff act on members below them.            *)

StaffOps == {"remove", "mute"}

ReadRole(h) ==
  /\ hand[h].pc = "start" /\ hand[h].req.op \in StaffOps
  /\ IF By(h) # Target(h) /\ Role(By(h)) \in Staff
     THEN hand' = [hand EXCEPT ![h].pc = "target", ![h].role = Role(By(h))]
     ELSE Done(h)
  /\ UNCHANGED Stores

\* Fault: the owner is not out of reach.
OutranksPeersOnly(role, other) == ~(role = Admin /\ other = Admin)

Outranks(role, other) ==
  other # Owner /\ ~(role = Admin /\ other = Admin)

ReadTarget(h) ==
  /\ hand[h].pc = "target" /\ hand[h].req.op \in StaffOps
  /\ Only(h, Outranks(hand[h].role, Role(Target(h))), "act")
  /\ UNCHANGED Stores

RemoveRow(h) ==
  /\ At(h, "remove", "act")
  /\ rows' = [rows EXCEPT ![Target(h)] = Absent]
  /\ Say(h, Note("kick", Target(h)))
  /\ UNCHANGED <<conv, posts>>

Minutes(n) == IF n <= 0 THEN DefaultMinutes
              ELSE IF n > MaxMinutes THEN MaxMinutes ELSE n

\* An UPDATE of a row that is gone changes nothing.
SetUntil(u, t) == rows' = [rows EXCEPT ![u].until = IF rows[u].role = 0 THEN @ ELSE t]

MuteRow(h) ==
  /\ At(h, "mute", "act")
  /\ IF hand[h].req.on
     THEN SetUntil(Target(h), now + Minutes(hand[h].req.num))
     ELSE SetUntil(Target(h), 0)
  /\ Say(h, Note(IF hand[h].req.on THEN "mute" ELSE "unmute", Target(h)))
  /\ UNCHANGED <<conv, posts>>

(* SetGroupAdmin: the owner appoints and dismisses admins.                 *)

AdminOwner(h) ==
  /\ At(h, "setAdmin", "start")
  /\ Only(h, Role(By(h)) = Owner /\ Target(h) # By(h), "target")
  /\ UNCHANGED Stores

Wanted(h) == IF hand[h].req.on THEN Admin ELSE Normal

AdminTarget(h) ==
  /\ At(h, "setAdmin", "target")
  /\ Only(h, Role(Target(h)) \in {Admin, Normal} \ {Wanted(h)}, "act")
  /\ UNCHANGED Stores

AdminRow(h) ==
  /\ At(h, "setAdmin", "act")
  /\ rows' = [rows EXCEPT ![Target(h)].role = IF @ = 0 THEN 0 ELSE Wanted(h)]
  /\ Done(h)
  /\ UNCHANGED <<conv, posts>>

-----------------------------------------------------------------------------
(* GroupQuit and the two ways to disband.                                  *)

QuitCount(h) ==
  /\ At(h, "quit", "start")
  /\ Goto(h, IF Cardinality(Members) <= 1 THEN "close" ELSE "leave")
  /\ UNCHANGED Stores

QuitClose(h) ==
  /\ At(h, "quit", "close")
  /\ conv' = [conv EXCEPT !.status = "disband"]
  /\ Goto(h, "leaveLast")
  /\ UNCHANGED <<rows, posts>>

QuitLeave(h) ==
  /\ hand[h].pc \in {"leave", "leaveLast"}
  /\ rows' = [rows EXCEPT ![By(h)] = Absent]
  /\ Say(h, IF hand[h].pc = "leave" THEN Note("quit", By(h)) ELSE {})
  /\ UNCHANGED <<conv, posts>>

DisbandOwner(h) ==
  /\ At(h, "disband", "start")
  /\ Only(h, Role(By(h)) = Owner, "closeAll")
  /\ UNCHANGED Stores

DisbandClose(h) ==
  /\ At(h, "disband", "closeAll") \/ At(h, "adminDisband", "start")
  /\ conv' = [conv EXCEPT !.status = "disband"]
  /\ Goto(h, "clear")
  /\ UNCHANGED <<rows, posts>>

DisbandClear(h) ==
  /\ hand[h].pc = "clear"
  /\ rows' = [u \in Users |-> Absent]
  /\ Done(h)
  /\ UNCHANGED <<conv, posts>>

-----------------------------------------------------------------------------
(* GroupUpdate and UpdateAnnouncement write texts; the switches are read   *)
(* whole, changed and written whole.                                       *)

NoticeRole(h) ==
  /\ At(h, "notice", "start")
  /\ Only(h, Role(By(h)) \in Staff, "act")
  /\ UNCHANGED Stores

NoticeWrite(h) ==
  /\ At(h, "notice", "act")
  /\ conv' = [conv EXCEPT !.notice = By(h)]
  /\ Done(h)
  /\ UNCHANGED <<rows, posts>>

SettingsMember(h) ==
  /\ At(h, "settings", "start")
  /\ Only(h, Role(By(h)) # 0, "switches")
  /\ UNCHANGED Stores

SettingsRead(h) ==
  /\ At(h, "settings", "switches")
  /\ IF Live
     THEN hand' = [hand EXCEPT ![h].pc = "owner",
                     ![h].sw = [conv.sw EXCEPT ![hand[h].req.what] = hand[h].req.on]]
     ELSE Done(h)
  /\ UNCHANGED Stores

SettingsOwner(h) ==
  /\ At(h, "settings", "owner")
  /\ Only(h, Role(By(h)) = Owner, "old")
  /\ UNCHANGED Stores

\* todo is not empty when the mute switch will change.
SettingsOld(h) ==
  /\ At(h, "settings", "old")
  /\ IF Live
     THEN hand' = [hand EXCEPT ![h].pc = "act",
                     ![h].todo = IF conv.sw["muteAll"] = hand[h].sw["muteAll"]
                                 THEN {} ELSE {By(h)}]
     ELSE Done(h)
  /\ UNCHANGED Stores

SettingsWrite(h) ==
  /\ At(h, "settings", "act")
  /\ conv' = [conv EXCEPT !.sw = hand[h].sw]
  /\ Say(h, IF hand[h].todo = {} THEN {}
            ELSE Note(IF hand[h].sw["muteAll"] THEN "muteAllOn" ELSE "muteAllOff", By(h)))
  /\ UNCHANGED <<rows, posts>>

(* SetPin and SetMute: flags of one's own row.                             *)

FlagWrite(h) ==
  /\ At(h, "flag", "start")
  /\ rows' = [rows EXCEPT ![By(h)] =
       IF @.role = 0 THEN @
       ELSE IF hand[h].req.what = "pinned" THEN [@ EXCEPT !.pinned = hand[h].req.on]
       ELSE [@ EXCEPT !.dnd = hand[h].req.on]]
  /\ Done(h)
  /\ UNCHANGED <<conv, posts>>

-----------------------------------------------------------------------------
(* SetPinMessage: the list of pinned messages is read, changed, written.   *)

PinMember(h) ==
  /\ At(h, "pin", "start")
  /\ Only(h, Role(By(h)) # 0, "read")
  /\ UNCHANGED Stores

PinRead(h) ==
  /\ At(h, "pin", "read")
  /\ hand' = [hand EXCEPT ![h].pc = "act", ![h].pins = conv.pins]
  /\ UNCHANGED Stores

Elems(s) == {s[i] : i \in 1..Len(s)}

Pinned(list, m) == IF m \in Elems(list) THEN list ELSE Append(list, m)
\* Fault: unpinning drops the last pin, whichever was meant.
UnpinnedLast(list, m) == SubSeq(list, 1, Len(list) - 1)

\* The loop of SetPinMessage that keeps the other pins.
Unpinned(list, m) ==
  LET kept[i \in 0..Len(list)] ==
        IF i = 0 THEN <<>>
        ELSE IF list[i] = m THEN kept[i - 1] ELSE Append(kept[i - 1], list[i])
  IN  kept[Len(list)]
NewPins(h) ==
  LET m == hand[h].req.what
  IN  IF hand[h].req.on THEN Pinned(hand[h].pins, m) ELSE Unpinned(hand[h].pins, m)

\* The old single field takes the message of the request, pinned or not.
PinWrite(h) ==
  /\ At(h, "pin", "act")
  /\ conv' = [conv EXCEPT !.pins = NewPins(h),
                          !.pinned = IF NewPins(h) = <<>> THEN "none"
                                     ELSE hand[h].req.what]
  /\ Done(h)
  /\ UNCHANGED <<rows, posts>>

\* PinnedMessages: the list, or the old single field when the list is empty.
PinnedMessages ==
  IF conv.pins = <<>> /\ conv.pinned # "none" THEN <<conv.pinned>> ELSE conv.pins

-----------------------------------------------------------------------------
(* SendMessage into the group; it does not look at the group's status.     *)

TextMember(h) ==
  /\ At(h, "text", "start")
  /\ Only(h, Role(By(h)) # 0, "conv")
  /\ UNCHANGED Stores

TextConv(h) ==
  /\ At(h, "text", "conv")
  /\ Goto(h, IF conv.sw["muteAll"] THEN "role" ELSE "until")
  /\ UNCHANGED Stores

TextRole(h) ==
  /\ At(h, "text", "role")
  /\ Only(h, Role(By(h)) # Normal, "until")
  /\ UNCHANGED Stores

SilencedAt(row, t) == row.until > t

TextUntil(h) ==
  /\ At(h, "text", "until")
  /\ Only(h, ~SilencedAt(rows[By(h)], now), "act")
  /\ UNCHANGED Stores

TextStore(h) ==
  /\ At(h, "text", "act")
  /\ posts' = posts \cup Note("text", By(h))
  /\ Done(h)
  /\ UNCHANGED <<conv, rows>>

-----------------------------------------------------------------------------
(* Which rules forbid request r in a given state.  "guest" is what          *)
(* GroupInvite looks at: it does not ask whether the caller is a member,   *)
(* although its comment speaks of members.                                 *)

Broken(r, c, m, t) ==
  LET role(u) == IF u = Nobody THEN 0 ELSE m[u].role
      low(u)  == \E v \in r.to : role(v) = Owner \/ (role(u) # Owner /\ role(v) = Admin)
      rule(name, ops, forbids) == IF r.op \in ops /\ forbids THEN {name} ELSE {}
  IN  UNION {
    rule("member", {"pin", "text", "settings"}, role(r.by) = 0),
    rule("staff", {"remove", "mute", "notice"}, role(r.by) \notin Staff),
    rule("owner", {"settings", "setAdmin", "disband"}, role(r.by) # Owner),
    rule("rank", {"remove", "mute"}, low(r.by)),
    rule("target", {"setAdmin"}, \E v \in r.to : role(v) \in {0, Owner}),
    rule("guest", {"invite"}, role(r.by) \notin Staff
                              /\ ~(c.status = "normal" /\ c.sw["allowInvite"])),
    rule("open", {"join"}, ~(c.status = "normal" /\ c.sw["qrJoin"])),
    rule("full", {"join"}, Cardinality({u \in Users : role(u) # 0}) >= MaxMembers),
    rule("muteAll", {"text"}, c.sw["muteAll"] /\ role(r.by) = Normal),
    rule("muted", {"text"}, role(r.by) # 0 /\ SilencedAt(m[r.by], t)) }

AllRules == {"member", "staff", "owner", "rank", "target", "guest", "open",
             "full", "muteAll", "muted"}

NoteBarred ==
  barred' = [h \in Handlers |->
    IF hand'[h].pc = "idle" THEN {}
    ELSE (IF hand[h].pc = "idle" THEN AllRules ELSE barred[h])
         \cap Broken(hand'[h].req, conv', rows', now')]

-----------------------------------------------------------------------------
Init ==
  /\ conv = [status |-> "none", owner |-> Nobody, sw |-> DefaultSwitches,
             notice |-> Nobody, pins |-> <<>>, pinned |-> "none"]
  /\ rows = [u \in Users |-> Absent]
  /\ posts = {}
  /\ hand = [h \in Handlers |-> IdleHandler]
  /\ barred = [h \in Handlers |-> {}]
  /\ now = 0 /\ asked = 0

MemberSteps(h) ==
  \/ CreateConv(h) \/ CreateOwner(h) \/ CreateMember(h)
  \/ InviteRole(h) \/ InviteAllowed(h) \/ InviteCount(h) \/ InviteInsert(h)
  \/ JoinOpen(h) \/ JoinCount(h) \/ JoinExist(h) \/ JoinAdd(h)
  \/ QuitCount(h) \/ QuitClose(h) \/ QuitLeave(h)
  \/ DisbandOwner(h) \/ DisbandClose(h) \/ DisbandClear(h)

StaffSteps(h) ==
  \/ ReadRole(h) \/ ReadTarget(h) \/ RemoveRow(h) \/ MuteRow(h)
  \/ AdminOwner(h) \/ AdminTarget(h) \/ AdminRow(h)
  \/ NoticeRole(h) \/ NoticeWrite(h)
  \/ SettingsMember(h) \/ SettingsRead(h) \/ SettingsOwner(h) \/ SettingsOld(h)
  \/ SettingsWrite(h)

OwnSteps(h) ==
  \/ FlagWrite(h) \/ PinMember(h) \/ PinRead(h) \/ PinWrite(h)
  \/ TextMember(h) \/ TextConv(h) \/ TextRole(h) \/ TextUntil(h) \/ TextStore(h)
  \/ Post(h)

Crash ==
  /\ \E h \in Handlers : hand[h].pc # "idle"
  /\ hand' = [h \in Handlers |-> IdleHandler]
  /\ UNCHANGED <<conv, rows, posts, now, asked>>

Tick ==
  /\ now < MaxTime /\ now' = now + 1
  /\ UNCHANGED <<conv, rows, posts, hand, asked>>

Serve(h) == (MemberSteps(h) \/ StaffSteps(h) \/ OwnSteps(h)) /\ UNCHANGED <<now, asked>>

Next ==
  /\ \/ \E h \in Handlers, r \in Requests : Ask(h, r)
     \/ \E h \in Handlers : Serve(h)
     \/ Crash
     \/ Tick
  /\ NoteBarred

Spec == Init /\ [][Next]_vars
=============================================================================
