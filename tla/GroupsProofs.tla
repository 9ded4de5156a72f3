---------------------------- MODULE GroupsProofs ----------------------------
(***************************************************************************)
(* What GroupsProps promises about the owner and the standing of members,  *)
(* for any users, requests, handlers and bounds.                           *)
(***************************************************************************)
EXTENDS GroupsProps, Sums

Decisions == {"remove", "mute", "setAdmin"}

\* The types, but for the lists of pins, whose type no step below depends on.
IsConv(c) ==
  c \in [status : {"none", "normal", "disband"}, owner : {c.owner}, sw : Switches,
         notice : {c.notice}, pins : {c.pins}, pinned : {c.pinned}]

IsBusy(b) ==
  b \in [pc : Pcs, req : Requests, role : {0} \cup Staff \cup {Normal},
         todo : SUBSET Users, notes : SUBSET Notes, sw : Switches, pins : {b.pins}]

Types ==
  /\ IsConv(conv)
  /\ rows \in [Users -> Row]
  /\ hand = [h \in Handlers |-> hand[h]]
  /\ \A h \in Handlers : IsBusy(hand[h]) \/ hand[h] = IdleHandler
  /\ now \in Nat

Safe == Types /\ OwnerInv /\ CreationInv

\* The bodies of the requests.
LEMMA RequestFacts ==
  ASSUME NEW r \in Requests
  PROVE  /\ r.to \subseteq Users /\ r.num \in Int /\ r.on \in BOOLEAN
         /\ r.op \in Decisions => \E u \in Users : r.to = {u}
         /\ r.op # "adminDisband" => r.by \in Users
         /\ r.by \in Users \cup {Nobody}
         /\ r.op = "pin" => r.what \in Msgs
         /\ r.op = "settings" => r.what \in SwitchNames
<1>1. r \in Request
  BY GroupsAssumption
<1>2. CASE r \in MemberBodies
  BY <1>2 DEF MemberBodies, Body, Decisions
<1>3. CASE r \in RemoveBodies
  BY <1>3 DEF RemoveBodies, Body, One
<1>4. CASE r \in LeaveBodies
  BY <1>4 DEF LeaveBodies, Body, Decisions
<1>5. CASE r \in RankBodies
  BY <1>5 DEF RankBodies, Body, One
<1>6. CASE r \in JoinBodies \cup NoticeBodies
  BY <1>6 DEF JoinBodies, NoticeBodies, Body, Decisions
<1>7. CASE r \in SettingsBodies \cup FlagBodies
  BY <1>7 DEF SettingsBodies, FlagBodies, Body, Decisions
<1>8. CASE r \in PinBodies
  BY <1>8 DEF PinBodies, Body, Decisions
<1> QED BY <1>1, <1>2, <1>3, <1>4, <1>5, <1>6, <1>7, <1>8 DEF Request

\* A request under way.
LEMMA BusyFacts ==
  ASSUME NEW b, IsBusy(b)
  PROVE  /\ b.pc \in Pcs /\ b.pc # "idle" /\ b # IdleHandler
         /\ b.req \in Requests /\ b.role \in {0} \cup Staff \cup {Normal}
         /\ b.todo \subseteq Users /\ b.notes \in SUBSET Notes /\ b.sw \in Switches
<1>1. b.pc \in Pcs
  BY DEF IsBusy
<1>2. b.pc # "idle"
  BY <1>1 DEF Pcs
<1>3. b # IdleHandler
  BY <1>2 DEF IdleHandler
<1> QED BY <1>1, <1>2, <1>3 DEF IsBusy

LEMMA BusyPc ==
  ASSUME NEW b, IsBusy(b), NEW pc \in Pcs
  PROVE  /\ IsBusy([b EXCEPT !.pc = pc])
         /\ [b EXCEPT !.pc = pc].pc = pc
         /\ [b EXCEPT !.pc = pc].req = b.req
BY DEF IsBusy

LEMMA BusyPost ==
  ASSUME NEW b, IsBusy(b), NEW notes \in SUBSET Notes
  PROVE  /\ IsBusy([b EXCEPT !.pc = "post", !.notes = notes])
         /\ [b EXCEPT !.pc = "post", !.notes = notes].pc = "post"
         /\ [b EXCEPT !.pc = "post", !.notes = notes].req = b.req
BY DEF IsBusy, Pcs

-----------------------------------------------------------------------------
(* The invariant.                                                          *)

Founding(h) == At(h, "create", "owner")

\* Leaving is what a quitting request does; whoever is served but the first
\* creator finds the group stored; one request founds the group.
Flow ==
  /\ \A h \in Handlers : hand[h].pc \in {"leave", "leaveLast"} => hand[h].req.op = "quit"
  /\ \A h \in Handlers : hand[h].pc # "idle" /\ ~At(h, "create", "start")
                           => conv.status # "none"
  /\ \A g, h \in Handlers : Founding(g) /\ Founding(h) => g = h

Inv == Safe /\ Flow

\* What a request may become by a step of its own, once the group is stored.
Fits(h, b) ==
  \/ b = IdleHandler
  \/ /\ IsBusy(b) /\ b.req = hand[h].req
     /\ ~At(h, "create", "start")
     /\ b.pc # "start" /\ (b.req.op = "create" => b.pc # "owner")
     /\ b.pc \in {"leave", "leaveLast"} => b.req.op = "quit"
     /\ b.pc \in {"target", "act"} /\ b.req.op \in Decisions
          => \A g \in Handlers : ~Founding(g)
     /\ b.pc = "act" /\ b.req.op \in Decisions => Role(Target(h)) # Owner

\* What such a step may do to the stores: it makes no owner and mutes none.
Mild ==
  /\ IsConv(conv') /\ rows' \in [Users -> Row]
  /\ conv'.owner = conv.owner
  /\ conv.status # "none" => conv'.status # "none"
  /\ conv'.status = "none" => rows' = rows
  /\ \A u \in Users : rows'[u].role = Owner => rows[u].role = Owner /\ rows'[u].until = 0
  /\ (\E g \in Handlers : Founding(g)) =>
       \A u \in Users : rows'[u].role \in {0, Normal} /\ rows'[u].until = 0

LEMMA StepKeeps ==
  ASSUME Inv, Mild, now' \in Nat, NEW h \in Handlers, NEW b, hand[h].pc # "idle",
         hand' = [hand EXCEPT ![h] = b], Fits(h, b)
  PROVE  Inv'
<1> USE DEF Inv
<1>1. (IsBusy(b) \/ b = IdleHandler) /\ hand'[h] = b
      /\ \A g \in Handlers \ {h} : hand'[g] = hand[g]
  BY DEF Fits, Safe, Types
<1>2. Types'
  BY <1>1 DEF Mild, Safe, Types
<1>3. \A g \in Handlers : Founding(g)' => g # h /\ Founding(g)
  BY <1>1 DEF Founding, At, Fits, IdleHandler
<1>4. \A g \in Handlers : At(g, "create", "start")' => g # h /\ At(g, "create", "start")
  BY <1>1 DEF At, Fits, IdleHandler
<1>5. Flow'
  <2>1. ASSUME NEW g \in Handlers, hand'[g].pc # "idle", ~At(g, "create", "start")'
        PROVE  conv'.status # "none"
    <3>1. CASE g = h
      BY <2>1, <3>1, <1>1 DEF Fits, IdleHandler, Flow, Mild
    <3>2. CASE g # h
      BY <2>1, <3>2, <1>1 DEF Flow, At, Mild
    <3> QED BY <3>1, <3>2
  <2>2. ASSUME NEW g \in Handlers, hand'[g].pc \in {"leave", "leaveLast"}
        PROVE  hand'[g].req.op = "quit"
    BY <2>2, <1>1 DEF Fits, IdleHandler, Flow
  <2> QED BY <1>3, <2>1, <2>2 DEF Flow, At
<1>6. \A r : \A u \in Users : rows'[u].role = Owner => rows[u].role = Owner
  BY DEF Mild
<1>7. ASSUME NEW g \in Handlers, hand'[g].pc \in {"target", "act"},
             hand'[g].req.op \in Decisions
      PROVE  /\ \A f \in Handlers : ~Founding(f)
             /\ hand'[g].pc = "act" => Role(Target(g))' # Owner
  <2>1. CASE g = h
    <3>1. b.req = hand[h].req /\ Fits(h, b) /\ b # IdleHandler
      BY <1>1, <1>7, <2>1 DEF IdleHandler, Fits
    <3>2. Target(g)' = Target(h)
      BY <1>1, <2>1, <3>1 DEF Target
    <3>3. \E u \in Users : hand[h].req.to = {u}
      BY <1>1, <1>7, <2>1, <3>1, BusyFacts, RequestFacts DEF Fits
    <3>4. Target(h) \in Users /\ Target(h) # Nobody
      BY <3>3, GroupsAssumption DEF Target
    <3> QED BY <1>1, <1>7, <2>1, <3>1, <3>2, <3>4 DEF Fits, Role, Mild
  <2>2. CASE g # h
    <3>1. hand'[g] = hand[g] /\ IsBusy(hand[g])
      BY <1>1, <1>7, <2>2 DEF Safe, Types, IdleHandler
    <3>2. Target(g)' = Target(g)
      BY <3>1 DEF Target
    <3>3. \E u \in Users : hand[g].req.to = {u}
      BY <1>7, <3>1, BusyFacts, RequestFacts
    <3>4. Target(g) \in Users /\ Target(g) # Nobody
      BY <3>3, GroupsAssumption DEF Target
    <3>5. \A f \in Handlers : ~Founding(f)
      BY <1>7, <3>1 DEF Safe, CreationInv, Founding, Decisions
    <3>6. hand'[g].pc = "act" => Role(Target(g)) # Owner
      BY <1>7, <3>1 DEF Safe, OwnerInv, Decisions
    <3> QED BY <3>2, <3>4, <3>5, <3>6 DEF Role, Mild
  <2> QED BY <2>1, <2>2
<1>8. OwnerInv'
  <2>1. \A u \in Users : rows'[u].role = Owner => u = conv'.owner /\ rows'[u].until = 0
    BY DEF Mild, Safe, OwnerInv
  <2> QED BY <1>7, <2>1 DEF OwnerInv, Decisions
<1>9. CreationInv'
  <2>1. conv'.status = "none" => \A u \in Users : rows'[u] = Absent
    BY DEF Mild, Safe, CreationInv
  <2>2. ASSUME NEW g \in Handlers, At(g, "create", "start")'
        PROVE  conv'.status = "none" /\ \A f \in Handlers \ {g} : hand'[f].pc = "idle"
    BY <1>4, <2>2 DEF Safe, CreationInv
  <2>3. ASSUME NEW g \in Handlers, At(g, "create", "owner")'
        PROVE  /\ conv'.owner = By(g)'
               /\ \A u \in Users : rows'[u].role \in {0, Normal} /\ rows'[u].until = 0
               /\ \A f \in Handlers : hand'[f].pc \in {"target", "act"}
                     => hand'[f].req.op \notin Decisions
    <3>1. g # h /\ Founding(g) /\ hand'[g] = hand[g]
      BY <1>1, <1>3, <2>3 DEF Founding
    <3>2. conv'.owner = By(g)'
      BY <3>1 DEF Mild, Safe, CreationInv, Founding, By
    <3>3. \A u \in Users : rows'[u].role \in {0, Normal} /\ rows'[u].until = 0
      BY <3>1 DEF Mild
    <3> QED BY <1>7, <3>1, <3>2, <3>3
  <2> QED BY <2>1, <2>2, <2>3 DEF CreationInv, Decisions
<1> QED BY <1>2, <1>5, <1>8, <1>9 DEF Safe

-----------------------------------------------------------------------------
(* The moves of a request, and the steps that leave the stores alone.      *)

Moves(h) == \E b : hand' = [hand EXCEPT ![h] = b] /\ Fits(h, b)

\* A request that may go on to a statement.
MayGo(h, pc) ==
  /\ pc \in Pcs \ {"start"}
  /\ hand[h].req.op = "create" => pc # "owner"
  /\ pc \in {"leave", "leaveLast"} => hand[h].req.op = "quit"
  /\ pc \in {"target", "act"} /\ hand[h].req.op \in Decisions
       => \A g \in Handlers : ~Founding(g)
  /\ pc = "act" /\ hand[h].req.op \in Decisions => Role(Target(h)) # Owner

Serving(h) == hand[h].pc # "idle" /\ ~At(h, "create", "start")

LEMMA ServingIsBusy ==
  ASSUME Inv, NEW h \in Handlers, hand[h].pc # "idle"
  PROVE  IsBusy(hand[h])
BY DEF Inv, Safe, Types, IdleHandler

LEMMA GotoMoves ==
  ASSUME Inv, NEW h \in Handlers, Serving(h), NEW pc, MayGo(h, pc), Goto(h, pc)
  PROVE  Moves(h)
<1> DEFINE b == [hand[h] EXCEPT !.pc = pc]
<1>1. IsBusy(hand[h])
  BY ServingIsBusy DEF Serving
<1>2. IsBusy(b) /\ b.pc = pc /\ b.req = hand[h].req
  BY <1>1, BusyPc DEF MayGo
<1>3. hand' = [hand EXCEPT ![h] = b]
  BY DEF Goto
<1>4. Fits(h, b)
  <2> HIDE DEF b
  <2> QED BY <1>2 DEF Fits, MayGo, Serving
<1> QED BY <1>3, <1>4 DEF Moves

LEMMA DoneMoves ==
  ASSUME NEW h \in Handlers, Done(h)
  PROVE  Moves(h)
BY DEF Done, Moves, Fits

LEMMA OnlyMoves ==
  ASSUME Inv, NEW h \in Handlers, Serving(h), NEW may, NEW pc,
         may => MayGo(h, pc), Only(h, may, pc)
  PROVE  Moves(h)
BY GotoMoves, DoneMoves DEF Only

LEMMA SayMoves ==
  ASSUME Inv, NEW h \in Handlers, Serving(h),
         NEW notes \in SUBSET Notes, Say(h, notes)
  PROVE  Moves(h)
<1> DEFINE b == [hand[h] EXCEPT !.pc = "post", !.notes = notes]
<1>1. IsBusy(hand[h])
  BY ServingIsBusy DEF Serving
<1>2. IsBusy(b) /\ b.pc = "post" /\ b.req = hand[h].req
  BY <1>1, BusyPost
<1>3. Fits(h, b) /\ Fits(h, IdleHandler)
  <2> HIDE DEF b
  <2> QED BY <1>2 DEF Fits, Serving
<1>4. hand' = [hand EXCEPT ![h] = IdleHandler] \/ hand' = [hand EXCEPT ![h] = b]
  BY DEF Say
<1> QED BY <1>3, <1>4 DEF Moves

LEMMA MovesKeep ==
  ASSUME Inv, Mild, now' = now, NEW h \in Handlers, hand[h].pc # "idle", Moves(h)
  PROVE  Inv'
<1>1. now' \in Nat
  BY DEF Inv, Safe, Types
<1> QED BY <1>1, StepKeeps DEF Moves

LEMMA StoresSame ==
  ASSUME Inv, UNCHANGED <<conv, rows>>
  PROVE  Mild
BY DEF Inv, Safe, Types, OwnerInv, CreationInv, Mild, Founding

\* While a group is founded nobody is of its staff.
LEMMA NoStaffYet ==
  ASSUME Inv, NEW u \in Users \cup {Nobody}, Role(u) \in Staff
  PROVE  \A g \in Handlers : ~Founding(g)
BY GroupsAssumption DEF Inv, Safe, CreationInv, Founding, Role, Staff, Owner, Admin, Normal

\* The caller of a request and its target.
LEMMA CallerFacts ==
  ASSUME Inv, NEW h \in Handlers, hand[h].pc # "idle"
  PROVE  /\ By(h) \in Users \cup {Nobody} /\ (hand[h].req.op # "adminDisband" => By(h) \in Users)
         /\ hand[h].req.op \in Decisions => Target(h) \in Users
         /\ hand[h].req.op = "pin" => hand[h].req.what \in Msgs
         /\ hand[h].req.op = "settings" => hand[h].req.what \in SwitchNames
         /\ hand[h].req.num \in Int /\ hand[h].req.on \in BOOLEAN
<1>1. hand[h].req \in Requests
  BY ServingIsBusy, BusyFacts
<1> QED BY <1>1, RequestFacts DEF By, Target

Looks(h) ==
  \/ InviteRole(h) \/ InviteAllowed(h) \/ JoinOpen(h) \/ JoinCount(h) \/ JoinExist(h)
  \/ QuitCount(h) \/ DisbandOwner(h) \/ ReadRole(h) \/ ReadTarget(h)
  \/ AdminOwner(h) \/ AdminTarget(h) \/ NoticeRole(h)
  \/ SettingsMember(h) \/ SettingsRead(h) \/ SettingsOwner(h) \/ SettingsOld(h)
  \/ InviteCount(h) \/ PinMember(h) \/ PinRead(h)
  \/ TextMember(h) \/ TextConv(h) \/ TextRole(h) \/ TextUntil(h)

\* How an invitation goes on, whether it looks for a user or inserts him.
LEMMA InviteMoves ==
  ASSUME Inv, NEW h \in Handlers, InviteCount(h) \/ InviteInsert(h)
  PROVE  /\ Moves(h) /\ Serving(h) /\ hand'[h].pc # "target"
         /\ hand'[h] = IdleHandler \/ hand'[h].pins = hand[h].pins
<1>1. Serving(h) /\ IsBusy(hand[h]) /\ hand[h].req.op = "invite"
  BY ServingIsBusy DEF InviteCount, InviteInsert, At, Serving
<1>2. hand[h].todo \in SUBSET Users /\ hand[h].notes \in SUBSET Notes
  BY <1>1, BusyFacts
<1>3. hand = [g \in Handlers |-> hand[g]]
  BY DEF Inv, Safe, Types
<1>4. \A u \in Users : Note("invite", u) \in SUBSET Notes
  BY DEF Note, Notes
<1>5. ASSUME NEW b, hand' = [hand EXCEPT ![h] = b], IsBusy(b), b.req = hand[h].req,
             b.pc \in {"add", "insert", "post"}, b.pins = hand[h].pins
      PROVE  Moves(h) /\ hand'[h].pc # "target" /\ hand'[h].pins = hand[h].pins
  <2>1. hand'[h] = b
    BY <1>3, <1>5
  <2>2. Fits(h, b)
    BY <1>1, <1>5 DEF Fits, Serving
  <2> QED BY <1>5, <2>1, <2>2 DEF Moves
<1>6. CASE InviteInsert(h)
  <2>1. PICK u \in hand[h].todo :
          hand' = [hand EXCEPT ![h] = [@ EXCEPT !.pc = "add", !.todo = hand[h].todo \ {u}]]
    BY <1>6 DEF InviteInsert
  <2> DEFINE todo == hand[h].todo \ {u}
             b == [hand[h] EXCEPT !.pc = "add", !.todo = todo]
  <2>2. hand' = [hand EXCEPT ![h] = b]
    BY <2>1
  <2>3. todo \in SUBSET Users
    BY <1>2
  <2> HIDE DEF todo
  <2>4. IsBusy(b) /\ b.pc = "add" /\ b.req = hand[h].req /\ b.pins = hand[h].pins
    BY <1>1, <2>3 DEF IsBusy, Pcs
  <2> HIDE DEF b
  <2> QED BY <1>1, <1>5, <2>2, <2>4
<1>7. CASE InviteCount(h)
  <2>1. CASE Say(h, hand[h].notes)
    <3>1. Moves(h)
      BY <1>1, <1>2, <2>1, SayMoves
    <3> DEFINE b == [hand[h] EXCEPT !.pc = "post", !.notes = hand[h].notes]
    <3>2. hand'[h] = IdleHandler \/ hand'[h] = b
      BY <1>3, <2>1 DEF Say
    <3>3. b.pc = "post" /\ b.pins = hand[h].pins /\ IdleHandler.pc = "idle"
      BY <1>1 DEF IsBusy, IdleHandler
    <3> HIDE DEF b
    <3> QED BY <1>1, <3>1, <3>2, <3>3
  <2>2. CASE ~Say(h, hand[h].notes)
    <3>1. PICK u \in hand[h].todo :
            hand' = [hand EXCEPT ![h] =
              IF Role(u) = 0
              THEN [@ EXCEPT !.pc = "insert", !.notes = hand[h].notes \cup Note("invite", u)]
              ELSE [@ EXCEPT !.todo = hand[h].todo \ {u}]]
      BY <1>7, <2>2 DEF InviteCount
    <3> DEFINE todo == hand[h].todo \ {u}
               notes == hand[h].notes \cup Note("invite", u)
               b == [hand[h] EXCEPT !.pc = "insert", !.notes = notes]
               c == [hand[h] EXCEPT !.todo = todo]
    <3>2. todo \in SUBSET Users /\ notes \in SUBSET Notes
      BY <1>2, <1>4
    <3>3. hand' = [hand EXCEPT ![h] = b] \/ hand' = [hand EXCEPT ![h] = c]
      BY <3>1
    <3> HIDE DEF todo, notes
    <3>4. IsBusy(b) /\ b.pc = "insert" /\ b.req = hand[h].req /\ b.pins = hand[h].pins
      BY <1>1, <3>2 DEF IsBusy, Pcs
    <3>5. IsBusy(c) /\ c.pc = "add" /\ c.req = hand[h].req /\ c.pins = hand[h].pins
      BY <1>1, <1>7, <3>2 DEF IsBusy, InviteCount, At
    <3> HIDE DEF b, c
    <3> QED BY <1>1, <1>5, <3>3, <3>4, <3>5
  <2> QED BY <2>1, <2>2
<1> QED BY <1>6, <1>7

LEMMA LooksMove ==
  ASSUME Inv, NEW h \in Handlers, Looks(h)
  PROVE  Moves(h) /\ UNCHANGED Stores /\ hand[h].pc # "idle"
<1>1. CASE InviteRole(h) \/ InviteAllowed(h) \/ JoinOpen(h) \/ JoinCount(h) \/ JoinExist(h)
  BY <1>1, GotoMoves, OnlyMoves
     DEF InviteRole, InviteAllowed, JoinOpen, JoinCount, JoinExist, At, Serving, MayGo, Pcs,
         Decisions
<1>2. CASE QuitCount(h) \/ DisbandOwner(h) \/ NoticeRole(h) \/ SettingsMember(h)
           \/ SettingsOwner(h) \/ PinMember(h)
  BY <1>2, GotoMoves, OnlyMoves
     DEF QuitCount, DisbandOwner, NoticeRole, SettingsMember, SettingsOwner, PinMember, At, Serving, MayGo,
         Pcs, Decisions
<1>3. CASE TextMember(h) \/ TextConv(h) \/ TextRole(h) \/ TextUntil(h)
  BY <1>3, GotoMoves, OnlyMoves
     DEF TextMember, TextConv, TextRole, TextUntil, At, Serving, MayGo, Pcs, Decisions
<1>4. CASE AdminOwner(h)
  <2>1. Serving(h) /\ By(h) \in Users
    BY <1>4, CallerFacts DEF AdminOwner, At, Serving
  <2>2. Role(By(h)) = Owner => MayGo(h, "target")
    BY <1>4, <2>1, NoStaffYet DEF AdminOwner, At, MayGo, Pcs, Staff
  <2> QED BY <1>4, <2>1, <2>2, OnlyMoves DEF AdminOwner, At
<1>5. CASE AdminTarget(h)
  <2>1. Serving(h) /\ \A g \in Handlers : ~Founding(g)
    BY <1>5 DEF AdminTarget, At, Serving, Inv, Safe, CreationInv, Founding
  <2>2. Role(Target(h)) \in {Admin, Normal} \ {Wanted(h)} => MayGo(h, "act")
    BY <1>5, <2>1 DEF AdminTarget, At, MayGo, Pcs, Owner, Admin, Normal
  <2> QED BY <1>5, <2>1, <2>2, OnlyMoves DEF AdminTarget, At
<1>6. CASE ReadTarget(h)
  <2>1. Serving(h) /\ \A g \in Handlers : ~Founding(g)
    BY <1>6 DEF ReadTarget, At, Serving, Inv, Safe, CreationInv, Founding, StaffOps
  <2>2. Outranks(hand[h].role, Role(Target(h))) => MayGo(h, "act")
    BY <1>6, <2>1 DEF ReadTarget, At, MayGo, Pcs, Outranks, StaffOps
  <2> QED BY <1>6, <2>1, <2>2, OnlyMoves DEF ReadTarget
<1>7. CASE ReadRole(h)
  <2>1. Serving(h) /\ By(h) \in Users /\ IsBusy(hand[h])
    BY <1>7, CallerFacts, ServingIsBusy DEF ReadRole, At, Serving, StaffOps
  <2>2. ASSUME Role(By(h)) \in Staff,
               hand' = [hand EXCEPT ![h].pc = "target", ![h].role = Role(By(h))]
        PROVE  Moves(h)
    <3> DEFINE b == [hand[h] EXCEPT !.pc = "target", !.role = Role(By(h))]
    <3>1. IsBusy(b) /\ b.pc = "target" /\ b.req = hand[h].req
      BY <2>1, <2>2 DEF IsBusy, Pcs
    <3>2. hand' = [hand EXCEPT ![h] = b]
      BY <2>2
    <3>3. \A g \in Handlers : ~Founding(g)
      BY <2>1, <2>2, NoStaffYet
    <3>4. Fits(h, b)
      <4> HIDE DEF b
      <4> QED BY <2>1, <3>1, <3>3 DEF Fits, Serving
    <3> QED BY <3>2, <3>4 DEF Moves
  <2> QED BY <1>7, <2>2, DoneMoves DEF ReadRole
<1>8. CASE SettingsRead(h)
  <2>1. Serving(h) /\ IsBusy(hand[h]) /\ hand[h].req.op = "settings"
    BY <1>8, ServingIsBusy DEF SettingsRead, At, Serving
  <2> DEFINE sw == [conv.sw EXCEPT ![hand[h].req.what] = hand[h].req.on]
  <2>2. sw \in Switches
    BY <2>1, CallerFacts DEF Serving, Inv, Safe, Types, IsConv, Switches
  <2> HIDE DEF sw
  <2> DEFINE b == [hand[h] EXCEPT !.pc = "owner", !.sw = sw]
  <2>3. IsBusy(b) /\ b.pc = "owner" /\ b.req = hand[h].req
    BY <2>1, <2>2 DEF IsBusy, Pcs
  <2>4. Done(h) \/ hand' = [hand EXCEPT ![h] = b]
    BY <1>8 DEF SettingsRead, sw
  <2>5. Fits(h, b)
    <3> HIDE DEF b
    <3> QED BY <2>1, <2>3 DEF Fits, Serving
  <2> QED BY <1>8, <2>4, <2>5, DoneMoves DEF Moves, SettingsRead, At
<1>9. CASE SettingsOld(h)
  <2>1. Serving(h) /\ IsBusy(hand[h]) /\ hand[h].req.op = "settings" /\ By(h) \in Users
    BY <1>9, ServingIsBusy, CallerFacts DEF SettingsOld, At, Serving
  <2> DEFINE todo == IF conv.sw["muteAll"] = hand[h].sw["muteAll"] THEN {} ELSE {By(h)}
  <2>2. todo \subseteq Users
    BY <2>1
  <2> HIDE DEF todo
  <2> DEFINE b == [hand[h] EXCEPT !.pc = "act", !.todo = todo]
  <2>3. IsBusy(b) /\ b.pc = "act" /\ b.req = hand[h].req
    BY <2>1, <2>2 DEF IsBusy, Pcs
  <2>4. Done(h) \/ hand' = [hand EXCEPT ![h] = b]
    BY <1>9 DEF SettingsOld, todo
  <2>5. Fits(h, b)
    <3> HIDE DEF b
    <3> QED BY <2>1, <2>3 DEF Fits, Serving, Decisions
  <2> QED BY <1>9, <2>4, <2>5, DoneMoves DEF Moves, SettingsOld, At
<1>10. CASE PinRead(h)
  <2>1. Serving(h) /\ IsBusy(hand[h]) /\ hand[h].req.op = "pin"
    BY <1>10, ServingIsBusy DEF PinRead, At, Serving
  <2> DEFINE b == [hand[h] EXCEPT !.pc = "act", !.pins = conv.pins]
  <2>3. IsBusy(b) /\ b.pc = "act" /\ b.req = hand[h].req
    BY <2>1 DEF IsBusy, Pcs
  <2>4. hand' = [hand EXCEPT ![h] = b]
    BY <1>10 DEF PinRead
  <2>5. Fits(h, b)
    <3> HIDE DEF b
    <3> QED BY <2>1, <2>3 DEF Fits, Serving, Decisions
  <2> QED BY <1>10, <2>4, <2>5 DEF Moves, PinRead, At
<1>11. CASE InviteCount(h)
  BY <1>11, InviteMoves DEF InviteCount, Serving
<1> QED BY <1>1, <1>2, <1>3, <1>4, <1>5, <1>6, <1>7, <1>8, <1>9, <1>10, <1>11
        DEF Looks, At, StaffOps,
          InviteRole, InviteAllowed, JoinOpen, JoinCount, JoinExist, QuitCount, DisbandOwner,
          ReadRole, ReadTarget, AdminOwner, AdminTarget, NoticeRole, SettingsMember, SettingsRead,
          SettingsOwner, SettingsOld, PinMember, PinRead, TextMember, TextConv, TextRole,
          TextUntil

LEMMA LooksKeep ==
  ASSUME Inv, NEW h \in Handlers, Looks(h), UNCHANGED now
  PROVE  Inv'
BY LooksMove, StoresSame, MovesKeep DEF Stores

-----------------------------------------------------------------------------
(* The steps that write.                                                   *)

\* A member row added: an existing one stays.
LEMMA AddRowMild ==
  ASSUME Inv, NEW h \in Handlers, Serving(h), NEW u \in Users, AddRow(u, Joined),
         conv' = conv
  PROVE  Mild
<1>1. Joined \in Row /\ Joined.role = Normal /\ Joined.until = 0
  BY DEF Joined, Absent, Row
<1>2. rows' \in [Users -> Row]
  BY <1>1 DEF AddRow, Inv, Safe, Types
<1>3. \A v \in Users : rows'[v] = rows[v] \/ rows'[v] = Joined
  BY DEF AddRow, Inv, Safe, Types
<1>4. conv.status # "none"
  BY DEF Inv, Flow, Serving
<1> QED BY <1>1, <1>2, <1>3, <1>4
        DEF Mild, Inv, Safe, Types, OwnerInv, CreationInv, Founding, Owner, Normal

LEMMA TodoMoves ==
  ASSUME Inv, NEW h \in Handlers, Serving(h), NEW todo \in SUBSET Users,
         hand[h].pc = "members",
         hand' = [hand EXCEPT ![h] = [@ EXCEPT !.todo = todo]]
  PROVE  Moves(h)
<1> DEFINE b == [hand[h] EXCEPT !.todo = todo]
<1>1. IsBusy(hand[h])
  BY ServingIsBusy DEF Serving
<1>2. IsBusy(b) /\ b.pc = hand[h].pc /\ b.req = hand[h].req
  BY <1>1 DEF IsBusy
<1>3. hand' = [hand EXCEPT ![h] = b]
  OBVIOUS
<1>4. Fits(h, b)
  <2> HIDE DEF b
  <2> QED BY <1>2 DEF Fits, Serving
<1> QED BY <1>3, <1>4 DEF Moves

LEMMA AddsKeep ==
  ASSUME Inv, NEW h \in Handlers, CreateMember(h) \/ InviteInsert(h) \/ JoinAdd(h), UNCHANGED now
  PROVE  Inv'
<1>1. Serving(h) /\ IsBusy(hand[h])
  BY ServingIsBusy DEF CreateMember, InviteInsert, JoinAdd, At, Serving
<1>2. hand[h].todo \in SUBSET Users /\ hand[h].notes \in SUBSET Notes
  BY <1>1, BusyFacts
<1>3. CASE CreateMember(h)
  <2>1. ASSUME NEW u \in hand[h].todo, AddRow(u, Joined) \/ UNCHANGED rows,
               hand' = [hand EXCEPT ![h].todo = @ \ {u}]
        PROVE  Mild /\ Moves(h)
    <3>1. Mild
      BY <1>1, <1>2, <1>3, <2>1, AddRowMild, StoresSame DEF CreateMember
    <3> DEFINE todo == hand[h].todo \ {u}
    <3>2. todo \in SUBSET Users /\ hand[h].pc = "members"
      BY <1>2, <1>3 DEF CreateMember, At
    <3>3. hand' = [hand EXCEPT ![h] = [@ EXCEPT !.todo = todo]]
      BY <2>1
    <3> HIDE DEF todo
    <3>4. Moves(h)
      BY <1>1, <3>2, <3>3, TodoMoves
    <3> QED BY <3>1, <3>4
  <2>2. ASSUME Done(h), UNCHANGED rows PROVE Mild /\ Moves(h)
    BY <1>3, <2>2, DoneMoves, StoresSame DEF CreateMember
  <2> QED BY <1>1, <1>3, <2>1, <2>2, MovesKeep DEF CreateMember, Serving
<1>4. CASE InviteInsert(h)
  <2>1. PICK u \in hand[h].todo : AddRow(u, Joined)
    BY <1>4 DEF InviteInsert
  <2>2. Mild
    BY <1>1, <1>2, <1>4, <2>1, AddRowMild DEF InviteInsert
  <2> QED BY <1>1, <1>4, <2>2, InviteMoves, MovesKeep DEF Serving
<1>5. CASE JoinAdd(h)
  <2>1. By(h) \in Users
    BY <1>5, CallerFacts DEF JoinAdd, At
  <2>2. Note("join", By(h)) \in SUBSET Notes
    BY <2>1 DEF Note, Notes
  <2>3. Mild
    BY <1>1, <1>5, <2>1, AddRowMild DEF JoinAdd
  <2>4. Moves(h)
    BY <1>1, <1>5, <2>2, SayMoves DEF JoinAdd
  <2> QED BY <1>1, <2>3, <2>4, MovesKeep DEF Serving
<1> QED BY <1>3, <1>4, <1>5

\* A member row changed: no owner is made and a new owner is not muted.
LEMMA RowMild ==
  ASSUME Inv, NEW h \in Handlers, Serving(h), NEW u \in Users, NEW row \in Row,
         rows' = [rows EXCEPT ![u] = row], conv' = conv,
         row.role = Owner => rows[u].role = Owner /\ row.until = 0,
         (\E g \in Handlers : Founding(g)) => row.role \in {0, Normal} /\ row.until = 0
  PROVE  Mild
<1>1. rows \in [Users -> Row] /\ IsConv(conv) /\ conv.status # "none"
  BY DEF Inv, Safe, Types, Flow, Serving
<1>2. rows' \in [Users -> Row] /\ \A v \in Users : rows'[v] = IF v = u THEN row ELSE rows[v]
  BY <1>1
<1> QED BY <1>1, <1>2 DEF Mild, Inv, Safe, OwnerInv, CreationInv, Founding

LEMMA ConvMild ==
  ASSUME Inv, IsConv(conv'), conv'.owner = conv.owner, conv'.status # "none", rows' = rows
  PROVE  Mild
BY DEF Mild, Inv, Safe, Types, OwnerInv, CreationInv, Founding

LEMMA AbsentRow ==
  Absent \in Row /\ Absent.role = 0 /\ Absent.role # Owner /\ Absent.until = 0
BY DEF Absent, Row, Owner

\* What a decision knows when it is carried out.
LEMMA ActFacts ==
  ASSUME Inv, NEW h \in Handlers, hand[h].pc = "act", hand[h].req.op \in Decisions
  PROVE  /\ Serving(h) /\ Target(h) \in Users /\ rows[Target(h)] \in Row
         /\ rows[Target(h)].role # Owner /\ \A g \in Handlers : ~Founding(g)
<1>1. Serving(h) /\ Target(h) \in Users
  BY CallerFacts DEF Serving, At
<1>2. Target(h) # Nobody
  BY <1>1, GroupsAssumption
<1> QED BY <1>1, <1>2 DEF Inv, Safe, Types, OwnerInv, CreationInv, Founding, Decisions, Role

LEMMA DecisionsKeep ==
  ASSUME Inv, NEW h \in Handlers, RemoveRow(h) \/ MuteRow(h) \/ AdminRow(h), UNCHANGED now
  PROVE  Inv'
<1>1. hand[h].pc = "act" /\ hand[h].req.op \in Decisions
  BY DEF RemoveRow, MuteRow, AdminRow, At, Decisions
<1>2. Serving(h) /\ Target(h) \in Users /\ rows[Target(h)] \in Row
      /\ rows[Target(h)].role # Owner /\ \A g \in Handlers : ~Founding(g)
  BY <1>1, ActFacts
<1>3. CASE RemoveRow(h)
  <2>1. Note("kick", Target(h)) \in SUBSET Notes
    BY <1>2 DEF Note, Notes
  <2>2. Moves(h)
    BY <1>2, <1>3, <2>1, SayMoves DEF RemoveRow
  <2>3. Mild
    <3>1. rows' = [rows EXCEPT ![Target(h)] = Absent] /\ conv' = conv
      BY <1>3 DEF RemoveRow
    <3> QED BY <1>2, <3>1, AbsentRow, RowMild
  <2> QED BY <1>1, <2>2, <2>3, MovesKeep
<1>4. CASE MuteRow(h)
  <2>1. Note("mute", Target(h)) \in SUBSET Notes /\ Note("unmute", Target(h)) \in SUBSET Notes
    BY <1>2 DEF Note, Notes
  <2>2. Moves(h)
    <3>1. CASE hand[h].req.on
      BY <1>2, <1>4, <2>1, <3>1, SayMoves DEF MuteRow
    <3>2. CASE ~hand[h].req.on
      BY <1>2, <1>4, <2>1, <3>2, SayMoves DEF MuteRow
    <3> QED BY <3>1, <3>2
  <2>3. PICK n \in Nat : SetUntil(Target(h), n)
    <3>1. hand[h].req.num \in Int /\ now \in Nat
      BY <1>1, CallerFacts DEF Inv, Safe, Types
    <3>2. now + Minutes(hand[h].req.num) \in Nat
      BY <3>1, GroupsAssumption DEF Minutes
    <3> QED BY <1>4, <3>2 DEF MuteRow
  <2> DEFINE row == [rows[Target(h)] EXCEPT !.until = IF rows[Target(h)].role = 0 THEN @ ELSE n]
  <2>4. row \in Row /\ row.role = rows[Target(h)].role
    BY <1>2, <2>3 DEF Row
  <2>5. rows' = [rows EXCEPT ![Target(h)] = row] /\ conv' = conv
    BY <1>4, <2>3 DEF SetUntil, MuteRow
  <2> HIDE DEF row
  <2>6. Mild
    BY <1>2, <2>4, <2>5, RowMild
  <2> QED BY <1>1, <2>2, <2>6, MovesKeep
<1>5. CASE AdminRow(h)
  <2> DEFINE row == [rows[Target(h)] EXCEPT !.role = IF @ = 0 THEN 0 ELSE Wanted(h)]
  <2>1. Wanted(h) \in {Admin, Normal}
    BY DEF Wanted
  <2>2. row \in Row /\ row.role # Owner
    BY <1>2, <2>1 DEF Row, Staff, Owner, Admin, Normal
  <2>3. rows' = [rows EXCEPT ![Target(h)] = row] /\ conv' = conv /\ Moves(h)
    BY <1>5, DoneMoves DEF AdminRow
  <2> HIDE DEF row
  <2>4. Mild
    BY <1>2, <2>2, <2>3, RowMild
  <2> QED BY <1>1, <2>3, <2>4, MovesKeep
<1> QED BY <1>3, <1>4, <1>5

LEMMA OwnRowsKeep ==
  ASSUME Inv, NEW h \in Handlers, QuitLeave(h) \/ DisbandClear(h) \/ FlagWrite(h), UNCHANGED now
  PROVE  Inv'
<1>1. Serving(h) /\ hand[h].pc # "idle"
  BY DEF QuitLeave, DisbandClear, FlagWrite, At, Serving
<1>2. CASE QuitLeave(h)
  <2>1. By(h) \in Users
    BY <1>1, <1>2, CallerFacts DEF QuitLeave, Inv, Flow
  <2>2. Note("quit", By(h)) \in SUBSET Notes /\ {} \in SUBSET Notes
    BY <2>1 DEF Note, Notes
  <2>3. Moves(h)
    <3>1. CASE hand[h].pc = "leave"
      BY <1>1, <1>2, <2>2, <3>1, SayMoves DEF QuitLeave
    <3>2. CASE hand[h].pc # "leave"
      BY <1>1, <1>2, <2>2, <3>2, SayMoves DEF QuitLeave
    <3> QED BY <3>1, <3>2
  <2>4. Mild
    <3>1. rows' = [rows EXCEPT ![By(h)] = Absent] /\ conv' = conv
      BY <1>2 DEF QuitLeave
    <3> QED BY <1>1, <2>1, <3>1, AbsentRow, RowMild
  <2> QED BY <1>1, <2>3, <2>4, MovesKeep
<1>3. CASE DisbandClear(h)
  <2>1. Mild
    BY <1>1, <1>3, AbsentRow DEF DisbandClear, Mild, Inv, Safe, Types, Flow, Serving
  <2> QED BY <1>1, <1>3, <2>1, DoneMoves, MovesKeep DEF DisbandClear
<1>4. CASE FlagWrite(h)
  <2>1. By(h) \in Users /\ rows[By(h)] \in Row /\ hand[h].req.on \in BOOLEAN
    BY <1>1, <1>4, CallerFacts DEF FlagWrite, At, Inv, Safe, Types
  <2> DEFINE row == IF rows[By(h)].role = 0 THEN rows[By(h)]
                    ELSE IF hand[h].req.what = "pinned"
                         THEN [rows[By(h)] EXCEPT !.pinned = hand[h].req.on]
                    ELSE [rows[By(h)] EXCEPT !.dnd = hand[h].req.on]
  <2>2. row \in Row /\ row.role = rows[By(h)].role /\ row.until = rows[By(h)].until
    <3>1. CASE row = rows[By(h)]
      BY <2>1, <3>1
    <3>2. [rows[By(h)] EXCEPT !.pinned = hand[h].req.on] \in Row
      BY <2>1 DEF Row
    <3>3. [rows[By(h)] EXCEPT !.dnd = hand[h].req.on] \in Row
      BY <2>1 DEF Row
    <3> QED BY <2>1, <3>1, <3>2, <3>3 DEF Row
  <2>3. rows' = [rows EXCEPT ![By(h)] = row] /\ conv' = conv /\ Moves(h)
    BY <1>4, DoneMoves DEF FlagWrite
  <2> HIDE DEF row
  <2>4. Mild
    <3>1. row.role = Owner => rows[By(h)].role = Owner /\ row.until = 0
      BY <2>1, <2>2 DEF Inv, Safe, OwnerInv
    <3>2. (\E g \in Handlers : Founding(g)) => row.role \in {0, Normal} /\ row.until = 0
      BY <2>1, <2>2 DEF Inv, Safe, CreationInv, Founding
    <3> QED BY <1>1, <2>1, <2>2, <2>3, <3>1, <3>2, RowMild
  <2> QED BY <1>1, <2>3, <2>4, MovesKeep
<1> QED BY <1>2, <1>3, <1>4

LEMMA ConvKeeps ==
  ASSUME Inv, NEW h \in Handlers, UNCHANGED now,
         QuitClose(h) \/ DisbandClose(h) \/ NoticeWrite(h) \/ SettingsWrite(h) \/ PinWrite(h)
  PROVE  Inv'
<1>1. Serving(h) /\ hand[h].pc # "idle" /\ IsBusy(hand[h])
  BY ServingIsBusy DEF QuitClose, DisbandClose, NoticeWrite, SettingsWrite, PinWrite, At, Serving
<1>2. IsConv(conv) /\ conv.status # "none"
  BY <1>1 DEF Inv, Safe, Types, Flow, Serving
<1>3. CASE QuitClose(h) \/ DisbandClose(h)
  <2>1. MayGo(h, "leaveLast") \/ ~QuitClose(h)
    BY DEF MayGo, QuitClose, At, Pcs
  <2>2. MayGo(h, "clear")
    BY DEF MayGo, Pcs
  <2>3. Moves(h)
    BY <1>1, <1>3, <2>1, <2>2, GotoMoves DEF QuitClose, DisbandClose
  <2>4. conv' = [conv EXCEPT !.status = "disband"] /\ rows' = rows
    BY <1>3 DEF QuitClose, DisbandClose
  <2>5. IsConv(conv') /\ conv'.owner = conv.owner /\ conv'.status # "none"
    BY <1>2, <2>4 DEF IsConv
  <2> QED BY <1>1, <2>3, <2>4, <2>5, ConvMild, MovesKeep
<1>4. CASE NoticeWrite(h)
  <2>1. By(h) \in Users \cup {Nobody}
    BY <1>1, CallerFacts
  <2>2. IsConv(conv') /\ conv'.owner = conv.owner /\ conv'.status # "none"
    BY <1>2, <1>4, <2>1 DEF NoticeWrite, IsConv
  <2> QED BY <1>1, <1>4, <2>2, ConvMild, DoneMoves, MovesKeep DEF NoticeWrite
<1>5. CASE SettingsWrite(h)
  <2>1. hand[h].sw \in Switches /\ By(h) \in Users
    BY <1>1, <1>5, BusyFacts, CallerFacts DEF SettingsWrite, At
  <2>2. IsConv(conv') /\ conv'.owner = conv.owner /\ conv'.status # "none"
    BY <1>2, <1>5, <2>1 DEF SettingsWrite, IsConv
  <2> DEFINE notes == IF hand[h].todo = {} THEN {}
            ELSE Note(IF hand[h].sw["muteAll"] THEN "muteAllOn" ELSE "muteAllOff", By(h))
  <2>3. Note("muteAllOn", By(h)) \in SUBSET Notes /\ Note("muteAllOff", By(h)) \in SUBSET Notes
    BY <2>1 DEF Note, Notes
  <2>4. notes \in SUBSET Notes
    <3>1. CASE hand[h].todo = {}
      BY <3>1
    <3>2. CASE hand[h].todo # {} /\ hand[h].sw["muteAll"]
      BY <2>3, <3>2
    <3>3. CASE hand[h].todo # {} /\ ~hand[h].sw["muteAll"]
      BY <2>3, <3>3
    <3> QED BY <3>1, <3>2, <3>3
  <2>5. Say(h, notes)
    BY <1>5 DEF SettingsWrite
  <2> HIDE DEF notes
  <2>6. Moves(h)
    BY <1>1, <2>4, <2>5, SayMoves
  <2> QED BY <1>1, <1>5, <2>2, <2>6, ConvMild, MovesKeep DEF SettingsWrite
<1>6. CASE PinWrite(h)
  <2> DEFINE pinned == IF NewPins(h) = <<>> THEN "none" ELSE hand[h].req.what
  <2>1. conv' = [conv EXCEPT !.pins = NewPins(h), !.pinned = pinned]
    BY <1>6 DEF PinWrite
  <2> HIDE DEF pinned
  <2>2. \A pins : IsConv([conv EXCEPT !.pins = pins, !.pinned = pinned])
                /\ [conv EXCEPT !.pins = pins, !.pinned = pinned].owner = conv.owner
                /\ [conv EXCEPT !.pins = pins, !.pinned = pinned].status = conv.status
    BY <1>2 DEF IsConv
  <2>3. IsConv(conv') /\ conv'.owner = conv.owner /\ conv'.status # "none"
    BY <1>2, <2>1, <2>2
  <2> QED BY <1>1, <1>6, <2>3, ConvMild, DoneMoves, MovesKeep DEF PinWrite
<1> QED BY <1>3, <1>4, <1>5, <1>6

LEMMA PostsKeep ==
  ASSUME Inv, NEW h \in Handlers, TextStore(h) \/ Post(h), UNCHANGED now
  PROVE  Inv'
<1>1. Serving(h) /\ hand[h].pc # "idle" /\ IsBusy(hand[h])
  BY ServingIsBusy DEF TextStore, Post, At, Serving
<1>2. hand[h].notes \in SUBSET Notes
  BY <1>1, BusyFacts
<1>3. Moves(h)
  <2>1. CASE TextStore(h)
    BY <2>1, DoneMoves DEF TextStore
  <2>2. ASSUME NEW n \in hand[h].notes, Say(h, hand[h].notes \ {n}) PROVE Moves(h)
    BY <1>1, <1>2, <2>2, SayMoves
  <2> QED BY <2>1, <2>2 DEF Post
<1> QED BY <1>1, <1>3, StoresSame, MovesKeep DEF TextStore, Post

-----------------------------------------------------------------------------
(* Requests arrive, the group is founded, and the api process fails.       *)

LEMMA AskKeeps ==
  ASSUME Inv, NEW h \in Handlers, NEW r \in Requests, Ask(h, r)
  PROVE  Inv'
<1> USE DEF Inv, Safe
<1> DEFINE b == [pc |-> "start", req |-> r, role |-> 0, todo |-> r.to,
                 notes |-> {}, sw |-> DefaultSwitches, pins |-> <<>>]
<1>1. IsBusy(b) /\ b.pc = "start" /\ b.req = r
  <2>1. DefaultSwitches \in Switches
    BY DEF DefaultSwitches, Switches
  <2> QED BY <2>1, RequestFacts DEF IsBusy, Pcs
<1>2. hand' = [hand EXCEPT ![h] = b] /\ UNCHANGED <<conv, rows, now>>
  BY DEF Ask
<1> HIDE DEF b
<1>3. hand'[h] = b /\ \A g \in Handlers \ {h} : hand'[g] = hand[g]
  BY <1>2 DEF Types
<1>4. Types'
  BY <1>1, <1>2, <1>3 DEF Types
<1>5. \A g \in Handlers : Founding(g)' => g # h /\ Founding(g)
  BY <1>1, <1>3 DEF Founding, At
<1>6. Flow'
  <2>1. ASSUME NEW g \in Handlers, hand'[g].pc # "idle", ~At(g, "create", "start")'
        PROVE  conv'.status # "none"
    <3>1. CASE g = h
      BY <2>1, <3>1, <1>1, <1>2, <1>3 DEF Ask, At
    <3>2. CASE g # h
      BY <2>1, <3>2, <1>2, <1>3 DEF Flow, At
    <3> QED BY <3>1, <3>2
  <2> QED BY <1>1, <1>3, <1>5, <2>1 DEF Flow
<1>7. OwnerInv'
  BY <1>1, <1>2, <1>3 DEF OwnerInv, Role, Target
<1>8. CreationInv'
  <2>1. ASSUME NEW g \in Handlers, At(g, "create", "start")'
        PROVE  conv'.status = "none" /\ \A f \in Handlers \ {g} : hand'[f].pc = "idle"
    BY <2>1, <1>1, <1>2, <1>3 DEF CreationInv, At, Ask
  <2>2. ASSUME NEW g \in Handlers, At(g, "create", "owner")'
        PROVE  /\ conv'.owner = By(g)'
               /\ \A u \in Users : rows'[u].role \in {0, Normal} /\ rows'[u].until = 0
               /\ \A f \in Handlers : hand'[f].pc \in {"target", "act"}
                     => hand'[f].req.op \notin Decisions
    <3>1. g # h /\ At(g, "create", "owner") /\ hand'[g] = hand[g]
      BY <2>2, <1>3, <1>5 DEF Founding
    <3> QED BY <3>1, <1>1, <1>2, <1>3 DEF CreationInv, By, Decisions
  <2> QED BY <1>2, <2>1, <2>2 DEF CreationInv, Decisions
<1> QED BY <1>4, <1>6, <1>7, <1>8

LEMMA CreateConvKeeps ==
  ASSUME Inv, NEW h \in Handlers, CreateConv(h), UNCHANGED now
  PROVE  Inv'
<1> USE DEF Inv, Safe
<1>1. At(h, "create", "start") /\ IsBusy(hand[h]) /\ By(h) \in Users
  BY ServingIsBusy, CallerFacts DEF CreateConv, At
<1>2. conv.status = "none" /\ (\A g \in Handlers \ {h} : hand[g].pc = "idle")
      /\ \A u \in Users : rows[u] = Absent
  BY <1>1 DEF CreationInv
<1> DEFINE b == [hand[h] EXCEPT !.pc = "owner"]
<1>3. IsBusy(b) /\ b.pc = "owner" /\ b.req = hand[h].req
  <2>1. "owner" \in Pcs /\ IsBusy(hand[h])
    BY <1>1 DEF Pcs
  <2> QED BY <2>1, BusyPc
<1>4. hand' = [hand EXCEPT ![h] = b] /\ rows' = rows
      /\ conv' = [conv EXCEPT !.status = "normal", !.owner = By(h)]
  BY DEF CreateConv, Goto
<1> HIDE DEF b
<1>5. hand'[h] = b /\ \A g \in Handlers \ {h} : hand'[g] = hand[g] /\ hand'[g].pc = "idle"
  BY <1>2, <1>4 DEF Types
<1>6. IsConv(conv') /\ conv'.status = "normal" /\ conv'.owner = By(h)
  BY <1>4 DEF Types, IsConv
<1>7. Types'
  BY <1>3, <1>4, <1>5, <1>6 DEF Types
<1>8. Flow'
  BY <1>3, <1>5, <1>6 DEF Flow, Founding, At
<1>9. OwnerInv'
  BY <1>2, <1>3, <1>4, <1>5, AbsentRow DEF OwnerInv
<1>10. CreationInv'
  BY <1>1, <1>2, <1>3, <1>4, <1>5, <1>6, AbsentRow DEF CreationInv, At, By
<1> QED BY <1>7, <1>8, <1>9, <1>10

LEMMA CreateOwnerKeeps ==
  ASSUME Inv, NEW h \in Handlers, CreateOwner(h), UNCHANGED now
  PROVE  Inv'
<1> USE DEF Inv, Safe
<1>1. Founding(h) /\ IsBusy(hand[h]) /\ By(h) \in Users /\ conv.status # "none"
      /\ hand[h].req.op = "create"
  BY ServingIsBusy, CallerFacts DEF CreateOwner, At, Founding, Flow
<1>2. /\ conv.owner = By(h)
      /\ \A u \in Users : rows[u].role \in {0, Normal} /\ rows[u].until = 0
      /\ \A g \in Handlers : hand[g].pc \in {"target", "act"}
            => hand[g].req.op \notin Decisions
  BY <1>1 DEF CreationInv, Founding, Decisions
<1> DEFINE b == [hand[h] EXCEPT !.pc = "members"]
           row == [Joined EXCEPT !.role = Owner]
<1>3. IsBusy(b) /\ b.pc = "members" /\ b.req = hand[h].req
  <2>1. "members" \in Pcs /\ IsBusy(hand[h])
    BY <1>1 DEF Pcs
  <2> QED BY <2>1, BusyPc
<1>4. row \in Row /\ row.role = Owner /\ row.until = 0
  BY DEF Joined, Absent, Row, Staff
<1>5. hand' = [hand EXCEPT ![h] = b] /\ conv' = conv
      /\ rows' = [rows EXCEPT ![By(h)] = IF rows[By(h)].role = 0 THEN row ELSE rows[By(h)]]
  BY DEF CreateOwner, Goto, AddRow
<1> HIDE DEF b, row
<1>6. hand'[h] = b /\ \A g \in Handlers \ {h} : hand'[g] = hand[g]
  BY <1>5 DEF Types
<1>7. rows' \in [Users -> Row]
      /\ \A u \in Users : rows'[u] = rows[u] \/ (u = By(h) /\ rows'[u] = row)
  BY <1>1, <1>4, <1>5 DEF Types
<1>8. Types'
  BY <1>3, <1>5, <1>6, <1>7 DEF Types
<1>9. \A g \in Handlers : ~Founding(g)'
  BY <1>1, <1>3, <1>6 DEF Flow, Founding, At
<1>10. Flow'
  BY <1>1, <1>3, <1>5, <1>6, <1>9 DEF Flow, At
<1>11. OwnerInv'
  <2>1. \A u \in Users : rows'[u].role = Owner => u = conv'.owner /\ rows'[u].until = 0
    BY <1>2, <1>4, <1>5, <1>7 DEF Owner, Normal
  <2>2. \A g \in Handlers : hand'[g].pc = "act" => hand'[g].req.op \notin Decisions
    BY <1>2, <1>3, <1>6
  <2> QED BY <2>1, <2>2 DEF OwnerInv, Decisions
<1>12. CreationInv'
  <2>1. \A g \in Handlers : ~At(g, "create", "start")'
    BY <1>1, <1>3, <1>6 DEF CreationInv, At
  <2> QED BY <1>1, <1>5, <1>9, <2>1 DEF CreationInv, Founding
<1> QED BY <1>8, <1>10, <1>11, <1>12

LEMMA CrashKeeps ==
  ASSUME Inv, Crash \/ Tick
  PROVE  Inv'
<1> USE DEF Inv, Safe
<1>1. CASE Crash
  <2>1. \A h \in Handlers : hand'[h] = IdleHandler /\ hand'[h].pc = "idle"
    BY <1>1 DEF Crash, IdleHandler
  <2>2. hand' = [h \in Handlers |-> hand'[h]] /\ UNCHANGED <<conv, rows, now>>
    BY <1>1 DEF Crash
  <2>3. Types'
    BY <2>1, <2>2 DEF Types
  <2>4. Flow' /\ OwnerInv' /\ CreationInv'
    BY <2>1, <2>2 DEF Flow, OwnerInv, CreationInv, Founding, At
  <2> QED BY <2>3, <2>4
<1>2. CASE Tick
  BY <1>2 DEF Tick, Types, Flow, OwnerInv, CreationInv, Founding, At, By, Role, Target
<1> QED BY <1>1, <1>2

LEMMA InvInit == Init => Inv
<1> SUFFICES ASSUME Init PROVE Inv
  OBVIOUS
<1>1. Types
  <2>1. DefaultSwitches \in Switches
    BY DEF DefaultSwitches, Switches
  <2>2. IsConv(conv)
    BY <2>1 DEF Init, IsConv
  <2> QED BY <2>2, AbsentRow DEF Init, Types
<1>2. Flow /\ OwnerInv /\ CreationInv
  BY AbsentRow DEF Init, IdleHandler, Flow, OwnerInv, CreationInv, Founding, At
<1> QED BY <1>1, <1>2 DEF Inv, Safe

LEMMA InvStep == Inv /\ [Next]_vars => Inv'
<1> SUFFICES ASSUME Inv, [Next]_vars PROVE Inv'
  OBVIOUS
<1>1. ASSUME NEW h \in Handlers, Serve(h) PROVE Inv'
  BY <1>1, LooksKeep, CreateConvKeeps, CreateOwnerKeeps, AddsKeep, DecisionsKeep, OwnRowsKeep,
     ConvKeeps, PostsKeep
     DEF Serve, MemberSteps, StaffSteps, OwnSteps, Looks
<1>2. CASE UNCHANGED vars
  BY <1>2 DEF vars, Inv, Safe, Types, Flow, OwnerInv, CreationInv, Founding, At, By, Role, Target
<1> QED BY <1>1, <1>2, AskKeeps, CrashKeeps DEF Next

LEMMA InvAlways == Spec => []Inv
BY InvInit, InvStep, PTL DEF Spec

\* Whoever has the rank of owner created the group and is not muted, and no
\* request that passed its checks is about to remove, mute or degrade him.
THEOREM OwnerIsSafe == Spec => []OwnerInv
<1>1. Inv => OwnerInv
  BY DEF Inv, Safe
<1> QED BY <1>1, InvAlways, PTL

-----------------------------------------------------------------------------
(* The standing of a member.                                               *)

Kept(u) == rows'[u].role = rows[u].role /\ rows'[u].until = rows[u].until
Gone(u) == rows'[u].role = 0

\* What a step may do to the row of a member.
LEMMA RowsPass ==
  ASSUME Inv, [Next]_vars, NEW u \in Users, rows[u].role # 0
  PROVE  \/ Kept(u)
         \/ \E h \in Handlers : DisbandClear(h) /\ Gone(u)
         \/ \E h \in Handlers : QuitLeave(h) /\ By(h) = u /\ Gone(u)
         \/ \E h \in Handlers : RemoveRow(h) /\ Target(h) = u /\ Gone(u)
         \/ \E h \in Handlers : AdminRow(h) /\ Target(h) = u /\ rows'[u].until = rows[u].until
         \/ \E h \in Handlers : MuteRow(h) /\ Target(h) = u /\ rows'[u].role = rows[u].role
<1>0. rows \in [Users -> Row]
  BY DEF Inv, Safe, Types
<1>1. ASSUME NEW v, NEW row, AddRow(v, row) PROVE Kept(u)
  BY <1>0, <1>1 DEF AddRow, Kept
<1>2. ASSUME NEW h \in Handlers,
             CreateOwner(h) \/ CreateMember(h) \/ InviteInsert(h) \/ JoinAdd(h)
      PROVE  Kept(u)
  BY <1>1, <1>2 DEF CreateOwner, CreateMember, InviteInsert, JoinAdd, Kept
<1>3. ASSUME NEW h \in Handlers, RemoveRow(h) PROVE Kept(u) \/ (Target(h) = u /\ Gone(u))
  BY <1>0, <1>3, AbsentRow DEF RemoveRow, Kept, Gone
<1>4. ASSUME NEW h \in Handlers, QuitLeave(h) PROVE Kept(u) \/ (By(h) = u /\ Gone(u))
  BY <1>0, <1>4, AbsentRow DEF QuitLeave, Kept, Gone
<1>5. ASSUME NEW h \in Handlers, DisbandClear(h) PROVE Gone(u)
  BY <1>5, AbsentRow DEF DisbandClear, Gone
<1>6. ASSUME NEW h \in Handlers, AdminRow(h)
      PROVE  Kept(u) \/ (Target(h) = u /\ rows'[u].until = rows[u].until)
  <2>1. \A r : [rows[u] EXCEPT !.role = r].until = rows[u].until
    BY <1>0 DEF Row
  <2> QED BY <1>0, <1>6, <2>1 DEF AdminRow, Kept
<1>7. ASSUME NEW h \in Handlers, MuteRow(h)
      PROVE  Kept(u) \/ (Target(h) = u /\ rows'[u].role = rows[u].role)
  <2>1. PICK n : SetUntil(Target(h), n)
    BY <1>7 DEF MuteRow
  <2>2. \A t : [rows[u] EXCEPT !.until = t].role = rows[u].role
    BY <1>0 DEF Row
  <2> QED BY <1>0, <2>1, <2>2 DEF SetUntil, Kept
<1>8. ASSUME NEW h \in Handlers, FlagWrite(h) PROVE Kept(u)
  <2>1. \A t : /\ [rows[u] EXCEPT !.pinned = t].role = rows[u].role
               /\ [rows[u] EXCEPT !.pinned = t].until = rows[u].until
               /\ [rows[u] EXCEPT !.dnd = t].role = rows[u].role
               /\ [rows[u] EXCEPT !.dnd = t].until = rows[u].until
    BY <1>0 DEF Row
  <2> QED BY <1>0, <1>8, <2>1 DEF FlagWrite, Kept
<1>9. ASSUME NEW h \in Handlers, NEW r \in Requests, Ask(h, r) PROVE Kept(u)
  BY <1>9 DEF Ask, Kept
<1>10. CASE Crash \/ Tick \/ UNCHANGED vars
  BY <1>10 DEF Crash, Tick, vars, Kept
<1>11. ASSUME NEW h \in Handlers,
              \/ Looks(h) \/ CreateConv(h) \/ QuitClose(h) \/ DisbandClose(h) \/ NoticeWrite(h)
              \/ SettingsWrite(h) \/ PinWrite(h) \/ TextStore(h) \/ Post(h)
       PROVE  Kept(u)
  <2>1. rows' = rows
    BY <1>11, LooksMove DEF Stores, CreateConv, QuitClose, DisbandClose, NoticeWrite,
       SettingsWrite, PinWrite, TextStore, Post
  <2> QED BY <2>1 DEF Kept
<1> QED BY <1>2, <1>3, <1>4, <1>5, <1>6, <1>7, <1>8, <1>9, <1>10, <1>11
        DEF Next, Serve, MemberSteps, StaffSteps, OwnSteps, Looks

\* The owner loses his row by his own leaving or by the end of the group, and
\* his role not at all.
THEOREM OwnerRemains == Spec => OwnerStands
<1>1. ASSUME Inv, [Next]_vars, NEW u \in Users, rows[u].role = Owner, rows'[u].role # Owner
      PROVE  /\ rows'[u].role = 0
             /\ \E h \in Handlers : DisbandClear(h) \/ (QuitLeave(h) /\ By(h) = u)
  <2>1. ASSUME NEW h \in Handlers, RemoveRow(h) \/ AdminRow(h) PROVE Target(h) # u
    BY <1>1, <2>1, ActFacts DEF RemoveRow, AdminRow, At, Decisions
  <2> QED BY <1>1, <2>1, RowsPass DEF Kept, Gone, Owner
<1>2. Inv /\ [Next]_vars =>
        [\A u \in Users : rows[u].role = Owner /\ rows'[u].role # Owner =>
           /\ rows'[u].role = 0
           /\ \E h \in Handlers : DisbandClear(h) \/ (QuitLeave(h) /\ By(h) = u)]_vars
  BY <1>1
<1> QED BY <1>2, InvAlways, PTL DEF Spec, OwnerStands

\* Who comes in is a normal member and not muted, but for the founder.
LEMMA RowsCome ==
  ASSUME Inv, [Next]_vars, NEW u \in Users, rows[u].role = 0, rows'[u].role # 0
  PROVE  /\ rows'[u].until = 0
         /\ rows'[u].role = Normal \/ \E h \in Handlers : CreateOwner(h) /\ By(h) = u
<1>0. rows \in [Users -> Row]
  BY DEF Inv, Safe, Types
<1>1. rows' # rows
  OBVIOUS
<1>2. ASSUME NEW v, NEW row, AddRow(v, row) PROVE v = u /\ rows'[u] = row
  BY <1>0, <1>2 DEF AddRow
<1>3. Joined.role = Normal /\ Joined.until = 0
      /\ \A r : [Joined EXCEPT !.role = r].until = 0
  BY DEF Joined, Absent
<1>4. ASSUME NEW h \in Handlers, CreateOwner(h) PROVE By(h) = u /\ rows'[u].until = 0
  <2>1. PICK v, row : AddRow(v, row) /\ v = By(h) /\ row = [Joined EXCEPT !.role = Owner]
    BY <1>4 DEF CreateOwner
  <2>2. row.until = 0
    BY <1>3, <2>1
  <2>3. v = u /\ rows'[u] = row
    BY <1>2, <2>1
  <2> QED BY <2>1, <2>2, <2>3
<1>5. ASSUME NEW h \in Handlers, CreateMember(h) \/ InviteInsert(h) \/ JoinAdd(h)
      PROVE  rows'[u].role = Normal /\ rows'[u].until = 0
  <2>1. PICK v : AddRow(v, Joined)
    BY <1>1, <1>5 DEF CreateMember, InviteInsert, JoinAdd
  <2> QED BY <1>2, <1>3, <2>1
<1>6. ASSUME NEW h \in Handlers, RemoveRow(h) \/ QuitLeave(h) \/ DisbandClear(h) PROVE FALSE
  BY <1>0, <1>6, AbsentRow DEF RemoveRow, QuitLeave, DisbandClear
<1>7. ASSUME NEW h \in Handlers, AdminRow(h) PROVE FALSE
  <2>1. [rows[u] EXCEPT !.role = 0].role = 0
    BY <1>0 DEF Row
  <2> QED BY <1>0, <1>7, <2>1 DEF AdminRow
<1>8. ASSUME NEW h \in Handlers, MuteRow(h) PROVE FALSE
  <2>1. PICK n : SetUntil(Target(h), n)
    BY <1>8 DEF MuteRow
  <2>2. \A t : [rows[u] EXCEPT !.until = t].role = rows[u].role
    BY <1>0 DEF Row
  <2> QED BY <1>0, <2>1, <2>2 DEF SetUntil
<1>9. ASSUME NEW h \in Handlers, FlagWrite(h) PROVE FALSE
  BY <1>0, <1>9 DEF FlagWrite
<1>10. ASSUME NEW h \in Handlers,
              \/ Looks(h) \/ CreateConv(h) \/ QuitClose(h) \/ DisbandClose(h) \/ NoticeWrite(h)
              \/ SettingsWrite(h) \/ PinWrite(h) \/ TextStore(h) \/ Post(h)
       PROVE  FALSE
  BY <1>1, <1>10, LooksMove DEF Stores, CreateConv, QuitClose, DisbandClose, NoticeWrite,
     SettingsWrite, PinWrite, TextStore, Post
<1>11. ~ \E h \in Handlers, r \in Requests : Ask(h, r)
  BY <1>1 DEF Ask
<1>12. ~Crash /\ ~Tick /\ ~UNCHANGED vars
  BY <1>1 DEF Crash, Tick, vars
<1> QED BY <1>4, <1>5, <1>6, <1>7, <1>8, <1>9, <1>10, <1>11, <1>12
        DEF Next, Serve, MemberSteps, StaffSteps, OwnSteps, Looks

\* Rank and mute of a member who stays change by a decision about him only,
\* and who comes in, or comes back, has neither rank nor mute.
THEOREM StandingRemains == Spec => StandingHeld
<1>1. ASSUME Inv, [Next]_vars, NEW u \in Users, rows[u].role # 0, rows'[u].role # 0
      PROVE  /\ rows'[u].role # rows[u].role =>
                  \E h \in Handlers : AdminRow(h) /\ Target(h) = u
             /\ rows'[u].until # rows[u].until =>
                  \E h \in Handlers : MuteRow(h) /\ Target(h) = u
  BY <1>1, RowsPass DEF Kept, Gone
<1>2. Inv /\ [Next]_vars =>
        [\A u \in Users :
           /\ rows[u].role # 0 /\ rows'[u].role # 0 =>
                /\ rows'[u].role # rows[u].role =>
                     \E h \in Handlers : AdminRow(h) /\ Target(h) = u
                /\ rows'[u].until # rows[u].until =>
                     \E h \in Handlers : MuteRow(h) /\ Target(h) = u
           /\ rows[u].role = 0 /\ rows'[u].role # 0 =>
                /\ rows'[u].until = 0
                /\ rows'[u].role = Normal
                   \/ \E h \in Handlers : CreateOwner(h) /\ By(h) = u]_vars
  BY <1>1, RowsCome
<1> QED BY <1>2, InvAlways, PTL DEF Spec, StandingHeld

-----------------------------------------------------------------------------
(* The rules that a request has still to be checked for.                   *)

StillOpen(x, b) ==
  LET op == b.req.op  pc == b.pc
  IN  \/ x = "member" /\ pc = "start" /\ op \in {"pin", "text", "settings"}
      \/ x = "staff" /\ pc = "start" /\ op \in {"remove", "mute", "notice"}
      \/ x = "owner" /\ pc = "start" /\ op \in {"settings", "setAdmin", "disband"}
      \/ x = "owner" /\ pc \in {"switches", "owner"} /\ op = "settings"
      \/ x = "rank" /\ pc = "start" /\ op \in {"remove", "mute"}
      \/ x = "rank" /\ pc = "target" /\ op \in {"remove", "mute"} /\ b.role # Owner
      \/ x = "target" /\ pc \in {"start", "target"} /\ op = "setAdmin"
      \/ x = "guest" /\ pc \in {"start", "allowed"} /\ op = "invite"
      \/ x = "open" /\ pc = "start" /\ op = "join"
      \/ x = "full" /\ pc \in {"start", "count"} /\ op = "join"
      \/ x = "muteAll" /\ pc \in {"start", "conv", "role"} /\ op = "text"
      \/ x = "muted" /\ pc \in {"start", "conv", "role", "until"} /\ op = "text"

\* A rule that has been checked has not forbidden the request all the time.
BarredInv ==
  \A h \in Handlers : hand[h].pc # "idle" =>
     \A x \in barred[h] : StillOpen(x, hand[h])

\* Whoever is about to look at a member below him was of the staff.
RankInv ==
  \A h \in Handlers : hand[h].pc = "target" /\ hand[h].req.op \in StaffOps
                        => hand[h].role \in Staff

Unique(list) == \A i, j \in 1..Len(list) : list[i] = list[j] => i = j

\* The lists of pins and the names that the conversation holds.
PinsInv ==
  /\ conv.pins \in Seq(Msgs) /\ Unique(conv.pins) /\ conv.pinned \in Msgs \cup {"none"}
  /\ conv.owner \in Users \cup {Nobody} /\ conv.notice \in Users \cup {Nobody}
  /\ \A h \in Handlers : hand[h].pc # "idle" =>
        hand[h].pins \in Seq(Msgs) /\ Unique(hand[h].pins)

RoleIn(m, u) == IF u = Nobody THEN 0 ELSE m[u].role

\* What each rule forbids, and whom.
Breaks(x, r, c, m, t) ==
  \/ x = "member" /\ r.op \in {"pin", "text", "settings"} /\ RoleIn(m, r.by) = 0
  \/ x = "staff" /\ r.op \in {"remove", "mute", "notice"} /\ RoleIn(m, r.by) \notin Staff
  \/ x = "owner" /\ r.op \in {"settings", "setAdmin", "disband"} /\ RoleIn(m, r.by) # Owner
  \/ x = "rank" /\ r.op \in {"remove", "mute"}
     /\ \E v \in r.to : RoleIn(m, v) = Owner \/ (RoleIn(m, r.by) # Owner /\ RoleIn(m, v) = Admin)
  \/ x = "target" /\ r.op = "setAdmin" /\ \E v \in r.to : RoleIn(m, v) \in {0, Owner}
  \/ x = "guest" /\ r.op = "invite" /\ RoleIn(m, r.by) \notin Staff
     /\ ~(c.status = "normal" /\ c.sw["allowInvite"])
  \/ x = "open" /\ r.op = "join" /\ ~(c.status = "normal" /\ c.sw["qrJoin"])
  \/ x = "full" /\ r.op = "join" /\ Cardinality({u \in Users : RoleIn(m, u) # 0}) >= MaxMembers
  \/ x = "muteAll" /\ r.op = "text" /\ c.sw["muteAll"] /\ RoleIn(m, r.by) = Normal
  \/ x = "muted" /\ r.op = "text" /\ RoleIn(m, r.by) # 0 /\ SilencedAt(m[r.by], t)

LEMMA BrokenRules ==
  ASSUME NEW r, NEW c, NEW m, NEW t, NEW x \in Broken(r, c, m, t)
  PROVE  Breaks(x, r, c, m, t)
BY DEF Broken, RoleIn, Breaks

LEMMA OpenFirst ==
  ASSUME NEW b, b.pc = "start", NEW c, NEW m, NEW t, NEW x \in Broken(b.req, c, m, t)
  PROVE  StillOpen(x, b)
<1>1. \/ x = "member" /\ b.req.op \in {"pin", "text", "settings"}
      \/ x = "staff" /\ b.req.op \in {"remove", "mute", "notice"}
      \/ x = "owner" /\ b.req.op \in {"settings", "setAdmin", "disband"}
      \/ x = "rank" /\ b.req.op \in {"remove", "mute"}
      \/ x = "target" /\ b.req.op = "setAdmin"
      \/ x = "guest" /\ b.req.op = "invite"
      \/ x \in {"open", "full"} /\ b.req.op = "join"
      \/ x \in {"muteAll", "muted"} /\ b.req.op = "text"
  <2>1. Breaks(x, b.req, c, m, t)
    BY BrokenRules
  <2> QED BY <2>1 DEF Breaks
<1> QED BY <1>1 DEF StillOpen

\* A request that goes on has passed its check.
LEMMA OnlyGoes ==
  ASSUME Inv, NEW h \in Handlers, hand[h].pc # "idle", NEW may, NEW pc \in Pcs,
         Only(h, may, pc), hand'[h].pc # "idle"
  PROVE  may /\ hand'[h].pc = pc /\ hand'[h].req = hand[h].req /\ hand'[h].role = hand[h].role
<1>1. IsBusy(hand[h])
  BY ServingIsBusy
<1>2. hand = [g \in Handlers |-> hand[g]]
  BY DEF Inv, Safe, Types
<1>3. CASE Done(h)
  <2>1. hand'[h] = IdleHandler
    BY <1>2, <1>3 DEF Done
  <2> QED BY <2>1 DEF IdleHandler
<1>4. CASE may /\ Goto(h, pc)
  <2>1. hand'[h] = [hand[h] EXCEPT !.pc = pc]
    BY <1>2, <1>4 DEF Goto
  <2> QED BY <1>1, <1>4, <2>1 DEF IsBusy
<1> QED BY <1>3, <1>4 DEF Only

\* The statement that a request executes at its place.
LEMMA StepsAt ==
  ASSUME NEW h, Serve(h)
  PROVE  /\ At(h, "pin", "start") => PinMember(h)
         /\ At(h, "text", "start") => TextMember(h)
         /\ At(h, "text", "conv") => TextConv(h)
         /\ At(h, "text", "role") => TextRole(h)
         /\ At(h, "text", "until") => TextUntil(h)
         /\ At(h, "settings", "start") => SettingsMember(h)
         /\ At(h, "settings", "switches") => SettingsRead(h)
         /\ At(h, "settings", "owner") => SettingsOwner(h)
         /\ At(h, "notice", "start") => NoticeRole(h)
         /\ At(h, "setAdmin", "start") => AdminOwner(h)
         /\ At(h, "setAdmin", "target") => AdminTarget(h)
         /\ At(h, "disband", "start") => DisbandOwner(h)
         /\ At(h, "invite", "start") => InviteRole(h)
         /\ At(h, "invite", "allowed") => InviteAllowed(h)
         /\ At(h, "join", "start") => JoinOpen(h)
         /\ At(h, "join", "count") => JoinCount(h)
         /\ hand[h].req.op \in StaffOps /\ hand[h].pc = "start" => ReadRole(h)
         /\ hand[h].req.op \in StaffOps /\ hand[h].pc = "target" => ReadTarget(h)
<1>1. CASE MemberSteps(h)
  BY <1>1 DEF MemberSteps, At, StaffOps, CreateConv, CreateOwner, CreateMember, InviteRole,
     InviteAllowed, InviteCount, InviteInsert, JoinOpen, JoinCount, JoinExist, JoinAdd,
     QuitCount, QuitClose, QuitLeave, DisbandOwner, DisbandClose, DisbandClear
<1>2. CASE StaffSteps(h)
  BY <1>2 DEF StaffSteps, At, StaffOps, ReadRole, ReadTarget, RemoveRow, MuteRow, AdminOwner,
     AdminTarget, AdminRow, NoticeRole, NoticeWrite, SettingsMember, SettingsRead, SettingsOwner,
     SettingsOld, SettingsWrite
<1>3. CASE OwnSteps(h)
  BY <1>3 DEF OwnSteps, At, StaffOps, FlagWrite, PinMember, PinRead, PinWrite, TextMember, TextConv,
     TextRole, TextUntil, TextStore, Post
<1> QED BY <1>1, <1>2, <1>3 DEF Serve

\* A check that leaves the stores alone judges by what they are.
Broke(h) == Broken(hand[h].req, conv, rows, now)

LEMMA BrokeRules ==
  ASSUME NEW h, NEW x \in Broke(h)
  PROVE  \/ x = "member" /\ Role(By(h)) = 0
         \/ x = "staff" /\ Role(By(h)) \notin Staff
         \/ x = "owner" /\ Role(By(h)) # Owner
         \/ x = "rank" /\ \E v \in hand[h].req.to :
                            Role(v) = Owner \/ (Role(By(h)) # Owner /\ Role(v) = Admin)
         \/ x = "target" /\ \E v \in hand[h].req.to : Role(v) \in {0, Owner}
         \/ x = "guest" /\ Role(By(h)) \notin Staff /\ ~(Live /\ conv.sw["allowInvite"])
         \/ x = "open" /\ ~(Live /\ conv.sw["qrJoin"])
         \/ x = "full" /\ Cardinality({u \in Users : Role(u) # 0}) >= MaxMembers
         \/ x = "muteAll" /\ conv.sw["muteAll"] /\ Role(By(h)) = Normal
         \/ x = "muted" /\ SilencedAt(rows[By(h)], now)
<1>1. \A u : Role(u) = RoleIn(rows, u)
  BY DEF Role, RoleIn
<1>2. {u \in Users : Role(u) # 0} = {u \in Users : RoleIn(rows, u) # 0}
  BY <1>1
<1>3. Breaks(x, hand[h].req, conv, rows, now)
  BY BrokenRules DEF Broke
<1> QED BY <1>1, <1>2, <1>3 DEF Breaks, By, Live

\* The checks of membership and of the right to lead.
LEMMA PassesAsMember ==
  ASSUME Inv, NEW h \in Handlers, Serve(h), hand'[h].pc # "idle",
         NEW x \in {"member", "staff", "owner"}, StillOpen(x, hand[h]), x \in Broke(h)
  PROVE  StillOpen(x, hand'[h])
<1> USE DEF At
<1>1. hand[h].pc # "idle" /\ IsBusy(hand[h]) /\ hand = [g \in Handlers |-> hand[g]]
  BY ServingIsBusy DEF StillOpen, Inv, Safe, Types
<1>2. ~Done(h)
  BY <1>1 DEF Done, IdleHandler
<1>3. CASE x = "member"
  <2>1. Role(By(h)) = 0
    BY <1>3, BrokeRules
  <2>2. PinMember(h) \/ TextMember(h) \/ SettingsMember(h)
    BY <1>3, StepsAt DEF StillOpen
  <2> QED BY <1>2, <2>1, <2>2 DEF PinMember, TextMember, SettingsMember, Only
<1>4. CASE x = "staff"
  <2>1. Role(By(h)) \notin Staff
    BY <1>4, BrokeRules
  <2>2. ReadRole(h) \/ NoticeRole(h)
    BY <1>4, StepsAt DEF StillOpen, StaffOps
  <2> QED BY <1>2, <2>1, <2>2 DEF ReadRole, NoticeRole, Only
<1>7. CASE x = "owner" /\ hand[h].pc = "start" /\ hand[h].req.op = "settings"
  <2>1. SettingsMember(h) /\ "switches" \in Pcs
    BY <1>7, StepsAt DEF Pcs
  <2>2. hand'[h].pc = "switches" /\ hand'[h].req = hand[h].req
    BY <1>1, <2>1, OnlyGoes DEF SettingsMember
  <2> QED BY <1>7, <2>2 DEF StillOpen
<1>5. CASE x = "owner" /\ hand[h].pc = "switches" /\ hand[h].req.op = "settings"
  <2>1. SettingsRead(h)
    BY <1>5, StepsAt
  <2>2. hand' = [hand EXCEPT ![h].pc = "owner",
                     ![h].sw = [conv.sw EXCEPT ![hand[h].req.what] = hand[h].req.on]]
    BY <1>2, <2>1 DEF SettingsRead
  <2>3. hand'[h].pc = "owner" /\ hand'[h].req = hand[h].req
    BY <1>1, <2>2 DEF IsBusy
  <2> QED BY <1>5, <2>3 DEF StillOpen
<1>6. CASE x = "owner" /\ ~(hand[h].pc \in {"start", "switches"} /\ hand[h].req.op = "settings")
  <2>1. Role(By(h)) # Owner
    BY <1>6, BrokeRules
  <2>2. AdminOwner(h) \/ DisbandOwner(h) \/ SettingsOwner(h)
    BY <1>6, StepsAt DEF StillOpen
  <2> QED BY <1>2, <2>1, <2>2 DEF AdminOwner, DisbandOwner, SettingsOwner, Only
<1> QED BY <1>3, <1>4, <1>5, <1>6, <1>7

\* Rank: who acts on a member below him has once outranked him, whatever
\* became of either since.
LEMMA PassesByRank ==
  ASSUME Inv, RankInv, NEW h \in Handlers, Serve(h), hand'[h].pc # "idle",
         StillOpen("rank", hand[h]), "rank" \in Broke(h)
  PROVE  StillOpen("rank", hand'[h])
<1>1. hand[h].pc # "idle" /\ IsBusy(hand[h]) /\ hand = [g \in Handlers |-> hand[g]]
  BY ServingIsBusy DEF StillOpen, Inv, Safe, Types
<1>2. ~Done(h)
  BY <1>1 DEF Done, IdleHandler
<1>3. hand[h].req.op \in StaffOps /\ hand[h].pc \in {"start", "target"}
  BY DEF StillOpen, StaffOps
<1>4. Target(h) \in Users /\ hand[h].req.to = {Target(h)} /\ By(h) \in Users
  <2>1. hand[h].req \in Requests
    BY <1>1, BusyFacts
  <2>2. \E u \in Users : hand[h].req.to = {u}
    BY <1>3, <2>1, RequestFacts DEF StaffOps, Decisions
  <2>3. By(h) \in Users
    BY <1>1, <1>3, CallerFacts DEF StaffOps
  <2> QED BY <2>2, <2>3 DEF Target
<1>5. Role(Target(h)) = Owner \/ (Role(By(h)) # Owner /\ Role(Target(h)) = Admin)
  BY <1>4, BrokeRules
<1>6. CASE hand[h].pc = "start"
  <2>1. ReadRole(h)
    BY <1>3, <1>6, StepsAt
  <2>2. /\ By(h) # Target(h) /\ Role(By(h)) \in Staff
        /\ hand' = [hand EXCEPT ![h].pc = "target", ![h].role = Role(By(h))]
    BY <1>2, <2>1 DEF ReadRole
  <2>3. hand'[h].pc = "target" /\ hand'[h].req = hand[h].req /\ hand'[h].role = Role(By(h))
    BY <1>1, <2>2 DEF IsBusy
  <2>4. Role(By(h)) = Owner => Role(Target(h)) # Owner
    BY <1>4, <2>2, GroupsAssumption DEF Inv, Safe, OwnerInv, Role
  <2> QED BY <1>3, <1>5, <2>3, <2>4 DEF StillOpen, StaffOps
<1>7. CASE hand[h].pc = "target"
  <2>1. ReadTarget(h) /\ hand[h].role # Owner
    BY <1>3, <1>7, StepsAt DEF StillOpen
  <2>2. Outranks(hand[h].role, Role(Target(h)))
    BY <1>2, <2>1 DEF ReadTarget, Only
  <2>3. Role(Target(h)) = Admin
    BY <1>5, <2>2 DEF Outranks
  <2>4. hand[h].role # Admin
    BY <2>2, <2>3 DEF Outranks
  <2> QED BY <1>3, <1>7, <2>1, <2>4 DEF RankInv, Staff
<1> QED BY <1>3, <1>6, <1>7

\* Appointing, inviting and joining.
LEMMA PassesAsGuest ==
  ASSUME Inv, NEW h \in Handlers, Serve(h), hand'[h].pc # "idle",
         NEW x \in {"target", "guest", "open", "full"}, StillOpen(x, hand[h]), x \in Broke(h)
  PROVE  StillOpen(x, hand'[h])
<1> USE DEF At
<1>1. hand[h].pc # "idle" /\ IsBusy(hand[h]) /\ hand = [g \in Handlers |-> hand[g]]
  BY ServingIsBusy DEF StillOpen, Inv, Safe, Types
<1>2. ~Done(h)
  BY <1>1 DEF Done, IdleHandler
<1>3. CASE x = "target"
  <2>1. hand[h].req.to = {Target(h)}
    <3>1. hand[h].req \in Requests
      BY <1>1, BusyFacts
    <3>2. \E u \in Users : hand[h].req.to = {u}
      BY <1>3, <3>1, RequestFacts DEF StillOpen, Decisions
    <3> QED BY <3>2 DEF Target
  <2>2. Role(Target(h)) \in {0, Owner}
    BY <1>3, <2>1, BrokeRules
  <2>3. CASE hand[h].pc = "start"
    <3>1. AdminOwner(h) /\ "target" \in Pcs
      BY <1>3, <2>3, StepsAt DEF StillOpen, Pcs
    <3>2. hand'[h].pc = "target" /\ hand'[h].req = hand[h].req
      BY <1>1, <3>1, OnlyGoes DEF AdminOwner
    <3> QED BY <1>3, <2>3, <3>2 DEF StillOpen
  <2>4. CASE hand[h].pc = "target"
    <3>1. AdminTarget(h)
      BY <1>3, <2>4, StepsAt DEF StillOpen
    <3> QED BY <1>2, <2>2, <3>1 DEF AdminTarget, Only, Owner, Admin, Normal
  <2> QED BY <1>3, <2>3, <2>4 DEF StillOpen
<1>4. CASE x = "guest"
  <2>1. Role(By(h)) \notin Staff /\ ~(Live /\ conv.sw["allowInvite"])
    BY <1>4, BrokeRules
  <2>2. CASE hand[h].pc = "start"
    <3>1. InviteRole(h)
      BY <1>4, <2>2, StepsAt DEF StillOpen
    <3>2. hand' = [hand EXCEPT ![h].pc = "allowed"]
      BY <2>1, <3>1 DEF InviteRole, Goto
    <3>3. hand'[h].pc = "allowed" /\ hand'[h].req = hand[h].req
      BY <1>1, <3>2 DEF IsBusy
    <3> QED BY <1>4, <2>2, <3>3 DEF StillOpen
  <2>3. CASE hand[h].pc = "allowed"
    <3>1. InviteAllowed(h)
      BY <1>4, <2>3, StepsAt DEF StillOpen
    <3> QED BY <1>2, <2>1, <3>1 DEF InviteAllowed, Only
  <2> QED BY <1>4, <2>2, <2>3 DEF StillOpen
<1>5. CASE x = "open"
  <2>1. ~(Live /\ conv.sw["qrJoin"])
    BY <1>5, BrokeRules
  <2>2. JoinOpen(h)
    BY <1>5, StepsAt DEF StillOpen
  <2> QED BY <1>2, <2>1, <2>2 DEF JoinOpen, Only
<1>6. CASE x = "full"
  <2>1. CASE hand[h].pc = "start"
    <3>1. JoinOpen(h) /\ "count" \in Pcs
      BY <1>6, <2>1, StepsAt DEF StillOpen, Pcs
    <3>2. hand'[h].pc = "count" /\ hand'[h].req = hand[h].req
      BY <1>1, <3>1, OnlyGoes DEF JoinOpen
    <3> QED BY <1>6, <2>1, <3>2 DEF StillOpen
  <2>2. CASE hand[h].pc = "count"
    <3>1. JoinCount(h)
      BY <1>6, <2>2, StepsAt DEF StillOpen
    <3>2. Cardinality({u \in Users : Role(u) # 0}) >= MaxMembers
      BY <1>6, BrokeRules
    <3>3. {u \in Users : Role(u) # 0} = Members
      BY GroupsAssumption DEF Role, Members
    <3>4. IsFiniteSet(Members)
      BY GroupsAssumption, FS_Subset DEF Members
    <3>5. Cardinality(Members) \in Nat /\ MaxMembers \in Nat
      BY <3>4, FS_CardinalityType, GroupsAssumption
    <3>6. ~HasRoom
      BY <3>2, <3>3, <3>5 DEF HasRoom
    <3> QED BY <1>2, <3>1, <3>6 DEF JoinCount, Only
  <2> QED BY <1>6, <2>1, <2>2 DEF StillOpen
<1> QED BY <1>3, <1>4, <1>5, <1>6

\* Texts: the two kinds of mute.
LEMMA PassesAsSpeaker ==
  ASSUME Inv, NEW h \in Handlers, Serve(h), hand'[h].pc # "idle",
         NEW x \in {"muteAll", "muted"}, StillOpen(x, hand[h]), x \in Broke(h)
  PROVE  StillOpen(x, hand'[h])
<1> USE DEF At
<1>1. hand[h].pc # "idle" /\ IsBusy(hand[h]) /\ hand = [g \in Handlers |-> hand[g]]
  BY ServingIsBusy DEF StillOpen, Inv, Safe, Types
<1>2. ~Done(h) /\ hand[h].req.op = "text"
  BY <1>1 DEF Done, IdleHandler, StillOpen
<1>3. /\ x = "muteAll" => conv.sw["muteAll"] /\ Role(By(h)) = Normal
      /\ x = "muted" => SilencedAt(rows[By(h)], now)
  BY BrokeRules
<1>4. CASE hand[h].pc = "start"
  <2>1. TextMember(h) /\ "conv" \in Pcs
    BY <1>2, <1>4, StepsAt DEF Pcs
  <2>2. hand'[h].pc = "conv" /\ hand'[h].req = hand[h].req
    BY <1>1, <2>1, OnlyGoes DEF TextMember
  <2> QED BY <1>2, <2>2 DEF StillOpen
<1>5. CASE hand[h].pc = "conv"
  <2>1. TextConv(h)
    BY <1>2, <1>5, StepsAt
  <2>2. \E pc \in {"role", "until"} :
          hand' = [hand EXCEPT ![h].pc = pc] /\ (x = "muteAll" => pc = "role")
    BY <1>3, <2>1 DEF TextConv, Goto
  <2>3. hand'[h].pc \in {"role", "until"} /\ hand'[h].req = hand[h].req
        /\ (x = "muteAll" => hand'[h].pc = "role")
    BY <1>1, <2>2 DEF IsBusy
  <2> QED BY <1>2, <2>3 DEF StillOpen
<1>6. CASE hand[h].pc = "role"
  <2>1. TextRole(h) /\ "until" \in Pcs
    BY <1>2, <1>6, StepsAt DEF Pcs
  <2>2. x = "muted"
    BY <1>2, <1>3, <2>1 DEF TextRole, Only
  <2>3. hand'[h].pc = "until" /\ hand'[h].req = hand[h].req
    BY <1>1, <2>1, OnlyGoes DEF TextRole
  <2> QED BY <1>2, <2>2, <2>3 DEF StillOpen
<1>7. CASE hand[h].pc = "until"
  <2>1. TextUntil(h)
    BY <1>2, <1>7, StepsAt
  <2> QED BY <1>2, <1>3, <1>7, <2>1 DEF TextUntil, Only, StillOpen
<1> QED BY <1>4, <1>5, <1>6, <1>7 DEF StillOpen

\* Requests under way do not disturb each other's place.
LEMMA OthersStay ==
  ASSUME Inv, NEW h \in Handlers, NEW g \in Handlers \ {h}, Serve(h) \/ (\E r : Ask(h, r))
  PROVE  hand'[g] = hand[g]
<1>1. hand = [f \in Handlers |-> hand[f]]
  BY DEF Inv, Safe, Types
<1>2. \A pc, notes, may : Goto(h, pc) \/ Done(h) \/ Say(h, notes) \/ Only(h, may, pc)
                            => hand'[g] = hand[g]
  BY <1>1 DEF Goto, Done, Say, Only
<1>3. CASE \E r : Ask(h, r)
  BY <1>1, <1>3 DEF Ask
<1>4. CASE MemberSteps(h)
  BY <1>1, <1>2, <1>4 DEF MemberSteps, CreateConv, CreateOwner, CreateMember, InviteRole,
     InviteAllowed, InviteCount, InviteInsert, JoinOpen, JoinCount, JoinExist, JoinAdd,
     QuitCount, QuitClose, QuitLeave, DisbandOwner, DisbandClose, DisbandClear
<1>5. CASE StaffSteps(h)
  BY <1>1, <1>2, <1>5 DEF StaffSteps, ReadRole, ReadTarget, RemoveRow, MuteRow, AdminOwner,
     AdminTarget, AdminRow, NoticeRole, NoticeWrite, SettingsMember, SettingsRead, SettingsOwner,
     SettingsOld, SettingsWrite
<1>6. CASE OwnSteps(h)
  BY <1>1, <1>2, <1>6 DEF OwnSteps, FlagWrite, PinMember, PinRead, PinWrite, TextMember, TextConv,
     TextRole, TextUntil, TextStore, Post
<1> QED BY <1>3, <1>4, <1>5, <1>6 DEF Serve

LEMMA ServesBusy ==
  ASSUME NEW h, Serve(h)
  PROVE  hand[h].pc # "idle"
<1> USE DEF At
<1>1. CASE MemberSteps(h)
  BY <1>1 DEF MemberSteps, CreateConv, CreateOwner, CreateMember, InviteRole, InviteAllowed,
     InviteCount, InviteInsert, JoinOpen, JoinCount, JoinExist, JoinAdd, QuitCount, QuitClose,
     QuitLeave, DisbandOwner, DisbandClose, DisbandClear
<1>2. CASE StaffSteps(h)
  BY <1>2 DEF StaffSteps, ReadRole, ReadTarget, RemoveRow, MuteRow, AdminOwner, AdminTarget,
     AdminRow, NoticeRole, NoticeWrite, SettingsMember, SettingsRead, SettingsOwner, SettingsOld,
     SettingsWrite
<1>3. CASE OwnSteps(h)
  BY <1>3 DEF OwnSteps, FlagWrite, PinMember, PinRead, PinWrite, TextMember, TextConv,
     TextRole, TextUntil, TextStore, Post
<1> QED BY <1>1, <1>2, <1>3 DEF Serve

\* Who is about to look at a member below him has just shown his rank.
LEMMA TargetByRole ==
  ASSUME Inv, NEW h \in Handlers, Serve(h), hand'[h].pc = "target",
         hand'[h].req.op \in StaffOps
  PROVE  hand'[h].role \in Staff
<1> USE DEF At
<1>1. hand = [f \in Handlers |-> hand[f]]
  BY DEF Inv, Safe, Types
<1>2. hand'[h] # IdleHandler
  BY DEF IdleHandler
<1>3. hand[h].pc # "idle"
  BY ServesBusy
<1>4. IsBusy(hand[h])
  BY <1>3, ServingIsBusy
<1>5. ASSUME NEW pc, pc # "target" PROVE ~Goto(h, pc) /\ \A may : ~Only(h, may, pc)
  <2>1. ~Done(h)
    BY <1>1, <1>2 DEF Done
  <2>2. ~Goto(h, pc)
    <3>1. SUFFICES ASSUME Goto(h, pc) PROVE FALSE
      OBVIOUS
    <3>2. hand'[h] = [hand[h] EXCEPT !.pc = pc]
      BY <1>1, <3>1 DEF Goto
    <3> QED BY <1>4, <1>5, <3>2 DEF IsBusy
  <2> QED BY <2>1, <2>2 DEF Only
<1>6. ~Done(h) /\ \A notes : ~Say(h, notes)
  <2>1. ~Done(h)
    BY <1>1, <1>2 DEF Done
  <2>2. ASSUME NEW notes, Say(h, notes) PROVE FALSE
    <3>1. hand'[h] = [hand[h] EXCEPT !.pc = "post", !.notes = notes]
      BY <1>1, <1>2, <2>2 DEF Say
    <3> QED BY <1>4, <3>1 DEF IsBusy
  <2> QED BY <2>1, <2>2
<1>7. CASE MemberSteps(h)
  <2>1. CreateMember(h) \/ InviteCount(h) \/ InviteInsert(h)
    BY <1>5, <1>6, <1>7 DEF MemberSteps, CreateConv, CreateOwner, InviteRole, InviteAllowed,
       JoinOpen, JoinCount, JoinExist, JoinAdd, QuitCount, QuitClose, QuitLeave,
       DisbandOwner, DisbandClose, DisbandClear
  <2>2. CreateMember(h)
    BY <2>1, InviteMoves
  <2>3. PICK u \in hand[h].todo : hand' = [hand EXCEPT ![h].todo = @ \ {u}]
    BY <1>6, <2>2 DEF CreateMember
  <2>4. hand' = [hand EXCEPT ![h].todo = hand[h].todo \ {u}]
    BY <2>3
  <2>5. hand'[h].pc = hand[h].pc
    BY <1>1, <1>4, <2>4 DEF IsBusy
  <2> QED BY <2>2, <2>5 DEF CreateMember
<1>8. CASE StaffSteps(h)
  <2>1. \/ ReadRole(h) \/ AdminOwner(h) \/ SettingsRead(h) \/ SettingsOld(h)
    BY <1>5, <1>6, <1>8 DEF StaffSteps, ReadTarget, RemoveRow, MuteRow, AdminTarget, AdminRow,
       NoticeRole, NoticeWrite, SettingsMember, SettingsOwner, SettingsWrite
  <2>2. CASE ReadRole(h)
    <3>1. /\ Role(By(h)) \in Staff
          /\ hand' = [hand EXCEPT ![h].pc = "target", ![h].role = Role(By(h))]
      BY <1>6, <2>2 DEF ReadRole
    <3>2. hand'[h].role = Role(By(h))
      BY <1>1, <1>4, <3>1 DEF IsBusy
    <3> QED BY <3>1, <3>2
  <2>3. CASE AdminOwner(h)
    <3>1. hand'[h].req = hand[h].req
      BY <1>3, <1>4, <2>3, OnlyGoes DEF AdminOwner, Pcs
    <3> QED BY <2>3, <3>1 DEF AdminOwner, StaffOps
  <2>4. CASE SettingsRead(h)
    <3>1. \E sw : hand' = [hand EXCEPT ![h].pc = "owner", ![h].sw = sw]
      BY <1>6, <2>4 DEF SettingsRead
    <3>2. hand'[h].pc = "owner"
      BY <1>1, <1>4, <3>1 DEF IsBusy
    <3> QED BY <3>2
  <2>5. CASE SettingsOld(h)
    <3>1. \E todo : hand' = [hand EXCEPT ![h].pc = "act", ![h].todo = todo]
      BY <1>6, <2>5 DEF SettingsOld
    <3>2. hand'[h].pc = "act"
      BY <1>1, <1>4, <3>1 DEF IsBusy
    <3> QED BY <3>2
  <2> QED BY <2>1, <2>2, <2>3, <2>4, <2>5
<1>9. CASE OwnSteps(h)
  <2>1. PinRead(h)
    BY <1>5, <1>6, <1>9 DEF OwnSteps, FlagWrite, PinMember, PinWrite, TextMember, TextConv,
       TextRole, TextUntil, TextStore, Post
  <2>2. \E pins : hand' = [hand EXCEPT ![h].pc = "act", ![h].pins = pins]
    BY <2>1 DEF PinRead
  <2>3. hand'[h].pc = "act"
    BY <1>1, <1>4, <2>2 DEF IsBusy
  <2> QED BY <2>3
<1> QED BY <1>7, <1>8, <1>9 DEF Serve

LEMMA RankStep == Inv /\ RankInv /\ [Next]_vars => RankInv'
<1> SUFFICES ASSUME Inv, RankInv, [Next]_vars, NEW g \in Handlers,
                    hand'[g].pc = "target", hand'[g].req.op \in StaffOps
             PROVE  hand'[g].role \in Staff
  BY DEF RankInv
<1>1. ASSUME NEW h \in Handlers, Serve(h) PROVE hand'[g].role \in Staff
  BY <1>1, OthersStay, TargetByRole DEF RankInv
<1>2. ASSUME NEW h \in Handlers, NEW r \in Requests, Ask(h, r) PROVE hand'[g].role \in Staff
  <2>1. CASE g = h
    <3>1. hand'[g].pc = "start"
      BY <1>2, <2>1 DEF Ask, Inv, Safe, Types
    <3> QED BY <3>1
  <2>2. CASE g # h
    BY <1>2, <2>2, OthersStay DEF RankInv
  <2> QED BY <2>1, <2>2
<1>3. CASE Crash
  <2>1. hand'[g].pc = "idle"
    BY <1>3 DEF Crash, IdleHandler
  <2> QED BY <2>1
<1>4. CASE Tick \/ UNCHANGED vars
  BY <1>4 DEF Tick, vars, RankInv
<1> QED BY <1>1, <1>2, <1>3, <1>4 DEF Next

\* A check goes on only if what it looks at allows the request.
LEMMA CheckPasses ==
  ASSUME Inv, RankInv, NEW h \in Handlers, Serve(h), NEW x \in barred[h],
         StillOpen(x, hand[h]), hand'[h].pc # "idle",
         x \in Broken(hand'[h].req, conv', rows', now')
  PROVE  StillOpen(x, hand'[h])
<1>1. Looks(h)
  BY StepsAt DEF StillOpen, At, StaffOps, Looks
<1>2. Moves(h) /\ UNCHANGED Stores /\ UNCHANGED now
  BY <1>1, LooksMove DEF Serve
<1>3. PICK b : hand' = [hand EXCEPT ![h] = b] /\ Fits(h, b)
  BY <1>2 DEF Moves
<1>4. hand'[h] = b
  BY <1>3 DEF Inv, Safe, Types
<1>5. b.req = hand[h].req
  BY <1>3, <1>4 DEF Fits, IdleHandler
<1>6. x \in Broke(h)
  BY <1>2, <1>4, <1>5 DEF Broke, Stores
<1>7. x \in {"member", "staff", "owner", "rank", "target", "guest", "open", "full",
             "muteAll", "muted"}
  BY DEF StillOpen
<1> QED BY <1>6, <1>7, PassesAsMember, PassesByRank, PassesAsGuest, PassesAsSpeaker

LEMMA BarredStep == Inv /\ RankInv /\ BarredInv /\ [Next]_vars => BarredInv'
<1> SUFFICES ASSUME Inv, RankInv, BarredInv, Next, NEW g \in Handlers,
                    hand'[g].pc # "idle", NEW x \in barred'[g]
             PROVE  StillOpen(x, hand'[g])
  BY DEF BarredInv, vars, StillOpen
<1>1. x \in Broken(hand'[g].req, conv', rows', now') /\ (hand[g].pc # "idle" => x \in barred[g])
  BY DEF Next, NoteBarred
<1>2. CASE hand'[g] = hand[g]
  BY <1>1, <1>2 DEF BarredInv
<1>3. ASSUME NEW h \in Handlers, Serve(h) PROVE StillOpen(x, hand'[g])
  <2>1. CASE g = h
    <3>1. hand[h].pc # "idle"
      BY <1>3, ServesBusy
    <3> QED BY <1>1, <1>3, <2>1, <3>1, CheckPasses DEF BarredInv
  <2>2. CASE g # h
    BY <1>2, <1>3, <2>2, OthersStay
  <2> QED BY <2>1, <2>2
<1>4. ASSUME NEW h \in Handlers, NEW r \in Requests, Ask(h, r) PROVE StillOpen(x, hand'[g])
  <2>1. CASE g = h
    <3>1. hand'[g].pc = "start"
      BY <1>4, <2>1 DEF Ask, Inv, Safe, Types
    <3> QED BY <1>1, <3>1, OpenFirst
  <2>2. CASE g # h
    BY <1>2, <1>4, <2>2, OthersStay
  <2> QED BY <2>1, <2>2
<1>5. CASE Crash
  <2>1. hand'[g].pc = "idle"
    BY <1>5 DEF Crash, IdleHandler
  <2> QED BY <2>1
<1>6. CASE Tick
  BY <1>2, <1>6 DEF Tick
<1> QED BY <1>3, <1>4, <1>5, <1>6 DEF Next

\* A request changes the group only if no single rule has forbidden it all the
\* time since it arrived, whatever other requests, mutes and the clock do
\* between its checks.
THEOREM ActsWereAllowed == Spec => []NeverWhollyBarred
<1>1. Init => RankInv /\ BarredInv
  BY DEF Init, RankInv, BarredInv, IdleHandler
<1>2. BarredInv => NeverWhollyBarred
  BY DEF BarredInv, NeverWhollyBarred, Acting, StillOpen
<1> QED BY <1>1, <1>2, RankStep, BarredStep, InvAlways, PTL DEF Spec

-----------------------------------------------------------------------------
(* Lists of pins.                                                          *)

\* What the loop has kept of the first places of the list.
KeptBy(g, list, m) ==
  g = [i \in 0..Len(list) |->
         IF i = 0 THEN <<>>
         ELSE IF list[i] = m THEN g[i - 1] ELSE Append(g[i - 1], list[i])]

LEMMA KeptExists ==
  ASSUME NEW list, Len(list) \in Nat, NEW m
  PROVE  \E g : KeptBy(g, list, m)
<1> DEFINE D == 0..Len(list)
           Part(g, i) == IF i = 0 THEN <<>>
                         ELSE IF list[i] = m THEN g[i - 1] ELSE Append(g[i - 1], list[i])
           Up(g, n) == \A i \in D : i <= n => g[i] = Part(g, i)
           Bad == {n \in Nat : ~ \E g : g = [i \in D |-> g[i]] /\ Up(g, n)}
<1>1. 0 \notin Bad
  <2> DEFINE g == [i \in D |-> <<>>]
  <2>1. g = [i \in D |-> g[i]] /\ Up(g, 0)
    OBVIOUS
  <2> QED BY <2>1
<1>2. ASSUME NEW n \in Nat, n \notin Bad PROVE n + 1 \notin Bad
  <2>1. PICK g : g = [i \in D |-> g[i]] /\ Up(g, n)
    BY <1>2
  <2> DEFINE h == [i \in D |-> Part(g, i)]
  <2>2. \A i \in D : i <= n => h[i] = g[i]
    BY <2>1
  <2>3. \A i \in D : i <= n + 1 /\ i # 0 => h[i - 1] = g[i - 1]
    BY <2>2
  <2>4. Up(h, n + 1)
    BY <2>3
  <2>5. h = [i \in D |-> h[i]]
    OBVIOUS
  <2> QED BY <2>4, <2>5
<1>3. Bad = {}
  <2> SUFFICES ASSUME Bad # {} PROVE FALSE
    OBVIOUS
  <2>1. PICK n \in Bad : \A k \in Bad : n <= k
    <3> Bad \in SUBSET Nat
      OBVIOUS
    <3> HIDE DEF Bad
    <3> QED BY SmallestNumber
  <2>2. n \in Nat /\ n \in Bad /\ n # 0
    BY <1>1
  <2> HIDE DEF Bad
  <2>3. n - 1 \in Nat /\ n - 1 \notin Bad
    BY <2>1, <2>2
  <2>4. (n - 1) + 1 \notin Bad
    BY <1>2, <2>3
  <2> QED BY <2>2, <2>4
<1>4. PICK g : g = [i \in D |-> g[i]] /\ Up(g, Len(list))
  BY <1>3
<1>5. \A i \in D : g[i] = Part(g, i)
  BY <1>4
<1>6. [i \in D |-> g[i]] = [i \in D |-> Part(g, i)]
  BY <1>5
<1>7. KeptBy(g, list, m)
  BY <1>4, <1>6 DEF KeptBy
<1> QED BY <1>7

LEMMA UnpinnedKept ==
  ASSUME NEW list, Len(list) \in Nat, NEW m
  PROVE  \E g : KeptBy(g, list, m) /\ Unpinned(list, m) = g[Len(list)]
<1> DEFINE g == CHOOSE k : KeptBy(k, list, m)
<1>1. KeptBy(g, list, m)
  BY KeptExists
<1>2. Unpinned(list, m) = g[Len(list)]
  BY DEF Unpinned, KeptBy
<1> QED BY <1>1, <1>2

LEMMA AppendFacts ==
  ASSUME NEW S, NEW s \in Seq(S), NEW m \in S
  PROVE  /\ Append(s, m) \in Seq(S) /\ Elems(Append(s, m)) = Elems(s) \cup {m}
         /\ Unique(s) /\ m \notin Elems(s) => Unique(Append(s, m))
<1>1. /\ Append(s, m) \in Seq(S) /\ Len(Append(s, m)) = Len(s) + 1 /\ Len(s) \in Nat
      /\ Append(s, m)[Len(s) + 1] = m /\ \A i \in 1..Len(s) : Append(s, m)[i] = s[i]
  OBVIOUS
<1>2. PICK t : t = Append(s, m)
  OBVIOUS
<1>3. Elems(t) = Elems(s) \cup {m}
  BY <1>1, <1>2 DEF Elems
<1>4. Unique(s) /\ m \notin Elems(s) => Unique(t)
  BY <1>1, <1>2 DEF Elems, Unique
<1> QED BY <1>1, <1>2, <1>3, <1>4

\* Unpinning keeps the other pins, each once.
LEMMA UnpinnedFacts ==
  ASSUME NEW S, NEW list \in Seq(S), Unique(list), NEW m
  PROVE  /\ Unpinned(list, m) \in Seq(S) /\ Unique(Unpinned(list, m))
         /\ Elems(Unpinned(list, m)) = Elems(list) \ {m}
<1> DEFINE First(n) == {list[i] : i \in 1..n}
           Fine(s, n) == s \in Seq(S) /\ Unique(s) /\ Elems(s) = First(n) \ {m}
<1>1. Len(list) \in Nat /\ \A i \in 1..Len(list) : list[i] \in S
  OBVIOUS
<1>2. PICK g : KeptBy(g, list, m) /\ Unpinned(list, m) = g[Len(list)]
  BY <1>1, UnpinnedKept
<1> DEFINE Bad == {n \in 0..Len(list) : ~Fine(g[n], n)}
<1>3. 0 \notin Bad
  <2>1. g[0] = <<>>
    BY <1>1, <1>2 DEF KeptBy
  <2>2. Fine(<<>>, 0)
    BY DEF Unique, Elems
  <2> QED BY <2>1, <2>2
<1>4. ASSUME NEW n \in 1..Len(list), n - 1 \notin Bad PROVE n \notin Bad
  <2>1. n - 1 \in 0..Len(list) /\ n \in 0..Len(list) /\ n # 0 /\ n \in Nat
    BY <1>1
  <2>2. Fine(g[n - 1], n - 1)
    BY <1>4, <2>1
  <2>3. g[n] = IF list[n] = m THEN g[n - 1] ELSE Append(g[n - 1], list[n])
    BY <1>2, <2>1 DEF KeptBy
  <2>4. First(n) = First(n - 1) \cup {list[n]}
    BY <2>1
  <2>5. list[n] \notin First(n - 1)
    BY <1>1, <2>1 DEF Unique
  <2>6. list[n] \in S
    BY <1>1
  <2> HIDE DEF First
  <2>7. Fine(g[n], n)
    <3>1. CASE list[n] = m
      BY <2>2, <2>3, <2>4, <3>1
    <3>2. CASE list[n] # m
      <4>1. g[n] = Append(g[n - 1], list[n])
        BY <2>3, <3>2
      <4>2. list[n] \notin Elems(g[n - 1])
        BY <2>2, <2>5
      <4>3. PICK s \in Seq(S) : s = g[n - 1]
        BY <2>2
      <4>4. /\ g[n] \in Seq(S) /\ Elems(g[n]) = Elems(s) \cup {list[n]} /\ Unique(g[n])
        BY <2>2, <2>6, <4>1, <4>2, <4>3, AppendFacts
      <4> QED BY <2>2, <2>4, <3>2, <4>3, <4>4
    <3> QED BY <3>1, <3>2
  <2> QED BY <2>7
<1>5. Bad = {}
  <2> SUFFICES ASSUME Bad # {} PROVE FALSE
    OBVIOUS
  <2>1. PICK n \in Bad : \A k \in Bad : n <= k
    <3> Bad \in SUBSET Nat
      OBVIOUS
    <3> HIDE DEF Bad
    <3> QED BY SmallestNumber
  <2>2. n \in 1..Len(list)
    BY <1>1, <1>3
  <2> HIDE DEF Bad
  <2>3. n - 1 \notin Bad
    BY <1>1, <2>1, <2>2
  <2> QED BY <1>4, <2>2, <2>3
<1>6. Fine(g[Len(list)], Len(list))
  BY <1>1, <1>5
<1>7. First(Len(list)) = Elems(list)
  BY DEF Elems
<1> QED BY <1>2, <1>6, <1>7

\* A list that names nothing twice is as long as what it names.
LEMMA UniqueCounts ==
  ASSUME NEW S, NEW s \in Seq(S), Unique(s)
  PROVE  Cardinality(Elems(s)) = Len(s)
<1>1. Len(s) \in Nat
  OBVIOUS
<1> DEFINE f == [i \in 1..Len(s) |-> s[i]]
<1>2. f \in [1..Len(s) -> Elems(s)]
  BY DEF Elems
<1>3. \A i, j \in 1..Len(s) : f[i] = f[j] => i = j
  BY DEF Unique
<1>4. \A x \in Elems(s) : \E i \in 1..Len(s) : f[i] = x
  BY DEF Elems
<1> HIDE DEF f
<1>5. ExistsBijection(1..Len(s), Elems(s))
  BY <1>2, <1>3, <1>4 DEF ExistsBijection, Bijection, Injection, Surjection, IsInjective
<1> QED BY <1>1, <1>5, FS_CountingElements

\* What a request holds of the pins is what it read.
LEMMA HeldPins ==
  ASSUME Inv, NEW h \in Handlers, Serve(h), hand'[h].pc # "idle"
  PROVE  hand'[h].pins = hand[h].pins \/ hand'[h].pins = conv.pins
<1>1. hand = [f \in Handlers |-> hand[f]]
  BY DEF Inv, Safe, Types
<1>2. hand'[h] # IdleHandler
  BY DEF IdleHandler
<1>3. IsBusy(hand[h])
  BY ServesBusy, ServingIsBusy
<1>4. ~Done(h)
  BY <1>1, <1>2 DEF Done
<1>5. ASSUME NEW pc, NEW may, Goto(h, pc) \/ Only(h, may, pc) PROVE hand'[h].pins = hand[h].pins
  <2>1. Goto(h, pc)
    BY <1>4, <1>5 DEF Only
  <2>2. hand'[h] = [hand[h] EXCEPT !.pc = pc]
    BY <1>1, <2>1 DEF Goto
  <2> QED BY <1>3, <2>2 DEF IsBusy
<1>6. ASSUME NEW notes, Say(h, notes) PROVE hand'[h].pins = hand[h].pins
  <2>1. hand'[h] = [hand[h] EXCEPT !.pc = "post", !.notes = notes]
    BY <1>1, <1>2, <1>6 DEF Say
  <2> QED BY <1>3, <2>1 DEF IsBusy
<1>7. CASE MemberSteps(h)
  <2>1. hand'[h].pins = hand[h].pins \/ CreateMember(h) \/ InviteCount(h) \/ InviteInsert(h)
    BY <1>4, <1>5, <1>6, <1>7 DEF MemberSteps, CreateConv, CreateOwner, InviteRole, InviteAllowed,
       JoinOpen, JoinCount, JoinExist, JoinAdd, QuitCount, QuitClose, QuitLeave,
       DisbandOwner, DisbandClose, DisbandClear
  <2>2. CASE CreateMember(h)
    <3>1. PICK u \in hand[h].todo : hand' = [hand EXCEPT ![h].todo = @ \ {u}]
      BY <1>4, <2>2 DEF CreateMember
    <3>2. hand'[h] = [hand[h] EXCEPT !.todo = @ \ {u}]
      BY <1>1, <3>1
    <3> QED BY <1>3, <3>2 DEF IsBusy
  <2>3. CASE InviteCount(h) \/ InviteInsert(h)
    BY <1>2, <2>3, InviteMoves
  <2> QED BY <2>1, <2>2, <2>3
<1>8. CASE StaffSteps(h)
  <2>1. \/ hand'[h].pins = hand[h].pins
        \/ ReadRole(h) \/ SettingsRead(h) \/ SettingsOld(h)
    BY <1>4, <1>5, <1>6, <1>8 DEF StaffSteps, ReadTarget, RemoveRow, MuteRow, AdminOwner,
       AdminTarget, AdminRow, NoticeRole, NoticeWrite, SettingsMember, SettingsOwner, SettingsWrite
  <2>2. CASE ReadRole(h)
    <3>1. hand'[h] = [hand[h] EXCEPT !.pc = "target", !.role = Role(By(h))]
      BY <1>1, <1>4, <2>2 DEF ReadRole
    <3> QED BY <1>3, <3>1 DEF IsBusy
  <2>3. CASE SettingsRead(h)
    <3>1. \E sw : hand' = [hand EXCEPT ![h].pc = "owner", ![h].sw = sw]
      BY <1>4, <2>3 DEF SettingsRead
    <3> QED BY <1>1, <1>3, <3>1 DEF IsBusy
  <2>4. CASE SettingsOld(h)
    <3>1. \E todo : hand' = [hand EXCEPT ![h].pc = "act", ![h].todo = todo]
      BY <1>4, <2>4 DEF SettingsOld
    <3> QED BY <1>1, <1>3, <3>1 DEF IsBusy
  <2> QED BY <2>1, <2>2, <2>3, <2>4
<1>9. CASE OwnSteps(h)
  <2>1. hand'[h].pins = hand[h].pins \/ PinRead(h)
    BY <1>4, <1>5, <1>6, <1>9 DEF OwnSteps, FlagWrite, PinMember, PinWrite, TextMember, TextConv,
       TextRole, TextUntil, TextStore, Post
  <2>2. CASE PinRead(h)
    <3>1. hand'[h] = [hand[h] EXCEPT !.pc = "act", !.pins = conv.pins]
      BY <1>1, <2>2 DEF PinRead
    <3> QED BY <1>3, <3>1 DEF IsBusy
  <2> QED BY <2>1, <2>2
<1> QED BY <1>7, <1>8, <1>9 DEF Serve

\* Which steps write the row of the conversation.
LEMMA ConvWrites ==
  ASSUME NEW h, Serve(h), conv' # conv
  PROVE  CreateConv(h) \/ QuitClose(h) \/ DisbandClose(h) \/ NoticeWrite(h)
         \/ SettingsWrite(h) \/ PinWrite(h)
<1>1. CASE MemberSteps(h)
  BY <1>1 DEF MemberSteps, CreateOwner, CreateMember, InviteRole, InviteAllowed, InviteCount,
     InviteInsert, JoinOpen, JoinCount, JoinExist, JoinAdd, QuitCount, QuitLeave, DisbandOwner, DisbandClear,
     Stores
<1>2. CASE StaffSteps(h)
  BY <1>2 DEF StaffSteps, ReadRole, ReadTarget, RemoveRow, MuteRow, AdminOwner,
     AdminTarget, AdminRow, NoticeRole, SettingsMember, SettingsRead, SettingsOwner, SettingsOld,
     Stores
<1>3. CASE OwnSteps(h)
  BY <1>3 DEF OwnSteps, FlagWrite, PinMember, PinRead, TextMember, TextConv, TextRole, TextUntil,
     TextStore, Post, Stores
<1> QED BY <1>1, <1>2, <1>3 DEF Serve

\* The list a request writes back.
LEMMA NewPinsFacts ==
  ASSUME NEW h, hand[h].req.what \in Msgs, hand[h].pins \in Seq(Msgs), Unique(hand[h].pins)
  PROVE  /\ NewPins(h) \in Seq(Msgs) /\ Unique(NewPins(h))
         /\ \A m \in Elems(hand[h].pins) \ Elems(NewPins(h)) :
              hand[h].req.what = m /\ ~hand[h].req.on
<1>1. PICK s, m : s = hand[h].pins /\ m = hand[h].req.what
  OBVIOUS
<1>2. CASE hand[h].req.on
  <2>1. NewPins(h) = IF m \in Elems(s) THEN s ELSE Append(s, m)
    BY <1>1, <1>2 DEF NewPins, Pinned
  <2>2. m \notin Elems(s) => Append(s, m) \in Seq(Msgs) /\ Unique(Append(s, m))
                             /\ Elems(Append(s, m)) = Elems(s) \cup {m}
    BY <1>1, AppendFacts
  <2> QED BY <1>1, <2>1, <2>2
<1>3. CASE ~hand[h].req.on
  <2>1. NewPins(h) = Unpinned(s, m)
    BY <1>1, <1>3 DEF NewPins
  <2>2. Unpinned(s, m) \in Seq(Msgs) /\ Unique(Unpinned(s, m))
        /\ Elems(Unpinned(s, m)) = Elems(s) \ {m}
    BY <1>1, UnpinnedFacts
  <2> QED BY <1>1, <1>3, <2>1, <2>2
<1> QED BY <1>2, <1>3

LEMMA PinWritten ==
  ASSUME Inv, PinsInv, NEW h \in Handlers, PinWrite(h)
  PROVE  /\ conv'.pins = NewPins(h) /\ conv'.pinned \in Msgs \cup {"none"}
         /\ conv'.owner = conv.owner /\ conv'.notice = conv.notice
         /\ hand[h].req.what \in Msgs /\ hand[h].pins \in Seq(Msgs) /\ Unique(hand[h].pins)
<1>1. hand[h].pc # "idle" /\ hand[h].req.op = "pin"
  BY DEF PinWrite, At
<1>2. hand[h].req.what \in Msgs /\ hand[h].pins \in Seq(Msgs) /\ Unique(hand[h].pins)
  BY <1>1, CallerFacts DEF PinsInv
<1>3. PICK last \in Msgs \cup {"none"} :
        conv' = [conv EXCEPT !.pins = NewPins(h), !.pinned = last]
  BY <1>2 DEF PinWrite
<1> QED BY <1>2, <1>3 DEF Inv, Safe, Types, IsConv

LEMMA PinsStep == Inv /\ PinsInv /\ [Next]_vars => PinsInv'
<1> SUFFICES ASSUME Inv, PinsInv, [Next]_vars PROVE PinsInv'
  OBVIOUS
<1> DEFINE Fine(c) == /\ c.pins \in Seq(Msgs) /\ Unique(c.pins) /\ c.pinned \in Msgs \cup {"none"}
                     /\ c.owner \in Users \cup {Nobody} /\ c.notice \in Users \cup {Nobody}
           Held(b) == b.pc # "idle" => b.pins \in Seq(Msgs) /\ Unique(b.pins)
<1>1. Fine(conv) /\ \A h \in Handlers : Held(hand[h])
  BY DEF PinsInv
<1>2. ASSUME NEW h \in Handlers, Serve(h) PROVE Fine(conv') /\ \A g \in Handlers : Held(hand'[g])
  <2>1. Fine(conv')
    <3>1. By(h) \in Users \cup {Nobody}
      BY <1>2, ServesBusy, CallerFacts
    <3>2. CASE conv' = conv
      BY <1>1, <3>2
    <3>3. CASE CreateConv(h) \/ QuitClose(h) \/ DisbandClose(h) \/ NoticeWrite(h)
               \/ SettingsWrite(h)
      <4>1. \E status, owner, notice, sw :
              /\ owner \in Users \cup {Nobody} /\ notice \in Users \cup {Nobody}
              /\ conv' = [conv EXCEPT !.status = status, !.owner = owner, !.notice = notice,
                                      !.sw = sw]
        <5>1. CASE CreateConv(h)
          <6>1. conv' = [conv EXCEPT !.status = "normal", !.owner = By(h)]
            BY <5>1 DEF CreateConv
          <6>2. conv' = [conv EXCEPT !.status = "normal", !.owner = By(h),
                                     !.notice = conv.notice, !.sw = conv.sw]
            BY <6>1 DEF Inv, Safe, Types, IsConv
          <6> QED BY <1>1, <3>1, <6>2
        <5>2. CASE QuitClose(h) \/ DisbandClose(h)
          <6>1. conv' = [conv EXCEPT !.status = "disband"]
            BY <5>2 DEF QuitClose, DisbandClose
          <6>2. conv' = [conv EXCEPT !.status = "disband", !.owner = conv.owner,
                                     !.notice = conv.notice, !.sw = conv.sw]
            BY <6>1 DEF Inv, Safe, Types, IsConv
          <6> QED BY <1>1, <6>2
        <5>3. CASE NoticeWrite(h)
          <6>1. conv' = [conv EXCEPT !.notice = By(h)]
            BY <5>3 DEF NoticeWrite
          <6>2. conv' = [conv EXCEPT !.status = conv.status, !.owner = conv.owner,
                                     !.notice = By(h), !.sw = conv.sw]
            BY <6>1 DEF Inv, Safe, Types, IsConv
          <6> QED BY <1>1, <3>1, <6>2
        <5>4. CASE SettingsWrite(h)
          <6>1. conv' = [conv EXCEPT !.sw = hand[h].sw]
            BY <5>4 DEF SettingsWrite
          <6>2. conv' = [conv EXCEPT !.status = conv.status, !.owner = conv.owner,
                                     !.notice = conv.notice, !.sw = hand[h].sw]
            BY <6>1 DEF Inv, Safe, Types, IsConv
          <6> QED BY <1>1, <6>2
        <5> QED BY <3>3, <5>1, <5>2, <5>3, <5>4
      <4>2. /\ conv'.pins = conv.pins /\ conv'.pinned = conv.pinned
            /\ conv'.owner \in Users \cup {Nobody} /\ conv'.notice \in Users \cup {Nobody}
        BY <4>1 DEF Inv, Safe, Types, IsConv
      <4> QED BY <1>1, <4>2
    <3>4. CASE PinWrite(h)
      <4>1. NewPins(h) \in Seq(Msgs) /\ Unique(NewPins(h))
        BY <3>4, PinWritten, NewPinsFacts
      <4> QED BY <1>1, <3>4, <4>1, PinWritten
    <3> QED BY <1>2, <3>2, <3>3, <3>4, ConvWrites
  <2>2. ASSUME NEW g \in Handlers PROVE Held(hand'[g])
    <3>1. CASE g = h
      <4>1. hand[h].pc # "idle"
        BY <1>2, ServesBusy
      <4>2. hand'[h].pc # "idle" => hand'[h].pins = hand[h].pins \/ hand'[h].pins = conv.pins
        BY <1>2, HeldPins
      <4> QED BY <1>1, <3>1, <4>1, <4>2
    <3>2. CASE g # h
      BY <1>1, <1>2, <3>2, OthersStay
    <3> QED BY <3>1, <3>2
  <2> QED BY <2>1, <2>2
<1>3. ASSUME NEW h \in Handlers, NEW r \in Requests, Ask(h, r)
      PROVE  conv' = conv /\ \A g \in Handlers : Held(hand'[g])
  <2>1. hand'[h].pins = <<>>
    BY <1>3 DEF Ask, Inv, Safe, Types
  <2>2. Held(hand'[h])
    BY <2>1 DEF Unique
  <2>3. \A g \in Handlers \ {h} : hand'[g] = hand[g]
    BY <1>3, OthersStay
  <2> QED BY <1>1, <1>3, <2>2, <2>3 DEF Ask
<1>4. CASE Crash
  <2>1. conv' = conv /\ \A g \in Handlers : hand'[g].pc = "idle"
    BY <1>4 DEF Crash, IdleHandler
  <2> QED BY <1>1, <2>1 DEF PinsInv
<1>5. CASE Tick \/ UNCHANGED vars
  BY <1>1, <1>5 DEF Tick, vars, PinsInv
<1> QED BY <1>1, <1>2, <1>3, <1>4, <1>5 DEF Next, PinsInv

LEMMA PinsAlways == Spec => []PinsInv
<1>1. Init => PinsInv
  BY DEF Init, PinsInv, Unique, IdleHandler
<1> QED BY <1>1, PinsStep, InvAlways, PTL DEF Spec

\* The variables have their types, the owner is safe, and nobody holds a rank
\* before the owner does, whatever statements interleave.
THEOREM GroupIsSafe == Spec => []GroupInv
<1>1. Inv /\ PinsInv => GroupInv
  <2> SUFFICES ASSUME Inv, PinsInv PROVE TypeOK
    BY DEF GroupInv, Inv, Safe
  <2>1. conv \in ConvType
    BY DEF Inv, Safe, Types, IsConv, PinsInv, ConvType
  <2>2. \A h \in Handlers : hand[h] \in Busy \cup {IdleHandler}
    BY BusyFacts DEF Inv, Safe, Types, IsBusy, PinsInv, Busy
  <2>3. hand \in [Handlers -> Busy \cup {IdleHandler}]
    BY <2>2 DEF Inv, Safe, Types
  <2> QED BY <2>1, <2>3 DEF TypeOK, Inv, Safe, Types
<1> QED BY <1>1, InvAlways, PinsAlways, PTL

\* A pin is lost by a request to unpin it, or to one that wrote back a list
\* read before it was pinned; no list names a message twice.
THEOREM PinsStand == Spec => PinsHeld
<1> DEFINE Held ==
      /\ Cardinality(Elems(conv'.pins)) = Len(conv'.pins)
      /\ \A m \in Elems(conv.pins) \ Elems(conv'.pins) :
           \E h \in Handlers : /\ PinWrite(h)
                               /\ m \notin Elems(hand[h].pins)
                                  \/ (hand[h].req.what = m /\ ~hand[h].req.on)
<1>1. Inv /\ PinsInv /\ PinsInv' /\ [Next]_vars => [Held]_vars
  <2> SUFFICES ASSUME Inv, PinsInv, PinsInv', Next PROVE Held
    OBVIOUS
  <2>1. Cardinality(Elems(conv'.pins)) = Len(conv'.pins)
    BY UniqueCounts DEF PinsInv
  <2>2. ASSUME conv'.pins # conv.pins PROVE \E h \in Handlers : PinWrite(h)
    <3>1. PICK h \in Handlers : Serve(h)
      BY <2>2 DEF Next, Ask, Crash, Tick
    <3>2. ~(CreateConv(h) \/ QuitClose(h) \/ DisbandClose(h) \/ NoticeWrite(h) \/ SettingsWrite(h))
      BY <2>2 DEF CreateConv, QuitClose, DisbandClose, NoticeWrite, SettingsWrite, Inv, Safe,
         Types, IsConv
    <3>3. conv' # conv
      BY <2>2
    <3> QED BY <3>1, <3>2, <3>3, ConvWrites
  <2>3. ASSUME NEW m \in Elems(conv.pins) \ Elems(conv'.pins)
        PROVE  \E h \in Handlers : /\ PinWrite(h)
                                   /\ m \notin Elems(hand[h].pins)
                                      \/ (hand[h].req.what = m /\ ~hand[h].req.on)
    <3>1. PICK h \in Handlers : PinWrite(h)
      BY <2>2, <2>3
    <3>2. conv'.pins = NewPins(h)
      BY <3>1, PinWritten
    <3>3. \A k \in Elems(hand[h].pins) \ Elems(NewPins(h)) :
            hand[h].req.what = k /\ ~hand[h].req.on
      BY <3>1, PinWritten, NewPinsFacts
    <3>4. m \in Elems(hand[h].pins) => hand[h].req.what = m /\ ~hand[h].req.on
      BY <2>3, <3>2, <3>3
    <3> QED BY <3>1, <3>4
  <2> QED BY <2>1, <2>3
<1> QED BY <1>1, InvAlways, PinsAlways, PTL DEF Spec, PinsHeld
=============================================================================
