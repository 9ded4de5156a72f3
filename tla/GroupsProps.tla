----------------------------- MODULE GroupsProps -----------------------------
(***************************************************************************)
(* What the group operations promise.                                      *)
(***************************************************************************)
EXTENDS Groups

Row == [role : {0} \cup Staff \cup {Normal}, until : Nat,
        pinned : BOOLEAN, dnd : BOOLEAN]
ConvType == [status : {"none", "normal", "disband"}, owner : Users \cup {Nobody},
             sw : Switches, notice : Users \cup {Nobody},
             pins : Seq(Msgs), pinned : Msgs \cup {"none"}]
Pcs == {"start", "owner", "members", "add", "insert", "allowed", "count", "exist", "target",
        "act", "close", "leave", "leaveLast", "closeAll", "clear", "old", "read",
        "switches",
        "conv", "role", "until", "post"}
Notes == [kind : {"invite", "join", "kick", "quit", "mute", "unmute",
                  "muteAllOn", "muteAllOff"}, who : Users]
Busy == [pc : Pcs, req : Requests, role : {0} \cup Staff \cup {Normal},
         todo : SUBSET Users, notes : SUBSET Notes,
         sw : Switches, pins : Seq(Msgs)]

\* Every variable has its type, whatever the statements interleave.
TypeOK ==
  /\ conv \in ConvType
  /\ rows \in [Users -> Row]
  /\ hand \in [Handlers -> Busy \cup {IdleHandler}]
  /\ now \in Nat

\* The steps of a request that change the group.
Acting == {"act", "add", "insert", "closeAll", "clear"}

\* A request acts only if no single rule has forbidden it all the time since
\* it arrived: membership, rank of caller and target, the switches, mutes and
\* the size of the group are all looked at while it is served, in an order
\* that leaves no gap.  (A right may be gone again when the request acts.)
NeverWhollyBarred ==
  \A h \in Handlers : hand[h].pc \in Acting => barred[h] = {}

\* Whoever has the rank of owner is the one who created the group and is not
\* muted, and no request that passed its checks is about to remove, mute or degrade
\* him, whatever roles changed in between.
OwnerInv ==
  /\ \A u \in Users : rows[u].role = Owner => u = conv.owner /\ rows[u].until = 0
  /\ \A h \in Handlers :
       hand[h].pc = "act" /\ hand[h].req.op \in {"remove", "mute", "setAdmin"}
         => Role(Target(h)) # Owner

\* What makes OwnerInv inductive: nobody is served beside a CreateGroup that
\* has not stored the group, and nobody holds a rank before the owner does.
CreationInv ==
  /\ conv.status = "none" => \A u \in Users : rows[u] = Absent
  /\ \A h \in Handlers :
       At(h, "create", "start") =>
         conv.status = "none" /\ \A g \in Handlers \ {h} : hand[g].pc = "idle"
  /\ \A h \in Handlers :
       At(h, "create", "owner") =>
         /\ conv.owner = By(h)
         /\ \A u \in Users : rows[u].role \in {0, Normal} /\ rows[u].until = 0
         /\ \A g \in Handlers :
              hand[g].pc \in {"target", "act"}
                => hand[g].req.op \notin {"remove", "mute", "setAdmin"}

GroupInv == TypeOK /\ OwnerInv /\ CreationInv

\* The owner loses his row by his own leaving or by the end of the group, and
\* his role not at all.
OwnerStands ==
  [][\A u \in Users : rows[u].role = Owner /\ rows'[u].role # Owner =>
       /\ rows'[u].role = 0
       /\ \E h \in Handlers : DisbandClear(h) \/ (QuitLeave(h) /\ By(h) = u)]_vars

\* Being invited, joining by code or being created again changes nothing for
\* who is in: rank and mute of a member who stays change by a decision about
\* him only.  Who comes in, for the first time or again, is a normal member
\* and not muted, but for the founder when the group is created.
StandingHeld ==
  [][\A u \in Users :
       /\ rows[u].role # 0 /\ rows'[u].role # 0 =>
            /\ rows'[u].role # rows[u].role =>
                 \E h \in Handlers : AdminRow(h) /\ Target(h) = u
            /\ rows'[u].until # rows[u].until =>
                 \E h \in Handlers : MuteRow(h) /\ Target(h) = u
       /\ rows[u].role = 0 /\ rows'[u].role # 0 =>
            /\ rows'[u].until = 0
            /\ rows'[u].role = Normal \/ \E h \in Handlers : CreateOwner(h) /\ By(h) = u]_vars

\* A pinned message leaves the list by a request to unpin it, or because a
\* request that had read the list before wrote it back without it; and the
\* list never names a message twice.
PinsHeld ==
  [][/\ Cardinality(Elems(conv'.pins)) = Len(conv'.pins)
     /\ \A m \in Elems(conv.pins) \ Elems(conv'.pins) :
          \E h \in Handlers :
            /\ PinWrite(h)
            /\ m \notin Elems(hand[h].pins)
               \/ (hand[h].req.what = m /\ ~hand[h].req.on)]_vars
=============================================================================
