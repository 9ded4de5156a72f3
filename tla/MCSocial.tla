------------------------------ MODULE MCSocial ------------------------------
(***************************************************************************)
(* Scenarios of friends and moments small enough for TLC.                  *)
(***************************************************************************)
EXTENDS SocialProps

CONSTANTS ann, ben, kim, leo, bot, code

Staff == <<kim, leo>>

R(op, by, to) == [op |-> op, by |-> by, to |-> to, id |-> 1, on |-> TRUE,
                  code |-> "none", fs |-> <<>>]
Off(r) == [r EXCEPT !.on = FALSE]
Of(r, n) == [r EXCEPT !.id = n]
Coded(op, u, fs) == [R(op, u, u) EXCEPT !.code = code, !.fs = fs]

S(assistant, kefu, fresh, ask, max, failures) ==
  [assistant |-> assistant, kefu |-> kefu, new |-> fresh, ask |-> ask,
   maxAsked |-> max, maxFaults |-> failures]

\* Requests both ways, answered by either, while friends part.
Requests == S(FALSE, "off", {},
  {R("add", ann, ben), R("add", ben, ann), R("handle", ben, ben), Off(R("handle", ben, ben)), R("handle", ann, ann),
   R("delete", ann, ben), R("open", ann, ben)}, 4, 0)

Blocks == S(FALSE, "off", {},
  {R("add", ann, ben), R("handle", ben, ben), R("block", ann, ben), R("unblock", ann, ben), R("delete", ben, ann)}, 3, 1)

\* A registration, and a guest who comes back.
Round == S(TRUE, "round", {ann},
  {R("joined", ann, ann), R("guest", ann, ann), R("guest", ben, ben), R("notify", ann, ann)}, 3, 0)
Whole == S(FALSE, "all", {ann}, {R("joined", ann, ann), R("guest", ann, ann)}, 3, 1)

Invites == S(FALSE, "round", {ann, ben},
  {Coded("codeNew", kim, <<kim, leo>>), Coded("codeSet", kim, <<leo>>), Coded("codeDrop", kim, <<>>),
   Coded("joined", ann, <<>>), Coded("joined", ben, <<>>), Coded("bind", ann, <<>>)}, 3, 1)

\* A third one is invited into the conversation that a greeting opens.
Third == S(FALSE, "all", {ann},
  {R("joined", ann, ann), R("inviteTo", kim, leo), R("inviteTo", ben, ben), R("open", ann, ben),
   R("notify", ann, ann)}, 3, 1)

Posts == S(FALSE, "off", {},
  {R("publish", ann, ann), R("like", ann, ann), R("like", ben, ben), R("comment", ben, ben),
   R("uncomment", ben, ben), R("dropComment", bot, bot), R("hide", bot, bot),
   R("drop", bot, bot)}, 4, 0)

Feeds == S(FALSE, "round", {},
  {R("guest", leo, leo), R("delete", leo, kim), R("publish", kim, kim), R("publish", bot, bot),
   R("feed", leo, leo), R("hide", bot, bot), Off(R("hide", bot, bot)), R("drop", bot, bot)}, 6, 0)

All == {Requests, Blocks, Round, Whole, Invites, Third, Posts, Feeds}
=============================================================================
