------------------------------ MODULE MCGroups ------------------------------
(***************************************************************************)
(* An instance of a group small enough for TLC.                            *)
(***************************************************************************)
EXTENDS GroupsProps

CONSTANTS o, a, b, m1, m2

Req(op, by, to) ==
  [op |-> op, by |-> by, to |-> to, what |-> "none", on |-> TRUE, num |-> 0]
With(r, what, on) == [r EXCEPT !.what = what, !.on = on]
For(r, on, num) == [r EXCEPT !.on = on, !.num = num]

\* A group of o with a, which b may join; a may rise to admin and come back.
Busiest ==
  { Req("create", o, {o, a}),
    Req("invite", a, {b}), Req("join", b, {}), Req("quit", a, {}), Req("quit", o, {}),
    Req("remove", o, {a}), Req("remove", a, {b}), Req("remove", a, {o}),
    For(Req("setAdmin", o, {a}), TRUE, 0), For(Req("setAdmin", o, {a}), FALSE, 0),
    For(Req("setAdmin", o, {b}), TRUE, 0),
    For(Req("mute", o, {a}), TRUE, 5), For(Req("mute", a, {b}), TRUE, 0),
    For(Req("mute", o, {a}), FALSE, 0), For(Req("mute", a, {o}), TRUE, 1),
    Req("disband", o, {}), Req("adminDisband", Nobody, {}),
    Req("text", a, {}), Req("notice", a, {}),
    With(Req("settings", o, {}), "muteAll", TRUE),
    With(Req("settings", o, {}), "allowInvite", FALSE),
    With(Req("settings", o, {}), "qrJoin", FALSE),
    With(Req("flag", a, {}), "pinned", TRUE), With(Req("flag", a, {}), "dnd", TRUE),
    With(Req("pin", a, {}), m1, TRUE), With(Req("pin", o, {}), m2, TRUE),
    With(Req("pin", a, {}), m1, FALSE) }
=============================================================================
