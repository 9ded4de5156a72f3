----------------------------- MODULE MCAccounts -----------------------------
(***************************************************************************)
(* Scenarios of the accounts small enough for TLC.                         *)
(***************************************************************************)
EXTENDS AccountsProps

CONSTANTS p, q, g1, g2, d, i, f, t

R(op, who) == [op |-> op, who |-> who, pwd |-> "A", new |-> "none", code |-> 0,
               cap |-> 0, inv |-> "none", tick |-> "none"]
Coded(r, cap, code) == [r EXCEPT !.cap = cap, !.code = code]
Invited(r, c) == [r EXCEPT !.inv = c]
New(r, x) == [r EXCEPT !.new = x]
Pwd(r, x) == [r EXCEPT !.pwd = x]
Ticketed(r) == [r EXCEPT !.tick = t]

S(captcha, code, inv, ask, max, time) ==
  [captcha |-> captcha, code |-> code, invite |-> inv, ask |-> ask,
   maxAsked |-> max, maxTime |-> time]

\* A code is sent and used, twice at once; everything may expire.
ByCode == S(TRUE, TRUE, FALSE,
  {R("captcha", NoOne), Coded(R("sendCode", p), 1, 0), Coded(R("register", p), 3, 2)}, 5, 0)

\* An invite code of each kind.
ByInvite == S(FALSE, FALSE, TRUE,
  {Invited(R("register", p), i), Invited(R("register", q), i), Invited(R("register", q), f),
   R("guest", d), Invited(R("bindInvite", g1), i), Invited(R("bindInvite", p), i)}, 3, 0)

Sessions == S(FALSE, FALSE, FALSE,
  {R("register", p), R("login", p), R("refresh", p), R("disable", p), R("enable", p),
   R("logout", p), R("delete", p)}, 4, 1)

Passwords == S(FALSE, FALSE, FALSE,
  {R("register", p), R("login", p), Pwd(R("login", p), "B"), New(R("changePwd", p), "B"),
   New(R("resetPwd", p), "C"), R("adminCreate", q)}, 4, 0)

OnOneDevice == S(FALSE, FALSE, FALSE,
  {R("guest", d), R("disable", g1), R("refresh", g1), R("register", p)}, 3, 1)

ByTicket == S(FALSE, FALSE, FALSE,
  {R("guest", d), Ticketed(R("qrCreate", NoOne)), Ticketed(R("qrScan", g1)),
   Ticketed(R("qrConfirm", g1)), Ticketed(R("qrPoll", NoOne))}, 5, 0)

Numbers == S(FALSE, FALSE, FALSE,
  {R("guest", d), New(R("sendBind", g1), q), New(Coded(R("bindPhone", g1), 0, 1), q),
   R("register", q)}, 4, 0)

All == {ByCode, ByInvite, Sessions, Passwords, OnOneDevice, ByTicket, Numbers}
=============================================================================
