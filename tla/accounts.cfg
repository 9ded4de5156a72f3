SPECIFICATION Spec
CONSTANTS
  p = p
  q = q
  g1 = g1
  g2 = g2
  d = d
  i = i
  f = f
  t = t
  Phones = {p, q}
  Guests = {g1, g2}
  Devices = {d}
  Tickets = {t}
  InviteCodes = {i}
  FriendCodes = {f}
  LoginLimit = 1
  Scenarios <- All
  Handlers = {h1, h2}
  MaxFaults = 1
  MaxDrawn = 3
INVARIANT AccountsInv
PROPERTIES LimitLifts
CHECK_DEADLOCK FALSE
