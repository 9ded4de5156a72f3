SPECIFICATION Spec
CONSTANTS
  o = o
  a = a
  b = b
  m1 = m1
  m2 = m2
  Nobody = Nobody
  Users = {o, a, b}
  Msgs = {m1, m2}
  MaxMembers = 2
  DefaultMinutes = 1
  MaxMinutes = 2
  Handlers = {h1, h2}
  Requests <- Busiest
  MaxAsked = 4
  MaxTime = 1
INVARIANTS NeverWhollyBarred GroupInv
PROPERTIES OwnerStands StandingHeld PinsHeld
CHECK_DEADLOCK FALSE
