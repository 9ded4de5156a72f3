SPECIFICATION Spec
CONSTANTS
  u1 = u1
  u2 = u2
  u3 = u3
  m1 = m1
  m2 = m2
  Users = {u1, u2, u3}
  MsgIDs = {m1, m2}
  Requests = {r1}
  InitBalance <- Balance6
  Content <- ResendContent
INVARIANT ResendFreezesOnce
PROPERTIES ReturnedIsFinal PacketResolved
CHECK_DEADLOCK FALSE
