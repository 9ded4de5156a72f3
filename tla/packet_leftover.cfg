SPECIFICATION Spec
CONSTANTS
  u1 = u1
  u2 = u2
  u3 = u3
  m1 = m1
  m2 = m2
  Users = {u1, u2}
  MsgIDs = {m1, m2}
  Requests = {r1, r2}
  InitBalance <- Balance3
  Content <- MixedContent
INVARIANT ReconciledByOpen
CHECK_DEADLOCK FALSE
