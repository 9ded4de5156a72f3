SPECIFICATION SysSpec
CONSTANTS
  u1 = u1
  u2 = u2
  m1 = m1
  o1 = o1
  o2 = o2
  r1 = r1
  r2 = r2
  Users = {u1, u2}
  InitBalance <- Balance4
  MsgIDs = {m1}
  Content <- OnePacket
  Requests = {"q1"}
  OrderIDs = {o1, o2}
  Order <- Orders2
  Reviewers = {r1, r2}
  Deltas <- Deduct
  MaxAdjust = 1
INVARIANTS FrozenIsOwned MoneyEntersByOrders OrdersSafety BooksMatchOrders
PROPERTIES DecisionIsFinal PacketResolvedBesideOrders
CHECK_DEADLOCK FALSE
