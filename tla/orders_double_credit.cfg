SPECIFICATION Spec
CONSTANTS
  u1 = u1
  o1 = o1
  o2 = o2
  o3 = o3
  r1 = r1
  r2 = r2
  InitBalance <- Balance2
  Reviewers = {r1, r2}
  Deltas <- Adjustments
  MaxAdjust = 1
  Users = {u1}
  OrderIDs = {o1, o2, o3}
  Order <- TwiceOrders
INVARIANT CreditedOnce
CHECK_DEADLOCK FALSE
