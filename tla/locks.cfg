SPECIFICATION LocksSpec
CONSTANTS
  u1 = u1
  u2 = u2
  m1 = m1
  m2 = m2
  Free = Free
  Users = {u1, u2}
  InitBalance <- Balance3
  Txs = {1, 2, 3, 4, 5, 6}
  Job <- Jobs
  Packets = {m1, m2}
  Funding <- Funds
INVARIANT LocksInv
PROPERTIES TxEnds TransactionsAreSteps
CHECK_DEADLOCK FALSE
