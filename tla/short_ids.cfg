SPECIFICATION IdsSpec
CONSTANTS
  ann = ann
  ben = ben
  p = p
  q = q
  Users = {ann, ben}
  Numbers = {1, 2}
  Tried = {1, 2}
  Scenarios <- All
  Handlers = {h1, h2}
  Processes = {p, q}
  NodeID <- Numbered
  MaxNodes = 1024
  Steps = 2
  MaxClock = 3
  MaxBack = 1
INVARIANTS NumbersInv NeverWhollyBarred IdsUnique
PROPERTY NumberHeld
CHECK_DEADLOCK FALSE
