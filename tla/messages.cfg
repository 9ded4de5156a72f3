SPECIFICATION FairSpec
CONSTANTS
  s = s
  t = t
  r = r
  Users = {s, t, r}
  Readers = {r}
  Attempts = {1, 2, 3}
  Send <- Resent
  Reported = {3}
  SyncLimit = 1
  HistoryLimit = 1
  Millis = 9
  MaxFaults = 1
  MaxQueries = 1
INVARIANT CountsInv
PROPERTIES ImplementsLog ShownStays CatchesUp Arrives
CHECK_DEADLOCK FALSE
