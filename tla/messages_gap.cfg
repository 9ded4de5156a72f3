SPECIFICATION Spec
CONSTANTS
  s = s
  t = t
  r = r
  Users = {s, t, r}
  Readers = {r}
  Attempts = {1, 2}
  Send <- Apart
  Reported = {}
  SyncLimit = 2
  HistoryLimit = 2
  Millis = 9
  MaxFaults = 1
  MaxQueries = 0
PROPERTY SyncBringsAll
CHECK_DEADLOCK FALSE
