CONSTANTS
  c1 = c1  c2 = c2  c3 = c3  b1 = b1  b2 = b2
  q1 = q1  q2 = q2  k1 = k1  k2 = k2  t1 = t1  t2 = t2
  Clients = {c1, c2, c3}  Bodies = {b1, b2}  None = None  HandlerFails = TRUE
  Requests = {q1, q2}  Keys = {k1, k2}  Limit = 1  Targets = {"failed", "succeeded"}
  Months = 2  Floor = 1  Ceiling = 5
  PathKeys = {"k1", "page", "events", "rotate"}  Orgs = {"o1", "o2"}  Wild = "*"
  MaxCrashes = 1  MaxLapses = 2  MaxFaults = 1
SPECIFICATION TwoTabsSpec
INVARIANT DoneOnce
CHECK_DEADLOCK FALSE
