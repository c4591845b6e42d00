CONSTANTS
  c1 = c1  c2 = c2  r1 = r1  k1 = k1  k2 = k2
  k3 = k3  k4 = k4  none = none
  Callers = {c1, c2}
  Reviewers = {r1}
  Keys = {k1}
  NoKey <- none
  DenyKeys = {}
  ApprovalKeys = {k1}
  FlakyKeys = {}
  Cost <- UnitCost
  Budget = 1
  Limit = 1
  OnExceed = "deny"
  Retries = 0
  MaxCalls = 2
  Windows = FALSE
  Crashes = FALSE
  RecordFaults = FALSE
SPECIFICATION RacingSpec
INVARIANT AtMostOnce
CHECK_DEADLOCK FALSE
