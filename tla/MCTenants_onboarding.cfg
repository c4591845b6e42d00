CONSTANTS
  s1 = s1  s2 = s2  s3 = s3  s4 = s4  u1 = u1  u2 = u2  none = none
  Sessions = {s1, s2}  Users = {u1}  UserOf <- TwoEach  None = none  MaxCrashes = 0
  Guarded = TRUE  MaxKeys = 3  MaxRevocations = 1  MaxLosses = 1
  Creators = {s1, s2}  Channels = {"slack", "email"}  Drafts <- ThreeDrafts  Plans = {"free", "pro"}
  MaxRules <- OneOrTwo  Alerts <- AgentFailed  AnyScope = none  MaxEdits = 1
  Events <- FiveEvents  Price <- ProAndScale  Deliveries = {s1, s2}  MaxFaults = 2
  Inserts = {s1, s2, s3}  Limit = 3  Near = 2  Periods = 2  MaxReserved = 1  MaxFailures = 1
  MaxRestarts = 1  Attempts = 2
SPECIFICATION FirstVisitSpec
INVARIANT FirstKeyShown
CHECK_DEADLOCK FALSE
