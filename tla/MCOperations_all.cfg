CONSTANTS
  c1 = c1  c2 = c2  b1 = b1  b2 = b2  b3 = b3  s1 = s1  s2 = s2  s3 = s3
  e1 = e1  e2 = e2  o1 = o1  o2 = o2  none = none
  Callers = {c1, c2}  FailureThreshold = 2  SuccessThreshold = 2  Cooldown = 3  Second = 2
  Instances = {b1, b2}  Clients = {c1, c2}  Authenticated = {c1}
  AuthMax = 2  AnonMax = 1  Window = 3  MaxRestarts = 1
  Boots = {b1, b2, b3}  Scripts = {s1, s2, s3}  None = none  List <- Shipped
  AllowDrift = FALSE  Forced = FALSE  MaxFaults = 2
  Events = {e1, e2}  Subscribers = 2  Attempts = 2  Operators = {o1, o2}
  MaxJobs = 2  MaxThrows = 3  MaxLosses = 1  MaxCrashes = 1
SPECIFICATION SpecAll
INVARIANTS RetryAfterHonest LimiterHonest BootsSafe EventsAccounted
PROPERTIES Recovers BootsEnd EventsSettle
CHECK_DEADLOCK FALSE
