CONSTANTS
  c1 = c1  c2 = c2  k1 = k1  k2 = k2  k3 = k3
  none = none  None = none
  Callers = {c1, c2}  Keys = {k1, k2}  Deployments <- TwoDeployments  MaxFaults = 1
  Writers = {1, 2}  Writable = {"running", "failed"}  MaxUpdates = 3  MaxLosses = 1  MaxRepeats = 1
  Agents = {"a1", "a2", "a3"}  SurfaceOf <- SurfaceOfEach  ScopeOf <- ScopeOfEach
  BatchOf <- BatchOfEach  Handlers = {"send", "refund", "lookup", "drop"}  PolicyOf <- PolicyOfEach
  FlakyTools = {"lookup"}  MaxFailures = 2  MaxRounds = 1
  Calls = {c1, c2}  ToolKeys = {k1, k2, k3}  Setups <- FiveSetups
SPECIFICATION SpecAll
INVARIANTS TimelineTells MetricsAgree AdapterBounded HostedSafe BatchesSafe
CHECK_DEADLOCK FALSE
