CONSTANTS
  d1 = d1  d2 = d2  None = None
  Drivers = {d1, d2}  Steps = 3
  NoUndo <- First
  ApprovalSteps <- Second
  Flaky <- SomeThrow
  MaxCrashes = 1  MaxFaults = 2
SPECIFICATION SpecAll
INVARIANTS AllOrNothing StableOnce
PROPERTIES ReverseOrder SettledFinal Settles
CHECK_DEADLOCK FALSE
